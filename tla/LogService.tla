----------------------------- MODULE LogService -----------------------------
(***************************************************************************)
(* What the AsyncLogger promises to the code that logs: the output holds   *)
(* the messages in the order in which they were accepted, each once and    *)
(* without a gap, and a shutdown of a logger that had been started returns *)
(* only when everything accepted before it is in the output, unless the    *)
(* sink has broken.  Messages may still be accepted after the shutdown;    *)
(* nothing is promised about them.                                         *)
(***************************************************************************)
EXTENDS Integers, Sequences

CONSTANT Messages

VARIABLES
    accepted,   \* every message accepted so far, in order
    output,     \* what the sink has
    due,        \* how many messages had been accepted when the shutdown began
    phase,      \* "new", "open", "closing" or "closed"
    broken      \* the sink has failed

Init ==
    /\ accepted = <<>> /\ output = <<>> /\ due = 0
    /\ phase = "new" /\ broken = FALSE

Open ==
    /\ phase = "new"
    /\ phase' = "open"
    /\ UNCHANGED <<accepted, output, due, broken>>

Accept(m) ==
    /\ accepted' = Append(accepted, m)
    /\ UNCHANGED <<output, due, phase, broken>>

Deliver ==
    /\ phase \in {"open", "closing"} /\ ~broken
    /\ Len(output) < Len(accepted)
    /\ output' = Append(output, accepted[Len(output) + 1])
    /\ UNCHANGED <<accepted, due, phase, broken>>

Break ==
    /\ broken' = TRUE
    /\ UNCHANGED <<accepted, output, due, phase>>

Close ==
    /\ phase = "open"
    /\ phase' = "closing"
    /\ due' = Len(accepted)
    /\ UNCHANGED <<accepted, output, broken>>

Finish ==
    /\ phase = "closing"
    /\ Len(output) >= due \/ broken
    /\ phase' = "closed"
    /\ UNCHANGED <<accepted, output, due, broken>>

(* A logger that was never started closes at once and loses its messages.  *)
Discard ==
    /\ phase = "new"
    /\ phase' = "closed"
    /\ due' = Len(accepted)
    /\ UNCHANGED <<accepted, output, broken>>

Next ==
    \/ \E m \in Messages : Accept(m)
    \/ Open \/ Deliver \/ Break \/ Close \/ Finish \/ Discard

Spec == Init /\ [][Next]_<<accepted, output, due, phase, broken>>
==============================================================================
