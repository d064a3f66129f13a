---------------------------- MODULE TaskService -----------------------------
(***************************************************************************)
(* What a ThreadPool promises to the code that submits to it, with the     *)
(* queue, the workers, the wakeups and the shutdown protocol left out: an  *)
(* accepted task begins at most once and completes at most once; it leaves *)
(* the service only by completing; nothing is accepted when the service is *)
(* closed or full, and nothing begins once it is aborted.                  *)
(***************************************************************************)
EXTENDS Integers, FiniteSets

CONSTANTS
    Tasks,
    Capacity        \* how many accepted tasks may wait to begin

VARIABLES
    outstanding,    \* accepted, not completed
    begun,          \* the outstanding tasks that are being executed
    phase           \* "open", "closed" or "aborted"

vars == <<outstanding, begun, phase>>

TypeOK ==
    /\ outstanding \subseteq Tasks
    /\ begun \subseteq outstanding
    /\ phase \in {"open", "closed", "aborted"}

Init ==
    /\ outstanding = {}
    /\ begun = {}
    /\ phase = "open"

Accept(t) ==
    /\ phase = "open"
    /\ t \notin outstanding
    /\ Cardinality(outstanding \ begun) < Capacity
    /\ outstanding' = outstanding \cup {t}
    /\ UNCHANGED <<begun, phase>>

Begin(t) ==
    /\ phase # "aborted"
    /\ t \in outstanding \ begun
    /\ begun' = begun \cup {t}
    /\ UNCHANGED <<outstanding, phase>>

Complete(t) ==
    /\ t \in begun
    /\ begun' = begun \ {t}
    /\ outstanding' = outstanding \ {t}
    /\ UNCHANGED phase

Close ==
    /\ phase = "open"
    /\ phase' = "closed"
    /\ UNCHANGED <<outstanding, begun>>

Abandon ==
    /\ phase = "closed"
    /\ phase' = "aborted"
    /\ UNCHANGED <<outstanding, begun>>

Next ==
    \/ \E t \in Tasks : Accept(t) \/ Begin(t) \/ Complete(t)
    \/ Close
    \/ Abandon

Spec == Init /\ [][Next]_vars
==============================================================================
