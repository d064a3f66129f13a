------------------------------- MODULE Session -------------------------------
(***************************************************************************)
(* Session (session.hpp, session.cpp): one HTTP connection.  Its handlers  *)
(* run one at a time, in the order in which they were posted, on the       *)
(* session's strand; the asynchronous operations they start complete at    *)
(* any later moment by posting a handler.                                  *)
(*                                                                         *)
(* The module gives the state of every session and the steps that concern  *)
(* a session alone.  Handlers that also act on the server or on the pool   *)
(* are actions of HttpServer.                                              *)
(***************************************************************************)
EXTENDS Integers, Sequences, FiniteSets

CONSTANTS
    Conns,                  \* the connections, each served by one Session
    RequestKinds,           \* what clients send: the kinds of request in a run
    MaxKeepaliveRequests,   \* m_maxKeepaliveRequests
    EnableKeepalive         \* m_enableKeepalive

(* A request is answered by a handler of the Router or a 404 ("fast"), is  *)
(* a POST /compute for the pool, or has a body over body_limit_mb.         *)
ASSUME SessionAssumption ==
    /\ RequestKinds \subseteq {"fast", "compute", "tooLarge"}
    /\ MaxKeepaliveRequests \in Nat
    /\ EnableKeepalive \in BOOLEAN

VARIABLES
    closed,         \* m_closed of each session
    ended,          \* m_ended
    keepAlive,      \* m_keepAlive
    requestCount,   \* m_requestCount
    ops,            \* the asynchronous operations in progress, and "again"
                    \* while onWrite is between its decision and doRead
    strand          \* the handlers posted to m_strand and not yet run

sessionVars == <<closed, ended, keepAlive, requestCount, ops, strand>>

(* The closures posted to a strand, one name for each way they can end.    *)
(* Completions with operation_aborted of a cancelled timer return at once  *)
(* and are left out.                                                       *)
Handlers == RequestKinds \cup
            {"doRead", "readError", "timeout", "sendKeepAlive", "sendClose",
             "writeOk", "writeError", "close"}

SessionTypeOK ==
    /\ closed \in [Conns -> BOOLEAN]
    /\ ended \in [Conns -> BOOLEAN]
    /\ keepAlive \in [Conns -> BOOLEAN]
    /\ requestCount \in [Conns -> Nat]
    /\ ops \in [Conns -> SUBSET {"read", "write", "timer", "again"}]
    /\ strand \in [Conns -> Seq(Handlers)]

SessionInit ==
    /\ closed = [c \in Conns |-> FALSE]
    /\ ended = [c \in Conns |-> FALSE]
    /\ keepAlive = [c \in Conns |-> FALSE]
    /\ requestCount = [c \in Conns |-> 0]
    /\ ops = [c \in Conns |-> {}]
    /\ strand = [c \in Conns |-> <<>>]

-----------------------------------------------------------------------------
Post(c, h) == strand' = [strand EXCEPT ![c] = Append(@, h)]

(* The strand takes up handler h of session c, unless it is in one. *)
Runs(c, h) ==
    /\ "again" \notin ops[c]
    /\ strand[c] # <<>>
    /\ Head(strand[c]) = h
    /\ strand' = [strand EXCEPT ![c] = Tail(@)]

(* The reactor: a read ends with a request or with an error, and a read or *)
(* write on a closed socket can only fail.                                 *)
ReadCompletes(c) ==
    /\ "read" \in ops[c]
    /\ \/ Post(c, "readError")
       \/ ~closed[c] /\ \E kind \in RequestKinds : Post(c, kind)
    /\ ops' = [ops EXCEPT ![c] = @ \ {"read"}]
    /\ UNCHANGED <<closed, ended, keepAlive, requestCount>>

WriteCompletes(c) ==
    /\ "write" \in ops[c]
    /\ \/ Post(c, "writeError")
       \/ ~closed[c] /\ Post(c, "writeOk")
    /\ ops' = [ops EXCEPT ![c] = @ \ {"write"}]
    /\ UNCHANGED <<closed, ended, keepAlive, requestCount>>

TimerExpires(c) ==
    /\ "timer" \in ops[c]
    /\ Post(c, "timeout")
    /\ ops' = [ops EXCEPT ![c] = @ \ {"timer"}]
    /\ UNCHANGED <<closed, ended, keepAlive, requestCount>>

-----------------------------------------------------------------------------
(* Session::doRead: arms the timer, then the read. *)
DoRead(c) ==
    ops' = [ops EXCEPT ![c] = (@ \ {"again"}) \cup IF closed[c] THEN {} ELSE {"timer", "read"}]

(* Fault: onRead leaves the timer running. *)
CancelNothing(c) == ops[c]

(* m_timer.cancel: a timer that has already expired is not recalled. *)
CancelTimer(c) == ops[c] \ {"timer"}

(* The body of Session::sendResponse on the strand, with `pending' the     *)
(* operations that are still in progress.                                  *)
Write(c, keep, pending) ==
    IF closed[c]
    THEN /\ ops' = [ops EXCEPT ![c] = pending]
         /\ UNCHANGED keepAlive
    ELSE /\ ops' = [ops EXCEPT ![c] = pending \cup {"write"}]
         /\ keepAlive' = [keepAlive EXCEPT ![c] = keep]

ShouldKeepAlive(c) ==
    keepAlive[c] /\ EnableKeepalive /\ requestCount[c] < MaxKeepaliveRequests

(* The doRead that Session::start posts. *)
RunDoRead(c) ==
    /\ Runs(c, "doRead")
    /\ DoRead(c)
    /\ UNCHANGED <<closed, ended, keepAlive, requestCount>>

(* Fault: the 413 keeps the connection, whose next read is in the body.    *)
OnReadTooLargeKept(c) ==
    /\ Runs(c, "tooLarge")
    /\ Write(c, TRUE, CancelTimer(c))
    /\ UNCHANGED <<closed, ended, requestCount>>

(* onRead with body_limit: a 413 that closes the connection. *)
OnReadTooLarge(c) ==
    /\ Runs(c, "tooLarge")
    /\ Write(c, FALSE, CancelTimer(c))
    /\ UNCHANGED <<closed, ended, requestCount>>

(* The closure of sendResponse, when it had to be queued on the strand.    *)
RunSend(c) ==
    /\ \/ Runs(c, "sendKeepAlive") /\ Write(c, TRUE, ops[c])
       \/ Runs(c, "sendClose") /\ Write(c, FALSE, ops[c])
    /\ UNCHANGED <<closed, ended, requestCount>>
==============================================================================
