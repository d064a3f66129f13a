------------------------------ MODULE Exchange ------------------------------
(***************************************************************************)
(* What the client on one connection is promised, with threads, strands,   *)
(* timers, the pool and the ways of an answer left out: a request that was *)
(* received is answered once, before another is read, unless the server    *)
(* drains; and the server decides to read another only after an answer     *)
(* that has kept the connection alive, within the limit, and not when it   *)
(* drains already.  The read itself comes later, and a server that begins  *)
(* to drain after the decision still makes it.                             *)
(***************************************************************************)
EXTENDS Integers

CONSTANTS MaxKeepaliveRequests, EnableKeepalive

VARIABLES
    stage,          \* how far the exchange has come
    requestCount,   \* the requests received
    draining        \* of the server

vars == <<stage, requestCount, draining>>

Init == stage = "none" /\ requestCount = 0 /\ draining = FALSE

-----------------------------------------------------------------------------
Goes(from, to) == stage = from /\ stage' = to /\ UNCHANGED draining

Receives == requestCount' = requestCount + 1

(* What an answer announces: the connection is kept, or closed. *)
Announced == {"closing"} \cup (IF EnableKeepalive THEN {"keeping"} ELSE {})

Open == Goes("none", "reading") /\ UNCHANGED requestCount

(* A request is answered at once, or later. *)
Receive == Receives /\ \E to \in Announced \cup {"processing"} : Goes("reading", to)

(* The body is too large: the connection is closed after the answer. *)
Reject == Goes("reading", "closing") /\ UNCHANGED requestCount

Answer == UNCHANGED requestCount /\ \E to \in Announced : Goes("processing", to)

(* The decision to read again. *)
ReadAgain ==
    /\ EnableKeepalive /\ requestCount < MaxKeepaliveRequests /\ ~draining
    /\ Goes("keeping", "reading")
    /\ UNCHANGED requestCount

(* The connection fails, the client is gone, or the last answer is written. *)
End == UNCHANGED requestCount /\ \E from \in {"reading", "keeping", "closing"} : Goes(from, "over")

(* Only a draining server leaves a request without an answer. *)
Drop ==
    /\ draining
    /\ \/ Goes("processing", "over") /\ UNCHANGED requestCount
       \/ Goes("reading", "over") /\ Receives

Drain == draining' = TRUE /\ UNCHANGED <<stage, requestCount>>

Next == Open \/ Receive \/ Reject \/ Answer \/ ReadAgain \/ End \/ Drop \/ Drain

Spec == Init /\ [][Next]_vars

-----------------------------------------------------------------------------
(* The limit on the requests of a connection.  The first request is read   *)
(* whatever the settings are.                                              *)
Limit == IF EnableKeepalive /\ MaxKeepaliveRequests > 1 THEN MaxKeepaliveRequests ELSE 1

RequestsBounded == requestCount <= Limit
==============================================================================
