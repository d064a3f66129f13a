-------------------------- MODULE HttpServerProofs --------------------------
(***************************************************************************)
(* Proofs about HttpServer, for any number of connections, io threads and  *)
(* queue entries and any limit on connections and requests.                *)
(***************************************************************************)
EXTENDS HttpServer, TLAPS, FiniteSetTheorems, SequenceTheorems

-----------------------------------------------------------------------------
(* The inductive invariant.  A connection that is not a session has        *)
(* nothing in progress, so that no handler can end it.                     *)
Quiet(c) ==
    /\ ops[c] = {}
    /\ strand[c] = <<>>
    /\ c \notin outstanding
    /\ \A keep \in BOOLEAN : <<c, keep>> \notin posted
    /\ c \notin remaining
    /\ ~ended[c]

QuietInv == \A c \in Conns : conn[c] \notin {"inserted", "started"} => Quiet(c)

ServerInv == TypeOK /\ QuietInv /\ CountExact

-----------------------------------------------------------------------------
(* The two ways in which a strand changes. *)
LEMMA PostProperties ==
    ASSUME strand \in [Conns -> Seq(Handlers)], NEW c \in Conns, NEW h \in Handlers, Post(c, h)
    PROVE  /\ strand' \in [Conns -> Seq(Handlers)]
           /\ \A d \in Conns \ {c} : strand'[d] = strand[d]
<1>1. Append(strand[c], h) \in Seq(Handlers)
  BY AppendProperties
<1> QED  BY <1>1 DEF Post

(* A handler taken up leaves the other strands alone, and there was one to *)
(* take up.                                                                *)
LEMMA RunsProperties ==
    ASSUME strand \in [Conns -> Seq(Handlers)], NEW c \in Conns, NEW h, Runs(c, h)
    PROVE  /\ strand' \in [Conns -> Seq(Handlers)]
           /\ \A d \in Conns \ {c} : strand'[d] = strand[d]
           /\ strand[c] # <<>>
<1>1. strand[c] \in Seq(Handlers) /\ strand[c] # <<>>
  BY DEF Runs
<1>2. Tail(strand[c]) \in Seq(Handlers)
  BY <1>1, HeadTailProperties
<1> QED  BY <1>1, <1>2 DEF Runs

(* The names that handlers may have. *)
LEMMA HandlersFacts ==
    RequestKinds \cup {"doRead", "readError", "timeout", "sendKeepAlive", "sendClose",
                       "writeOk", "writeError", "close"} \subseteq Handlers
BY DEF Handlers

(* What a session may be in. *)
Operating == {"read", "write", "timer", "again"}
USE DEF Operating

(* A response written, or dropped because the socket is closed, leaves     *)
(* ops and keepAlive well typed.                                           *)
LEMMA WriteProperties ==
    ASSUME ops \in [Conns -> SUBSET Operating],
           keepAlive \in [Conns -> BOOLEAN],
           NEW c \in Conns, NEW keep \in BOOLEAN,
           NEW pending \in SUBSET Operating,
           Write(c, keep, pending)
    PROVE  /\ ops' \in [Conns -> SUBSET Operating]
           /\ keepAlive' \in [Conns -> BOOLEAN]
           /\ \A d \in Conns \ {c} : ops'[d] = ops[d]
<1>1. CASE closed[c]
  BY <1>1 DEF Write
<1>2. CASE ~closed[c]
  <2>1. pending \cup {"write"} \in SUBSET Operating
    OBVIOUS
  <2>2. /\ ops' = [ops EXCEPT ![c] = pending \cup {"write"}]
        /\ keepAlive' = [keepAlive EXCEPT ![c] = keep]
    BY <1>2 DEF Write
  <2> QED  BY <2>1, <2>2
<1> QED  BY <1>1, <1>2

(* Cancelling the timer leaves a set of operations. *)
LEMMA CancelProperties ==
    ASSUME ops \in [Conns -> SUBSET Operating], NEW c \in Conns
    PROVE  /\ ops[c] \in SUBSET Operating
           /\ CancelTimer(c) \in SUBSET Operating
BY DEF CancelTimer

-----------------------------------------------------------------------------
(* Type correctness; that m_activeSessions does not wrap is left to the    *)
(* invariant on the count.                                                 *)
LEMMA TypeInit == Init => TypeOK
<1> SUFFICES ASSUME Init PROVE TypeOK
  OBVIOUS
<1>1. strand \in [Conns -> Seq(Handlers)]
  BY DEF Init, SessionInit
<1>2. SessionTypeOK
  BY <1>1 DEF Init, SessionInit, SessionTypeOK
<1> QED  BY <1>2 DEF Init, TypeOK, Pool!Init, Pool!TypeOK

(* Every step keeps the types, provided the count does not run below zero. *)
LEMMA TypeStep == TypeOK /\ active' \in Nat /\ [Next]_vars => TypeOK'
<1> SUFFICES ASSUME TypeOK, active' \in Nat, [Next]_vars PROVE TypeOK'
  OBVIOUS
<1> USE DEF NextAccept
<1>1. ASSUME NEW c \in Conns, Connect(c)
      PROVE  TypeOK'
  BY <1>1
  DEF TypeOK, SessionTypeOK, Pool!TypeOK, Connect, sessionVars, countVars, drainVars,
      poolVars
<1>2. ASSUME NEW c \in Conns, Accept(c)
      PROVE  TypeOK'
  BY <1>2
  DEF TypeOK, SessionTypeOK, Pool!TypeOK, Accept, ThreadFree, sessionVars, countVars,
      drainVars, poolVars
<1>3. ASSUME NEW c \in Conns, Reject(c)
      PROVE  TypeOK'
  BY <1>3
  DEF TypeOK, SessionTypeOK, Pool!TypeOK, Reject, ThreadFree, sessionVars, countVars,
      drainVars, poolVars
<1>4. ASSUME NEW c \in Conns, Rearm(c)
      PROVE  TypeOK'
  BY <1>4
  DEF TypeOK, SessionTypeOK, Pool!TypeOK, Rearm, sessionVars, countVars, drainVars, poolVars
<1>5. ASSUME NEW c \in Conns, Insert(c)
      PROVE  TypeOK'
  BY <1>5 DEF TypeOK, SessionTypeOK, Pool!TypeOK, Insert, sessionVars, drainVars, poolVars
<1>6. ASSUME NEW c \in Conns, Start(c)
      PROVE  TypeOK'
  <2>1. strand' \in [Conns -> Seq(Handlers)]
    BY <1>6, PostProperties, HandlersFacts DEF Start, TypeOK, SessionTypeOK
  <2> QED
    BY <1>6, <2>1 DEF TypeOK, SessionTypeOK, Pool!TypeOK, Start, countVars, drainVars, poolVars
<1>7. ASSUME NEW c \in Conns, IoCompletes(c)
      PROVE  TypeOK'
  <2>1. strand' \in [Conns -> Seq(Handlers)]
    BY <1>7, PostProperties, HandlersFacts
    DEF IoCompletes, ReadCompletes, WriteCompletes, TimerExpires, TypeOK, SessionTypeOK
  <2>2. ops[c] \in SUBSET Operating
    BY DEF TypeOK, SessionTypeOK
  <2>3. \E op \in Operating : ops' = [ops EXCEPT ![c] = @ \ {op}]
    BY <1>7 DEF IoCompletes, ReadCompletes, WriteCompletes, TimerExpires
  <2>4. ops' \in [Conns -> SUBSET Operating]
    BY <2>2, <2>3 DEF TypeOK, SessionTypeOK
  <2>5. UNCHANGED <<closed, ended, keepAlive, requestCount>>
    BY <1>7 DEF IoCompletes, ReadCompletes, WriteCompletes, TimerExpires
  <2> QED
    BY <1>7, <2>1, <2>4, <2>5
   
    DEF TypeOK, SessionTypeOK, Pool!TypeOK, IoCompletes, acceptVars, countVars, drainVars,
        poolVars
<1>8. ASSUME NEW c \in Conns, LocalHandler(c)
      PROVE  TypeOK'
  <2>1. strand' \in [Conns -> Seq(Handlers)]
    BY <1>8, RunsProperties
    DEF LocalHandler, RunDoRead, OnReadTooLarge, RunSend, TypeOK, SessionTypeOK
  <2>2. UNCHANGED <<closed, ended, requestCount>>
    BY <1>8 DEF LocalHandler, RunDoRead, OnReadTooLarge, RunSend
  <2>3. ops' \in [Conns -> SUBSET Operating] /\ keepAlive' \in [Conns -> BOOLEAN]
    <3>1. CASE RunDoRead(c)
      BY <3>1 DEF TypeOK, SessionTypeOK, RunDoRead, DoRead
    <3>2. CASE OnReadTooLarge(c)
      BY <3>2, WriteProperties, CancelProperties DEF TypeOK, SessionTypeOK, OnReadTooLarge
    <3>3. CASE RunSend(c)
      BY <3>3, WriteProperties, CancelProperties DEF TypeOK, SessionTypeOK, RunSend
    <3> QED  BY <1>8, <3>1, <3>2, <3>3 DEF LocalHandler
  <2> QED
    BY <1>8, <2>1, <2>2, <2>3
   
    DEF TypeOK, SessionTypeOK, Pool!TypeOK, LocalHandler, acceptVars, countVars, drainVars,
        poolVars
<1>9. ASSUME NEW c \in Conns, OnReadError(c)
      PROVE  TypeOK'
  <2>1. strand' \in [Conns -> Seq(Handlers)]
    BY <1>9, RunsProperties DEF OnReadError, TypeOK, SessionTypeOK
  <2> QED
    BY <1>9, <2>1
    DEF TypeOK, SessionTypeOK, Pool!TypeOK, OnReadError, EndSession, CancelTimer,
        CheckDrainComplete, acceptVars, countVars, drainVars, poolVars
<1>10. ASSUME NEW c \in Conns, OnFastRequest(c)
      PROVE  TypeOK'
  <2>1. strand' \in [Conns -> Seq(Handlers)]
    BY <1>10, RunsProperties DEF OnFastRequest, OnRequest, TypeOK, SessionTypeOK
  <2>2. requestCount' \in [Conns -> Nat] /\ UNCHANGED <<closed, ended>>
    BY <1>10 DEF OnFastRequest, OnRequest, TypeOK, SessionTypeOK
  <2>3. PICK keep \in BOOLEAN : Write(c, keep, CancelTimer(c))
    BY <1>10, SessionAssumption DEF OnFastRequest, KeepAliveAnswers
  <2>4. ops' \in [Conns -> SUBSET Operating] /\ keepAlive' \in [Conns -> BOOLEAN]
    BY <2>3, WriteProperties, CancelProperties DEF TypeOK, SessionTypeOK
  <2> QED
    BY <1>10, <2>1, <2>2, <2>4
    DEF TypeOK, SessionTypeOK, Pool!TypeOK, OnFastRequest, OnRequest,
        acceptVars, countVars, drainVars, poolVars
<1>11. ASSUME NEW c \in Conns, OnComputeRequest(c)
      PROVE  TypeOK'
  <2>1. strand' \in [Conns -> Seq(Handlers)]
    BY <1>11, RunsProperties DEF OnComputeRequest, OnRequest, TypeOK, SessionTypeOK
  <2>2. requestCount' \in [Conns -> Nat] /\ UNCHANGED <<closed, ended, keepAlive>>
    BY <1>11 DEF OnComputeRequest, OnRequest, TypeOK, SessionTypeOK
  <2>3. ops' \in [Conns -> SUBSET Operating]
    BY <1>11, CancelProperties DEF OnComputeRequest, TypeOK, SessionTypeOK
  <2>4. posted' \subseteq Conns \X BOOLEAN /\ Pool!TypeOK'
    <3>1. CASE Pool!Accept(c) /\ UNCHANGED posted
      BY <3>1 DEF Pool!Accept, TypeOK, Pool!TypeOK
    <3>2. CASE posted' = posted \cup {<<c, FALSE>>} /\ UNCHANGED poolVars
      <4>1. <<c, FALSE>> \in Conns \X BOOLEAN
        OBVIOUS
      <4> QED  BY <3>2, <4>1 DEF TypeOK, Pool!TypeOK, poolVars
    <3> QED  BY <1>11, <3>1, <3>2 DEF OnComputeRequest
  <2> QED
    BY <1>11, <2>1, <2>2, <2>3, <2>4
    DEF TypeOK, SessionTypeOK, OnComputeRequest, OnRequest,
        acceptVars, countVars, drainVars
<1>12. ASSUME NEW c \in Conns, OnWriteError(c)
      PROVE  TypeOK'
  <2>1. strand' \in [Conns -> Seq(Handlers)]
    BY <1>12, RunsProperties DEF OnWriteError, TypeOK, SessionTypeOK
  <2> QED
    BY <1>12, <2>1
    DEF TypeOK, SessionTypeOK, Pool!TypeOK, OnWriteError, EndSession, CancelTimer,
        CheckDrainComplete, acceptVars, countVars, drainVars, poolVars
<1>13. ASSUME NEW c \in Conns, OnWriteLast(c)
      PROVE  TypeOK'
  <2>1. strand' \in [Conns -> Seq(Handlers)]
    BY <1>13, RunsProperties DEF OnWriteLast, TypeOK, SessionTypeOK
  <2> QED
    BY <1>13, <2>1
    DEF TypeOK, SessionTypeOK, Pool!TypeOK, OnWriteLast, EndSession, CancelTimer,
        CheckDrainComplete, acceptVars, countVars, drainVars, poolVars
<1>14. ASSUME NEW c \in Conns, OnWriteNext(c)
      PROVE  TypeOK'
  <2>1. strand' \in [Conns -> Seq(Handlers)]
    BY <1>14, RunsProperties DEF OnWriteNext, TypeOK, SessionTypeOK
  <2> QED
    BY <1>14, <2>1
    DEF TypeOK, SessionTypeOK, Pool!TypeOK, OnWriteNext, acceptVars, countVars,
        drainVars, poolVars
<1>14a. ASSUME NEW c \in Conns, ReadAgain(c)
      PROVE  TypeOK'
  BY <1>14a
  DEF TypeOK, SessionTypeOK, Pool!TypeOK, ReadAgain, DoRead, acceptVars, countVars,
      drainVars, poolVars
<1>15. ASSUME NEW c \in Conns, OnTimeout(c)
      PROVE  TypeOK'
  <2>1. strand' \in [Conns -> Seq(Handlers)]
    BY <1>15, RunsProperties DEF OnTimeout, TypeOK, SessionTypeOK
  <2> QED
    BY <1>15, <2>1
    DEF TypeOK, SessionTypeOK, Pool!TypeOK, OnTimeout, EndSession, CancelTimer,
        CheckDrainComplete, acceptVars, countVars, drainVars, poolVars
<1>16. ASSUME NEW c \in Conns, OnClose(c)
      PROVE  TypeOK'
  <2>1. strand' \in [Conns -> Seq(Handlers)]
    BY <1>16, RunsProperties DEF OnClose, TypeOK, SessionTypeOK
  <2>2. ops' \in [Conns -> SUBSET Operating] /\ closed' \in [Conns -> BOOLEAN]
    <3>1. \/ UNCHANGED <<closed, ops>>
          \/ /\ closed' = [closed EXCEPT ![c] = TRUE]
             /\ ops' = [ops EXCEPT ![c] = CancelTimer(c)]
      BY <1>16 DEF OnClose
    <3>2. CancelTimer(c) \in SUBSET Operating
      BY CancelProperties DEF TypeOK, SessionTypeOK
    <3>3. CASE UNCHANGED <<closed, ops>>
      BY <3>3 DEF TypeOK, SessionTypeOK
    <3>4. CASE /\ closed' = [closed EXCEPT ![c] = TRUE]
               /\ ops' = [ops EXCEPT ![c] = CancelTimer(c)]
      BY <3>2, <3>4 DEF TypeOK, SessionTypeOK
    <3> QED  BY <3>1, <3>3, <3>4
  <2>3. ended' \in [Conns -> BOOLEAN] /\ sessions' \subseteq Conns /\ stopped' \in BOOLEAN
    <3>1. UNCHANGED <<ended, countVars, stopped>> \/ EndSession(c)
      BY <1>16 DEF OnClose
    <3>2. ASSUME EndSession(c), ~ended[c]
          PROVE  /\ ended' = [ended EXCEPT ![c] = TRUE]
                 /\ sessions' = sessions \ {c}
                 /\ stopped' = (stopped \/ (draining /\ active' = 0))
      BY <3>2 DEF EndSession, CheckDrainComplete
    <3> QED
      BY <3>1, <3>2 DEF EndSession, TypeOK, SessionTypeOK, countVars
  <2> QED
    BY <1>16, <2>1, <2>2, <2>3
    DEF TypeOK, SessionTypeOK, Pool!TypeOK, OnClose, acceptVars, drainVars, poolVars
<1>17. ASSUME NEW c \in Conns, Begin(c)
      PROVE  TypeOK'
  BY <1>17
  DEF TypeOK, SessionTypeOK, Pool!TypeOK, Begin, Pool!Begin, sessionVars, acceptVars,
      countVars, drainVars
<1>18. ASSUME NEW c \in Conns, Complete(c)
      PROVE  TypeOK'
  <2>1. PICK keep \in BOOLEAN : posted' = posted \cup {<<c, keep>>}
    BY <1>18, SessionAssumption DEF Complete, KeepAliveAnswers
  <2>2. <<c, keep>> \in Conns \X BOOLEAN
    OBVIOUS
  <2>3. posted' \subseteq Conns \X BOOLEAN
    BY <2>1, <2>2 DEF TypeOK
  <2> QED
    BY <1>18, <2>3
   
    DEF TypeOK, Pool!TypeOK, SessionTypeOK, Complete, Pool!Complete, sessionVars,
        acceptVars, countVars, drainVars
<1>19. ASSUME NEW c \in Conns, RunPosted(c)
      PROVE  TypeOK'
  <2>1. strand' \in [Conns -> Seq(Handlers)]
    BY <1>19, PostProperties, HandlersFacts DEF RunPosted, TypeOK, SessionTypeOK
  <2> QED
    BY <1>19, <2>1
    DEF TypeOK, SessionTypeOK, Pool!TypeOK, RunPosted, acceptVars, countVars, drainVars,
        poolVars
<1>20. ASSUME NEW c \in Conns, ForceClose(c)
      PROVE  TypeOK'
  <2>1. strand' \in [Conns -> Seq(Handlers)]
    BY <1>20, PostProperties, HandlersFacts DEF ForceClose, TypeOK, SessionTypeOK
  <2> QED
    BY <1>20, <2>1
    DEF TypeOK, SessionTypeOK, Pool!TypeOK, ForceClose, acceptVars, countVars, poolVars
<1>21. CASE AcceptError
  BY <1>21
  DEF TypeOK, SessionTypeOK, Pool!TypeOK, AcceptError, sessionVars, countVars, drainVars,
      poolVars
<1>22. CASE Signal
  BY <1>22
  DEF TypeOK, SessionTypeOK, Pool!TypeOK, Signal, sessionVars, acceptVars, countVars,
      poolVars
<1>23. CASE SignalCheck
  BY <1>23
  DEF TypeOK, SessionTypeOK, Pool!TypeOK, SignalCheck, CheckDrainComplete, sessionVars,
      acceptVars, countVars, poolVars
<1>24. CASE DrainTimeout
  BY <1>24
  DEF TypeOK, SessionTypeOK, Pool!TypeOK, DrainTimeout, sessionVars, acceptVars, countVars,
      poolVars
<1>25. CASE DrainCheck
  BY <1>25
  DEF TypeOK, SessionTypeOK, Pool!TypeOK, DrainCheck, CheckDrainComplete, sessionVars,
      acceptVars, countVars, poolVars
<1>26. CASE OutOfWork
  BY <1>26
  DEF TypeOK, SessionTypeOK, Pool!TypeOK, OutOfWork, sessionVars, acceptVars, countVars,
      drainVars, poolVars
<1>27. CASE JoinIoThreads
  BY <1>27
  DEF TypeOK, SessionTypeOK, Pool!TypeOK, JoinIoThreads, Pool!Close, sessionVars,
      acceptVars, countVars
<1>28. CASE PoolDrained
  BY <1>28
  DEF TypeOK, SessionTypeOK, Pool!TypeOK, PoolDrained, sessionVars, acceptVars, countVars,
      drainVars, poolVars
<1>29. CASE PoolAborted
  BY <1>29
  DEF TypeOK, SessionTypeOK, Pool!TypeOK, PoolAborted, Pool!Abandon, sessionVars,
      acceptVars, countVars, drainVars
<1>30. CASE UNCHANGED vars
  BY <1>30
  DEF TypeOK, SessionTypeOK, Pool!TypeOK, vars, sessionVars, acceptVars, countVars,
      drainVars, poolVars
<1> QED
  BY <1>1, <1>2, <1>3, <1>4, <1>5, <1>6, <1>7, <1>8, <1>9, <1>10, <1>11, <1>12, <1>13,
     <1>14, <1>14a, <1>15, <1>16, <1>17, <1>18, <1>19, <1>20, <1>21, <1>22, <1>23, <1>24, <1>25,
     <1>26, <1>27, <1>28, <1>29, <1>30
  DEF Next, AcceptStep, StrandStep, ShutdownStep, Returned

-----------------------------------------------------------------------------
(* Steps that concern one session in service leave every connection that   *)
(* is not in service quiet.                                                *)
LEMMA QuietFrame ==
    ASSUME QuietInv, NEW c \in Conns,
           conn[c] \in {"inserted", "started"},
           UNCHANGED conn,
           \A d \in Conns \ {c} :
               /\ ops'[d] = ops[d] /\ strand'[d] = strand[d] /\ ended'[d] = ended[d]
               /\ d \in outstanding' => d \in outstanding
               /\ \A keep \in BOOLEAN : <<d, keep>> \in posted' => <<d, keep>> \in posted
               /\ d \in remaining' => d \in remaining
    PROVE  QuietInv'
BY DEF QuietInv, Quiet

(* A connection with something in progress is in service. *)
LEMMA InService ==
    ASSUME QuietInv, NEW c \in Conns,
           \/ ops[c] # {} \/ strand[c] # <<>> \/ c \in outstanding
           \/ \E keep \in BOOLEAN : <<c, keep>> \in posted
           \/ c \in remaining
    PROVE  conn[c] \in {"inserted", "started"}
BY DEF QuietInv, Quiet

(* A step that inserts and ends no session keeps the count. *)
LEMMA CountFrame ==
    ASSUME CountExact, UNCHANGED <<sessions, active, ended>>,
           \A c \in Conns :
               conn'[c] \in {"inserted", "started"} <=> conn[c] \in {"inserted", "started"}
    PROVE  CountExact'
BY DEF CountExact

(* endSession of a session in service takes it out of the count, once. *)
LEMMA EndSessionCount ==
    ASSUME TypeOK, CountExact, NEW c \in Conns,
           conn[c] \in {"inserted", "started"}, UNCHANGED conn,
           EndSession(c)
    PROVE  /\ CountExact'
           /\ \A d \in Conns \ {c} : ended'[d] = ended[d]
           /\ active' \in Nat /\ active' <= active
           /\ active' = 0 /\ draining => stopped' \/ active = 0
           /\ stopped => stopped'
<1>1. IsFiniteSet(sessions) /\ active = Cardinality(sessions) /\ active \in Nat
  BY ServerAssumption, FS_Subset DEF CountExact, TypeOK
<1>2. CASE ended[c]
  <2>1. UNCHANGED <<ended, sessions, active, stopped>>
    BY <1>2 DEF EndSession, countVars
  <2>2. CountExact'
    BY <2>1, CountFrame
  <2> QED  BY <1>1, <2>1, <2>2
<1>3. CASE ~ended[c]
  <2>1. /\ ended' = [ended EXCEPT ![c] = TRUE]
        /\ sessions' = sessions \ {c}
        /\ active' = active - 1
        /\ stopped' = (stopped \/ (draining /\ active' = 0))
    BY <1>3 DEF EndSession, CheckDrainComplete
  <2>2. c \in sessions
    BY <1>3 DEF CountExact
  <2>3. Cardinality(sessions') = Cardinality(sessions) - 1
    BY <1>1, <2>1, <2>2, FS_RemoveElement
  <2>4. sessions' = {d \in Conns : conn'[d] \in {"inserted", "started"} /\ ~ended'[d]}
    BY <2>1 DEF CountExact, TypeOK, SessionTypeOK
  <2>5. active' = Cardinality(sessions') /\ active' \in Nat
    <3>1. IsFiniteSet(sessions')
      BY <1>1, <2>1, FS_RemoveElement
    <3> QED  BY <1>1, <2>1, <2>3, <3>1, FS_CardinalityType
  <2> QED
    BY <1>1, <2>1, <2>4, <2>5 DEF CountExact, TypeOK, SessionTypeOK
<1> QED  BY <1>2, <1>3

-----------------------------------------------------------------------------
(* The handlers that end sessions, all in one form. *)
Ender(c) ==
    \/ OnReadError(c) \/ OnWriteError(c) \/ OnWriteLast(c) \/ OnTimeout(c) \/ OnClose(c)

(* A handler that may end a session runs on the strand of a session in     *)
(* service, and changes the count through EndSession only.                 *)
LEMMA EnderStep ==
    ASSUME ServerInv, NEW c \in Conns, Ender(c)
    PROVE  /\ QuietInv' /\ CountExact'
           /\ conn[c] \in {"inserted", "started"}
           /\ EndSession(c) \/ UNCHANGED <<ended, sessions, active, stopped>>
           /\ UNCHANGED <<conn, armed, draining, signal, drain, remaining, posted, outstanding>>
<1>1. PICK h : Runs(c, h)
  BY DEF Ender, OnReadError, OnWriteError, OnWriteLast, OnTimeout, OnClose
<1>2. strand[c] # <<>> /\ \A d \in Conns \ {c} : strand'[d] = strand[d]
  BY <1>1, RunsProperties DEF ServerInv, TypeOK, SessionTypeOK
<1>3. conn[c] \in {"inserted", "started"}
  BY <1>2, InService DEF ServerInv
<1>4. UNCHANGED <<conn, armed, draining, signal, drain, remaining, posted, outstanding>>
  BY DEF Ender, OnReadError, OnWriteError, OnWriteLast, OnTimeout, OnClose, acceptVars,
         drainVars, poolVars
<1>5. EndSession(c) \/ UNCHANGED <<ended, sessions, active, stopped>>
  BY DEF Ender, OnReadError, OnWriteError, OnWriteLast, OnTimeout, OnClose, countVars
<1>6. \A d \in Conns \ {c} : ops'[d] = ops[d]
  BY DEF Ender, OnReadError, OnWriteError, OnWriteLast, OnTimeout, OnClose, ServerInv, TypeOK,
         SessionTypeOK
<1>7. CountExact' /\ \A d \in Conns \ {c} : ended'[d] = ended[d]
  <2>1. CASE EndSession(c)
    BY <1>3, <1>4, <2>1, EndSessionCount DEF ServerInv
  <2>2. CASE UNCHANGED <<ended, sessions, active, stopped>>
    BY <1>4, <2>2, CountFrame DEF ServerInv
  <2> QED  BY <1>5, <2>1, <2>2
<1>8. QuietInv'
  BY <1>2, <1>3, <1>4, <1>6, <1>7, QuietFrame DEF ServerInv
<1> QED  BY <1>3, <1>4, <1>5, <1>7, <1>8

(* Handlers of a session, steps of the pool and of the reactor that leave  *)
(* m_sessions alone.                                                       *)
Server(c) ==
    \/ IoCompletes(c) \/ LocalHandler(c) \/ OnFastRequest(c) \/ OnComputeRequest(c)
    \/ OnWriteNext(c) \/ ReadAgain(c) \/ Begin(c) \/ Complete(c) \/ RunPosted(c) \/ ForceClose(c)

(* What such a step changes belongs to one session in service. *)
LEMMA ServerStep ==
    ASSUME ServerInv, NEW c \in Conns, Server(c)
    PROVE  /\ UNCHANGED <<conn, armed, sessions, active, ended, draining, signal, drain, stopped>>
           /\ QuietInv' /\ CountExact'
<1> USE DEF ServerInv
<1>1. UNCHANGED <<conn, armed, sessions, active, ended, draining, signal, drain, stopped>>
  <2>1. CASE IoCompletes(c)
    BY <2>1 DEF IoCompletes, ReadCompletes, WriteCompletes, TimerExpires, acceptVars,
        countVars, drainVars
  <2>2. CASE LocalHandler(c)
    BY <2>2
    DEF LocalHandler, RunDoRead, OnReadTooLarge, RunSend, acceptVars, countVars, drainVars
  <2>3. CASE OnFastRequest(c) \/ OnComputeRequest(c) \/ OnWriteNext(c) \/ ReadAgain(c)
    BY <2>3 DEF OnFastRequest, OnComputeRequest, OnRequest, OnWriteNext, ReadAgain, acceptVars,
        countVars, drainVars
  <2>4. CASE Begin(c) \/ Complete(c) \/ RunPosted(c) \/ ForceClose(c)
    BY <2>4
    DEF Begin, Complete, RunPosted, ForceClose, sessionVars, acceptVars, countVars,
        drainVars
  <2> QED  BY <2>1, <2>2, <2>3, <2>4 DEF Server
<1>2. CountExact'
  BY <1>1, CountFrame
<1>3. QuietInv'
  <2>1. ASSUME conn[c] \in {"inserted", "started"},
               \A d \in Conns \ {c} : ops'[d] = ops[d] /\ strand'[d] = strand[d],
               \A d \in Conns \ {c} : d \in outstanding' => d \in outstanding,
               \A d \in Conns \ {c} : \A keep \in BOOLEAN :
                    <<d, keep>> \in posted' => <<d, keep>> \in posted,
               remaining' \subseteq remaining
        PROVE  QuietInv'
    BY <1>1, <2>1, QuietFrame
  <2>2. CASE IoCompletes(c)
    <3>1. ops[c] # {} /\ \A d \in Conns \ {c} : ops'[d] = ops[d]
      BY <2>2
      DEF IoCompletes, ReadCompletes, WriteCompletes, TimerExpires, TypeOK, SessionTypeOK
    <3>2. \A d \in Conns \ {c} : strand'[d] = strand[d]
      BY <2>2 DEF IoCompletes, ReadCompletes, WriteCompletes, TimerExpires, Post, TypeOK,
          SessionTypeOK
    <3>3. conn[c] \in {"inserted", "started"}
      BY <3>1, InService
    <3> QED
      BY <2>1, <2>2, <3>1, <3>2, <3>3 DEF IoCompletes, drainVars, poolVars
  <2>3. ASSUME NEW h, Runs(c, h), UNCHANGED remaining,
               \A d \in Conns \ {c} : ops'[d] = ops[d],
               \A d \in Conns \ {c} : d \in outstanding' => d \in outstanding,
               \A d \in Conns \ {c} : \A keep \in BOOLEAN :
                    <<d, keep>> \in posted' => <<d, keep>> \in posted
        PROVE  QuietInv'
    <3>1. strand[c] # <<>> /\ \A d \in Conns \ {c} : strand'[d] = strand[d]
      BY <2>3, RunsProperties DEF TypeOK, SessionTypeOK
    <3>2. conn[c] \in {"inserted", "started"}
      BY <3>1, InService
    <3> QED  BY <2>1, <2>3, <3>1, <3>2
  <2>4. CASE LocalHandler(c)
    <3>1. PICK h : Runs(c, h)
      BY <2>4 DEF LocalHandler, RunDoRead, OnReadTooLarge, RunSend
    <3>2. \A d \in Conns \ {c} : ops'[d] = ops[d]
      <4>1. CASE RunDoRead(c)
        BY <4>1 DEF RunDoRead, DoRead, TypeOK, SessionTypeOK
      <4>2. CASE OnReadTooLarge(c)
        BY <4>2, WriteProperties, CancelProperties DEF OnReadTooLarge, TypeOK, SessionTypeOK
      <4>3. CASE RunSend(c)
        BY <4>3, WriteProperties, CancelProperties DEF RunSend, TypeOK, SessionTypeOK
      <4> QED  BY <2>4, <4>1, <4>2, <4>3 DEF LocalHandler
    <3> QED  BY <2>3, <2>4, <3>1, <3>2 DEF LocalHandler, drainVars, poolVars
  <2>5. CASE OnFastRequest(c)
    <3>1. PICK keep \in BOOLEAN : Write(c, keep, CancelTimer(c))
      BY <2>5, SessionAssumption DEF OnFastRequest, KeepAliveAnswers
    <3>2. \A d \in Conns \ {c} : ops'[d] = ops[d]
      BY <3>1, WriteProperties, CancelProperties DEF TypeOK, SessionTypeOK
    <3>3. Runs(c, "fast") /\ UNCHANGED <<posted, outstanding, remaining>>
      BY <2>5 DEF OnFastRequest, OnRequest, drainVars, poolVars
    <3> QED  BY <2>3, <3>2, <3>3
  <2>6. CASE OnComputeRequest(c)
    <3>1. \A d \in Conns \ {c} : ops'[d] = ops[d]
      BY <2>6 DEF OnComputeRequest, TypeOK, SessionTypeOK
    <3>2. Runs(c, "compute") /\ UNCHANGED remaining
      BY <2>6 DEF OnComputeRequest, OnRequest, drainVars
    <3>3. \A d \in Conns \ {c} : d \in outstanding' => d \in outstanding
      BY <2>6 DEF OnComputeRequest, Pool!Accept, poolVars
    <3>4. \A d \in Conns \ {c} : \A keep \in BOOLEAN :
              <<d, keep>> \in posted' => <<d, keep>> \in posted
      <4>1. UNCHANGED posted \/ posted' = posted \cup {<<c, FALSE>>}
        BY <2>6 DEF OnComputeRequest
      <4>2. \A d \in Conns \ {c} : \A keep \in BOOLEAN : <<d, keep>> # <<c, FALSE>>
        OBVIOUS
      <4> QED  BY <4>1, <4>2
    <3> QED  BY <2>3, <3>1, <3>2, <3>3, <3>4
  <2>7. CASE OnWriteNext(c)
    <3>1. \A d \in Conns \ {c} : ops'[d] = ops[d]
      BY <2>7 DEF OnWriteNext, TypeOK, SessionTypeOK
    <3> QED  BY <2>3, <2>7, <3>1 DEF OnWriteNext, drainVars, poolVars
  <2>7a. CASE ReadAgain(c)
    <3>1. ops[c] # {} /\ \A d \in Conns \ {c} : ops'[d] = ops[d]
      BY <2>7a DEF ReadAgain, DoRead, TypeOK, SessionTypeOK
    <3>2. conn[c] \in {"inserted", "started"}
      BY <3>1, InService
    <3> QED  BY <2>1, <2>7a, <3>1, <3>2 DEF ReadAgain, drainVars, poolVars
  <2>8. CASE Begin(c)
    <3>1. conn[c] \in {"inserted", "started"}
      BY <2>8, InService DEF Begin, Pool!Begin
    <3> QED  BY <2>1, <2>8, <3>1 DEF Begin, Pool!Begin, sessionVars, drainVars
  <2>9. CASE Complete(c)
    <3>1. conn[c] \in {"inserted", "started"}
      BY <2>9, InService DEF Complete, Pool!Complete, TypeOK, Pool!TypeOK
    <3>2. PICK keep : posted' = posted \cup {<<c, keep>>}
      BY <2>9 DEF Complete
    <3>3. UNCHANGED <<ops, strand, remaining>> /\ outstanding' \subseteq outstanding
      BY <2>9 DEF Complete, Pool!Complete, sessionVars, drainVars
    <3> QED  BY <2>1, <3>1, <3>2, <3>3
  <2>10. CASE RunPosted(c)
    <3>1. PICK keep \in BOOLEAN :
            /\ <<c, keep>> \in posted
            /\ posted' = posted \ {<<c, keep>>}
            /\ Post(c, IF keep THEN "sendKeepAlive" ELSE "sendClose")
      BY <2>10 DEF RunPosted
    <3>2. conn[c] \in {"inserted", "started"}
      BY <3>1, InService
    <3>3. \A d \in Conns \ {c} : strand'[d] = strand[d]
      BY <3>1 DEF Post, TypeOK, SessionTypeOK
    <3>4. UNCHANGED <<ops, remaining, outstanding>>
      BY <2>10 DEF RunPosted, drainVars, poolVars
    <3> QED  BY <2>1, <3>1, <3>2, <3>3, <3>4
  <2>11. CASE ForceClose(c)
    <3>1. conn[c] \in {"inserted", "started"}
      BY <2>11, InService DEF ForceClose
    <3>2. \A d \in Conns \ {c} : strand'[d] = strand[d]
      BY <2>11 DEF ForceClose, Post, TypeOK, SessionTypeOK
    <3> QED  BY <2>1, <2>11, <3>1, <3>2 DEF ForceClose, poolVars
  <2> QED
    BY <2>2, <2>4, <2>5, <2>6, <2>7, <2>7a, <2>8, <2>9, <2>10, <2>11 DEF Server
<1> QED  BY <1>1, <1>2, <1>3

-----------------------------------------------------------------------------
(* The invariant holds at the start. *)
LEMMA ServerInit == Init => ServerInv
<1> SUFFICES ASSUME Init PROVE ServerInv
  OBVIOUS
<1>1. TypeOK
  BY TypeInit
<1>2. QuietInv
  BY SessionAssumption DEF Init, SessionInit, QuietInv, Quiet, Pool!Init
<1>3. CountExact
  <2>1. Cardinality({}) = 0
    BY FS_EmptySet
  <2> QED  BY <2>1 DEF Init, SessionInit, CountExact
<1> QED  BY <1>1, <1>2, <1>3 DEF ServerInv

(* Every step keeps connections that are not in service quiet, and the     *)
(* count exact.                                                            *)
LEMMA CountStep == ServerInv /\ [Next]_vars => QuietInv' /\ CountExact'
<1> SUFFICES ASSUME ServerInv, [Next]_vars PROVE QuietInv' /\ CountExact'
  OBVIOUS
<1> USE DEF ServerInv
<1>1. ASSUME NEW c \in Conns, Ender(c)
      PROVE  QuietInv' /\ CountExact'
  BY <1>1, EnderStep
<1>2. ASSUME NEW c \in Conns, Server(c)
      PROVE  QuietInv' /\ CountExact'
  BY <1>2, ServerStep
<1>3. ASSUME NEW c \in Conns, Connect(c) \/ Accept(c) \/ Reject(c) \/ Rearm(c)
      PROVE  QuietInv' /\ CountExact'
  <2>1. /\ UNCHANGED <<ops, strand, ended, outstanding, posted, remaining, sessions, active>>
        /\ \A d \in Conns :
              conn'[d] \in {"inserted", "started"} <=> conn[d] \in {"inserted", "started"}
    BY <1>3
    DEF TypeOK, Connect, Accept, Reject, Rearm, sessionVars, drainVars, poolVars, countVars
  <2>2. QuietInv'
    BY <2>1 DEF QuietInv, Quiet
  <2>3. CountExact'
    BY <2>1, CountFrame
  <2> QED  BY <2>2, <2>3
<1>4. ASSUME NEW c \in Conns, Insert(c)
      PROVE  QuietInv' /\ CountExact'
  <2>1. /\ UNCHANGED <<ops, strand, ended, outstanding, posted, remaining>>
        /\ conn[c] = "rearmed" /\ conn' = [conn EXCEPT ![c] = "inserted"]
        /\ sessions' = sessions \cup {c} /\ active' = active + 1
    BY <1>4 DEF Insert, sessionVars, drainVars, poolVars
  <2>2. QuietInv'
    BY <2>1 DEF QuietInv, Quiet, TypeOK
  <2>3. ~ended[c] /\ c \notin sessions
    BY <2>1 DEF QuietInv, Quiet, CountExact
  <2>4. sessions' = {d \in Conns : conn'[d] \in {"inserted", "started"} /\ ~ended'[d]}
    BY <2>1, <2>3 DEF CountExact, TypeOK
  <2>5. IsFiniteSet(sessions)
    BY ServerAssumption, FS_Subset DEF TypeOK
  <2>6. active' = Cardinality(sessions')
    BY <2>1, <2>3, <2>5, FS_AddElement DEF CountExact
  <2> QED  BY <2>2, <2>4, <2>6 DEF CountExact
<1>5. ASSUME NEW c \in Conns, Start(c)
      PROVE  QuietInv' /\ CountExact'
  <2>1. /\ UNCHANGED <<ops, ended, outstanding, posted, remaining, sessions, active>>
        /\ conn[c] = "inserted" /\ conn' = [conn EXCEPT ![c] = "started"]
    BY <1>5 DEF Start, drainVars, poolVars, countVars
  <2>2. \A d \in Conns \ {c} : strand'[d] = strand[d]
    BY <1>5 DEF Start, Post, TypeOK, SessionTypeOK
  <2>3. QuietInv'
    BY <2>1, <2>2 DEF QuietInv, Quiet, TypeOK
  <2>4. CountExact'
    BY <2>1, CountFrame DEF TypeOK
  <2> QED  BY <2>3, <2>4
<1>6. CASE DrainTimeout
  <2>1. /\ UNCHANGED <<conn, ops, strand, ended, outstanding, posted, sessions, active>>
        /\ remaining' = sessions
    BY <1>6 DEF DrainTimeout, sessionVars, acceptVars, countVars, poolVars
  <2>2. QuietInv'
    BY <2>1 DEF QuietInv, Quiet, CountExact
  <2>3. CountExact'
    BY <2>1, CountFrame
  <2> QED  BY <2>2, <2>3
<1>7. CASE \/ AcceptError \/ Signal \/ SignalCheck \/ DrainCheck \/ OutOfWork
           \/ ShutdownStep \/ UNCHANGED vars
  <2>1. UNCHANGED <<conn, ops, strand, ended, outstanding, posted, remaining, sessions, active>>
    BY <1>7
    DEF AcceptError, Signal, SignalCheck, DrainCheck, OutOfWork, ShutdownStep, JoinIoThreads,
        PoolDrained, PoolAborted, Pool!Close, Pool!Abandon, vars, sessionVars, acceptVars,
        countVars, drainVars, poolVars
  <2>2. QuietInv'
    BY <2>1 DEF QuietInv, Quiet
  <2>3. CountExact'
    BY <2>1, CountFrame
  <2> QED  BY <2>2, <2>3
<1> QED
  BY <1>1, <1>2, <1>3, <1>4, <1>5, <1>6, <1>7
  DEF Next, AcceptStep, StrandStep, Ender, Server, Returned

(* The invariant is inductive: the exact count never runs below zero. *)
LEMMA ServerInvStep == ServerInv /\ [Next]_vars => ServerInv'
<1> SUFFICES ASSUME ServerInv, [Next]_vars PROVE ServerInv'
  OBVIOUS
<1>1. QuietInv' /\ CountExact'
  BY CountStep
<1>2. IsFiniteSet(sessions')
  <2>1. sessions' \subseteq Conns
    BY <1>1 DEF CountExact
  <2> QED  BY <2>1, ServerAssumption, FS_Subset
<1>3. active' \in Nat
  <2>1. active' = Cardinality(sessions')
    BY <1>1 DEF CountExact
  <2> QED  BY <1>2, <2>1, FS_CardinalityType
<1>4. TypeOK'
  BY <1>3, TypeStep DEF ServerInv
<1> QED  BY <1>1, <1>4 DEF ServerInv

(* The server's and the sessions' state is always well typed.  In          *)
(* particular m_activeSessions, which endSession decrements without a      *)
(* check, never wraps round.                                               *)
THEOREM ServerTypeCorrect == Spec => []TypeOK
<1>1. ServerInv => TypeOK
  BY DEF ServerInv
<1> QED  BY <1>1, ServerInit, ServerInvStep, PTL DEF Spec

(* HttpServer::endSession and the accept handler keep m_activeSessions     *)
(* equal to the number of sessions in m_sessions, and m_sessions equal to  *)
(* the sessions inserted and not ended, however the handlers that end a    *)
(* session are ordered.                                                    *)
THEOREM SessionsCounted == Spec => []CountExact
<1>1. ServerInv => CountExact
  BY DEF ServerInv
<1> QED  BY <1>1, ServerInit, ServerInvStep, PTL DEF Spec

-----------------------------------------------------------------------------
(* m_draining is set by the signal handler before its check, and otherwise *)
(* only when the io_context has stopped.                                   *)
DrainInv == DrainNoticed /\ (draining /\ signal = "waiting" => stopped)

(* Every step that clears the count of a draining server, or that          *)
(* completes the signal handler on an idle one, stops the io_context.      *)
LEMMA DrainStep == ServerInv /\ DrainInv /\ [Next]_vars => DrainInv'
<1> SUFFICES ASSUME ServerInv, DrainInv, [Next]_vars PROVE DrainInv'
  OBVIOUS
<1>1. ASSUME NEW c \in Conns, Ender(c)
      PROVE  DrainInv'
  <2>1. UNCHANGED <<conn, draining, signal>> /\ conn[c] \in {"inserted", "started"}
    BY <1>1, EnderStep
  <2>2. CASE EndSession(c)
    <3>1. /\ active' = 0 /\ draining => stopped' \/ active = 0
          /\ stopped => stopped'
      BY <2>1, <2>2, EndSessionCount DEF ServerInv
    <3> QED  BY <2>1, <3>1 DEF DrainInv, DrainNoticed
  <2>3. CASE UNCHANGED <<ended, sessions, active, stopped>>
    BY <2>1, <2>3 DEF DrainInv, DrainNoticed
  <2> QED  BY <1>1, <2>2, <2>3, EnderStep
<1>2. ASSUME NEW c \in Conns, Server(c)
      PROVE  DrainInv'
  <2>1. UNCHANGED <<active, draining, signal, stopped>>
    BY <1>2, ServerStep
  <2> QED  BY <2>1 DEF DrainInv, DrainNoticed
<1>3. ASSUME NEW c \in Conns, Connect(c) \/ Accept(c) \/ Reject(c) \/ Rearm(c) \/ Start(c)
      PROVE  DrainInv'
  BY <1>3
  DEF Connect, Accept, Reject, Rearm, Start, countVars, drainVars, DrainInv, DrainNoticed
<1>4. ASSUME NEW c \in Conns, Insert(c)
      PROVE  DrainInv'
  BY <1>4 DEF Insert, drainVars, DrainInv, DrainNoticed, ServerInv, TypeOK
<1>5. CASE Signal
  BY <1>5 DEF Signal, DrainInv, DrainNoticed
<1>6. CASE SignalCheck
  BY <1>6 DEF SignalCheck, CheckDrainComplete, countVars, DrainInv, DrainNoticed
<1>7. CASE DrainTimeout
  BY <1>7 DEF DrainTimeout, countVars, DrainInv, DrainNoticed
<1>8. CASE DrainCheck
  BY <1>8 DEF DrainCheck, CheckDrainComplete, countVars, DrainInv, DrainNoticed
<1>9. CASE JoinIoThreads
  BY <1>9 DEF JoinIoThreads, DrainInv, DrainNoticed
<1>10. CASE AcceptError \/ OutOfWork \/ PoolDrained \/ PoolAborted \/ UNCHANGED vars
  BY <1>10 DEF AcceptError, OutOfWork, PoolDrained, PoolAborted, vars, countVars, drainVars,
      DrainInv, DrainNoticed
<1> QED
  BY <1>1, <1>2, <1>3, <1>4, <1>5, <1>6, <1>7, <1>8, <1>9, <1>10
  DEF Next, AcceptStep, StrandStep, ShutdownStep, Ender, Server, Returned

(* Whichever of the signal handler and the last endSession comes second    *)
(* stops the io_context: the end of the drain is never missed.             *)
THEOREM EndOfDrainNoticed == Spec => []DrainNoticed
<1>1. Init => DrainInv
  BY DEF Init, DrainInv, DrainNoticed
<1>2. DrainInv => DrainNoticed
  BY DEF DrainInv
<1> QED  BY <1>1, <1>2, ServerInit, ServerInvStep, DrainStep, PTL DEF Spec

-----------------------------------------------------------------------------
(* The accepted connections that are not counted yet, and the bound that   *)
(* the accept in progress may still use up.                                *)
Uncounted == {c \in Conns : conn[c] \in {"accepted", "rearmed"}}

(* The threads inside the handlers of the acceptor, the signal and the     *)
(* drain timer.                                                            *)
Handling == Cardinality(InAccept) + (IF signal = "checking" THEN 1 ELSE 0)
                                  + (IF drain = "forcing" THEN 1 ELSE 0)

BoundInv ==
    /\ Handling <= Threads
    /\ active + Cardinality(Uncounted) + (IF armed = "accept" THEN 1 ELSE 0)
            <= MaxConnections + Threads

(* Uncounted connections are in a handler, one for each busy thread. *)
LEMMA UncountedBusy ==
    /\ IsFiniteSet(InAccept) /\ IsFiniteSet(Uncounted)
    /\ Cardinality(InAccept) \in Nat /\ Cardinality(Uncounted) \in Nat
    /\ Cardinality(Uncounted) <= Cardinality(InAccept)
    /\ Cardinality(InAccept) <= Handling /\ Handling \in Nat
    /\ Handling <= Busy
    /\ Threads \in Nat \ {0}
<1>1. IsFiniteSet(InAccept) /\ IsFiniteSet(Uncounted)
  BY ServerAssumption, FS_Subset DEF InAccept, Uncounted
<1>2. Cardinality(InAccept) \in Nat /\ Cardinality(Uncounted) \in Nat
  BY <1>1, FS_CardinalityType
<1>3. Cardinality(Uncounted) <= Cardinality(InAccept)
  BY <1>1, FS_Subset DEF InAccept, Uncounted
<1>4. Cardinality(Rereading) \in Nat
  BY ServerAssumption, FS_Subset, FS_CardinalityType DEF Rereading
<1> QED  BY <1>1, <1>2, <1>3, <1>4, ServerAssumption DEF Handling, Busy, Threads

(* A free thread leaves room for one more such handler. *)
LEMMA BusyRoom == Busy < Threads => Handling < Threads
<1>1. Cardinality(Rereading) \in Nat
  BY ServerAssumption, FS_Subset, FS_CardinalityType DEF Rereading
<1> QED  BY <1>1, UncountedBusy DEF Busy, Handling

(* A step that moves no connection between accept states and arms nothing  *)
(* keeps the bound, if it does not add to the count or to the handlers.    *)
LEMMA BoundFrame ==
    ASSUME BoundInv, active \in Nat, active' \in Nat, active' <= active,
           UNCHANGED armed,
           \A c \in Conns : conn'[c] = conn[c] \/ {conn[c], conn'[c]} \subseteq {"away", "backlog"},
           signal' = signal \/ signal' # "checking",
           drain' = drain \/ drain' # "forcing"
    PROVE  BoundInv'
<1>1. InAccept' = InAccept /\ Uncounted' = Uncounted
  BY DEF InAccept, Uncounted
<1>2. Handling' <= Handling /\ Handling' \in Nat
  BY <1>1, UncountedBusy DEF Handling
<1>3. Handling' <= Threads
  BY <1>2, UncountedBusy DEF BoundInv
<1>4. active' + Cardinality(Uncounted') + (IF armed' = "accept" THEN 1 ELSE 0)
        <= MaxConnections + Threads
  BY <1>1, UncountedBusy, ServerAssumption DEF BoundInv
<1> QED  BY <1>3, <1>4 DEF BoundInv

(* Arming an accept needs room under the limit, and then every thread may  *)
(* still hold a connection that is not counted.                            *)
LEMMA ArmBound ==
    ASSUME active \in Nat, Handling <= Threads, NextAccept = "accept",
           Cardinality(Uncounted) + 1 <= Threads + 1
    PROVE  active + Cardinality(Uncounted) + 1 <= MaxConnections + Threads
<1>1. active + 1 <= MaxConnections
  BY ServerAssumption DEF NextAccept
<1> QED  BY <1>1, UncountedBusy, ServerAssumption

(* An accept moves one unit from the armed accept to the uncounted         *)
(* connections, an insertion from those to the count; only arming adds     *)
(* one.                                                                    *)
LEMMA BoundStep == ServerInv /\ BoundInv /\ [Next]_vars => BoundInv'
<1> SUFFICES ASSUME ServerInv, BoundInv, [Next]_vars PROVE BoundInv'
  OBVIOUS
<1>a. active \in Nat /\ active' \in Nat
  BY ServerInvStep DEF ServerInv, TypeOK
<1>b. /\ conn \in [Conns -> {"away", "backlog", "accepted", "rearmed", "inserted", "started",
                             "refused"}]
      /\ armed \in {"none", "accept", "reject"}
  BY DEF ServerInv, TypeOK
<1>1. ASSUME NEW c \in Conns, Ender(c)
      PROVE  BoundInv'
  <2>1. /\ UNCHANGED <<conn, armed, signal, drain>>
        /\ conn[c] \in {"inserted", "started"}
        /\ EndSession(c) \/ UNCHANGED <<ended, sessions, active, stopped>>
    BY <1>1, EnderStep
  <2>2. active' <= active
    BY <1>a, <2>1, EndSessionCount DEF ServerInv
  <2> QED  BY <1>a, <2>1, <2>2, BoundFrame
<1>2. ASSUME NEW c \in Conns, Server(c)
      PROVE  BoundInv'
  BY <1>a, <1>2, ServerStep, BoundFrame
<1>3. ASSUME NEW c \in Conns, Connect(c)
      PROVE  BoundInv'
  <2>1. conn[c] = "away" /\ conn' = [conn EXCEPT ![c] = "backlog"]
    BY <1>3 DEF Connect
  <2>2. UNCHANGED <<armed, active, signal, drain>>
    BY <1>3 DEF Connect, countVars, drainVars
  <2> QED  BY <1>a, <1>b, <2>1, <2>2, BoundFrame
<1>4. ASSUME NEW c \in Conns, Accept(c)
      PROVE  BoundInv'
  <2>1. /\ Handling < Threads /\ armed = "accept" /\ armed' = "none"
        /\ conn[c] = "backlog" /\ conn' = [conn EXCEPT ![c] = "accepted"]
        /\ UNCHANGED <<active, signal, drain>>
    BY <1>4, UncountedBusy, BusyRoom DEF Accept, ThreadFree, countVars, drainVars
  <2>2. /\ InAccept' = InAccept \cup {c} /\ c \notin InAccept
        /\ Uncounted' = Uncounted \cup {c} /\ c \notin Uncounted
    BY <1>b, <2>1 DEF InAccept, Uncounted
  <2>3. /\ Cardinality(InAccept') = Cardinality(InAccept) + 1
        /\ Cardinality(Uncounted') = Cardinality(Uncounted) + 1
    BY <2>2, UncountedBusy, FS_AddElement
  <2>4. Handling' <= Threads
    BY <2>1, <2>3, UncountedBusy DEF Handling
  <2>5. active' + Cardinality(Uncounted') + (IF armed' = "accept" THEN 1 ELSE 0)
          <= MaxConnections + Threads
    BY <1>a, <2>1, <2>3, UncountedBusy, ServerAssumption DEF BoundInv
  <2> QED  BY <2>4, <2>5 DEF BoundInv
<1>5. ASSUME armed' = NextAccept, UNCHANGED <<active, signal, drain>>,
             InAccept' = InAccept, Uncounted' = Uncounted
      PROVE  BoundInv'
  <2>1. Handling' <= Threads
    BY <1>5 DEF Handling, BoundInv
  <2>2. active' + Cardinality(Uncounted') + (IF armed' = "accept" THEN 1 ELSE 0)
          <= MaxConnections + Threads
    <3>1. CASE NextAccept = "accept"
      <4>1. Cardinality(Uncounted) + 1 <= Threads + 1
        BY UncountedBusy DEF BoundInv
      <4>2. active + Cardinality(Uncounted) + 1 <= MaxConnections + Threads
        BY <1>a, <3>1, <4>1, ArmBound DEF BoundInv
      <4> QED  BY <1>5, <3>1, <4>2
    <3>2. CASE NextAccept # "accept"
      BY <1>a, <1>5, <3>2, UncountedBusy, ServerAssumption DEF BoundInv
    <3> QED  BY <3>1, <3>2
  <2> QED  BY <2>1, <2>2 DEF BoundInv
<1>6. ASSUME NEW c \in Conns, Reject(c)
      PROVE  BoundInv'
  <2>1. /\ armed' = NextAccept /\ UNCHANGED <<active, signal, drain>>
        /\ conn[c] = "backlog" /\ conn' = [conn EXCEPT ![c] = "refused"]
    BY <1>6 DEF Reject, countVars, drainVars
  <2>2. InAccept' = InAccept /\ Uncounted' = Uncounted
    BY <1>b, <2>1 DEF InAccept, Uncounted
  <2> QED  BY <1>5, <2>1, <2>2
<1>7. ASSUME NEW c \in Conns, Rearm(c)
      PROVE  BoundInv'
  <2>1. /\ armed' = NextAccept /\ UNCHANGED <<active, signal, drain>>
        /\ conn[c] = "accepted" /\ conn' = [conn EXCEPT ![c] = "rearmed"]
    BY <1>7 DEF Rearm, countVars, drainVars
  <2>2. InAccept' = InAccept /\ Uncounted' = Uncounted
    BY <1>b, <2>1 DEF InAccept, Uncounted
  <2> QED  BY <1>5, <2>1, <2>2
<1>8. ASSUME NEW c \in Conns, Insert(c)
      PROVE  BoundInv'
  <2>1. /\ active' = active + 1 /\ UNCHANGED <<armed, signal, drain>>
        /\ conn[c] = "rearmed" /\ conn' = [conn EXCEPT ![c] = "inserted"]
    BY <1>8 DEF Insert, drainVars
  <2>2. InAccept' = InAccept /\ Uncounted' = Uncounted \ {c} /\ c \in Uncounted
    BY <1>b, <2>1 DEF InAccept, Uncounted
  <2>3. Cardinality(Uncounted') = Cardinality(Uncounted) - 1
    BY <2>2, UncountedBusy, FS_RemoveElement
  <2>4. Handling' <= Threads
    BY <2>1, <2>2 DEF Handling, BoundInv
  <2>5. active' + Cardinality(Uncounted') + (IF armed' = "accept" THEN 1 ELSE 0)
          <= MaxConnections + Threads
    BY <1>a, <2>1, <2>3, UncountedBusy, ServerAssumption DEF BoundInv
  <2> QED  BY <2>4, <2>5 DEF BoundInv
<1>9. ASSUME NEW c \in Conns, Start(c)
      PROVE  BoundInv'
  <2>1. /\ UNCHANGED <<active, armed, signal, drain>>
        /\ conn[c] = "inserted" /\ conn' = [conn EXCEPT ![c] = "started"]
    BY <1>9 DEF Start, countVars, drainVars
  <2>2. InAccept' = InAccept \ {c} /\ c \in InAccept /\ Uncounted' = Uncounted
    BY <1>b, <2>1 DEF InAccept, Uncounted
  <2>3. Cardinality(InAccept') = Cardinality(InAccept) - 1
    BY <2>2, UncountedBusy, FS_RemoveElement
  <2>4. Handling' <= Threads
    BY <2>1, <2>3, UncountedBusy DEF Handling, BoundInv
  <2>5. active' + Cardinality(Uncounted') + (IF armed' = "accept" THEN 1 ELSE 0)
          <= MaxConnections + Threads
    BY <2>1, <2>2 DEF BoundInv
  <2> QED  BY <2>4, <2>5 DEF BoundInv
<1>10. CASE AcceptError
  <2>1. armed' = NextAccept /\ UNCHANGED <<conn, active, signal, drain>>
    BY <1>10 DEF AcceptError, countVars, drainVars
  <2>2. InAccept' = InAccept /\ Uncounted' = Uncounted
    BY <2>1 DEF InAccept, Uncounted
  <2> QED  BY <1>5, <2>1, <2>2
<1>11. CASE Signal \/ DrainTimeout
  <2>1. /\ Handling < Threads /\ UNCHANGED <<conn, armed, active>>
        /\ \/ signal = "waiting" /\ signal' = "checking" /\ drain' = "armed"
           \/ drain = "armed" /\ drain' = "forcing" /\ signal' = signal
    BY <1>11, UncountedBusy, BusyRoom DEF Signal, DrainTimeout, ThreadFree, acceptVars, countVars
  <2>2. InAccept' = InAccept /\ Uncounted' = Uncounted
    BY <2>1 DEF InAccept, Uncounted
  <2>3. Handling' <= Threads
    BY <2>1, <2>2, UncountedBusy DEF Handling
  <2> QED  BY <2>1, <2>2, <2>3 DEF BoundInv
<1>12. CASE \/ SignalCheck \/ DrainCheck \/ OutOfWork \/ ShutdownStep \/ UNCHANGED vars
  <2>1. /\ UNCHANGED <<conn, armed, active>>
        /\ signal' = signal \/ signal' # "checking"
        /\ drain' = drain \/ drain' # "forcing"
    BY <1>12
    DEF SignalCheck, DrainCheck, OutOfWork, ShutdownStep, JoinIoThreads, PoolDrained,
        PoolAborted, vars, acceptVars, countVars, drainVars
  <2>2. active' <= active
    BY <1>a, <2>1
  <2> QED  BY <1>a, <2>1, <2>2, BoundFrame
<1> QED
  BY <1>1, <1>2, <1>3, <1>4, <1>6, <1>7, <1>8, <1>9, <1>10, <1>11, <1>12
  DEF Next, AcceptStep, StrandStep, Ender, Server, Returned

(* Nothing is in progress at the start, and at most one accept is armed. *)
LEMMA BoundInit == Init => BoundInv
<1> SUFFICES ASSUME Init PROVE BoundInv
  OBVIOUS
<1>1. InAccept = {} /\ Uncounted = {}
  BY DEF Init, InAccept, Uncounted
<1>2. Cardinality(InAccept) = 0 /\ Cardinality(Uncounted) = 0
  BY <1>1, FS_EmptySet
<1> QED
  BY <1>2, UncountedBusy, ServerAssumption DEF Init, BoundInv, Handling

(* doAccept checks the limit before the connection whose handler calls it  *)
(* is counted: m_activeSessions can pass max_connections, but by no more   *)
(* than the number of threads that run the io_context.                     *)
THEOREM ConnectionsBounded == Spec => []ConnectionBound
<1>1. ServerInv /\ BoundInv => ConnectionBound
  BY UncountedBusy, ServerAssumption DEF BoundInv, ConnectionBound, ServerInv, TypeOK
<1> QED  BY <1>1, ServerInit, ServerInvStep, BoundInit, BoundStep, PTL DEF Spec

-----------------------------------------------------------------------------
(* doAccept arms nothing only on a stopped or draining server, and neither *)
(* is ever taken back.                                                     *)
LEMMA ArmedStep == ServerInv /\ AcceptorArmed /\ [Next]_vars => AcceptorArmed'
<1> SUFFICES ASSUME ServerInv, AcceptorArmed, [Next]_vars PROVE AcceptorArmed'
  OBVIOUS
<1> USE DEF AcceptorArmed
<1>1. ASSUME NEW c \in Conns, Ender(c)
      PROVE  AcceptorArmed'
  <2>1. UNCHANGED <<conn, armed, draining>> /\ conn[c] \in {"inserted", "started"}
    BY <1>1, EnderStep
  <2>2. stopped => stopped'
    <3>1. EndSession(c) \/ UNCHANGED <<ended, sessions, active, stopped>>
      BY <1>1, EnderStep
    <3> QED  BY <2>1, <3>1, EndSessionCount DEF ServerInv
  <2> QED  BY <2>1, <2>2
<1>2. ASSUME NEW c \in Conns, Server(c)
      PROVE  AcceptorArmed'
  BY <1>2, ServerStep
<1>3. ASSUME NEW c \in Conns, Connect(c) \/ Accept(c) \/ Insert(c) \/ Start(c)
      PROVE  AcceptorArmed'
  <2>1. UNCHANGED <<stopped, draining>>
    BY <1>3 DEF Connect, Accept, Insert, Start, drainVars
  <2>2. conn \in [Conns -> {"away", "backlog", "accepted", "rearmed", "inserted", "started",
                            "refused"}]
    BY DEF ServerInv, TypeOK
  <2>3. CASE Accept(c)
    BY <2>2, <2>3 DEF Accept
  <2>4. CASE Connect(c) \/ Insert(c) \/ Start(c)
    <3>1. UNCHANGED armed
      BY <2>4 DEF Connect, Insert, Start
    <3>2. ASSUME NEW d \in Conns, conn[d] = "accepted" PROVE conn'[d] = "accepted"
      BY <2>2, <2>4, <3>2 DEF Connect, Insert, Start
    <3> QED  BY <2>1, <3>1, <3>2
  <2> QED  BY <1>3, <2>3, <2>4
<1>4. ASSUME NEW c \in Conns, Reject(c) \/ Rearm(c)
      PROVE  AcceptorArmed'
  BY <1>4 DEF Reject, Rearm, NextAccept, drainVars
<1>5. CASE AcceptError
  BY <1>5 DEF AcceptError, NextAccept, drainVars
<1>6. CASE SignalCheck \/ DrainCheck
  <2>1. UNCHANGED <<conn, armed, draining>>
    BY <1>6 DEF SignalCheck, DrainCheck, acceptVars
  <2>2. stopped => stopped'
    BY <1>6 DEF SignalCheck, DrainCheck, CheckDrainComplete
  <2> QED  BY <2>1, <2>2
<1>7. CASE Signal \/ OutOfWork \/ JoinIoThreads
  <2>1. draining' = TRUE \/ stopped' = TRUE
    BY <1>7 DEF Signal, OutOfWork, JoinIoThreads
  <2> QED  BY <2>1
<1>8. CASE DrainTimeout \/ PoolDrained \/ PoolAborted \/ UNCHANGED vars
  BY <1>8 DEF DrainTimeout, PoolDrained, PoolAborted, vars, acceptVars, drainVars
<1> QED
  BY <1>1, <1>2, <1>3, <1>4, <1>5, <1>6, <1>7, <1>8
  DEF Next, AcceptStep, StrandStep, ShutdownStep, Ender, Server, Returned

(* Every outcome of an accept arms the next one: a server that is neither  *)
(* stopped nor draining is listening, or has a thread that is about to.    *)
THEOREM AcceptorNeverLost == Spec => []AcceptorArmed
<1>1. Init => AcceptorArmed
  BY DEF Init, AcceptorArmed
<1> QED  BY <1>1, ServerInit, ServerInvStep, ArmedStep, PTL DEF Spec
==============================================================================
