--------------------------- MODULE ExchangeProofs ---------------------------
(***************************************************************************)
(* Proofs that HttpServer gives every connection what Exchange promises,   *)
(* for any number of connections, threads and requests and any settings,   *)
(* and about the closes by which the drain ends the sessions.              *)
(***************************************************************************)
EXTENDS SessionProofs

-----------------------------------------------------------------------------
(* Handler k is on the strand; a close has been posted to the strand. *)
Closing(c) == Queued(c, "close")

(* How a handler posted changes that. *)
LEMMA PostQueued ==
    ASSUME TypeOK, NEW c \in Conns, NEW h \in Handlers, Post(c, h), NEW k
    PROVE  Queued(c, k)' <=> Queued(c, k) \/ h = k
<1> DEFINE s == strand[c]
<1>1. s \in Seq(Handlers) /\ strand'[c] = Append(s, h)
  BY DEF TypeOK, SessionTypeOK, Post
<1>2. /\ Len(s) \in Nat /\ DOMAIN s = 1..Len(s)
      /\ DOMAIN strand'[c] = 1..(Len(s) + 1)
      /\ \A i \in 1..Len(s) : strand'[c][i] = s[i]
      /\ strand'[c][Len(s) + 1] = h
  BY <1>1, AppendProperties
<1>3. \A i \in DOMAIN strand'[c] : i \in DOMAIN s \/ i = Len(s) + 1
  BY <1>2
<1>4. DOMAIN s \subseteq DOMAIN strand'[c] /\ Len(s) + 1 \in DOMAIN strand'[c]
  BY <1>2
<1> HIDE DEF s
<1> QED  BY <1>2, <1>3, <1>4 DEF Queued, s

(* A handler taken up takes away no other. *)
LEMMA RunsQueued ==
    ASSUME TypeOK, NEW c \in Conns, NEW h, Runs(c, h), NEW k
    PROVE  /\ Queued(c, k)' => Queued(c, k)
           /\ Queued(c, k) => Queued(c, k)' \/ h = k
           /\ h = k => Queued(c, k)
<1> DEFINE s == strand[c]
<1>1. s \in Seq(Handlers) /\ s # <<>> /\ Head(s) = h /\ strand'[c] = Tail(s)
  BY DEF TypeOK, SessionTypeOK, Runs
<1>2. /\ Len(s) \in Nat \ {0} /\ DOMAIN s = 1..Len(s) /\ s[1] = h
      /\ DOMAIN strand'[c] = 1..(Len(s) - 1)
      /\ \A i \in 1..(Len(s) - 1) : strand'[c][i] = s[i + 1]
  BY <1>1
<1>3. Queued(c, k)' => Queued(c, k)
  <2>1. SUFFICES ASSUME NEW i \in 1..(Len(s) - 1), strand'[c][i] = k PROVE Queued(c, k)
    BY <1>2 DEF Queued
  <2>2. i + 1 \in DOMAIN s /\ s[i + 1] = k
    BY <1>2, <2>1
  <2> QED  BY <2>2 DEF Queued
<1>4. Queued(c, k) => Queued(c, k)' \/ h = k
  <2>1. SUFFICES ASSUME NEW i \in DOMAIN s, s[i] = k, i # 1 PROVE Queued(c, k)'
    BY <1>2 DEF Queued
  <2>2. i - 1 \in 1..(Len(s) - 1) /\ (i - 1) + 1 = i
    BY <1>2, <2>1
  <2>3. i - 1 \in DOMAIN strand'[c] /\ strand'[c][i - 1] = k
    BY <1>2, <2>1, <2>2
  <2> QED  BY <2>3 DEF Queued
<1>5. 1 \in DOMAIN s
  BY <1>2
<1> QED  BY <1>2, <1>3, <1>4, <1>5 DEF Queued

(* What a step may do to a strand: nothing, post a handler, or take one    *)
(* up.  A close is posted by the drain timer's handler, and run by OnClose. *)
StrandMoves(c) ==
    \/ strand'[c] = strand[c]
    \/ \E h \in Handlers \ {"close"} : Post(c, h) \/ Runs(c, h)
    \/ ForceClose(c)
    \/ OnClose(c)

(* Every step is one of these for every strand. *)
LEMMA StrandChanges ==
    ASSUME TypeOK, [Next]_vars, NEW c \in Conns
    PROVE  StrandMoves(c)
<1>1. CASE Elsewhere
  <2>1. UNCHANGED strand
    <3>1. ASSUME NEW d \in Conns,
                 Connect(d) \/ Accept(d) \/ Reject(d) \/ Rearm(d) \/ Insert(d) \/ Begin(d)
          PROVE  UNCHANGED strand
      BY <3>1 DEF Connect, Accept, Reject, Rearm, Insert, Begin, sessionVars
    <3>2. CASE AcceptError \/ Signal \/ SignalCheck \/ DrainTimeout \/ DrainCheck
      BY <3>2 DEF AcceptError, Signal, SignalCheck, DrainTimeout, DrainCheck, sessionVars
    <3>3. CASE OutOfWork \/ ShutdownStep \/ UNCHANGED vars
      BY <3>3 DEF OutOfWork, ShutdownStep, JoinIoThreads, PoolDrained, PoolAborted, vars,
                  sessionVars
    <3> QED  BY <1>1, <3>1, <3>2, <3>3 DEF Elsewhere
  <2> QED  BY <2>1 DEF StrandMoves
<1>2. ASSUME NEW d \in Conns,
             \/ Start(d) \/ IoCompletes(d) \/ StrandStep(d)
             \/ Complete(d) \/ RunPosted(d) \/ ForceClose(d)
      PROVE  StrandMoves(c)
  <2>1. \/ strand' = strand
        \/ \E h \in Handlers \ {"close"} : Post(d, h) \/ Runs(d, h)
        \/ ForceClose(d)
        \/ OnClose(d)
    <3>1. CASE Start(d)
      BY <3>1, HandlersFacts DEF Start
    <3>2. CASE IoCompletes(d)
      <4>1. PICK h \in RequestKinds \cup {"readError", "writeError", "writeOk", "timeout"} :
              Post(d, h)
        BY <3>2 DEF IoCompletes, ReadCompletes, WriteCompletes, TimerExpires
      <4>2. h \in Handlers \ {"close"}
        BY HandlersFacts, SessionAssumption
      <4> QED  BY <4>1, <4>2
    <3>3. CASE StrandStep(d)
      <4>1. ReadAgain(d) \/ OnClose(d) \/ \E h : h # "close" /\ Runs(d, h)
        BY <3>3 DEF StrandStep, LocalHandler, RunDoRead, OnReadTooLarge, RunSend, OnReadError,
                    OnFastRequest, OnComputeRequest, OnRequest, OnWriteError, OnWriteLast,
                    OnWriteNext, OnTimeout
      <4>2. ReadAgain(d) => strand' = strand
        BY DEF ReadAgain
      <4> QED  BY <4>1, <4>2, RunsHandler
    <3>4. CASE Complete(d)
      BY <3>4 DEF Complete, sessionVars
    <3>5. CASE RunPosted(d)
      <4>1. PICK h \in {"sendKeepAlive", "sendClose"} : Post(d, h)
        BY <3>5 DEF RunPosted
      <4> QED  BY <4>1, HandlersFacts
    <3> QED  BY <1>2, <3>1, <3>2, <3>3, <3>4, <3>5
  <2>2. CASE d = c
    BY <2>1, <2>2 DEF StrandMoves
  <2>3. CASE d # c
    <3>1. strand'[c] = strand[c]
      BY <2>1, <2>3 DEF Post, Runs, ForceClose, OnClose, TypeOK, SessionTypeOK
    <3> QED  BY <3>1 DEF StrandMoves
  <2> QED  BY <2>2, <2>3
<1> QED  BY <1>1, <1>2, NextSplit

(* A socket is closed by the closure of Session::close alone. *)
LEMMA ClosedChanges ==
    ASSUME TypeOK, [Next]_vars, NEW c \in Conns, closed'[c]
    PROVE  closed[c] \/ OnClose(c)
<1>1. CASE UNCHANGED closed
  BY <1>1
<1>2. CASE \E d \in Conns : OnClose(d)
  <2>1. PICK d \in Conns : OnClose(d)
    BY <1>2
  <2>2. closed' = closed \/ closed' = [closed EXCEPT ![d] = TRUE]
    BY <2>1 DEF OnClose
  <2> QED  BY <2>1, <2>2 DEF TypeOK, SessionTypeOK
<1>3. CASE Elsewhere
  <2>1. UNCHANGED closed
    <3>1. ASSUME NEW d \in Conns,
                 Connect(d) \/ Accept(d) \/ Reject(d) \/ Rearm(d) \/ Insert(d) \/ Begin(d)
          PROVE  UNCHANGED closed
      BY <3>1 DEF Connect, Accept, Reject, Rearm, Insert, Begin, sessionVars
    <3>2. CASE AcceptError \/ Signal \/ SignalCheck \/ DrainTimeout \/ DrainCheck
      BY <3>2 DEF AcceptError, Signal, SignalCheck, DrainTimeout, DrainCheck, sessionVars
    <3>3. CASE OutOfWork \/ ShutdownStep \/ UNCHANGED vars
      BY <3>3 DEF OutOfWork, ShutdownStep, JoinIoThreads, PoolDrained, PoolAborted, vars,
                  sessionVars
    <3> QED  BY <1>3, <3>1, <3>2, <3>3 DEF Elsewhere
  <2> QED  BY <2>1
<1>4. ASSUME NEW d \in Conns, ~OnClose(d),
             \/ Start(d) \/ IoCompletes(d) \/ StrandStep(d)
             \/ Complete(d) \/ RunPosted(d) \/ ForceClose(d)
      PROVE  UNCHANGED closed
  <2>1. CASE StrandStep(d)
    BY <1>4, <2>1
    DEF StrandStep, LocalHandler, RunDoRead, OnReadTooLarge, RunSend, OnReadError, OnFastRequest,
        OnComputeRequest, OnRequest, OnWriteError, OnWriteLast, OnWriteNext, ReadAgain, OnTimeout
  <2>2. CASE Start(d) \/ IoCompletes(d) \/ Complete(d) \/ RunPosted(d) \/ ForceClose(d)
    BY <2>2 DEF Start, IoCompletes, ReadCompletes, WriteCompletes, TimerExpires, Complete,
                RunPosted, ForceClose, sessionVars
  <2> QED  BY <1>4, <2>1, <2>2
<1> QED  BY <1>1, <1>2, <1>3, <1>4, NextSplit

-----------------------------------------------------------------------------
(* Sockets are closed only by a server that drains. *)
CloseInv ==
    /\ drain # "off" \/ remaining # {} => draining
    /\ \A c \in Conns : closed[c] \/ Closing(c) => draining

(* The flags of the drain, apart from the sessions. *)
LEMMA DrainFlags ==
    ASSUME TypeOK, [Next]_vars
    PROVE  /\ draining => draining'
           /\ drain' # "off" => drain # "off" \/ draining'
           /\ remaining' \subseteq remaining \/ drain = "armed"
           /\ (\E c \in Conns : ForceClose(c)) => remaining # {}
<1>1. CASE Elsewhere
  <2>1. ASSUME NEW d \in Conns,
               Connect(d) \/ Accept(d) \/ Reject(d) \/ Rearm(d) \/ Insert(d) \/ Begin(d)
        PROVE  UNCHANGED drainVars
    BY <2>1 DEF Connect, Accept, Reject, Rearm, Insert, Begin
  <2>2. CASE AcceptError \/ OutOfWork \/ UNCHANGED vars
    BY <1>1, <2>2 DEF AcceptError, OutOfWork, vars, drainVars, ForceClose
  <2>3. CASE Signal \/ SignalCheck \/ DrainTimeout \/ DrainCheck
    BY <2>3 DEF Signal, SignalCheck, DrainTimeout, DrainCheck, ForceClose
  <2>4. CASE ShutdownStep
    BY <2>4 DEF ShutdownStep, JoinIoThreads, PoolDrained, PoolAborted, drainVars, ForceClose
  <2> QED  BY <1>1, <2>1, <2>2, <2>3, <2>4 DEF Elsewhere, drainVars, ForceClose
<1>2. ASSUME NEW d \in Conns,
             Start(d) \/ IoCompletes(d) \/ StrandStep(d) \/ Complete(d) \/ RunPosted(d)
      PROVE  UNCHANGED drainVars
  <2>1. CASE StrandStep(d)
    BY <2>1
    DEF StrandStep, LocalHandler, OnReadError, OnFastRequest, OnComputeRequest, OnRequest,
        OnWriteError, OnWriteLast, OnWriteNext, ReadAgain, OnTimeout, OnClose, drainVars
  <2>2. CASE Start(d) \/ IoCompletes(d) \/ Complete(d) \/ RunPosted(d)
    BY <2>2 DEF Start, IoCompletes, Complete, RunPosted
  <2> QED  BY <1>2, <2>1, <2>2
<1>3. ASSUME NEW d \in Conns, ForceClose(d)
      PROVE  /\ UNCHANGED <<draining, drain>>
             /\ remaining # {} /\ remaining' \subseteq remaining
  BY <1>3 DEF ForceClose
<1> QED  BY <1>1, <1>2, <1>3, NextSplit DEF drainVars, ForceClose

(* The invariant of the closes is inductive. *)
LEMMA CloseInvInductive ==
    /\ Init => CloseInv
    /\ TypeOK /\ CloseInv /\ [Next]_vars => CloseInv'
<1>1. Init => CloseInv
  BY DEF Init, SessionInit, CloseInv, Closing, Queued
<1>2. ASSUME TypeOK, CloseInv, [Next]_vars PROVE CloseInv'
  <2>1. drain' # "off" \/ remaining' # {} => draining'
    BY <1>2, DrainFlags DEF CloseInv
  <2>2. ASSUME NEW c \in Conns, Closing(c)' PROVE draining'
    <3>1. CASE strand'[c] = strand[c]
      BY <1>2, <2>2, <3>1, DrainFlags DEF CloseInv, Closing, Queued
    <3>2. CASE \E h \in Handlers \ {"close"} : Post(c, h) \/ Runs(c, h)
      BY <1>2, <2>2, <3>2, DrainFlags, PostQueued, RunsQueued DEF CloseInv, Closing
    <3>3. CASE ForceClose(c)
      BY <1>2, <3>3, DrainFlags DEF CloseInv
    <3>4. CASE OnClose(c)
      BY <1>2, <3>4, DrainFlags, RunsQueued DEF CloseInv, OnClose, Closing
    <3> QED  BY <1>2, <3>1, <3>2, <3>3, <3>4, StrandChanges DEF StrandMoves
  <2>3. ASSUME NEW c \in Conns, closed'[c] PROVE draining'
    <3>1. closed[c] \/ Closing(c)
      BY <1>2, <2>3, ClosedChanges, RunsQueued DEF OnClose, Closing
    <3> QED  BY <1>2, <3>1, DrainFlags DEF CloseInv
  <2> QED  BY <2>1, <2>2, <2>3 DEF CloseInv
<1> QED  BY <1>1, <1>2

(* The invariant of the closes. *)
THEOREM ClosedOnlyDraining == Spec => []CloseInv
BY ServerTypeCorrect, CloseInvInductive, PTL DEF Spec

-----------------------------------------------------------------------------
(* What the drain timer's handler ensures: once it has taken its snapshot  *)
(* every session that is counted is in it or has a close on its strand.    *)
EveryoneClosed ==
    drain \in {"forcing", "done"} => \A c \in sessions : c \in remaining \/ Closing(c)

(* Sessions come only from the acceptor. *)
LEMMA SessionsCome ==
    ASSUME [Next]_vars, NEW c \in sessions'
    PROVE  c \in sessions \/ Insert(c)
<1>1. CASE Elsewhere
  <2>1. ASSUME NEW d \in Conns, Insert(d) PROVE c \in sessions \/ Insert(c)
    BY <2>1 DEF Insert
  <2>2. ASSUME NEW d \in Conns, Connect(d) \/ Accept(d) \/ Reject(d) \/ Rearm(d) \/ Begin(d)
        PROVE  UNCHANGED sessions
    BY <2>2 DEF Connect, Accept, Reject, Rearm, Begin, countVars
  <2>3. CASE AcceptError \/ Signal \/ SignalCheck \/ DrainTimeout \/ DrainCheck
    BY <2>3 DEF AcceptError, Signal, SignalCheck, DrainTimeout, DrainCheck, countVars
  <2>4. CASE OutOfWork \/ ShutdownStep \/ UNCHANGED vars
    BY <2>4 DEF OutOfWork, ShutdownStep, JoinIoThreads, PoolDrained, PoolAborted, vars, countVars
  <2> QED  BY <1>1, <2>1, <2>2, <2>3, <2>4 DEF Elsewhere
<1>2. ASSUME NEW d \in Conns,
             \/ Start(d) \/ IoCompletes(d) \/ StrandStep(d)
             \/ Complete(d) \/ RunPosted(d) \/ ForceClose(d)
      PROVE  sessions' \subseteq sessions
  <2>1. CASE StrandStep(d)
    BY <2>1
    DEF StrandStep, LocalHandler, OnReadError, OnFastRequest, OnComputeRequest, OnRequest,
        OnWriteError, OnWriteLast, OnWriteNext, ReadAgain, OnTimeout, OnClose, EndSession, countVars
  <2>2. CASE Start(d) \/ IoCompletes(d) \/ Complete(d) \/ RunPosted(d) \/ ForceClose(d)
    BY <2>2 DEF Start, IoCompletes, Complete, RunPosted, ForceClose, countVars
  <2> QED  BY <1>2, <2>1, <2>2
<1> QED  BY <1>1, <1>2, NextSplit

(* Once the timer has fired, the snapshot shrinks by the closes posted. *)
LEMMA SnapshotShrinks ==
    ASSUME [Next]_vars, drain' \in {"forcing", "done"}
    PROVE  \/ drain = "armed" /\ remaining' = sessions /\ UNCHANGED sessions
           \/ /\ drain \in {"forcing", "done"}
              /\ \A c \in remaining : c \in remaining' \/ ForceClose(c)
<1>1. CASE Elsewhere
  <2>1. ASSUME NEW d \in Conns,
               Connect(d) \/ Accept(d) \/ Reject(d) \/ Rearm(d) \/ Insert(d) \/ Begin(d)
        PROVE  UNCHANGED <<drain, remaining>>
    BY <2>1 DEF Connect, Accept, Reject, Rearm, Insert, Begin, drainVars
  <2>2. CASE DrainTimeout
    BY <2>2 DEF DrainTimeout, countVars
  <2>3. CASE AcceptError \/ Signal \/ SignalCheck \/ DrainCheck
    BY <1>1, <2>3 DEF AcceptError, Signal, SignalCheck, DrainCheck, drainVars
  <2>4. CASE OutOfWork \/ ShutdownStep \/ UNCHANGED vars
    BY <2>4 DEF OutOfWork, ShutdownStep, JoinIoThreads, PoolDrained, PoolAborted, vars, drainVars
  <2> QED  BY <1>1, <2>1, <2>2, <2>3, <2>4 DEF Elsewhere
<1>2. ASSUME NEW d \in Conns,
             Start(d) \/ IoCompletes(d) \/ StrandStep(d) \/ Complete(d) \/ RunPosted(d)
      PROVE  UNCHANGED <<drain, remaining>>
  <2>1. CASE StrandStep(d)
    BY <2>1
    DEF StrandStep, LocalHandler, OnReadError, OnFastRequest, OnComputeRequest, OnRequest,
        OnWriteError, OnWriteLast, OnWriteNext, ReadAgain, OnTimeout, OnClose, drainVars
  <2>2. CASE Start(d) \/ IoCompletes(d) \/ Complete(d) \/ RunPosted(d)
    BY <2>2 DEF Start, IoCompletes, Complete, RunPosted, drainVars
  <2> QED  BY <1>2, <2>1, <2>2
<1>3. ASSUME NEW d \in Conns, ForceClose(d)
      PROVE  drain' = drain /\ \A c \in remaining : c \in remaining' \/ ForceClose(c)
  BY <1>3 DEF ForceClose
<1> QED  BY <1>1, <1>2, <1>3, NextSplit

(* A close that is posted is taken up only by the end of its session.     *)
LEMMA EveryoneClosedStep ==
    ASSUME TypeOK, CountExact, CountExact', SessionsInv, EveryoneClosed, ~LateAccept, [Next]_vars
    PROVE  EveryoneClosed'
<1> SUFFICES ASSUME drain' \in {"forcing", "done"}, NEW c \in sessions', c \notin remaining'
             PROVE  Closing(c)'
  BY DEF EveryoneClosed
<1>1. c \in Conns /\ ~ended'[c]
  BY DEF CountExact
<1>2. /\ drain \in {"forcing", "done"}
      /\ c \in remaining => ForceClose(c)
  BY SnapshotShrinks
<1>3. c \in sessions
  <2>1. ~Insert(c)
    BY <1>1, <1>2 DEF LateAccept, Insert
  <2> QED  BY <2>1, SessionsCome
<1>4. CASE ForceClose(c)
  BY <1>1, <1>4, PostQueued, HandlersFacts DEF ForceClose, Closing
<1>5. CASE ~ForceClose(c)
  <2>1. Closing(c)
    BY <1>2, <1>3, <1>5 DEF EveryoneClosed
  <2>2. ~OnClose(c)
    <3>1. SUFFICES ASSUME OnClose(c) PROVE ended'[c]
      BY <1>1
    <3>2. CASE closed[c]
      BY <1>1, <3>1, <3>2 DEF OnClose, SessionsInv, SessionInv
    <3>3. CASE ~closed[c]
      BY <1>1, <3>1, <3>3, EndSessionFlags DEF OnClose
    <3> QED  BY <3>2, <3>3
  <2>3. CASE strand'[c] = strand[c]
    BY <2>1, <2>3 DEF Closing, Queued
  <2>4. CASE \E h \in Handlers \ {"close"} : Post(c, h) \/ Runs(c, h)
    BY <1>1, <2>1, <2>4, PostQueued, RunsQueued DEF Closing
  <2> QED  BY <1>1, <1>5, <2>2, <2>3, <2>4, StrandChanges DEF StrandMoves
<1> QED  BY <1>4, <1>5

(* If no accept is in progress when the drain timer fires, or after, no    *)
(* session that is counted is forgotten by the forced close.               *)
THEOREM ForcedCloseCovers == Spec => ([]~LateAccept => []EveryoneClosed)
<1>1. Init => EveryoneClosed
  BY DEF Init, EveryoneClosed
<1>2. TypeOK /\ SessionsInv /\ CountExact /\ CountExact' /\ EveryoneClosed /\ ~LateAccept
        /\ [Next]_vars => EveryoneClosed'
  BY EveryoneClosedStep
<1> QED  BY <1>1, <1>2, ServerTypeCorrect, SessionsCounted, SessionsInit, SessionStep, PTL
         DEF Spec

-----------------------------------------------------------------------------
(* What a step of one connection leaves to the others. *)
StageKept(c) == Untouched(c) /\ keepAlive'[c] = keepAlive[c]

(* Their stages stay the same. *)
LEMMA StageKeeps ==
    ASSUME NEW c \in Conns, StageKept(c)
    PROVE  /\ Stage(c)' = Stage(c) /\ requestCount'[c] = requestCount[c]
           /\ Answers(c)' = Answers(c) /\ Current(c)' = Current(c)
<1>1. Current(c)' = Current(c)
  BY DEF StageKept, Untouched, Current
<1>2. Answers(c)' = Answers(c)
  BY DEF StageKept, Untouched, Answers
<1> QED  BY <1>1, <1>2 DEF StageKept, Untouched, Stage

(* The steps of a session, by the variables of the others. *)
LEMMA OthersKept ==
    ASSUME TypeOK, NEW c \in Conns,
           \/ Start(c) \/ IoCompletes(c) \/ StrandStep(c)
           \/ Complete(c) \/ RunPosted(c) \/ ForceClose(c)
    PROVE  /\ \A d \in Conns \ {c} : StageKept(d)
           /\ draining' = draining
<1> USE DEF TypeOK, SessionTypeOK
<1>1. \A d \in Conns \ {c} : strand'[d] = strand[d]
  <2>1. CASE StrandStep(c)
    BY <2>1
    DEF StrandStep, LocalHandler, RunDoRead, OnReadTooLarge, RunSend, OnReadError,
        OnFastRequest, OnComputeRequest, OnRequest, OnWriteError, OnWriteLast, OnWriteNext, ReadAgain,
        OnTimeout, OnClose, Runs
  <2>2. CASE IoCompletes(c)
    BY <2>2 DEF IoCompletes, ReadCompletes, WriteCompletes, TimerExpires, Post
  <2>3. CASE Start(c) \/ Complete(c) \/ RunPosted(c) \/ ForceClose(c)
    BY <2>3 DEF Start, Complete, RunPosted, ForceClose, Post, sessionVars
  <2> QED  BY <2>1, <2>2, <2>3
<1>2. \A d \in Conns \ {c} : ops'[d] = ops[d] /\ keepAlive'[d] = keepAlive[d]
  <2>1. CASE StrandStep(c)
    BY <2>1
    DEF StrandStep, LocalHandler, RunDoRead, OnReadTooLarge, RunSend, OnReadError,
        OnFastRequest, OnComputeRequest, OnWriteError, OnWriteLast, OnWriteNext, ReadAgain,
        OnTimeout, OnClose, Write, DoRead
  <2>2. CASE IoCompletes(c)
    BY <2>2 DEF IoCompletes, ReadCompletes, WriteCompletes, TimerExpires
  <2>3. CASE Start(c) \/ Complete(c) \/ RunPosted(c) \/ ForceClose(c)
    BY <2>3 DEF Start, Complete, RunPosted, ForceClose, sessionVars
  <2> QED  BY <2>1, <2>2, <2>3
<1>3. \A d \in Conns \ {c} :
        closed'[d] = closed[d] /\ ended'[d] = ended[d] /\ requestCount'[d] = requestCount[d]
  <2>1. CASE StrandStep(c)
    BY <2>1
    DEF StrandStep, LocalHandler, RunDoRead, OnReadTooLarge, RunSend, OnReadError,
        OnFastRequest, OnComputeRequest, OnRequest, OnWriteError, OnWriteLast, OnWriteNext, ReadAgain,
        OnTimeout, OnClose, EndSession
  <2>2. CASE IoCompletes(c)
    BY <2>2 DEF IoCompletes, ReadCompletes, WriteCompletes, TimerExpires
  <2>3. CASE Start(c) \/ Complete(c) \/ RunPosted(c) \/ ForceClose(c)
    BY <2>3 DEF Start, Complete, RunPosted, ForceClose, sessionVars
  <2> QED  BY <2>1, <2>2, <2>3
<1>4. /\ \A d \in Conns \ {c} : conn'[d] = conn[d]
      /\ draining' = draining
  <2>1. CASE StrandStep(c)
    BY <2>1
    DEF StrandStep, LocalHandler, OnReadError, OnFastRequest, OnComputeRequest, OnRequest,
        OnWriteError, OnWriteLast, OnWriteNext, ReadAgain, OnTimeout, OnClose, acceptVars, drainVars
  <2>2. CASE Start(c) \/ IoCompletes(c) \/ Complete(c) \/ RunPosted(c) \/ ForceClose(c)
    BY <2>2 DEF Start, IoCompletes, Complete, RunPosted, ForceClose, acceptVars, drainVars
  <2> QED  BY <2>1, <2>2
<1>5. \A d \in Conns \ {c} : (d \in outstanding') = (d \in outstanding)
  <2>1. CASE OnComputeRequest(c)
    <3>1. CASE Pool!Accept(c)
      BY <3>1 DEF Pool!Accept
    <3>2. CASE UNCHANGED poolVars
      BY <3>2 DEF poolVars
    <3> QED  BY <2>1, <3>1, <3>2 DEF OnComputeRequest
  <2>2. CASE StrandStep(c) /\ ~OnComputeRequest(c)
    BY <2>2
    DEF StrandStep, LocalHandler, OnReadError, OnFastRequest, OnWriteError, OnWriteLast,
        OnWriteNext, ReadAgain, OnTimeout, OnClose, poolVars
  <2>3. CASE Start(c) \/ IoCompletes(c) \/ Complete(c) \/ RunPosted(c) \/ ForceClose(c)
    BY <2>3 DEF Start, IoCompletes, Complete, Pool!Complete, RunPosted, ForceClose, poolVars
  <2> QED  BY <2>1, <2>2, <2>3
<1>6. \A d \in Conns \ {c} : \A k \in BOOLEAN : (<<d, k>> \in posted') = (<<d, k>> \in posted)
  <2>1. CASE UNCHANGED posted
    BY <2>1
  <2>2. ASSUME NEW keep \in BOOLEAN,
               posted' = posted \cup {<<c, keep>>} \/ posted' = posted \ {<<c, keep>>}
        PROVE  \A d \in Conns \ {c} : \A k \in BOOLEAN :
                 (<<d, k>> \in posted') = (<<d, k>> \in posted)
    BY <2>2
  <2>3. \/ UNCHANGED posted
        \/ \E keep \in BOOLEAN :
             posted' = posted \cup {<<c, keep>>} \/ posted' = posted \ {<<c, keep>>}
    <3>1. CASE StrandStep(c)
      BY <3>1
      DEF StrandStep, LocalHandler, OnReadError, OnFastRequest, OnComputeRequest,
          OnWriteError, OnWriteLast, OnWriteNext, ReadAgain, OnTimeout, OnClose
    <3>2. CASE Complete(c)
      BY <3>2, SessionAssumption DEF Complete, KeepAliveAnswers
    <3>3. CASE RunPosted(c)
      BY <3>3 DEF RunPosted
    <3>4. CASE Start(c) \/ IoCompletes(c) \/ ForceClose(c)
      BY <3>4 DEF Start, IoCompletes, ForceClose
    <3> QED  BY <3>1, <3>2, <3>3, <3>4
  <2> QED  BY <2>1, <2>2, <2>3
<1> QED  BY <1>1, <1>2, <1>3, <1>4, <1>5, <1>6 DEF StageKept, Untouched

(* Elsewhere, every connection is left. *)
LEMMA ElsewhereKept ==
    ASSUME TypeOK, TypeOK', [Next]_vars, Elsewhere
    PROVE  /\ \A d \in Conns : StageKept(d)
           /\ draining' \in {draining, TRUE}
<1>1. UNCHANGED <<sessionVars, posted, outstanding>>
  <2>1. ASSUME NEW c \in Conns,
               Connect(c) \/ Accept(c) \/ Reject(c) \/ Rearm(c) \/ Insert(c) \/ Begin(c)
        PROVE  UNCHANGED <<sessionVars, posted, outstanding>>
    BY <2>1 DEF Connect, Accept, Reject, Rearm, Insert, Begin, Pool!Begin, poolVars
  <2>2. CASE AcceptError \/ Signal \/ SignalCheck \/ DrainTimeout \/ DrainCheck
    BY <2>2 DEF AcceptError, Signal, SignalCheck, DrainTimeout, DrainCheck, poolVars
  <2>3. CASE OutOfWork \/ ShutdownStep \/ UNCHANGED vars
    BY <2>3 DEF OutOfWork, ShutdownStep, JoinIoThreads, PoolDrained, PoolAborted, Pool!Close,
                Pool!Abandon, vars, poolVars
  <2> QED  BY <2>1, <2>2, <2>3 DEF Elsewhere
<1>2. \A d \in Conns : (conn'[d] = "started") = (conn[d] = "started")
  <2>1. ASSUME NEW c \in Conns, Connect(c) \/ Accept(c) \/ Reject(c) \/ Rearm(c) \/ Insert(c)
        PROVE  \A d \in Conns : (conn'[d] = "started") = (conn[d] = "started")
    <3>1. PICK v \in {"backlog", "accepted", "refused", "rearmed", "inserted"} :
            conn[c] # "started" /\ conn' = [conn EXCEPT ![c] = v]
      BY <2>1 DEF Connect, Accept, Reject, Rearm, Insert
    <3> QED  BY <3>1 DEF TypeOK
  <2>2. ASSUME NEW c \in Conns, Begin(c)
        PROVE  UNCHANGED conn
    BY <2>2 DEF Begin, acceptVars
  <2>3. CASE AcceptError \/ Signal \/ SignalCheck \/ DrainTimeout \/ DrainCheck
    BY <2>3 DEF AcceptError, Signal, SignalCheck, DrainTimeout, DrainCheck, acceptVars
  <2>4. CASE OutOfWork \/ ShutdownStep \/ UNCHANGED vars
    BY <2>4 DEF OutOfWork, ShutdownStep, JoinIoThreads, PoolDrained, PoolAborted, vars, acceptVars
  <2> QED  BY <2>1, <2>2, <2>3, <2>4 DEF Elsewhere
<1>3. draining' \in {draining, TRUE}
  BY DrainFlags DEF TypeOK
<1> QED  BY <1>1, <1>2, <1>3 DEF StageKept, Untouched, sessionVars

-----------------------------------------------------------------------------
(* The stage of a connection whose strand takes up a handler that is about *)
(* its request.                                                            *)
HandlerStage(c, h) ==
    IF h \in ReadHandlers THEN "reading"
    ELSE IF h \in {"writeOk", "writeError"} THEN IF keepAlive[c] THEN "keeping" ELSE "closing"
    ELSE "processing"

(* It is in that stage. *)
LEMMA StageBefore ==
    ASSUME TypeOK, NEW c \in Conns, SessionInv(c),
           NEW h \in Handlers \ {"timeout", "close"}, Runs(c, h)
    PROVE  Stage(c) = HandlerStage(c, h)
<1>1. Current(c) = {h} /\ conn[c] = "started" /\ ops[c] \subseteq {"timer"}
  BY HandlerFinds
<1>2. (Current(c) \cap ReadHandlers # {}) <=> h \in ReadHandlers
  BY <1>1
<1>3. (Current(c) \cap {"writeOk", "writeError"} # {}) <=> h \in {"writeOk", "writeError"}
  BY <1>1
<1> QED  BY <1>1, <1>2, <1>3 DEF Stage, HandlerStage

(* The stage in which such a handler leaves the connection. *)
LEMMA StageAfter ==
    ASSUME NEW c \in Conns, Current(c)' = {}, conn'[c] = "started"
    PROVE  /\ Left(c) => Stage(c)' = "over"
           /\ Reading(c) \/ Deciding(c) => Stage(c)' = "reading"
           /\ Writing(c) => Stage(c)' = IF keepAlive'[c] THEN "keeping" ELSE "closing"
           /\ Computing(c) \/ Answering(c) => Stage(c)' = "processing"
<1>1. CASE Left(c)
  BY <1>1 DEF Left, Stage, Deciding, Reading, Writing, Computing, Answering
<1>2. CASE Reading(c)
  BY <1>2 DEF Left, Stage, Deciding, Reading, Writing, Computing, Answering
<1>3. CASE Writing(c)
  BY <1>3 DEF Left, Stage, Deciding, Reading, Writing, Computing, Answering
<1>4. CASE Computing(c)
  BY <1>4 DEF Left, Stage, Deciding, Reading, Writing, Computing, Answering
<1>5. CASE Answering(c)
  BY <1>5 DEF Left, Stage, Deciding, Reading, Writing, Computing, Answering
<1>6. CASE Deciding(c)
  BY <1>6 DEF Left, Stage, Deciding, Reading, Writing, Computing, Answering
<1> QED  BY <1>1, <1>2, <1>3, <1>4, <1>5, <1>6

(* A response is announced on an open socket, and dropped by a closed one. *)
LEMMA WriteStage ==
    ASSUME TypeOK, NEW c \in Conns, NEW keep \in BOOLEAN, Write(c, keep, {}),
           Current(c)' = {}, conn'[c] = "started",
           Answers(c)' = {}, c \notin outstanding', closed[c] => ended'[c]
    PROVE  \/ closed[c] /\ Stage(c)' = "over"
           \/ Stage(c)' = IF keep THEN "keeping" ELSE "closing"
<1>1. CASE closed[c]
  <2>1. Left(c)
    BY <1>1 DEF Write, Left, TypeOK, SessionTypeOK
  <2> QED  BY <1>1, <2>1, StageAfter
<1>2. CASE ~closed[c]
  <2>1. Writing(c) /\ keepAlive'[c] = keep
    BY <1>2 DEF Write, Writing, TypeOK, SessionTypeOK
  <2> QED  BY <2>1, StageAfter
<1> QED  BY <1>1, <1>2

-----------------------------------------------------------------------------
(* An answer that keeps the connection is under way only if keep-alive is  *)
(* enabled.                                                                *)
AnswerAllowed(c) == TRUE \in Answers(c) \/ "sendKeepAlive" \in Current(c) => EnableKeepalive

(* A step of the exchange, and what it needs to be one. *)
ExchangeInv == CloseInv /\ \A c \in Conns : AnswerAllowed(c)
Step(c) == [Ex(c)!Next]_(Ex(c)!vars) /\ AnswerAllowed(c)'

(* The operation moves on without a change of stage. *)
Moves(c) ==
    /\ Stage(c)' = Stage(c)
    /\ requestCount'[c] = requestCount[c]
    /\ draining' = draining

(* Then the exchange stutters. *)
LEMMA MovesStep ==
    ASSUME NEW c \in Conns, Moves(c), AnswerAllowed(c)'
    PROVE  Step(c)
BY DEF Moves, Step, Ex!vars

(* So it does, or the server begins to drain, in the steps of others.      *)
LEMMA KeptStep ==
    ASSUME NEW c \in Conns, StageKept(c), AnswerAllowed(c), draining' \in {draining, TRUE}
    PROVE  Step(c)
<1>1. /\ Stage(c)' = Stage(c) /\ requestCount'[c] = requestCount[c]
      /\ AnswerAllowed(c)'
  BY StageKeeps DEF AnswerAllowed
<1>2. CASE draining' = draining
  BY <1>1, <1>2, MovesStep DEF Moves
<1>3. CASE draining' = TRUE
  BY <1>1, <1>3 DEF Step, Ex!Next, Ex!Drain
<1> QED  BY <1>2, <1>3

(* What the keep of an answer may be. *)
LEMMA AnswersKept == \A keep \in KeepAliveAnswers : keep \in BOOLEAN /\ (keep => EnableKeepalive)
<1>1. ASSUME NEW keep \in KeepAliveAnswers PROVE keep = FALSE \/ keep = EnableKeepalive
  BY DEF KeepAliveAnswers
<1> QED  BY <1>1, SessionAssumption

(* What a handler about the request finds, and leaves to StageAfter. *)
LEMMA HandlerStep ==
    ASSUME TypeOK, NEW c \in Conns, SessionInv(c),
           NEW h, h \notin {"timeout", "close"}, Runs(c, h), UNCHANGED conn
    PROVE  /\ Stage(c) = HandlerStage(c, h)
           /\ Current(c)' = {} /\ conn'[c] = "started"
           /\ Answers(c) = {} /\ c \notin outstanding
           /\ ops[c] \subseteq {"timer"} /\ ops[c] \ {"timer"} = {}
           /\ h \notin RequestKinds \cup {"readError"} => ops[c] = {}
           /\ closed[c] => ended[c]
<1>1. h \in Handlers \ {"timeout", "close"}
  BY RunsHandler
<1> QED  BY <1>1, StageBefore, HandlerFinds

(* Session::start: the exchange begins. *)
LEMMA StartExchange ==
    ASSUME TypeOK, NEW c \in Conns, SessionInv(c), AnswerAllowed(c), Start(c)
    PROVE  Step(c)
<1>1. /\ conn[c] = "inserted" /\ conn'[c] = "started"
      /\ Post(c, "doRead")
      /\ UNCHANGED <<requestCount, posted, draining>>
  BY DEF Start, TypeOK, drainVars
<1>2. Current(c)' = {"doRead"}
  BY <1>1, PostCurrent, HandlersFacts DEF SessionInv, Nowhere
<1>3. Stage(c) = "none" /\ Stage(c)' = "reading"
  BY <1>1, <1>2 DEF Stage, ReadHandlers
<1>4. AnswerAllowed(c)'
  BY <1>1, <1>2 DEF AnswerAllowed, Answers
<1>5. Ex(c)!Open
  BY <1>1, <1>3 DEF Ex!Open, Ex!Goes
<1> QED  BY <1>4, <1>5 DEF Step, Ex!Next

(* An operation of the reactor completes. *)
LEMMA IoExchange ==
    ASSUME TypeOK, NEW c \in Conns, SessionInv(c), AnswerAllowed(c), IoCompletes(c)
    PROVE  Step(c)
<1>1. UNCHANGED <<requestCount, keepAlive, conn, posted, outstanding, draining>>
  BY DEF IoCompletes, ReadCompletes, WriteCompletes, TimerExpires, acceptVars, poolVars, drainVars
<1>2. PICK op \in {"read", "write", "timer"}, h \in Handlers :
        /\ op \in ops[c] /\ Post(c, h)
        /\ ops' = [ops EXCEPT ![c] = @ \ {op}]
        /\ op = "read" => h \in RequestKinds \cup {"readError"}
        /\ op = "write" => h \in {"writeOk", "writeError"}
        /\ op = "timer" => h = "timeout"
  BY HandlersFacts DEF IoCompletes, ReadCompletes, WriteCompletes, TimerExpires
<1>3. ops'[c] = ops[c] \ {op} /\ ops[c] \subseteq {"read", "write", "timer", "again"}
  BY <1>2 DEF TypeOK, SessionTypeOK
<1>4. Answers(c)' = Answers(c)
  BY <1>1 DEF Answers
<1>5. CASE op = "timer"
  <2>1. Current(c)' = Current(c)
    BY <1>2, <1>5, PostCurrent
  <2>2. Stage(c)' = Stage(c)
    BY <1>1, <1>3, <1>4, <1>5, <2>1 DEF Stage
  <2> QED  BY <1>1, <1>4, <2>1, <2>2, MovesStep DEF Moves, AnswerAllowed
<1>6. CASE op # "timer"
  <2>1. Current(c) = {} /\ ops[c] \ {"timer"} = {op} /\ conn[c] = "started"
    BY <1>2, <1>3, <1>6 DEF SessionInv, OnePlace, Operations, Nowhere
  <2>2. Current(c)' = {h} /\ h # "sendKeepAlive"
    BY <1>2, <1>6, <2>1, PostCurrent, SessionAssumption
  <2>3. ASSUME op = "read" PROVE Stage(c)' = Stage(c)
    BY <1>1, <1>2, <1>3, <2>1, <2>2, <2>3 DEF Stage, ReadHandlers
  <2>4. ASSUME op = "write" PROVE Stage(c)' = Stage(c)
    <3>1. h \notin ReadHandlers
      BY <1>2, <2>4, SessionAssumption DEF ReadHandlers
    <3>2. Stage(c) = IF keepAlive[c] THEN "keeping" ELSE "closing"
      BY <1>2, <2>1, <2>4 DEF Stage
    <3>3. ops'[c] \cap {"again", "read"} = {} /\ conn'[c] = "started" /\ keepAlive'[c] = keepAlive[c]
      BY <1>1, <1>3, <2>1, <2>4
    <3>4. /\ Current(c)' \cap ReadHandlers = {}
          /\ Current(c)' \cap {"writeOk", "writeError"} # {}
      BY <1>2, <2>2, <2>4, <3>1
    <3>5. ReadHandlers' = ReadHandlers
      BY DEF ReadHandlers
    <3> QED  BY <3>2, <3>3, <3>4, <3>5 DEF Stage
  <2>5. Stage(c)' = Stage(c)
    BY <1>6, <2>3, <2>4
  <2> QED  BY <1>1, <1>4, <2>2, <2>5, MovesStep DEF Moves, AnswerAllowed
<1> QED  BY <1>5, <1>6

(* The doRead of Session::start, and a body that is too large. *)
LEMMA ReadExchange ==
    ASSUME TypeOK, NEW c \in Conns, SessionInv(c), AnswerAllowed(c), LocalHandler(c),
           RunDoRead(c) \/ OnReadTooLarge(c)
    PROVE  Step(c)
<1>1. UNCHANGED <<closed, ended, requestCount, conn, posted, outstanding, draining>>
  BY DEF LocalHandler, RunDoRead, OnReadTooLarge, acceptVars, poolVars, drainVars
<1>2. Answers(c)' = Answers(c)
  BY <1>1 DEF Answers
<1>3. CASE RunDoRead(c)
  <2>1. Runs(c, "doRead") /\ DoRead(c)
    BY <1>3 DEF RunDoRead
  <2>2. /\ Stage(c) = "reading" /\ Current(c)' = {} /\ conn'[c] = "started"
        /\ Answers(c) = {} /\ c \notin outstanding /\ ops[c] = {}
        /\ closed[c] => ended[c]
    BY <1>1, <2>1, HandlerStep, SessionAssumption DEF HandlerStage, ReadHandlers
  <2>3. Left(c) \/ Reading(c)
    BY <1>1, <1>2, <2>1, <2>2, DoReadLeaves
  <2>4. Stage(c)' \in {"reading", "over"}
    BY <2>2, <2>3, StageAfter
  <2>5. AnswerAllowed(c)'
    BY <1>2, <2>2 DEF AnswerAllowed
  <2>6. CASE Stage(c)' = "over"
    BY <1>1, <2>2, <2>5, <2>6 DEF Step, Ex!Next, Ex!End, Ex!Goes
  <2>7. CASE Stage(c)' = "reading"
    BY <1>1, <2>2, <2>5, <2>7, MovesStep DEF Moves
  <2> QED  BY <2>4, <2>6, <2>7
<1>4. CASE OnReadTooLarge(c)
  <2>1. Runs(c, "tooLarge") /\ Write(c, FALSE, CancelTimer(c))
    BY <1>4 DEF OnReadTooLarge
  <2>2. "tooLarge" \in RequestKinds
    <3>1. "tooLarge" \in Handlers
      BY <2>1, RunsHandler
    <3> QED  BY <3>1 DEF Handlers
  <2>3. /\ Stage(c) = "reading" /\ Current(c)' = {} /\ conn'[c] = "started"
        /\ Answers(c) = {} /\ c \notin outstanding /\ CancelTimer(c) = {}
        /\ closed[c] => ended[c]
    BY <1>1, <2>1, <2>2, HandlerStep DEF HandlerStage, ReadHandlers, CancelTimer
  <2>4. Stage(c)' \in {"closing", "over"}
    BY <1>1, <1>2, <2>1, <2>3, WriteStage
  <2>5. AnswerAllowed(c)'
    BY <1>2, <2>3 DEF AnswerAllowed
  <2>6. CASE Stage(c)' = "over"
    BY <1>1, <2>3, <2>5, <2>6 DEF Step, Ex!Next, Ex!End, Ex!Goes
  <2>7. CASE Stage(c)' = "closing"
    BY <1>1, <2>3, <2>5, <2>7 DEF Step, Ex!Next, Ex!Reject, Ex!Goes
  <2> QED  BY <2>4, <2>6, <2>7
<1> QED  BY <1>3, <1>4

(* A response on the strand: announced, or dropped with the socket.        *)
LEMMA SendExchange ==
    ASSUME TypeOK, CloseInv, NEW c \in Conns, SessionInv(c), AnswerAllowed(c),
           LocalHandler(c), RunSend(c)
    PROVE  Step(c)
<1>1. UNCHANGED <<closed, ended, requestCount, conn, posted, outstanding, draining>>
  BY DEF LocalHandler, RunSend, acceptVars, poolVars, drainVars
<1>2. Answers(c)' = Answers(c)
  BY <1>1 DEF Answers
<1>3. PICK keep \in BOOLEAN :
        Runs(c, IF keep THEN "sendKeepAlive" ELSE "sendClose") /\ Write(c, keep, ops[c])
  BY DEF RunSend
<1> DEFINE h == IF keep THEN "sendKeepAlive" ELSE "sendClose"
<1>4. h \notin RequestKinds \cup {"doRead", "readError", "writeOk", "writeError", "timeout", "close"}
  BY SessionAssumption
<1>5. /\ Stage(c) = "processing" /\ Current(c)' = {} /\ conn'[c] = "started"
      /\ Answers(c) = {} /\ c \notin outstanding /\ ops[c] = {}
      /\ closed[c] => ended[c]
  <2>1. Runs(c, h)
    BY <1>3
  <2> HIDE DEF h
  <2> QED  BY <1>1, <1>4, <2>1, HandlerStep DEF HandlerStage, ReadHandlers
<1>6. keep => EnableKeepalive
  <2>1. SUFFICES ASSUME Runs(c, "sendKeepAlive") PROVE "sendKeepAlive" \in Current(c)
    BY <1>3 DEF AnswerAllowed
  <2> QED  BY <2>1, RunsCurrent DEF SessionInv, OnePlace
<1>7. \/ closed[c] /\ Stage(c)' = "over"
      \/ Stage(c)' = IF keep THEN "keeping" ELSE "closing"
  BY <1>1, <1>2, <1>3, <1>5, WriteStage
<1>8. AnswerAllowed(c)'
  BY <1>2, <1>5 DEF AnswerAllowed
<1>9. CASE closed[c] /\ Stage(c)' = "over"
  <2>1. draining
    BY <1>9 DEF CloseInv
  <2> QED  BY <1>1, <1>5, <1>8, <1>9, <2>1 DEF Step, Ex!Next, Ex!Drop, Ex!Goes
<1>10. CASE Stage(c)' = IF keep THEN "keeping" ELSE "closing"
  <2>1. Stage(c)' \in Ex(c)!Announced
    BY <1>6, <1>10 DEF Ex!Announced
  <2> QED  BY <1>1, <1>5, <1>8, <2>1 DEF Step, Ex!Next, Ex!Answer, Ex!Goes
<1> QED  BY <1>7, <1>9, <1>10

(* onRead fails, or a write is complete: the exchange is over, or another  *)
(* request is read.                                                        *)
LEMMA EndExchange ==
    ASSUME TypeOK, NEW c \in Conns, SessionInv(c), AnswerAllowed(c),
           OnReadError(c) \/ OnWriteError(c) \/ OnWriteLast(c)
    PROVE  Step(c)
<1>1. UNCHANGED <<closed, requestCount, conn, posted, outstanding, draining>>
  BY DEF OnReadError, OnWriteError, OnWriteLast, acceptVars, poolVars, drainVars
<1>2. PICK h \in {"readError", "writeOk", "writeError"} :
        Runs(c, h) /\ (ops' = ops \/ ops' = [ops EXCEPT ![c] = CancelTimer(c)])
  BY DEF OnReadError, OnWriteError, OnWriteLast
<1>3. /\ Stage(c) = HandlerStage(c, h) /\ Current(c)' = {} /\ conn'[c] = "started"
      /\ Answers(c) = {} /\ c \notin outstanding
      /\ ops[c] \ {"timer"} = {} /\ (h # "readError" => ops[c] = {})
  BY <1>1, <1>2, HandlerStep, SessionAssumption
<1>4. ended'[c]
  BY EndSessionFlags DEF OnReadError, OnWriteError, OnWriteLast
<1>5. ops'[c] = {}
  <2>1. CASE OnReadError(c)
    BY <1>3, <2>1 DEF OnReadError, CancelTimer, TypeOK, SessionTypeOK
  <2>2. CASE OnWriteError(c) \/ OnWriteLast(c)
    <3>1. PICK w \in {"writeOk", "writeError"} : Runs(c, w)
      BY <2>2 DEF OnWriteError, OnWriteLast
    <3>2. ops[c] = {}
      BY <1>1, <3>1, HandlerStep, SessionAssumption
    <3> QED  BY <2>2, <3>2 DEF OnWriteError, OnWriteLast
  <2> QED  BY <2>1, <2>2
<1>6. Answers(c)' = Answers(c)
  BY <1>1 DEF Answers
<1>7. Stage(c)' = "over" /\ AnswerAllowed(c)'
  BY <1>1, <1>3, <1>4, <1>5, <1>6, StageAfter DEF Left, AnswerAllowed
<1>8. Stage(c) \in {"reading", "keeping", "closing"}
  BY <1>3 DEF HandlerStage, ReadHandlers
<1> QED  BY <1>1, <1>7, <1>8 DEF Step, Ex!Next, Ex!End, Ex!Goes

(* onWrite decides to read again. *)
LEMMA NextExchange ==
    ASSUME TypeOK, NEW c \in Conns, SessionInv(c), AnswerAllowed(c), OnWriteNext(c)
    PROVE  Step(c)
<1>1. /\ UNCHANGED <<requestCount, conn, posted, outstanding, draining>>
      /\ Runs(c, "writeOk") /\ ops' = [ops EXCEPT ![c] = @ \cup {"again"}]
      /\ keepAlive[c] /\ EnableKeepalive /\ requestCount[c] < MaxKeepaliveRequests /\ ~draining
  BY DEF OnWriteNext, ShouldKeepAlive, acceptVars, poolVars, drainVars
<1>2. /\ Stage(c) = "keeping" /\ Current(c)' = {} /\ conn'[c] = "started"
      /\ Answers(c) = {} /\ c \notin outstanding /\ ops[c] = {}
  BY <1>1, HandlerStep, SessionAssumption DEF HandlerStage, ReadHandlers
<1>3. Answers(c)' = Answers(c)
  BY <1>1 DEF Answers
<1>4. Deciding(c)
  BY <1>1, <1>2, <1>3 DEF Deciding, TypeOK, SessionTypeOK
<1>5. Stage(c)' = "reading" /\ AnswerAllowed(c)'
  BY <1>2, <1>3, <1>4, StageAfter DEF AnswerAllowed
<1> QED  BY <1>1, <1>2, <1>5 DEF Step, Ex!Next, Ex!ReadAgain, Ex!Goes

(* The doRead that follows reads, or finds the socket closed. *)
LEMMA ReadAgainExchange ==
    ASSUME TypeOK, NEW c \in Conns, SessionInv(c), AnswerAllowed(c), ReadAgain(c)
    PROVE  Step(c)
<1>1. /\ UNCHANGED <<closed, ended, requestCount, conn, strand, posted, outstanding, draining>>
      /\ "again" \in ops[c] /\ DoRead(c)
  BY DEF ReadAgain, acceptVars, poolVars, drainVars
<1>2. /\ ops[c] = {"again"} /\ Current(c) = {} /\ Answers(c) = {} /\ c \notin outstanding
      /\ conn[c] = "started" /\ (closed[c] => ended[c])
  BY <1>1, DecidedFinds
<1>3. Current(c)' = {} /\ Answers(c)' = {} /\ conn'[c] = "started"
  BY <1>1, <1>2 DEF Current, Answers
<1>4. Left(c) \/ Reading(c)
  BY <1>1, <1>2, <1>3, DoReadLeaves
<1>5. Stage(c)' \in {"reading", "over"} /\ AnswerAllowed(c)'
  BY <1>3, <1>4, StageAfter DEF AnswerAllowed
<1>6. Stage(c) = "reading"
  BY <1>2 DEF Stage
<1>7. CASE Stage(c)' = "over"
  BY <1>1, <1>5, <1>6, <1>7 DEF Step, Ex!Next, Ex!End, Ex!Goes
<1>8. CASE Stage(c)' = "reading"
  BY <1>1, <1>5, <1>6, <1>8, MovesStep DEF Moves
<1> QED  BY <1>5, <1>7, <1>8

(* A request that is answered at once. *)
LEMMA FastExchange ==
    ASSUME TypeOK, CloseInv, NEW c \in Conns, SessionInv(c), AnswerAllowed(c), OnFastRequest(c)
    PROVE  Step(c)
<1>1. /\ UNCHANGED <<closed, ended, conn, posted, outstanding, draining>>
      /\ Runs(c, "fast") /\ requestCount'[c] = requestCount[c] + 1
  BY DEF OnFastRequest, OnRequest, acceptVars, poolVars, drainVars, TypeOK, SessionTypeOK
<1>2. PICK keep \in KeepAliveAnswers : Write(c, keep, CancelTimer(c))
  BY DEF OnFastRequest
<1>3. keep \in BOOLEAN /\ (keep => EnableKeepalive)
  BY SessionAssumption, AnswersKept
<1>4. "fast" \in RequestKinds
  <2>1. "fast" \in Handlers
    BY <1>1, RunsHandler
  <2> QED  BY <2>1 DEF Handlers
<1>5. /\ Stage(c) = "reading" /\ Current(c)' = {} /\ conn'[c] = "started"
      /\ Answers(c) = {} /\ c \notin outstanding /\ CancelTimer(c) = {}
      /\ closed[c] => ended[c]
  BY <1>1, <1>4, HandlerStep DEF HandlerStage, ReadHandlers, CancelTimer
<1>6. Answers(c)' = Answers(c)
  BY <1>1 DEF Answers
<1>7. \/ closed[c] /\ Stage(c)' = "over"
      \/ Stage(c)' = IF keep THEN "keeping" ELSE "closing"
  BY <1>1, <1>2, <1>3, <1>5, <1>6, WriteStage
<1>8. AnswerAllowed(c)'
  BY <1>5, <1>6 DEF AnswerAllowed
<1>9. CASE closed[c] /\ Stage(c)' = "over"
  <2>1. draining
    BY <1>9 DEF CloseInv
  <2> QED  BY <1>1, <1>5, <1>8, <1>9, <2>1 DEF Step, Ex!Next, Ex!Drop, Ex!Goes, Ex!Receives
<1>10. CASE Stage(c)' = IF keep THEN "keeping" ELSE "closing"
  <2>1. Stage(c)' \in Ex(c)!Announced
    BY <1>3, <1>10 DEF Ex!Announced
  <2> QED  BY <1>1, <1>5, <1>8, <2>1 DEF Step, Ex!Next, Ex!Receive, Ex!Goes, Ex!Receives
<1> QED  BY <1>7, <1>9, <1>10

(* A request for the pool: accepted, or refused and answered by the 503.   *)
LEMMA ComputeExchange ==
    ASSUME TypeOK, NEW c \in Conns, SessionInv(c), AnswerAllowed(c), OnComputeRequest(c)
    PROVE  Step(c)
<1>1. /\ UNCHANGED <<closed, ended, conn, draining>>
      /\ Runs(c, "compute") /\ requestCount'[c] = requestCount[c] + 1
  BY DEF OnComputeRequest, OnRequest, acceptVars, drainVars, TypeOK, SessionTypeOK
<1>2. "compute" \in RequestKinds
  <2>1. "compute" \in Handlers
    BY <1>1, RunsHandler
  <2> QED  BY <2>1 DEF Handlers
<1>3. /\ Stage(c) = "reading" /\ Current(c)' = {} /\ conn'[c] = "started"
      /\ Answers(c) = {} /\ c \notin outstanding /\ CancelTimer(c) = {}
  BY <1>1, <1>2, HandlerStep DEF HandlerStage, ReadHandlers, CancelTimer
<1>4. ops'[c] = {}
  BY <1>3 DEF OnComputeRequest, TypeOK, SessionTypeOK
<1>5. (Computing(c) \/ Answering(c)) /\ TRUE \notin Answers(c)'
  <2>1. CASE Pool!Accept(c) /\ UNCHANGED posted
    <3>1. Answers(c)' = {} /\ c \in outstanding'
      BY <1>3, <2>1 DEF Answers, Pool!Accept
    <3> QED  BY <1>4, <3>1 DEF Computing
  <2>2. CASE posted' = posted \cup {<<c, FALSE>>} /\ UNCHANGED poolVars
    <3>1. Answers(c)' = {FALSE} /\ c \notin outstanding'
      BY <1>3, <2>2 DEF Answers, poolVars
    <3> QED  BY <1>4, <3>1 DEF Answering
  <2> QED  BY <2>1, <2>2 DEF OnComputeRequest
<1>6. Stage(c)' = "processing" /\ AnswerAllowed(c)'
  BY <1>3, <1>5, StageAfter DEF AnswerAllowed
<1> QED  BY <1>1, <1>3, <1>6 DEF Step, Ex!Next, Ex!Receive, Ex!Goes, Ex!Receives

(* Timeouts and closes are not seen in the exchange when they happen. *)
LEMMA InterruptExchange ==
    ASSUME TypeOK, NEW c \in Conns, SessionInv(c), AnswerAllowed(c),
           OnTimeout(c) \/ OnClose(c) \/ ForceClose(c)
    PROVE  Step(c)
<1>1. UNCHANGED <<requestCount, keepAlive, conn, posted, outstanding, draining>>
  BY DEF OnTimeout, OnClose, ForceClose, acceptVars, poolVars, drainVars
<1>2. Current(c)' = Current(c)
  <2>1. CASE OnTimeout(c) \/ OnClose(c)
    <3>1. PICK h \in {"timeout", "close"} : Runs(c, h)
      BY <2>1 DEF OnTimeout, OnClose
    <3> QED  BY <3>1, RunsCurrent DEF SessionInv, OnePlace
  <2>2. CASE ForceClose(c)
    BY <2>2, PostCurrent, HandlersFacts DEF ForceClose
  <2> QED  BY <2>1, <2>2
<1>3. ops'[c] \in {ops[c], ops[c] \ {"timer"}}
  BY DEF OnTimeout, OnClose, ForceClose, CancelTimer, TypeOK, SessionTypeOK
<1>4. Answers(c)' = Answers(c)
  BY <1>1 DEF Answers
<1>5. Stage(c)' = Stage(c)
  BY <1>1, <1>2, <1>3, <1>4 DEF Stage
<1> QED  BY <1>1, <1>2, <1>4, <1>5, MovesStep DEF Moves, AnswerAllowed

(* Nor is the way of an answer from the pool to the strand. *)
LEMMA CompleteExchange ==
    ASSUME TypeOK, NEW c \in Conns, SessionInv(c), AnswerAllowed(c), Complete(c)
    PROVE  Step(c)
<1>1. /\ UNCHANGED <<requestCount, keepAlive, conn, draining, ops, strand>>
      /\ c \in outstanding
  BY DEF Complete, Pool!Complete, TypeOK, Pool!TypeOK, sessionVars, acceptVars, drainVars
<1>2. PICK keep \in KeepAliveAnswers : posted' = posted \cup {<<c, keep>>}
  BY DEF Complete
<1>3. keep \in BOOLEAN /\ (keep => EnableKeepalive)
  BY SessionAssumption, AnswersKept
<1>4. Operations(c) = {} /\ Current(c) = {} /\ Answers(c) = {} /\ conn[c] = "started"
  BY <1>1 DEF SessionInv, OnePlace, Nowhere
<1>5. Current(c)' = {}
  BY <1>1, <1>4 DEF Current
<1>6. Answers(c)' = {keep}
  BY <1>2, <1>3, <1>4 DEF Answers
<1>7. Stage(c)' = Stage(c)
  BY <1>1, <1>4, <1>5, <1>6 DEF Stage, Operations
<1>8. AnswerAllowed(c)'
  BY <1>3, <1>5, <1>6 DEF AnswerAllowed
<1> QED  BY <1>1, <1>7, <1>8, MovesStep DEF Moves

(* The posted answer reaches the strand. *)
LEMMA PostedExchange ==
    ASSUME TypeOK, NEW c \in Conns, SessionInv(c), AnswerAllowed(c), RunPosted(c)
    PROVE  Step(c)
<1>1. UNCHANGED <<requestCount, keepAlive, conn, draining, ops, outstanding>>
  BY DEF RunPosted, acceptVars, poolVars, drainVars
<1>2. PICK keep \in BOOLEAN :
        /\ <<c, keep>> \in posted /\ posted' = posted \ {<<c, keep>>}
        /\ Post(c, IF keep THEN "sendKeepAlive" ELSE "sendClose")
  BY DEF RunPosted
<1>3. keep \in Answers(c)
  BY <1>2 DEF Answers
<1>4. Operations(c) = {} /\ Current(c) = {} /\ conn[c] = "started"
  BY <1>3 DEF SessionInv, OnePlace, Nowhere
<1>5. Answers(c)' \subseteq Answers(c)
  BY <1>2 DEF Answers
<1>6. PICK h \in {"sendKeepAlive", "sendClose"} :
        Post(c, h) /\ (h = "sendKeepAlive" => keep)
  BY <1>2
<1>7. Current(c)' = {h}
  BY <1>4, <1>6, PostCurrent, HandlersFacts
<1>8. Stage(c)' = Stage(c)
  <2>1. h \notin ReadHandlers /\ h \notin {"writeOk", "writeError"}
    BY SessionAssumption DEF ReadHandlers
  <2> QED  BY <1>1, <1>3, <1>4, <1>7, <2>1 DEF Stage, Operations
<1>9. AnswerAllowed(c)'
  BY <1>3, <1>5, <1>6, <1>7 DEF AnswerAllowed
<1> QED  BY <1>1, <1>8, <1>9, MovesStep DEF Moves

-----------------------------------------------------------------------------
(* Every step of the server is a step of each exchange, or none of it. *)
LEMMA ExchangeStep ==
    ASSUME TypeOK, TypeOK', SessionsInv, ExchangeInv, [Next]_vars, NEW c \in Conns
    PROVE  Step(c)
<1>1. SessionInv(c) /\ AnswerAllowed(c) /\ CloseInv
  BY DEF SessionsInv, ExchangeInv
<1>2. CASE Elsewhere
  BY <1>1, <1>2, ElsewhereKept, KeptStep
<1>3. ASSUME NEW d \in Conns, d # c,
             \/ Start(d) \/ IoCompletes(d) \/ StrandStep(d)
             \/ Complete(d) \/ RunPosted(d) \/ ForceClose(d)
      PROVE  Step(c)
  BY <1>1, <1>3, OthersKept, KeptStep
<1>4. CASE StrandStep(c)
  BY <1>1, <1>4, ReadExchange, SendExchange, EndExchange, NextExchange,
     ReadAgainExchange, FastExchange, ComputeExchange, InterruptExchange
  DEF StrandStep, LocalHandler
<1>5. CASE Start(c) \/ IoCompletes(c) \/ Complete(c) \/ RunPosted(c) \/ ForceClose(c)
  BY <1>1, <1>5, StartExchange, IoExchange, CompleteExchange, PostedExchange, InterruptExchange
<1> QED  BY <1>2, <1>3, <1>4, <1>5, NextSplit

(* Both invariants hold, with those they rest on. *)
LEMMA ExchangeInvariant == Spec => [](TypeOK /\ SessionsInv /\ ExchangeInv)
<1>1. Init => ExchangeInv
  <2>1. SUFFICES ASSUME Init, NEW c \in Conns PROVE AnswerAllowed(c)
    BY CloseInvInductive DEF ExchangeInv
  <2>2. posted = {} /\ strand[c] = <<>>
    BY <2>1 DEF Init, SessionInit
  <2> QED  BY <2>2 DEF AnswerAllowed, Answers, Current
<1>2. TypeOK /\ TypeOK' /\ SessionsInv /\ ExchangeInv /\ [Next]_vars => ExchangeInv'
  <2>1. SUFFICES ASSUME TypeOK, TypeOK', SessionsInv, ExchangeInv, [Next]_vars
                 PROVE  ExchangeInv'
    OBVIOUS
  <2>2. CloseInv'
    BY <2>1, CloseInvInductive DEF ExchangeInv
  <2>3. \A c \in Conns : AnswerAllowed(c)'
    BY <2>1, ExchangeStep DEF Step
  <2> QED  BY <2>2, <2>3 DEF ExchangeInv
<1> QED  BY <1>1, <1>2, ServerTypeCorrect, SessionsInit, SessionStep, PTL DEF Spec

(* The exchanges begin as they should. *)
LEMMA ExchangeInit == ASSUME Init, NEW c \in Conns PROVE Ex(c)!Init
<1>1. conn[c] = "away" /\ requestCount[c] = 0 /\ draining = FALSE
  BY DEF Init, SessionInit
<1> QED  BY <1>1 DEF Stage, Ex!Init

(* HttpServer implements Exchange on every connection: a request received  *)
(* by onRead is answered once, whether by a handler of the router or by    *)
(* the pool, unless the server drains, and another is read only after an   *)
(* answer that kept the connection.                                        *)
THEOREM ServerImplementsExchange == Spec => ImplementsExchange
<1>1. Init => \A c \in Conns : Ex(c)!Init
  BY ExchangeInit
<1>2. TypeOK /\ TypeOK' /\ SessionsInv /\ ExchangeInv /\ [Next]_vars =>
        [\A c \in Conns : [Ex(c)!Next]_(Ex(c)!vars)]_vars
  BY ExchangeStep DEF Step
<1> QED  BY <1>1, <1>2, ExchangeInvariant, PTL DEF Spec, ImplementsExchange

-----------------------------------------------------------------------------
(* Exchange keeps the requests of a connection within the limit: what is   *)
(* read is within it, and what is kept, or waits for an answer, is a       *)
(* connection that had a request.                                          *)
CountInv(c) ==
    /\ requestCount[c] \in Nat
    /\ Ex(c)!RequestsBounded
    /\ Stage(c) = "none" => requestCount[c] = 0
    /\ Stage(c) = "reading" => requestCount[c] < Ex(c)!Limit
    /\ Stage(c) \in {"processing", "keeping"} => requestCount[c] >= 1

(* The invariant of the limit is inductive. *)
LEMMA CountInvInductive ==
    ASSUME NEW c \in Conns
    PROVE  /\ Ex(c)!Init => CountInv(c)
           /\ CountInv(c) /\ [Ex(c)!Next]_(Ex(c)!vars) => CountInv(c)'
<1> DEFINE limit == Ex(c)!Limit
<1>1. /\ limit \in Nat /\ limit >= 1
      /\ EnableKeepalive => MaxKeepaliveRequests <= limit
      /\ EnableKeepalive /\ MaxKeepaliveRequests > 1 => MaxKeepaliveRequests = limit
      /\ ~EnableKeepalive \/ MaxKeepaliveRequests <= 1 => limit = 1
  BY SessionAssumption DEF Ex!Limit
<1>2. limit' = limit
  BY DEF Ex!Limit
<1>3. Ex(c)!Init => CountInv(c)
  BY <1>1 DEF CountInv, Ex!Init, Ex!RequestsBounded
<1> DEFINE n == requestCount[c]
<1> USE DEF CountInv, Ex!RequestsBounded
<1>4. ASSUME CountInv(c), Ex(c)!Next PROVE CountInv(c)'
  <2>1. CASE Ex(c)!Open
    BY <1>1, <1>2, <1>4, <2>1 DEF Ex!Open, Ex!Goes
  <2>2. CASE Ex(c)!Receive
    <3>1. PICK to \in {"closing", "keeping", "processing"} : Ex(c)!Goes("reading", to)
      BY <2>2 DEF Ex!Receive, Ex!Announced
    <3> QED  BY <1>1, <1>2, <1>4, <2>2, <3>1 DEF Ex!Receive, Ex!Receives, Ex!Goes
  <2>3. CASE Ex(c)!Reject
    BY <1>1, <1>2, <1>4, <2>3 DEF Ex!Reject, Ex!Goes
  <2>4. CASE Ex(c)!Answer
    <3>1. PICK to \in {"closing", "keeping"} : Ex(c)!Goes("processing", to)
      BY <2>4 DEF Ex!Answer, Ex!Announced
    <3> QED  BY <1>1, <1>2, <1>4, <2>4, <3>1 DEF Ex!Answer, Ex!Goes
  <2>5. CASE Ex(c)!ReadAgain
    <3>1. /\ EnableKeepalive /\ n < MaxKeepaliveRequests /\ n >= 1 /\ n \in Nat
          /\ Stage(c)' = "reading" /\ requestCount'[c] = n
      BY <1>4, <2>5 DEF Ex!ReadAgain, Ex!Goes
    <3>2. MaxKeepaliveRequests > 1 /\ n < limit
      BY <1>1, <3>1, SessionAssumption
    <3>3. requestCount'[c] \in Nat /\ requestCount'[c] <= limit' /\ requestCount'[c] < limit'
      BY <1>1, <1>2, <3>1, <3>2
    <3> QED  BY <3>1, <3>3 DEF Ex!Limit
  <2>6. CASE Ex(c)!End
    BY <1>1, <1>2, <1>4, <2>6 DEF Ex!End, Ex!Goes
  <2>7. CASE Ex(c)!Drop
    <3>1. CASE Ex(c)!Goes("processing", "over") /\ UNCHANGED requestCount[c]
      BY <1>1, <1>2, <1>4, <3>1 DEF Ex!Goes
    <3>2. CASE Ex(c)!Goes("reading", "over") /\ Ex(c)!Receives
      <4>1. n < limit /\ n \in Nat /\ Stage(c)' = "over" /\ requestCount'[c] = n + 1
        BY <1>4, <3>2 DEF Ex!Goes, Ex!Receives
      <4>2. requestCount'[c] \in Nat /\ requestCount'[c] <= limit'
        BY <1>1, <1>2, <4>1
      <4> QED  BY <4>1, <4>2
    <3> QED  BY <2>7, <3>1, <3>2 DEF Ex!Drop
  <2>8. CASE Ex(c)!Drain
    BY <1>1, <1>2, <1>4, <2>8 DEF Ex!Drain
  <2> QED  BY <1>4, <2>1, <2>2, <2>3, <2>4, <2>5, <2>6, <2>7, <2>8 DEF Ex!Next
<1>5. ASSUME CountInv(c), UNCHANGED Ex(c)!vars PROVE CountInv(c)'
  BY <1>2, <1>5 DEF Ex!vars
<1> QED  BY <1>3, <1>4, <1>5

(* max_keepalive_requests bounds the requests received on any connection,  *)
(* whatever happens to it; without keep-alive there is one.                *)
THEOREM KeepaliveBounded == Spec => [](\A c \in Conns : Ex(c)!RequestsBounded)
<1> DEFINE CountsInv == \A c \in Conns : CountInv(c)
<1>1. Init => CountsInv
  BY ExchangeInit, CountInvInductive
<1>2. TypeOK /\ TypeOK' /\ SessionsInv /\ ExchangeInv /\ CountsInv /\ [Next]_vars => CountsInv'
  <2>1. SUFFICES ASSUME TypeOK, TypeOK', SessionsInv, ExchangeInv, CountsInv, [Next]_vars,
                        NEW c \in Conns
                 PROVE  CountInv(c)'
    OBVIOUS
  <2>2. CountInv(c) /\ [Ex(c)!Next]_(Ex(c)!vars)
    BY <2>1, ExchangeStep DEF Step
  <2> QED  BY <2>2, CountInvInductive
<1>3. CountsInv => \A c \in Conns : Ex(c)!RequestsBounded
  BY DEF CountInv
<1> QED  BY <1>1, <1>2, <1>3, ExchangeInvariant, PTL DEF Spec

-----------------------------------------------------------------------------
(* The read timer guards every read of a session that is counted: it runs, *)
(* or its handler is already on the strand.                                *)
Timed(c) == "read" \in ops[c] /\ ~ended[c] => "timer" \in ops[c] \/ Queued(c, "timeout")

(* Every step keeps it so: only onRead, which has the read, cancels the    *)
(* timer, and the handler that is taken up ends the session.               *)
LEMMA TimedStep ==
    ASSUME TypeOK, TypeOK', SessionsInv, SessionsInv', [Next]_vars, NEW c \in Conns, Timed(c)
    PROVE  Timed(c)'
<1> SUFFICES ASSUME "read" \in ops'[c], ~ended'[c]
             PROVE  "timer" \in ops'[c] \/ Queued(c, "timeout")'
  BY DEF Timed
<1> USE DEF SessionsInv
<1>1. ASSUME StageKept(c) PROVE "timer" \in ops'[c] \/ Queued(c, "timeout")'
  BY <1>1 DEF StageKept, Untouched, Timed, Queued
<1>2. CASE Elsewhere
  BY <1>1, <1>2, ElsewhereKept
<1>3. ASSUME NEW d \in Conns, d # c,
             \/ Start(d) \/ IoCompletes(d) \/ StrandStep(d)
             \/ Complete(d) \/ RunPosted(d) \/ ForceClose(d)
      PROVE  "timer" \in ops'[c] \/ Queued(c, "timeout")'
  BY <1>1, <1>3, OthersKept
<1>4. CASE "read" \notin ops[c]
  <2>1. DoRead(c)
    BY <1>4, ReadBegins DEF RunDoRead, ReadAgain
  <2> QED  BY <1>4, <2>1 DEF DoRead, TypeOK, SessionTypeOK
<1>5. CASE StrandStep(c) /\ "read" \in ops[c]
  <2>a. ~ReadAgain(c)
    BY <1>5, DecidedFinds DEF ReadAgain
  <2>1. PICK h \in Handlers : Runs(c, h)
    <3>1. \E h : Runs(c, h)
      BY <1>5, <2>a
      DEF StrandStep, LocalHandler, RunDoRead, OnReadTooLarge, RunSend, OnReadError,
          OnFastRequest, OnComputeRequest, OnRequest, OnWriteError, OnWriteLast,
          OnWriteNext, OnTimeout, OnClose
    <3> QED  BY <3>1, RunsHandler
  <2>2. h \in {"timeout", "close"}
    BY <1>5, <2>1, HandlerFinds
  <2>3. OnTimeout(c) \/ OnClose(c)
    <3>1. strand[c] # <<>> /\ Head(strand[c]) = h
      BY <2>1 DEF Runs
    <3>2. /\ ~Runs(c, "doRead") /\ ~Runs(c, "sendKeepAlive") /\ ~Runs(c, "sendClose")
          /\ ~Runs(c, "readError") /\ ~Runs(c, "tooLarge") /\ ~Runs(c, "fast")
          /\ ~Runs(c, "compute") /\ ~Runs(c, "writeOk") /\ ~Runs(c, "writeError")
      BY <2>2, <3>1 DEF Runs
    <3>3. ~RunDoRead(c) /\ ~RunSend(c)
      BY <3>2 DEF RunDoRead, RunSend
    <3>4. ~OnReadError(c) /\ ~OnWriteError(c)
      BY <3>2 DEF OnReadError, OnWriteError
    <3>5. ~OnWriteLast(c) /\ ~OnWriteNext(c)
      BY <3>2 DEF OnWriteLast, OnWriteNext
    <3>6. ~OnReadTooLarge(c)
      BY <3>2 DEF OnReadTooLarge
    <3>7. ~OnFastRequest(c) /\ ~OnComputeRequest(c)
      BY <3>2 DEF OnFastRequest, OnComputeRequest, OnRequest
    <3> QED  BY <1>5, <2>a, <3>3, <3>4, <3>5, <3>6, <3>7 DEF StrandStep, LocalHandler
  <2>4. ended'[c]
    <3>1. CASE EndSession(c)
      BY <3>1, EndSessionFlags
    <3>2. CASE closed[c] /\ UNCHANGED ended
      BY <3>2 DEF SessionInv
    <3> QED  BY <2>3, <3>1, <3>2 DEF OnTimeout, OnClose
  <2> QED  BY <2>4
<1>6. CASE IoCompletes(c) /\ "read" \in ops[c]
  <2>1. PICK op \in {"read", "write", "timer"}, h \in Handlers :
          /\ Post(c, h)
          /\ ops' = [ops EXCEPT ![c] = @ \ {op}]
          /\ op = "timer" => h = "timeout"
    BY <1>6, HandlersFacts DEF IoCompletes, ReadCompletes, WriteCompletes, TimerExpires
  <2>2. UNCHANGED ended
    BY <1>6 DEF IoCompletes, ReadCompletes, WriteCompletes, TimerExpires
  <2>3. Queued(c, "timeout") \/ h = "timeout" => Queued(c, "timeout")'
    BY <2>1, PostQueued
  <2> QED  BY <1>6, <2>1, <2>2, <2>3 DEF Timed, TypeOK, SessionTypeOK
<1>7. CASE Start(c) \/ Complete(c) \/ RunPosted(c) \/ ForceClose(c)
  <2>1. UNCHANGED <<ops, ended>>
    BY <1>7 DEF Start, Complete, RunPosted, ForceClose, sessionVars
  <2>2. UNCHANGED strand \/ \E h \in Handlers : Post(c, h)
    BY <1>7, HandlersFacts DEF Start, Complete, RunPosted, ForceClose, sessionVars
  <2>3. Queued(c, "timeout") => Queued(c, "timeout")'
    BY <2>2, PostQueued DEF Queued
  <2> QED  BY <2>1, <2>3 DEF Timed
<1> QED  BY <1>2, <1>3, <1>4, <1>5, <1>6, <1>7, NextSplit

(* A session that is counted and being read has its timer running, or the  *)
(* handler of the timeout on its strand, whatever else happens: it cannot  *)
(* be kept in m_sessions by a client that is silent.                       *)
THEOREM ReadsAreTimed == Spec => []ReadsTimed
<1>1. Init => ReadsTimed
  BY DEF ReadsTimed, Init, SessionInit
<1>2. TypeOK /\ TypeOK' /\ SessionsInv /\ SessionsInv' /\ ReadsTimed /\ [Next]_vars
        => ReadsTimed'
  BY TimedStep DEF ReadsTimed, Timed
<1> QED  BY <1>1, <1>2, ServerTypeCorrect, SessionsInit, SessionStep, PTL DEF Spec
==============================================================================
