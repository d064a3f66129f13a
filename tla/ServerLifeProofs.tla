-------------------------- MODULE ServerLifeProofs ---------------------------
(***************************************************************************)
(* Proofs about ServerLife, for any tasks, any number of io threads, a     *)
(* timed shutdown or not and a sink that fails or not.                     *)
(***************************************************************************)
EXTENDS ServerLife, TLAPS, SequenceTheorems

Shutting == {"draining", "grace", "reporting", "closing", "flushing", "destroyed", "exited"}
PoolLeft == {"reporting", "closing", "flushing", "destroyed", "exited"}

(* The pool and main: it is open until main closes it, and once main has   *)
(* gone on without an abort, it is empty or has never run.                 *)
PoolInv ==
    /\ phase \in {"open", "closed", "aborted"}
    /\ begun \subseteq outstanding
    /\ ~poolStarted => begun = {}
    /\ (main \in Shutting) <=> (phase # "open")
    /\ main = "grace" => phase = "aborted"
    /\ main \in PoolLeft /\ phase = "closed" => outstanding = {} \/ ~poolStarted

LifeInv == main \in Shutting \cup {"constructed", "announcing", "routes", "listening",
                                   "spawning", "serving", "joining"}
           /\ PoolInv /\ UsedOnlyIfAbandoned

(* The invariant of the pool's life. *)
LEMMA LifeInvInductive == (Init => LifeInv) /\ (LifeInv /\ [Next]_vars => LifeInv')
<1> USE DEF LifeInv, PoolInv, UsedOnlyIfAbandoned, Shutting, PoolLeft, Goes
<1>1. Init => LifeInv
  BY DEF Init, Pool!Init
<1>2. ASSUME LifeInv, [Next]_vars PROVE LifeInv'
  <2>1. CASE UNCHANGED vars
    BY <1>2, <2>1 DEF vars, lifeVars, poolVars
  <2>2. CASE StartUp \/ Throw
    <3>1. CASE StartLogger
      BY <1>2, <3>1 DEF StartLogger, lifeVars, poolVars
    <3>2. CASE Announce
      BY <1>2, <3>2 DEF Announce, lifeVars, poolVars
    <3>3. CASE StartPool
      BY <1>2, <3>3 DEF StartPool, poolVars
    <3>4. CASE Listen
      BY <1>2, <3>4 DEF Listen, lifeVars, poolVars
    <3>5. CASE Spawn
      BY <1>2, <3>5 DEF Spawn, poolVars
    <3>6. CASE Throw
      BY <1>2, <3>6 DEF Throw, poolVars
    <3> QED  BY <2>2, <3>1, <3>2, <3>3, <3>4, <3>5, <3>6 DEF StartUp
  <2>3. ASSUME NEW t \in Tasks, Submit(t) PROVE LifeInv'
    BY <1>2, <2>3 DEF Submit, Pool!Accept, lifeVars
  <2>4. ASSUME NEW t \in Tasks, Begin(t) PROVE LifeInv'
    BY <1>2, <2>4 DEF Begin, Pool!Begin, lifeVars
  <2>5. ASSUME NEW t \in Tasks, LogFailure(t) PROVE LifeInv'
    BY <1>2, <2>5 DEF LogFailure, lifeVars, poolVars
  <2>6. ASSUME NEW t \in Tasks, Complete(t) PROVE LifeInv'
    BY <1>2, <2>6 DEF Complete, Pool!Complete, lifeVars
  <2>7. CASE StopIo \/ LoggerStep
    BY <1>2, <2>7 DEF StopIo, LoggerStep, lifeVars, poolVars
  <2>8. CASE ShutDown
    <3>1. CASE Return
      BY <1>2, <3>1 DEF Return, lifeVars, poolVars
    <3>2. CASE JoinIoThreads
      BY <1>2, <3>2 DEF JoinIoThreads, Pool!Close, lifeVars
    <3>3. CASE PoolDrained
      BY <1>2, <3>3 DEF PoolDrained, lifeVars, poolVars
    <3>4. CASE PoolAborted
      BY <1>2, <3>4 DEF PoolAborted, Pool!Abandon, lifeVars
    <3>5. CASE GraceOver
      BY <1>2, <3>5 DEF GraceOver, lifeVars, poolVars
    <3>6. CASE Report
      BY <1>2, <3>6 DEF Report, lifeVars, poolVars
    <3>7. CASE CloseLogger
      BY <1>2, <3>7 DEF CloseLogger, lifeVars, poolVars
    <3>8. CASE Destroy
      BY <1>2, <3>8 DEF Destroy, lifeVars, poolVars
    <3>9. CASE Exit
      BY <1>2, <3>9 DEF Exit, lifeVars, poolVars
    <3> QED  BY <2>8, <3>1, <3>2, <3>3, <3>4, <3>5, <3>6, <3>7, <3>8, <3>9 DEF ShutDown
  <2> QED  BY <1>2, <2>1, <2>2, <2>3, <2>4, <2>5, <2>6, <2>7, <2>8 DEF Next, Gone
<1> QED  BY <1>1, <1>2

(* Without an abandoned worker, nothing uses the server once it is gone.   *)
THEOREM DestroyedUnused == Spec => []UsedOnlyIfAbandoned
<1>1. LifeInv => UsedOnlyIfAbandoned
  BY DEF LifeInv
<1> QED  BY <1>1, LifeInvInductive, PTL DEF Spec

-----------------------------------------------------------------------------
(* The log and main: the output is the beginning of what was accepted, and *)
(* the last message of shutdown is among those that Destroy waits for.     *)
Owed(m) == \E k \in 1..due : accepted[k] = m

LogShape ==
    /\ accepted \in Seq(Messages) /\ output \in Seq(Messages)
    /\ due \in Nat /\ due <= Len(accepted) /\ Len(output) <= Len(accepted)
    /\ \A i \in 1..Len(output) : output[i] = accepted[i]

LogInv ==
    /\ LogShape
    /\ main \in {"announcing", "routes"} => logPhase = "open"
    /\ poolStarted \/ "starting" \in Logged => logPhase # "new"
    /\ main = "closing" => "stopped" \in Logged
    /\ main = "flushing" => Owed("stopped")
    /\ main \in {"destroyed", "exited"} =>
            broken \/ "starting" \notin Logged \/ (Len(output) >= due /\ Owed("stopped"))

(* What is logged is what some position of accepted holds. *)
LEMMA LoggedFacts ==
    ASSUME LogShape PROVE \A m : m \in Logged <=> \E k \in 1..Len(accepted) : accepted[k] = m
BY DEF LogShape, Logged

(* A message more adds itself to what is logged, and nothing to what is    *)
(* owed.                                                                   *)
LEMMA AcceptLogs ==
    ASSUME LogShape, NEW m \in Messages, Log!Accept(m)
    PROVE  /\ LogShape' /\ Logged' = Logged \cup {m}
           /\ \A n : Owed(n)' <=> Owed(n)
           /\ UNCHANGED <<output, due, logPhase, broken>>
<1>1. /\ accepted' \in Seq(Messages) /\ Len(accepted') = Len(accepted) + 1
      /\ \A i \in 1..Len(accepted) : accepted'[i] = accepted[i]
      /\ accepted'[Len(accepted) + 1] = m
      /\ UNCHANGED <<output, due, logPhase, broken>>
  BY AppendProperties DEF LogShape, Log!Accept
<1>2. LogShape'
  BY <1>1 DEF LogShape
<1>3. DOMAIN accepted = 1..Len(accepted) /\ DOMAIN accepted' = 1..Len(accepted')
  BY <1>1 DEF LogShape
<1>4. Len(accepted) \in Nat /\ 1..Len(accepted') = (1..Len(accepted)) \cup {Len(accepted) + 1}
  BY <1>1 DEF LogShape
<1>5. Logged' = Logged \cup {m}
  BY <1>1, <1>3, <1>4 DEF Logged
<1>6. \A n : Owed(n)' <=> Owed(n)
  BY <1>1 DEF Owed, LogShape
<1> QED  BY <1>1, <1>2, <1>5, <1>6

(* Where main may go without the log. *)
LEMMA LogFrame ==
    ASSUME LogInv, UNCHANGED logVars,
           poolStarted' => poolStarted \/ logPhase # "new",
           \/ main' = main
           \/ main' \in {"listening", "spawning", "serving", "joining", "draining", "grace",
                         "reporting"}
           \/ main = "announcing" /\ main' = "routes"
           \/ main = "destroyed" /\ main' = "exited"
    PROVE  LogInv'
BY DEF LogInv, LogShape, Logged, Owed, logVars

(* The invariant of the log is inductive. *)
LEMMA LogInvInductive == (Init => LogInv) /\ (LifeInv /\ LogInv /\ [Next]_vars => LogInv')
<1>1. Init => LogInv
  BY DEF Init, Log!Init, LogInv, LogShape, Logged, Owed
<1>2. ASSUME LifeInv, LogInv, [Next]_vars PROVE LogInv'
  <2>1. CASE UNCHANGED vars
    BY <1>2, <2>1, LogFrame DEF vars, lifeVars
  <2>2. CASE StartLogger
    BY <1>2, <2>2 DEF StartLogger, Goes, Log!Open, LogInv, LogShape, Logged, Owed, lifeVars
  <2>3. CASE Announce
    <3>1. Goes("announcing", "routes") /\ Log!Accept("starting") /\ UNCHANGED poolStarted
      BY <2>3 DEF Announce, lifeVars
    <3> QED  BY <1>2, <3>1, AcceptLogs DEF LogInv, Messages, Goes
  <2>4. CASE StartPool \/ Listen \/ Spawn \/ Throw
    BY <1>2, <2>4, LogFrame DEF StartPool, Listen, Spawn, Throw, Goes, lifeVars, LogInv
  <2>5. ASSUME NEW t \in Tasks, Submit(t) \/ Begin(t) \/ Complete(t) PROVE LogInv'
    BY <1>2, <2>5, LogFrame DEF Submit, Begin, Complete, lifeVars
  <2>6. ASSUME NEW t \in Tasks, LogFailure(t) PROVE LogInv'
    <3>1. CASE main = "destroyed"
      BY <1>2, <2>6, <3>1, LogFrame DEF LogFailure, lifeVars
    <3>2. CASE main # "destroyed"
      <4>1. Log!Accept(t) /\ UNCHANGED <<main, poolStarted>> /\ main # "exited"
        BY <2>6, <3>2 DEF LogFailure, lifeVars
      <4>2. poolStarted
        BY <1>2, <2>6 DEF LogFailure, LifeInv, PoolInv
      <4> QED  BY <1>2, <3>2, <4>1, <4>2, AcceptLogs DEF LogInv, Messages
    <3> QED  BY <3>1, <3>2
  <2>7. CASE StopIo \/ Return \/ JoinIoThreads \/ PoolDrained \/ PoolAborted \/ GraceOver \/ Exit
    BY <1>2, <2>7, LogFrame
    DEF StopIo, Return, JoinIoThreads, PoolDrained, PoolAborted, GraceOver, Exit, Goes, lifeVars
  <2>8. CASE LoggerStep
    <3>1. UNCHANGED <<accepted, due, logPhase, main, poolStarted>>
      BY <2>8 DEF LoggerStep, Log!Deliver, Log!Break, lifeVars
    <3>2. CASE Log!Break
      BY <1>2, <3>1, <3>2 DEF Log!Break, LogInv, LogShape, Logged, Owed
    <3>3. CASE Log!Deliver
      <4>1. /\ Len(output) < Len(accepted) /\ UNCHANGED broken
            /\ output' = Append(output, accepted[Len(output) + 1])
        BY <3>3 DEF Log!Deliver
      <4>2. accepted[Len(output) + 1] \in Messages
        BY <1>2, <4>1 DEF LogInv, LogShape
      <4>3. /\ output' \in Seq(Messages) /\ Len(output') = Len(output) + 1
            /\ \A i \in 1..Len(output) : output'[i] = output[i]
            /\ output'[Len(output) + 1] = accepted[Len(output) + 1]
        BY <1>2, <4>1, <4>2, AppendProperties DEF LogInv, LogShape
      <4>4. LogShape' /\ Len(output') >= Len(output) /\ Len(output) \in Nat
        BY <1>2, <3>1, <4>1, <4>3 DEF LogInv, LogShape
      <4> QED  BY <1>2, <3>1, <4>1, <4>3, <4>4 DEF LogInv, LogShape, Logged, Owed
    <3> QED  BY <2>8, <3>2, <3>3 DEF LoggerStep
  <2>9. CASE Report
    <3>1. Goes("reporting", "closing") /\ Log!Accept("stopped") /\ UNCHANGED poolStarted
      BY <2>9 DEF Report, lifeVars
    <3>2. /\ LogShape' /\ Logged' = Logged \cup {"stopped"} /\ UNCHANGED logPhase
      BY <1>2, <3>1, AcceptLogs DEF LogInv, Messages
    <3> QED  BY <1>2, <3>1, <3>2 DEF LogInv, Goes
  <2>10. CASE CloseLogger
    <3>1. main = "closing" /\ UNCHANGED <<accepted, output, broken, poolStarted>>
          /\ due' = Len(accepted)
      BY <2>10 DEF CloseLogger, Log!Discard, Log!Close, lifeVars
    <3>2. LogShape' /\ Logged' = Logged
      BY <1>2, <3>1 DEF LogInv, LogShape, Logged
    <3>3. Owed("stopped")'
      <4>1. \E k \in 1..Len(accepted) : accepted[k] = "stopped"
        BY <1>2, <3>1, LoggedFacts DEF LogInv
      <4> QED  BY <3>1, <4>1 DEF Owed
    <3>4. CASE logPhase = "new"
      BY <1>2, <2>10, <3>1, <3>2, <3>4 DEF CloseLogger, Log!Discard, LogInv
    <3>5. CASE logPhase # "new"
      BY <1>2, <2>10, <3>1, <3>2, <3>3, <3>5 DEF CloseLogger, Log!Close, LogInv
    <3> QED  BY <3>4, <3>5
  <2>11. CASE Destroy
    BY <1>2, <2>11 DEF Destroy, Goes, Log!Finish, LogInv, LogShape, Logged, Owed, lifeVars
  <2> QED
    BY <1>2, <2>1, <2>2, <2>3, <2>4, <2>5, <2>6, <2>7, <2>8, <2>9, <2>10, <2>11
    DEF Next, StartUp, ShutDown, Gone
<1> QED  BY <1>1, <1>2

(* The logger is flushed before the server is gone: whatever was logged    *)
(* before it was closed, the last message of shutdown included, is written *)
(* unless the sink broke or the logger never ran.                          *)
THEOREM DestroyedFlushed == Spec => []LogComplete
<1>1. ASSUME LogInv PROVE LogComplete
  <2> SUFFICES ASSUME main \in {"destroyed", "exited"}, ~broken, "starting" \in Logged
               PROVE  /\ "stopped" \in {accepted[k] : k \in 1..due}
                      /\ {accepted[k] : k \in 1..due} \subseteq Written
    BY DEF LogComplete
  <2>1. LogShape /\ Len(output) >= due /\ Owed("stopped")
    BY <1>1 DEF LogInv
  <2>2. DOMAIN output = 1..Len(output) /\ Len(output) \in Nat
    BY <2>1 DEF LogShape
  <2>3. \A k \in 1..due : k \in 1..Len(output) /\ output[k] = accepted[k]
    BY <2>1, <2>2 DEF LogShape
  <2> QED  BY <2>1, <2>2, <2>3 DEF Owed, Written
<1> QED  BY <1>1, LifeInvInductive, LogInvInductive, PTL DEF Spec
==============================================================================
