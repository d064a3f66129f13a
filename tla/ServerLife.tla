----------------------------- MODULE ServerLife ------------------------------
(***************************************************************************)
(* The life of the process: main (main.cpp), HttpServer::run and what it   *)
(* starts and shuts down (server.cpp), with exceptions on the way up, and  *)
(* the order in which io threads, pool, logger and the server itself go.   *)
(* The pool is the TaskService that ThreadPool implements, the logger the  *)
(* LogService that AsyncLogger implements, and what the io_context does    *)
(* until it stops is left to HttpServer.                                   *)
(***************************************************************************)
EXTENDS Integers, Sequences, FiniteSets

CONSTANTS
    Tasks,
    Stuck,          \* tasks that may never return
    IoThreads,      \* how many io threads are started, at least one
    PoolMayAbandon, \* drain_timeout_sec > 0
    SinkMayFail

ASSUME LifeAssumption ==
    /\ IsFiniteSet(Tasks) /\ Stuck \subseteq Tasks
    /\ IoThreads \in Nat \ {0}
    /\ {PoolMayAbandon, SinkMayFail} \subseteq BOOLEAN

VARIABLES
    main,           \* where main is
    failed,         \* an exception has ended run
    spawned,        \* the io threads that run
    stopped,        \* m_ioc is stopped
    poolStarted,    \* m_pool.start() has returned
    outstanding, begun, phase,                      \* the pool
    accepted, output, due, logPhase, broken,        \* the logger
    touched         \* a task has used the server after its destruction

poolVars == <<outstanding, begun, phase>>
logVars == <<accepted, output, due, logPhase, broken>>
lifeVars == <<failed, spawned, stopped, poolStarted>>
vars == <<main, lifeVars, poolVars, logVars, touched>>

(* What is logged: two messages of the server, and that of a failed task.  *)
Messages == {"starting", "stopped"} \cup Tasks

Pool == INSTANCE TaskService WITH Capacity <- Cardinality(Tasks)
Log == INSTANCE LogService WITH phase <- logPhase

Logged == {accepted[i] : i \in DOMAIN accepted}
Written == {output[i] : i \in DOMAIN output}

TypeOK ==
    /\ main \in {"constructed", "announcing", "routes", "listening", "spawning", "serving",
                 "joining", "draining", "grace", "reporting", "closing", "flushing",
                 "destroyed", "exited"}
    /\ {failed, stopped, poolStarted, touched} \subseteq BOOLEAN
    /\ spawned \in 0..IoThreads
    /\ Pool!TypeOK
    /\ logPhase \in {"new", "open", "closing", "closed"}

Goes(from, to) == main = from /\ main' = to

Init ==
    /\ main = "constructed"
    /\ failed = FALSE /\ stopped = FALSE /\ poolStarted = FALSE /\ touched = FALSE
    /\ spawned = 0
    /\ Pool!Init /\ Log!Init

-----------------------------------------------------------------------------
(* setup and startAcceptorLoop.  Each step can throw: no thread for the    *)
(* logger, the pool or the io threads, no static root, no such address, a  *)
(* port in use.  The exception unwinds run, and ~HttpServer shuts down.    *)
StartLogger ==
    /\ Goes("constructed", "announcing")
    /\ Log!Open
    /\ UNCHANGED <<lifeVars, poolVars, touched>>

Announce ==
    /\ Goes("announcing", "routes")
    /\ Log!Accept("starting")
    /\ UNCHANGED <<lifeVars, poolVars, touched>>

StartPool ==
    /\ Goes("routes", "listening")
    /\ poolStarted' = TRUE
    /\ UNCHANGED <<failed, spawned, stopped, poolVars, logVars, touched>>

Listen ==
    /\ Goes("listening", "spawning")
    /\ UNCHANGED <<lifeVars, poolVars, logVars, touched>>

Spawn ==
    /\ main = "spawning"
    /\ spawned' = spawned + 1
    /\ main' = IF spawned' = IoThreads THEN "serving" ELSE "spawning"
    /\ UNCHANGED <<failed, stopped, poolStarted, poolVars, logVars, touched>>

Throw ==
    /\ main \in {"constructed", "routes", "listening", "spawning"}
    /\ failed' = TRUE
    /\ main' = "joining"
    /\ UNCHANGED <<spawned, stopped, poolStarted, poolVars, logVars, touched>>

StartUp == StartLogger \/ Announce \/ StartPool \/ Listen \/ Spawn

-----------------------------------------------------------------------------
(* While some thread runs the io_context, requests reach the pool.         *)
IoRuns == ~stopped /\ (spawned > 0 \/ main = "serving")

Submit(t) ==
    /\ IoRuns
    /\ Pool!Accept(t)
    /\ UNCHANGED <<main, lifeVars, logVars, touched>>

(* The io_context stops: the drain after a signal is over, or, once        *)
(* shutdown has set m_draining, the last session has ended.                *)
StopIo ==
    /\ IoRuns
    /\ stopped' = TRUE
    /\ UNCHANGED <<main, failed, spawned, poolStarted, poolVars, logVars, touched>>

Begin(t) ==
    /\ poolStarted /\ main # "exited"
    /\ Pool!Begin(t)
    /\ UNCHANGED <<main, lifeVars, logVars, touched>>

(* A task that failed is logged ... *)
LogFailure(t) ==
    /\ main # "exited"
    /\ t \in begun /\ t \notin Logged
    /\ IF main = "destroyed"
       THEN touched' = TRUE /\ UNCHANGED logVars
       ELSE Log!Accept(t) /\ UNCHANGED touched
    /\ UNCHANGED <<main, lifeVars, poolVars>>

(* ... and its response, like any other, is posted to the io_context.      *)
Complete(t) ==
    /\ main # "exited"
    /\ Pool!Complete(t)
    /\ touched' = (touched \/ main = "destroyed")
    /\ UNCHANGED <<main, lifeVars, logVars>>

LoggerStep ==
    /\ main # "exited"
    /\ Log!Deliver \/ (SinkMayFail /\ ~broken /\ logPhase # "new" /\ Log!Break)
    /\ UNCHANGED <<main, lifeVars, poolVars, touched>>

-----------------------------------------------------------------------------
(* m_ioc.run() returns in main, and shutdown begins. *)
Return ==
    /\ main = "serving" /\ stopped
    /\ main' = "joining"
    /\ UNCHANGED <<lifeVars, poolVars, logVars, touched>>

(* Fault: the io threads are awaited even if there are none. *)
JoinNeedsStop ==
    /\ Goes("joining", "draining")
    /\ stopped
    /\ Pool!Close
    /\ UNCHANGED <<lifeVars, logVars, touched>>

JoinIoThreads ==
    /\ Goes("joining", "draining")
    /\ spawned = 0 \/ stopped
    /\ Pool!Close
    /\ UNCHANGED <<lifeVars, logVars, touched>>

(* Faults: the timeout of the pool ends the shutdown without an abort, and *)
(* the timeout is none.                                                    *)
PoolNotAborted ==
    /\ Goes("draining", "reporting")
    /\ UNCHANGED <<lifeVars, poolVars, logVars, touched>>

AbortWhenDone ==
    /\ Goes("draining", "grace")
    /\ outstanding = {}
    /\ Pool!Abandon
    /\ UNCHANGED <<lifeVars, logVars, touched>>

(* shutdownWithTimeout.  Workers that were not started are waited for like *)
(* others, because their promise is not kept, and abandoned.               *)
PoolDrained ==
    /\ Goes("draining", "reporting")
    /\ (poolStarted /\ outstanding = {}) \/ (~poolStarted /\ ~PoolMayAbandon)
    /\ UNCHANGED <<lifeVars, poolVars, logVars, touched>>

PoolAborted ==
    /\ main = "draining" /\ PoolMayAbandon
    /\ Pool!Abandon
    /\ main' = "grace"
    /\ UNCHANGED <<lifeVars, logVars, touched>>

GraceOver ==
    /\ Goes("grace", "reporting")
    /\ UNCHANGED <<lifeVars, poolVars, logVars, touched>>

Report ==
    /\ Goes("reporting", "closing")
    /\ Log!Accept("stopped")
    /\ UNCHANGED <<lifeVars, poolVars, touched>>

CloseLogger ==
    /\ main = "closing"
    /\ IF logPhase = "new"
       THEN Log!Discard /\ main' = "destroyed"
       ELSE Log!Close /\ main' = "flushing"
    /\ UNCHANGED <<lifeVars, poolVars, touched>>

(* Fault: the consumer of the logger is not waited for. *)
DestroyUnflushed ==
    /\ Goes("flushing", "destroyed")
    /\ UNCHANGED <<lifeVars, poolVars, logVars, touched>>

Destroy ==
    /\ Goes("flushing", "destroyed")
    /\ Log!Finish
    /\ UNCHANGED <<lifeVars, poolVars, touched>>

(* main returns, and the threads that are left go with the process. *)
Exit ==
    /\ Goes("destroyed", "exited")
    /\ UNCHANGED <<lifeVars, poolVars, logVars, touched>>

Gone == main = "exited" /\ UNCHANGED vars

ShutDown ==
    \/ Return \/ JoinIoThreads \/ PoolDrained \/ PoolAborted \/ GraceOver
    \/ Report \/ CloseLogger \/ Destroy \/ Exit

Next ==
    \/ StartUp \/ Throw \/ ShutDown \/ Gone
    \/ \E t \in Tasks : Submit(t) \/ Begin(t) \/ LogFailure(t) \/ Complete(t)
    \/ StopIo
    \/ LoggerStep

(* Threads that can run are run, tasks return unless they are stuck, and   *)
(* nobody need ever send a signal.                                         *)
Fairness ==
    /\ WF_vars(StartUp) /\ WF_vars(ShutDown) /\ WF_vars(LoggerStep)
    /\ \A t \in Tasks : WF_vars(Begin(t)) /\ WF_vars(t \notin Stuck /\ Complete(t))

Spec == Init /\ [][Next]_vars
FairSpec == Spec /\ Fairness

-----------------------------------------------------------------------------
(* A task uses the server after its destruction only if a worker was       *)
(* abandoned: otherwise shutdown has waited for every one, whatever order  *)
(* signals, tasks and exceptions come in.                                  *)
UsedOnlyIfAbandoned == touched => phase = "aborted"

(* When the server is gone, everything logged before the logger was closed *)
(* is written, the failures of all tasks that were waited for and the last *)
(* message of shutdown included, unless the sink broke or the logger never *)
(* ran.                                                                    *)
LogComplete ==
    main \in {"destroyed", "exited"} /\ ~broken /\ "starting" \in Logged =>
        LET owed == {accepted[k] : k \in 1..due}
        IN "stopped" \in owed /\ owed \subseteq Written

(* The server that is told to stop, stops, although tasks hang.            *)
StopsWhenTold == stopped ~> main = "exited"

(* An exception before there is an io thread ends the process by itself.   *)
FailureEnds == failed /\ spawned = 0 ~> main = "exited"
==============================================================================
