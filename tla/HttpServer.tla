----------------------------- MODULE HttpServer -----------------------------
(***************************************************************************)
(* HttpServer (server.cpp) with the sessions it serves, the way of a       *)
(* request through RequestProcessor and HttpTask, and the pool as the      *)
(* TaskService that ThreadPool implements.                                 *)
(*                                                                         *)
(* Threads run the io_context: the io threads and main.  A strand's        *)
(* handlers and the closures posted to the io_context are one step each,   *)
(* because what they share with other threads they touch at one point (an  *)
(* atomic, or a critical section of m_sessionsMutex).  The handlers of     *)
(* m_acceptor, m_signals and m_drainTimer touch it at several, and take a  *)
(* step for each, as does the onWrite that looks at m_draining and then    *)
(* reads again; Busy counts the threads inside them.                       *)
(***************************************************************************)
EXTENDS Session

CONSTANTS
    MaxConnections,     \* max_connections
    IoThreads,          \* io_threads, 0 included
    MaxQueueSize,       \* max_queue_size
    PoolMayAbandon,     \* drain_timeout_sec > 0
    Stuck               \* connections whose compute request may never return

ASSUME ServerAssumption ==
    /\ IsFiniteSet(Conns)
    /\ MaxConnections \in Nat
    /\ IoThreads \in Nat
    /\ MaxQueueSize \in Nat
    /\ PoolMayAbandon \in BOOLEAN
    /\ Stuck \subseteq Conns

(* startAcceptorLoop starts at least one io thread; main joins them. *)
Threads == (IF IoThreads = 0 THEN 1 ELSE IoThreads) + 1

VARIABLES
    conn,           \* how far the acceptor has come with each connection
    armed,          \* the async_accept in progress: "accept", "reject" or "none"
    sessions,       \* m_sessions
    active,         \* m_activeSessions
    draining,       \* m_draining
    signal,         \* the handler of m_signals: "waiting", "checking" or "done"
    drain,          \* m_drainTimer: "off", "armed", "forcing" or "done"
    remaining,      \* `remaining' of the timer's handler, sessions to be closed
    stopped,        \* m_ioc is stopped
    posted,         \* responses posted to m_ioc by sendResponseAsync
    outstanding,    \* connections whose request is in the pool
    begun,          \* those whose request is being executed
    phase,          \* the phase of the pool
    main            \* where main is in HttpServer::run

acceptVars == <<conn, armed>>
countVars == <<sessions, active>>
drainVars == <<draining, signal, drain, remaining>>
poolVars == <<outstanding, begun, phase>>
vars == <<sessionVars, acceptVars, countVars, drainVars, stopped, posted, poolVars, main>>

Pool == INSTANCE TaskService WITH Tasks <- Conns, Capacity <- MaxQueueSize

TypeOK ==
    /\ SessionTypeOK
    /\ conn \in [Conns -> {"away", "backlog", "accepted", "rearmed", "inserted",
                           "started", "refused"}]
    /\ armed \in {"none", "accept", "reject"}
    /\ sessions \subseteq Conns
    /\ active \in Nat
    /\ draining \in BOOLEAN
    /\ signal \in {"waiting", "checking", "done"}
    /\ drain \in {"off", "armed", "forcing", "done"}
    /\ remaining \subseteq Conns
    /\ stopped \in BOOLEAN
    /\ posted \subseteq Conns \X BOOLEAN
    /\ Pool!TypeOK
    /\ main \in {"running", "draining", "grace", "returned"}

-----------------------------------------------------------------------------
(* The connections whose accept handler is in progress on some thread. *)
InAccept == {c \in Conns : conn[c] \in {"accepted", "rearmed", "inserted"}}

(* Those whose onWrite has decided to read again, on some thread. *)
Rereading == {c \in Conns : "again" \in ops[c]}

Busy == Cardinality(InAccept) + Cardinality(Rereading)
            + (IF signal = "checking" THEN 1 ELSE 0)
            + (IF drain = "forcing" THEN 1 ELSE 0)

(* A thread is free to begin a handler.  A stopped io_context begins none. *)
ThreadFree == ~stopped /\ Busy < Threads

(* Fault: doAccept without the limit. *)
AcceptUnlimited == IF stopped \/ draining THEN "none" ELSE "accept"

(* doAccept: which async_accept it starts. *)
NextAccept ==
    IF stopped \/ draining THEN "none"
    ELSE IF active >= MaxConnections THEN "reject" ELSE "accept"

(* checkDrainComplete.  That it cancels m_drainTimer as well has no effect *)
(* on an io_context that is stopped.                                       *)
CheckDrainComplete(n) ==
    stopped' = (stopped \/ (draining /\ n = 0))

(* Fault: Session::endSession without m_ended. *)
EndSessionAgain(c) ==
    /\ ended' = [ended EXCEPT ![c] = TRUE]
    /\ sessions' = sessions \ {c}
    /\ active' = active - 1
    /\ CheckDrainComplete(active')

(* Session::endSession and HttpServer::endSession. *)
EndSession(c) ==
    IF ended[c]
    THEN UNCHANGED <<ended, countVars, stopped>>
    ELSE /\ ended' = [ended EXCEPT ![c] = TRUE]
         /\ sessions' = sessions \ {c}
         /\ active' = active - 1
         /\ CheckDrainComplete(active')

Init ==
    /\ SessionInit
    /\ conn = [c \in Conns |-> "away"]
    /\ armed = IF MaxConnections = 0 THEN "reject" ELSE "accept"
    /\ sessions = {}
    /\ active = 0
    /\ draining = FALSE
    /\ signal = "waiting"
    /\ drain = "off"
    /\ remaining = {}
    /\ stopped = FALSE
    /\ posted = {}
    /\ Pool!Init
    /\ main = "running"

-----------------------------------------------------------------------------
(* The acceptor. *)
Connect(c) ==
    /\ conn[c] = "away"
    /\ conn' = [conn EXCEPT ![c] = "backlog"]
    /\ UNCHANGED <<sessionVars, armed, countVars, drainVars, stopped, posted, poolVars, main>>

(* async_accept completes: the handler begins on a thread of its own. *)
Accept(c) ==
    /\ ThreadFree
    /\ armed = "accept"
    /\ conn[c] = "backlog"
    /\ conn' = [conn EXCEPT ![c] = "accepted"]
    /\ armed' = "none"
    /\ UNCHANGED <<sessionVars, countVars, drainVars, stopped, posted, poolVars, main>>

(* Fault: after an error nothing is accepted any more. *)
AcceptErrorFatal ==
    /\ ThreadFree
    /\ armed # "none"
    /\ armed' = "none"
    /\ UNCHANGED <<sessionVars, conn, countVars, drainVars, stopped, posted, poolVars, main>>

(* async_accept fails, in either form: the handler only calls doAccept. *)
AcceptError ==
    /\ ThreadFree
    /\ armed # "none"
    /\ armed' = NextAccept
    /\ UNCHANGED <<sessionVars, conn, countVars, drainVars, stopped, posted, poolVars, main>>

(* The accept made because the limit was reached: close, then doAccept. *)
Reject(c) ==
    /\ ThreadFree
    /\ armed = "reject"
    /\ conn[c] = "backlog"
    /\ conn' = [conn EXCEPT ![c] = "refused"]
    /\ armed' = NextAccept
    /\ UNCHANGED <<sessionVars, countVars, drainVars, stopped, posted, poolVars, main>>

(* The accept handler's steps: doAccept, the insertion under the mutex,    *)
(* and session->start().                                                   *)
Rearm(c) ==
    /\ conn[c] = "accepted"
    /\ conn' = [conn EXCEPT ![c] = "rearmed"]
    /\ armed' = NextAccept
    /\ UNCHANGED <<sessionVars, countVars, drainVars, stopped, posted, poolVars, main>>

Insert(c) ==
    /\ conn[c] = "rearmed"
    /\ conn' = [conn EXCEPT ![c] = "inserted"]
    /\ sessions' = sessions \cup {c}
    /\ active' = active + 1
    /\ UNCHANGED <<sessionVars, armed, drainVars, stopped, posted, poolVars, main>>

Start(c) ==
    /\ conn[c] = "inserted"
    /\ conn' = [conn EXCEPT ![c] = "started"]
    /\ Post(c, "doRead")
    /\ UNCHANGED <<closed, ended, keepAlive, requestCount, ops>>
    /\ UNCHANGED <<armed, countVars, drainVars, stopped, posted, poolVars, main>>

AcceptStep(c) == Rearm(c) \/ Insert(c) \/ Start(c)

-----------------------------------------------------------------------------
(* The sessions' operations and handlers.                                  *)
IoCompletes(c) ==
    /\ ~stopped
    /\ ReadCompletes(c) \/ WriteCompletes(c) \/ TimerExpires(c)
    /\ UNCHANGED <<acceptVars, countVars, drainVars, stopped, posted, poolVars, main>>

(* Handlers that concern the session alone. *)
LocalHandler(c) ==
    /\ ThreadFree
    /\ RunDoRead(c) \/ OnReadTooLarge(c) \/ RunSend(c)
    /\ UNCHANGED <<acceptVars, countVars, drainVars, stopped, posted, poolVars, main>>

OnReadError(c) ==
    /\ ThreadFree
    /\ Runs(c, "readError")
    /\ ops' = [ops EXCEPT ![c] = CancelTimer(c)]
    /\ EndSession(c)
    /\ UNCHANGED <<closed, keepAlive, requestCount>>
    /\ UNCHANGED <<acceptVars, drainVars, posted, poolVars, main>>

(* onRead with a request, common to both strategies of process(). *)
OnRequest(c, kind) ==
    /\ ThreadFree
    /\ Runs(c, kind)
    /\ requestCount' = [requestCount EXCEPT ![c] = @ + 1]
    /\ UNCHANGED <<closed, ended, acceptVars, countVars, drainVars, stopped, main>>

(* HttpServer::sendResponse: isKeepAlive && m_enableKeepalive.  Whether the *)
(* client asked for Connection: close is a choice.                         *)
KeepAliveAnswers == {FALSE, EnableKeepalive}

(* The fast strategy answers at once. *)
OnFastRequest(c) ==
    /\ OnRequest(c, "fast")
    /\ \E keep \in KeepAliveAnswers : Write(c, keep, CancelTimer(c))
    /\ UNCHANGED <<posted, poolVars>>

(* POST /compute: the pool takes the task, or a 503 without keep-alive is  *)
(* posted.                                                                 *)
OnComputeRequest(c) ==
    /\ OnRequest(c, "compute")
    /\ ops' = [ops EXCEPT ![c] = CancelTimer(c)]
    /\ \/ /\ Pool!Accept(c)
          /\ UNCHANGED posted
       \/ /\ phase # "open" \/ Cardinality(outstanding \ begun) >= MaxQueueSize
          /\ posted' = posted \cup {<<c, FALSE>>}
          /\ UNCHANGED poolVars
    /\ UNCHANGED keepAlive

OnWriteError(c) ==
    /\ ThreadFree
    /\ Runs(c, "writeError")
    /\ EndSession(c)
    /\ UNCHANGED <<closed, keepAlive, requestCount, ops>>
    /\ UNCHANGED <<acceptVars, drainVars, posted, poolVars, main>>

(* onWrite after a complete write: end the session or read again. *)
OnWriteLast(c) ==
    /\ ThreadFree
    /\ Runs(c, "writeOk")
    /\ ~ShouldKeepAlive(c) \/ draining
    /\ EndSession(c)
    /\ UNCHANGED <<closed, keepAlive, requestCount, ops>>
    /\ UNCHANGED <<acceptVars, drainVars, posted, poolVars, main>>

(* onWrite decides to read again, and calls doRead: the server may begin   *)
(* to drain, or be stopped, in between.                                    *)
OnWriteNext(c) ==
    /\ ThreadFree
    /\ Runs(c, "writeOk")
    /\ ShouldKeepAlive(c) /\ ~draining
    /\ ops' = [ops EXCEPT ![c] = @ \cup {"again"}]
    /\ UNCHANGED <<closed, ended, keepAlive, requestCount>>
    /\ UNCHANGED <<acceptVars, countVars, drainVars, stopped, posted, poolVars, main>>

(* Fault: only the first read of a connection is timed. *)
ReadAgainUntimed(c) ==
    /\ "again" \in ops[c]
    /\ ops' = [ops EXCEPT ![c] = (@ \ {"again"}) \cup IF closed[c] THEN {} ELSE {"read"}]
    /\ UNCHANGED <<closed, ended, keepAlive, requestCount, strand>>
    /\ UNCHANGED <<acceptVars, countVars, drainVars, stopped, posted, poolVars, main>>

ReadAgain(c) ==
    /\ "again" \in ops[c]
    /\ DoRead(c)
    /\ UNCHANGED <<closed, ended, keepAlive, requestCount, strand>>
    /\ UNCHANGED <<acceptVars, countVars, drainVars, stopped, posted, poolVars, main>>

(* Fault: onTimeout only logs. *)
OnTimeoutIgnored(c) ==
    /\ ThreadFree
    /\ Runs(c, "timeout")
    /\ UNCHANGED <<closed, ended, keepAlive, requestCount, ops>>
    /\ UNCHANGED <<acceptVars, countVars, drainVars, stopped, posted, poolVars, main>>

(* onTimeout only ends the session: the socket stays open and a read in    *)
(* progress stays in progress.                                             *)
OnTimeout(c) ==
    /\ ThreadFree
    /\ Runs(c, "timeout")
    /\ EndSession(c)
    /\ UNCHANGED <<closed, keepAlive, requestCount, ops>>
    /\ UNCHANGED <<acceptVars, drainVars, posted, poolVars, main>>

(* The closure of Session::close. *)
OnClose(c) ==
    /\ ThreadFree
    /\ Runs(c, "close")
    /\ IF closed[c]
       THEN UNCHANGED <<closed, ended, ops, countVars, stopped>>
       ELSE /\ closed' = [closed EXCEPT ![c] = TRUE]
            /\ ops' = [ops EXCEPT ![c] = CancelTimer(c)]
            /\ EndSession(c)
    /\ UNCHANGED <<keepAlive, requestCount>>
    /\ UNCHANGED <<acceptVars, drainVars, posted, poolVars, main>>

StrandStep(c) ==
    \/ LocalHandler(c) \/ OnReadError(c) \/ OnFastRequest(c) \/ OnComputeRequest(c)
    \/ OnWriteError(c) \/ OnWriteLast(c) \/ OnWriteNext(c) \/ ReadAgain(c)
    \/ OnTimeout(c) \/ OnClose(c)

-----------------------------------------------------------------------------
(* The pool: a worker takes the task, and HttpTask::execute ends by        *)
(* calling the done callback exactly once, which posts to m_ioc.           *)
Begin(c) ==
    /\ Pool!Begin(c)
    /\ UNCHANGED <<sessionVars, acceptVars, countVars, drainVars, stopped, posted, main>>

(* Faults: done is called again after a failure, or not at all. *)
CompleteTwice(c) ==
    /\ Pool!Complete(c)
    /\ \E keep \in KeepAliveAnswers :
        posted' = posted \cup {<<c, keep>>, <<c, FALSE>>}
    /\ UNCHANGED <<sessionVars, acceptVars, countVars, drainVars, stopped, main>>

CompleteSilently(c) ==
    /\ Pool!Complete(c)
    /\ UNCHANGED <<sessionVars, acceptVars, countVars, drainVars, stopped, posted, main>>

Complete(c) ==
    /\ Pool!Complete(c)
    /\ \E keep \in KeepAliveAnswers : posted' = posted \cup {<<c, keep>>}
    /\ UNCHANGED <<sessionVars, acceptVars, countVars, drainVars, stopped, main>>

(* The closure of sendResponseAsync hands the response to the strand. *)
RunPosted(c) ==
    /\ ThreadFree
    /\ \E keep \in BOOLEAN :
        /\ <<c, keep>> \in posted
        /\ posted' = posted \ {<<c, keep>>}
        /\ Post(c, IF keep THEN "sendKeepAlive" ELSE "sendClose")
    /\ UNCHANGED <<closed, ended, keepAlive, requestCount, ops>>
    /\ UNCHANGED <<acceptVars, countVars, drainVars, stopped, poolVars, main>>

-----------------------------------------------------------------------------
(* The signal handler: m_draining and the timer, then the check under the  *)
(* mutex.                                                                  *)
Signal ==
    /\ ThreadFree
    /\ signal = "waiting"
    /\ draining' = TRUE
    /\ drain' = "armed"
    /\ signal' = "checking"
    /\ UNCHANGED <<sessionVars, acceptVars, countVars, remaining, stopped, posted, poolVars, main>>

(* Fault: the signal handler does not check for an idle server. *)
SignalWithoutCheck ==
    /\ signal = "checking"
    /\ signal' = "done"
    /\ UNCHANGED <<sessionVars, acceptVars, countVars, draining, drain, remaining, stopped,
                   posted, poolVars, main>>

SignalCheck ==
    /\ signal = "checking"
    /\ CheckDrainComplete(active)
    /\ signal' = "done"
    /\ UNCHANGED <<sessionVars, acceptVars, countVars, draining, drain, remaining, posted,
                   poolVars, main>>

(* The handler of m_drainTimer: the snapshot of m_sessions under the       *)
(* mutex, a close for each session of the snapshot, and the check.         *)
DrainTimeout ==
    /\ ThreadFree
    /\ drain = "armed"
    /\ drain' = "forcing"
    /\ remaining' = sessions
    /\ UNCHANGED <<sessionVars, acceptVars, countVars, draining, signal, stopped, posted,
                   poolVars, main>>

(* Fault: the sessions of the snapshot are not closed. *)
ForceCloseForgotten(c) ==
    /\ c \in remaining
    /\ remaining' = remaining \ {c}
    /\ UNCHANGED <<sessionVars, acceptVars, countVars, draining, signal, drain, stopped, posted,
                   poolVars, main>>

ForceClose(c) ==
    /\ c \in remaining
    /\ remaining' = remaining \ {c}
    /\ Post(c, "close")
    /\ UNCHANGED <<closed, ended, keepAlive, requestCount, ops>>
    /\ UNCHANGED <<acceptVars, countVars, draining, signal, drain, stopped, posted, poolVars, main>>

DrainCheck ==
    /\ drain = "forcing" /\ remaining = {}
    /\ CheckDrainComplete(active)
    /\ drain' = "done"
    /\ UNCHANGED <<sessionVars, acceptVars, countVars, draining, signal, remaining, posted,
                   poolVars, main>>

(* io_context::run also returns when no work is left. *)
NoWork ==
    /\ Busy = 0
    /\ armed = "none"
    /\ signal = "done"
    /\ drain \in {"off", "done"}
    /\ posted = {}
    /\ \A c \in Conns : ops[c] = {} /\ strand[c] = <<>>

OutOfWork ==
    /\ ~stopped
    /\ NoWork
    /\ stopped' = TRUE
    /\ UNCHANGED <<sessionVars, acceptVars, countVars, drainVars, posted, poolVars, main>>

(* HttpServer::shutdown, after main's m_ioc.run() has returned.  The       *)
(* closes it posts to the stopped io_context are never run.  Joining the   *)
(* io threads waits for the handlers in progress; then the pool is closed. *)
JoinIoThreads ==
    /\ main = "running"
    /\ stopped
    /\ Busy = 0
    /\ Pool!Close
    /\ main' = "draining"
    /\ draining' = TRUE
    /\ UNCHANGED <<sessionVars, acceptVars, countVars, signal, drain, remaining, stopped, posted>>

(* shutdownWithTimeout returns: every worker finished, or the timeout ran  *)
(* out, the pool was aborted and the grace period is over.                 *)
PoolDrained ==
    /\ main \in {"draining", "grace"}
    /\ outstanding = {} \/ main = "grace"
    /\ main' = "returned"
    /\ UNCHANGED <<sessionVars, acceptVars, countVars, drainVars, stopped, posted, poolVars>>

PoolAborted ==
    /\ main = "draining"
    /\ PoolMayAbandon
    /\ Pool!Abandon
    /\ main' = "grace"
    /\ UNCHANGED <<sessionVars, acceptVars, countVars, drainVars, stopped, posted>>

ShutdownStep == JoinIoThreads \/ PoolDrained \/ PoolAborted

(* The process exits: the abandoned threads go with it. *)
Returned == main = "returned" /\ UNCHANGED vars

-----------------------------------------------------------------------------
Next ==
    \/ \E c \in Conns :
        \/ Connect(c) \/ Accept(c) \/ Reject(c) \/ AcceptStep(c)
        \/ IoCompletes(c) \/ StrandStep(c)
        \/ Begin(c) \/ Complete(c) \/ RunPosted(c)
        \/ ForceClose(c)
    \/ AcceptError
    \/ Signal \/ SignalCheck
    \/ DrainTimeout \/ DrainCheck
    \/ OutOfWork
    \/ ShutdownStep
    \/ Returned

(* Threads that can run are run, timers expire, operations on a closed     *)
(* socket fail, and tasks are executed unless they are stuck.  Clients and *)
(* signals are not fair: a peer may neither send nor read for ever.        *)
Fairness ==
    /\ \A c \in Conns :
        /\ WF_vars(AcceptStep(c))
        /\ WF_vars(StrandStep(c))
        /\ WF_vars(RunPosted(c))
        /\ WF_vars(closed[c] /\ IoCompletes(c))
        /\ WF_vars(~stopped /\ TimerExpires(c) /\ IoCompletes(c))
        /\ WF_vars(Begin(c))
        /\ WF_vars(c \notin Stuck /\ Complete(c))
        /\ WF_vars(ForceClose(c))
    /\ WF_vars(SignalCheck)
    /\ WF_vars(DrainTimeout)
    /\ WF_vars(DrainCheck)
    /\ WF_vars(OutOfWork)
    /\ WF_vars(ShutdownStep)

Spec == Init /\ [][Next]_vars
FairSpec == Spec /\ Fairness

-----------------------------------------------------------------------------
(* m_activeSessions is exactly the number of sessions in m_sessions, which *)
(* are those inserted and not yet ended.  endSession is reached from a     *)
(* failed read, a failed or last write, a timeout and a forced close, in   *)
(* any order, and decrements without a check: a session counted out twice  *)
(* would wrap the counter round and the drain would never complete.        *)
CountExact ==
    /\ sessions = {c \in Conns : conn[c] \in {"inserted", "started"} /\ ~ended[c]}
    /\ active = Cardinality(sessions)

(* What the limit on connections amounts to: the limit is checked when an  *)
(* accept is armed, before the connection of the handler that arms it is   *)
(* counted, so every thread inside a handler can add one.                  *)
ConnectionBound == active <= MaxConnections + Threads

(* README.md:100 and config.hpp:30: max_connections is the maximum number  *)
(* of simultaneous connections.                                            *)
ActiveWithinLimit == active <= MaxConnections

(* The acceptor never stops listening while the server runs: whatever ends *)
(* an accept (a connection, a refusal, an error) arms the next one, or is  *)
(* about to.                                                               *)
AcceptorArmed ==
    stopped \/ draining \/ armed # "none" \/ \E c \in Conns : conn[c] = "accepted"

(* The steps of request processing that are under way for c. *)
InProgress(c) ==
    Cardinality(ops[c] \ {"timer"})
        + Cardinality({i \in DOMAIN strand[c] : strand[c][i] \notin {"timeout", "close"}})
        + Cardinality({r \in posted : r[1] = c})
        + (IF c \in outstanding THEN 1 ELSE 0)

(* A connection has one operation in progress: never two reads or writes   *)
(* on one socket or two responses to one request, whichever thread the     *)
(* response comes from; and while it is counted it has one, so that it     *)
(* cannot be forgotten in m_sessions with nothing left to end it.          *)
OneOperation ==
    \A c \in Conns :
        /\ InProgress(c) <= 1
        /\ conn[c] = "started" /\ ~ended[c] => InProgress(c) = 1

(* The end of the drain is noticed: the check of endSession reads          *)
(* m_draining under the mutex, and the signal handler checks under the     *)
(* mutex after it has set m_draining, so that one of the two sees the last *)
(* session go.                                                             *)
DrainNoticed == draining /\ signal = "done" /\ active = 0 => stopped

(* The read timer never runs while a response is computed or written.      *)
TimerOnlyWhileReading ==
    \A c \in Conns : "timer" \in ops[c] =>
        \/ "read" \in ops[c]
        \/ \E i \in DOMAIN strand[c] : strand[c][i] \in RequestKinds \cup {"readError"}

Queued(c, h) == \E i \in DOMAIN strand[c] : strand[c][i] = h

(* Every read of a session that is counted is timed: the timer runs, or    *)
(* the handler of the timeout is on the strand, so that no silent peer     *)
(* stays in m_sessions.  This must hold for a read that follows a write,   *)
(* after the timer of the read before was cancelled, or came too late for  *)
(* the cancel.                                                             *)
ReadsTimed ==
    \A c \in Conns :
        "read" \in ops[c] /\ ~ended[c] => "timer" \in ops[c] \/ Queued(c, "timeout")

(* session.cpp:143, "Read timeout, closing session", and README.md:104: a   *)
(* session that has ended no longer reads requests from an open socket.    *)
EndedSessionIsNotRead ==
    \A c \in Conns : ended[c] /\ ~closed[c] => "read" \notin ops[c]

(* The handlers of the strand and the posted answers that are about the    *)
(* request in progress.                                                    *)
Current(c) == {strand[c][i] : i \in DOMAIN strand[c]} \ {"timeout", "close"}
Answers(c) == {keep \in BOOLEAN : <<c, keep>> \in posted}

(* How far the exchange on a connection has come, whoever is busy with it. *)
ReadHandlers == RequestKinds \cup {"doRead", "readError"}

Stage(c) ==
    IF conn[c] # "started" THEN "none"
    ELSE IF ops[c] \cap {"again", "read"} # {} \/ Current(c) \cap ReadHandlers # {} THEN "reading"
    ELSE IF "write" \in ops[c] \/ Current(c) \cap {"writeOk", "writeError"} # {}
         THEN IF keepAlive[c] THEN "keeping" ELSE "closing"
    ELSE IF Current(c) # {} \/ Answers(c) # {} \/ c \in outstanding THEN "processing"
    ELSE "over"

Ex(c) == INSTANCE Exchange WITH stage <- Stage(c), requestCount <- requestCount[c]

(* Every connection is given what Exchange promises, whichever threads,    *)
(* timers and closes interfere: the formula is \A c \in Conns : Ex(c)!Spec *)
(* in a form TLC can check.  Exchange!ReadAgain is the decision of         *)
(* OnWriteNext: a server that begins to drain between the decision and     *)
(* ReadAgain does not stop the read.                                       *)
ImplementsExchange ==
    /\ \A c \in Conns : Ex(c)!Init
    /\ [][\A c \in Conns : [Ex(c)!Next]_(Ex(c)!vars)]_vars

(* A connection is accepted, and not yet in m_sessions, when the drain      *)
(* timer has taken its snapshot of m_sessions.                             *)
LateAccept ==
    drain \in {"forcing", "done"} /\ \E c \in Conns : conn[c] \in {"accepted", "rearmed"}

(* A signal stops the server, even though peers are silent and tasks hang, *)
(* unless a connection is accepted after the snapshot.                     *)
DrainCompletes == []~LateAccept => (draining ~> main = "returned")

(* config.hpp:44: drain_timeout_sec is the time sessions are waited for    *)
(* when the server is stopped.                                             *)
DrainAlwaysCompletes == draining ~> main = "returned"

(* A request the pool accepted is answered: it reaches the socket, or the  *)
(* session or the server was closed.                                       *)
RequestsAreAnswered ==
    \A c \in Conns :
        c \in outstanding ~>
            "write" \in ops[c] \/ closed[c] \/ stopped \/ \E d \in Stuck : d \in outstanding

(* The read timer takes a silent connection out of the count.              *)
SilentConnectionUncounted ==
    \A c \in Conns :
        "read" \in ops[c] ~> "read" \notin ops[c] \/ c \notin sessions \/ stopped
==============================================================================
