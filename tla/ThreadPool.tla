----------------------------- MODULE ThreadPool -----------------------------
(***************************************************************************)
(* WorkerThread and ThreadPool (thread_pool.hpp, thread_pool.cpp) around   *)
(* one TaskQueue: the workers' loop, the threads that submit, and the      *)
(* owner, which starts the pool, shuts it down (with or without a timeout, *)
(* any number of times) and destroys it.                                   *)
(***************************************************************************)
EXTENDS TaskQueue

CONSTANTS
    NumThreads,     \* the constructor's numThreads, 0 included
    Submitters,     \* the threads that call ThreadPool::submit
    Stuck,          \* the tasks whose execute() may never return
    NoTask          \* a worker that holds no task

(* The constructor creates at least one worker; m_workers is in order.     *)
NumWorkers == IF NumThreads = 0 THEN 1 ELSE NumThreads
Workers == 1..NumWorkers

ASSUME PoolAssumption ==
    /\ NumThreads \in Nat
    /\ IsFiniteSet(Submitters)
    /\ Stuck \subseteq Tasks
    /\ NoTask \notin Tasks

VARIABLES
    pc,             \* where each worker's thread function is
    running,        \* the task each worker is executing
    thread,         \* the state of each worker's m_thread
    abandoned,      \* m_abandoned of each worker
    submitting,     \* submitters between push's unlock and its notify_one
    outstanding,    \* tasks accepted by submit whose execute() has not returned
    owner,          \* where the owner is in the call it is making
    mode,           \* the kind of that call: "join", "timed" or "destroy"
    cursor,         \* the owner's position in m_workers
    stillPending    \* stillPending of shutdownWithTimeout

workerVars == <<pc, running, thread, abandoned>>
ownerVars == <<owner, mode, cursor, stillPending>>
vars == <<queueVars, workerVars, submitting, outstanding, ownerVars>>

TypeOK ==
    /\ QueueTypeOK
    /\ waiting \subseteq Workers
    /\ pc \in [Workers -> {"unstarted", "popping", "executing", "leaving", "done"}]
    /\ running \in [Workers -> Tasks \cup {NoTask}]
    /\ thread \in [Workers -> {"none", "joinable", "joined", "detached"}]
    /\ abandoned \in [Workers -> BOOLEAN]
    /\ submitting \subseteq Submitters
    /\ outstanding \subseteq Tasks
    /\ owner \in {"constructed", "starting", "idle", "closing", "joining",
                  "draining", "aborting", "waking", "grace", "destroyed"}
    /\ mode \in {"none", "join", "timed", "destroy"}
    /\ cursor \in Workers
    /\ stillPending \subseteq Workers

Init ==
    /\ QueueInit
    /\ pc = [w \in Workers |-> "unstarted"]
    /\ running = [w \in Workers |-> NoTask]
    /\ thread = [w \in Workers |-> "none"]
    /\ abandoned = [w \in Workers |-> FALSE]
    /\ submitting = {}
    /\ outstanding = {}
    /\ owner = "constructed"
    /\ mode = "none"
    /\ cursor = 1
    /\ stillPending = {}

-----------------------------------------------------------------------------
(* Callers of ThreadPool::submit.  A task is a unique_ptr: one that is     *)
(* outstanding cannot be submitted again.  No caller survives the pool.    *)
Submit(s, t, p) ==
    /\ s \notin submitting
    /\ t \notin outstanding
    /\ owner # "destroyed"
    /\ Push(t, p)
    /\ submitting' = submitting \cup {s}
    /\ outstanding' = outstanding \cup {t}
    /\ UNCHANGED <<workerVars, ownerVars>>

(* push returned false: the caller keeps the task. *)
SubmitRefused(s, t) ==
    /\ s \notin submitting
    /\ t \notin outstanding
    /\ owner # "destroyed"
    /\ PushRefused
    /\ UNCHANGED vars

(* Fault: push without notify_one. *)
NotifyForgotten(s) ==
    /\ s \in submitting
    /\ submitting' = submitting \ {s}
    /\ UNCHANGED <<queueVars, workerVars, outstanding, ownerVars>>

Notify(s) ==
    /\ s \in submitting
    /\ NotifyOne
    /\ submitting' = submitting \ {s}
    /\ UNCHANGED <<workerVars, outstanding, ownerVars>>

-----------------------------------------------------------------------------
(* The thread function of WorkerThread::start.                             *)
Popping(w) == pc[w] = "popping" /\ w \notin waiting

Sleep(w) ==
    /\ Popping(w)
    /\ PopSleep(w)
    /\ UNCHANGED <<workerVars, submitting, outstanding, ownerVars>>

Take(w) ==
    /\ Popping(w)
    /\ \E i \in DOMAIN queue :
        /\ PopTask(i)
        /\ running' = [running EXCEPT ![w] = queue[i].task]
    /\ pc' = [pc EXCEPT ![w] = "executing"]
    /\ UNCHANGED <<thread, abandoned, submitting, outstanding, ownerVars>>

Leave(w) ==
    /\ Popping(w)
    /\ PopNull
    /\ pc' = [pc EXCEPT ![w] = "leaving"]
    /\ UNCHANGED <<running, thread, abandoned, submitting, outstanding, ownerVars>>

Pop(w) == Sleep(w) \/ Take(w) \/ Leave(w)

Execute(w) ==
    /\ pc[w] = "executing"
    /\ pc' = [pc EXCEPT ![w] = "popping"]
    /\ running' = [running EXCEPT ![w] = NoTask]
    /\ outstanding' = outstanding \ {running[w]}
    /\ UNCHANGED <<queueVars, thread, abandoned, submitting, ownerVars>>

(* donePromise.set_value(), after which the thread function returns. *)
SetDone(w) ==
    /\ pc[w] = "leaving"
    /\ pc' = [pc EXCEPT ![w] = "done"]
    /\ UNCHANGED <<queueVars, running, thread, abandoned, submitting,
                   outstanding, ownerVars>>

Wakeup(w) ==
    /\ SpuriousWakeup(w)
    /\ UNCHANGED <<workerVars, submitting, outstanding, ownerVars>>

ClockTick ==
    /\ Expire
    /\ UNCHANGED <<workerVars, submitting, outstanding, ownerVars>>

-----------------------------------------------------------------------------
(* The owner.  ThreadPool::start, at most once and before any shutdown, as *)
(* every caller in the repository does; one step per worker.               *)
Start ==
    /\ owner = "constructed"
    /\ owner' = "starting"
    /\ cursor' = 1
    /\ UNCHANGED <<queueVars, workerVars, submitting, outstanding, mode, stillPending>>

(* The owner's loops visit m_workers in order and end in `after'. *)
Advance(after) ==
    IF cursor = NumWorkers
    THEN owner' = after /\ cursor' = 1
    ELSE owner' = owner /\ cursor' = cursor + 1

StartWorker ==
    /\ owner = "starting"
    /\ pc' = [pc EXCEPT ![cursor] = "popping"]
    /\ thread' = [thread EXCEPT ![cursor] = "joinable"]
    /\ Advance("idle")
    /\ UNCHANGED <<queueVars, running, abandoned, submitting, outstanding,
                   mode, stillPending>>

(* shutdown, shutdownWithTimeout and ~ThreadPool begin with                *)
(* m_queue->shutdown(), whose notify_all is a step of its own.  The owner  *)
(* destroys the pool only when no caller is inside submit.                 *)
BeginShutdown(m) ==
    /\ owner \in {"constructed", "idle"}
    /\ m = "destroy" => submitting = {}
    /\ CloseQueue
    /\ owner' = "closing"
    /\ mode' = m
    /\ UNCHANGED <<workerVars, submitting, outstanding, cursor, stillPending>>

(* Fault: TaskQueue::shutdown without notify_all. *)
ShutdownWakesNobody ==
    /\ owner = "closing"
    /\ owner' = IF mode = "timed" THEN "draining" ELSE "joining"
    /\ cursor' = 1
    /\ stillPending' = {}
    /\ UNCHANGED <<queueVars, workerVars, submitting, outstanding, mode>>

WakeForShutdown ==
    /\ owner = "closing"
    /\ NotifyAll
    /\ owner' = IF mode = "timed" THEN "draining" ELSE "joining"
    /\ cursor' = 1
    /\ stillPending' = {}
    /\ UNCHANGED <<workerVars, submitting, outstanding, mode>>

(* WorkerThread::join: a no-op unless m_thread is joinable. *)
Joined(w) ==
    thread' = [thread EXCEPT ![w] = IF @ = "joinable" THEN "joined" ELSE @]

(* The join loop of ThreadPool::shutdown, of a timeout <= 0 and of the     *)
(* destructor: it blocks until the worker's thread has returned.           *)
JoinWorker ==
    /\ owner = "joining"
    /\ thread[cursor] = "joinable" => pc[cursor] = "done"
    /\ Joined(cursor)
    /\ Advance(IF mode = "destroy" THEN "destroyed" ELSE "idle")
    /\ UNCHANGED <<queueVars, pc, running, abandoned, submitting, outstanding,
                   mode, stillPending>>

(* Fault: the drain joins a worker whose promise is not set. *)
DrainWithoutDeadline ==
    /\ owner = "draining"
    /\ ~abandoned[cursor] => pc[cursor] = "done"
    /\ Joined(cursor)
    /\ Advance("idle")
    /\ UNCHANGED <<queueVars, pc, running, abandoned, submitting, outstanding,
                   mode, stillPending>>

(* The first loop of shutdownWithTimeout.  An abandoned worker is skipped; *)
(* joinWithTimeout joins a worker whose promise is set, and otherwise gives *)
(* up at the deadline, which may come at any moment.                       *)
DrainWorker ==
    /\ owner = "draining"
    /\ IF abandoned[cursor] THEN UNCHANGED <<thread, stillPending>>
       ELSE IF pc[cursor] = "done" THEN Joined(cursor) /\ UNCHANGED stillPending
       ELSE stillPending' = stillPending \cup {cursor} /\ UNCHANGED thread
    /\ Advance(IF stillPending' = {} THEN "idle" ELSE "aborting")
    /\ UNCHANGED <<queueVars, pc, running, abandoned, submitting, outstanding, mode>>

Abort ==
    /\ owner = "aborting"
    /\ AbortQueue
    /\ owner' = "waking"
    /\ UNCHANGED <<workerVars, submitting, outstanding, mode, cursor, stillPending>>

WakeForAbort ==
    /\ owner = "waking"
    /\ NotifyAll
    /\ owner' = "grace"
    /\ UNCHANGED <<workerVars, submitting, outstanding, mode, cursor, stillPending>>

(* Fault: a worker is abandoned without being detached. *)
AbandonWithoutDetach ==
    /\ owner = "grace"
    /\ \E w \in stillPending :
        /\ \A v \in stillPending : w <= v
        /\ IF pc[w] = "done" THEN Joined(w) /\ UNCHANGED abandoned
           ELSE abandoned' = [abandoned EXCEPT ![w] = TRUE] /\ UNCHANGED thread
        /\ stillPending' = stillPending \ {w}
    /\ owner' = IF stillPending' = {} THEN "idle" ELSE "grace"
    /\ UNCHANGED <<queueVars, pc, running, submitting, outstanding, mode, cursor>>

(* The second loop of shutdownWithTimeout, over stillPending in order: a   *)
(* worker that is not done by the grace deadline is abandoned, which       *)
(* detaches its thread if it ever had one.                                 *)
GraceWorker ==
    /\ owner = "grace"
    /\ \E w \in stillPending :
        /\ \A v \in stillPending : w <= v
        /\ IF pc[w] = "done" THEN Joined(w) /\ UNCHANGED abandoned
           ELSE /\ thread' = [thread EXCEPT ![w] = IF @ = "joinable" THEN "detached" ELSE @]
                /\ abandoned' = [abandoned EXCEPT ![w] = TRUE]
        /\ stillPending' = stillPending \ {w}
    /\ owner' = IF stillPending' = {} THEN "idle" ELSE "grace"
    /\ UNCHANGED <<queueVars, pc, running, submitting, outstanding, mode, cursor>>

OwnerStep ==
    \/ StartWorker \/ WakeForShutdown \/ JoinWorker \/ DrainWorker
    \/ Abort \/ WakeForAbort \/ GraceWorker

Destroyed == owner = "destroyed" /\ UNCHANGED vars

-----------------------------------------------------------------------------
Next ==
    \/ \E s \in Submitters, t \in Tasks, p \in Priorities : Submit(s, t, p)
    \/ \E s \in Submitters, t \in Tasks : SubmitRefused(s, t)
    \/ \E s \in Submitters : Notify(s)
    \/ \E w \in Workers : Pop(w) \/ Execute(w) \/ SetDone(w) \/ Wakeup(w)
    \/ ClockTick
    \/ Start
    \/ \E m \in {"join", "timed", "destroy"} : BeginShutdown(m)
    \/ OwnerStep
    \/ Destroyed

(* Threads that can run are run, time passes, and execute() returns unless *)
(* the task is stuck.  Nobody is obliged to submit, start or shut down.    *)
Fairness ==
    /\ \A s \in Submitters : WF_vars(Notify(s))
    /\ \A w \in Workers : /\ WF_vars(Pop(w))
                          /\ WF_vars(running[w] \notin Stuck /\ Execute(w))
                          /\ WF_vars(SetDone(w))
    /\ WF_vars(ClockTick)
    /\ WF_vars(OwnerStep)

Spec == Init /\ [][Next]_vars
FairSpec == Spec /\ Fairness

-----------------------------------------------------------------------------
Running == {running[w] : w \in Workers} \ {NoTask}

(* ThreadPool implements TaskService: whatever the interleaving of pushes, *)
(* pops, wakeups, timeouts and aborts, callers observe accepted tasks that *)
(* begin at most once, complete at most once, and are dropped by an abort  *)
(* only.                                                                   *)
Service == INSTANCE TaskService WITH
    Capacity <- MaxQueueSize,
    begun <- Running,
    phase <- IF abort THEN "aborted" ELSE IF done THEN "closed" ELSE "open"

ImplementsTaskService == Service!Spec

(* Every accepted task is held in exactly one place until its execute()    *)
(* returns: one entry of the queue or one worker.  A task that vanished,   *)
(* was popped by two workers or ran twice would break the correspondence   *)
(* between what submit accepted and what the pool still holds.             *)
HeldExactlyOnce ==
    /\ outstanding = Queued \cup Running
    /\ Queued \cap Running = {}
    /\ \A i, j \in DOMAIN queue : queue[i].task = queue[j].task => i = j
    /\ \A v, w \in Workers : running[v] = running[w] /\ running[v] # NoTask => v = w

(* No lost wakeup: push notifies after it has released m_mutex, and still  *)
(* a queued task never waits for a worker that is asleep: each entry is    *)
(* matched by a worker on its way to the queue or by a notify_one that is  *)
(* about to be sent.                                                       *)
NoLostWakeup ==
    ~abort /\ waiting # {} =>
        Len(queue) <= Cardinality(submitting)
                        + Cardinality({w \in Workers : Popping(w)})

(* Once a shutdown call has sent its notify_all no worker is asleep, and   *)
(* none falls asleep afterwards: pop's predicate includes m_done.          *)
NoSleeperAfterShutdown ==
    done /\ owner # "closing" => waiting = {}

(* A started pool whose shutdown returned without an abort has executed    *)
(* every task it ever accepted (thread_pool_test.cpp SubmitAndShutdown).   *)
GracefulShutdownExecutesAll ==
    /\ done /\ ~abort
    /\ owner \in {"idle", "destroyed"}
    /\ \A w \in Workers : thread[w] # "none"
    => outstanding = {}

(* When any shutdown call has returned no std::thread is still joinable,   *)
(* so that neither the destructor blocks on a worker that shutdown gave up *)
(* nor a joinable thread is destroyed (std::terminate); and a worker that  *)
(* is not finished was abandoned or never started.                         *)
NoJoinableThreadLeft ==
    done /\ owner \in {"idle", "destroyed"} =>
        \A w \in Workers :
            /\ thread[w] # "joinable"
            /\ pc[w] # "done" => abandoned[w] \/ thread[w] = "none"

(* The rank under which an entry competes when a worker asks for a task.   *)
Rank(e) == IF e.expired THEN IntMax ELSE e.priority

(* Whatever effectivePriority the entries carried, the task a worker takes *)
(* is the oldest of those with the highest rank at that moment: an aged    *)
(* task is never overtaken by a younger one, not even of priority INT_MAX. *)
DispatchOrder ==
    [][\A w \in Workers : pc[w] = "popping" /\ pc'[w] = "executing" =>
        \E i \in DOMAIN queue :
            /\ queue[i].task = running'[w]
            /\ \A j \in DOMAIN queue \ {i} :
                \/ Rank(queue[i]) > Rank(queue[j])
                \/ Rank(queue[i]) = Rank(queue[j]) /\ i < j]_vars

(* A worker abandoned in the middle of a task never begins another one:    *)
(* m_abort is raised before any worker is abandoned.                       *)
AbandonedTakesNoTask ==
    [][\A w \in Workers : abandoned[w] /\ running[w] = NoTask =>
                            running'[w] = NoTask]_vars

(* Aging prevents starvation: in a running pool a queued task is           *)
(* eventually taken, however many tasks of higher priority keep arriving,  *)
(* unless the pool is aborted or every worker is held by a stuck task.     *)
NoStarvation ==
    \A t \in Tasks :
        t \in Queued /\ owner = "idle" /\ thread[NumWorkers] # "none" ~>
            \/ t \notin Queued
            \/ abort
            \/ \A w \in Workers : running[w] \in Stuck

(* shutdownWithTimeout returns even when tasks are stuck for ever          *)
(* (stuck_worker_test.cpp), and so does the destructor that follows it.    *)
TimedShutdownReturns ==
    /\ owner = "closing" /\ mode = "timed" ~> owner = "idle"
    /\ (owner = "closing" /\ mode = "destroy"
            /\ \A w \in Workers : thread[w] # "joinable") ~> owner = "destroyed"

(* shutdown() waits as long as it takes, and returns when no task is stuck. *)
PlainShutdownReturns ==
    owner = "closing" /\ mode = "join" ~>
        \/ owner = "idle"
        \/ \E w \in Workers : running[w] \in Stuck
==============================================================================
