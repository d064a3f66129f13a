------------------------------ MODULE TaskQueue ------------------------------
(***************************************************************************)
(* TaskQueue (thread_pool.hpp, thread_pool.cpp): the bounded priority      *)
(* queue with aging, and the condition variable on which consumers sleep.  *)
(*                                                                         *)
(* Every definition that holds m_mutex in the code is one atomic step.     *)
(* The vector m_queue is kept as the sequence of its entries in order of   *)
(* arrival, so that the field `order' of an entry is its position and      *)
(* needs no unbounded counter: Compare only ever compares two orders.  The *)
(* clock is kept as one bit per entry: whether the entry has waited longer *)
(* than AGING_THRESHOLD.                                                   *)
(*                                                                         *)
(* The module has no next-state relation: ThreadPool composes its actions  *)
(* with the threads that run them.                                         *)
(***************************************************************************)
EXTENDS Integers, Sequences, FiniteSets, SequencesExt

CONSTANTS
    Tasks,          \* the tasks that may be submitted
    Priorities,     \* the priorities callers pass to push
    IntMax,         \* std::numeric_limits<int>::max(), the rank of an aged task
    MaxQueueSize    \* m_maxQueueSize; 0 is legal and refuses everything

ASSUME QueueAssumption ==
    /\ IntMax \in Int
    /\ \A p \in Priorities : p \in Int /\ p <= IntMax
    /\ MaxQueueSize \in Nat

VARIABLES
    queue,      \* m_queue, oldest entry first
    done,       \* m_done
    abort,      \* m_abort
    waiting     \* the threads asleep in m_cv.wait

queueVars == <<queue, done, abort, waiting>>

(* PrioritizedTask, with `expired' for now - added > AGING_THRESHOLD. *)
Entry == [task : Tasks, priority : Priorities,
          effectivePriority : Priorities \cup {IntMax}, expired : BOOLEAN]

QueueTypeOK ==
    /\ queue \in Seq(Entry)
    /\ Len(queue) <= MaxQueueSize
    /\ done \in BOOLEAN
    /\ abort \in BOOLEAN

QueueInit ==
    /\ queue = <<>>
    /\ done = FALSE
    /\ abort = FALSE
    /\ waiting = {}

Queued == {queue[i].task : i \in DOMAIN queue}

-----------------------------------------------------------------------------
(* Compare: position i of q is served before position j.                   *)
Before(q, i, j) ==
    \/ q[i].effectivePriority > q[j].effectivePriority
    \/ q[i].effectivePriority = q[j].effectivePriority /\ i < j

(* What std::pop_heap takes from a range that is a heap: the one entry     *)
(* that is served before all the others.                                   *)
HeapTop(q) ==
    {i \in DOMAIN q : \A j \in DOMAIN q \ {i} : Before(q, i, j)}

(* Fault: no aging. *)
RaiseNothing(q) == q

(* The loop of applyAging: every expired entry gets the highest rank.      *)
Raise(q) ==
    [i \in DOMAIN q |->
        IF q[i].expired THEN [q[i] EXCEPT !.effectivePriority = IntMax] ELSE q[i]]

AnyAged(q) == \E i \in DOMAIN q : q[i].expired

(* Fault: make_heap forgotten. *)
HeapNotRebuilt(q) == Raise(q) = q

(* applyAging rebuilds the heap when it has raised an entry; if some key   *)
(* had moved without a rebuild, pop_heap could return any element.         *)
HeapIntact(q) == AnyAged(q) \/ Raise(q) = q

PopChoices(q) ==
    IF HeapIntact(q) THEN HeapTop(Raise(q)) ELSE DOMAIN q

-----------------------------------------------------------------------------
(* Faults: the limit, or m_done, is not looked at. *)
PushUnbounded == done
PushAfterShutdown == Len(queue) >= MaxQueueSize

(* TaskQueue::push up to the unlock; the notify_one that follows it is a   *)
(* step of the caller.                                                     *)
PushRefused == done \/ Len(queue) >= MaxQueueSize

Push(t, p) ==
    /\ ~PushRefused
    /\ queue' = Append(queue, [task |-> t, priority |-> p,
                               effectivePriority |-> p, expired |-> FALSE])
    /\ UNCHANGED <<done, abort, waiting>>

(* Faults: a wait predicate without m_done, a pop that gives up when m_done *)
(* is set, and one that leaves the entry in the queue.                     *)
PopSleepWhenDone(w) ==
    /\ queue = <<>> /\ ~abort
    /\ waiting' = waiting \cup {w}
    /\ UNCHANGED <<queue, done, abort>>

PopNullWhenDone ==
    /\ abort \/ done
    /\ UNCHANGED queueVars

PopTaskCopied(i) ==
    /\ queue # <<>> /\ ~abort
    /\ i \in PopChoices(queue)
    /\ queue' = Raise(queue)
    /\ UNCHANGED <<done, abort, waiting>>

(* TaskQueue::pop: the three outcomes of the predicate of m_cv.wait.       *)
PopSleep(w) ==
    /\ queue = <<>> /\ ~done /\ ~abort
    /\ waiting' = waiting \cup {w}
    /\ UNCHANGED <<queue, done, abort>>

PopNull ==
    /\ abort \/ (queue = <<>> /\ done)
    /\ UNCHANGED queueVars

PopTask(i) ==
    /\ queue # <<>> /\ ~abort
    /\ i \in PopChoices(queue)
    /\ queue' = RemoveAt(Raise(queue), i)
    /\ UNCHANGED <<done, abort, waiting>>

(* Fault: shutdownWithTimeout abandons workers without an abort. *)
AbortForgotten == UNCHANGED queueVars

(* TaskQueue::shutdown and TaskQueue::abort up to the unlock. *)
CloseQueue ==
    /\ done' = TRUE
    /\ UNCHANGED <<queue, abort, waiting>>

AbortQueue ==
    /\ abort' = TRUE
    /\ UNCHANGED <<queue, done, waiting>>

-----------------------------------------------------------------------------
(* std::condition_variable: notify wakes sleepers, who re-check the        *)
(* predicate under the lock; a sleeper may also wake for no reason.        *)
NotifyOne ==
    /\ IF waiting = {} THEN UNCHANGED waiting
                       ELSE \E w \in waiting : waiting' = waiting \ {w}
    /\ UNCHANGED <<queue, done, abort>>

NotifyAll ==
    /\ waiting' = {}
    /\ UNCHANGED <<queue, done, abort>>

SpuriousWakeup(w) ==
    /\ w \in waiting
    /\ waiting' = waiting \ {w}
    /\ UNCHANGED <<queue, done, abort>>

(* Time passes: the oldest entry still young crosses AGING_THRESHOLD.      *)
(* `added' is read under the lock, so entries expire in order of arrival.  *)
Expire ==
    /\ \E i \in DOMAIN queue :
        /\ ~queue[i].expired
        /\ \A j \in 1..(i - 1) : queue[j].expired
        /\ queue' = [queue EXCEPT ![i].expired = TRUE]
    /\ UNCHANGED <<done, abort, waiting>>
==============================================================================
