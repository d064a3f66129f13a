-------------------------- MODULE ThreadPoolProofs --------------------------
(***************************************************************************)
(* Proofs about ThreadPool, for any number of workers, submitters, tasks   *)
(* and priorities and any capacity of the queue.                           *)
(***************************************************************************)
EXTENDS ThreadPool, TLAPS, FiniteSetTheorems, SequenceTheorems

-----------------------------------------------------------------------------
(* The inductive invariant.  What a worker's bookkeeping says of the       *)
(* others' state: a worker leaves its loop only when there is nothing left *)
(* for it to do, and is abandoned only after the abort.                    *)
WorkerInv ==
    \A w \in Workers :
        /\ running[w] # NoTask <=> pc[w] = "executing"
        /\ w \in waiting => pc[w] = "popping"
        /\ thread[w] = "none" <=> pc[w] = "unstarted"
        /\ thread[w] = "joined" => pc[w] = "done"
        /\ thread[w] = "detached" => abandoned[w]
        /\ abandoned[w] => abort /\ thread[w] # "joinable"
        /\ pc[w] \in {"leaving", "done"} => abort \/ (done /\ queue = <<>>)

(* A worker that needs no further attention from the owner. *)
Settled(w) ==
    /\ thread[w] # "joinable"
    /\ pc[w] # "done" => abandoned[w] \/ thread[w] = "none"

(* The owner's progress through its loops. *)
OwnerInv ==
    /\ abort => done
    /\ owner \in {"constructed", "starting"} => ~done
    /\ owner \in {"closing", "joining", "draining", "aborting", "waking",
                  "grace", "destroyed"} => done
    /\ owner = "constructed" => \A w \in Workers : pc[w] = "unstarted"
    /\ owner = "starting" => \A w \in Workers : pc[w] = "unstarted" <=> w >= cursor
    /\ owner \in {"waking", "grace"} => abort
    /\ owner = "joining" => \A w \in Workers : w < cursor => Settled(w)
    /\ owner = "draining" =>
            \A w \in Workers : w < cursor => w \in stillPending \/ Settled(w)
    /\ owner \in {"aborting", "waking", "grace"} =>
            \A w \in Workers : w \in stillPending \/ Settled(w)
    /\ done /\ owner \in {"idle", "destroyed"} => \A w \in Workers : Settled(w)

(* What the entries of the queue record of their own age. *)
EntryInv ==
    \A i \in DOMAIN queue :
        ~queue[i].expired => queue[i].effectivePriority = queue[i].priority

ControlInv == TypeOK /\ WorkerInv /\ OwnerInv /\ NoSleeperAfterShutdown

-----------------------------------------------------------------------------
(* Facts about the operators of TaskQueue.                                 *)

(* Taking an element out of a sequence moves those after it one place. *)
LEMMA RemoveAtProperties ==
    ASSUME NEW S, NEW q \in Seq(S), NEW i \in 1..Len(q)
    PROVE  /\ RemoveAt(q, i) \in Seq(S)
           /\ Len(RemoveAt(q, i)) = Len(q) - 1
           /\ \A j \in 1..(Len(q) - 1) :
                RemoveAt(q, i)[j] = IF j < i THEN q[j] ELSE q[j + 1]
<1> DEFINE front == SubSeq(q, 1, i - 1)
           back == SubSeq(q, i + 1, Len(q))
<1>1. /\ front \in Seq(S) /\ Len(front) = i - 1
      /\ \A j \in 1..(i - 1) : front[j] = q[j]
  BY SubSeqProperties
<1>2. /\ back \in Seq(S) /\ Len(back) = Len(q) - i
      /\ \A j \in 1..(Len(q) - i) : back[j] = q[i + j]
  BY SubSeqProperties
<1>3. RemoveAt(q, i) = front \o back
  BY DEF RemoveAt
<1> HIDE DEF front, back
<1>4. /\ front \o back \in Seq(S)
      /\ Len(front \o back) = Len(front) + Len(back)
      /\ \A j \in 1..Len(front) + Len(back) : (front \o back)[j] =
            IF j <= Len(front) THEN front[j] ELSE back[j - Len(front)]
  <2>1. front \in Seq(S) /\ back \in Seq(S)
    BY <1>1, <1>2
  <2> QED  BY <2>1, ConcatProperties
<1>0. Len(q) \in Nat /\ i \in Int /\ 1 <= i /\ i <= Len(q)
  OBVIOUS
<1>5. ASSUME NEW j \in 1..(Len(q) - 1)
      PROVE  (front \o back)[j] = IF j < i THEN q[j] ELSE q[j + 1]
  <2>1. CASE j < i
    BY <2>1, <1>0, <1>1, <1>2, <1>4
  <2>2. CASE j >= i
    <3>1. (front \o back)[j] = back[j - (i - 1)]
      BY <2>2, <1>0, <1>1, <1>2, <1>4
    <3>2. j - (i - 1) \in 1..(Len(q) - i) /\ i + (j - (i - 1)) = j + 1
      BY <2>2, <1>0
    <3>3. back[j - (i - 1)] = q[i + (j - (i - 1))]
      BY <3>2, <1>2
    <3>4. (front \o back)[j] = q[j + 1]
      BY <3>1, <3>2, <3>3
    <3>5. ~(j < i)
      BY <2>2, <1>0
    <3> QED  BY <3>4, <3>5
  <2>3. j < i \/ j >= i
    BY <1>0
  <2> QED  BY <2>1, <2>2, <2>3
<1> QED  BY <1>0, <1>1, <1>2, <1>3, <1>4, <1>5

(* Aging changes the effective priorities only, and those of aged entries. *)
LEMMA RaiseProperties ==
    ASSUME NEW q \in Seq(Entry)
    PROVE  /\ Raise(q) \in Seq(Entry)
           /\ Len(Raise(q)) = Len(q)
           /\ DOMAIN Raise(q) = DOMAIN q
           /\ \A i \in DOMAIN q :
                /\ Raise(q)[i].task = q[i].task
                /\ Raise(q)[i].priority = q[i].priority
                /\ Raise(q)[i].expired = q[i].expired
                /\ Raise(q)[i].effectivePriority =
                        IF q[i].expired THEN IntMax ELSE q[i].effectivePriority
<1>1. \A i \in DOMAIN q : q[i] \in Entry
  OBVIOUS
<1>2. ASSUME NEW i \in DOMAIN q
      PROVE  /\ Raise(q)[i] \in Entry
             /\ Raise(q)[i].task = q[i].task
             /\ Raise(q)[i].priority = q[i].priority
             /\ Raise(q)[i].expired = q[i].expired
             /\ Raise(q)[i].effectivePriority =
                    IF q[i].expired THEN IntMax ELSE q[i].effectivePriority
  BY <1>1 DEF Raise, Entry
<1>3. Len(q) \in Nat /\ DOMAIN q = 1..Len(q)
  OBVIOUS
<1>4. Raise(q) \in [1..Len(q) -> Entry]
  BY <1>2, <1>3 DEF Raise
<1>5. Raise(q) \in Seq(Entry) /\ Len(Raise(q)) = Len(q)
  BY <1>3, <1>4
<1> QED  BY <1>2, <1>3, <1>4, <1>5

(* What pop leaves in the queue. *)
LEMMA PopProperties ==
    ASSUME queue \in Seq(Entry), NEW i \in DOMAIN queue, PopTask(i)
    PROVE  /\ queue' \in Seq(Entry)
           /\ Len(queue') = Len(queue) - 1
           /\ \A j \in DOMAIN queue' :
                queue'[j] = Raise(queue)[IF j < i THEN j ELSE j + 1]
<1>1. queue' = RemoveAt(Raise(queue), i)
  BY DEF PopTask
<1>2. Raise(queue) \in Seq(Entry) /\ i \in 1..Len(Raise(queue))
      /\ Len(Raise(queue)) = Len(queue)
  BY RaiseProperties
<1>3. DOMAIN queue' = 1..Len(queue')
  BY <1>1, <1>2, RemoveAtProperties
<1> QED  BY <1>1, <1>2, <1>3, RemoveAtProperties

(* A push adds its entry at the end, and respects the bound. *)
LEMMA PushProperties ==
    ASSUME queue \in Seq(Entry), NEW t \in Tasks, NEW p \in Priorities, Push(t, p)
    PROVE  /\ queue' \in Seq(Entry)
           /\ Len(queue') = Len(queue) + 1
           /\ Len(queue') <= MaxQueueSize
           /\ \A j \in 1..Len(queue) : queue'[j] = queue[j]
           /\ queue'[Len(queue')] = [task |-> t, priority |-> p,
                                     effectivePriority |-> p, expired |-> FALSE]
<1> DEFINE e == [task |-> t, priority |-> p, effectivePriority |-> p, expired |-> FALSE]
<1>1. e \in Entry
  BY DEF Entry
<1>2. queue' = Append(queue, e) /\ ~(Len(queue) >= MaxQueueSize)
  BY DEF Push, PushRefused
<1> HIDE DEF e
<1>3. /\ queue' \in Seq(Entry)
      /\ Len(queue') = Len(queue) + 1
      /\ \A j \in 1..Len(queue) : queue'[j] = queue[j]
      /\ queue'[Len(queue) + 1] = e
  BY <1>1, <1>2, AppendProperties
<1>4. Len(queue) \in Nat
  OBVIOUS
<1> QED  BY <1>2, <1>3, <1>4, QueueAssumption DEF e

(* The clock ages one young entry and changes nothing else. *)
LEMMA ExpireProperties ==
    ASSUME queue \in Seq(Entry), Expire
    PROVE  /\ queue' \in Seq(Entry)
           /\ Len(queue') = Len(queue)
           /\ \A j \in DOMAIN queue :
                /\ queue'[j].task = queue[j].task
                /\ queue'[j].priority = queue[j].priority
                /\ queue'[j].effectivePriority = queue[j].effectivePriority
                /\ queue[j].expired => queue'[j].expired
<1>1. PICK i \in DOMAIN queue : queue' = [queue EXCEPT ![i].expired = TRUE]
  BY DEF Expire
<1>2. DOMAIN queue = 1..Len(queue) /\ Len(queue) \in Nat
  OBVIOUS
<1>3. \A j \in DOMAIN queue : queue[j] \in Entry
  OBVIOUS
<1>4. queue' = [j \in 1..Len(queue) |->
                    IF j = i THEN [queue[i] EXCEPT !.expired = TRUE] ELSE queue[j]]
  BY <1>1, <1>2
<1>5. [queue[i] EXCEPT !.expired = TRUE] \in Entry
  BY <1>1, <1>3 DEF Entry
<1>6. queue' \in [1..Len(queue) -> Entry]
  BY <1>2, <1>3, <1>4, <1>5
<1>7. queue' \in Seq(Entry) /\ Len(queue') = Len(queue)
  BY <1>2, <1>6
<1>8. queue[i] \in [task : Tasks, priority : Priorities,
                     effectivePriority : Priorities \cup {IntMax}, expired : BOOLEAN]
  BY <1>3, <1>1 DEF Entry
<1> QED  BY <1>1, <1>2, <1>4, <1>7, <1>8

-----------------------------------------------------------------------------
(* Type correctness. *)
LEMMA WorkersFacts ==
    /\ NumWorkers \in Nat
    /\ NumWorkers >= 1
    /\ 1 \in Workers
    /\ NumWorkers \in Workers
    /\ \A w \in Workers : w # NumWorkers => w + 1 \in Workers
    /\ \A w \in Workers : w \in Nat /\ 1 <= w /\ w <= NumWorkers
BY PoolAssumption DEF NumWorkers, Workers

(* The constructed pool is well typed. *)
LEMMA TypeInit == Init => TypeOK
<1> SUFFICES ASSUME Init PROVE TypeOK
  OBVIOUS
<1>1. queue \in Seq(Entry) /\ Len(queue) = 0
  BY DEF Init, QueueInit
<1>2. QueueTypeOK /\ waiting \subseteq Workers
  <2>1. Len(queue) <= MaxQueueSize
    BY <1>1, QueueAssumption
  <2> QED  BY <1>1, <2>1 DEF Init, QueueInit, QueueTypeOK
<1>3. cursor \in Workers
  BY WorkersFacts DEF Init
<1> QED  BY <1>2, <1>3 DEF Init, TypeOK

(* Every step keeps the types. *)
LEMMA TypeStep == TypeOK /\ [Next]_vars => TypeOK'
<1> SUFFICES ASSUME TypeOK, [Next]_vars PROVE TypeOK'
  OBVIOUS
<1> USE WorkersFacts, QueueAssumption, PoolAssumption
<1>1. ASSUME NEW s \in Submitters, NEW t \in Tasks, NEW p \in Priorities, Submit(s, t, p)
      PROVE  TypeOK'
  <2>1. Push(t, p) /\ queue \in Seq(Entry)
    BY <1>1 DEF Submit, TypeOK, QueueTypeOK
  <2>2. queue' \in Seq(Entry) /\ Len(queue') <= MaxQueueSize
    BY <2>1, PushProperties
  <2> QED
    BY <1>1, <2>1, <2>2
    DEF TypeOK, QueueTypeOK, Submit, Push, vars, queueVars, workerVars, ownerVars
<1>2. ASSUME NEW s \in Submitters, NEW t \in Tasks, SubmitRefused(s, t)
      PROVE  TypeOK'
  BY <1>2 DEF TypeOK, QueueTypeOK, SubmitRefused, vars, queueVars, workerVars, ownerVars
<1>3. ASSUME NEW s \in Submitters, Notify(s)
      PROVE  TypeOK'
  BY <1>3 DEF TypeOK, QueueTypeOK, Notify, NotifyOne, vars, queueVars, workerVars, ownerVars
<1>4. ASSUME NEW w \in Workers, Sleep(w)
      PROVE  TypeOK'
  BY <1>4
  DEF TypeOK, QueueTypeOK, Sleep, Popping, PopSleep, vars, queueVars, workerVars,
      ownerVars
<1>5. ASSUME NEW w \in Workers, Take(w)
      PROVE  TypeOK'
  <2>1. PICK i \in DOMAIN queue : PopTask(i) /\ running' = [running EXCEPT ![w] = queue[i].task]
    BY <1>5 DEF Take
  <2>2. queue \in Seq(Entry) /\ queue[i] \in Entry
    BY <2>1 DEF TypeOK, QueueTypeOK
  <2>3. queue' \in Seq(Entry) /\ Len(queue') = Len(queue) - 1
    BY <2>1, <2>2, PopProperties
  <2>4. Len(queue) \in Nat /\ Len(queue) <= MaxQueueSize
    BY DEF TypeOK, QueueTypeOK
  <2>5. Len(queue') <= MaxQueueSize
    BY <2>3, <2>4
  <2>6. queue[i].task \in Tasks
    BY <2>2 DEF Entry
  <2> QED
    BY <1>5, <2>1, <2>3, <2>5, <2>6
    DEF TypeOK, QueueTypeOK, Take, PopTask, vars, queueVars, workerVars, ownerVars
<1>6. ASSUME NEW w \in Workers, Leave(w)
      PROVE  TypeOK'
  BY <1>6 DEF TypeOK, QueueTypeOK, Leave, Popping, PopNull, vars, queueVars, workerVars, ownerVars
<1>7. ASSUME NEW w \in Workers, Execute(w)
      PROVE  TypeOK'
  BY <1>7 DEF TypeOK, QueueTypeOK, Execute, vars, queueVars, workerVars, ownerVars
<1>8. ASSUME NEW w \in Workers, SetDone(w)
      PROVE  TypeOK'
  BY <1>8 DEF TypeOK, QueueTypeOK, SetDone, vars, queueVars, workerVars, ownerVars
<1>9. ASSUME NEW w \in Workers, Wakeup(w)
      PROVE  TypeOK'
  BY <1>9 DEF TypeOK, QueueTypeOK, Wakeup, SpuriousWakeup, vars, queueVars, workerVars, ownerVars
<1>10. ASSUME ClockTick
      PROVE  TypeOK'
  <2>1. queue' \in Seq(Entry) /\ Len(queue') = Len(queue)
    BY <1>10, ExpireProperties DEF ClockTick, TypeOK, QueueTypeOK
  <2> QED
    BY <1>10, <2>1
    DEF TypeOK, QueueTypeOK, ClockTick, Expire, vars, queueVars, workerVars, ownerVars
<1>11. ASSUME Start
      PROVE  TypeOK'
  BY <1>11 DEF TypeOK, QueueTypeOK, Start, vars, queueVars, workerVars, ownerVars
<1>12. ASSUME NEW m \in {"join", "timed", "destroy"}, BeginShutdown(m)
      PROVE  TypeOK'
  BY <1>12
  DEF TypeOK, QueueTypeOK, BeginShutdown, CloseQueue, vars, queueVars, workerVars,
      ownerVars
<1>13. ASSUME StartWorker
      PROVE  TypeOK'
  BY <1>13 DEF TypeOK, QueueTypeOK, StartWorker, Advance, vars, queueVars, workerVars, ownerVars
<1>14. ASSUME WakeForShutdown
      PROVE  TypeOK'
  BY <1>14
  DEF TypeOK, QueueTypeOK, WakeForShutdown, NotifyAll, vars, queueVars, workerVars,
      ownerVars
<1>15. ASSUME JoinWorker
      PROVE  TypeOK'
  BY <1>15
  DEF TypeOK, QueueTypeOK, JoinWorker, Joined, Advance, vars, queueVars, workerVars,
      ownerVars
<1>16. ASSUME DrainWorker
      PROVE  TypeOK'
  BY <1>16
  DEF TypeOK, QueueTypeOK, DrainWorker, Joined, Advance, vars, queueVars, workerVars,
      ownerVars
<1>17. ASSUME Abort
      PROVE  TypeOK'
  BY <1>17 DEF TypeOK, QueueTypeOK, Abort, AbortQueue, vars, queueVars, workerVars, ownerVars
<1>18. ASSUME WakeForAbort
      PROVE  TypeOK'
  BY <1>18
  DEF TypeOK, QueueTypeOK, WakeForAbort, NotifyAll, vars, queueVars, workerVars, ownerVars
<1>19. ASSUME GraceWorker
      PROVE  TypeOK'
  BY <1>19 DEF TypeOK, QueueTypeOK, GraceWorker, Joined, vars, queueVars, workerVars, ownerVars
<1>20. CASE UNCHANGED vars
  BY <1>20 DEF TypeOK, QueueTypeOK, vars, queueVars, workerVars, ownerVars
<1> QED
  BY <1>1, <1>2, <1>3, <1>4, <1>5, <1>6, <1>7, <1>8, <1>9, <1>10, <1>11, <1>12, <1>13,
     <1>14, <1>15, <1>16, <1>17, <1>18, <1>19, <1>20
  DEF Next, Pop, OwnerStep, Destroyed

-----------------------------------------------------------------------------
(* The control part of the inductive invariant. *)
LEMMA ControlInit == Init => ControlInv
<1> SUFFICES ASSUME Init PROVE ControlInv
  OBVIOUS
<1>1. TypeOK
  BY TypeInit
<1>2. WorkerInv
  BY DEF Init, QueueInit, WorkerInv
<1>3. OwnerInv
  BY DEF Init, QueueInit, OwnerInv
<1>4. NoSleeperAfterShutdown
  BY DEF Init, QueueInit, NoSleeperAfterShutdown
<1> QED  BY <1>1, <1>2, <1>3, <1>4 DEF ControlInv

(* Every step keeps thread, promise and m_abandoned of each worker         *)
(* consistent.                                                             *)
LEMMA WorkerStep ==
    TypeOK /\ TypeOK' /\ WorkerInv /\ OwnerInv /\ [Next]_vars => WorkerInv'
<1> SUFFICES ASSUME TypeOK, TypeOK', WorkerInv, OwnerInv, [Next]_vars PROVE WorkerInv'
  OBVIOUS
<1> USE WorkersFacts, PoolAssumption DEF TypeOK
<1>1. ASSUME NEW s \in Submitters, NEW t \in Tasks, NEW p \in Priorities, Submit(s, t, p)
      PROVE  WorkerInv'
  BY <1>1 DEF WorkerInv, OwnerInv, Submit, Push, PushRefused, workerVars, ownerVars
<1>2. ASSUME NEW s \in Submitters, NEW t \in Tasks, SubmitRefused(s, t)
      PROVE  WorkerInv'
  BY <1>2 DEF WorkerInv, OwnerInv, SubmitRefused, vars, queueVars, workerVars, ownerVars
<1>3. ASSUME NEW s \in Submitters, Notify(s)
      PROVE  WorkerInv'
  BY <1>3 DEF WorkerInv, OwnerInv, Notify, NotifyOne, workerVars, ownerVars
<1>4. ASSUME NEW w \in Workers, Sleep(w)
      PROVE  WorkerInv'
  BY <1>4 DEF WorkerInv, OwnerInv, Sleep, Popping, PopSleep, workerVars, ownerVars
<1>5. ASSUME NEW w \in Workers, Take(w)
      PROVE  WorkerInv'
  <2>1. PICK i \in DOMAIN queue : PopTask(i) /\ running' = [running EXCEPT ![w] = queue[i].task]
    BY <1>5 DEF Take
  <2>2. queue[i] \in Entry /\ queue[i].task \in Tasks
    <3>1. queue[i] \in Entry
      BY <2>1 DEF QueueTypeOK
    <3> QED  BY <3>1 DEF Entry
  <2>3. queue # <<>> /\ ~abort /\ UNCHANGED <<done, abort, waiting>>
    BY <2>1 DEF PopTask
  <2>6. \A v \in Workers : pc[v] \notin {"leaving", "done"}
    BY <2>3 DEF WorkerInv
  <2>4. running'[w] # NoTask /\ pc'[w] = "executing" /\ w \notin waiting
    BY <1>5, <2>1, <2>2 DEF Take, Popping
  <2>5. \A v \in Workers \ {w} : running'[v] = running[v] /\ pc'[v] = pc[v]
    BY <1>5, <2>1 DEF Take
  <2>7. UNCHANGED <<thread, abandoned>>
    BY <1>5 DEF Take
  <2> QED
    BY <1>5, <2>3, <2>4, <2>5, <2>6, <2>7 DEF WorkerInv, Popping, Take
<1>6. ASSUME NEW w \in Workers, Leave(w)
      PROVE  WorkerInv'
  BY <1>6 DEF WorkerInv, OwnerInv, Leave, Popping, PopNull, queueVars, ownerVars
<1>7. ASSUME NEW w \in Workers, Execute(w)
      PROVE  WorkerInv'
  BY <1>7 DEF WorkerInv, OwnerInv, Execute, queueVars, ownerVars
<1>8. ASSUME NEW w \in Workers, SetDone(w)
      PROVE  WorkerInv'
  BY <1>8 DEF WorkerInv, OwnerInv, SetDone, queueVars, ownerVars
<1>9. ASSUME NEW w \in Workers, Wakeup(w)
      PROVE  WorkerInv'
  BY <1>9 DEF WorkerInv, OwnerInv, Wakeup, SpuriousWakeup, workerVars, ownerVars
<1>10. ASSUME ClockTick
      PROVE  WorkerInv'
  BY <1>10 DEF WorkerInv, OwnerInv, ClockTick, Expire, workerVars, ownerVars
<1>11. ASSUME Start
      PROVE  WorkerInv'
  BY <1>11 DEF WorkerInv, OwnerInv, Start, queueVars, workerVars
<1>12. ASSUME NEW m \in {"join", "timed", "destroy"}, BeginShutdown(m)
      PROVE  WorkerInv'
  BY <1>12 DEF WorkerInv, OwnerInv, BeginShutdown, CloseQueue, workerVars
<1>13. ASSUME StartWorker
      PROVE  WorkerInv'
  BY <1>13 DEF WorkerInv, OwnerInv, StartWorker, Advance, queueVars
<1>14. ASSUME WakeForShutdown
      PROVE  WorkerInv'
  BY <1>14 DEF WorkerInv, OwnerInv, WakeForShutdown, NotifyAll, workerVars
<1>15. ASSUME JoinWorker
      PROVE  WorkerInv'
  BY <1>15 DEF WorkerInv, OwnerInv, JoinWorker, Joined, Advance, queueVars
<1>16. ASSUME DrainWorker
      PROVE  WorkerInv'
  BY <1>16 DEF WorkerInv, OwnerInv, DrainWorker, Joined, Advance, queueVars
<1>17. ASSUME Abort
      PROVE  WorkerInv'
  BY <1>17 DEF WorkerInv, OwnerInv, Abort, AbortQueue, workerVars
<1>18. ASSUME WakeForAbort
      PROVE  WorkerInv'
  BY <1>18 DEF WorkerInv, OwnerInv, WakeForAbort, NotifyAll, workerVars
<1>19. ASSUME GraceWorker
      PROVE  WorkerInv'
  <2>1. PICK w \in stillPending :
            /\ IF pc[w] = "done" THEN Joined(w) /\ UNCHANGED abandoned
               ELSE /\ thread' = [thread EXCEPT ![w] = IF @ = "joinable" THEN "detached" ELSE @]
                    /\ abandoned' = [abandoned EXCEPT ![w] = TRUE]
    BY <1>19 DEF GraceWorker
  <2>2. w \in Workers /\ abort /\ UNCHANGED <<queueVars, pc, running>>
    BY <1>19 DEF GraceWorker, OwnerInv
  <2>3. CASE pc[w] = "done"
    BY <2>1, <2>2, <2>3 DEF WorkerInv, Joined, queueVars
  <2>4. CASE pc[w] # "done"
    BY <2>1, <2>2, <2>4 DEF WorkerInv, queueVars
  <2> QED  BY <2>3, <2>4
<1>20. CASE UNCHANGED vars
  BY <1>20 DEF WorkerInv, OwnerInv, vars, queueVars, workerVars, ownerVars
<1> QED
  BY <1>1, <1>2, <1>3, <1>4, <1>5, <1>6, <1>7, <1>8, <1>9, <1>10, <1>11, <1>12, <1>13,
     <1>14, <1>15, <1>16, <1>17, <1>18, <1>19, <1>20
  DEF Next, Pop, OwnerStep, Destroyed

(* Every step keeps the owner's loops consistent with the workers they     *)
(* have dealt with.                                                        *)
LEMMA OwnerInvStep ==
    TypeOK /\ TypeOK' /\ WorkerInv /\ OwnerInv /\ [Next]_vars => OwnerInv'
<1> SUFFICES ASSUME TypeOK, TypeOK', WorkerInv, OwnerInv, [Next]_vars PROVE OwnerInv'
  OBVIOUS
<1> USE WorkersFacts, PoolAssumption DEF TypeOK
<1>1. ASSUME NEW s \in Submitters, NEW t \in Tasks, NEW p \in Priorities, Submit(s, t, p)
      PROVE  OwnerInv'
  BY <1>1 DEF WorkerInv, OwnerInv, Settled, Submit, Push, PushRefused, workerVars, ownerVars
<1>2. ASSUME NEW s \in Submitters, NEW t \in Tasks, SubmitRefused(s, t)
      PROVE  OwnerInv'
  BY <1>2 DEF WorkerInv, OwnerInv, Settled, SubmitRefused, vars, queueVars, workerVars, ownerVars
<1>3. ASSUME NEW s \in Submitters, Notify(s)
      PROVE  OwnerInv'
  BY <1>3 DEF WorkerInv, OwnerInv, Settled, Notify, NotifyOne, workerVars, ownerVars
<1>4. ASSUME NEW w \in Workers, Sleep(w)
      PROVE  OwnerInv'
  BY <1>4 DEF WorkerInv, OwnerInv, Settled, Sleep, Popping, PopSleep, workerVars, ownerVars
<1>5. ASSUME NEW w \in Workers, Take(w)
      PROVE  OwnerInv'
  BY <1>5 DEF WorkerInv, OwnerInv, Settled, Take, Popping, PopTask, ownerVars
<1>6. ASSUME NEW w \in Workers, Leave(w)
      PROVE  OwnerInv'
  BY <1>6 DEF WorkerInv, OwnerInv, Settled, Leave, Popping, PopNull, queueVars, ownerVars
<1>7. ASSUME NEW w \in Workers, Execute(w)
      PROVE  OwnerInv'
  BY <1>7 DEF WorkerInv, OwnerInv, Settled, Execute, queueVars, ownerVars
<1>8. ASSUME NEW w \in Workers, SetDone(w)
      PROVE  OwnerInv'
  BY <1>8 DEF WorkerInv, OwnerInv, Settled, SetDone, queueVars, ownerVars
<1>9. ASSUME NEW w \in Workers, Wakeup(w)
      PROVE  OwnerInv'
  BY <1>9 DEF WorkerInv, OwnerInv, Settled, Wakeup, SpuriousWakeup, workerVars, ownerVars
<1>10. ASSUME ClockTick
      PROVE  OwnerInv'
  BY <1>10 DEF WorkerInv, OwnerInv, Settled, ClockTick, Expire, workerVars, ownerVars
<1>11. ASSUME Start
      PROVE  OwnerInv'
  BY <1>11 DEF WorkerInv, OwnerInv, Settled, Start, queueVars, workerVars
<1>12. ASSUME NEW m \in {"join", "timed", "destroy"}, BeginShutdown(m)
      PROVE  OwnerInv'
  BY <1>12 DEF WorkerInv, OwnerInv, Settled, BeginShutdown, CloseQueue, workerVars
<1>13. ASSUME StartWorker
      PROVE  OwnerInv'
  BY <1>13 DEF WorkerInv, OwnerInv, Settled, StartWorker, Advance, queueVars
<1>14. ASSUME WakeForShutdown
      PROVE  OwnerInv'
  BY <1>14 DEF WorkerInv, OwnerInv, Settled, WakeForShutdown, NotifyAll, workerVars
<1>15. ASSUME JoinWorker
      PROVE  OwnerInv'
  BY <1>15 DEF WorkerInv, OwnerInv, Settled, JoinWorker, Joined, Advance, queueVars
<1>16. ASSUME DrainWorker
      PROVE  OwnerInv'
  <2>1. done /\ UNCHANGED <<queueVars, pc, abandoned>>
    BY <1>16 DEF DrainWorker, OwnerInv
  <2>2. \A w \in Workers : w < cursor => w \in stillPending' \/ Settled(w)'
    BY <1>16 DEF DrainWorker, OwnerInv, Settled, Joined
  <2>3. ASSUME NEW w \in Workers, w = cursor PROVE w \in stillPending' \/ Settled(w)'
    <3>1. CASE abandoned[w]
      BY <1>16, <2>1, <2>3, <3>1 DEF DrainWorker, Settled, WorkerInv
    <3>2. CASE ~abandoned[w] /\ pc[w] = "done"
      BY <1>16, <2>1, <2>3, <3>2 DEF DrainWorker, Joined, Settled
    <3>3. CASE ~abandoned[w] /\ pc[w] # "done"
      BY <1>16, <2>3, <3>3 DEF DrainWorker
    <3> QED  BY <3>1, <3>2, <3>3
  <2>4. \A w \in Workers : w <= cursor => w \in stillPending' \/ Settled(w)'
    BY <2>2, <2>3
  <2>5. CASE cursor = NumWorkers
    BY <1>16, <2>1, <2>4, <2>5 DEF DrainWorker, Advance, OwnerInv, queueVars
  <2>6. CASE cursor # NumWorkers
    <3>1. owner' = "draining" /\ cursor' = cursor + 1 /\ cursor \in Int
      BY <1>16, <2>6 DEF DrainWorker, Advance
    <3>2. \A w \in Workers : w < cursor' => w \in stillPending' \/ Settled(w)'
      BY <3>1, <2>4
    <3> QED  BY <3>1, <3>2, <2>1 DEF OwnerInv, queueVars
  <2> QED  BY <2>5, <2>6
<1>17. ASSUME Abort
      PROVE  OwnerInv'
  BY <1>17 DEF WorkerInv, OwnerInv, Settled, Abort, AbortQueue, workerVars
<1>18. ASSUME WakeForAbort
      PROVE  OwnerInv'
  BY <1>18 DEF WorkerInv, OwnerInv, Settled, WakeForAbort, NotifyAll, workerVars
<1>19. ASSUME GraceWorker
      PROVE  OwnerInv'
  BY <1>19 DEF WorkerInv, OwnerInv, Settled, GraceWorker, Joined, queueVars
<1>20. CASE UNCHANGED vars
  BY <1>20 DEF WorkerInv, OwnerInv, Settled, vars, queueVars, workerVars, ownerVars
<1> QED
  BY <1>1, <1>2, <1>3, <1>4, <1>5, <1>6, <1>7, <1>8, <1>9, <1>10, <1>11, <1>12, <1>13,
     <1>14, <1>15, <1>16, <1>17, <1>18, <1>19, <1>20
  DEF Next, Pop, OwnerStep, Destroyed

(* After the notify_all no step puts a worker to sleep. *)
LEMMA SleeperStep ==
    TypeOK /\ OwnerInv /\ NoSleeperAfterShutdown /\ [Next]_vars
        => NoSleeperAfterShutdown'
<1> SUFFICES ASSUME TypeOK, OwnerInv, NoSleeperAfterShutdown, [Next]_vars
             PROVE  NoSleeperAfterShutdown'
  OBVIOUS
<1> USE WorkersFacts, PoolAssumption DEF TypeOK
<1>1. ASSUME NEW s \in Submitters, NEW t \in Tasks, NEW p \in Priorities, Submit(s, t, p)
      PROVE  NoSleeperAfterShutdown'
  BY <1>1 DEF OwnerInv, NoSleeperAfterShutdown, Submit, Push, PushRefused, workerVars, ownerVars
<1>2. ASSUME NEW s \in Submitters, NEW t \in Tasks, SubmitRefused(s, t)
      PROVE  NoSleeperAfterShutdown'
  BY <1>2
  DEF OwnerInv, NoSleeperAfterShutdown, SubmitRefused, vars, queueVars, workerVars,
      ownerVars
<1>3. ASSUME NEW s \in Submitters, Notify(s)
      PROVE  NoSleeperAfterShutdown'
  BY <1>3 DEF OwnerInv, NoSleeperAfterShutdown, Notify, NotifyOne, workerVars, ownerVars
<1>4. ASSUME NEW w \in Workers, Sleep(w)
      PROVE  NoSleeperAfterShutdown'
  BY <1>4 DEF OwnerInv, NoSleeperAfterShutdown, Sleep, Popping, PopSleep, workerVars, ownerVars
<1>5. ASSUME NEW w \in Workers, Take(w)
      PROVE  NoSleeperAfterShutdown'
  BY <1>5 DEF OwnerInv, NoSleeperAfterShutdown, Take, Popping, PopTask, ownerVars
<1>6. ASSUME NEW w \in Workers, Leave(w)
      PROVE  NoSleeperAfterShutdown'
  BY <1>6 DEF OwnerInv, NoSleeperAfterShutdown, Leave, Popping, PopNull, queueVars, ownerVars
<1>7. ASSUME NEW w \in Workers, Execute(w)
      PROVE  NoSleeperAfterShutdown'
  BY <1>7 DEF OwnerInv, NoSleeperAfterShutdown, Execute, queueVars, ownerVars
<1>8. ASSUME NEW w \in Workers, SetDone(w)
      PROVE  NoSleeperAfterShutdown'
  BY <1>8 DEF OwnerInv, NoSleeperAfterShutdown, SetDone, queueVars, ownerVars
<1>9. ASSUME NEW w \in Workers, Wakeup(w)
      PROVE  NoSleeperAfterShutdown'
  BY <1>9 DEF OwnerInv, NoSleeperAfterShutdown, Wakeup, SpuriousWakeup, workerVars, ownerVars
<1>10. ASSUME ClockTick
      PROVE  NoSleeperAfterShutdown'
  BY <1>10 DEF OwnerInv, NoSleeperAfterShutdown, ClockTick, Expire, workerVars, ownerVars
<1>11. ASSUME Start
      PROVE  NoSleeperAfterShutdown'
  BY <1>11 DEF OwnerInv, NoSleeperAfterShutdown, Start, queueVars, workerVars
<1>12. ASSUME NEW m \in {"join", "timed", "destroy"}, BeginShutdown(m)
      PROVE  NoSleeperAfterShutdown'
  BY <1>12 DEF OwnerInv, NoSleeperAfterShutdown, BeginShutdown, CloseQueue, workerVars
<1>13. ASSUME StartWorker
      PROVE  NoSleeperAfterShutdown'
  BY <1>13 DEF OwnerInv, NoSleeperAfterShutdown, StartWorker, Advance, queueVars
<1>14. ASSUME WakeForShutdown
      PROVE  NoSleeperAfterShutdown'
  BY <1>14 DEF OwnerInv, NoSleeperAfterShutdown, WakeForShutdown, NotifyAll, workerVars
<1>15. ASSUME JoinWorker
      PROVE  NoSleeperAfterShutdown'
  BY <1>15 DEF OwnerInv, NoSleeperAfterShutdown, JoinWorker, Joined, Advance, queueVars
<1>16. ASSUME DrainWorker
      PROVE  NoSleeperAfterShutdown'
  BY <1>16 DEF OwnerInv, NoSleeperAfterShutdown, DrainWorker, Joined, Advance, queueVars
<1>17. ASSUME Abort
      PROVE  NoSleeperAfterShutdown'
  BY <1>17 DEF OwnerInv, NoSleeperAfterShutdown, Abort, AbortQueue, workerVars
<1>18. ASSUME WakeForAbort
      PROVE  NoSleeperAfterShutdown'
  BY <1>18 DEF OwnerInv, NoSleeperAfterShutdown, WakeForAbort, NotifyAll, workerVars
<1>19. ASSUME GraceWorker
      PROVE  NoSleeperAfterShutdown'
  BY <1>19 DEF OwnerInv, NoSleeperAfterShutdown, GraceWorker, Joined, queueVars
<1>20. CASE UNCHANGED vars
  BY <1>20 DEF OwnerInv, NoSleeperAfterShutdown, vars, queueVars, workerVars, ownerVars
<1> QED
  BY <1>1, <1>2, <1>3, <1>4, <1>5, <1>6, <1>7, <1>8, <1>9, <1>10, <1>11, <1>12, <1>13,
     <1>14, <1>15, <1>16, <1>17, <1>18, <1>19, <1>20
  DEF Next, Pop, OwnerStep, Destroyed

(* The control invariant is inductive. *)
LEMMA ControlStep == ControlInv /\ [Next]_vars => ControlInv'
<1> SUFFICES ASSUME ControlInv, [Next]_vars PROVE ControlInv'
  OBVIOUS
<1>1. TypeOK'
  BY TypeStep DEF ControlInv
<1>2. WorkerInv' /\ OwnerInv' /\ NoSleeperAfterShutdown'
  BY <1>1, WorkerStep, OwnerInvStep, SleeperStep DEF ControlInv
<1> QED  BY <1>1, <1>2 DEF ControlInv

(* Every reachable state satisfies the control part of the invariant. *)
THEOREM ControlCorrect == Spec => []ControlInv
BY ControlInit, ControlStep, PTL DEF Spec

(* The pool's variables keep their types: in particular no worker is ever  *)
(* outside the loop of WorkerThread::start and the queue never outgrows    *)
(* m_maxQueueSize.                                                         *)
THEOREM TypeCorrect == Spec => []TypeOK
<1>1. ControlInv => TypeOK
  BY DEF ControlInv
<1> QED  BY <1>1, ControlCorrect, PTL

(* After the notify_all of a shutdown no worker sleeps in m_cv.wait. *)
THEOREM ShutdownWakesAll == Spec => []NoSleeperAfterShutdown
<1>1. ControlInv => NoSleeperAfterShutdown
  BY DEF ControlInv
<1> QED  BY <1>1, ControlCorrect, PTL

(* When a shutdown has returned every thread is joined or detached, so the *)
(* destructor that runs next never meets a joinable std::thread that is    *)
(* still busy.                                                             *)
THEOREM ThreadsSettled == Spec => []NoJoinableThreadLeft
<1>1. ControlInv => NoJoinableThreadLeft
  BY DEF ControlInv, OwnerInv, Settled, NoJoinableThreadLeft
<1> QED  BY <1>1, ControlCorrect, PTL

(* A worker that abandon() gave up finishes at most the task it was in. *)
THEOREM AbandonedWorkersStop == Spec => AbandonedTakesNoTask
<1> DEFINE Step == \A w \in Workers :
                abandoned[w] /\ running[w] = NoTask => running'[w] = NoTask
<1>1. ControlInv /\ [Next]_vars => [Step]_vars
  <2> SUFFICES ASSUME ControlInv, Next, NEW w \in Workers,
                      abandoned[w], running[w] = NoTask
               PROVE  running'[w] = NoTask
    OBVIOUS
  <2>1. abort /\ running \in [Workers -> Tasks \cup {NoTask}]
    BY DEF ControlInv, WorkerInv, TypeOK
  <2>2. \A v \in Workers : ~Take(v)
    BY <2>1 DEF Take, PopTask
  <2>3. ASSUME NEW v \in Workers, Execute(v) PROVE running'[w] = NoTask
    BY <2>1, <2>3 DEF Execute
  <2>4. CASE UNCHANGED running
    BY <2>4
  <2>5. UNCHANGED running \/ \E v \in Workers : Take(v) \/ Execute(v)
    BY DEF Next, Submit, SubmitRefused, Notify, Pop, Sleep, Leave, SetDone, Wakeup,
           ClockTick, Start, BeginShutdown, OwnerStep, StartWorker, WakeForShutdown,
           JoinWorker, DrainWorker, Abort, WakeForAbort, GraceWorker, Destroyed,
           vars, workerVars
  <2> QED  BY <2>2, <2>3, <2>4, <2>5
<1> QED  BY <1>1, ControlCorrect, PTL DEF Spec, AbandonedTakesNoTask

-----------------------------------------------------------------------------
(* The order in which tasks are dispatched. *)
LEMMA EntryStep == TypeOK /\ EntryInv /\ [Next]_vars => EntryInv'
<1> SUFFICES ASSUME TypeOK, EntryInv, [Next]_vars PROVE EntryInv'
  OBVIOUS
<1>0. queue \in Seq(Entry) /\ Len(queue) \in Nat /\ DOMAIN queue = 1..Len(queue)
  BY DEF TypeOK, QueueTypeOK
<1>1. ASSUME NEW t \in Tasks, NEW p \in Priorities, Push(t, p)
      PROVE  EntryInv'
  <2>1. /\ DOMAIN queue' = 1..Len(queue) + 1
        /\ \A j \in 1..Len(queue) : queue'[j] = queue[j]
        /\ queue'[Len(queue) + 1] = [task |-> t, priority |-> p,
                                     effectivePriority |-> p, expired |-> FALSE]
    BY <1>0, <1>1, PushProperties
  <2>2. ASSUME NEW j \in DOMAIN queue', ~queue'[j].expired
        PROVE  queue'[j].effectivePriority = queue'[j].priority
    <3>1. CASE j = Len(queue) + 1
      BY <2>1, <3>1
    <3>2. CASE j # Len(queue) + 1
      BY <1>0, <2>1, <2>2, <3>2 DEF EntryInv
    <3> QED  BY <3>1, <3>2
  <2> QED  BY <2>2 DEF EntryInv
<1>2. ASSUME NEW i \in DOMAIN queue, PopTask(i)
      PROVE  EntryInv'
  <2>1. /\ DOMAIN queue' = 1..Len(queue) - 1
        /\ \A j \in DOMAIN queue' : queue'[j] = Raise(queue)[IF j < i THEN j ELSE j + 1]
    <3>1. /\ queue' \in Seq(Entry) /\ Len(queue') = Len(queue) - 1
          /\ \A j \in DOMAIN queue' : queue'[j] = Raise(queue)[IF j < i THEN j ELSE j + 1]
      BY <1>0, <1>2, PopProperties
    <3>2. DOMAIN queue' = 1..Len(queue')
      BY <3>1
    <3> QED  BY <3>1, <3>2
  <2>2. ASSUME NEW j \in DOMAIN queue', ~queue'[j].expired
        PROVE  queue'[j].effectivePriority = queue'[j].priority
    <3>1. PICK k \in DOMAIN queue : queue'[j] = Raise(queue)[k]
      BY <1>0, <2>1
    <3> QED  BY <1>0, <2>2, <3>1, RaiseProperties DEF EntryInv
  <2> QED  BY <2>2 DEF EntryInv
<1>3. CASE Expire
  <2>1. DOMAIN queue' = DOMAIN queue
    BY <1>0, <1>3, ExpireProperties
  <2> QED  BY <1>0, <1>3, <2>1, ExpireProperties DEF EntryInv
<1>4. CASE UNCHANGED queue
  BY <1>4 DEF EntryInv
<1>5. \/ \E t \in Tasks, p \in Priorities : Push(t, p)
      \/ \E i \in DOMAIN queue : PopTask(i)
      \/ Expire
      \/ UNCHANGED queue
  BY DEF Next, Submit, SubmitRefused, Notify, NotifyOne, Pop, Sleep, PopSleep, Take, Leave,
         PopNull, Execute, SetDone, Wakeup, SpuriousWakeup, ClockTick, Start, BeginShutdown,
         CloseQueue, OwnerStep, StartWorker, WakeForShutdown, NotifyAll, JoinWorker,
         DrainWorker, Abort, AbortQueue, WakeForAbort, GraceWorker, Destroyed, vars, queueVars
<1> QED  BY <1>1, <1>2, <1>3, <1>4, <1>5

(* applyAging leaves the heap intact: when no entry is aged it changes no  *)
(* key, and otherwise it rebuilds the heap.                                *)
LEMMA HeapAlwaysIntact == ASSUME queue \in Seq(Entry) PROVE HeapIntact(queue)
<1> SUFFICES ASSUME ~AnyAged(queue) PROVE Raise(queue) = queue
  BY DEF HeapIntact
<1>1. Raise(queue) = [i \in DOMAIN queue |-> queue[i]]
  BY DEF Raise, AnyAged
<1>2. queue = [i \in DOMAIN queue |-> queue[i]]
  OBVIOUS
<1> QED  BY <1>1, <1>2

(* A worker always takes the oldest of the queued tasks of highest rank,   *)
(* although keys change in place under a heap that was built with others.  *)
THEOREM DispatchInOrder == Spec => DispatchOrder
<1> DEFINE Step == \A w \in Workers : pc[w] = "popping" /\ pc'[w] = "executing" =>
                \E i \in DOMAIN queue :
                    /\ queue[i].task = running'[w]
                    /\ \A j \in DOMAIN queue \ {i} :
                        \/ Rank(queue[i]) > Rank(queue[j])
                        \/ Rank(queue[i]) = Rank(queue[j]) /\ i < j
<1>1. Init => EntryInv
  BY DEF Init, QueueInit, EntryInv
<1>2. TypeOK /\ EntryInv /\ [Next]_vars => [Step]_vars
  <2> SUFFICES ASSUME TypeOK, EntryInv, Next, NEW w \in Workers,
                      pc[w] = "popping", pc'[w] = "executing"
               PROVE  \E i \in DOMAIN queue :
                        /\ queue[i].task = running'[w]
                        /\ \A j \in DOMAIN queue \ {i} :
                            \/ Rank(queue[i]) > Rank(queue[j])
                            \/ Rank(queue[i]) = Rank(queue[j]) /\ i < j
    OBVIOUS
  <2>1. Take(w)
    BY DEF TypeOK, Next, Submit, SubmitRefused, Notify, Pop, Sleep, Take, Leave, Execute,
           SetDone, Wakeup, ClockTick, Start, BeginShutdown, OwnerStep, StartWorker,
           WakeForShutdown, JoinWorker, DrainWorker, Abort, WakeForAbort, GraceWorker,
           Destroyed, vars, workerVars
  <2>2. PICK i \in DOMAIN queue : PopTask(i) /\ running' = [running EXCEPT ![w] = queue[i].task]
    BY <2>1 DEF Take
  <2>3. running'[w] = queue[i].task
    BY <2>2 DEF TypeOK
  <2>4. queue \in Seq(Entry)
    BY DEF TypeOK, QueueTypeOK
  <2>5. i \in HeapTop(Raise(queue))
    BY <2>2, <2>4, HeapAlwaysIntact DEF PopTask, PopChoices
  <2>6. \A j \in DOMAIN queue : Raise(queue)[j].effectivePriority = Rank(queue[j])
    BY <2>4, RaiseProperties DEF EntryInv, Rank
  <2>7. DOMAIN Raise(queue) = DOMAIN queue
    BY <2>4, RaiseProperties
  <2>8. \A j \in DOMAIN queue \ {i} : Before(Raise(queue), i, j)
    BY <2>5, <2>7 DEF HeapTop
  <2>9. \A j \in DOMAIN queue \ {i} :
            \/ Rank(queue[i]) > Rank(queue[j])
            \/ Rank(queue[i]) = Rank(queue[j]) /\ i < j
    BY <2>2, <2>6, <2>8 DEF Before
  <2> QED  BY <2>2, <2>3, <2>9
<1> QED  BY <1>1, <1>2, EntryStep, TypeCorrect, PTL DEF Spec, DispatchOrder

-----------------------------------------------------------------------------
(* Where the accepted tasks are. *)
Distinct == \A i, j \in DOMAIN queue : queue[i].task = queue[j].task => i = j

(* A push adds one task to the queued ones. *)
LEMMA PushQueued ==
    ASSUME queue \in Seq(Entry), Distinct, NEW t \in Tasks, t \notin Queued,
           NEW p \in Priorities, Push(t, p)
    PROVE  Distinct' /\ Queued' = Queued \cup {t}
<1>1. Len(queue) \in Nat /\ DOMAIN queue = 1..Len(queue)
  OBVIOUS
<1>2. queue' \in Seq(Entry) /\ Len(queue') = Len(queue) + 1
  BY PushProperties
<1>3. DOMAIN queue' = 1..Len(queue) + 1
  BY <1>1, <1>2
<1>4. /\ \A j \in 1..Len(queue) : queue'[j] = queue[j]
      /\ queue'[Len(queue) + 1].task = t
  <2>1. /\ \A j \in 1..Len(queue) : queue'[j] = queue[j]
        /\ queue'[Len(queue')] = [task |-> t, priority |-> p,
                                  effectivePriority |-> p, expired |-> FALSE]
    BY PushProperties
  <2> QED  BY <1>2, <2>1
<1>5. \A j \in DOMAIN queue : queue[j].task # t
  BY DEF Queued
<1> QED  BY <1>1, <1>3, <1>4, <1>5 DEF Distinct, Queued

(* A pop removes the task it returns and no other. *)
LEMMA PopQueued ==
    ASSUME queue \in Seq(Entry), Distinct, NEW i \in DOMAIN queue, PopTask(i)
    PROVE  Distinct' /\ Queued' = Queued \ {queue[i].task}
<1>1. Len(queue) \in Nat /\ DOMAIN queue = 1..Len(queue)
  OBVIOUS
<1>2. queue' \in Seq(Entry) /\ Len(queue') = Len(queue) - 1
  BY PopProperties
<1>3. DOMAIN queue' = 1..Len(queue) - 1
  BY <1>1, <1>2
<1>4. \A j \in DOMAIN queue : Raise(queue)[j].task = queue[j].task
  BY RaiseProperties
<1>5. \A j \in DOMAIN queue' : queue'[j].task = queue[IF j < i THEN j ELSE j + 1].task
  <2> SUFFICES ASSUME NEW j \in DOMAIN queue'
               PROVE  queue'[j].task = queue[IF j < i THEN j ELSE j + 1].task
    OBVIOUS
  <2>1. queue'[j] = Raise(queue)[IF j < i THEN j ELSE j + 1]
    BY PopProperties
  <2>2. (IF j < i THEN j ELSE j + 1) \in DOMAIN queue
    BY <1>1, <1>3
  <2> QED  BY <1>4, <2>1, <2>2
<1>6. Distinct'
  BY <1>1, <1>3, <1>5 DEF Distinct
<1>7. Queued' \subseteq Queued \ {queue[i].task}
  <2> SUFFICES ASSUME NEW j \in DOMAIN queue'
               PROVE  queue'[j].task \in Queued /\ queue'[j].task # queue[i].task
    BY DEF Queued
  <2>1. PICK k \in DOMAIN queue : k # i /\ queue'[j].task = queue[k].task
    BY <1>1, <1>3, <1>5
  <2> QED  BY <2>1 DEF Distinct, Queued
<1>8. Queued \ {queue[i].task} \subseteq Queued'
  <2> SUFFICES ASSUME NEW k \in DOMAIN queue, queue[k].task # queue[i].task
               PROVE  queue[k].task \in Queued'
    BY DEF Queued
  <2> DEFINE j == IF k < i THEN k ELSE k - 1
  <2>1. j \in DOMAIN queue' /\ (IF j < i THEN j ELSE j + 1) = k
    BY <1>1, <1>3
  <2> QED  BY <1>5, <2>1 DEF Queued
<1> QED  BY <1>6, <1>7, <1>8

(* Aging does not change which tasks are queued. *)
LEMMA ExpireQueued ==
    ASSUME queue \in Seq(Entry), Distinct, Expire
    PROVE  Distinct' /\ Queued' = Queued
<1>1. queue' \in Seq(Entry) /\ Len(queue') = Len(queue)
  BY ExpireProperties
<1>2. DOMAIN queue' = DOMAIN queue
  BY <1>1
<1>3. \A j \in DOMAIN queue : queue'[j].task = queue[j].task
  BY ExpireProperties
<1> QED  BY <1>2, <1>3 DEF Distinct, Queued

(* Every step moves a task between the callers, the queue and the workers  *)
(* without losing or copying it.                                           *)
LEMMA HeldStep ==
    ControlInv /\ HeldExactlyOnce /\ [Next]_vars => HeldExactlyOnce'
<1> SUFFICES ASSUME ControlInv, HeldExactlyOnce, [Next]_vars PROVE HeldExactlyOnce'
  OBVIOUS
<1> DEFINE Single == \A v, w \in Workers :
                        running[v] = running[w] /\ running[v] # NoTask => v = w
<1>1. /\ outstanding = Queued \cup Running
      /\ Queued \cap Running = {}
      /\ Distinct
      /\ Single
  BY DEF HeldExactlyOnce, Distinct
<1>2. /\ queue \in Seq(Entry)
      /\ running \in [Workers -> Tasks \cup {NoTask}]
      /\ pc \in [Workers -> {"unstarted", "popping", "executing", "leaving", "done"}]
  BY DEF ControlInv, TypeOK, QueueTypeOK
<1>3. SUFFICES /\ outstanding' = Queued' \cup Running'
               /\ Queued' \cap Running' = {}
               /\ Distinct'
               /\ Single'
  BY DEF HeldExactlyOnce, Distinct
<1>4. ASSUME NEW s \in Submitters, NEW t \in Tasks, NEW p \in Priorities, Submit(s, t, p)
      PROVE  /\ outstanding' = Queued' \cup Running'
             /\ Queued' \cap Running' = {}
             /\ Distinct'
             /\ Single'
  <2>1. t \notin outstanding /\ Push(t, p)
    BY <1>4 DEF Submit
  <2>2. Distinct' /\ Queued' = Queued \cup {t}
    BY <1>1, <1>2, <2>1, PushQueued
  <2>3. outstanding' = outstanding \cup {t} /\ running' = running
    BY <1>4 DEF Submit, workerVars
  <2>4. Running' = Running
    BY <2>3 DEF Running
  <2> QED  BY <1>1, <2>1, <2>2, <2>3, <2>4
<1>5. ASSUME NEW w \in Workers, Take(w)
      PROVE  /\ outstanding' = Queued' \cup Running'
             /\ Queued' \cap Running' = {}
             /\ Distinct'
             /\ Single'
  <2>1. PICK i \in DOMAIN queue : PopTask(i) /\ running' = [running EXCEPT ![w] = queue[i].task]
    BY <1>5 DEF Take
  <2>2. Distinct' /\ Queued' = Queued \ {queue[i].task}
    BY <1>1, <1>2, <2>1, PopQueued
  <2>3. queue[i].task \in Queued /\ queue[i].task # NoTask
    <3>1. queue[i] \in Entry
      BY <1>2
    <3> QED  BY <3>1, PoolAssumption DEF Entry, Queued
  <2>4. running[w] = NoTask
    BY <1>5 DEF Take, Popping, ControlInv, WorkerInv
  <2>5. running'[w] = queue[i].task /\ \A v \in Workers \ {w} : running'[v] = running[v]
    BY <1>2, <2>1
  <2>6. Running' = Running \cup {queue[i].task}
    BY <2>3, <2>4, <2>5 DEF Running
  <2>7. outstanding' = outstanding
    BY <1>5 DEF Take
  <2>8. \A v \in Workers \ {w} : running[v] # queue[i].task
    BY <1>1, <2>3 DEF Running
  <2> QED  BY <1>1, <2>2, <2>3, <2>5, <2>6, <2>7, <2>8
<1>6. ASSUME NEW w \in Workers, Execute(w)
      PROVE  /\ outstanding' = Queued' \cup Running'
             /\ Queued' \cap Running' = {}
             /\ Distinct'
             /\ Single'
  <2>1. UNCHANGED queue /\ outstanding' = outstanding \ {running[w]}
    BY <1>6 DEF Execute, queueVars
  <2>2. running[w] # NoTask
    BY <1>6 DEF Execute, ControlInv, WorkerInv
  <2>3. running'[w] = NoTask /\ \A v \in Workers \ {w} : running'[v] = running[v]
    BY <1>2, <1>6 DEF Execute
  <2>4. Running' = Running \ {running[w]}
    BY <1>1, <2>2, <2>3 DEF Running
  <2>5. running[w] \in Running
    BY <2>2 DEF Running
  <2>6. Queued' = Queued /\ Distinct'
    BY <1>1, <2>1 DEF Queued, Distinct
  <2> QED  BY <1>1, <2>1, <2>3, <2>4, <2>5, <2>6
<1>7. CASE ClockTick
  <2>1. Distinct' /\ Queued' = Queued
    BY <1>1, <1>2, <1>7, ExpireQueued DEF ClockTick
  <2>2. UNCHANGED <<running, outstanding>>
    BY <1>7 DEF ClockTick, workerVars
  <2> QED  BY <1>1, <2>1, <2>2 DEF Running
<1>8. CASE UNCHANGED <<queue, running, outstanding>>
  BY <1>1, <1>8 DEF Queued, Running, Distinct
<1>9. \/ \E s \in Submitters, t \in Tasks, p \in Priorities : Submit(s, t, p)
      \/ \E w \in Workers : Take(w) \/ Execute(w)
      \/ ClockTick
      \/ UNCHANGED <<queue, running, outstanding>>
  BY DEF Next, SubmitRefused, Notify, NotifyOne, Pop, Sleep, PopSleep, Leave,
         PopNull, SetDone, Wakeup, SpuriousWakeup, Start, BeginShutdown,
         CloseQueue, OwnerStep, StartWorker, WakeForShutdown, NotifyAll, JoinWorker,
         DrainWorker, Abort, AbortQueue, WakeForAbort, GraceWorker, Destroyed,
         vars, queueVars, workerVars
<1> QED  BY <1>4, <1>5, <1>6, <1>7, <1>8, <1>9

(* No task is lost, duplicated or taken by two workers: what submit has    *)
(* accepted and execute() has not finished is in the queue once, or with   *)
(* one worker.                                                             *)
THEOREM TasksHeldExactlyOnce == Spec => []HeldExactlyOnce
<1>1. Init => HeldExactlyOnce
  BY DEF Init, QueueInit, HeldExactlyOnce, Queued, Running
<1> QED  BY <1>1, HeldStep, ControlCorrect, PTL DEF Spec

(* After a shutdown that needed no abort every accepted task has been      *)
(* executed: a settled worker is done, a done worker saw the queue empty   *)
(* and closed, and nothing is pushed into a closed queue.                  *)
THEOREM GracefulShutdown == Spec => []GracefulShutdownExecutesAll
<1>1. ControlInv /\ HeldExactlyOnce => GracefulShutdownExecutesAll
  <2> SUFFICES ASSUME ControlInv, HeldExactlyOnce, done, ~abort,
                      owner \in {"idle", "destroyed"},
                      \A w \in Workers : thread[w] # "none"
               PROVE  outstanding = {}
    BY DEF GracefulShutdownExecutesAll
  <2>1. \A w \in Workers : pc[w] = "done"
    BY DEF ControlInv, OwnerInv, Settled, WorkerInv
  <2>2. queue = <<>>
    BY <2>1, WorkersFacts DEF ControlInv, WorkerInv
  <2>3. \A w \in Workers : running[w] = NoTask
    BY <2>1 DEF ControlInv, WorkerInv
  <2> QED  BY <2>2, <2>3 DEF HeldExactlyOnce, Queued, Running
<1> QED  BY <1>1, ControlCorrect, TasksHeldExactlyOnce, PTL

-----------------------------------------------------------------------------
(* Counting: the wakeups and the abstract capacity. *)
LEMMA QueuedBound ==
    ASSUME queue \in Seq(Entry)
    PROVE  IsFiniteSet(Queued) /\ Cardinality(Queued) <= Len(queue)
<1> DEFINE f == [i \in 1..Len(queue) |-> queue[i].task]
<1>1. Len(queue) \in Nat /\ DOMAIN queue = 1..Len(queue)
  OBVIOUS
<1>2. f \in Surjection(1..Len(queue), Queued)
  BY <1>1 DEF Surjection, Queued
<1>3. IsFiniteSet(1..Len(queue)) /\ Cardinality(1..Len(queue)) = Len(queue)
  BY <1>1, FS_Interval
<1> HIDE DEF f
<1> QED  BY <1>2, <1>3, FS_Surjection

Awake == {w \in Workers : Popping(w)}

(* The sets of threads that are counted are finite. *)
LEMMA FiniteCounts ==
    /\ \A S \in SUBSET Submitters : IsFiniteSet(S) /\ Cardinality(S) \in Nat
    /\ \A A \in SUBSET Workers : IsFiniteSet(A) /\ Cardinality(A) \in Nat
<1>1. IsFiniteSet(Workers)
  BY WorkersFacts, FS_Interval DEF Workers
<1> QED  BY <1>1, PoolAssumption, FS_Subset, FS_CardinalityType

(* A push is matched by its own notify_one, a notify_one by the sleeper it *)
(* wakes, and a worker goes to sleep only when the queue is empty.         *)
LEMMA WakeupStep ==
    ControlInv /\ NoLostWakeup /\ [Next]_vars => NoLostWakeup'
<1> SUFFICES ASSUME ControlInv, NoLostWakeup, [Next]_vars, ~abort', waiting' # {}
             PROVE  Len(queue') <= Cardinality(submitting') + Cardinality(Awake')
  BY DEF NoLostWakeup, Awake
<1>1. TypeOK /\ TypeOK'
  BY ControlStep DEF ControlInv
<1>2. /\ IsFiniteSet(submitting) /\ Cardinality(submitting) \in Nat
      /\ IsFiniteSet(Awake) /\ Cardinality(Awake) \in Nat
      /\ Len(queue) \in Nat
  BY <1>1, FiniteCounts DEF Awake, TypeOK, QueueTypeOK
<1>3. /\ IsFiniteSet(submitting') /\ Cardinality(submitting') \in Nat
      /\ IsFiniteSet(Awake') /\ Cardinality(Awake') \in Nat
      /\ Len(queue') \in Nat
  BY <1>1, FiniteCounts DEF Awake, TypeOK, QueueTypeOK
<1>4. ~abort /\ waiting # {} => Len(queue) <= Cardinality(submitting) + Cardinality(Awake)
  BY DEF NoLostWakeup, Awake
<1>5. waiting \subseteq Workers /\ \A w \in waiting : pc[w] = "popping"
  BY <1>1 DEF ControlInv, WorkerInv, TypeOK
<1>6. pc \in [Workers -> {"unstarted", "popping", "executing", "leaving", "done"}]
  BY <1>1 DEF TypeOK
<1>7. ASSUME NEW s \in Submitters, NEW t \in Tasks, NEW p \in Priorities, Submit(s, t, p)
      PROVE  Len(queue') <= Cardinality(submitting') + Cardinality(Awake')
  <2>1. Len(queue') = Len(queue) + 1
    BY <1>1, <1>7, PushProperties DEF Submit, TypeOK, QueueTypeOK
  <2>2. Cardinality(submitting') = Cardinality(submitting) + 1
    BY <1>2, <1>7, FS_AddElement DEF Submit
  <2>3. UNCHANGED <<abort, waiting, pc>>
    BY <1>7 DEF Submit, Push, workerVars
  <2>4. Awake' = Awake
    BY <2>3 DEF Awake, Popping
  <2> QED  BY <1>2, <1>4, <2>1, <2>2, <2>3, <2>4
<1>8. ASSUME NEW s \in Submitters, Notify(s)
      PROVE  Len(queue') <= Cardinality(submitting') + Cardinality(Awake')
  <2>1. PICK w \in waiting : waiting' = waiting \ {w}
    BY <1>8 DEF Notify, NotifyOne
  <2>2. UNCHANGED <<queue, abort, pc>>
    BY <1>8 DEF Notify, NotifyOne, workerVars
  <2>3. Awake' = Awake \cup {w} /\ w \notin Awake
    BY <1>5, <2>1, <2>2 DEF Awake, Popping
  <2>4. Cardinality(Awake') = Cardinality(Awake) + 1
    BY <1>2, <2>3, FS_AddElement
  <2>5. Cardinality(submitting') = Cardinality(submitting) - 1
    BY <1>2, <1>8, FS_RemoveElement DEF Notify
  <2> QED  BY <1>2, <1>4, <2>1, <2>2, <2>4, <2>5
<1>9. ASSUME NEW w \in Workers, Sleep(w) \/ Leave(w)
      PROVE  Len(queue') <= Cardinality(submitting') + Cardinality(Awake')
  <2>1. queue' = <<>>
    BY <1>9 DEF Sleep, PopSleep, Leave, PopNull, queueVars
  <2> QED  BY <1>3, <2>1
<1>10. ASSUME NEW w \in Workers, Take(w)
       PROVE  Len(queue') <= Cardinality(submitting') + Cardinality(Awake')
  <2>1. PICK i \in DOMAIN queue : PopTask(i)
    BY <1>10 DEF Take
  <2>2. Len(queue') = Len(queue) - 1
    BY <1>1, <2>1, PopProperties DEF TypeOK, QueueTypeOK
  <2>3. UNCHANGED <<abort, waiting, submitting>> /\ w \in Awake
    BY <1>10 DEF Take, PopTask, Awake
  <2>4. Awake' = Awake \ {w}
    BY <1>6, <1>10, <2>3 DEF Take, Awake, Popping
  <2>5. Cardinality(Awake') = Cardinality(Awake) - 1
    BY <1>2, <2>3, <2>4, FS_RemoveElement
  <2> QED  BY <1>2, <1>4, <2>2, <2>3, <2>5
<1>11. CASE ClockTick
  <2>1. Len(queue') = Len(queue)
    BY <1>1, <1>11, ExpireProperties DEF ClockTick, TypeOK, QueueTypeOK
  <2>2. UNCHANGED <<abort, waiting, pc, submitting>>
    BY <1>11 DEF ClockTick, Expire, workerVars
  <2>3. Awake' = Awake
    BY <2>2 DEF Awake, Popping
  <2> QED  BY <1>4, <2>1, <2>2, <2>3
<1>12. CASE /\ UNCHANGED <<queue, submitting>>
            /\ waiting' \subseteq waiting
            /\ abort => abort'
            /\ \A w \in Workers : pc[w] = "popping" => pc'[w] = "popping"
  <2>1. Awake \subseteq Awake'
    BY <1>12 DEF Awake, Popping
  <2>2. Cardinality(Awake) <= Cardinality(Awake')
    BY <1>3, <2>1, FS_Subset
  <2> QED  BY <1>2, <1>3, <1>4, <1>12, <2>2
<1>13. ASSUME NEW w \in Workers, Execute(w) \/ SetDone(w) \/ Wakeup(w)
       PROVE  /\ UNCHANGED <<queue, submitting>>
              /\ waiting' \subseteq waiting
              /\ abort => abort'
              /\ \A v \in Workers : pc[v] = "popping" => pc'[v] = "popping"
  BY <1>6, <1>13 DEF Execute, SetDone, Wakeup, SpuriousWakeup, workerVars, queueVars
<1>14. CASE OwnerStep \/ Start \/ \E m \in {"join", "timed", "destroy"} : BeginShutdown(m)
  <2>1. /\ UNCHANGED <<queue, submitting>>
        /\ waiting' \subseteq waiting
        /\ abort => abort'
        /\ \A v \in Workers : pc[v] = "popping" => pc'[v] = "popping"
    BY <1>6, <1>14
    DEF OwnerStep, Start, BeginShutdown, CloseQueue, StartWorker, WakeForShutdown, NotifyAll,
        JoinWorker, DrainWorker, Abort, AbortQueue, WakeForAbort, GraceWorker,
        workerVars, queueVars
  <2> QED  BY <1>12, <2>1
<1>15. CASE UNCHANGED vars
  BY <1>12, <1>15 DEF vars, queueVars, workerVars
<1> QED
  BY <1>7, <1>8, <1>9, <1>10, <1>11, <1>12, <1>13, <1>14, <1>15
  DEF Next, Pop, SubmitRefused, Destroyed

(* A queued task never waits for a sleeping worker, although push sends    *)
(* its notify_one after it has released m_mutex.                           *)
THEOREM WakeupsNotLost == Spec => []NoLostWakeup
<1>1. Init => NoLostWakeup
  BY DEF Init, QueueInit, NoLostWakeup
<1> QED  BY <1>1, WakeupStep, ControlCorrect, PTL DEF Spec

-----------------------------------------------------------------------------
(* The refinement. *)

(* The phase the refinement mapping gives. *)
LEMMA PhaseStep ==
    ASSUME ControlInv, [Next]_vars
    PROVE  /\ done => done'
           /\ abort => abort'
           /\ abort' => done
<1>1. abort => done
  BY DEF ControlInv, OwnerInv
<1>2. CASE \E m \in {"join", "timed", "destroy"} : BeginShutdown(m)
  BY <1>1, <1>2 DEF BeginShutdown, CloseQueue
<1>3. CASE Abort
  BY <1>1, <1>3 DEF Abort, AbortQueue, ControlInv, OwnerInv
<1>4. CASE UNCHANGED <<done, abort>>
  BY <1>1, <1>4
<1> QED
  BY <1>2, <1>3, <1>4
  DEF Next, Submit, Push, SubmitRefused, Notify, NotifyOne, Pop, Sleep, PopSleep, Take,
      PopTask, Leave, PopNull, Execute, SetDone, Wakeup, SpuriousWakeup, ClockTick, Expire,
      Start, OwnerStep, StartWorker, WakeForShutdown, NotifyAll, JoinWorker, DrainWorker,
      WakeForAbort, GraceWorker, Destroyed, vars, queueVars

(* TaskService counts with its own instance of FiniteSets. *)
LEMMA ServiceCardinality == \A S : Service!Cardinality(S) = Cardinality(S)
BY DEF Cardinality, Service!Cardinality

(* Every step of the pool is a step of the service or invisible to it. *)
LEMMA ServiceStep ==
    ControlInv /\ HeldExactlyOnce /\ [Next]_vars => [Service!Next]_(Service!vars)
<1> SUFFICES ASSUME ControlInv, HeldExactlyOnce, [Next]_vars
             PROVE  [Service!Next]_(Service!vars)
  OBVIOUS
<1>1. /\ queue \in Seq(Entry) /\ Len(queue) \in Nat
      /\ running \in [Workers -> Tasks \cup {NoTask}]
  BY DEF ControlInv, TypeOK, QueueTypeOK
<1>2. /\ outstanding = Queued \cup Running
      /\ Queued \cap Running = {}
      /\ outstanding \ Running = Queued
  BY DEF HeldExactlyOnce
<1>3. ASSUME NEW s \in Submitters, NEW t \in Tasks, NEW p \in Priorities, Submit(s, t, p)
      PROVE  Service!Accept(t)
  <2>1. /\ ~done /\ Len(queue) < MaxQueueSize
        /\ UNCHANGED <<done, abort, running>>
        /\ t \notin outstanding /\ outstanding' = outstanding \cup {t}
    BY <1>1, <1>3, QueueAssumption DEF Submit, Push, PushRefused, workerVars
  <2>2. Cardinality(outstanding \ Running) < MaxQueueSize
    <3>1. IsFiniteSet(Queued) /\ Cardinality(Queued) <= Len(queue)
      BY <1>1, QueuedBound
    <3>2. Cardinality(Queued) \in Nat
      BY <3>1, FS_CardinalityType
    <3>3. Cardinality(Queued) < MaxQueueSize
      BY <1>1, <2>1, <3>1, <3>2, QueueAssumption
    <3> QED  BY <1>2, <3>3
  <2>3. Running' = Running
    BY <2>1 DEF Running
  <2>4. ~done /\ ~abort /\ ~done' /\ ~abort'
    BY <2>1 DEF ControlInv, OwnerInv
  <2>5. Service!Cardinality(outstanding \ Running) < MaxQueueSize
    BY <2>2, ServiceCardinality
  <2> QED  BY <2>1, <2>3, <2>4, <2>5 DEF Service!Accept
<1>4. ASSUME NEW w \in Workers, Take(w)
      PROVE  \E t \in Tasks : Service!Begin(t)
  <2>1. PICK i \in DOMAIN queue : PopTask(i) /\ running' = [running EXCEPT ![w] = queue[i].task]
    BY <1>4 DEF Take
  <2>2. queue[i].task \in Tasks /\ queue[i].task \in Queued
    <3>1. queue[i] \in Entry
      BY <1>1
    <3> QED  BY <3>1 DEF Entry, Queued
  <2>3. running[w] = NoTask /\ queue[i].task # NoTask
    BY <1>4, <2>2, PoolAssumption DEF Take, Popping, ControlInv, WorkerInv
  <2>4. running'[w] = queue[i].task /\ \A v \in Workers \ {w} : running'[v] = running[v]
    BY <1>1, <2>1
  <2>5. Running' = Running \cup {queue[i].task}
    BY <2>3, <2>4 DEF Running
  <2>6. ~abort /\ UNCHANGED <<done, abort, outstanding>>
    BY <1>4, <2>1 DEF Take, PopTask
  <2> QED  BY <1>2, <2>2, <2>5, <2>6 DEF Service!Begin
<1>5. ASSUME NEW w \in Workers, Execute(w)
      PROVE  \E t \in Tasks : Service!Complete(t)
  <2>1. running[w] # NoTask
    BY <1>5 DEF Execute, ControlInv, WorkerInv
  <2>2. running[w] \in Tasks /\ running[w] \in Running
    BY <1>1, <2>1 DEF Running
  <2>3. running'[w] = NoTask /\ \A v \in Workers \ {w} : running'[v] = running[v]
    BY <1>1, <1>5 DEF Execute
  <2>4. Running' = Running \ {running[w]}
    BY <2>1, <2>3 DEF Running, HeldExactlyOnce
  <2>5. outstanding' = outstanding \ {running[w]} /\ UNCHANGED <<done, abort>>
    BY <1>5 DEF Execute, queueVars
  <2> QED  BY <2>2, <2>4, <2>5 DEF Service!Complete
<1>6. CASE UNCHANGED <<running, outstanding>>
  <2>1. Running' = Running
    BY <1>6 DEF Running
  <2>2. (done => done') /\ (abort => abort') /\ (abort' => done)
    BY PhaseStep
  <2>3. CASE abort \/ (~abort' /\ (done <=> done'))
    BY <1>6, <2>1, <2>2, <2>3 DEF Service!vars, ControlInv, TypeOK, QueueTypeOK, OwnerInv
  <2>4. CASE ~abort /\ abort'
    BY <1>6, <2>1, <2>2, <2>4 DEF Service!Next, Service!Abandon
  <2>5. CASE ~abort' /\ ~done /\ done'
    BY <1>6, <2>1, <2>2, <2>5 DEF Service!Next, Service!Close
  <2> QED  BY <2>2, <2>3, <2>4, <2>5
<1>7. \/ \E s \in Submitters, t \in Tasks, p \in Priorities : Submit(s, t, p)
      \/ \E w \in Workers : Take(w) \/ Execute(w)
      \/ UNCHANGED <<running, outstanding>>
  BY DEF Next, SubmitRefused, Notify, Pop, Sleep, Leave, SetDone, Wakeup, ClockTick, Start,
         BeginShutdown, OwnerStep, StartWorker, WakeForShutdown, JoinWorker, DrainWorker,
         Abort, WakeForAbort, GraceWorker, Destroyed, vars, workerVars
<1> QED
  BY <1>3, <1>4, <1>5, <1>6, <1>7 DEF Service!Next

(* The pool with its queue, workers, wakeups and shutdown protocol         *)
(* implements the service that its callers rely on.                        *)
THEOREM PoolImplementsService == Spec => ImplementsTaskService
<1>1. Init => Service!Init
  BY DEF Init, QueueInit, Service!Init, Running
<1> QED
  BY <1>1, ServiceStep, ControlCorrect, TasksHeldExactlyOnce, PTL
  DEF Spec, ImplementsTaskService, Service!Spec
==============================================================================
