----------------------------- MODULE AsyncLogger -----------------------------
(***************************************************************************)
(* AsyncLogger with its MessageQueue, LogConsumer and LogSink (logger.hpp, *)
(* logger.cpp): threads that log, the consumer thread that writes, and the *)
(* owner, which starts the logger and shuts it down, once explicitly and   *)
(* once more from the destructor.                                          *)
(*                                                                         *)
(* A critical section of m_mutex is one step, and the notification that    *)
(* follows the unlock another.  Messages are those that pass the filter of *)
(* log: m_minLevel does not change once threads log.                       *)
(***************************************************************************)
EXTENDS Integers, Sequences, FiniteSets

CONSTANTS
    Messages,       \* what is logged, each message once
    Loggers,        \* the threads that call log
    SinkMayFail     \* a write may fail (a full disk)

ASSUME LoggerAssumption == SinkMayFail \in BOOLEAN

VARIABLES
    queue,      \* m_queue
    done,       \* m_done
    notifying,  \* the loggers between push's unlock and its notify_one
    consumer,   \* where the consumer thread is
    held,       \* the message the consumer has taken and not yet written
    written,    \* what the sink has
    failed,     \* the stream of the sink has its badbit set
    owner,      \* where the owner is in the call it is making
    accepted,   \* history: every message pushed, in order
    due         \* history: how many of them before m_done was first set

consumerVars == <<consumer, held>>
sinkVars == <<written, failed>>
vars == <<queue, done, notifying, consumerVars, sinkVars, owner, accepted, due>>

Logged == {accepted[i] : i \in DOMAIN accepted}

TypeOK ==
    /\ {queue, held, written, accepted} \subseteq Seq(Messages)
    /\ done \in BOOLEAN /\ failed \in BOOLEAN
    /\ notifying \subseteq Loggers
    /\ consumer \in {"unstarted", "popping", "asleep", "writing", "left"}
    /\ owner \in {"constructed", "running", "closing", "joining", "returned"}
    /\ due \in 0..Len(accepted)
    /\ Len(held) = (IF consumer = "writing" THEN 1 ELSE 0)

Init ==
    /\ queue = <<>> /\ held = <<>> /\ written = <<>> /\ accepted = <<>>
    /\ done = FALSE /\ failed = FALSE
    /\ notifying = {}
    /\ consumer = "unstarted"
    /\ owner = "constructed"
    /\ due = 0

-----------------------------------------------------------------------------
(* log and MessageQueue::push, which does not look at m_done. *)
Log(l, m) ==
    /\ l \notin notifying /\ m \notin Logged
    /\ queue' = Append(queue, m)
    /\ accepted' = Append(accepted, m)
    /\ notifying' = notifying \cup {l}
    /\ UNCHANGED <<done, consumerVars, sinkVars, owner, due>>

(* Fault: push does not notify. *)
NotifyForgotten(l) ==
    /\ l \in notifying
    /\ notifying' = notifying \ {l}
    /\ UNCHANGED <<queue, done, consumerVars, sinkVars, owner, accepted, due>>

(* notify_one: there is only one consumer to be woken. *)
WakeConsumer == consumer' = IF consumer = "asleep" THEN "popping" ELSE consumer

Notify(l) ==
    /\ l \in notifying
    /\ WakeConsumer
    /\ notifying' = notifying \ {l}
    /\ UNCHANGED <<queue, done, held, sinkVars, owner, accepted, due>>

-----------------------------------------------------------------------------
(* The thread function of LogConsumer::start: the outcomes of pop.         *)
Sleep ==
    /\ consumer = "popping"
    /\ queue = <<>> /\ ~done
    /\ consumer' = "asleep"
    /\ UNCHANGED <<queue, done, notifying, held, sinkVars, owner, accepted, due>>

SpuriousWakeup ==
    /\ consumer = "asleep"
    /\ consumer' = "popping"
    /\ UNCHANGED <<queue, done, notifying, held, sinkVars, owner, accepted, due>>

(* Fault: pop does not remove the message it returns. *)
TakeCopy ==
    /\ consumer = "popping"
    /\ queue # <<>>
    /\ held' = <<Head(queue)>>
    /\ consumer' = "writing"
    /\ UNCHANGED <<queue, done, notifying, sinkVars, owner, accepted, due>>

Take ==
    /\ consumer = "popping"
    /\ queue # <<>>
    /\ held' = <<Head(queue)>>
    /\ queue' = Tail(queue)
    /\ consumer' = "writing"
    /\ UNCHANGED <<done, notifying, sinkVars, owner, accepted, due>>

(* Fault: pop gives up as soon as m_done is set.                           *)
LeaveAtOnce ==
    /\ consumer = "popping"
    /\ done
    /\ consumer' = "left"
    /\ UNCHANGED <<queue, done, notifying, held, sinkVars, owner, accepted, due>>

Leave ==
    /\ consumer = "popping"
    /\ queue = <<>> /\ done
    /\ consumer' = "left"
    /\ UNCHANGED <<queue, done, notifying, held, sinkVars, owner, accepted, due>>

(* LogSink::write.  Once a write has failed the stream stays bad, and      *)
(* every later write does nothing; the consumer does not look at it.       *)
Write ==
    /\ consumer = "writing"
    /\ \/ written' = (IF failed THEN written ELSE written \o held) /\ UNCHANGED failed
       \/ SinkMayFail /\ failed' = TRUE /\ UNCHANGED written
    /\ held' = <<>>
    /\ consumer' = "popping"
    /\ UNCHANGED <<queue, done, notifying, owner, accepted, due>>

ConsumerStep == Sleep \/ Take \/ Leave \/ Write

-----------------------------------------------------------------------------
(* The owner: start, at most once and before any shutdown.                 *)
Start ==
    /\ owner = "constructed"
    /\ owner' = "running"
    /\ consumer' = "popping"
    /\ UNCHANGED <<queue, done, notifying, held, sinkVars, accepted, due>>

(* shutdown, also from the destructor: m_done under the lock, notify_all,  *)
(* and the join of a consumer that was started and is not joined yet.      *)
BeginShutdown ==
    /\ owner \in {"constructed", "running", "returned"}
    /\ owner' = "closing"
    /\ done' = TRUE
    /\ due' = IF done THEN due ELSE Len(accepted)
    /\ UNCHANGED <<queue, notifying, consumerVars, sinkVars, accepted>>

(* Fault: shutdown does not notify. *)
ShutdownWakesNobody ==
    /\ owner = "closing"
    /\ owner' = "joining"
    /\ UNCHANGED <<queue, done, notifying, consumerVars, sinkVars, accepted, due>>

WakeForShutdown ==
    /\ owner = "closing"
    /\ WakeConsumer
    /\ owner' = "joining"
    /\ UNCHANGED <<queue, done, notifying, held, sinkVars, accepted, due>>

(* Fault: shutdown does not wait for the consumer. *)
ReturnWithoutJoin ==
    /\ owner = "joining"
    /\ owner' = "returned"
    /\ UNCHANGED <<queue, done, notifying, consumerVars, sinkVars, accepted, due>>

Join ==
    /\ owner = "joining"
    /\ consumer \in {"unstarted", "left"}
    /\ owner' = "returned"
    /\ UNCHANGED <<queue, done, notifying, consumerVars, sinkVars, accepted, due>>

OwnerStep == WakeForShutdown \/ Join

-----------------------------------------------------------------------------
Next ==
    \/ \E l \in Loggers, m \in Messages : Log(l, m)
    \/ \E l \in Loggers : Notify(l)
    \/ ConsumerStep
    \/ SpuriousWakeup
    \/ Start
    \/ BeginShutdown
    \/ OwnerStep

(* Threads that can run are run.  Nobody is obliged to log, and a sleeper  *)
(* need not wake up by itself.                                             *)
Fairness ==
    /\ \A l \in Loggers : WF_vars(Notify(l))
    /\ WF_vars(ConsumerStep)
    /\ WF_vars(OwnerStep)

Spec == Init /\ [][Next]_vars
FairSpec == Spec /\ Fairness

-----------------------------------------------------------------------------
(* How LogService sees the logger; a second shutdown is no new phase.      *)
Service == INSTANCE LogService WITH
    output <- written,
    broken <- failed,
    phase <- IF owner = "constructed" THEN "new"
             ELSE IF owner = "running" THEN "open"
             ELSE IF consumer \in {"unstarted", "left"} THEN "closed" ELSE "closing"

(* AsyncLogger implements LogService: whatever the interleaving of pushes, *)
(* pops, wakeups and the shutdown, messages are written in the order of    *)
(* the pushes, a failing sink cuts the log off but leaves no gap in it,    *)
(* and the consumer leaves only when what was due has been written.        *)
ImplementsLogService == Service!Spec

(* Every message pushed is in exactly one place: written, in the hands of  *)
(* the consumer, or queued; and the three in order are the order of the    *)
(* pushes.                                                                 *)
HeldInOrder == ~failed => accepted = written \o held \o queue

(* push notifies after it has released m_mutex, and m_done is followed by  *)
(* notify_all after the unlock: the consumer never sleeps over a message,  *)
(* or through a shutdown, that nobody is about to tell it of.              *)
NoLostWakeup ==
    consumer = "asleep" =>
        /\ queue # <<>> => notifying # {} \/ owner = "closing"
        /\ done => owner = "closing"

(* When the shutdown of a started logger returns, everything logged before *)
(* it is in the output, unless the sink broke (logger_test.cpp,            *)
(* ShutdownFlushesAll and ConcurrentLogging).                              *)
FlushedOnReturn ==
    owner = "returned" /\ consumer # "unstarted" /\ ~failed => Len(written) >= due

(* When shutdown has returned, the consumer is gone: nothing is written    *)
(* any more, however many messages are logged late, and the destructor's   *)
(* second shutdown finds nothing to wait for.                              *)
SilentAfterReturn ==
    [][owner = "returned" => UNCHANGED <<written, failed, consumer>>]_vars

(* The shutdown returns whenever it is called: before start, with messages *)
(* queued, with a consumer asleep, again from the destructor.              *)
ShutdownReturns == owner = "closing" ~> owner = "returned"

(* A message logged to a running logger is written without a further call, *)
(* unless the sink breaks.                                                 *)
EventuallyWritten ==
    \A m \in Messages :
        m \in Logged /\ owner = "running" ~>
            failed \/ \E i \in DOMAIN written : written[i] = m
==============================================================================
