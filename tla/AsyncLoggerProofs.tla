-------------------------- MODULE AsyncLoggerProofs --------------------------
(***************************************************************************)
(* Proofs about AsyncLogger, for any set of messages and any set of        *)
(* threads that log them, with a sink that fails or not.                   *)
(***************************************************************************)
EXTENDS AsyncLogger, TLAPS, SequenceTheorems

-----------------------------------------------------------------------------
(* How the owner's and the consumer's positions fit together: without it a *)
(* consumer that has left could be one that was never told to.             *)
ControlInv ==
    /\ done <=> owner \in {"closing", "joining", "returned"}
    /\ owner = "constructed" => consumer = "unstarted"
    /\ owner = "running" => consumer # "unstarted"
    /\ owner = "returned" => consumer \in {"unstarted", "left"}
    /\ consumer = "left" => done
    /\ consumer = "left" /\ ~failed => Len(written) >= due

LoggerInv == TypeOK /\ HeldInOrder /\ ControlInv

-----------------------------------------------------------------------------
(* A message pushed extends the queue and the history alike. *)
LEMMA PushKeepsOrder ==
    \A w, h, q \in Seq(Messages), m \in Messages :
        Append(w \o h \o q, m) = w \o h \o Append(q, m)
<1> TAKE w, h, q \in Seq(Messages), m \in Messages
<1>1. w \o h \in Seq(Messages) /\ w \o h \o q \in Seq(Messages) /\ <<m>> \in Seq(Messages)
  BY ConcatProperties
<1>2. Append(w \o h \o q, m) = (w \o h \o q) \o <<m>>
  BY <1>1, AppendIsConcat
<1>3. Append(q, m) = q \o <<m>>
  BY AppendIsConcat
<1>4. (w \o h \o q) \o <<m>> = (w \o h) \o (q \o <<m>>)
  BY <1>1, ConcatAssociative
<1> QED  BY <1>2, <1>3, <1>4

(* Taking the head of the queue moves it to the consumer's hands. *)
LEMMA TakeKeepsOrder ==
    ASSUME NEW S, NEW w \in Seq(S), NEW q \in Seq(S), q # <<>>
    PROVE  /\ <<Head(q)>> \in Seq(S) /\ Tail(q) \in Seq(S)
           /\ w \o <<>> \o q = w \o <<Head(q)>> \o Tail(q)
<1>1. Head(q) \in S /\ Tail(q) \in Seq(S) /\ <<Head(q)>> \in Seq(S)
  BY HeadTailProperties
<1>2. q = <<Head(q)>> \o Tail(q)
  <2> DEFINE t == <<Head(q)>> \o Tail(q)
  <2>1. /\ t \in Seq(S) /\ Len(t) = 1 + Len(Tail(q))
        /\ \A i \in 1..Len(t) : t[i] = IF i <= 1 THEN Head(q) ELSE Tail(q)[i - 1]
    BY <1>1, ConcatProperties
  <2>2. /\ Len(q) = Len(t)
        /\ \A i \in 1..Len(q) : q[i] = t[i]
    BY <2>1, <1>1, HeadTailProperties
  <2> HIDE DEF t
  <2>3. q = t
    BY <2>1, <2>2, SeqEqual
  <2> QED  BY <2>3 DEF t
<1>3. w \o <<>> = w
  BY ConcatEmptySeq
<1>4. (w \o <<Head(q)>>) \o Tail(q) = w \o (<<Head(q)>> \o Tail(q))
  BY <1>1, ConcatAssociative
<1> QED  BY <1>1, <1>2, <1>3, <1>4

(* What the consumer writes is the next message of the history. *)
LEMMA WriteIsNext ==
    ASSUME NEW S, NEW w \in Seq(S), NEW h \in Seq(S), NEW q \in Seq(S), Len(h) = 1
    PROVE  /\ w \o h \in Seq(S)
           /\ w \o h \o q = w \o h \o <<>> \o q
           /\ Len(w) < Len(w \o h \o q)
           /\ w \o h = Append(w, (w \o h \o q)[Len(w) + 1])
<1> DEFINE wh == w \o h
<1>1. /\ wh \in Seq(S) /\ Len(wh) = Len(w) + Len(h)
      /\ \A i \in 1..(Len(w) + Len(h)) :
            wh[i] = IF i <= Len(w) THEN w[i] ELSE h[i - Len(w)]
  BY ConcatProperties
<1>2. wh \o <<>> = wh
  BY <1>1, ConcatEmptySeq
<1> HIDE DEF wh
<1>a. wh \in Seq(S)
  BY <1>1
<1>3. /\ wh \o q \in Seq(S) /\ Len(wh \o q) = Len(wh) + Len(q)
      /\ \A i \in 1..(Len(wh) + Len(q)) :
            (wh \o q)[i] = IF i <= Len(wh) THEN wh[i] ELSE q[i - Len(wh)]
  BY <1>a, ConcatProperties
<1>4. Len(w) \in Nat /\ Len(q) \in Nat
  BY LenProperties
<1>5. (wh \o q)[Len(w) + 1] = h[1]
  BY <1>1, <1>3, <1>4
<1>6. h[1] \in S
  <2>1. 1 \in 1..Len(h)
    OBVIOUS
  <2> QED  BY <2>1, ElementOfSeq
<1> DEFINE a == Append(w, h[1])
<1>7. /\ a \in Seq(S) /\ Len(a) = Len(w) + 1
      /\ \A i \in 1..Len(w) : a[i] = w[i]
      /\ a[Len(w) + 1] = h[1]
  BY <1>6, AppendProperties
<1> HIDE DEF a
<1>8. \A i \in 1..Len(wh) : wh[i] = a[i]
  BY <1>1, <1>4, <1>7
<1>9. wh = a
  BY <1>1, <1>7, <1>8, SeqEqual
<1> QED  BY <1>1, <1>2, <1>3, <1>4, <1>5, <1>9 DEF wh, a

-----------------------------------------------------------------------------
(* The invariant holds initially. *)
LEMMA InitInv == Init => LoggerInv
<1> SUFFICES ASSUME Init PROVE LoggerInv
  OBVIOUS
<1>a. <<>> \in Seq(Messages) /\ Len(<<>>) = 0
  BY EmptySeq
<1>b. <<>> \o <<>> = <<>>
  BY <1>a, ConcatEmptySeq
<1>1. <<>> \in Seq(Messages) /\ Len(<<>>) = 0 /\ <<>> \o <<>> \o <<>> = <<>>
  BY <1>a, <1>b
<1>2. TypeOK
  <2>1. {queue, held, written, accepted} \subseteq Seq(Messages)
    BY <1>a DEF Init
  <2>2. due \in 0..Len(accepted) /\ Len(held) = (IF consumer = "writing" THEN 1 ELSE 0)
    BY <1>a DEF Init
  <2> QED  BY <2>1, <2>2 DEF Init, TypeOK
<1>3. HeldInOrder
  BY <1>1 DEF Init, HeldInOrder
<1>4. ControlInv
  BY DEF Init, ControlInv
<1> QED  BY <1>2, <1>3, <1>4 DEF LoggerInv

(* Every step keeps the invariant. *)
LEMMA StepInv == LoggerInv /\ [Next]_vars => LoggerInv'
<1> SUFFICES ASSUME LoggerInv, [Next]_vars PROVE LoggerInv'
  OBVIOUS
<1> USE LoggerAssumption DEF LoggerInv
<1>t. /\ queue \in Seq(Messages) /\ held \in Seq(Messages)
      /\ written \in Seq(Messages) /\ accepted \in Seq(Messages)
      /\ Len(accepted) \in Nat /\ Len(written) \in Nat
  BY LenProperties DEF TypeOK
<1>h. consumer # "writing" => held = <<>>
  BY <1>t, EmptySeq DEF TypeOK
<1>1. ASSUME NEW l \in Loggers, NEW m \in Messages, Log(l, m) PROVE LoggerInv'
  <2>1. /\ Append(queue, m) \in Seq(Messages) /\ Append(accepted, m) \in Seq(Messages)
        /\ Len(Append(accepted, m)) = Len(accepted) + 1
    BY <1>t, AppendProperties
  <2>2. TypeOK'
    BY <1>1, <1>t, <2>1 DEF Log, TypeOK, consumerVars, sinkVars
  <2>a. Append(written \o held \o queue, m) = written \o held \o Append(queue, m)
    BY <1>t, PushKeepsOrder
  <2>3. HeldInOrder'
    BY <1>1, <2>a DEF Log, HeldInOrder, consumerVars, sinkVars
  <2>4. ControlInv'
    BY <1>1 DEF Log, ControlInv, consumerVars, sinkVars
  <2> QED  BY <2>2, <2>3, <2>4
<1>2. CASE UNCHANGED <<queue, held, written, failed, accepted, due>>
           /\ (\/ \E l \in Loggers : Notify(l)
               \/ Sleep \/ SpuriousWakeup \/ Leave \/ Start \/ WakeForShutdown \/ Join)
  <2>1. HeldInOrder'
    BY <1>2 DEF HeldInOrder
  <2>2. ASSUME NEW l \in Loggers, Notify(l) PROVE TypeOK' /\ ControlInv'
    BY <1>2, <2>2 DEF TypeOK, ControlInv, Notify, WakeConsumer, sinkVars
  <2>3. CASE Sleep
    BY <1>2, <2>1, <2>3 DEF TypeOK, ControlInv, Sleep, sinkVars
  <2>4. CASE SpuriousWakeup
    BY <1>2, <2>1, <2>4 DEF TypeOK, ControlInv, SpuriousWakeup, sinkVars
  <2>5. CASE Leave
    <3>1. TypeOK'
      BY <1>2, <2>5 DEF TypeOK, Leave, sinkVars
    <3>2. ~failed => accepted = written
      BY <2>5, <1>t, <1>h, ConcatEmptySeq DEF HeldInOrder, Leave
    <3>3. ControlInv'
      BY <1>2, <1>t, <2>5, <3>2 DEF TypeOK, ControlInv, Leave, sinkVars
    <3> QED  BY <2>1, <3>1, <3>3
  <2>6. CASE Start
    BY <1>2, <2>1, <2>6 DEF TypeOK, ControlInv, Start, sinkVars
  <2>7. CASE WakeForShutdown
    BY <1>2, <2>1, <2>7 DEF TypeOK, ControlInv, WakeForShutdown, WakeConsumer, sinkVars
  <2>8. CASE Join
    BY <1>2, <2>1, <2>8 DEF TypeOK, ControlInv, Join, consumerVars, sinkVars
  <2> QED  BY <1>2, <2>1, <2>2, <2>3, <2>4, <2>5, <2>6, <2>7, <2>8
<1>3. CASE Take
  <2>1. /\ <<Head(queue)>> \in Seq(Messages) /\ Tail(queue) \in Seq(Messages)
        /\ written \o <<>> \o queue = written \o <<Head(queue)>> \o Tail(queue)
    BY <1>3, <1>t, TakeKeepsOrder DEF Take
  <2>2. TypeOK'
    BY <1>3, <2>1 DEF Take, TypeOK, sinkVars
  <2>3. HeldInOrder'
    BY <1>3, <1>h, <2>1 DEF Take, HeldInOrder, sinkVars
  <2>4. ControlInv'
    BY <1>3 DEF Take, ControlInv, sinkVars
  <2> QED  BY <2>2, <2>3, <2>4
<1>4. CASE Write
  <2>1. /\ written \o held \in Seq(Messages)
        /\ written \o held \o queue = written \o held \o <<>> \o queue
    BY <1>4, <1>t, WriteIsNext DEF Write, TypeOK
  <2>2. written' \in Seq(Messages) /\ failed' \in BOOLEAN /\ held' = <<>>
    BY <1>4, <1>t, <2>1 DEF Write, TypeOK
  <2>3. TypeOK'
    BY <1>4, <2>2, EmptySeq DEF Write, TypeOK
  <2>4. HeldInOrder'
    <3>1. CASE failed'
      BY <3>1 DEF HeldInOrder
    <3>2. CASE ~failed'
      <4>1. /\ ~failed /\ written' = written \o held
            /\ held' = <<>> /\ queue' = queue /\ accepted' = accepted
        BY <1>4, <3>2, <1>t DEF Write, TypeOK
      <4>2. accepted' = written' \o held' \o queue'
        BY <1>h, <2>1, <4>1 DEF HeldInOrder
      <4> QED  BY <4>2 DEF HeldInOrder
    <3> QED  BY <3>1, <3>2
  <2>5. ControlInv'
    BY <1>4 DEF Write, ControlInv
  <2> QED  BY <2>3, <2>4, <2>5
<1>5. CASE BeginShutdown
  <2>1. TypeOK'
    BY <1>5, <1>t DEF BeginShutdown, TypeOK, consumerVars, sinkVars
  <2>2. HeldInOrder'
    BY <1>5 DEF BeginShutdown, HeldInOrder, consumerVars, sinkVars
  <2>3. ControlInv'
    BY <1>5 DEF BeginShutdown, ControlInv, consumerVars, sinkVars
  <2> QED  BY <2>1, <2>2, <2>3
<1>6. CASE UNCHANGED vars
  BY <1>6 DEF vars, consumerVars, sinkVars, TypeOK, HeldInOrder, ControlInv
<1>7. /\ \A l \in Loggers : Notify(l) => UNCHANGED <<queue, held, written, failed, accepted, due>>
      /\ Sleep \/ SpuriousWakeup \/ Leave \/ Start \/ WakeForShutdown \/ Join
            => UNCHANGED <<queue, held, written, failed, accepted, due>>
  BY DEF Notify, Sleep, SpuriousWakeup, Leave, Start, WakeForShutdown, Join,
         consumerVars, sinkVars
<1> QED  BY <1>1, <1>2, <1>3, <1>4, <1>5, <1>6, <1>7 DEF Next, ConsumerStep, OwnerStep

(* The strengthened invariant of the logger. *)
THEOREM LoggerInvariant == Spec => []LoggerInv
BY InitInv, StepInv, PTL DEF Spec

(* The logger is well typed in every reachable state. *)
THEOREM LoggerTypeCorrect == Spec => []TypeOK
<1>1. LoggerInv => TypeOK
  BY DEF LoggerInv
<1> QED  BY <1>1, LoggerInvariant, PTL

(* Every message pushed is written, held or queued, in the order of the    *)
(* pushes.                                                                 *)
THEOREM MessagesHeldInOrder == Spec => []HeldInOrder
<1>1. LoggerInv => HeldInOrder
  BY DEF LoggerInv
<1> QED  BY <1>1, LoggerInvariant, PTL

(* A shutdown that has returned has flushed what was logged before it. *)
THEOREM ShutdownFlushes == Spec => []FlushedOnReturn
<1>1. LoggerInv => FlushedOnReturn
  BY DEF LoggerInv, ControlInv, FlushedOnReturn
<1> QED  BY <1>1, LoggerInvariant, PTL

-----------------------------------------------------------------------------
(* A sleeping consumer is about to be told of every message, and of m_done. *)
THEOREM ConsumerWoken == Spec => []NoLostWakeup
<1>1. Init => NoLostWakeup
  BY DEF Init, NoLostWakeup
<1>2. NoLostWakeup /\ [Next]_vars => NoLostWakeup'
  <2> SUFFICES ASSUME NoLostWakeup, [Next]_vars PROVE NoLostWakeup'
    OBVIOUS
  <2>1. CASE UNCHANGED vars
    BY <2>1 DEF NoLostWakeup, vars, consumerVars
  <2>2. ASSUME NEW l \in Loggers, NEW m \in Messages, Log(l, m) PROVE NoLostWakeup'
    BY <2>2 DEF NoLostWakeup, Log, consumerVars
  <2>3. ASSUME NEW l \in Loggers, Notify(l) PROVE NoLostWakeup'
    BY <2>3 DEF NoLostWakeup, Notify, WakeConsumer
  <2>4. CASE ConsumerStep
    BY <2>4 DEF NoLostWakeup, ConsumerStep, Sleep, Take, Leave, Write
  <2>5. CASE SpuriousWakeup \/ Start
    BY <2>5 DEF NoLostWakeup, SpuriousWakeup, Start
  <2>6. CASE BeginShutdown
    BY <2>6 DEF NoLostWakeup, BeginShutdown, consumerVars
  <2>7. CASE WakeForShutdown
    BY <2>7 DEF NoLostWakeup, WakeForShutdown, WakeConsumer
  <2>8. CASE Join
    BY <2>8 DEF NoLostWakeup, Join, consumerVars
  <2> QED  BY <2>1, <2>2, <2>3, <2>4, <2>5, <2>6, <2>7, <2>8 DEF Next, OwnerStep
<1> QED  BY <1>1, <1>2, PTL DEF Spec

(* Nothing is written, and the consumer does not move, once shutdown has   *)
(* returned.                                                               *)
THEOREM NothingWrittenLate == Spec => SilentAfterReturn
<1> DEFINE Silent == owner = "returned" => UNCHANGED <<written, failed, consumer>>
<1>1. LoggerInv /\ [Next]_vars => [Silent]_vars
  <2> SUFFICES ASSUME LoggerInv, [Next]_vars, owner = "returned"
               PROVE  UNCHANGED <<written, failed, consumer>>
    OBVIOUS
  <2>1. consumer \in {"unstarted", "left"}
    BY DEF LoggerInv, ControlInv
  <2>2. CASE UNCHANGED vars
    BY <2>2 DEF vars, consumerVars, sinkVars
  <2>3. ASSUME NEW l \in Loggers, NEW m \in Messages, Log(l, m)
        PROVE  UNCHANGED <<written, failed, consumer>>
    BY <2>3 DEF Log, consumerVars, sinkVars
  <2>4. ASSUME NEW l \in Loggers, Notify(l) PROVE UNCHANGED <<written, failed, consumer>>
    BY <2>1, <2>4 DEF Notify, WakeConsumer, sinkVars
  <2>5. CASE ConsumerStep \/ SpuriousWakeup
    BY <2>1, <2>5 DEF ConsumerStep, Sleep, Take, Leave, Write, SpuriousWakeup
  <2>6. CASE Start \/ BeginShutdown \/ OwnerStep
    BY <2>1, <2>6 DEF Start, BeginShutdown, OwnerStep, WakeForShutdown, Join,
                      consumerVars, sinkVars
  <2> QED  BY <2>2, <2>3, <2>4, <2>5, <2>6 DEF Next
<1> QED  BY <1>1, LoggerInvariant, PTL DEF Spec, SilentAfterReturn

-----------------------------------------------------------------------------
(* AsyncLogger implements LogService: pushes are Accept, a write is Deliver *)
(* or Break, and the rest opens or closes the service or is invisible.     *)
THEOREM LoggerImplementsService == Spec => ImplementsLogService
<1> DEFINE svars == <<accepted, written, due,
                      IF owner = "constructed" THEN "new"
                      ELSE IF owner = "running" THEN "open"
                      ELSE IF consumer \in {"unstarted", "left"} THEN "closed" ELSE "closing",
                      failed>>
<1>1. Init => Service!Init
  BY DEF Init, Service!Init
<1>2. LoggerInv /\ [Next]_vars => [Service!Next]_svars
  <2> SUFFICES ASSUME LoggerInv, [Next]_vars PROVE [Service!Next]_svars
    OBVIOUS
  <2> USE DEF LoggerInv
  <2>1. CASE UNCHANGED vars
    BY <2>1 DEF vars, consumerVars, sinkVars
  <2>2. ASSUME NEW l \in Loggers, NEW m \in Messages, Log(l, m) PROVE Service!Accept(m)
    BY <2>2 DEF Log, consumerVars, sinkVars, Service!Accept
  <2>3. ASSUME NEW l \in Loggers, Notify(l) PROVE UNCHANGED svars
    BY <2>3 DEF Notify, WakeConsumer, sinkVars
  <2>4. CASE Sleep \/ SpuriousWakeup \/ Take
    BY <2>4 DEF Sleep, SpuriousWakeup, Take, sinkVars
  <2>5. CASE Leave
    <3>1. owner \in {"closing", "joining"}
      BY <2>5 DEF Leave, TypeOK, ControlInv
    <3>2. held = <<>> /\ queue = <<>>
      BY <2>5, EmptySeq DEF Leave, TypeOK
    <3>3. ~failed => accepted = written
      BY <3>2, ConcatEmptySeq DEF HeldInOrder, TypeOK
    <3>4. ~failed => Len(written) >= due
      BY <3>3, LenProperties DEF TypeOK
    <3>5. Service!Finish
      BY <2>5, <3>1, <3>4 DEF Leave, sinkVars, Service!Finish, TypeOK
    <3> QED  BY <3>5 DEF Service!Next
  <2>6. CASE Write
    <3>1. owner \in {"running", "closing", "joining"}
      BY <2>6 DEF Write, TypeOK, ControlInv
    <3>2. CASE failed' = TRUE /\ ~failed
      <4>1. Service!Break
        BY <2>6, <3>1, <3>2 DEF Write, Service!Break
      <4> QED  BY <4>1 DEF Service!Next
    <3>3. CASE failed
      BY <2>6, <3>1, <3>3 DEF Write, TypeOK
    <3>4. CASE ~failed /\ ~failed'
      <4>1. written' = written \o held
        BY <2>6, <3>4 DEF Write
      <4>2. /\ Len(written) < Len(accepted)
            /\ written \o held = Append(written, accepted[Len(written) + 1])
        <5>1. /\ written \in Seq(Messages) /\ held \in Seq(Messages)
              /\ queue \in Seq(Messages) /\ Len(held) = 1
          BY <2>6 DEF Write, TypeOK
        <5>2. accepted = written \o held \o queue
          BY <2>6, <3>4 DEF Write, TypeOK, HeldInOrder
        <5> QED  BY <5>1, <5>2, WriteIsNext
      <4>3. Service!Deliver
        BY <2>6, <3>1, <3>4, <4>1, <4>2 DEF Write, Service!Deliver
      <4> QED  BY <4>3 DEF Service!Next
    <3> QED  BY <2>6, <3>2, <3>3, <3>4 DEF Write
  <2>7. CASE Start
    <3>1. Service!Open
      BY <2>7 DEF Start, sinkVars, Service!Open
    <3> QED  BY <3>1 DEF Service!Next
  <2>8. CASE BeginShutdown
    <3>1. CASE owner = "constructed"
      <4>1. ~done /\ consumer = "unstarted"
        BY <3>1 DEF ControlInv
      <4>2. Service!Discard
        BY <2>8, <3>1, <4>1 DEF BeginShutdown, consumerVars, sinkVars, Service!Discard
      <4> QED  BY <4>2 DEF Service!Next
    <3>2. CASE owner = "running"
      <4>1. ~done /\ consumer \notin {"unstarted", "left"}
        BY <3>2 DEF ControlInv
      <4>2. Service!Close
        BY <2>8, <3>2, <4>1 DEF BeginShutdown, consumerVars, sinkVars, Service!Close
      <4> QED  BY <4>2 DEF Service!Next
    <3>3. CASE owner = "returned"
      <4>1. done /\ consumer \in {"unstarted", "left"}
        BY <3>3 DEF ControlInv
      <4> QED  BY <2>8, <3>3, <4>1 DEF BeginShutdown, consumerVars, sinkVars
    <3> QED  BY <2>8, <3>1, <3>2, <3>3 DEF BeginShutdown
  <2>9. CASE WakeForShutdown
    BY <2>9 DEF WakeForShutdown, WakeConsumer, sinkVars
  <2>10. CASE Join
    BY <2>10 DEF Join, consumerVars, sinkVars
  <2>11. ASSUME NEW l \in Loggers, NEW m \in Messages, Log(l, m) PROVE Service!Next
    BY <2>2, <2>11 DEF Service!Next
  <2> QED  BY <2>1, <2>3, <2>4, <2>5, <2>6, <2>7, <2>8, <2>9, <2>10, <2>11
              DEF Next, ConsumerStep, OwnerStep
<1> QED  BY <1>1, <1>2, LoggerInvariant, PTL DEF Spec, ImplementsLogService, Service!Spec
==============================================================================
