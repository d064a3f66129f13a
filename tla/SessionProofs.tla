--------------------------- MODULE SessionProofs ----------------------------
(***************************************************************************)
(* Proofs about the sessions of HttpServer: what is in progress for a      *)
(* connection, for any number of connections, threads and requests.        *)
(***************************************************************************)
EXTENDS HttpServerProofs

-----------------------------------------------------------------------------
(* Where the one operation of a connection can be: with the reactor, on    *)
(* the strand, posted to the io_context, or with the pool.                 *)
Operations(c) == ops[c] \ {"timer"}

(* At most one handler of the strand is about the operation. *)
StrandOne(c) ==
    \A i, j \in DOMAIN strand[c] :
        strand[c][i] \notin {"timeout", "close"} =>
            (strand[c][j] \notin {"timeout", "close"} => i = j)

Nowhere(c) == Operations(c) = {} /\ Current(c) = {} /\ Answers(c) = {} /\ c \notin outstanding

OnePlace(c) ==
    /\ StrandOne(c)
    /\ \A op, other \in Operations(c) : op = other
    /\ \A k, l \in Answers(c) : k = l
    /\ Operations(c) # {} => Current(c) = {} /\ Answers(c) = {} /\ c \notin outstanding
    /\ Current(c) # {} => Answers(c) = {} /\ c \notin outstanding
    /\ Answers(c) # {} => c \notin outstanding

(* What the operation means: the session in service has one, the timer     *)
(* runs with a read, and doRead is posted once, before any request.        *)
SessionInv(c) ==
    /\ OnePlace(c)
    /\ conn[c] # "started" => Nowhere(c) /\ requestCount[c] = 0
    /\ conn[c] = "started" /\ Nowhere(c) => ended[c]
    /\ closed[c] => ended[c]
    /\ "timer" \in ops[c] =>
            "read" \in ops[c] \/ Current(c) \cap (RequestKinds \cup {"readError"}) # {}
    /\ "doRead" \in Current(c) => requestCount[c] = 0

SessionsInv == \A c \in Conns : SessionInv(c)

-----------------------------------------------------------------------------
(* A handler posted is added to what is current, if it is about the        *)
(* operation.                                                              *)
LEMMA PostCurrent ==
    ASSUME TypeOK, NEW c \in Conns, NEW h \in Handlers, Post(c, h)
    PROVE  /\ h \in {"timeout", "close"} =>
                Current(c)' = Current(c) /\ (StrandOne(c) => StrandOne(c)')
           /\ h \notin {"timeout", "close"} =>
                Current(c)' = Current(c) \cup {h} /\ (Current(c) = {} => StrandOne(c)')
           /\ \A d \in Conns \ {c} : strand'[d] = strand[d]
<1> DEFINE s == strand[c]
<1>1. /\ s \in Seq(Handlers) /\ strand'[c] = Append(s, h)
      /\ \A d \in Conns \ {c} : strand'[d] = strand[d]
  BY DEF TypeOK, SessionTypeOK, Post
<1>2. /\ Len(s) \in Nat /\ DOMAIN s = 1..Len(s)
      /\ DOMAIN strand'[c] = 1..(Len(s) + 1)
      /\ \A i \in 1..Len(s) : strand'[c][i] = s[i]
      /\ strand'[c][Len(s) + 1] = h
  BY <1>1, AppendProperties
<1>3. {strand'[c][i] : i \in DOMAIN strand'[c]} = {s[i] : i \in DOMAIN s} \cup {h}
  <2>1. 1..(Len(s) + 1) = (1..Len(s)) \cup {Len(s) + 1}
    BY <1>2
  <2> HIDE DEF s
  <2> QED  BY <1>2, <2>1
<1>4. h \in {"timeout", "close"} => Current(c)' = Current(c)
  BY <1>3 DEF Current
<1>5. h \notin {"timeout", "close"} => Current(c)' = Current(c) \cup {h}
  BY <1>3 DEF Current
<1>6. h \in {"timeout", "close"} /\ StrandOne(c) => StrandOne(c)'
  BY <1>2 DEF StrandOne
<1>7. Current(c) = {} => \A i \in 1..Len(s) : s[i] \in {"timeout", "close"}
  BY <1>2 DEF Current
<1>8. Current(c) = {} => StrandOne(c)'
  BY <1>2, <1>7 DEF StrandOne
<1> QED  BY <1>1, <1>4, <1>5, <1>6, <1>8

(* What a strand takes up is a handler. *)
LEMMA RunsHandler ==
    ASSUME TypeOK, NEW c \in Conns, NEW h, Runs(c, h)
    PROVE  h \in Handlers
<1>1. strand[c] \in Seq(Handlers) /\ strand[c] # <<>> /\ Head(strand[c]) = h
  BY DEF TypeOK, SessionTypeOK, Runs
<1> QED  BY <1>1, HeadTailProperties

(* A handler taken up is no longer current, and if it is about the         *)
(* operation it was the only one.                                          *)
LEMMA RunsCurrent ==
    ASSUME TypeOK, NEW c \in Conns, NEW h, Runs(c, h), StrandOne(c)
    PROVE  /\ StrandOne(c)'
           /\ h \in {"timeout", "close"} => Current(c)' = Current(c)
           /\ h \notin {"timeout", "close"} => Current(c) = {h} /\ Current(c)' = {}
           /\ \A d \in Conns \ {c} : strand'[d] = strand[d]
<1> DEFINE s == strand[c]
<1>1. /\ s \in Seq(Handlers) /\ s # <<>> /\ Head(s) = h /\ strand'[c] = Tail(s)
      /\ \A d \in Conns \ {c} : strand'[d] = strand[d]
  BY DEF TypeOK, SessionTypeOK, Runs
<1>2. /\ Len(s) \in Nat \ {0} /\ DOMAIN s = 1..Len(s) /\ s[1] = h
      /\ DOMAIN strand'[c] = 1..(Len(s) - 1)
      /\ \A i \in 1..(Len(s) - 1) : strand'[c][i] = s[i + 1]
  BY <1>1
<1>s. \A i \in 1..(Len(s) - 1) : i + 1 \in DOMAIN s
  BY <1>2
<1>3. StrandOne(c)'
  <2>1. SUFFICES ASSUME NEW i \in 1..(Len(s) - 1), NEW j \in 1..(Len(s) - 1),
                        strand'[c][i] \notin {"timeout", "close"},
                        strand'[c][j] \notin {"timeout", "close"}
                 PROVE  i = j
    BY <1>2 DEF StrandOne
  <2>2. i + 1 = j + 1
    BY <1>2, <1>s, <2>1 DEF StrandOne
  <2> QED  BY <2>2
<1> DEFINE before == {s[i] : i \in DOMAIN s}
           after == {strand'[c][i] : i \in DOMAIN strand'[c]}
<1>4. before = after \cup {h}
  <2>1. ASSUME NEW i \in DOMAIN s, i # 1
        PROVE  s[i] \in after
    <3>1. i - 1 \in 1..(Len(s) - 1) /\ (i - 1) + 1 = i
      BY <1>2, <2>1
    <3>2. strand'[c][i - 1] = s[i]
      BY <1>2, <3>1
    <3> QED  BY <1>2, <3>1, <3>2
  <2>2. ASSUME NEW j \in DOMAIN strand'[c]
        PROVE  strand'[c][j] \in before
    BY <1>2, <1>s
  <2>3. h \in before
    BY <1>2
  <2>4. before \subseteq after \cup {h}
    <3>1. SUFFICES ASSUME NEW i \in DOMAIN s PROVE s[i] \in after \cup {h}
      OBVIOUS
    <3>2. CASE i = 1
      BY <1>2, <3>2
    <3>3. CASE i # 1
      BY <2>1, <3>3
    <3> QED  BY <3>2, <3>3
  <2>5. after \subseteq before
    BY <2>2
  <2> HIDE DEF before, after
  <2> QED  BY <2>3, <2>4, <2>5
<1>5. h \in {"timeout", "close"} => Current(c)' = Current(c)
  BY <1>4 DEF Current
<1>6. ASSUME h \notin {"timeout", "close"}
      PROVE  Current(c) = {h} /\ Current(c)' = {}
  <2>1. \A i \in 1..Len(s) : i # 1 => s[i] \in {"timeout", "close"}
    BY <1>2, <1>6 DEF StrandOne
  <2>2. \A i \in 1..(Len(s) - 1) : strand'[c][i] \in {"timeout", "close"}
    BY <1>2, <2>1
  <2>3. Current(c)' = {}
    BY <1>2, <2>2 DEF Current
  <2>4. Current(c) = Current(c)' \cup {h}
    BY <1>4, <1>6 DEF Current
  <2> QED  BY <2>3, <2>4
<1> QED  BY <1>1, <1>3, <1>5, <1>6

-----------------------------------------------------------------------------
(* What a step may do to a connection without disturbing its operation.    *)
Kept(c) ==
    /\ Current(c)' = Current(c) /\ (StrandOne(c) => StrandOne(c)')
    /\ ops'[c] \in {ops[c], ops[c] \ {"timer"}}
    /\ requestCount'[c] = requestCount[c]
    /\ (ended[c] => ended'[c]) /\ (closed'[c] => ended'[c])
    /\ (conn'[c] = "started") = (conn[c] = "started")
    /\ \A keep \in BOOLEAN : (<<c, keep>> \in posted') = (<<c, keep>> \in posted)
    /\ (c \in outstanding') = (c \in outstanding)

Untouched(c) ==
    /\ ops'[c] = ops[c] /\ strand'[c] = strand[c]
    /\ closed'[c] = closed[c] /\ ended'[c] = ended[c]
    /\ requestCount'[c] = requestCount[c]
    /\ (conn'[c] = "started") = (conn[c] = "started")
    /\ \A keep \in BOOLEAN : (<<c, keep>> \in posted') = (<<c, keep>> \in posted)
    /\ (c \in outstanding') = (c \in outstanding)

(* Such a step keeps the invariant of the connection. *)
LEMMA KeptInv ==
    ASSUME NEW c \in Conns, SessionInv(c), Kept(c)
    PROVE  SessionInv(c)'
<1>1. Operations(c)' = Operations(c) /\ Answers(c)' = Answers(c)
  BY DEF Kept, Operations, Answers
<1>2. OnePlace(c)'
  BY <1>1 DEF Kept, SessionInv, OnePlace
<1>3. Nowhere(c)' = Nowhere(c)
  BY <1>1 DEF Kept, Nowhere
<1>4. "timer" \in ops'[c] =>
        "read" \in ops'[c] \/ Current(c)' \cap (RequestKinds \cup {"readError"}) # {}
  BY DEF Kept, SessionInv
<1> QED  BY <1>2, <1>3, <1>4 DEF Kept, SessionInv

(* So does a step of another connection. *)
LEMMA UntouchedInv ==
    ASSUME NEW c \in Conns, SessionInv(c), Untouched(c)
    PROVE  SessionInv(c)'
<1>1. Current(c)' = Current(c) /\ StrandOne(c)' = StrandOne(c)
  BY DEF Untouched, Current, StrandOne
<1>2. Kept(c)
  BY <1>1 DEF Untouched, Kept, SessionInv
<1> QED  BY <1>2, KeptInv

(* A step of one connection. *)
LEMMA ConnStep ==
    ASSUME SessionsInv, NEW c \in Conns, SessionInv(c)', \A d \in Conns \ {c} : Untouched(d)
    PROVE  SessionsInv'
<1>1. ASSUME NEW d \in Conns
      PROVE  SessionInv(d)'
  <2>1. CASE d = c
    BY <2>1
  <2>2. CASE d # c
    BY <2>2, UntouchedInv DEF SessionsInv
  <2> QED  BY <2>1, <2>2
<1> QED  BY <1>1 DEF SessionsInv

-----------------------------------------------------------------------------
(* A handler about the operation finds nothing else in progress, but for   *)
(* the timer if it is the end of a read.                                   *)
LEMMA HandlerFinds ==
    ASSUME TypeOK, NEW c \in Conns, SessionInv(c),
           NEW h \in Handlers \ {"timeout", "close"}, Runs(c, h)
    PROVE  /\ Current(c) = {h} /\ Current(c)' = {} /\ StrandOne(c)'
           /\ \A d \in Conns \ {c} : strand'[d] = strand[d]
           /\ Answers(c) = {} /\ c \notin outstanding
           /\ conn[c] = "started"
           /\ ops[c] \subseteq {"timer"}
           /\ h \notin RequestKinds \cup {"readError"} => ops[c] = {}
           /\ closed[c] => ended[c]
<1>1. /\ StrandOne(c)' /\ Current(c) = {h} /\ Current(c)' = {}
      /\ \A d \in Conns \ {c} : strand'[d] = strand[d]
  BY RunsCurrent DEF SessionInv, OnePlace
<1>2. Operations(c) = {} /\ Answers(c) = {} /\ c \notin outstanding
  BY <1>1 DEF SessionInv, OnePlace
<1>3. conn[c] = "started"
  BY <1>1 DEF SessionInv, Nowhere
<1>4. ops[c] \subseteq {"timer"}
  BY <1>2 DEF Operations
<1>5. h \notin RequestKinds \cup {"readError"} => ops[c] = {}
  BY <1>1, <1>4 DEF SessionInv
<1> QED  BY <1>1, <1>2, <1>3, <1>4, <1>5 DEF SessionInv

(* Where a handler about the operation may leave the connection. *)
Left(c) == ops'[c] = {} /\ Answers(c)' = {} /\ c \notin outstanding' /\ ended'[c]
Writing(c) == ops'[c] = {"write"} /\ Answers(c)' = {} /\ c \notin outstanding'
Reading(c) == ops'[c] = {"timer", "read"} /\ Answers(c)' = {} /\ c \notin outstanding'
Deciding(c) == ops'[c] = {"again"} /\ Answers(c)' = {} /\ c \notin outstanding'
Computing(c) == ops'[c] = {} /\ Answers(c)' = {} /\ c \in outstanding'
Answering(c) == ops'[c] = {} /\ (\E k \in BOOLEAN : Answers(c)' = {k}) /\ c \notin outstanding'

(* Each of them keeps the invariant of the connection. *)
LEMMA HandlerLeaves ==
    ASSUME NEW c \in Conns, Current(c)' = {}, StrandOne(c)',
           conn'[c] = "started", closed'[c] => ended'[c],
           Left(c) \/ Writing(c) \/ Reading(c) \/ Deciding(c) \/ Computing(c) \/ Answering(c)
    PROVE  SessionInv(c)'
<1>1. CASE Left(c)
  BY <1>1 DEF Left, SessionInv, OnePlace, Nowhere, Operations
<1>2. CASE Writing(c)
  BY <1>2 DEF Writing, SessionInv, OnePlace, Nowhere, Operations
<1>3. CASE Reading(c)
  BY <1>3 DEF Reading, SessionInv, OnePlace, Nowhere, Operations
<1>4. CASE Computing(c)
  BY <1>4 DEF Computing, SessionInv, OnePlace, Nowhere, Operations
<1>5. CASE Answering(c)
  BY <1>5 DEF Answering, SessionInv, OnePlace, Nowhere, Operations
<1>6. CASE Deciding(c)
  BY <1>6 DEF Deciding, SessionInv, OnePlace, Nowhere, Operations
<1> QED  BY <1>1, <1>2, <1>3, <1>4, <1>5, <1>6

-----------------------------------------------------------------------------
(* The handlers of a session. *)
LEMMA EndSessionFlags ==
    ASSUME TypeOK, NEW c \in Conns, EndSession(c)
    PROVE  ended'[c] /\ \A d \in Conns \ {c} : ended'[d] = ended[d]
<1>1. CASE ended[c]
  BY <1>1 DEF EndSession
<1>2. CASE ~ended[c]
  BY <1>2 DEF EndSession, TypeOK, SessionTypeOK
<1> QED  BY <1>1, <1>2

(* A response is written, unless the socket is closed. *)
LEMMA WriteLeaves ==
    ASSUME TypeOK, NEW c \in Conns, NEW keep \in BOOLEAN, Write(c, keep, {}),
           Answers(c)' = {}, c \notin outstanding', closed[c] => ended'[c]
    PROVE  /\ Left(c) \/ Writing(c)
           /\ \A d \in Conns \ {c} : ops'[d] = ops[d]
<1>1. CASE closed[c]
  BY <1>1 DEF Write, Left, TypeOK, SessionTypeOK
<1>2. CASE ~closed[c]
  BY <1>2 DEF Write, Writing, TypeOK, SessionTypeOK
<1> QED  BY <1>1, <1>2

(* A read begins, unless the socket is closed. *)
LEMMA DoReadLeaves ==
    ASSUME TypeOK, NEW c \in Conns, DoRead(c), ops[c] \subseteq {"again"},
           Answers(c)' = {}, c \notin outstanding', closed[c] => ended'[c]
    PROVE  /\ Left(c) \/ Reading(c)
           /\ \A d \in Conns \ {c} : ops'[d] = ops[d]
<1>1. CASE closed[c]
  BY <1>1 DEF DoRead, Left, TypeOK, SessionTypeOK
<1>2. CASE ~closed[c]
  BY <1>2 DEF DoRead, Reading, TypeOK, SessionTypeOK
<1> QED  BY <1>1, <1>2

(* The handlers that concern the session alone: doRead, 413, a response.   *)
LEMMA LocalStep ==
    ASSUME TypeOK, SessionsInv, NEW c \in Conns, LocalHandler(c)
    PROVE  SessionsInv'
<1>1. /\ SessionInv(c)
      /\ UNCHANGED <<closed, ended, requestCount, conn, posted, outstanding>>
  BY DEF SessionsInv, LocalHandler, RunDoRead, OnReadTooLarge, RunSend, acceptVars, poolVars
<1>2. PICK h \in Handlers \ {"timeout", "close"} :
        /\ Runs(c, h)
        /\ \/ h = "doRead" /\ DoRead(c)
           \/ h = "tooLarge" /\ Write(c, FALSE, CancelTimer(c))
           \/ h = "sendKeepAlive" /\ Write(c, TRUE, ops[c])
           \/ h = "sendClose" /\ Write(c, FALSE, ops[c])
  <2>1. CASE RunDoRead(c)
    BY <2>1, HandlersFacts DEF RunDoRead
  <2>2. CASE OnReadTooLarge(c)
    <3>1. "tooLarge" \in Handlers
      BY <2>2, RunsHandler DEF OnReadTooLarge
    <3> QED  BY <2>2, <3>1 DEF OnReadTooLarge
  <2>3. CASE RunSend(c)
    BY <2>3, HandlersFacts DEF RunSend
  <2> QED  BY <2>1, <2>2, <2>3 DEF LocalHandler
<1>3. /\ Current(c) = {h} /\ Current(c)' = {} /\ StrandOne(c)'
      /\ \A d \in Conns \ {c} : strand'[d] = strand[d]
      /\ Answers(c)' = {} /\ c \notin outstanding'
      /\ conn'[c] = "started" /\ ops[c] \subseteq {"timer"}
      /\ h \notin RequestKinds \cup {"readError"} => ops[c] = {}
      /\ closed[c] => ended'[c]
  BY <1>1, <1>2, HandlerFinds DEF Answers
<1>4. /\ Left(c) \/ Writing(c) \/ Reading(c)
      /\ \A d \in Conns \ {c} : ops'[d] = ops[d]
  <2>1. CASE h = "doRead"
    BY <1>2, <1>3, <2>1, DoReadLeaves, SessionAssumption
  <2>2. CASE h # "doRead"
    <3>1. PICK keep \in BOOLEAN : Write(c, keep, {})
      BY <1>2, <1>3, <2>2, SessionAssumption DEF CancelTimer
    <3> QED  BY <1>3, <3>1, WriteLeaves
  <2> QED  BY <2>1, <2>2
<1>5. SessionInv(c)'
  BY <1>1, <1>3, <1>4, HandlerLeaves
<1>6. \A d \in Conns \ {c} : Untouched(d)
  BY <1>1, <1>3, <1>4 DEF Untouched
<1> QED  BY <1>5, <1>6, ConnStep

(* onRead: a failed read ends the session, a request is answered at once,  *)
(* given to the pool, or refused by it.                                    *)
LEMMA ReadErrorStep ==
    ASSUME TypeOK, SessionsInv, NEW c \in Conns, OnReadError(c)
    PROVE  SessionsInv'
<1>1. /\ SessionInv(c)
      /\ Runs(c, "readError") /\ "readError" \in Handlers \ {"timeout", "close"}
      /\ UNCHANGED <<closed, requestCount, conn, posted, outstanding>>
  BY HandlersFacts DEF SessionsInv, OnReadError, acceptVars, poolVars
<1>2. /\ Current(c)' = {} /\ StrandOne(c)'
      /\ \A d \in Conns \ {c} : strand'[d] = strand[d]
      /\ Answers(c)' = {} /\ c \notin outstanding'
      /\ conn'[c] = "started" /\ ops[c] \subseteq {"timer"}
  BY <1>1, HandlerFinds DEF Answers
<1>3. ended'[c] /\ \A d \in Conns \ {c} : ended'[d] = ended[d]
  BY EndSessionFlags DEF OnReadError
<1>4. ops'[c] = {} /\ \A d \in Conns \ {c} : ops'[d] = ops[d]
  BY <1>2 DEF OnReadError, CancelTimer, TypeOK, SessionTypeOK
<1>5. SessionInv(c)'
  BY <1>2, <1>3, <1>4, HandlerLeaves DEF Left
<1>6. \A d \in Conns \ {c} : Untouched(d)
  BY <1>1, <1>2, <1>3, <1>4 DEF Untouched
<1> QED  BY <1>5, <1>6, ConnStep

(* A request that is answered at once. *)
LEMMA FastStep ==
    ASSUME TypeOK, SessionsInv, NEW c \in Conns, OnFastRequest(c)
    PROVE  SessionsInv'
<1>1. /\ SessionInv(c)
      /\ Runs(c, "fast") /\ "fast" \in Handlers \ {"timeout", "close"}
      /\ UNCHANGED <<closed, ended, conn, posted, outstanding>>
  BY RunsHandler DEF SessionsInv, OnFastRequest, OnRequest, acceptVars, poolVars
<1>2. /\ Current(c)' = {} /\ StrandOne(c)'
      /\ \A d \in Conns \ {c} : strand'[d] = strand[d]
      /\ Answers(c)' = {} /\ c \notin outstanding'
      /\ conn'[c] = "started" /\ ops[c] \subseteq {"timer"} /\ (closed[c] => ended'[c])
  BY <1>1, HandlerFinds DEF Answers
<1>3. \A d \in Conns \ {c} : requestCount'[d] = requestCount[d]
  BY DEF OnFastRequest, OnRequest, TypeOK, SessionTypeOK
<1>4. PICK keep \in BOOLEAN : Write(c, keep, {})
  BY <1>2, SessionAssumption DEF OnFastRequest, KeepAliveAnswers, CancelTimer
<1>5. (Left(c) \/ Writing(c)) /\ \A d \in Conns \ {c} : ops'[d] = ops[d]
  BY <1>2, <1>4, WriteLeaves
<1>6. SessionInv(c)'
  BY <1>1, <1>2, <1>5, HandlerLeaves
<1>7. \A d \in Conns \ {c} : Untouched(d)
  BY <1>1, <1>2, <1>3, <1>5 DEF Untouched
<1> QED  BY <1>6, <1>7, ConnStep

(* A request that goes to the pool, or is refused by it. *)
LEMMA ComputeStep ==
    ASSUME TypeOK, SessionsInv, NEW c \in Conns, OnComputeRequest(c)
    PROVE  SessionsInv'
<1>1. /\ SessionInv(c)
      /\ Runs(c, "compute") /\ "compute" \in Handlers \ {"timeout", "close"}
      /\ UNCHANGED <<closed, ended, conn>>
  BY RunsHandler DEF SessionsInv, OnComputeRequest, OnRequest, acceptVars
<1>2. /\ Current(c)' = {} /\ StrandOne(c)'
      /\ \A d \in Conns \ {c} : strand'[d] = strand[d]
      /\ Answers(c) = {} /\ c \notin outstanding
      /\ conn'[c] = "started" /\ ops[c] \subseteq {"timer"} /\ (closed[c] => ended'[c])
  BY <1>1, HandlerFinds
<1>3. \A d \in Conns \ {c} : requestCount'[d] = requestCount[d]
  BY DEF OnComputeRequest, OnRequest, TypeOK, SessionTypeOK
<1>4. ops'[c] = {} /\ \A d \in Conns \ {c} : ops'[d] = ops[d]
  BY <1>2 DEF OnComputeRequest, CancelTimer, TypeOK, SessionTypeOK
<1>5. /\ Computing(c) \/ Answering(c)
      /\ \A d \in Conns \ {c} :
            /\ \A keep \in BOOLEAN : (<<d, keep>> \in posted') = (<<d, keep>> \in posted)
            /\ (d \in outstanding') = (d \in outstanding)
  <2>1. CASE Pool!Accept(c) /\ UNCHANGED posted
    <3>1. Answers(c)' = {} /\ outstanding' = outstanding \cup {c}
      BY <1>2, <2>1 DEF Answers, Pool!Accept
    <3> QED  BY <1>4, <2>1, <3>1 DEF Computing
  <2>2. CASE posted' = posted \cup {<<c, FALSE>>} /\ UNCHANGED poolVars
    <3>1. Answers(c)' = {FALSE}
      BY <1>2, <2>2 DEF Answers
    <3>2. outstanding' = outstanding
      BY <2>2 DEF poolVars
    <3>3. Answering(c)
      BY <1>2, <1>4, <3>1, <3>2 DEF Answering
    <3>4. \A d \in Conns \ {c} : \A keep \in BOOLEAN :
            (<<d, keep>> \in posted') = (<<d, keep>> \in posted)
      <4>1. PICK no \in BOOLEAN : posted' = posted \cup {<<c, no>>}
        BY <2>2
      <4> QED  BY <4>1
    <3> QED  BY <3>2, <3>3, <3>4
  <2> QED  BY <2>1, <2>2 DEF OnComputeRequest
<1>6. SessionInv(c)'
  BY <1>1, <1>2, <1>5, HandlerLeaves
<1>7. \A d \in Conns \ {c} : Untouched(d)
  BY <1>1, <1>2, <1>3, <1>4, <1>5 DEF Untouched
<1> QED  BY <1>6, <1>7, ConnStep

(* onWrite: the session ends, or is to be read again. *)
LEMMA WrittenStep ==
    ASSUME TypeOK, SessionsInv, NEW c \in Conns,
           OnWriteError(c) \/ OnWriteLast(c) \/ OnWriteNext(c)
    PROVE  SessionsInv'
<1>1. /\ SessionInv(c)
      /\ UNCHANGED <<closed, requestCount, conn, posted, outstanding>>
  BY DEF SessionsInv, OnWriteError, OnWriteLast, OnWriteNext, acceptVars, poolVars
<1>2. PICK h \in {"writeError", "writeOk"} : Runs(c, h)
  BY DEF OnWriteError, OnWriteLast, OnWriteNext
<1>3. h \in Handlers \ {"timeout", "close"} /\ h \notin RequestKinds \cup {"readError"}
  BY <1>2, HandlersFacts, SessionAssumption
<1>4. /\ Current(c)' = {} /\ StrandOne(c)'
      /\ \A d \in Conns \ {c} : strand'[d] = strand[d]
      /\ Answers(c)' = {} /\ c \notin outstanding'
      /\ conn'[c] = "started" /\ ops[c] = {} /\ (closed[c] => ended[c])
  BY <1>1, <1>2, <1>3, HandlerFinds DEF Answers
<1>5. CASE OnWriteError(c) \/ OnWriteLast(c)
  <2>1. ended'[c] /\ \A d \in Conns \ {c} : ended'[d] = ended[d]
    BY <1>5, EndSessionFlags DEF OnWriteError, OnWriteLast
  <2>2. ops' = ops
    BY <1>5 DEF OnWriteError, OnWriteLast
  <2>3. SessionInv(c)'
    BY <1>4, <2>1, <2>2, HandlerLeaves DEF Left
  <2>4. \A d \in Conns \ {c} : Untouched(d)
    BY <1>1, <1>4, <2>1, <2>2 DEF Untouched
  <2> QED  BY <2>3, <2>4, ConnStep
<1>6. CASE OnWriteNext(c)
  <2>1. ops' = [ops EXCEPT ![c] = @ \cup {"again"}] /\ UNCHANGED ended
    BY <1>6 DEF OnWriteNext
  <2>2. Deciding(c) /\ \A d \in Conns \ {c} : ops'[d] = ops[d]
    BY <1>4, <2>1 DEF Deciding, TypeOK, SessionTypeOK
  <2>3. SessionInv(c)'
    BY <1>1, <1>4, <2>1, <2>2, HandlerLeaves
  <2>4. \A d \in Conns \ {c} : Untouched(d)
    BY <1>1, <1>4, <2>1, <2>2 DEF Untouched
  <2> QED  BY <2>3, <2>4, ConnStep
<1> QED  BY <1>5, <1>6

(* A session that has decided to read again has nothing else in progress.  *)
LEMMA DecidedFinds ==
    ASSUME TypeOK, NEW c \in Conns, SessionInv(c), "again" \in ops[c]
    PROVE  /\ ops[c] = {"again"} /\ Current(c) = {} /\ Answers(c) = {} /\ c \notin outstanding
           /\ conn[c] = "started" /\ (closed[c] => ended[c])
<1>1. Operations(c) = {"again"}
  BY DEF SessionInv, OnePlace, Operations
<1>2. Current(c) = {} /\ Answers(c) = {} /\ c \notin outstanding
  BY <1>1 DEF SessionInv, OnePlace
<1>3. "read" \notin ops[c]
  BY <1>1 DEF Operations
<1>4. "timer" \notin ops[c]
  BY <1>2, <1>3 DEF SessionInv
<1> QED  BY <1>1, <1>2, <1>4 DEF Operations, SessionInv, Nowhere

(* doRead after the decision: the read begins, unless the socket is closed. *)
LEMMA ReadAgainStep ==
    ASSUME TypeOK, SessionsInv, NEW c \in Conns, ReadAgain(c)
    PROVE  SessionsInv'
<1>1. /\ SessionInv(c) /\ "again" \in ops[c] /\ DoRead(c)
      /\ UNCHANGED <<closed, ended, requestCount, strand, conn, posted, outstanding>>
  BY DEF SessionsInv, ReadAgain, acceptVars, poolVars
<1>2. /\ ops[c] = {"again"} /\ Current(c) = {} /\ Answers(c) = {} /\ c \notin outstanding
      /\ conn[c] = "started" /\ (closed[c] => ended[c])
  BY <1>1, DecidedFinds
<1>3. /\ Current(c)' = {} /\ StrandOne(c)' /\ Answers(c)' = {} /\ c \notin outstanding'
      /\ conn'[c] = "started" /\ (closed[c] => ended'[c])
  BY <1>1, <1>2 DEF Current, StrandOne, Answers, SessionInv, OnePlace
<1>4. (Left(c) \/ Reading(c)) /\ \A d \in Conns \ {c} : ops'[d] = ops[d]
  BY <1>1, <1>2, <1>3, DoReadLeaves
<1>5. SessionInv(c)'
  BY <1>1, <1>3, <1>4, HandlerLeaves
<1>6. \A d \in Conns \ {c} : Untouched(d)
  BY <1>1, <1>4 DEF Untouched
<1> QED  BY <1>5, <1>6, ConnStep

(* Neither a timeout nor a close is about the operation. *)
LEMMA InterruptStep ==
    ASSUME TypeOK, SessionsInv, NEW c \in Conns, OnTimeout(c) \/ OnClose(c)
    PROVE  SessionsInv'
<1>1. /\ SessionInv(c)
      /\ UNCHANGED <<requestCount, conn, posted, outstanding>>
  BY DEF SessionsInv, OnTimeout, OnClose, acceptVars, poolVars
<1>2. PICK h \in {"timeout", "close"} : Runs(c, h)
  BY DEF OnTimeout, OnClose
<1>3. /\ Current(c)' = Current(c) /\ StrandOne(c)'
      /\ \A d \in Conns \ {c} : strand'[d] = strand[d]
  BY <1>1, <1>2, RunsCurrent DEF SessionInv, OnePlace
<1>4. /\ (ended[c] => ended'[c]) /\ (closed'[c] => ended'[c])
      /\ ops'[c] \in {ops[c], ops[c] \ {"timer"}}
      /\ \A d \in Conns \ {c} : ended'[d] = ended[d] /\ closed'[d] = closed[d] /\ ops'[d] = ops[d]
  <2>1. CASE OnTimeout(c)
    BY <2>1, EndSessionFlags DEF OnTimeout
  <2>2. CASE OnClose(c) /\ closed[c]
    BY <1>1, <2>2 DEF OnClose, SessionInv
  <2>3. CASE OnClose(c) /\ ~closed[c]
    <3>1. EndSession(c) /\ closed' = [closed EXCEPT ![c] = TRUE]
          /\ ops' = [ops EXCEPT ![c] = CancelTimer(c)]
      BY <2>3 DEF OnClose
    <3> QED  BY <3>1, EndSessionFlags DEF CancelTimer, TypeOK, SessionTypeOK
  <2> QED  BY <2>1, <2>2, <2>3
<1>5. Kept(c)
  BY <1>1, <1>3, <1>4 DEF Kept
<1>6. \A d \in Conns \ {c} : Untouched(d)
  BY <1>1, <1>3, <1>4 DEF Untouched
<1> QED  BY <1>1, <1>5, <1>6, KeptInv, ConnStep

-----------------------------------------------------------------------------
(* The operation moves on: from the reactor to the strand, from the pool   *)
(* to the io_context, and from there to the strand.                        *)
LEMMA IoStep ==
    ASSUME TypeOK, SessionsInv, NEW c \in Conns, IoCompletes(c)
    PROVE  SessionsInv'
<1>1. /\ SessionInv(c)
      /\ UNCHANGED <<closed, ended, requestCount, conn, posted, outstanding>>
  BY DEF SessionsInv, IoCompletes, ReadCompletes, WriteCompletes, TimerExpires, acceptVars,
         poolVars
<1>2. PICK op \in {"read", "write", "timer"}, h \in Handlers :
        /\ op \in ops[c] /\ Post(c, h)
        /\ ops' = [ops EXCEPT ![c] = @ \ {op}]
        /\ op = "read" => h \in RequestKinds \cup {"readError"}
        /\ op = "write" => h \in {"writeOk", "writeError"}
        /\ op = "timer" => h = "timeout"
  BY HandlersFacts DEF IoCompletes, ReadCompletes, WriteCompletes, TimerExpires
<1>3. /\ h \in {"timeout", "close"} => Current(c)' = Current(c) /\ (StrandOne(c) => StrandOne(c)')
      /\ h \notin {"timeout", "close"} =>
            Current(c)' = Current(c) \cup {h} /\ (Current(c) = {} => StrandOne(c)')
      /\ \A d \in Conns \ {c} : strand'[d] = strand[d]
  BY <1>2, PostCurrent
<1>4. /\ ops'[c] = ops[c] \ {op} /\ \A d \in Conns \ {c} : ops'[d] = ops[d]
  BY <1>2 DEF TypeOK, SessionTypeOK
<1>5. \A d \in Conns \ {c} : Untouched(d)
  BY <1>1, <1>3, <1>4 DEF Untouched
<1>6. CASE op = "timer"
  <2>1. Kept(c)
    BY <1>1, <1>2, <1>3, <1>4, <1>6 DEF Kept, SessionInv
  <2> QED  BY <1>1, <1>5, <2>1, KeptInv, ConnStep
<1>7. CASE op # "timer"
  <2>1. h \notin {"timeout", "close"} /\ h # "doRead"
    BY <1>2, <1>7, SessionAssumption
  <2>2. /\ Current(c) = {} /\ Answers(c) = {} /\ c \notin outstanding
        /\ ops[c] \ {"timer"} = {op} /\ conn[c] = "started"
    BY <1>1, <1>2, <1>4, <1>7 DEF SessionInv, OnePlace, Operations, Nowhere
  <2>3. Current(c)' = {h} /\ StrandOne(c)' /\ Answers(c)' = {} /\ c \notin outstanding'
    BY <1>1, <1>3, <2>1, <2>2 DEF Answers
  <2>4. ops'[c] \subseteq {"timer"} /\ Operations(c)' = {}
    BY <1>4, <2>2 DEF Operations
  <2>5. "timer" \in ops'[c] => h \in RequestKinds \cup {"readError"}
    <3>1. CASE op = "read"
      BY <1>2, <3>1
    <3>2. CASE op = "write"
      BY <1>1, <1>4, <2>2, <3>2 DEF SessionInv
    <3> QED  BY <1>7, <3>1, <3>2
  <2>6. SessionInv(c)'
    BY <1>1, <2>1, <2>2, <2>3, <2>4, <2>5 DEF SessionInv, OnePlace, Nowhere
  <2> QED  BY <1>5, <2>6, ConnStep
<1> QED  BY <1>6, <1>7

(* A handler that is about the operation and not the end of a read is      *)
(* posted for a connection with nothing else in progress.                  *)
LEMMA PostedInv ==
    ASSUME TypeOK, NEW c \in Conns, NEW h \in {"doRead", "sendKeepAlive", "sendClose"},
           Post(c, h), Current(c) = {}, ops[c] = {}, ops' = ops,
           Answers(c)' = {}, c \notin outstanding', conn'[c] = "started",
           closed'[c] => ended'[c], h = "doRead" => requestCount'[c] = 0
    PROVE  SessionInv(c)' /\ \A d \in Conns \ {c} : strand'[d] = strand[d]
<1>1. h \in Handlers /\ h \notin {"timeout", "close"}
  BY HandlersFacts
<1>2. Current(c)' = {h} /\ StrandOne(c)' /\ \A d \in Conns \ {c} : strand'[d] = strand[d]
  BY <1>1, PostCurrent
<1>3. ops'[c] = {} /\ Operations(c)' = {}
  BY DEF Operations
<1> QED  BY <1>2, <1>3 DEF SessionInv, OnePlace, Nowhere

(* Session::start posts the first doRead. *)
LEMMA StartStep ==
    ASSUME TypeOK, SessionsInv, NEW c \in Conns, Start(c)
    PROVE  SessionsInv'
<1>1. /\ SessionInv(c)
      /\ conn[c] = "inserted" /\ conn' = [conn EXCEPT ![c] = "started"]
      /\ Post(c, "doRead")
      /\ UNCHANGED <<closed, ended, requestCount, ops, posted, outstanding>>
  BY DEF SessionsInv, Start, poolVars
<1>2. Nowhere(c) /\ requestCount[c] = 0
  BY <1>1 DEF SessionInv
<1>3. ops[c] = {}
  BY <1>1, <1>2 DEF SessionInv, Nowhere, Operations
<1>4. conn'[c] = "started" /\ \A d \in Conns \ {c} : conn'[d] = conn[d]
  BY <1>1 DEF TypeOK
<1>5. SessionInv(c)' /\ \A d \in Conns \ {c} : strand'[d] = strand[d]
  <2>1. Answers(c)' = {} /\ Current(c) = {} /\ c \notin outstanding' /\ (closed'[c] => ended'[c])
    BY <1>1, <1>2 DEF Nowhere, Answers, SessionInv
  <2> QED  BY <1>1, <1>2, <1>3, <1>4, <2>1, PostedInv
<1>6. \A d \in Conns \ {c} : Untouched(d)
  BY <1>1, <1>4, <1>5 DEF Untouched
<1> QED  BY <1>5, <1>6, ConnStep

(* A worker has executed the task and posts the answer. *)
LEMMA CompleteStep ==
    ASSUME TypeOK, SessionsInv, NEW c \in Conns, Complete(c)
    PROVE  SessionsInv'
<1>1. /\ SessionInv(c)
      /\ c \in outstanding /\ outstanding' = outstanding \ {c}
      /\ UNCHANGED <<closed, ended, requestCount, conn, ops, strand>>
  BY DEF SessionsInv, Complete, Pool!Complete, TypeOK, Pool!TypeOK, sessionVars, acceptVars
<1>2. PICK keep \in BOOLEAN : posted' = posted \cup {<<c, keep>>}
  BY SessionAssumption DEF Complete, KeepAliveAnswers
<1>3. Operations(c) = {} /\ Current(c) = {} /\ Answers(c) = {} /\ conn[c] = "started"
  BY <1>1 DEF SessionInv, OnePlace, Nowhere
<1>4. "timer" \notin ops[c]
  BY <1>1, <1>3 DEF SessionInv, Operations
<1>5. Answering(c)
  <2>1. Answers(c)' = {keep}
    BY <1>2, <1>3 DEF Answers
  <2> QED  BY <1>1, <1>3, <1>4, <2>1 DEF Answering, Operations
<1>6. Current(c)' = {} /\ StrandOne(c)'
  BY <1>1, <1>3 DEF Current, StrandOne, SessionInv, OnePlace
<1>7. SessionInv(c)'
  BY <1>1, <1>3, <1>5, <1>6, HandlerLeaves DEF SessionInv
<1>8. \A d \in Conns \ {c} : \A k \in BOOLEAN : (<<d, k>> \in posted') = (<<d, k>> \in posted)
  BY <1>2
<1>9. \A d \in Conns \ {c} : Untouched(d)
  BY <1>1, <1>8 DEF Untouched
<1> QED  BY <1>7, <1>9, ConnStep

(* The posted answer is handed to the strand. *)
LEMMA PostedStep ==
    ASSUME TypeOK, SessionsInv, NEW c \in Conns, RunPosted(c)
    PROVE  SessionsInv'
<1>1. /\ SessionInv(c)
      /\ UNCHANGED <<closed, ended, requestCount, conn, ops, outstanding>>
  BY DEF SessionsInv, RunPosted, acceptVars, poolVars
<1>2. PICK keep \in BOOLEAN :
        /\ <<c, keep>> \in posted /\ posted' = posted \ {<<c, keep>>}
        /\ Post(c, IF keep THEN "sendKeepAlive" ELSE "sendClose")
  BY DEF RunPosted
<1>3. Answers(c) = {keep}
  <2>1. keep \in Answers(c)
    BY <1>2 DEF Answers
  <2>2. \A k, l \in Answers(c) : k = l
    BY <1>1 DEF SessionInv, OnePlace
  <2> QED  BY <2>1, <2>2
<1>4. Operations(c) = {} /\ Current(c) = {} /\ c \notin outstanding /\ conn[c] = "started"
  BY <1>1, <1>3 DEF SessionInv, OnePlace, Nowhere
<1>5. ops[c] = {}
  BY <1>1, <1>4 DEF SessionInv, Operations
<1>6. Answers(c)' = {}
  BY <1>2, <1>3 DEF Answers
<1>7. SessionInv(c)' /\ \A d \in Conns \ {c} : strand'[d] = strand[d]
  <2>1. PICK h \in {"doRead", "sendKeepAlive", "sendClose"} : Post(c, h) /\ h # "doRead"
    BY <1>2
  <2>2. closed'[c] => ended'[c]
    BY <1>1 DEF SessionInv
  <2> QED  BY <1>1, <1>4, <1>5, <1>6, <2>1, <2>2, PostedInv
<1>8. \A d \in Conns \ {c} : \A k \in BOOLEAN : (<<d, k>> \in posted') = (<<d, k>> \in posted)
  BY <1>2
<1>9. \A d \in Conns \ {c} : Untouched(d)
  BY <1>1, <1>7, <1>8 DEF Untouched
<1> QED  BY <1>7, <1>9, ConnStep

(* ForceClose posts a close, which is not about the operation. *)
LEMMA ForceCloseStep ==
    ASSUME TypeOK, SessionsInv, NEW c \in Conns, ForceClose(c)
    PROVE  SessionsInv'
<1>1. /\ SessionInv(c)
      /\ Post(c, "close")
      /\ UNCHANGED <<closed, ended, requestCount, conn, ops, posted, outstanding>>
  BY DEF SessionsInv, ForceClose, acceptVars, poolVars
<1>2. /\ Current(c)' = Current(c) /\ (StrandOne(c) => StrandOne(c)')
      /\ \A d \in Conns \ {c} : strand'[d] = strand[d]
  BY <1>1, PostCurrent, HandlersFacts
<1>3. Kept(c)
  BY <1>1, <1>2 DEF Kept, SessionInv
<1>4. \A d \in Conns \ {c} : Untouched(d)
  BY <1>1, <1>2 DEF Untouched
<1> QED  BY <1>1, <1>3, <1>4, KeptInv, ConnStep

(* The acceptor, the pool's workers, the drain and the shutdown leave      *)
(* every session as it is.                                                 *)
Elsewhere ==
    \/ \E c \in Conns :
        Connect(c) \/ Accept(c) \/ Reject(c) \/ Rearm(c) \/ Insert(c) \/ Begin(c)
    \/ AcceptError \/ Signal \/ SignalCheck \/ DrainTimeout \/ DrainCheck
    \/ OutOfWork \/ ShutdownStep \/ UNCHANGED vars

(* Such a step keeps the invariant of every connection. *)
LEMMA ElsewhereStep ==
    ASSUME TypeOK, SessionsInv, Elsewhere
    PROVE  /\ SessionsInv'
           /\ UNCHANGED ops
<1>1. UNCHANGED <<closed, ended, requestCount, ops, strand, posted, outstanding>>
  <2>1. ASSUME NEW c \in Conns,
               Connect(c) \/ Accept(c) \/ Reject(c) \/ Rearm(c) \/ Insert(c) \/ Begin(c)
        PROVE  UNCHANGED <<closed, ended, requestCount, ops, strand, posted, outstanding>>
    BY <2>1 DEF Connect, Accept, Reject, Rearm, Insert, Begin, Pool!Begin, sessionVars, poolVars
  <2>2. CASE AcceptError \/ Signal \/ SignalCheck \/ DrainTimeout \/ DrainCheck
    BY <2>2 DEF AcceptError, Signal, SignalCheck, DrainTimeout, DrainCheck, sessionVars, poolVars
  <2>3. CASE OutOfWork \/ ShutdownStep \/ UNCHANGED vars
    BY <2>3 DEF OutOfWork, ShutdownStep, JoinIoThreads, PoolDrained, PoolAborted, Pool!Close,
                Pool!Abandon, vars, sessionVars, poolVars
  <2> QED  BY <2>1, <2>2, <2>3 DEF Elsewhere
<1>2. \A d \in Conns : (conn'[d] = "started") = (conn[d] = "started")
  <2>1. ASSUME NEW c \in Conns, Connect(c) \/ Accept(c) \/ Reject(c) \/ Rearm(c) \/ Insert(c)
        PROVE  \A d \in Conns : (conn'[d] = "started") = (conn[d] = "started")
    <3>1. PICK v \in {"backlog", "accepted", "refused", "rearmed", "inserted"} :
            conn[c] # "started" /\ conn' = [conn EXCEPT ![c] = v]
      BY <2>1 DEF Connect, Accept, Reject, Rearm, Insert
    <3> QED  BY <3>1 DEF TypeOK
  <2>2. ASSUME NEW c \in Conns, Begin(c)
        PROVE  UNCHANGED conn
    BY <2>2 DEF Begin, acceptVars
  <2>3. CASE AcceptError \/ Signal \/ SignalCheck \/ DrainTimeout \/ DrainCheck
    BY <2>3 DEF AcceptError, Signal, SignalCheck, DrainTimeout, DrainCheck, acceptVars
  <2>4. CASE OutOfWork \/ ShutdownStep \/ UNCHANGED vars
    BY <2>4 DEF OutOfWork, ShutdownStep, JoinIoThreads, PoolDrained, PoolAborted, vars, acceptVars
  <2> QED  BY <2>1, <2>2, <2>3, <2>4 DEF Elsewhere
<1>3. \A d \in Conns : Untouched(d)
  BY <1>1, <1>2 DEF Untouched
<1>4. ASSUME NEW d \in Conns
      PROVE  SessionInv(d)'
  BY <1>3, UntouchedInv DEF SessionsInv
<1> QED  BY <1>1, <1>4 DEF SessionsInv

(* The steps of Next, by what they do to the sessions. *)
LEMMA NextSplit ==
    ASSUME [Next]_vars
    PROVE  \/ Elsewhere
           \/ \E c \in Conns :
                \/ Start(c) \/ IoCompletes(c) \/ StrandStep(c)
                \/ Complete(c) \/ RunPosted(c) \/ ForceClose(c)
BY DEF Next, AcceptStep, Returned, Elsewhere

(* Every step of the server keeps the invariant of every connection. *)
LEMMA SessionStep == TypeOK /\ SessionsInv /\ [Next]_vars => SessionsInv'
<1> SUFFICES ASSUME TypeOK, SessionsInv, [Next]_vars PROVE SessionsInv'
  OBVIOUS
<1>1. ASSUME NEW c \in Conns, StrandStep(c)
      PROVE  SessionsInv'
  BY <1>1, LocalStep, ReadErrorStep, FastStep, ComputeStep, WrittenStep, ReadAgainStep, InterruptStep
  DEF StrandStep
<1>2. ASSUME NEW c \in Conns,
             Start(c) \/ IoCompletes(c) \/ Complete(c) \/ RunPosted(c) \/ ForceClose(c)
      PROVE  SessionsInv'
  BY <1>2, StartStep, IoStep, CompleteStep, PostedStep, ForceCloseStep
<1>3. CASE Elsewhere
  BY <1>3, ElsewhereStep
<1> QED  BY <1>1, <1>2, <1>3, NextSplit

(* It holds before any connection is made. *)
LEMMA SessionsInit == Init => SessionsInv
<1> SUFFICES ASSUME Init, NEW c \in Conns PROVE SessionInv(c)
  BY DEF SessionsInv
<1>1. ops[c] = {} /\ strand[c] = <<>> /\ ~closed[c] /\ requestCount[c] = 0
      /\ conn[c] = "away" /\ posted = {} /\ outstanding = {}
  BY DEF Init, SessionInit, Pool!Init
<1>2. Operations(c) = {} /\ Current(c) = {} /\ Answers(c) = {} /\ StrandOne(c)
  BY <1>1 DEF Operations, Current, Answers, StrandOne
<1> QED  BY <1>1, <1>2 DEF SessionInv, OnePlace, Nowhere

-----------------------------------------------------------------------------
(* The places of OnePlace, counted. *)
LEMMA PlacesCounted ==
    ASSUME TypeOK, NEW c \in Conns, OnePlace(c)
    PROVE  /\ InProgress(c) <= 1
           /\ ~Nowhere(c) => InProgress(c) = 1
<1> DEFINE reactor == ops[c] \ {"timer"}
           handlers == {i \in DOMAIN strand[c] : strand[c][i] \notin {"timeout", "close"}}
           answers == {r \in posted : r[1] = c}
<1>1. posted \subseteq Conns \X BOOLEAN
  BY DEF TypeOK, SessionTypeOK
<1>2. reactor = Operations(c) /\ (reactor = {} \/ \E op : reactor = {op})
  BY DEF Operations, OnePlace
<1>3. /\ handlers = {} <=> Current(c) = {}
      /\ handlers = {} \/ \E i : handlers = {i}
  <2>1. handlers = {} <=> Current(c) = {}
    BY DEF Current
  <2>2. \A i, j \in handlers : i = j
    BY DEF OnePlace, StrandOne
  <2> HIDE DEF handlers
  <2> QED  BY <2>1, <2>2
<1>4. /\ answers = {} <=> Answers(c) = {}
      /\ answers = {} \/ \E r : answers = {r}
  <2>1. \A r \in answers : \E k \in Answers(c) : r = <<c, k>>
    BY <1>1 DEF Answers
  <2>2. \A k \in Answers(c) : <<c, k>> \in answers
    BY DEF Answers
  <2>3. \A r, q \in answers : r = q
    BY <2>1 DEF OnePlace
  <2>4. answers = {} <=> Answers(c) = {}
    BY <2>1, <2>2
  <2> HIDE DEF answers
  <2> QED  BY <2>3, <2>4
<1>5. /\ reactor = {} => Cardinality(reactor) = 0
      /\ handlers = {} => Cardinality(handlers) = 0
      /\ answers = {} => Cardinality(answers) = 0
  BY FS_EmptySet
<1>6. /\ reactor # {} => Cardinality(reactor) = 1
      /\ handlers # {} => Cardinality(handlers) = 1
      /\ answers # {} => Cardinality(answers) = 1
  <2> HIDE DEF reactor, handlers, answers
  <2> QED  BY <1>2, <1>3, <1>4, FS_Singleton
<1>7. InProgress(c) = Cardinality(reactor) + Cardinality(handlers) + Cardinality(answers)
                        + (IF c \in outstanding THEN 1 ELSE 0)
  BY DEF InProgress
<1>8. /\ reactor # {} => handlers = {} /\ answers = {} /\ c \notin outstanding
      /\ handlers # {} => answers = {} /\ c \notin outstanding
      /\ answers # {} => c \notin outstanding
      /\ Nowhere(c) <=> reactor = {} /\ handlers = {} /\ answers = {} /\ c \notin outstanding
  <2> HIDE DEF reactor, handlers, answers
  <2> QED  BY <1>2, <1>3, <1>4 DEF OnePlace, Nowhere
<1> HIDE DEF reactor, handlers, answers
<1> QED  BY <1>5, <1>6, <1>7, <1>8

(* Whatever the order in which reads, writes, timeouts, closes, workers    *)
(* and the posts of sendResponseAsync happen, a connection has one         *)
(* operation in progress, and a session counted in m_sessions has one that *)
(* will end it.                                                            *)
THEOREM OneOperationAtATime == Spec => []OneOperation
<1>1. TypeOK /\ SessionsInv => OneOperation
  BY PlacesCounted DEF SessionsInv, SessionInv, OneOperation
<1> QED  BY <1>1, ServerTypeCorrect, SessionsInit, SessionStep, PTL DEF Spec

(* onRead cancels the timer before the request is processed, so it runs    *)
(* only with a read in progress or completed.                              *)
THEOREM TimerRunsWithRead == Spec => []TimerOnlyWhileReading
<1>1. SessionsInv => TimerOnlyWhileReading
  BY DEF SessionsInv, SessionInv, Current, TimerOnlyWhileReading
<1> QED  BY <1>1, ServerTypeCorrect, SessionsInit, SessionStep, PTL DEF Spec

-----------------------------------------------------------------------------
(* A read begins only with the doRead of Session::start or of onWrite. *)
LEMMA ReadBegins ==
    ASSUME TypeOK, SessionsInv, [Next]_vars, NEW c \in Conns,
           "read" \notin ops[c], "read" \in ops'[c]
    PROVE  RunDoRead(c) \/ ReadAgain(c)
<1>1. ~Elsewhere
  BY ElsewhereStep
<1>2. PICK d \in Conns :
        \/ Start(d) \/ IoCompletes(d) \/ StrandStep(d)
        \/ Complete(d) \/ RunPosted(d) \/ ForceClose(d)
  BY <1>1, NextSplit
<1>3. ~Start(d) /\ ~Complete(d) /\ ~RunPosted(d) /\ ~ForceClose(d)
  BY DEF Start, Complete, RunPosted, ForceClose, sessionVars
<1> DEFINE Sets(s) == ops' = [ops EXCEPT ![d] = s]
<1>5. /\ \A op : ~Sets(ops[d] \ {op})
      /\ ~Sets(ops[d])
      /\ ~Sets(ops[d] \cup {"write"})
      /\ ~Sets(ops[d] \cup {"again"})
      /\ ~Sets((ops[d] \ {"timer"}) \cup {"write"})
  <2>1. CASE c = d
    BY <2>1 DEF TypeOK, SessionTypeOK
  <2>2. CASE c # d
    BY <2>2 DEF TypeOK, SessionTypeOK
  <2> QED  BY <2>1, <2>2
<1>4. ~IoCompletes(d)
  BY <1>5 DEF IoCompletes, ReadCompletes, WriteCompletes, TimerExpires
<1>6. \A keep \in BOOLEAN : ~Write(d, keep, ops[d]) /\ ~Write(d, keep, ops[d] \ {"timer"})
  BY <1>5 DEF Write
<1>7. /\ ~OnReadError(d) /\ ~OnComputeRequest(d) /\ ~OnFastRequest(d)
      /\ ~OnWriteError(d) /\ ~OnWriteLast(d) /\ ~OnWriteNext(d) /\ ~OnTimeout(d)
      /\ ~OnClose(d)
      /\ ~OnReadTooLarge(d) /\ ~RunSend(d)
  <2>1. ~OnReadError(d) /\ ~OnComputeRequest(d)
    BY <1>5 DEF OnReadError, OnComputeRequest, CancelTimer
  <2>2. ~OnFastRequest(d)
    BY <1>6, SessionAssumption DEF OnFastRequest, KeepAliveAnswers, CancelTimer
  <2>3. ~OnWriteError(d) /\ ~OnWriteLast(d) /\ ~OnTimeout(d)
    BY DEF OnWriteError, OnWriteLast, OnTimeout
  <2>3a. ~OnWriteNext(d)
    BY <1>5 DEF OnWriteNext
  <2>4. ~OnClose(d)
    BY <1>5 DEF OnClose, CancelTimer
  <2>5. ~OnReadTooLarge(d) /\ ~RunSend(d)
    BY <1>6 DEF OnReadTooLarge, RunSend, CancelTimer
  <2> QED  BY <2>1, <2>2, <2>3, <2>3a, <2>4, <2>5
<1>8. RunDoRead(d) \/ ReadAgain(d)
  BY <1>2, <1>3, <1>4, <1>7 DEF StrandStep, LocalHandler
<1>9. d = c
  <2>1. DoRead(d)
    BY <1>8 DEF RunDoRead, ReadAgain
  <2> QED  BY <2>1 DEF DoRead, TypeOK, SessionTypeOK
<1> QED  BY <1>8, <1>9
==============================================================================
