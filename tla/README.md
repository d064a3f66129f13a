# A TLA+ model of priority-http-server

`src/` is an HTTP/1.1 server in C++ on Boost.Asio/Beast: an acceptor and one
`Session` per connection on an `io_context` run by several I/O threads, a
priority thread pool for `POST /compute`, an asynchronous logger, a router, a
handler of static files, and a configuration file. This directory holds
specifications of these parts, the TLC runs that check them on small instances,
and proofs about them for instances of any size. Paths below are relative to the
repository.

## 1. Inventory

| Part | State it keeps | Operations | Interacts with |
|---|---|---|---|
| Task queue (`src/thread_pool.cpp:7-86`) | heap `m_queue`, `m_done`, `m_abort`, sleepers of `m_cv` | `push`, `pop`, `shutdown`, `abort`, `size` | callers of `submit`, workers, owner |
| Worker threads, pool (`thread_pool.cpp:89-238`) | `m_thread`, `donePromise`, `m_abandoned` per worker | `start`, `submit`, `shutdown`, `shutdownWithTimeout`, destructor | queue, tasks, `HttpServer` |
| HTTP server (`src/server.cpp`) | `m_sessions`, `m_activeSessions`, `m_draining`, acceptor, signal set, drain timer, I/O threads | `run`, `doAccept`, `endSession`, signal handler, drain timeout, `shutdown`, destructor | sessions, pool, logger |
| Session (`src/session.cpp`) | `m_closed`, `m_ended`, `m_keepAlive`, `m_requestCount`, socket, timer, strand | `start`, `doRead`, `onRead`, `onWrite`, `onTimeout`, `close`, `sendResponse` | server, request processor |
| Request processor, HTTP task (`src/request_processor.cpp`, `src/http_task.cpp`) | none of their own | `process`, `execute`, the done callback, `sendResponseAsync` | pool, router, server |
| Logger (`src/logger.cpp`) | `m_queue`, `m_done`, consumer thread, the stream of the sink | `log`, `start`, `shutdown`, destructor | everybody |
| Router (`src/router.cpp`) | route table, filled before the first accept | `addRoute`, `route` | request processor |
| Static files (`src/static_file_handler.cpp`) | none: the file system | `handle` | file system, request processor |
| Configuration (`src/config.cpp`) | `config.json` and its `.broken` backup | `loadConfig`, `fromJson`, `fromArgs`, `toJson` | file system, `main` |
| Entry point (`src/main.cpp`) | none | `main` | configuration, server |
| Status handler (`src/status_handler.cpp`) | none | `handle` | reads sizes of pool and queue |

What makes each part correct:

* **Pool.** An accepted task is executed once, by one worker; the queue respects
  its limit; the worker takes the oldest task of highest rank; aged tasks are
  not overtaken; no task waits beside a sleeping worker; a graceful shutdown
  executes everything; a timed one returns in spite of stuck tasks and leaves no
  joinable thread; an abandoned worker takes nothing more.
* **Sessions.** One operation in progress per connection; the timer runs only
  while reading, and while a counted session reads; keep-alive is bounded; a request is answered once, before another
  is read, unless the server drains; every request that the pool accepted is
  answered.
* **Server.** The count of sessions is exact although four kinds of event can end
  a session; the excess over the limit on connections is bounded; the acceptor is
  never lost; the end of a drain is noticed; a signal stops the server.
* **Logger.** Messages are written once, in order and without a gap; the consumer
  never sleeps over one; the shutdown flushes, returns, and nothing is written
  after it.
* **Configuration.** The user's latest edit is not lost without a failure; only a
  document that does not parse is put aside; settings stay in the range of their
  type, leave at least one worker, and follow flag, document, default in this
  order; a first start has the settings of the second.
* **Router.** The longest key that begins the request answers, in whatever order
  the hash table is visited.
* **Static files.** Every answer is justified by something that was there while
  the request was handled, also when the file changes while it is copied.
* **Life of the process.** A destroyed server is used by abandoned workers at
  most; the log is complete when it is gone; a process that was told to stop, or
  that failed before it had an I/O thread, ends.

What is hard here: handlers and threads interleave freely; a notification is sent
after the lock is released; decisions are taken when an accept is armed and used
when it completes; a timer may have expired when it is cancelled; a drain begins
between the decision to read again and the read; deadlines race
with workers that are about to finish; a snapshot of the sessions is older than
the closes it leads to; the parts are started and shut down in an order that
exceptions cut short; files change, and the process dies, between two operations.
`PROJECT.json` lists these hazards line by line, with the properties that cover
them. An entry without a property says why there is none.

## 2. Modules

```
                 TaskService                               LogService        (abstract)
                 ^ refined by   ^ ^ instantiated by        ^      ^ refined by
TaskQueue <- ThreadPool         | '---- ServerLife --------'    AsyncLogger
                                |
                 Session <- HttpServer --refines, for each connection--> Exchange (abstract)

ConfigStore   Settings          Router   StaticFiles
      ^          ^                 ^          ^
      '- MCConfiguration -'        '-- MCResponses --'
```

The proofs are in modules of their own, named after what they are about:
ThreadPoolProofs, AsyncLoggerProofs, ServerLifeProofs; ConfigurationProofs
(ConfigStore and Settings) and ResponsesProofs (Router and StaticFiles), which
extend the MC modules in which TLC evaluates the assumptions; and for HttpServer
the chain HttpServerProofs <- SessionProofs <- ExchangeProofs.

* **TaskQueue**: `TaskQueue`. Each operation is the critical section of the code
  (`Push`, `PopSleep`/`PopNull`/`PopTask`, `CloseQueue`, `AbortQueue`); the
  notifications that follow an unlock are steps of the callers, because other
  threads may come in between. The vector is kept in order of arrival, so that
  `order` is a position; the heap is represented by what it serves first, and by
  *any* element whenever keys were changed without a rebuild. The clock is one
  bit per entry, "older than `AGING_THRESHOLD`", which `Expire` sets in order of
  arrival.
* **ThreadPool**: the worker loop (`Pop`, `Execute`, `SetDone`), submitters
  (`Submit`, then `Notify`), and the owner's program (`Start`, `BeginShutdown`
  with three modes, the join loop, the drain loop with its deadline, the abort
  and its grace loop). A deadline may pass at any moment.
* **TaskService**: the pool seen by its callers: accepted, begun, completed;
  open, closed, aborted. `ThreadPool` implements it with `begun` the tasks that
  workers hold and `phase` read off `m_done` and `m_abort`.
* **Session**: per-connection state and the handlers that concern it alone.
  `strand[c]` is the queue of posted handlers, `ops[c]` the asynchronous
  operations in progress; an operation ends by posting a handler, at any moment.
* **HttpServer**: the acceptor, session handlers that act on the server, the way
  through the pool (`Pool == INSTANCE TaskService`) and back over
  `sendResponseAsync`, the signal, the drain timer and `shutdown`.
* **Exchange**: one connection seen by its client, without threads, strands,
  timers and the pool: a request is received, answered (or, by a server that
  drains, dropped), the answer announces whether the connection is kept, and only
  then another one is read. `Stage(c)` of HttpServer is the refinement mapping: it
  reads the stage off wherever the operation of the connection is (the reactor,
  the strand, the `io_context`, the pool). `Ex(c)` is the instance for connection
  `c`, and `ImplementsExchange` says that every step of the server is a step of
  each `Ex(c)` or leaves it alone.
* **AsyncLogger**: the threads that log (`Log`, the push, then `Notify`), the
  consumer (`Sleep`, `Take`, `Write`, `Leave`) and the owner (`Start`,
  `BeginShutdown`, `WakeForShutdown`, `Join`), which may shut the logger down
  again, as the destructor does. A write may set the badbit of the stream, after
  which every write does nothing, as nobody looks at it.
* **LogService**: the logger seen by its callers: what was accepted, what is in
  the output, and what is due when the shutdown returns. `AsyncLogger` implements
  it.
* **ServerLife**: `main`, `HttpServer::run` and `~HttpServer`: the start-up of
  logger, routes, pool, acceptor and I/O threads, each of which can throw; the
  shutdown in the order of the code; tasks that end, or log a failure, after the
  server is gone (`touched`). The pool is an instance of `TaskService`, the logger
  one of `LogService`; when the `io_context` stops is left to `HttpServer`.
* **ConfigStore**: `loadConfig` as one step for each operation on the file
  system (`Open`, `Parse`, `Rename`, `Create`, `Write`, each with its failures),
  `Exit` at any point for the end or death of the process, and `Edit` by users.
* **Settings**: `fromJson`, `fromArgs` token by token, `toJson`, for one field of
  each kind (narrowed to 16 or 32 bits, 64 bits unsigned or signed, truth value).
  What a document's values become is what nlohmann/json 3.12.0 makes of them
  (`HasType`, `Converted`): a truth value is a number, 0 or 1, for
  `unsigned short` and `unsigned int`, but not for `size_t`, the library's own
  unsigned type, nor behind `is_number`; an integer is reduced to the type of the
  field; a number with a fraction or an exponent, or an integer outside 64 bits, is
  a floating point number, whose conversion to a type that does not hold it is
  undefined and leaves any value of the type.
* **Router**: `addRoute`, `route` with `findHandler` and the loop of
  `findPrefixHandler`, which visits the keys in any order.
* **StaticFiles**: `handle`, one step for each look at the path and one for each
  read of the open file (`ReadChunk`, until one finds the `EndOfFile`). Between any
  two of them the file is rewritten (`Rewrite`), or replaced or removed
  (`Replace`); a file once opened stays the same file, into which others may go on
  writing (`RewriteDetached`).
* **MC modules**: values and symmetry for TLC. MCConfiguration and MCResponses
  put two modules that share no state in one run; since no property relates them,
  one moves while the other rests in its initial state.

Operators whose comment begins with "Fault" are alternatives to the definition
below them: the model with a plausible bug, used to confirm that a property
notices it. Nothing else uses them.

### Grain of atomicity

A critical section is one step. A handler on a strand, or a closure posted to the
`io_context`, is one step if it touches what it shares with other threads at one
point. `onWrite` does so twice when the connection is kept: it reads `isDraining`
(`OnWriteNext`) and then calls `doRead` (`ReadAgain`), and the server may begin to
drain, have its timer close the others, or stop, in between; the strand runs
nothing else meanwhile. The handlers of the acceptor, the signal set and the drain timer touch it
several times and take one step for each: the accept handler is `Accept`, `Rearm`
(its call of `doAccept`), `Insert` (under the mutex) and `Start`; the signal
handler `Signal`, `SignalCheck`; the timer's `DrainTimeout` (the snapshot),
`ForceClose` once per session, `DrainCheck`. `Busy` counts the threads inside such
handlers, those of `onWrite` included, and nothing begins when all `io_threads + 1` threads are inside one.
An operation on the file system is one step, except that opening a file for
writing empties it and the contents follow in another.

### What the models leave out of the modelled code

* Texts, headers, the wording and levels of messages, the sampling counter and
  `X-Priority` (the pool model allows any priority on any task).
* `Accept error` with `operation_aborted` (`server.cpp:150-154`): nothing cancels
  or closes the acceptor while it runs. `m_drainTimer.cancel` in
  `checkDrainComplete`: the same call stops the `io_context`. The closes that
  `shutdown` posts to the stopped `io_context` are never run.
* Failures of allocation; a pool of which only some threads could be created; a
  done callback that throws.
* Configuration: text fields, `--help`, edits while a process is starting, and two
  processes that share a file.
* Static files: how a path is made canonical (one choice, `inside`), MIME types. A
  device that fails in the middle of a file: the stream swallows the error, and
  what was read until then is sent with a 200.
* Time: timers and deadlines fire at any moment, so that every duration is
  covered, and nothing about durations is claimed.

## 3. Runs

| Run | Instance | States | Question |
|---|---|---|---|
| ThreadPoolSafety | 3 workers, 2 submitters, 4 tasks, 2 priorities, queue of 3 | 394 165 | Is every task held once, woken for, dispatched in order, and is every shutdown clean? Does the pool implement TaskService? |
| ThreadPoolLiveness | 2 workers, 1 submitter, 3 tasks of which one may hang, queue of 2 | 81 566 | Does aging prevent starvation, and do the shutdowns return? |
| HttpServerSafety | 2 connections, limit 1, 1 I/O thread, queue of 1, all request kinds, keep-alive of 2 | 1 701 534 | Is the count exact, is there one operation per connection, is the end of the drain noticed, is the acceptor kept going? Is each connection an Exchange? |
| ConnectionBound | 4 connections, limit 1, 1 I/O thread, no requests | 710 962 | How far can the number of sessions pass the limit? |
| HttpServerLiveness | 2 connections, limit 1, compute requests of which one may hang | 200 312 | Does a signal stop the server, are requests answered, are silent peers uncounted? |
| Logger | 3 threads, 4 messages, a sink that may break | 155 764 | Are messages written once and in order, is the consumer woken, does the shutdown flush and return? Does the logger implement LogService? |
| ServerLife | 3 tasks of which one may hang, 2 I/O threads, exceptions, a sink that may break | 181 970 | Is the destroyed server used, is the log complete, does the process end? |
| Configuration | 2 documents that parse and 2 that do not; every command line of up to 4 tokens without a document, and of up to 3 with every document of one field | 3 515 779 | Is the user's work kept? What are the settings? |
| Responses | every table of up to 3 routes over 9 paths, 2 methods; files of size 0 to 3, read one by one, with a limit of 2 | 590 662 | Which handler answers, and is what it answers justified? |
| ConnectionLimit | 2 connections, limit 1 | violation | `max_connections` is a maximum (README.md:100) |
| ReadTimeout | 1 connection | violation | a timed-out session is closed (session.cpp:143) |
| LateSession | 2 connections | violation | the drain ends after its timeout (config.hpp:44) |

Deadlock is checked in all of them but Configuration and Responses, whose models
stop when a command line is read or a request is answered: a run may stop only
where the process does (`Destroyed`, `Returned`, `Gone`).

**Why these bounds are enough.** Three workers with two submitters are the
smallest pool in which a notification can reach the wrong worker, a second
submitter can overtake the first between unlock and notify, and one worker can be
abandoned while another finishes; four tasks with a queue of three fill the queue
while others run. Two priorities, one of which equals `INT_MAX`, give every
order of ranks, aged and not. With two connections each can be in any of its
phases while the other one is; keep-alive of two reaches the limit after one
reuse. The liveness run of the server has keep-alive off, which with it would be too
large: that a drain ends when connections are read again is not checked there; that
every such read is timed, or fails, is (`ReadsTimed`).
The connection bound is `limit + 2`, so four connections are needed to
exceed it. Four messages are enough for one to be written, one held and two
queued in either order, with a thread to log late; three tasks for one to hang,
one to fail after the server is gone and one to end in time.

In Configuration the widths of the types are constants: a port has 2 bits, a
32-bit number 3, a 64-bit number 4; the numbers that users write (-1, 0, 1, 9, 16)
fit each of them, some, or none, and 16 is outside 64 bits. Four tokens on the
command line let each kind of field be set twice, or be cut off at the end of the
line; where a document of one field meets the command line three are enough for the
field to be overridden or not. Fields do not depend on each other. Two documents that
parse and two that do not are enough for an edit to be mistaken for an earlier
one. Three routes are needed for a longest key among two that match, in either
order of visit. A file of three units that is read one unit at a time can be cut
short or grow twice while it is copied. The proofs (section 5) remove the bounds for the safety
properties; those that remain model-checked only are listed there. Symmetry is
used in safety runs only.

## 4. Fairness

Every run of a liveness property uses `FairSpec`. Weak fairness is assumed of
each thread's next step, since the operating system schedules threads and the
`io_context` runs what is queued; of the clock (timers expire, entries age); of
operations on a closed socket, which fail; and of `execute()` except for the tasks
in `Stuck`. That the pool begins an accepted task (`Begin`) is what `NoStarvation`
shows of `ThreadPool`, unless stuck tasks hold every worker: `RequestsAreAnswered`
makes that exception, and no drain depends on it. Not fair are clients (they may
neither send, nor read, nor connect), signals, spurious wakeups, and the failure
of an accept. `ShutdownStep` is fair as a whole: a join that is blocked stays
blocked.

In the logger the notifications, the consumer and the owner's steps are fair, and
logging is not. A message is logged once and there are finitely many of them: that
a consumer could be kept busy for ever by threads that log without pause during a
shutdown, so that its queue is never empty, is outside the model. In ServerLife
the start-up, the shutdown and the logger are fair, and so is the end of every task
that is not stuck; the stop of the `io_context` is not, since nobody need send a
signal. That a signal leads to it is the matter of `HttpServer`.

## 5. Proofs

All theorems hold for any number of tasks, workers, submitters, connections,
threads, messages, documents and routes, from the assumptions stated in the
modules: finite sets of submitters and connections, limits that are natural numbers
(0 included), priorities that are integers up to `INT_MAX`, tasks in `Stuck`
arbitrary, documents that parse being some of those that users write, types of at
least one bit, numbers in documents and on the command line that are any integers,
and defaults that fit their fields (`DefaultsAssumption`, as the initializers of
`config.hpp` do).

**ThreadPoolProofs.** The control invariant (`ControlInv`) joins the types with
`WorkerInv` (how program counter, thread, `m_abandoned` and task of a worker fit
together: a done worker saw the queue closed and empty, or aborted; an abandoned
one implies the abort) and `OwnerInv` (the owner's loops have settled exactly the
workers before the cursor). Without these, "the shutdown has returned" says nothing
about single workers. From it:

* `TypeCorrect`, `ShutdownWakesAll`, `ThreadsSettled`, `AbandonedWorkersStop`;
* `DispatchInOrder`, with `EntryInv` (an entry's effective priority is its own or
  `INT_MAX`, the latter only when expired);
* `TasksHeldExactlyOnce`, `GracefulShutdown`;
* `WakeupsNotLost`: a push adds an entry and a pending notification together, a
  notification moves one unit from the submitters to the awake workers, a worker
  sleeps only on an empty queue;
* `PoolImplementsService`: the initial state maps to the initial state, every step
  to a step of `TaskService` or to a stutter.

**HttpServerProofs.** The inductive invariant (`ServerInv`) joins the types, the
exact count, and `QuietInv`: a connection that is not in service has no operation,
no handler, no task and no posted response. It is needed because otherwise a
handler could end a session before it is inserted, and the count would be wrong
for good; and the type of `active`, a natural number, needs the count. From it:

* `ServerTypeCorrect`, `SessionsCounted`: the counter never wraps;
* `EndOfDrainNoticed`;
* `ConnectionsBounded`: with `BoundInv`, active + uncounted + (1 if an accept is
  armed) stays within `max_connections + threads`; arming needs room under the
  limit, and uncounted connections occupy one thread each;
* `AcceptorNeverLost`.

**SessionProofs.** `OneOperation` counts, and a count is not inductive: a step
moves the one operation of a connection from the reactor to the strand, to the
pool, to the `io_context` and back, and to know that the place it moves to was
empty one must know that all others were. `SessionInv` says so (`OnePlace`), and
what an operation means: a session in service that has none has ended; the timer
runs only with a read; `doRead` is posted before any request; a closed session
has ended. A handler about the operation finds nothing else in progress
(`HandlerFinds`) and leaves the connection in one of five ways (`HandlerLeaves`);
a timeout or a close is not about the operation and keeps it (`KeptInv`). From it:

* `OneOperationAtATime`, with the places counted in `PlacesCounted`;
* `TimerRunsWithRead`.

A thread in `onWrite` that has decided to read again is the place of its
connection's operation too (`Deciding`, `DecidedFinds`): nothing else of the
connection is in progress then but a close, and that waits for the strand.

**ExchangeProofs.** That HttpServer implements Exchange needs `SessionInv`, which
gives the stage of a connection whose strand takes up a handler (`StageBefore`) and
the one it is left in (`StageAfter`), and two invariants more. `CloseInv`: a socket
is closed, or about to be, only by a draining server; without it an answer could be
dropped at any time, since `sendResponse` does nothing on a closed socket.
`AnswerAllowed`: an answer that keeps the connection is on its way only if
keep-alive is enabled. There is one lemma for each action, saying that it is a step
of its connection's exchange, and one that it leaves the others alone
(`OthersKept`). From them:

* `ServerImplementsExchange`, the refinement for every connection;
* `KeepaliveBounded`: Exchange bounds the requests of a connection (`CountInv`), so
  the server does;
* `ClosedOnlyDraining`;
* `ForcedCloseCovers`: in a behaviour in which no accept is in progress when the
  drain timer fires or later, every session counted from then on is in the snapshot
  or has a close on its strand. This is the safety half of `DrainCompletes`; that
  the closes are run, and the server then stops, is fairness and stays with TLC;
* `ReadsAreTimed`: a session that is counted and being read has its timer running
  or the handler of the timeout on its strand, also when the server began to drain
  while `onWrite` was about to read (`ReadBegins`, and `TimedStep`: only `onRead`, which has
  the read, cancels the timer, and the timeout's handler ends the session). This is
  the safety half of `SilentConnectionUncounted`.

**AsyncLoggerProofs.** `HeldInOrder` (what was accepted is what is written, held
and queued, in this order) is inductive with the types, by associativity of
concatenation; `ControlInv` adds that a consumer leaves only when told to and with
what was due written. From it `MessagesHeldInOrder`, `ShutdownFlushes`,
`ConsumerWoken`, `NothingWrittenLate` (after a shutdown has returned nothing is
written: `SilentAfterReturn`, which no run checks separately) and
`LoggerImplementsService`.

**ServerLifeProofs.** `LifeInv` relates the phase of the pool to the place of main:
once main has gone past the pool without an abort, no task is outstanding or no
worker was ever started: `DestroyedUnused`. `LogInv` does the same for the logger,
whose output is a prefix of what it accepted and holds what is due when it has been
closed: `DestroyedFlushed`.

**ConfigurationProofs.** For the store, `FileInv` says where the file may be
damaged, missing or another than the latest edit: only while it is written, or
through one of the faults, each of which it names. From it `LatestEditKept` and `OnlyBrokenPutAside`. For the
settings:

* `TypesCorrect`: `SettingsInv` says what each field can hold. It is tighter than
  the type invariant, since a time-out may be negative and a truth value is 0 or 1;
  that an assignment fits the field it narrows to is `NarrowFits`, and that whatever
  a document holds fits once converted is `FromJsonFits`.
* `FlagsOverrideDocument`: of a command line of flags and values, read up to `i`,
  each field holds what the last of its flags before `i` says, and without one what
  the document says (`LastCounts`), for some result of an undefined conversion if
  the document asks for one.
* `SecondStartSame`: `JsonRoundTrip` (`fromJson` after `toJson` is the identity on
  settings that fit, but for a pool without workers) and an invariant that the
  defaults are kept while there is neither document nor flag.

**ResponsesProofs.** `ScanInv` is the invariant of the router's loop: the best so
far is the longest of the matching keys visited. From it `RouterAnswersLongest`.
For static files `LooksInv` says what the looks so far have shown: from the check of
the size on, the path has led to a file within the limit; what is open has been
there; and no more was copied than it once held. The read that finds the end adds
that no less was copied than it holds then: from both, `AnswersJustified` bounds the
length of a body by two versions of the file.

**Only model-checked.** Liveness (`NoStarvation`, the returns of the shutdowns,
`DrainCompletes`, `RequestsAreAnswered`, `SilentConnectionUncounted`,
`EventuallyWritten`, `StopsWhenTold`, `FailureEnds`), whose proofs need fairness and
ENABLED, which the prover does not handle. Every other property of a passing run is the
statement of a theorem. The type invariant of HttpServer is proved only
(`ServerTypeCorrect`): no run repeats it.

## 6. What the runs found

1. **`max_connections` can be exceeded** (run ConnectionLimit). `doAccept` is
   called at `server.cpp:159`, before the connection is counted at 168. The excess
   is at most `io_threads + 1`, which is checked (ConnectionBound) and proved.
2. **A read timeout does not close the connection** (run ReadTimeout).
   `session.cpp:139-145` only removes the session from the count; the socket stays
   open and the read stays pending, so the client may go on being served,
   uncounted.
3. **A drain may not end** (run LateSession). The accept armed before the signal is
   not cancelled. A connection it takes after the drain timer's snapshot
   (`server.cpp:85`) is never forced to close; writes have no timeout.
   `DrainCompletes` shows that such a session is the only thing a drain can wait
   for: in a behaviour without a late accept every signal stops the server.

The models also contain the following behaviours of the code, which the properties
allow for by name; no run is kept for them.

* A configuration that exists and cannot be opened is handled as a missing one,
  and overwritten (`config.cpp:282`); after a rename that failed the broken one is
  too (`config.cpp:296`). `UserWorkKept` says which of them costs which edit, and
  that a backup is replaced by the damaged file that a failed write or a death left.
* Numbers out of range are taken modulo the width of their field, `true` is a port
  of 1, and a floating point number out of range is undefined behaviour; 0 is
  accepted for `sample_rate`, by which `session.cpp:98` divides.
* The limit on the size of static files is checked at one moment and the file read
  at others: the body may be over the limit, and need not be any version of the file.
* A response to HEAD has a Content-Length of 0, and not that of the file whose
  headers README.md:116 promises: `static_file_handler.cpp:113-116` clears the body
  before `prepare_payload` (`request_processor.cpp:104`) counts it. The text of an
  error keeps its body. `AnswerJustified` says nothing of the length for HEAD.
* An exception after the first I/O thread runs leads to a join that waits for a
  signal (`server.cpp:253`); `FailureEnds` excludes it.
* A pool that was not started is waited for until the timeout, or not at all when
  there is none.

## 7. Not modelled

* `StatusHandler` changes no state: it reads two numbers under the lock of the
  queue and formats them.
* Formatting of times, JSON and messages (`utils.hpp`), parsing of JSON (a library)
  and the compute function, which are pure.
* What is outside the parts of section 2 listed there: half-started pools, a done
  callback that throws, paths and MIME types, text settings.
* The data race on `m_drainTimer` between the signal handler and
  `checkDrainComplete` (`server.cpp:72`): the cancel is left out of the model, as
  it happens only with the stop of the `io_context`.

## 8. What could follow

1. An abstract specification of the admission of connections (a bounded set of
   sessions that only drains after a signal), implemented by `HttpServer`.
2. `HttpServer` with `ServerLife`'s start-up, so that the stop of the
   `io_context` in the latter is the one of the former.
3. The safety halves of the other liveness properties, as `ForcedCloseCovers` is
   for `DrainCompletes` and `ReadsAreTimed` for `SilentConnectionUncounted`: what is
   left of the work decreases with every fair step.

## 9. Running

```
tlc -config ThreadPoolSafety.cfg MCThreadPool.tla     # and ThreadPoolLiveness
tlc -config HttpServerSafety.cfg MCHttpServer.tla     # and ConnectionBound,
        # HttpServerLiveness, ConnectionLimit, ReadTimeout, LateSession
tlc -config Logger.cfg MCAsyncLogger.tla
tlc -config ServerLife.cfg MCServerLife.tla
tlc -config Configuration.cfg MCConfiguration.tla     # half a minute
tlc -config Responses.cfg MCResponses.tla
tlapm ThreadPoolProofs.tla                            # likewise the other *Proofs
```
