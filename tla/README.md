# CuBer in TLA+

CuBer is an HTTP server and reverse proxy on a reactor derived from muduo. This
directory holds TLA+ models of its parts, the TLC configurations that check them
on small instances, and TLAPS proofs of their central properties for all
instances. `PROJECT.json` lists every run, mutant, theorem and hazard, and maps
each definition to the lines it models.

## The system

* A **base loop** in the main thread accepts connections (`net/Acceptor`,
  `net/TcpServer`) and runs the **idle timer** (`http/HttpTimer`) once a second.
* **I/O loops** (`net/EventLoop`), each in an `net/EventLoopThread` of the pool,
  run the connections handed to them in turn. With `workers: 0` the base loop does.
* A **connection** (`net/TcpConnection`) belongs to one loop. Other threads reach
  it with functors queued on that loop, or, in the case of `HttpTimer`, by
  calling its methods directly.
* Each loop has a **timer queue** (`net/TimerQueue`), and each connection two
  **buffers** (`net/Buffer`).
* The **HTTP layer** parses requests (`HttpContext`), passes them down a chain of
  handlers (access, static files, POST, proxy, default) and answers through a
  chain of filters. The proxy handler opens a client connection (`TcpClient`,
  `Connector`) to the upstream, in the loop of the client's connection.
* Every loop watches its descriptors through **channels** and a **poller** (epoll,
  or poll when `CUBER_USE_POLL` is set); acceptor, connector and connections all
  open and close descriptors of one table.
* All threads log through an **asynchronous logger** (`base/AsyncLogging`), whose
  thread writes **rolled files** (`base/LogFile`).
* At start `main` reads the **configuration** (`config/ServerConfig`) from a file
  that the vendored **yaml-cpp** scans, parses and builds into nodes.

## Modules

| Module | Models | State and actions |
|---|---|---|
| `FunctorQueue` | what `queueInLoop` promises | abstract FIFO executor |
| `EventLoop` | `net/EventLoop.cc` | one variable per member (`quit_`, `pendingFunctors_`, ...), the eventfd, and a program counter; `loop()` is cut at every point where another thread can act; `queueInLoop` and `quit` of other threads are two steps, the change and the `wakeup()` |
| `EventLoopThread` | `net/EventLoopThread.cc`, `Thread::start`, `CountDownLatch` | extends `EventLoop` with the owner and the worker |
| `TcpServer` | `net/TcpServer.cc`, `net/TcpConnection.cc`, `HttpServer::onConnection`, the closing done by `HttpTimer` | each loop is the executor of `FunctorQueue`; handlers are one step, but for those that race on `state_`, which are cut at each access |
| `TimerQueue` | `net/TimerQueue.cc`, `net/Timer.cc` | both sets, the heap with reused addresses, the timerfd, times relative to the clock |
| `ByteQueue`, `Buffer` | `net/Buffer.h`, `readFd` | abstract byte queue; the vector with stale bytes and both indices |
| `AsyncLogging` | `base/AsyncLogging.cc` | the four buffers, the backlog and the file; the lock-free half of `threadFunc` is a step for the cut, one for each buffer appended and one for the rest |
| `LogFile` | `base/LogFile.cc` | extends `AsyncLogging`: its one file becomes files named by the second they were opened in, with stdio's buffer, and a clock that may be set |
| `Poller` | `net/poller/*.cc`, `EventLoop::updateChannel`, `removeChannel` | both pollers as operators on a record: the channel map, each channel's `index_`, and what the kernel watches |
| `Sockets` | `net/Acceptor.cc`, `net/Connector.cc`, `net/TcpClient.cc`, `net/Channel.cc` | one loop with an acceptor, accepted connections and a client; a turn is poll, the handlers in some order, the functors; each function of the code is an operator from state to state, cut (`at`) where `Connector` tests or sets `connect_`, which `stop()` clears from other threads |
| `HttpTimer` | `http/HttpTimer.cpp` | the list in order of acceptance, with ages, and the iterator of `onTimer`; the walk is a step for each connection, between which the I/O threads act; `push_back` and `erase` are cut at their accesses to the links, and what overlaps leaves the list `torn` |
| `HttpServer` | `HttpServer::onMessage` and `onRequest`, `HttpContext`, the handlers and filters, `HttpProxyHandler`, `HttpProxy`, `HttpResponseContext`, and `TcpClient` with `Connector` as the proxy uses them | one client connection and the proxies made for it; a stream is a sequence of lines and body bytes; each turn of the loops in `parseRequest`, `onRequest` and `parseResponse` is a step |
| `ServerConfig` | `main.cpp`, `config/ServerConfig.cpp`, the part of `YAML::Node` it calls | the document as a graph of nodes with their `m_pRef`; one action per section, entry and step of `loadConfig` |
| `YamlExp`, `YamlStream` | the regular expressions of the scanner; encodings and read-ahead | operators on texts, a text being a sequence of characters |
| `YamlScalar`, `YamlScanner` | `scanscalar.cpp`, `scantag.cpp`; `scanner.cpp`, `scantoken.cpp`, `simplekey.cpp` | the scanner as a record: queue, indents, flow levels, simple keys |
| `YamlParser`, `YamlBuilder` | `parser.cpp`, `singledocparser.cpp`, `directives.cpp`; `nodebuilder.cpp` | the recursive descent as a stack of frames, one action per turn of its loops; the builder as a record |
| `YamlEmitter`, `YamlDump`, `YamlConvert` | `emitter.cpp`, `emitterstate.cpp`, `emitterutils.cpp`; `nodeevents.cpp`, `emitfromevents.cpp`; `binary.cpp`, `convert.cpp` | operators from emitter to emitter; conversions of bool, int, char and binary |
| `Yaml` | the whole of yaml-cpp | a client writes, `Load` reads, `Dump` writes, `Load` reads again |
| `EventLoop_proofs`, `TimerQueue_proofs`, `Buffer_proofs`, `LogFile_proofs`, `HttpTimer_proofs`, `HttpServer_proofs` | | theorems about the module of that name |
| `TcpServer_proofs` | | what steps do to queues and to other connections; the life of a connection, its removal and the count |
| `HttpRoute_proofs` | | extends `HttpServer_proofs`: which location answers a request |
| `MC_TcpServer`, `MC_HttpServer`, `MC_Sockets`, `MC_ServerConfig`, `MC_Yaml` | | the lists of I/O loops; locations, requests and replies; the programs around the loop; files; clients and texts |

How they compose: `EventLoopThread` extends `EventLoop`. `TcpServer` relies on
loops being FIFO executors, which `EventLoop` is proved to implement. Two
abstractions of time tie `TcpServer` to `HttpTimer` (a connection may be found
idle at any tick) and to `TimerQueue` (a delayed close may be due at any time).
`LogFile` extends `AsyncLogging`, `Sockets` extends `Poller`, and `ServerConfig`
reads the graph that `YamlBuilder` makes. `Sockets` takes from `EventLoop` that a
loop with functors wakes up, and from `TimerQueue` that an added timer runs.

Definitions that `PROJECT.json` lists under `mutants` are not part of the models.
Each is a plausible bug that, put in place of the definition it stands before,
breaks a property.

## Runs

| Run | Instance | Shows |
|---|---|---|
| `loop` | worker, owner, 2 other threads, 3 functors, 1 channel | no sleep on a functor; queued functors run; the loop implements `FunctorQueue`, so none is lost, doubled or reordered; `startLoop` returns, and a `quit()` that `loop()` sees lets the destructor join |
| `conn_workers` | 3 connections, 2 I/O loops, limit 2, no idle timer | no assertion fails, the count is exact and the limit holds; a delayed close closes; a closed connection is released |
| `conn_expiry` | 2 connections, 1 I/O loop, idle timer | the raw `this` of `shutdown()` does not dangle; a response is not cut off |
| `conn_race` (violated) | 1 connection, 1 I/O loop, idle timer | `assert(state_ == kDisconnected)` of the destructor can fail |
| `logging` | buffers of 3, cut above 3 buffers, 7 lines; files of 2, days of 2 s, a check every 2 appends | spare buffers come back; the files hold the lines in order, but for a reported backlog; they are rolled in time; each line is written |
| `timers` | 2 addresses, 3 timers, delays to 2, intervals 0 and 2 | the sets agree and timers are owned once, the timerfd is armed, cancels stick, an added timer runs unless canceled |
| `buffer` | 2 byte values, vectors to 7 | `Buffer` implements `ByteQueue` |
| `idle_list` | 3 connections, 0 to 2 workers, expiry 1 s, clock steps of 1 s | without workers the list is never torn; until it is, every live connection is on it once and the walk passes none that is idle; those the walk reaches are closed |
| `http` | 2 requests of 12 kinds, sent in any segments at any time; 6 replies; 5 locations; 2 proxies | until an overrun, requests are routed to the location that should serve them and answered once, in order, each by its own proxy, and entries of `clientConnMap` live as long as their proxy works; in which two situations an assertion fails; which requests are answered |
| `sockets` | tables of 3 and 4 descriptors, both pollers, no, one and unlimited retries, with and without `enableRetry` | no assertion fails and no `epoll_ctl` is refused; the kernel watches what the channels want; `connect()` is answered; after `stop()`, of any thread, nothing is begun but what was past its test; a full table does not stop the listen queue |
| `yaml` | about 150 kinds of clients of up to 6 calls, and all texts of up to 3 of 23 lexemes | what is written is read, in every encoding, and dumped and read again; settings end with their node; the scanner's keys stay in its queue; loading is linear; no assertion fails |
| `config` | files with each part complete or wrong in one way | what is served is what the file says; a complete file is not refused; every location resolves |

**Bounds.** Three functors let a batch run while a thread and a callback push.
Two I/O loops and the base loop are all the parties a connection ever meets, and
three connections over a limit of two give a refused one beside two served ones.
Three timers at two addresses force an address to be used again while its old
`TimerId` is held; an interval of 0 is a timer that runs once. Seven lines fill
enough buffers for a backlog to be cut, and three values of the clock give a roll
within a second, a new day and a clock set back. Vectors of seven bytes reach both
branches of `makeSpace` and both of `readFd`. Two requests show what the first
leaves behind in the context, the buffer and the map; their kinds reach every
handler, every error answer, a retry at a shorter location, a location met only
because the walk takes one character off `/bc`, a body that comes late and a second
request under a proxied first; a third proxy would add no state. Two workers are
enough for two `push_back`s to overlap, beside the base thread's `erase`. Two descriptors of
the four in `sockets` are the acceptor's, so that a connection and an attempt fill
the table and each closed descriptor is used again at once; one retry separates
the first attempt from the last. In `yaml` six calls reach a collection in a
collection with a shared node, and three lexemes every pair of tokens in every
state of the scanner; `MaxDepth` (6) stands for the parser's 500 and `IntBits`
(8) for the width of an int. In `config` one part of a file is wrong at a time,
in first and in later entries.

**The peers in `http`** do as they please: the client pipelines, cuts its bytes
anywhere, keeps back a body and leaves; an upstream sends less than its reply, or
more, and closes. The code has no place for some of this, and the model keeps what it
does then. The history variable `overrun` is set when bytes of the client arrive while
its request is with an upstream (`onMessage` handles that request again, at a shorter
location), and when bytes of an upstream arrive after its answer was passed on
(`onResponseMessage` answers again). `AnsweredRight` and `EntryPending` are about what
happens before; after an overrun responses do leave out of order. `NoAssertFails` says
where the assertions can fail: that of `setMethod` when bytes arrive on a connection
that was shut down after a bad request line, which stays in the buffer with its method in
the request; those on `clientConnMap` after an overrun. `asked[i].late` marks a POST that
was handled before its body had arrived: it is answered 404. `RequestAnswered` names the
ways to get no answer: the client leaves; the two loops that never end (`Spinning`),
`onRequest` on an empty path and `parseResponse` on a body that is not all there; an
upstream that fails to reply or a `connect(2)` error nobody is told of (`Forsaken`); a
failed assertion.

**Deadlock** is not checked where the program may stop: loops after `quit()`,
the logger after `stop()`, `TcpServer`, `HttpServer` and `Sockets` once the
bounded clients are done, `ServerConfig` once `main` runs or has refused.

**Fairness.** A loop thread is scheduled, and leaves `poll` when its eventfd is
readable; it owes nothing to the ten-second poll timeout or to clients. A thread
that has begun `queueInLoop` or `quit` finishes it. The clock advances, a due
timerfd is handled, and the logger's timed wait ends. In `HttpServer` a callback
goes on, and an upstream accepts or refuses and sends its reply. In `Sockets` the
kernel ends every attempt and every timer expires: strongly fair, because both
happen between the turns of a loop that goes on turning. Clients, appenders and
callers of `quit()` and `stop()` have no fairness.

## Proofs

`EventLoop_proofs`, for any sets of threads, functors and channels:

* `WakeupNotLost`: `Spec => []NoLostWakeup`, the invariant the `loop` run checks;
  `TypeCorrect`, `FunctorsNotLost`, `QuitNotLost`: the same for `TypeOK`,
  `NothingLost` and `NoLostQuit`, which `FifoExecutor` and `Lifecycle` of that run
  rest on.
* `Refinement`: `Spec => FQ!Spec`, with the batch followed by the pending
  functors as the abstract queue.

`NoLostWakeup` is not inductive: it speaks of `test` and `poll` only, while the
functor may have been queued during the batch. The inductive invariant adds
`Control` (the flag `callingPendingFunctors_` is set exactly while a batch runs,
and the batch is empty elsewhere) and `Awake` (from the start of a batch to the
next swap, a pending functor has its wakeup written or about to be).

`LogFile_proofs`, for every `BufferSize > 1`, `DropAbove >= 2`, roll size, period,
check and flush interval, and any setting of the clock:

* `LinesKeptInOrder` and `RollsInTime`: `SpecF => []P` for `FilesInOrder` and
  `RolledInTime` of the `logging` run; `AssertionsHoldF`: its `BuffersRecycled`.
* `AssertionsHold` and `TypeCorrect`: `BuffersRecycled` and `TypeOK` of
  `AsyncLogging` alone, without the files.

For the buffers the strengthening is `Spare`: `nextBuffer_` is gone only if a full
buffer waits, so when `newBuffer2` was given away at least two buffers are written,
from which both spares are remade. `DropAbove >= 2` is what makes the cut harmless.
For the files `FInv` follows the lines through their stages, disk, stdio's buffer,
buffers to write, full buffers and current buffer: each stage is in order
(`PiecesInOrder`), all of one stage comes before all of the next (`Ordered`), and
together they are the accepted lines but the dropped ones (`Complete`). `GoodFile`
says that the open file has the greatest name, so that a clock set back cannot
make `rollFile` open an older one; `Rolls` bounds `late` by `count_`.

`HttpTimer_proofs`, for any connections, workers, time limit and steps of the clock:

* `LiveWatched`: `Spec => []AllWatched`, the invariant of the `idle_list` run;
  `TypeCorrect`: its `TypeOK`.

The invariant adds `Once` (from the moment it is linked a connection is in one place
of the list, until it is gone), `Passed` (what the iterator has passed is not idle: it
was closed, or was heard of, or its time was reset, since), `Gone` (the node that is
being erased is that of a connection that is gone, so the step between reading its
neighbours and linking them loses nobody) and `Alone` (without workers `push_back` and
the walk are in one thread, so the list is never torn). The first three end with a
list that is torn; no theorem says that it stays whole with workers, as it need not.

`TimerQueue_proofs`, for any addresses, delays, intervals and number of timers:

* `TimersOwned`, `TimerfdArmed`, `CancelHolds`: `Spec => []P` for `OwnedOnce`,
  `Armed` and `CancelSticks`, the invariants of the `timers` run.

The inductive invariant adds `Numbered` (a sequence number is never used twice,
although addresses are), `CancelKept` (a timer canceled during its batch is in
`cancelingTimers_` until `reset` looks) and `ArmedAll`, which compares the timerfd
with every timer instead of the earliest. That a set of times has an earliest
member is `NatMin`, from the library's fact that `<` on the naturals is well-founded.

`Buffer_proofs`, for any bytes, sizes and reserve:

* `Refines`: `Spec => ByteStream`, the readable bytes being the abstract queue. The
  invariant is `Good` (the indices are in order and within the vector). Each
  function of the source has a lemma on what it does to the readable bytes; that of
  `makeSpace` includes its assertion.

`TcpServer_proofs`, for any connections, any I/O loops and any limit:

* `ThisOutlived` and `FinIsLast`: `RawThisAlive` and `FinAfterOutput`, the invariants
  of `conn_expiry`, with or without the idle timer.
* `AssertionsHold`, `CleanDestruction` and `CountHolds`: `NoAssertFails`,
  `DestroyedClean` and `CountExact`, the invariants of `conn_workers`, under `NoRace`:
  there is no idle timer, or no I/O loop beside the base loop. So they hold for
  `workers: 0` with the idle timer, for which there is no run. With both,
  `conn_race` violates `DestroyedClean`.

The first two rest on `Life`. It says for each `state_` which functors may be
queued, and that a `shutdownInLoop` left in the queue of a connection that is in no
map has that connection's `connectDestroyed`, which holds a `shared_ptr`, behind it.
The others add `Phase`: a connection that goes down is in exactly one stage of its
removal, and leaves `connections_` between the second and the third. Both are
invariants of a single connection. A frame lemma (`Same`) shows that steps for
another connection keep them; the count moves with the one connection that steps.

`HttpServer_proofs`, for any locations and files, any number of proxies and whatever
the client and the upstreams send, in any segments:

* `AssertionsHold` and `EntryHolds`: `NoAssertFails` and `EntryPending` of the `http`
  run; `InOrderAlways`: `AnsweredInOrder`, the first conjunct of `AnsweredRight`, until
  an overrun.

The only assumption on the streams (`StreamAssumption`) is that they and the paths in
them are sequences. The invariant `HInv` has two parts. `Steady` holds always: what the
control point says about the parser's state, and that a method left in the request at
the start of a line means that the connection was shut down. `Turn` and `Proxies` hold
until an overrun: on an open connection one more request is asked than answered while
one is in the context, and none else; at most one proxy works, for the request in the
context, and exactly then the client is in `clientConnMap`. An overrun is what would
break them: a handler entered under a working proxy, or a result of a proxy that has
none to give.

`HttpRoute_proofs`, with the same generality, for locations that end in a slash or not:

* `RoutedRight`: `AnsweredRight`, the invariant of the `http` run that says that, until
  an overrun, each answer is for its request and from a location that should serve it.

`WalkFinds` shows that the walk of `HttpAccessHandler` from slash to slash
(`MatchLength`) ends at the longest location that it can meet: the function with
these values solves the walk's recursion, and a least path length at which the two
differ is refuted. `Routes` makes of it that no prefix is missed that ends in a slash
or is the path itself (`Stops`), and that a resumed walk passes over exactly the static
locations that have no such file. The configuration does not make locations end in a
slash (`config/ServerConfig.cpp`). One that does not is also met where a walk resumes
one character below the location it leaves, so the location that serves may be longer
than the longest stop (`Chosen`); it is never shorter. The invariant `RInv` carries
this through a request's life: the request in the context is the last one asked, and
late only while it is handled (`InContext`); no stop that can serve it is longer than
where the walk stands, unless it is late (`Walked`); a proxy works only for a request
that is to be forwarded (`Forwarded`); and the answers given fit (`AnswersFit`).

Most leaves name `Zenon`. The translation to SMT of one leaf costs more the later in
a module it stands, and is given up after five seconds, so SMT is left for what
needs arithmetic, records and functions.

TLC has checked each inductive invariant on the instances of the runs.

Only model-checked:

* all liveness, which the prover cannot do;
* `Sockets`, for which no proof has been written;
* `ServerConfig` and yaml-cpp, whose recursive definitions are out of the prover's
  reach.

## Where the program disagrees with its texts

`conn_race` is a race in the program: `HttpTimer` closes connections from the base
thread, while `shutdown()` and `forceCloseWithDelay()` test and set `state_` in two
steps. `PROJECT.json` quotes the assertion it violates.

The other properties are stated for what the code does keep. What they leave out,
by a premise or by the instance, is:

* A `quit()` made after `loop_` is published and before the first line of `loop()`
  is forgotten there (`Lifecycle` has the premise).
* `AsyncLogging::threadFunc` ends without a last swap, so lines appended shortly
  before `stop()` are lost (`LineLeaves` ends at `stop()`), although
  `base/FileLogging.h:86` deletes the loggers to flush them.
* `HttpTimer::onTimer` stops at the first connection within its time. The list is
  in the order of acceptance, so an active connection shields idle ones behind it
  (`FrontReaped` is about those the walk reaches; compare `readme.md:18`).
* `parseResponse` never returns from a body that is not all there
  (`RequestAnswered` excepts `Spinning`; compare `http/HttpProxyHandler.h:18`).
* After an overrun, as described under the runs, a proxied request is handled twice,
  answers leave out of order and the assertion on `clientConnMap` may fail.
* With workers, `push_back` in two I/O threads, or in one while the base thread erases
  the last node, leaves a list in which a connection may be lost to the idle timer
  (`AllWatched` is about a list that is not `torn`).
* In `Sockets`: an acceptor that loses its spare descriptor to another thread does
  not get it back; errors of `connect(2)` that are not in the code's list are told
  to nobody; `connect()` on a full table ends the process; `connect()` after
  `stop()` with the retry timer still set would start the connector twice, and is
  not done. A `stop()` of another thread that falls between the test of
  `removeConnection` and the assignment in `restart()` is undone, and what was past its
  test of `connect_` is still done once; `StopSticks` says that nothing else is.
* In `ServerConfig`: sections that share a node through an alias (`SectionsUnshared`)
  are rewritten by the assignments to `node` in `loadConfig`; `index` of one port is
  left over for the next one that gives none (`IndexGiven`).
* In yaml-cpp: the comment before the client's actions in `Yaml` lists what the
  emitter writes so that it is not read back, and `Dumpable` the same for `Dump`.
  Further: once the stream has ended `EnsureTokensInQueue` hands out an unverified
  front; `LoadAll`, which the server does not use, makes no progress on a document
  that takes no token; a high surrogate without a low one is decoded as itself; byte
  4 ends a UTF-8 stream; `\N` and `\_` are read as one raw byte; `EndSeq` on a fresh
  emitter fails an assertion.

## Abstractions and limits

* Requests in `TcpServer` are answered within `handleRead` or not at all. The
  references the proxy holds in `clientConnMap`, which prolong the life of a
  connection, are not there yet, so `DownIsReleased` is about connections whose
  requests are not being proxied.
* The `~TcpServer` path (process exit) and `startRead`/`stopRead` (unused) are
  left out. `send` from another thread is not used by the server.
* `connectionList_` of `HttpTimer` is pushed to by I/O threads and walked by the
  base thread without a lock. `push_back` reads the last node, links to it and stores
  the new last node; `erase` reads the neighbours and links them. Of a list that was
  written by two of these at once nothing is assumed but that the walk may find any
  connection that was accepted, or the end. The race on the list's size, which nobody
  reads, and the iterator that `addHttpConnection` returns, which nobody uses, are left
  out. A walk is over before the clock moves on.
* The single-threaded configuration (`workers: 0`) is part of the `idle_list` run; of
  `TcpServer` no run checks it, but the theorems include it.
* `HttpServer` has one client connection. The map shared by the I/O threads
  without a lock, the formatting of messages and the access log are left out.
  Whether a file exists is a constant; that it can not be opened or mapped is a
  choice. A `Connection` header or version that asks to close is one header. A path is
  a sequence of characters, a stream one of lines and body bytes.
* In `AsyncLogging` all lines have length one, and a buffer is a few lines. In
  `LogFile` a failed write is left out.
* In `Sockets` the back-off delay is any number of turns, but outlasts the functors
  that are queued when it begins (it is half a second at least); a connection is closed by
  its peer and never by force (`TcpServer` has that), the bytes it carries are left
  out, and a self-connection is an error. `stop()` or `connect()` is called once.
* In `ServerConfig` a file is a document as the parser's events give it; which text
  denotes which number is a constant. Scalars are whole texts there, and sequences
  of characters in the Yaml modules.

## Not modelled

* `ThreadPool` and the blocking queues, which the server does not use. (`stop()` of
  the pool wakes takers and not producers that wait on a full queue.)
* The destructors of `TcpServer`, `TcpClient` and `Connector`: the server runs until
  the process ends, and proxies are never deleted. `~EventLoopThread` reads `loop_`
  without the mutex, which matters only for a loop that ends by itself.
* Data races on `clientConnMap`, which have no defined outcome.
* The logger registry, the formatting of log lines, dates and time zones, addresses,
  socket options and other thin wrappers of system calls.
* Of yaml-cpp: floating-point conversions, nodes built by hand and the merging of
  their memory, `LoadAll`, the standard-library conversions but those of the
  configuration, and the marks in error messages.
* `clientConnMap` in `TcpServer`, where an entry prolongs the life of a connection;
  the pressure-test build.
