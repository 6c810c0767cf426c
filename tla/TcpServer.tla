------------------------------ MODULE TcpServer ------------------------------
(***************************************************************************)
(* The life of accepted connections: net/TcpServer.cc, net/TcpConnection.cc*)
(* the connection callback of http/HttpServer.cpp and the idle-connection  *)
(* closer of http/HttpTimer.cpp, across the base loop and the I/O loops.   *)
(*                                                                         *)
(* Every loop is the FIFO executor of module FunctorQueue (EventLoop       *)
(* implements it): queue[l] holds what was queued on l and has not run.    *)
(* Handlers of one loop never interleave with each other.  Two loops       *)
(* interleave wherever a handler of one reads or writes state_ that the    *)
(* other writes; there the handler is cut into steps and pc[l] says what   *)
(* is left of it.  With no worker, everything runs in the base loop.       *)
(*                                                                         *)
(* Time is abstract: an idle connection may be found expired at any tick   *)
(* (module HttpTimer has the ages), a delayed close may be due at any time *)
(* after it was armed.  Payload is abstract: output[c] says that bytes are *)
(* waiting in outputBuffer_.                                               *)
(***************************************************************************)
EXTENDS Integers, Sequences, FiniteSets, Functions

CONSTANTS Conn,           \* the connections that clients may open
          Base,           \* the loop of the acceptor and of HttpTimer
          Workers,        \* loops_ of EventLoopThreadPool, in order
          MaxConnections, \* kMaxConnections_
          KeepAlive       \* keepalive_timeout > 0: there is an HttpTimer

Loop == {Base} \cup Range(Workers)

ASSUME TcpServerConstants ==
  /\ MaxConnections \in Nat
  /\ KeepAlive \in BOOLEAN
  /\ Workers \in Seq(Range(Workers)) /\ Base \notin Range(Workers)

VARIABLES state,        \* state_ of each connection, "none" before accept
          loopOf,       \* loop_
          next,         \* next_ of the thread pool, from 1
          events,       \* events_ of the connection's channel
          added,        \* addedToLoop_ of the connection's channel
          output,       \* outputBuffer_ is not empty
          finSent,      \* shutdownWrite was called
          connections,  \* connections_ of the TcpServer
          timerList,    \* connectionList_ of the HttpTimer (weak pointers)
          numConnected, \* numConnected_
          delayed,      \* how many delayed forceClose timers are armed
          queue,        \* per loop: functors queued and not yet run
          pc,           \* per loop: the rest of the running handler
          aborted       \* the assertion that ended the program, or "no"

vars == <<state, loopOf, next, events, added, output, finSent, connections,
          timerList, numConnected, delayed, queue, pc, aborted>>

Idle == <<"idle">>
Task(op, c) == <<op, c>>

Init ==
  /\ state = [c \in Conn |-> "none"]
  /\ loopOf = [c \in Conn |-> Base]
  /\ next = 1
  /\ events = [c \in Conn |-> {}]
  /\ added = [c \in Conn |-> FALSE]
  /\ output = [c \in Conn |-> FALSE]
  /\ finSent = [c \in Conn |-> FALSE]
  /\ connections = {}
  /\ timerList = {}
  /\ numConnected = 0
  /\ delayed = [c \in Conn |-> 0]
  /\ queue = [l \in Loop |-> <<>>]
  /\ pc = [l \in Loop |-> Idle]
  /\ aborted = "no"

\* Functors bound to a shared_ptr keep the connection alive; the one that
\* shutdown() queues is bound to this, the delayed one to a weak_ptr.
StrongOps == {"connectEstablished", "forceCloseInLoop",
              "removeConnectionInLoop", "connectDestroyed"}

Queued(op, c) == \E l \in Loop : Task(op, c) \in Range(queue[l])

Alive(c) ==
  \/ c \in connections
  \/ \E op \in StrongOps : Queued(op, c)
  \/ \E l \in Loop : pc[l] # Idle /\ pc[l][2] = c

Push(q, l, op, c) == [q EXCEPT ![l] = Append(@, Task(op, c))]

-----------------------------------------------------------------------------
(* Pieces of TcpConnection that run within one step of its loop.           *)

\* Mutant: the test of isWriting() is forgotten.
ShutdownInLoopAtOnce(c) ==
  finSent' = [finSent EXCEPT ![c] = TRUE]

\* shutdownInLoop: only when nothing is left to write.
ShutdownInLoop(c) ==
  finSent' = [finSent EXCEPT ![c] = @ \/ "write" \notin events[c]]

\* Mutant: connectDestroyed is not queued on the connection's loop.
RemoveWithoutDestroy(q, c) ==
  /\ aborted' = IF c \in connections THEN "no" ELSE "n == 1"
  /\ connections' = connections \ {c}
  /\ queue' = q

\* Mutant: the connection stays in connections_.
RemoveWithoutErase(q, c) ==
  /\ UNCHANGED <<aborted, connections>>
  /\ queue' = Push(q, loopOf[c], "connectDestroyed", c)

\* TcpServer::removeConnectionInLoop, in the base loop, on queue q.
RemoveConnectionInLoop(q, c) ==
  /\ aborted' = IF c \in connections THEN "no" ELSE "n == 1"
  /\ connections' = connections \ {c}
  /\ queue' = Push(q, loopOf[c], "connectDestroyed", c)

\* handleClose up to the connection callback; the rest is pc[l].
HandleClose(c) ==
  /\ aborted' = IF state[c] \in {"kConnected", "kDisconnecting"}
                  THEN "no" ELSE "handleClose"
  /\ state' = [state EXCEPT ![c] = "kDisconnected"]
  /\ events' = [events EXCEPT ![c] = {}]
  /\ pc' = [pc EXCEPT ![loopOf[c]] = <<"closed", c>>]

-----------------------------------------------------------------------------
(* TcpServer                                                               *)

\* The loop whose turn it is, or the base loop if there are no others.
GetNextLoop == IF Workers = <<>> THEN Base ELSE Workers[next]

\* The index getNextLoop leaves behind.
NextIndex == IF next >= Len(Workers) THEN 1 ELSE next + 1

\* Mutant: the limit is one too high.
EstablishOneMore(c) ==
  /\ events' = [events EXCEPT ![c] = {"read"}]
  /\ added' = [added EXCEPT ![c] = TRUE]
  /\ numConnected' = numConnected + 1
  /\ IF numConnected > MaxConnections
       THEN /\ state' = [state EXCEPT ![c] = "kDisconnecting"]
            /\ finSent' = [finSent EXCEPT ![c] = TRUE]
            /\ delayed' = [delayed EXCEPT ![c] = @ + 1]
       ELSE /\ state' = [state EXCEPT ![c] = "kConnected"]
            /\ UNCHANGED <<finSent, delayed>>
  /\ timerList' = IF KeepAlive THEN timerList \cup {c} ELSE timerList

\* connectEstablished with HttpServer::onConnection: a connection over the
\* limit is shut down and closed after a delay, and is counted nonetheless.
Establish(c) ==
  /\ events' = [events EXCEPT ![c] = {"read"}]
  /\ added' = [added EXCEPT ![c] = TRUE]
  /\ numConnected' = numConnected + 1
  /\ IF numConnected + 1 > MaxConnections
       THEN /\ state' = [state EXCEPT ![c] = "kDisconnecting"]
            /\ finSent' = [finSent EXCEPT ![c] = TRUE]
            /\ delayed' = [delayed EXCEPT ![c] = @ + 1]
       ELSE /\ state' = [state EXCEPT ![c] = "kConnected"]
            /\ UNCHANGED <<finSent, delayed>>
  /\ timerList' = IF KeepAlive THEN timerList \cup {c} ELSE timerList

\* newConnection: runInLoop establishes the connection at once in the base
\* loop, and queues connectEstablished on any other.
NewConnection(c) ==
  /\ pc[Base] = Idle
  /\ state[c] = "none"
  /\ loopOf' = [loopOf EXCEPT ![c] = GetNextLoop]
  /\ next' = NextIndex
  /\ connections' = connections \cup {c}
  /\ IF GetNextLoop = Base
       THEN Establish(c) /\ UNCHANGED queue
       ELSE /\ state' = [state EXCEPT ![c] = "kConnecting"]
            /\ queue' = Push(queue, GetNextLoop, "connectEstablished", c)
            /\ UNCHANGED <<events, added, numConnected, finSent, delayed, timerList>>
  /\ UNCHANGED <<output, pc, aborted>>

\* The functor at the head of l's queue.
Runs(l, op, c) ==
  /\ pc[l] = Idle
  /\ queue[l] # <<>>
  /\ Head(queue[l]) = Task(op, c)

Rest(l) == [queue EXCEPT ![l] = Tail(@)]

ConnectEstablished(l, c) ==
  /\ Runs(l, "connectEstablished", c)
  /\ aborted' = IF state[c] = "kConnecting" THEN "no" ELSE "connectEstablished"
  /\ Establish(c)
  /\ queue' = Rest(l)
  /\ UNCHANGED <<loopOf, next, output, connections, pc>>

\* connectDestroyed; its first branch, for a connection that is still up, is
\* taken only when ~TcpServer calls it.
ConnectDestroyed(l, c) ==
  /\ Runs(l, "connectDestroyed", c)
  /\ aborted' = IF events[c] = {} THEN "no" ELSE "isNoneEvent()"
  /\ added' = [added EXCEPT ![c] = FALSE]
  /\ queue' = Rest(l)
  /\ UNCHANGED <<state, loopOf, next, events, output, finSent, connections,
                 timerList, numConnected, delayed, pc>>

RunRemoveConnection(c) ==
  /\ Runs(Base, "removeConnectionInLoop", c)
  /\ RemoveConnectionInLoop(Rest(Base), c)
  /\ UNCHANGED <<state, loopOf, next, events, added, output, finSent,
                 timerList, numConnected, delayed, pc>>

RunShutdownInLoop(l, c) ==
  /\ Runs(l, "shutdownInLoop", c)
  /\ ShutdownInLoop(c)
  /\ queue' = Rest(l)
  /\ UNCHANGED <<state, loopOf, next, events, added, output, connections,
                 timerList, numConnected, delayed, pc, aborted>>

\* TimerQueue::addTimerInLoop, queued by runAfter from the base loop.
RunAddTimer(l, c) ==
  /\ Runs(l, "addTimerInLoop", c)
  /\ delayed' = [delayed EXCEPT ![c] = @ + 1]
  /\ queue' = Rest(l)
  /\ UNCHANGED <<state, loopOf, next, events, added, output, finSent,
                 connections, timerList, numConnected, pc, aborted>>

\* Mutant: forceCloseInLoop does not look at the state again.
RunForceCloseUnchecked(l, c) ==
  /\ Runs(l, "forceCloseInLoop", c)
  /\ queue' = Rest(l)
  /\ HandleClose(c)
  /\ UNCHANGED <<loopOf, next, added, output, finSent, connections, timerList,
                 numConnected, delayed>>

\* forceCloseInLoop: the connection may have gone down since it was queued.
RunForceCloseInLoop(l, c) ==
  /\ Runs(l, "forceCloseInLoop", c)
  /\ queue' = Rest(l)
  /\ IF state[c] \in {"kConnected", "kDisconnecting"}
       THEN HandleClose(c)
       ELSE UNCHANGED <<state, events, pc, aborted>>
  /\ UNCHANGED <<loopOf, next, added, output, finSent, connections, timerList,
                 numConnected, delayed>>

-----------------------------------------------------------------------------
(* Events on the connection's channel, in its loop.                        *)

\* handleRead with data: the message callback sends nothing (the request is
\* incomplete or was forwarded), or a response, after which it may shut down.
\* send() and shutdown() act on a connected connection only; sendInLoop
\* writes at once when nothing is waiting, and leaves the rest to handleWrite.
HandleRead(c) ==
  /\ pc[loopOf[c]] = Idle
  /\ "read" \in events[c]
  /\ state[c] = "kConnected"
  /\ \E left, close \in BOOLEAN :
       LET waits == output[c] \/ left
       IN  /\ output' = [output EXCEPT ![c] = waits]
           /\ events' = [events EXCEPT ![c] = IF waits THEN @ \cup {"write"} ELSE @]
           /\ finSent' = [finSent EXCEPT ![c] = @ \/ (close /\ ~waits)]
           /\ state' = [state EXCEPT ![c] = IF close THEN "kDisconnecting" ELSE @]
  /\ UNCHANGED <<loopOf, next, added, connections, timerList, numConnected,
                 delayed, queue, pc, aborted>>

\* handleRead at end of file, or a hang-up.
HandleHangup(c) ==
  /\ pc[loopOf[c]] = Idle
  /\ events[c] # {}
  /\ HandleClose(c)
  /\ UNCHANGED <<loopOf, next, added, output, finSent, connections, timerList,
                 numConnected, delayed, queue>>

\* handleWrite that empties outputBuffer_.
HandleWrite(c) ==
  /\ pc[loopOf[c]] = Idle
  /\ "write" \in events[c]
  /\ output' = [output EXCEPT ![c] = FALSE]
  /\ events' = [events EXCEPT ![c] = @ \ {"write"}]
  /\ finSent' = [finSent EXCEPT ![c] = @ \/ state[c] = "kDisconnecting"]
  /\ UNCHANGED <<state, loopOf, next, added, connections, timerList,
                 numConnected, delayed, queue, pc, aborted>>

\* Mutant: forceClose acts on a connected connection only.
DelayedForceCloseConnected(c) ==
  /\ pc[loopOf[c]] = Idle
  /\ delayed[c] > 0
  /\ delayed' = [delayed EXCEPT ![c] = @ - 1]
  /\ IF Alive(c) /\ state[c] = "kConnected"
       THEN /\ state' = [state EXCEPT ![c] = "kDisconnecting"]
            /\ queue' = Push(queue, loopOf[c], "forceCloseInLoop", c)
       ELSE UNCHANGED <<state, queue>>
  /\ UNCHANGED <<loopOf, next, events, added, output, finSent, connections,
                 timerList, numConnected, pc, aborted>>

\* The delayed forceClose falls due; its weak_ptr may have expired.
DelayedForceClose(c) ==
  /\ pc[loopOf[c]] = Idle
  /\ delayed[c] > 0
  /\ delayed' = [delayed EXCEPT ![c] = @ - 1]
  /\ IF Alive(c) /\ state[c] \in {"kConnected", "kDisconnecting"}
       THEN /\ state' = [state EXCEPT ![c] = "kDisconnecting"]
            /\ queue' = Push(queue, loopOf[c], "forceCloseInLoop", c)
       ELSE UNCHANGED <<state, queue>>
  /\ UNCHANGED <<loopOf, next, events, added, output, finSent, connections,
                 timerList, numConnected, pc, aborted>>

-----------------------------------------------------------------------------
(* The rest of handleClose: HttpServer::onConnection, then closeCallback_. *)

\* closeCallback_ is TcpServer::removeConnection: at once in the base loop,
\* queued on it from any other.
CloseCallback(q, l, c) ==
  /\ IF l = Base
       THEN RemoveConnectionInLoop(q, c)
       ELSE /\ queue' = Push(q, Base, "removeConnectionInLoop", c)
            /\ UNCHANGED <<connections, aborted>>
  /\ pc' = [pc EXCEPT ![l] = Idle]
  /\ UNCHANGED <<loopOf, next, events, added, output, finSent, timerList, delayed>>

\* onConnection tests disconnected() ...
OnDisconnected(l, c) ==
  /\ pc[l] = <<"closed", c>>
  /\ state[c] = "kDisconnected"
  /\ pc' = [pc EXCEPT ![l] = <<"down", c>>]
  /\ UNCHANGED <<state, loopOf, next, events, added, output, finSent,
                 connections, timerList, numConnected, delayed, queue, aborted>>

\* ... does nothing if that is not so any more ...
OnNotDisconnected(l, c) ==
  /\ pc[l] = <<"closed", c>>
  /\ state[c] # "kDisconnected"
  /\ CloseCallback(queue, l, c)
  /\ UNCHANGED <<state, numConnected>>

\* ... and otherwise calls forceClose() and decrements numConnected_.
OnDown(l, c) ==
  /\ pc[l] = <<"down", c>>
  /\ CloseCallback(IF state[c] = "kDisconnecting"
                     THEN Push(queue, l, "forceCloseInLoop", c) ELSE queue,
                   l, c)
  /\ numConnected' = numConnected - 1
  /\ UNCHANGED state

-----------------------------------------------------------------------------
(* HttpTimer::onTimer, in the base loop, on a connection found expired:    *)
(* shutdown() and forceCloseWithDelay() called from outside its loop.      *)

OnTimer(c) ==
  /\ pc[Base] = Idle
  /\ c \in timerList
  /\ Alive(c)
  /\ state[c] = "kConnected"
  /\ pc' = [pc EXCEPT ![Base] = <<"shutdown", c>>]
  /\ UNCHANGED <<state, loopOf, next, events, added, output, finSent,
                 connections, timerList, numConnected, delayed, queue, aborted>>

ShutdownTest(c) ==
  /\ pc[Base] = <<"shutdown", c>>
  /\ pc' = [pc EXCEPT ![Base] =
              <<IF state[c] = "kConnected" THEN "shutdownSet" ELSE "delay", c>>]
  /\ UNCHANGED <<state, loopOf, next, events, added, output, finSent,
                 connections, timerList, numConnected, delayed, queue, aborted>>

ShutdownSet(c) ==
  /\ pc[Base] = <<"shutdownSet", c>>
  /\ state' = [state EXCEPT ![c] = "kDisconnecting"]
  /\ IF loopOf[c] = Base
       THEN ShutdownInLoop(c) /\ UNCHANGED queue
       ELSE /\ queue' = Push(queue, loopOf[c], "shutdownInLoop", c)
            /\ UNCHANGED finSent
  /\ pc' = [pc EXCEPT ![Base] = <<"delay", c>>]
  /\ UNCHANGED <<loopOf, next, events, added, output, connections, timerList,
                 numConnected, delayed, aborted>>

DelayTest(c) ==
  /\ pc[Base] = <<"delay", c>>
  /\ pc' = [pc EXCEPT ![Base] =
              IF state[c] \in {"kConnected", "kDisconnecting"}
                THEN <<"delaySet", c>> ELSE Idle]
  /\ UNCHANGED <<state, loopOf, next, events, added, output, finSent,
                 connections, timerList, numConnected, delayed, queue, aborted>>

DelaySet(c) ==
  /\ pc[Base] = <<"delaySet", c>>
  /\ state' = [state EXCEPT ![c] = "kDisconnecting"]
  /\ IF loopOf[c] = Base
       THEN delayed' = [delayed EXCEPT ![c] = @ + 1] /\ UNCHANGED queue
       ELSE /\ queue' = Push(queue, loopOf[c], "addTimerInLoop", c)
            /\ UNCHANGED delayed
  /\ pc' = [pc EXCEPT ![Base] = Idle]
  /\ UNCHANGED <<loopOf, next, events, added, output, finSent, connections,
                 timerList, numConnected, aborted>>

-----------------------------------------------------------------------------
LoopStep(l, c) ==
  \/ ConnectEstablished(l, c)
  \/ ConnectDestroyed(l, c)
  \/ RunShutdownInLoop(l, c)
  \/ RunAddTimer(l, c)
  \/ RunForceCloseInLoop(l, c)
  \/ OnDisconnected(l, c)
  \/ OnNotDisconnected(l, c)
  \/ OnDown(l, c)

TimerStep(c) ==
  \/ ShutdownTest(c)
  \/ ShutdownSet(c)
  \/ DelayTest(c)
  \/ DelaySet(c)

ConnStep(c) ==
  \/ NewConnection(c)
  \/ HandleRead(c)
  \/ HandleHangup(c)
  \/ HandleWrite(c)
  \/ DelayedForceClose(c)
  \/ RunRemoveConnection(c)
  \/ OnTimer(c)
  \/ TimerStep(c)
  \/ \E l \in Loop : LoopStep(l, c)

\* A failed assertion ends the program.
Next == aborted = "no" /\ \E c \in Conn : ConnStep(c)

Spec == Init /\ [][Next]_vars

\* A loop finishes the handler it is in and comes round to its functors, and
\* timerfd fires; clients and expiry owe nothing.
Fairness ==
  /\ \A l \in Loop :
       WF_vars(aborted = "no" /\ \E c \in Conn :
                 LoopStep(l, c) \/ (l = Base /\ (RunRemoveConnection(c) \/ TimerStep(c))))
  /\ \A c \in Conn : WF_vars(aborted = "no" /\ DelayedForceClose(c))

FairSpec == Spec /\ Fairness

-----------------------------------------------------------------------------
\* No assertion of connectEstablished, handleClose, Channel::remove or
\* removeConnectionInLoop ever fails: each connection is established once,
\* closed once, and taken out of connections_ and of its poller once.
NoAssertFails == aborted = "no"

\* The destructor's assert(state_ == kDisconnected), and Channel's own: when
\* the last shared_ptr goes, the connection is down and out of its poller.
DestroyedClean ==
  \A c \in Conn : state[c] # "none" /\ ~Alive(c) =>
    state[c] = "kDisconnected" /\ ~added[c]

\* shutdown() queues shutdownInLoop bound to a bare this: the connection is
\* still there when the functor runs.
RawThisAlive ==
  \A c \in Conn : Queued("shutdownInLoop", c) => Alive(c)

\* Until the connection closes, the write side is shut down only after all
\* that was sent has been written: shutdown() never cuts a response off.
FinAfterOutput ==
  \A c \in Conn : finSent[c] /\ "read" \in events[c] => ~output[c]

\* numConnected_ counts the connections that are up, or whose down callback
\* has not yet counted them out, and no more than kMaxConnections_ of them are
\* served at a time, though each I/O thread decides for its own.
CountExact ==
  /\ numConnected =
       Cardinality({c \in Conn :
         \/ state[c] \in {"kConnected", "kDisconnecting"}
         \/ \E l \in Loop : pc[l] \in {<<"closed", c>>, <<"down", c>>}})
  /\ Cardinality({c \in Conn : state[c] = "kConnected"}) <= MaxConnections

\* A connection whose delayed close was requested goes down, whatever its
\* client does.
DelayedCloseWorks ==
  \A c \in Conn :
    delayed[c] > 0 ~> state[c] = "kDisconnected"

\* A connection that went down is released: no shared_ptr to it is left.
DownIsReleased ==
  \A c \in Conn : state[c] = "kDisconnected" ~> ~Alive(c)
=============================================================================
