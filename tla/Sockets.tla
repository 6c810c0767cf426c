------------------------------- MODULE Sockets ------------------------------
(***************************************************************************)
(* One EventLoop with what opens descriptors on it: the Acceptor, the      *)
(* connections it accepts, and a TcpClient with its Connector              *)
(* (src/net/Acceptor.cc, Connector.cc, TcpClient.cc, Channel.cc and the    *)
(* pollers).  A turn of the loop polls, runs the handlers of the active    *)
(* channels and of the expired timers, and then the pending functors       *)
(* (EventLoop::loop).  Descriptors come from a table of MaxFd entries that *)
(* other threads use too, and are reused as soon as they are closed.       *)
(*                                                                         *)
(* Taken from elsewhere: that a loop with pending functors wakes up        *)
(* (EventLoop) and that an added timer runs (TimerQueue).  The back-off    *)
(* delay is abstracted: a retry timer runs in any later turn, but outlasts *)
(* the functor that takes the channel of the failed attempt down, since it *)
(* is half a second at least and the loop does not stand still that long.  *)
(*                                                                         *)
(* stop() may be called on another thread.  A function of the loop's       *)
(* thread that tests or sets a flag stop() clears ends its step there;     *)
(* what it does next is a step of its own, before which the flag may have  *)
(* changed (variable at).                                                  *)
(***************************************************************************)
EXTENDS Poller

CONSTANTS MaxFd,       \* descriptors 1 .. MaxFd; Acceptor holds 1 and 2 from its start
          Worlds,      \* the programs: [kind: which poller, retry: enableRetry() called,
                       \*   maxRetry: maxRetry_ (-1: for ever), fds: the table's size,
                       \*   others: other threads open descriptors, sends: large answers]
          MaxBacklog   \* bound: peers waiting to be accepted at a time

ASSUME SocketsAssumption == MaxFd > 3 /\ MaxBacklog > 0

Fds == 1 .. MaxFd
listenFd == 1

\* Channels.  A TcpConnection closes its descriptor when it is destroyed, so
\* the descriptor names the connection and its channel.
Conns == 2 .. MaxFd
NoConn == 0
acceptCh == 1
connectCh == -1
timerCh == -2
Ch == {acceptCh, connectCh} \cup Conns
NoChannel == [fd |-> 0, events |-> {}, added |-> FALSE]

VARIABLES
  phase,     \* "poll", "events", "emfile", "functors"; "abort": the process has ended
  active,    \* activeChannels_ still to handle, with their revents_
  batch,     \* the functors doPendingFunctors() took
  backlog,   \* peers waiting in the listen queue
  step,      \* Acceptor::handleRead: the next call of its EMFILE branch
  idleFd,    \* Acceptor::idleFd_, -1 when an open or accept failed
  sock,      \* state of each descriptor
  poller, chan, pending,
  timers,    \* retry timers: [set, due]
  connector, \* [connect, state, channel, maxRetry]
  client,    \* TcpClient: [connect, retry, connection]
  at,        \* where the loop's thread is in Connector: at the assignment of restart()
             \* ("restart"), at the test of startInLoop() ("start"), past the test of
             \* startInLoop() ("connect"), retry() ("again") or handleWrite() ("hook")
  world,     \* the one of Worlds this is
  user,      \* the client's owner: "idle", "asked", "stopped"; on another thread stop()
             \* has cleared TcpClient's flag ("halting") and Connector's ("stopping")
  told,      \* what the owner last heard: "none", "connected", "failed";
             \* "silent": nobody is told; "abort": LOG_SYSFATAL
  ok         \* no assertion has failed

acceptorVars == <<backlog, step, idleFd>>
loopVars == <<phase, active, batch>>
netVars == <<sock, poller, chan, pending, timers, connector, client, at, told, ok>>
vars == <<loopVars, acceptorVars, netVars, user, world>>

\* The state handlers work on, as a record: each operator below is one of
\* the program's functions and returns the state it leaves.
S == [sock |-> sock, poller |-> poller, chan |-> chan, pending |-> pending,
      timers |-> timers, connector |-> connector, client |-> client, at |-> at,
      told |-> told, ok |-> ok]

Become(left) == \E s \in {left} :
  /\ sock' = s.sock /\ poller' = s.poller /\ chan' = s.chan /\ pending' = s.pending
  /\ timers' = s.timers /\ connector' = s.connector /\ client' = s.client
  /\ at' = s.at /\ told' = s.told /\ ok' = (s.ok /\ s.poller.ok)

Check(s, P) == [s EXCEPT !.ok = @ /\ P]
Queue(s, op, c) == [s EXCEPT !.pending = Append(@, [op |-> op, conn |-> c])]

FreeFds(k) == {fd \in Fds : k[fd] = "free"}
Lowest(F) == CHOOSE fd \in F : \A g \in F : fd <= g

CloseFd(s, fd) == [s EXCEPT !.sock[fd] = "free", !.poller = Closed(@, fd)]

(***************************************************************************)
(* Channel                                                                 *)
(***************************************************************************)
NewChannel(s, ch, fd) == [s EXCEPT !.chan[ch] = [fd |-> fd, events |-> {}, added |-> FALSE],
                                   !.poller.index[ch] = kNew]

\* enableReading() ... disableAll(): set events_ and update().
SetEvents(s, ch, events) ==
  LET c == [s.chan[ch] EXCEPT !.events = events, !.added = TRUE]
  IN [s EXCEPT !.chan[ch] = c, !.poller = UpdateChannel(@, ch, c)]

\* remove().  EventLoop::removeChannel asserts that a channel other than the
\* one being handled has no event in this turn; here more is checked, that
\* a handler removes no channel but its own.
RemoveFromLoop(s, ch) ==
  LET c == [s.chan[ch] EXCEPT !.added = FALSE]
      handled == phase = "events" => active # << >> /\ Head(active).ch = ch
  IN [Check(s, c.events = {} /\ handled) EXCEPT
        !.chan[ch] = c, !.poller = RemoveChannel(@, ch, c)]

\* ~Channel.
DestroyChannel(s, ch) ==
  [Check(s, ~s.chan[ch].added /\ ~HasChannel(s.poller, ch, s.chan[ch])) EXCEPT
     !.chan[ch] = NoChannel]

(***************************************************************************)
(* TcpConnection, as far as its descriptor and channel go                  *)
(***************************************************************************)
\* The constructor and connectEstablished(), whose callback may send more
\* than the socket takes (enableWriting).
Established(s, c, blocked) ==
  LET begun == SetEvents(NewChannel([s EXCEPT !.sock[c] = "open"], c, c), c, {"IN"})
  IN IF blocked THEN SetEvents(begun, c, {"IN", "OUT"}) ELSE begun

\* connectDestroyed() and the destructor, which closes the descriptor.
ConnectDestroyed(s, c) ==
  LET removed == RemoveFromLoop(s, c)
  IN CloseFd(DestroyChannel(removed, c), c)

(***************************************************************************)
(* Connector                                                               *)
(***************************************************************************)
\* stop(), from TcpClient::stop and from retry(): the timer is not cancelled.
ConnectorStop(s) == Queue([s EXCEPT !.connector.connect = FALSE], "stopInLoop", NoConn)

\* retry(), up to its test of connect_.
Retry(s, fd) ==
  [CloseFd(s, fd) EXCEPT !.connector.state = "kDisconnected",
                         !.at = IF s.connector.connect THEN "again" ELSE "none"]

\* A connector that gives up without telling its owner.
AgainSilent(s) ==
  LET on == [s EXCEPT !.at = "none"]
  IN IF s.connector.maxRetry = 0 THEN ConnectorStop(on)
     ELSE [on EXCEPT !.timers.set = @ + 1,
             !.connector.maxRetry = IF @ > 0 THEN @ - 1 ELSE @]

\* retry(), past it: connectFailCallback_, or a timer for the next attempt.
Again(s) ==
  LET on == [s EXCEPT !.at = "none"]
  IN IF s.connector.maxRetry = 0 THEN [ConnectorStop(on) EXCEPT !.told = "failed"]
     ELSE [on EXCEPT !.timers.set = @ + 1,
             !.connector.maxRetry = IF @ > 0 THEN @ - 1 ELSE @]

Connecting(s, fd) ==
  LET begun == NewChannel([Check(s, ~s.connector.channel) EXCEPT
                             !.connector.state = "kConnecting", !.connector.channel = TRUE],
                          connectCh, fd)
  IN SetEvents(begun, connectCh, {"OUT"})

\* connect(): socket(2), which must not fail, and connect(2), whose result
\* the network decides: in progress, an error worth a retry, or another one.
Connect(s, result) ==
  LET on == [s EXCEPT !.at = "none"]
  IN IF FreeFds(s.sock) = {} THEN [on EXCEPT !.told = "abort"]
     ELSE LET fd == Lowest(FreeFds(s.sock))
              dialled == [on EXCEPT !.sock[fd] = "trying"]
          IN CASE result = "progress" -> Connecting(dialled, fd)
               [] result = "again" -> Retry(dialled, fd)
               [] result = "fatal" -> [CloseFd(dialled, fd) EXCEPT !.told = "silent"]

\* A connector whose timer starts it whether or not it was stopped.
StartInLoopAlways(s) ==
  [Check(s, s.connector.state = "kDisconnected") EXCEPT !.at = "connect"]

\* startInLoop(), up to the call of connect().
StartInLoop(s) ==
  [Check(s, s.connector.state = "kDisconnected") EXCEPT
     !.at = IF s.connector.connect THEN "connect" ELSE "none"]

Restart(s) ==
  [s EXCEPT !.connector.state = "kDisconnected", !.connector.connect = TRUE, !.at = "start"]

RemoveAndResetChannel(s) ==
  Queue(RemoveFromLoop(SetEvents(s, connectCh, {}), connectCh), "resetChannel", NoConn)

ResetChannel(s) == [DestroyChannel(s, connectCh) EXCEPT !.connector.channel = FALSE]

StopInLoop(s) ==
  IF s.connector.state # "kConnecting" THEN s
  ELSE Retry(RemoveAndResetChannel([s EXCEPT !.connector.state = "kDisconnected"]),
             s.chan[connectCh].fd)

\* TcpClient::newConnection, called by handleWrite past its test of connect_.
NewConnection(s, blocked) ==
  LET fd == s.chan[connectCh].fd
  IN [Established(s, fd, blocked) EXCEPT
        !.client.connection = fd, !.at = "none", !.told = "connected"]

\* handleWrite(), up to that test.  getSocketError() reads the socket's state
\* now, not the one poll() saw.
ConnectorHandleWrite(s) ==
  LET fd == s.chan[connectCh].fd
      removed == RemoveAndResetChannel(s)
      connected == [removed EXCEPT !.connector.state = "kConnected"]
  IN IF s.connector.state # "kConnecting"
     THEN Check(s, s.connector.state = "kDisconnected")
     ELSE IF s.sock[fd] = "error" THEN Retry(removed, fd)   \* or a self-connection
     ELSE IF s.connector.connect THEN [connected EXCEPT !.at = "hook"]
     ELSE CloseFd(connected, fd)

ConnectorHandleError(s) ==
  IF s.connector.state # "kConnecting" THEN s
  ELSE Retry(RemoveAndResetChannel(s), s.chan[connectCh].fd)

(***************************************************************************)
(* TcpClient and TcpServer: a connection goes                              *)
(***************************************************************************)
\* TcpClient::removeConnection, up to the call of restart(), and, for an
\* accepted one, TcpServer's.
RemoveConnection(s, c) ==
  IF s.client.connection # c THEN Queue(s, "connectDestroyed", c)
  ELSE LET gone == Queue([s EXCEPT !.client.connection = NoConn], "connectDestroyed", c)
       IN IF s.client.retry /\ s.client.connect
          THEN [gone EXCEPT !.at = "restart", !.told = "none"] ELSE gone

\* TcpConnection::handleClose.
ConnHandleClose(s, c) == RemoveConnection(SetEvents(s, c, {}), c)

(***************************************************************************)
(* Handlers                                                                *)
(***************************************************************************)
Results == {"progress", "again", "fatal"}
Blocked == IF world.sends THEN BOOLEAN ELSE {FALSE}

\* Channel::handleEventWithGuard for the connector's channel: it has an
\* error and a write callback.
ConnectorEvent(s, revents) ==
  LET afterError == IF "ERR" \in revents THEN ConnectorHandleError(s) ELSE s
  IN IF "OUT" \in revents THEN ConnectorHandleWrite(afterError) ELSE afterError

\* ... and for a connection's: IN reads, which closes at the end of the
\* input; OUT writes what is buffered (disableWriting).
ConnEvent(s, c, revents) ==
  LET read == IF "IN" \in revents THEN ConnHandleClose(s, c) ELSE s
      events == read.chan[c].events
  IN IF "OUT" \in revents /\ "OUT" \in events
     THEN SetEvents(read, c, events \ {"OUT"}) ELSE read

\* EventLoop runs timer callbacks as the handler of the timer queue's channel.
TimerEvent(s) == StartInLoop([s EXCEPT !.timers.set = @ - 1, !.timers.due = @ - 1])

\* The handler of the next active channel begins.
Handles(channels) ==
  /\ phase = "events" /\ at = "none"
  /\ active # << >> /\ Head(active).ch \in channels

Handled == active' = Tail(active) /\ UNCHANGED <<phase, batch, user, world>>

HandleConnector ==
  /\ Handles({connectCh})
  /\ Become(ConnectorEvent(S, Head(active).revents))
  /\ Handled /\ UNCHANGED acceptorVars

HandleConn ==
  /\ Handles(Conns)
  /\ Become(ConnEvent(S, Head(active).ch, Head(active).revents))
  /\ Handled /\ UNCHANGED acceptorVars

HandleTimer ==
  /\ Handles({timerCh})
  /\ Become(TimerEvent(S))
  /\ Handled /\ UNCHANGED acceptorVars

\* A function of Connector goes on from where it tested or set a flag.  After
\* LOG_SYSFATAL the process ends.
ConnectorGoesOn ==
  /\ phase # "abort"
  /\ \/ at = "restart" /\ Become(Restart(S))
     \/ at = "start" /\ Become(StartInLoop(S))
     \/ at = "connect" /\ \E result \in Results : Become(Connect(S, result))
     \/ at = "again" /\ Become(Again(S))
     \/ at = "hook" /\ \E blocked \in Blocked : Become(NewConnection(S, blocked))
  /\ phase' = IF told' = "abort" THEN "abort" ELSE phase
  /\ UNCHANGED <<active, batch, acceptorVars, user, world>>

\* An acceptor that only logs EMFILE.
HandleAcceptLogs ==
  /\ Handles({acceptCh})
  /\ IF backlog = 0 \/ FreeFds(sock) = {}
     THEN UNCHANGED <<acceptorVars, netVars>> /\ Handled
     ELSE /\ \E blocked \in Blocked : Become(Established(S, Lowest(FreeFds(sock)), blocked))
          /\ backlog' = backlog - 1
          /\ Handled /\ UNCHANGED <<step, idleFd>>

\* Acceptor::handleRead.  One accept(2); without a free descriptor it goes
\* on to the EMFILE branch.
HandleAccept ==
  /\ Handles({acceptCh})
  /\ IF backlog = 0
     THEN UNCHANGED <<acceptorVars, netVars>> /\ Handled
     ELSE IF FreeFds(sock) = {}
     THEN /\ phase' = "emfile" /\ step' = "close"
          /\ UNCHANGED <<active, batch, user, world, backlog, idleFd, netVars>>
     ELSE /\ \E blocked \in Blocked : Become(Established(S, Lowest(FreeFds(sock)), blocked))
          /\ backlog' = backlog - 1
          /\ Handled /\ UNCHANGED <<step, idleFd>>

\* The four calls of the EMFILE branch; other threads run between them.
CloseIdle ==
  /\ phase = "emfile" /\ step \in {"close", "close2"}
  /\ IF idleFd > 0 THEN Become(CloseFd(S, idleFd)) ELSE UNCHANGED netVars
  /\ step' = IF step = "close" THEN "accept" ELSE "open"
  /\ UNCHANGED <<loopVars, user, world, backlog, idleFd>>

HoldIdle(fd) == Become([S EXCEPT !.sock[fd] = "idle"]) /\ idleFd' = fd

AcceptIdle ==
  /\ phase = "emfile" /\ step = "accept"
  /\ IF backlog > 0 /\ FreeFds(sock) # {}
     THEN HoldIdle(Lowest(FreeFds(sock))) /\ backlog' = backlog - 1
     ELSE idleFd' = -1 /\ UNCHANGED <<netVars, backlog>>
  /\ step' = "close2"
  /\ UNCHANGED <<loopVars, user, world>>

OpenIdle ==
  /\ phase = "emfile" /\ step = "open"
  /\ IF FreeFds(sock) # {} THEN HoldIdle(Lowest(FreeFds(sock)))
                           ELSE idleFd' = -1 /\ UNCHANGED netVars
  /\ step' = "none" /\ phase' = "events" /\ active' = Tail(active)
  /\ UNCHANGED <<batch, user, world, backlog>>

(***************************************************************************)
(* EventLoop::loop                                                         *)
(***************************************************************************)
\* The condition of each descriptor, as poll(2) reports it.
Ready == [fd \in Fds |->
  IF fd = listenFd THEN IF backlog > 0 THEN {"IN"} ELSE {}
  ELSE CASE sock[fd] \in {"connected", "open"} -> {"OUT"}
         [] sock[fd] = "error" -> {"ERR", "HUP", "OUT"}
         [] sock[fd] = "hungup" -> {"IN", "OUT"}
         [] OTHER -> {}]

\* The order of the active channels: epoll's own, or that of pollfds_; the
\* timer queue's channel is anywhere among them.
Orders(events) ==
  LET place(e) == poller.index[e.ch]
  IN {q \in SetToSeqs(events) :
        poller.kind = "poll" =>
          \A i, j \in DOMAIN q :
            i < j /\ timerCh \notin {q[i].ch, q[j].ch} => place(q[i]) < place(q[j])}

Poll ==
  LET timer == IF timers.due > 0 THEN {[ch |-> timerCh, revents |-> {"IN"}]} ELSE {}
      events == Polled(poller, Ready) \cup timer
  IN /\ phase = "poll" /\ at = "none"
     /\ events # {} \/ pending # << >>
     /\ ok' = (ok /\ FillAsserts(poller, Ready))
     /\ active' \in Orders(events)
     /\ phase' = "events"
     /\ UNCHANGED <<batch, acceptorVars, sock, poller, chan, pending, timers, connector,
                    client, at, told, user, world>>

\* doPendingFunctors takes the queue; functors queued meanwhile wait a turn.
EventsDone ==
  /\ phase = "events" /\ at = "none" /\ active = << >>
  /\ batch' = pending /\ phase' = IF pending = << >> THEN "poll" ELSE "functors"
  /\ Become([S EXCEPT !.pending = << >>])
  /\ UNCHANGED <<active, acceptorVars, user, world>>

RunFunctor ==
  /\ phase = "functors" /\ at = "none" /\ batch # << >>
  /\ LET f == Head(batch)
     IN \/ f.op = "startInLoop" /\ Become(StartInLoop(S))
        \/ f.op = "stopInLoop" /\ Become(StopInLoop(S))
        \/ f.op = "resetChannel" /\ Become(ResetChannel(S))
        \/ f.op = "connectDestroyed" /\ Become(ConnectDestroyed(S, f.conn))
  /\ batch' = Tail(batch) /\ phase' = IF Tail(batch) = << >> THEN "poll" ELSE "functors"
  /\ UNCHANGED <<active, acceptorVars, user, world>>

Loop ==
  \/ Poll \/ HandleConnector \/ HandleConn \/ HandleTimer \/ HandleAccept \/ ConnectorGoesOn
  \/ CloseIdle \/ AcceptIdle \/ OpenIdle \/ EventsDone \/ RunFunctor

(***************************************************************************)
(* The client's owner                                                      *)
(***************************************************************************)
\* The loop's thread runs a handler or functor, which may call TcpClient.
Calling == phase \in {"events", "functors"} /\ at = "none"

\* TcpClient::connect, once: in a handler or functor of the loop, where
\* runInLoop calls startInLoop at once, or on another thread.
ClientConnect ==
  LET asked == [S EXCEPT !.client.connect = TRUE, !.connector.connect = TRUE]
  IN /\ user = "idle" /\ user' = "asked"
     /\ \/ phase # "abort" /\ Become(Queue(asked, "startInLoop", NoConn))
        \/ Calling /\ Become(StartInLoop(asked))
     /\ UNCHANGED <<loopVars, acceptorVars, world>>

\* TcpClient::disconnect: shutdown() of the connection leaves the end of
\* it to the peer.
ClientDisconnect ==
  /\ user = "asked" /\ client.connect /\ phase # "abort"
  /\ Become([S EXCEPT !.client.connect = FALSE])
  /\ UNCHANGED <<loopVars, acceptorVars, user, world>>

\* TcpClient::stop on the loop's thread.
StopInThisThread ==
  /\ user = "asked" /\ Calling
  /\ Become(ConnectorStop([S EXCEPT !.client.connect = FALSE]))
  /\ user' = "stopped"
  /\ UNCHANGED <<loopVars, acceptorVars, world>>

\* TcpClient::stop on another thread: its flag, the connector's, then a functor.
StopInOtherThread ==
  /\ phase # "abort"
  /\ \/ /\ user = "asked" /\ user' = "halting"
        /\ Become([S EXCEPT !.client.connect = FALSE])
     \/ /\ user = "halting" /\ user' = "stopping"
        /\ Become([S EXCEPT !.connector.connect = FALSE])
     \/ /\ user = "stopping" /\ user' = "stopped"
        /\ Become(Queue(S, "stopInLoop", NoConn))
  /\ UNCHANGED <<loopVars, acceptorVars, world>>

User == ClientConnect \/ ClientDisconnect \/ StopInThisThread \/ StopInOtherThread

(***************************************************************************)
(* The kernel, the peers and the other threads                             *)
(***************************************************************************)
Kernel(fd, from, to) ==
  /\ sock[fd] = from
  /\ sock' = [sock EXCEPT ![fd] = to]
  /\ UNCHANGED <<loopVars, acceptorVars, poller, chan, pending, timers, connector, client,
                 at, told, ok, user, world>>

\* What only poll() looks at changes while the loop polls; what a handler
\* looks at again changes under it too.
Polling == phase = "poll" /\ at = "none"
Handling == phase \in {"events", "emfile"}

\* An attempt under way ends; a connection may also be reset before the
\* connector has looked at it.
DialEnds == Polling /\ \E fd \in Fds : Kernel(fd, "trying", "connected") \/ Kernel(fd, "trying", "error")
DialReset == (Polling \/ Handling) /\ \E fd \in Fds : Kernel(fd, "connected", "error")

PeerHangs == Polling /\ \E fd \in Fds : Kernel(fd, "open", "hungup")

PeerArrives ==
  /\ Polling /\ backlog < MaxBacklog /\ backlog' = backlog + 1
  /\ UNCHANGED <<loopVars, step, idleFd, netVars, user, world>>

PeerLeaves ==
  /\ Polling \/ Handling
  /\ backlog > 0 /\ backlog' = backlog - 1
  /\ UNCHANGED <<loopVars, step, idleFd, netVars, user, world>>

\* Another thread holds at most one descriptor of the table.
OtherOpens ==
  /\ world.others
  /\ Polling \/ phase = "emfile"
  /\ \A fd \in Fds : sock[fd] # "other"
  /\ FreeFds(sock) # {} /\ Kernel(Lowest(FreeFds(sock)), "free", "other")
OtherCloses ==
  /\ Polling \/ phase = "emfile"
  /\ \E fd \in Fds : Kernel(fd, "other", "free")

TimerExpires ==
  /\ Polling /\ timers.due < timers.set
  /\ \A i \in DOMAIN pending : pending[i].op # "resetChannel"
  /\ timers' = [timers EXCEPT !.due = @ + 1]
  /\ UNCHANGED <<loopVars, acceptorVars, sock, poller, chan, pending, connector, client,
                 at, told, ok, user, world>>

Environment ==
  \/ DialEnds \/ DialReset \/ PeerHangs \/ PeerArrives \/ PeerLeaves
  \/ OtherOpens \/ OtherCloses \/ TimerExpires

\* Acceptor's constructor and listen(); TcpClient's and Connector's
\* constructors.
Init ==
  /\ world \in Worlds
  /\ phase = "poll" /\ active = << >> /\ batch = << >>
  /\ backlog = 0 /\ step = "none" /\ idleFd = 2
  /\ sock = [fd \in Fds |-> CASE fd = listenFd -> "listen" [] fd = 2 -> "idle" [] fd > world.fds -> "taken" [] OTHER -> "free"]
  /\ chan = [[ch \in Ch |-> NoChannel] EXCEPT
               ![acceptCh] = [fd |-> listenFd, events |-> {"IN"}, added |-> TRUE]]
  /\ poller = UpdateChannel(NewPoller(world.kind, Ch), acceptCh, chan[acceptCh])
  /\ pending = << >> /\ timers = [set |-> 0, due |-> 0]
  /\ connector = [connect |-> FALSE, state |-> "kDisconnected", channel |-> FALSE,
                  maxRetry |-> world.maxRetry]
  /\ client = [connect |-> TRUE, retry |-> world.retry, connection |-> NoConn]
  /\ at = "none" /\ user = "idle" /\ told = "none" /\ ok = TRUE

Next == Loop \/ User \/ Environment

\* The loop runs, timers expire, and the kernel ends every attempt.
Fairness ==
  /\ WF_vars(Loop)
  /\ SF_vars(DialEnds)
  /\ SF_vars(TimerExpires)

Spec == Init /\ [][Next]_vars /\ Fairness

(***************************************************************************)
(* Properties                                                              *)
(***************************************************************************)
\* No assertion of Channel, the pollers, EventLoop::removeChannel and
\* Connector fails and no epoll_ctl is refused, whichever handlers share a
\* turn and however soon a closed descriptor is used again: in particular
\* the connector meets an attempt that failed as an error and as a
\* writable socket in one event, and starts anew only with its old channel
\* gone.
NoAssertFails == ok

\* What the kernel watches is what the channels asked for: each channel
\* with events is watched for exactly these, events on its descriptor are
\* delivered to it, nothing else is watched, and no closed descriptor is.
\* Every update and removal keeps it, in the epoll states (kAdded,
\* kDeleted) and through PollPoller's swap with the last entry.
InterestExact ==
  LET wants == {ch \in Ch : chan[ch].events # {}}
  IN /\ DOMAIN Watched(poller) = {chan[ch].fd : ch \in wants}
     /\ \A ch \in wants :
          /\ Watched(poller)[chan[ch].fd] = chan[ch].events
          /\ ChannelOf(poller, chan[ch].fd) = ch
          /\ sock[chan[ch].fd] # "free"

\* connect() is answered: the owner hears of a connection or of the
\* failure (connectFailCallback) after at most maxRetry retries, unless it
\* stops the client; connect(2)'s other errors ("silent") end the attempt
\* without a callback.  The proxy counts on it to answer a request whose
\* upstream is down.
ConnectResolves ==
  (user = "asked" /\ told = "none" /\ connector.maxRetry >= 0)
    ~> (told # "none" \/ user # "asked")

\* After stop(), on whichever thread, the loop begins nothing new: a retry
\* timer that stop() did not cancel, and an attempt that ends meanwhile, find
\* connect_ false.  What was past its test of connect_ when stop() came is done,
\* once: the one attempt, timer or callback.  Only a restart() that was under way
\* sets connect_ again.
StopSticks ==
  [][(user \in {"stopping", "stopped"} /\ ~connector.connect /\ at # "restart") =>
       /\ ~connector'.connect
       /\ at' \in {at, "none"}
       /\ \A fd \in Fds : sock'[fd] = "trying" => sock[fd] = "trying" \/ at = "connect"
       /\ timers'.set <= timers.set \/ at = "again"
       /\ told' = told \/ at # "none"]_vars

\* With the table full of open connections the listen queue is still
\* relieved (the peer is accepted and dropped) as long as the acceptor
\* holds its spare descriptor: the loop does not spin on a peer it cannot
\* accept.
BacklogDrains ==
  (backlog = MaxBacklog /\ idleFd > 0)
    ~> (backlog < MaxBacklog \/ idleFd = -1 \/ told = "abort")
=============================================================================
