------------------------------- MODULE Poller -------------------------------
(***************************************************************************)
(* Channels and the two pollers an EventLoop chooses between               *)
(* (src/net/Channel.cc, src/net/poller/EPollPoller.cc, PollPoller.cc).     *)
(*                                                                         *)
(* A poller is a record:                                                   *)
(*   kind      "epoll" or "poll" (newDefaultPoller, CUBER_USE_POLL)        *)
(*   channels  channels_: descriptor -> the channel registered for it      *)
(*   index     index_ of each channel                                      *)
(*   interest  what the kernel's epoll instance watches:                   *)
(*             descriptor -> [ch, events]                                  *)
(*   pollfds   pollfds_: sequence of [fd, events]; an ignored entry has    *)
(*             the descriptor -fd-1                                        *)
(*   ok        no assertion has failed                                     *)
(* A channel is a record [fd, events, added]; the operators below take its *)
(* name ch and its record c.                                               *)
(***************************************************************************)
EXTENDS Integers, Sequences, SequencesExt, FiniteSets, Functions

kNew == -1
kAdded == 1
kDeleted == 2

\* Without entries: the poller of a new loop, over the channels Ch.
NewPoller(kind, Ch) ==
  [kind |-> kind, channels |-> << >>, index |-> [ch \in Ch |-> kNew],
   interest |-> << >>, pollfds |-> << >>, ok |-> TRUE]

\* The map f with x bound to v, and without x.
Bind(f, x, v) == [y \in DOMAIN f \cup {x} |-> IF y = x THEN v ELSE f[y]]
Erase(f, x) == Restrict(f, DOMAIN f \ {x})

HasChannel(p, ch, c) == c.fd \in DOMAIN p.channels /\ p.channels[c.fd] = ch

Asserted(p, P) == [p EXCEPT !.ok = @ /\ P]

(***************************************************************************)
(* EPollPoller                                                             *)
(***************************************************************************)
\* update(): epoll_ctl.  ADD of a watched descriptor (EEXIST) and MOD of an
\* unwatched one (ENOENT) are LOG_SYSFATAL; a failing DEL is only logged.
EpollCtl(p, op, ch, c) ==
  CASE op = "ADD" -> [Asserted(p, c.fd \notin DOMAIN p.interest) EXCEPT
                        !.interest = Bind(@, c.fd, [ch |-> ch, events |-> c.events])]
    [] op = "MOD" -> [Asserted(p, c.fd \in DOMAIN p.interest) EXCEPT
                        !.interest = Bind(@, c.fd, [ch |-> ch, events |-> c.events])]
    [] op = "DEL" -> [p EXCEPT !.interest = Erase(@, c.fd)]

EpollUpdate(p, ch, c) ==
  LET index == p.index[ch]
  IN CASE index = kNew ->
            EpollCtl([Asserted(p, c.fd \notin DOMAIN p.channels) EXCEPT
                        !.channels = Bind(@, c.fd, ch), !.index[ch] = kAdded], "ADD", ch, c)
       [] index = kDeleted ->
            EpollCtl([Asserted(p, HasChannel(p, ch, c)) EXCEPT !.index[ch] = kAdded], "ADD", ch, c)
       [] OTHER ->
            LET q == Asserted(p, HasChannel(p, ch, c) /\ index = kAdded)
            IN IF c.events = {} THEN EpollCtl([q EXCEPT !.index[ch] = kDeleted], "DEL", ch, c)
                                ELSE EpollCtl(q, "MOD", ch, c)

EpollRemove(p, ch, c) ==
  LET index == p.index[ch]
      q == Asserted(p, HasChannel(p, ch, c) /\ c.events = {} /\ index \in {kAdded, kDeleted})
      r == [q EXCEPT !.channels = Erase(@, c.fd), !.index[ch] = kNew]
  IN IF index = kAdded THEN EpollCtl(r, "DEL", ch, c) ELSE r

(***************************************************************************)
(* PollPoller                                                              *)
(***************************************************************************)
\* An update that only marks the entry ignored or not, and keeps its events.
PollUpdateStale(p, ch, c) ==
  LET idx == p.index[ch]
  IN IF idx < 0
     THEN [p EXCEPT !.pollfds = Append(@, [fd |-> c.fd, events |-> c.events]),
                    !.index[ch] = Len(p.pollfds), !.channels = Bind(@, c.fd, ch)]
     ELSE [p EXCEPT !.pollfds[idx + 1] = IF c.events = {} THEN [fd |-> -c.fd - 1, events |-> {}] ELSE @]

\* index_ counts from 0, pollfds from 1.
PollUpdate(p, ch, c) ==
  LET idx == p.index[ch]
      fd == IF c.events = {} THEN -c.fd - 1 ELSE c.fd
  IN IF idx < 0
     THEN [Asserted(p, c.fd \notin DOMAIN p.channels) EXCEPT
             !.pollfds = Append(@, [fd |-> c.fd, events |-> c.events]),
             !.index[ch] = Len(p.pollfds),
             !.channels = Bind(@, c.fd, ch)]
     ELSE [Asserted(p, /\ HasChannel(p, ch, c)
                     /\ idx < Len(p.pollfds)
                     /\ p.pollfds[idx + 1].fd \in {c.fd, -c.fd - 1}) EXCEPT
             !.pollfds[idx + 1] = [fd |-> fd, events |-> c.events]]

\* A removal that forgets to tell the channel of the entry it moved.
PollRemoveKeepsIndex(p, ch, c) ==
  LET idx == p.index[ch]
      n == Len(p.pollfds)
      q == Asserted(p, /\ HasChannel(p, ch, c) /\ c.events = {}
                     /\ idx \in 0 .. n - 1
                     /\ p.pollfds[idx + 1] = [fd |-> -c.fd - 1, events |-> {}])
  IN [q EXCEPT !.channels = Erase(@, c.fd),
               !.pollfds = SubSeq([@ EXCEPT ![idx + 1] = p.pollfds[n]], 1, n - 1)]

\* The entry is swapped with the last one, whose channel gets its index.
PollRemove(p, ch, c) ==
  LET idx == p.index[ch]
      n == Len(p.pollfds)
      q == Asserted(p, /\ HasChannel(p, ch, c) /\ c.events = {}
                     /\ idx \in 0 .. n - 1
                     /\ p.pollfds[idx + 1] = [fd |-> -c.fd - 1, events |-> {}])
      r == [q EXCEPT !.channels = Erase(@, c.fd),
                     !.pollfds = SubSeq([@ EXCEPT ![idx + 1] = p.pollfds[n]], 1, n - 1)]
      channelAtEnd == IF p.pollfds[n].fd < 0 THEN -p.pollfds[n].fd - 1 ELSE p.pollfds[n].fd
  IN IF idx = n - 1 THEN r ELSE [r EXCEPT !.index[p.channels[channelAtEnd]] = idx]

(***************************************************************************)
(* Poller, chosen at start                                                 *)
(***************************************************************************)
UpdateChannel(p, ch, c) == IF p.kind = "epoll" THEN EpollUpdate(p, ch, c) ELSE PollUpdate(p, ch, c)
RemoveChannel(p, ch, c) == IF p.kind = "epoll" THEN EpollRemove(p, ch, c) ELSE PollRemove(p, ch, c)

\* The kernel's part of close(fd): an epoll instance forgets the descriptor.
Closed(p, fd) == [p EXCEPT !.interest = IF fd \in DOMAIN @ THEN Erase(@, fd) ELSE @]

\* What the kernel is asked to watch: descriptor -> events.
Watched(p) ==
  IF p.kind = "epoll" THEN [fd \in DOMAIN p.interest |-> p.interest[fd].events]
  ELSE LET live == {i \in DOMAIN p.pollfds : p.pollfds[i].fd >= 0}
       IN [fd \in {p.pollfds[i].fd : i \in live} |->
             p.pollfds[CHOOSE i \in live : p.pollfds[i].fd = fd].events]

\* fillActiveChannels: the channel an event on fd is delivered to.  Both
\* pollers assert that it is the channel registered for fd.
ChannelOf(p, fd) == IF p.kind = "epoll" THEN p.interest[fd].ch ELSE p.channels[fd]

\* poll(): the events returned, as [ch, revents], when ready(fd) is the
\* condition of each descriptor.  ERR and HUP are returned unasked.
Polled(p, ready) ==
  LET revents(fd) == ready[fd] \cap (Watched(p)[fd] \cup {"ERR", "HUP"})
  IN {[ch |-> ChannelOf(p, fd), revents |-> revents(fd)] :
        fd \in {f \in DOMAIN Watched(p) : revents(f) # {}}}

\* fillActiveChannels' assertions on the events poll() returned.
FillAsserts(p, ready) ==
  \A fd \in DOMAIN Watched(p) :
    ready[fd] \cap (Watched(p)[fd] \cup {"ERR", "HUP"}) # {} =>
      fd \in DOMAIN p.channels /\ p.channels[fd] = ChannelOf(p, fd)
=============================================================================
