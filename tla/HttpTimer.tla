------------------------------ MODULE HttpTimer ------------------------------
(***************************************************************************)
(* http/HttpTimer.cpp: once a second the base loop walks the list of       *)
(* connections, in the order they were accepted, and closes those that     *)
(* have received nothing for expireSeconds_.  What closing does is module  *)
(* TcpServer; here a connection is up, closing (shutdown() was called, it  *)
(* is not connected() any more) or gone (its weak_ptr has expired).        *)
(*                                                                         *)
(* The walk is one step for each connection: the I/O threads receive for,  *)
(* accept and close connections between them.  It is over within a second. *)
(*                                                                         *)
(* No lock guards the list.  push_back, in the thread of the connection,   *)
(* reads the last node from the list's header, links the new node to it    *)
(* and stores the new node in the header; erase, in the base thread, reads *)
(* the neighbours of its node and links them to each other.  They are a    *)
(* step for each, between which the other threads act.  A list whose links *)
(* two threads have written at once is torn: from then on the walk may     *)
(* find any connection at any of its steps, or the end.                    *)
(***************************************************************************)
EXTENDS Integers, Sequences, FiniteSets, Functions

CONSTANTS Conn,
          MaxWorkers,    \* bound on the server's workers
          ExpireSeconds, \* expireSeconds_
          MaxJump        \* bound on a step of the clock backwards

ASSUME HttpTimerConstants ==
  MaxWorkers \in Nat /\ ExpireSeconds \in Nat /\ MaxJump \in Nat

VARIABLES workers,        \* I/O threads of the server; with 0 it has the base loop only
          status,         \* of each connection
          age,            \* the clock - lastReceiveTime, up to one past expiry
          connectionList, \* connectionList_, as a walk from begin() finds it; <<>> once torn
          adding,         \* in push_back, the last node is read
          linked,         \* in push_back, the node is linked to it
          erasing,        \* in erase(it)
          torn,           \* two operations on the same links have overlapped
          due,            \* the timer of runEvery has gone off
          it,             \* onTimer: the position of it, 0 outside of onTimer
          heard           \* the connections with a lastReceiveTime after its now

list == <<connectionList, adding, linked, erasing, torn>>
vars == <<workers, status, age, list, due, it, heard>>

Expired == ExpireSeconds + 1

Init ==
  /\ workers \in 0..MaxWorkers
  /\ status = [c \in Conn |-> "none"]
  /\ age = [c \in Conn |-> 0]
  /\ connectionList = <<>>
  /\ adding = {} /\ linked = {} /\ erasing = FALSE /\ torn = FALSE
  /\ due = FALSE
  /\ it = 0
  /\ heard = {}

Live(c) == status[c] \in {"up", "closing"}

\* A thread that runs connections is between two of its handlers: without
\* workers that is the base loop, which walks the list as well.
IoFree ==
  IF workers = 0 THEN it = 0 /\ adding \cup linked = {}
                 ELSE Cardinality(adding \cup linked) < workers

\* The handlers of c run: its onConnection is over.
Served(c) == Live(c) /\ c \notin adding \cup linked /\ IoFree

-----------------------------------------------------------------------------
(* addHttpConnection                                                       *)

\* A step on the list that makes it s, unless it is torn or tears it.
Becomes(s, tears) ==
  /\ torn' = (torn \/ tears)
  /\ connectionList' = IF torn' THEN <<>> ELSE s
  /\ it' = IF torn' /\ it > 0 THEN 1 ELSE it

\* addHttpConnection, from HttpServer::onConnection, which has shut the
\* connection down before if the server is full.  The connection was made in the
\* base loop, and its lastReceiveTime_ then.  The last node is read: it is not the
\* one to link to if another push_back has read it and not yet stored its own in
\* the header, or if it is being erased.
AddHttpConnection(c) ==
  /\ status[c] = "none" /\ IoFree
  /\ \E st \in {"up", "closing"} : status' = [status EXCEPT ![c] = st]
  /\ \E a \in -MaxJump..Expired : age' = [age EXCEPT ![c] = a]
  /\ adding' = adding \cup {c}
  /\ Becomes(connectionList,
             adding \cup linked # {} \/ (erasing /\ it = Len(connectionList)))
  /\ UNCHANGED <<workers, linked, erasing, due, heard>>

\* The node is linked to the last one: a walk now finds it.
Link(c) ==
  /\ c \in adding
  /\ adding' = adding \ {c}
  /\ linked' = linked \cup {c}
  /\ Becomes(Append(connectionList, c), FALSE)
  /\ UNCHANGED <<workers, status, age, erasing, due, heard>>

\* The header has it as the last node; push_back returns.
Added(c) ==
  /\ c \in linked
  /\ linked' = linked \ {c}
  /\ UNCHANGED <<workers, status, age, connectionList, adding, erasing, torn, due, it, heard>>

PushBack == \E c \in Conn : Link(c) \/ Added(c)

-----------------------------------------------------------------------------
\* TcpConnection::handleRead sets lastReceiveTime_.
Receive(c) ==
  /\ Served(c)
  /\ age' = [age EXCEPT ![c] = 0]
  /\ heard' = IF it = 0 THEN heard ELSE heard \cup {c}
  /\ UNCHANGED <<workers, status, list, due, it>>

\* shutdown() after a response.
Shutdown(c) ==
  /\ Served(c) /\ status[c] = "up"
  /\ status' = [status EXCEPT ![c] = "closing"]
  /\ UNCHANGED <<workers, age, list, due, it, heard>>

\* The client leaves, or the delayed forceClose takes the connection down.
Leave(c) ==
  /\ Served(c)
  /\ status' = [status EXCEPT ![c] = "gone"]
  /\ UNCHANGED <<workers, age, list, due, it, heard>>

\* A second passes.
Second ==
  /\ it = 0
  /\ due' = TRUE
  /\ age' = [c \in Conn |-> IF age[c] < Expired THEN age[c] + 1 ELSE age[c]]
  /\ UNCHANGED <<workers, status, list, it, heard>>

\* The clock is set back.
ClockJump(n) ==
  /\ it = 0
  /\ age' = [c \in Conn |-> IF age[c] - n < -MaxJump THEN -MaxJump ELSE age[c] - n]
  /\ UNCHANGED <<workers, status, list, due, it, heard>>

-----------------------------------------------------------------------------
(* onTimer                                                                 *)

\* now = Timestamp::now(), it = connectionList_.begin()
OnTimer ==
  /\ due /\ it = 0
  /\ workers = 0 => IoFree
  /\ due' = FALSE
  /\ it' = 1
  /\ heard' = {}
  /\ UNCHANGED <<workers, status, age, list>>

\* now - lastReceiveTime
AgeNow(c) == IF c \in heard THEN -1 ELSE age[c]

\* Mutant: any connection is taken off the list.
LockedNever(c) == FALSE

\* conn = it->lock(), if not null
Locked(c) == status[c] # "gone"

\* The break at the first live connection whose age is neither negative nor
\* over the limit.
Breaks(c) == Locked(c) /\ AgeNow(c) >= 0 /\ AgeNow(c) <= ExpireSeconds

\* The walk is at c, or at the end.
At(c) ==
  /\ it > 0 /\ ~erasing
  /\ IF torn THEN status[c] # "none" ELSE it <= Len(connectionList) /\ connectionList[it] = c

AtEnd == it > 0 /\ ~erasing /\ (torn \/ it > Len(connectionList))

\* ++it
Following == IF torn THEN it ELSE it + 1

\* Mutant: the walk ends at a connection that is being closed, too.
EndWalkAtClosing ==
  /\ AtEnd \/ \E c \in Conn : At(c) /\ (Breaks(c) \/ status[c] = "closing")
  /\ it' = 0
  /\ heard' = {}
  /\ UNCHANGED <<workers, status, age, list, due>>

\* it == connectionList_.end(), or the break.
EndWalk ==
  /\ AtEnd \/ \E c \in Conn : At(c) /\ Breaks(c)
  /\ it' = 0
  /\ heard' = {}
  /\ UNCHANGED <<workers, status, age, list, due>>

\* httpTimeoutCallback_, if conn->connected()
TimedOut(c) == IF status[c] = "up" THEN [status EXCEPT ![c] = "closing"] ELSE status

TimeOut(c) ==
  /\ At(c) /\ Locked(c) /\ AgeNow(c) > ExpireSeconds
  /\ status' = TimedOut(c)
  /\ it' = Following
  /\ UNCHANGED <<workers, age, list, due, heard>>

\* updateLastReceiveTime(now), which is not after now any more
TimeJump(c) ==
  /\ At(c) /\ Locked(c) /\ AgeNow(c) < 0
  /\ age' = [age EXCEPT ![c] = 0]
  /\ heard' = heard \ {c}
  /\ it' = Following
  /\ UNCHANGED <<workers, status, list, due>>

\* connectionList_.erase(it) reads the neighbours of the node.  If it is the last,
\* they are the header and a node that a push_back on its way does not link to.
EraseClosed(c) ==
  /\ At(c) /\ ~Locked(c)
  /\ erasing' = TRUE
  /\ Becomes(connectionList, it = Len(connectionList) /\ adding # {})
  /\ UNCHANGED <<workers, status, age, adding, linked, due, heard>>

\* The neighbours are linked to each other, and it is at the next.
Erased ==
  /\ erasing
  /\ erasing' = FALSE
  /\ Becomes(SubSeq(connectionList, 1, it - 1)
               \o SubSeq(connectionList, it + 1, Len(connectionList)), FALSE)
  /\ UNCHANGED <<workers, status, age, adding, linked, due, heard>>

Walk ==
  \/ EndWalk
  \/ \E c \in Conn : TimeOut(c) \/ TimeJump(c) \/ EraseClosed(c)
  \/ Erased

Next ==
  \/ \E c \in Conn : AddHttpConnection(c) \/ Receive(c) \/ Shutdown(c) \/ Leave(c)
  \/ PushBack
  \/ \E n \in 1..MaxJump : ClockJump(n)
  \/ Second
  \/ OnTimer
  \/ Walk

\* Time passes, the base loop handles its timer, and push_back returns.
Spec ==
  /\ Init /\ [][Next]_vars
  /\ WF_vars(Second) /\ WF_vars(OnTimer) /\ WF_vars(Walk) /\ WF_vars(PushBack)

-----------------------------------------------------------------------------
Idle(c) == status[c] = "up" /\ age[c] > ExpireSeconds

\* Every variable keeps to its type, and the iterator to the list.
TypeOK ==
  /\ workers \in 0..MaxWorkers
  /\ status \in [Conn -> {"none", "up", "closing", "gone"}]
  /\ age \in [Conn -> Int]
  /\ connectionList \in Seq(Conn)
  /\ adding \subseteq Conn /\ linked \subseteq Conn
  /\ erasing \in BOOLEAN /\ torn \in BOOLEAN
  /\ due \in BOOLEAN
  /\ it \in 0 .. Len(connectionList) + 1
  /\ heard \subseteq Conn

\* Without workers no two operations on the list overlap.  As long as no
\* push_back overlaps another or the erase of the last node, no live connection
\* that was added falls off the list or is on it twice, and the walk passes none
\* that is idle, though I/O threads push to the list while it is walked and
\* others are erased.
AllWatched ==
  /\ workers = 0 => ~torn
  /\ torn \/
       /\ \A c \in Conn : (Live(c) /\ c \notin adding) =>
            \E i \in DOMAIN connectionList : \A j \in DOMAIN connectionList :
              connectionList[j] = c <=> j = i
       /\ \A i \in 1 .. it - 1 : ~Idle(connectionList[i])

\* The walk reaches c: no live connection before it is within its time.
Reached(c) ==
  \E i \in DOMAIN connectionList :
    connectionList[i] = c /\ \A j \in 1..i : ~Breaks(connectionList[j])

\* An idle connection is closed, if it hears nothing meanwhile and no live
\* connection accepted before it is still within its time.
FrontReaped ==
  \A c \in Conn : (Idle(c) /\ Reached(c)) ~> (~Idle(c) \/ ~Reached(c))
=============================================================================
