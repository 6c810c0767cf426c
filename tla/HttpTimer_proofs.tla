-------------------------- MODULE HttpTimer_proofs --------------------------
(***************************************************************************)
(* Proofs about the idle timer's list and its walk, for any connections,   *)
(* time limit and steps of the clock.                                      *)
(***************************************************************************)
EXTENDS HttpTimer, SequenceTheorems, TLAPS

USE HttpTimerConstants

\* As long as the list is whole, each connection is in one place of it, from
\* the moment it is linked on, and stays there as long as it lives.
Once ==
  torn \/
    /\ \A i, j \in DOMAIN connectionList : connectionList[i] = connectionList[j] => i = j
    /\ \A i \in DOMAIN connectionList :
         status[connectionList[i]] # "none" /\ connectionList[i] \notin adding
    /\ \A c \in Conn : (Live(c) /\ c \notin adding) =>
         \E i \in DOMAIN connectionList : connectionList[i] = c

\* Nothing the walk has passed is idle.
Passed == torn \/ \A i \in 1 .. it - 1 : ~Idle(connectionList[i])

\* What is being erased is a connection that is gone.
Gone ==
  erasing => it > 0 /\ (torn \/ (it \in DOMAIN connectionList
                                   /\ status[connectionList[it]] = "gone"))

\* Without workers the base loop walks the list or pushes to it.
Alone == workers = 0 => ~torn /\ (it = 0 \/ adding \cup linked = {})

IInv ==
  /\ TypeOK /\ Once /\ Passed /\ Gone /\ Alone
  /\ \A c \in adding : status[c] # "none"

\* What the list of connections is: the connections at its positions.
LEMMA ListFacts ==
  ASSUME TypeOK
  PROVE  /\ Len(connectionList) \in Nat /\ it \in Nat /\ it <= Len(connectionList) + 1
         /\ DOMAIN connectionList = 1..Len(connectionList)
         /\ \A i \in DOMAIN connectionList : connectionList[i] \in Conn
         /\ \A i \in 1 .. it - 1 : i \in DOMAIN connectionList
<1>1. Len(connectionList) \in Nat /\ DOMAIN connectionList = 1..Len(connectionList)
  BY DEF TypeOK
<1>2. it \in Nat /\ it <= Len(connectionList) + 1
  BY <1>1 DEF TypeOK
<1>3. \A i \in DOMAIN connectionList : connectionList[i] \in Conn
  BY <1>1 DEF TypeOK
<1> QED BY <1>1, <1>2, <1>3

\* A walk that is not on, or has just begun, has passed nothing.
LEMMA NonePassed == \A n \in {0, 1} : \A i : i \notin 1 .. n - 1
<1>1. 1 .. 0 - 1 = {} /\ 1 .. 1 - 1 = {}
  OBVIOUS
<1> QED BY <1>1

\* At first nothing is accepted.
LEMMA InitInv == Init => IInv
<1> SUFFICES ASSUME Init PROVE IInv
  OBVIOUS
<1>1. connectionList \in Seq(Conn) /\ Len(connectionList) = 0 /\ DOMAIN connectionList = {}
  BY DEF Init
<1>2. TypeOK
  <2>1. it \in 0 .. Len(connectionList) + 1
    BY <1>1 DEF Init
  <2>2. age \in [Conn -> Int] /\ status \in [Conn -> {"none", "up", "closing", "gone"}]
    BY DEF Init
  <2> QED BY <1>1, <2>1, <2>2, Zenon DEF Init, TypeOK
<1>3. Once
  BY <1>1 DEF Init, Once, Live
<1>4. Passed
  <2>1. it \in {0, 1}
    BY DEF Init
  <2> QED BY <2>1, NonePassed, Zenon DEF Passed
<1>5. Gone /\ Alone /\ \A c \in adding : status[c] # "none"
  BY Zenon DEF Init, Gone, Alone
<1> QED BY <1>2, <1>3, <1>4, <1>5 DEF IInv

\* A step that leaves the list alone, brings no connection to life and makes
\* none idle, unless the walk begins or ends.
LEMMA SameList ==
  ASSUME IInv, TypeOK', Alone', UNCHANGED <<connectionList, torn, adding>>,
         \A c \in Conn : status'[c] # status[c] => Live(c) /\ status'[c] # "none",
         it' \in {0, 1} \/ (it' = it /\ \A c \in Conn : Idle(c)' => Idle(c)),
         erasing' => erasing /\ it' = it
  PROVE  IInv'
<1>1. Once'
  <2>1. \A i \in DOMAIN connectionList : connectionList[i] \in Conn
    BY ListFacts DEF IInv
  <2>2. \A c \in Conn : Live(c)' => Live(c)
    BY DEF Live
  <2>3. \/ torn
        \/ \A i \in DOMAIN connectionList : status'[connectionList[i]] # "none"
    BY <2>1 DEF IInv, Once
  <2> QED BY <2>2, <2>3, Zenon DEF IInv, Once
<1>2. Passed'
  <2>1. CASE it' \in {0, 1}
    BY <2>1, NonePassed, Zenon DEF Passed
  <2>2. CASE it' = it /\ \A c \in Conn : Idle(c)' => Idle(c)
    <3>1. \A i \in 1 .. it - 1 : connectionList[i] \in Conn
      BY ListFacts, Zenon DEF IInv
    <3>2. ASSUME ~torn, NEW i \in 1 .. it - 1 PROVE ~Idle(connectionList[i])'
      <4>1. ~Idle(connectionList[i]) /\ connectionList[i] \in Conn
        BY <3>1, <3>2, Zenon DEF IInv, Passed
      <4> QED BY <2>2, <4>1
    <3> QED BY <2>2, <3>2, Zenon DEF Passed
  <2> QED BY <2>1, <2>2
<1>3. Gone'
  <2>1. \A c \in Conn : status[c] = "gone" => status'[c] = "gone"
    BY DEF Live
  <2>2. \A i \in DOMAIN connectionList : connectionList[i] \in Conn
    BY ListFacts DEF IInv
  <2> QED BY <2>1, <2>2, Zenon DEF IInv, Gone
<1>4. \A c \in adding' : status'[c] # "none"
  BY Zenon DEF IInv, TypeOK
<1> QED BY <1>1, <1>2, <1>3, <1>4 DEF IInv

\* What is heard and the end of connections make nothing idle in the walk.
LEMMA PeersInv ==
  ASSUME IInv, NEW c \in Conn, Receive(c) \/ Shutdown(c) \/ Leave(c)
  PROVE  IInv'
<1>1. UNCHANGED <<workers, connectionList, adding, linked, erasing, torn, due, it>>
  BY Zenon DEF Receive, Shutdown, Leave, list
<1>2. TypeOK'
  <2>1. status' \in [Conn -> {"none", "up", "closing", "gone"}]
    BY SMTT(120) DEF Receive, Shutdown, Leave, IInv, TypeOK
  <2>2. age' \in [Conn -> Int] /\ heard' \subseteq Conn
    BY DEF Receive, Shutdown, Leave, IInv, TypeOK
  <2> QED BY <1>1, <2>1, <2>2, Zenon DEF IInv, TypeOK
<1>3. \A d \in Conn : status'[d] # status[d] => Live(d) /\ status'[d] # "none"
  BY DEF Receive, Shutdown, Leave, Served, Live, IInv, TypeOK
<1>4. \A d \in Conn : Idle(d)' => Idle(d)
  BY SMTT(120) DEF Receive, Shutdown, Leave, Idle, IInv, TypeOK
<1>5. Alone'
  BY <1>1, Zenon DEF IInv, Alone
<1> QED BY <1>1, <1>2, <1>3, <1>4, <1>5, SameList

\* Outside of the walk time passes, or is set back.
LEMMA TimeInv ==
  ASSUME IInv, Second \/ \E n \in 1..MaxJump : ClockJump(n)
  PROVE  IInv'
<1>1. /\ UNCHANGED <<workers, status, connectionList, adding, linked, erasing, torn, it, heard>>
      /\ it = 0 /\ due' \in BOOLEAN
  BY Zenon DEF Second, ClockJump, list, IInv, TypeOK
<1>2. age' \in [Conn -> Int]
  <2>1. CASE Second
    BY <2>1 DEF Second, IInv, TypeOK
  <2>2. CASE \E n \in 1..MaxJump : ClockJump(n)
    BY <2>2 DEF ClockJump, IInv, TypeOK
  <2> QED BY <2>1, <2>2
<1>3. TypeOK' /\ Alone'
  BY <1>1, <1>2, Zenon DEF IInv, TypeOK, Alone
<1> QED BY <1>1, <1>3, SameList

\* push_back begins: a connection that was never on the list is on its way.
LEMMA AddInv == ASSUME IInv, NEW c \in Conn, AddHttpConnection(c) PROVE IInv'
<1>1. /\ status[c] = "none" /\ IoFree /\ adding' = adding \cup {c}
      /\ UNCHANGED <<workers, linked, erasing, due, heard>>
  BY DEF AddHttpConnection
<1>2. /\ status'[c] # "none" /\ \A d \in Conn : d # c => status'[d] = status[d]
      /\ status' \in [Conn -> {"none", "up", "closing", "gone"}]
  BY DEF AddHttpConnection, IInv, TypeOK
<1>3. age' \in [Conn -> Int] /\ \A d \in Conn : d # c => age'[d] = age[d]
  BY DEF AddHttpConnection, Expired, IInv, TypeOK
<1>4. /\ torn' = (torn \/ adding \cup linked # {} \/ (erasing /\ it = Len(connectionList)))
      /\ connectionList' = IF torn' THEN <<>> ELSE connectionList
      /\ it' = IF torn' /\ it > 0 THEN 1 ELSE it
  BY Zenon DEF AddHttpConnection, Becomes
<1>5. TypeOK'
  <2>1. connectionList' \in Seq(Conn) /\ it' \in 0 .. Len(connectionList') + 1
    BY <1>4, ListFacts DEF IInv, TypeOK
  <2>2. torn' \in BOOLEAN
    BY <1>4, Zenon
  <2> QED BY <1>1, <1>2, <1>3, <2>1, <2>2 DEF IInv, TypeOK
<1>6. Alone'
  <2> SUFFICES ASSUME workers = 0 PROVE ~torn' /\ it' = 0
    BY <1>1, Zenon DEF Alone
  <2>1. it = 0 /\ adding \cup linked = {} /\ ~torn
    BY <1>1, Zenon DEF IoFree, IInv, Alone
  <2>2. ~erasing
    BY <2>1 DEF IInv, Gone
  <2> QED BY <1>4, <2>1, <2>2, Zenon
<1>7. \A d \in adding' : status'[d] # "none"
  BY <1>1, <1>2, Zenon DEF IInv, TypeOK
<1>8. CASE torn'
  <2>1. it' > 0 <=> it > 0
    BY <1>4 DEF IInv, TypeOK
  <2> QED BY <1>1, <1>5, <1>6, <1>7, <1>8, <2>1, Zenon DEF IInv, Once, Passed, Gone
<1>9. CASE ~torn'
  <2>1. ~torn /\ UNCHANGED <<connectionList, it>>
    BY <1>4, <1>9, Zenon
  <2>2. \A i \in DOMAIN connectionList : connectionList[i] \in Conn /\ connectionList[i] # c
    BY <1>1, <2>1, ListFacts, Zenon DEF IInv, Once
  <2>3. Once'
    <3>1. \A i \in DOMAIN connectionList :
            status'[connectionList[i]] # "none" /\ connectionList[i] \notin adding'
      <4>1. \A i \in DOMAIN connectionList :
              status[connectionList[i]] # "none" /\ connectionList[i] \notin adding
        BY <2>1, Zenon DEF IInv, Once
      <4> QED BY <1>1, <1>2, <2>2, <4>1, Zenon
    <3>2. ASSUME NEW d \in Conn, Live(d)', d \notin adding'
          PROVE  \E i \in DOMAIN connectionList : connectionList[i] = d
      <4>1. d # c /\ d \notin adding /\ Live(d)
        BY <1>1, <1>2, <3>2 DEF Live
      <4> QED BY <2>1, <4>1, Zenon DEF IInv, Once
    <3> QED BY <2>1, <3>1, <3>2, Zenon DEF IInv, Once
  <2>4. Passed'
    <3>1. ASSUME NEW i \in 1 .. it - 1 PROVE ~Idle(connectionList[i])'
      <4>1. PICK d \in Conn : d = connectionList[i] /\ d # c
        BY <2>2, ListFacts, Zenon DEF IInv
      <4>2. ~Idle(d)
        BY <2>1, <4>1, Zenon DEF IInv, Passed
      <4>3. status'[d] = status[d] /\ age'[d] = age[d]
        BY <1>2, <1>3, <4>1, Zenon
      <4> QED BY <2>1, <4>1, <4>2, <4>3, Zenon DEF Idle
    <3> QED BY <2>1, <3>1, Zenon DEF Passed
  <2>5. Gone'
    BY <1>1, <1>2, <2>1, <2>2, Zenon DEF IInv, Gone
  <2> QED BY <1>5, <1>6, <1>7, <2>3, <2>4, <2>5, Zenon DEF IInv
<1> QED BY <1>8, <1>9

\* push_back returns.
LEMMA AddedInv == ASSUME IInv, NEW c \in Conn, Added(c) PROVE IInv'
<1>1. /\ UNCHANGED <<workers, status, age, connectionList, adding, erasing, torn, due, it, heard>>
      /\ linked' = linked \ {c}
  BY Zenon DEF Added
<1>2. TypeOK'
  BY <1>1, Zenon DEF IInv, TypeOK
<1>3. Alone'
  BY <1>1, Zenon DEF IInv, Alone
<1>4. \A d \in Conn : Idle(d)' => Idle(d)
  BY <1>1, Zenon DEF Idle
<1> QED BY <1>1, <1>2, <1>3, <1>4, SameList

\* Of a list that is torn nothing is kept but its types.
LEMMA TornInv ==
  ASSUME IInv, torn', connectionList' = <<>>, it' = IF it > 0 THEN 1 ELSE 0, workers # 0,
         UNCHANGED <<workers, status, age, due, heard>>,
         adding' \subseteq adding, linked' \subseteq Conn, erasing' \in BOOLEAN,
         erasing' => it > 0
  PROVE  IInv'
<1>1. connectionList' \in Seq(Conn) /\ it' \in 0 .. Len(connectionList') + 1
  OBVIOUS
<1>2. TypeOK'
  BY <1>1, Zenon DEF IInv, TypeOK
<1>3. Gone'
  BY DEF Gone
<1> QED BY <1>2, <1>3, Zenon DEF IInv, Once, Passed, Alone

\* The connection that push_back links to a whole list comes last.
LEMMA LinkInv == ASSUME IInv, NEW c \in Conn, Link(c), ~torn PROVE IInv'
<1>1. PICK s, t, n : s = connectionList /\ t = connectionList' /\ n = Len(s)
  BY Zenon
<1>2. /\ s \in Seq(Conn) /\ n \in Nat /\ DOMAIN s = 1..n /\ it \in Nat /\ it <= n + 1
      /\ \A i \in DOMAIN s : s[i] \in Conn
  BY <1>1, ListFacts DEF IInv, TypeOK
<1>3. /\ t \in Seq(Conn) /\ Len(t) = n + 1 /\ DOMAIN t = 1..(n + 1) /\ t[n + 1] = c
      /\ \A i \in 1..n : t[i] = s[i]
  <2>1. t = Append(s, c)
    BY <1>1, Zenon DEF Link, Becomes
  <2> QED BY <1>1, <1>2, <2>1, AppendProperties
<1>4. /\ \A i \in DOMAIN t : (i \in DOMAIN s /\ t[i] = s[i]) \/ (i = n + 1 /\ t[i] = c)
      /\ \A i \in DOMAIN s : i \in DOMAIN t /\ t[i] = s[i]
      /\ n + 1 \in DOMAIN t /\ n + 1 \notin DOMAIN s
  <2>1. \A i \in 1..(n + 1) : i \in 1..n \/ i = n + 1
    BY <1>2
  <2>2. n + 1 \in 1..(n + 1) /\ n + 1 \notin 1..n /\ \A i \in 1..n : i \in 1..(n + 1)
    BY <1>2
  <2> QED BY <1>2, <1>3, <2>1, <2>2, Zenon
<1>5. /\ c \in adding /\ adding' = adding \ {c} /\ linked' = linked \cup {c}
      /\ UNCHANGED <<workers, status, age, erasing, due, heard, torn, it>>
  <2>1. torn' = torn
    BY DEF Link, Becomes, IInv, TypeOK
  <2> QED BY <2>1, Zenon DEF Link, Becomes
<1>6. TypeOK'
  <2>1. it' \in 0 .. Len(t) + 1
    BY <1>2, <1>3, <1>5
  <2> QED BY <1>1, <1>3, <1>5, <2>1, Zenon DEF IInv, TypeOK
<1>7. /\ \A i, j \in DOMAIN s : s[i] = s[j] => i = j
      /\ \A i \in DOMAIN s : status[s[i]] # "none" /\ s[i] \notin adding
      /\ \A d \in Conn : (Live(d) /\ d \notin adding) => \E i \in DOMAIN s : s[i] = d
  BY <1>1, Zenon DEF IInv, Once
<1>8. \A i \in DOMAIN s : s[i] # c
  <2>1. c \in adding
    BY <1>5, Zenon
  <2>2. \A i \in DOMAIN s : s[i] \notin adding
    BY <1>7, Zenon
  <2> QED BY <2>1, <2>2, Zenon
<1>9. Once'
  <2>1. \A i, j \in DOMAIN t : t[i] = t[j] => i = j
    BY <1>4, <1>7, <1>8
  <2>2. ASSUME NEW i \in DOMAIN t PROVE status[t[i]] # "none" /\ t[i] \notin adding'
    <3>1. CASE i \in DOMAIN s /\ t[i] = s[i]
      BY <1>5, <1>7, <3>1, Zenon
    <3>2. CASE t[i] = c
      BY <1>5, <3>2, Zenon DEF IInv
    <3> QED BY <1>4, <3>1, <3>2, Zenon
  <2>3. ASSUME NEW d \in Conn, Live(d), d \notin adding' PROVE \E i \in DOMAIN t : t[i] = d
    <3>1. CASE d = c
      BY <1>3, <1>4, <3>1, Zenon
    <3>2. CASE d # c
      <4>1. PICK i \in DOMAIN s : s[i] = d
        BY <1>5, <1>7, <2>3, <3>2, Zenon
      <4> QED BY <1>4, <4>1, Zenon
    <3> QED BY <3>1, <3>2
  <2> QED BY <1>1, <1>5, <2>1, <2>2, <2>3, Zenon DEF Once, Live
<1>10. Passed'
  <2>1. ASSUME NEW i \in 1 .. it - 1 PROVE ~Idle(t[i])'
    <3>1. i \in DOMAIN s /\ t[i] = s[i]
      BY <1>2, <1>3
    <3>2. ~Idle(s[i])
      BY <1>1, Zenon DEF IInv, Passed
    <3> QED BY <1>1, <1>5, <3>1, <3>2, Zenon DEF Idle
  <2> QED BY <1>1, <1>5, <2>1, Zenon DEF Passed
<1>11. Gone' /\ Alone' /\ \A d \in adding' : status'[d] # "none"
  <2>1. \A i \in DOMAIN s : i \in DOMAIN t /\ t[i] = s[i]
    BY <1>4, Zenon
  <2>2. Gone'
    BY <1>1, <1>5, <2>1, Zenon DEF IInv, Gone
  <2>3. adding' \cup linked' = adding \cup linked
    BY <1>5
  <2> QED BY <1>5, <2>2, <2>3, Zenon DEF IInv, Alone
<1> QED BY <1>6, <1>9, <1>10, <1>11 DEF IInv

\* The walk begins at the head of the list, and ends.
LEMMA BeginEndInv == ASSUME IInv, OnTimer \/ EndWalk PROVE IInv'
<1>1. /\ UNCHANGED <<workers, status, age, connectionList, adding, linked, erasing, torn>>
      /\ it' \in {0, 1} /\ due' \in BOOLEAN /\ heard' = {} /\ ~erasing
      /\ it' = 1 => (workers = 0 => IoFree)
  <2>1. CASE OnTimer
    <3>1. ~(it > 0)
      BY <2>1 DEF OnTimer
    <3> QED BY <2>1, <3>1, Zenon DEF OnTimer, list, IInv, Gone
  <2>2. CASE EndWalk
    <3>1. ~erasing
      BY <2>2, Zenon DEF EndWalk, AtEnd, At
    <3>2. it' = 0 /\ it' # 1
      BY <2>2 DEF EndWalk
    <3> QED BY <2>2, <3>1, <3>2, Zenon DEF EndWalk, list, IInv, TypeOK
  <2> QED BY <2>1, <2>2
<1>2. TypeOK'
  <2>1. it' \in 0 .. Len(connectionList) + 1
    BY <1>1, ListFacts DEF IInv
  <2> QED BY <1>1, <2>1, Zenon DEF IInv, TypeOK
<1>3. Alone'
  <2>1. CASE it' = 1
    BY <1>1, <2>1, Zenon DEF IInv, Alone, IoFree
  <2>2. CASE it' = 0
    BY <1>1, <2>2, Zenon DEF IInv, Alone
  <2> QED BY <1>1, <2>1, <2>2
<1> QED BY <1>1, <1>2, <1>3, SameList

\* What the walk does to one connection before it goes on to the next.
LEMMA VisitInv ==
  ASSUME IInv, NEW c \in Conn, At(c), it' = Following,
         UNCHANGED <<workers, connectionList, adding, linked, erasing, torn, due>>,
         status' \in [Conn -> {"none", "up", "closing", "gone"}], age' \in [Conn -> Int],
         heard' \subseteq Conn, ~Idle(c)',
         \A d \in Conn : status'[d] # status[d] => Live(d) /\ status'[d] # "none",
         \A d \in Conn : Idle(d)' => Idle(d)
  PROVE  IInv'
<1>1. ~erasing /\ it > 0 /\ it \in Nat
  BY ListFacts DEF At, IInv
<1>2. torn \/ (it \in DOMAIN connectionList /\ connectionList[it] = c /\ it' = it + 1)
  BY <1>1, ListFacts DEF At, Following, IInv
<1>3. TypeOK'
  <2>1. it' \in 0 .. Len(connectionList) + 1
    BY <1>1, <1>2, ListFacts DEF IInv, At, Following
  <2> QED BY <2>1, Zenon DEF IInv, TypeOK
<1>4. Once'
  <2>1. \A i \in DOMAIN connectionList : connectionList[i] \in Conn
    BY ListFacts DEF IInv
  <2>2. \A d \in Conn : Live(d)' => Live(d)
    BY DEF Live
  <2>3. \/ torn
        \/ \A i \in DOMAIN connectionList : status'[connectionList[i]] # "none"
    BY <2>1 DEF IInv, Once
  <2> QED BY <2>2, <2>3, Zenon DEF IInv, Once
<1>5. Passed'
  <2> SUFFICES ASSUME ~torn PROVE \A i \in 1 .. it' - 1 : ~Idle(connectionList[i])'
    BY Zenon DEF Passed
  <2>1. \A i \in 1 .. it - 1 : connectionList[i] \in Conn
    BY ListFacts, Zenon DEF IInv
  <2>2. ASSUME NEW i \in 1 .. it' - 1 PROVE ~Idle(connectionList[i])'
    <3>1. i = it \/ i \in 1 .. it - 1
      BY <1>1, <1>2
    <3>2. CASE i = it
      BY <1>2, <3>2, Zenon DEF Idle
    <3>3. CASE i \in 1 .. it - 1
      <4>1. ~Idle(connectionList[i]) /\ connectionList[i] \in Conn
        BY <2>1, <3>3, Zenon DEF IInv, Passed
      <4> QED BY <4>1
    <3> QED BY <3>1, <3>2, <3>3
  <2> QED BY <2>2
<1>6. Gone'
  BY <1>1, Zenon DEF Gone
<1>7. Alone'
  <2>1. workers = 0 => ~torn /\ adding \cup linked = {}
    BY <1>1 DEF IInv, Alone
  <2> QED BY <2>1, Zenon DEF Alone
<1>8. \A d \in adding' : status'[d] # "none"
  BY Zenon DEF IInv, TypeOK
<1> QED BY <1>3, <1>4, <1>5, <1>6, <1>7, <1>8 DEF IInv

\* A connection over its time is closed, if it is connected.
LEMMA TimeOutInv == ASSUME IInv, NEW c \in Conn, TimeOut(c) PROVE IInv'
<1>1. /\ status' = TimedOut(c) /\ At(c) /\ it' = Following
      /\ UNCHANGED <<workers, age, connectionList, adding, linked, erasing, torn, due, heard>>
  BY Zenon DEF TimeOut, list
<1>2. status' \in [Conn -> {"none", "up", "closing", "gone"}]
  BY <1>1 DEF TimedOut, IInv, TypeOK
<1>3. \A d \in Conn : status'[d] # status[d] => Live(d) /\ status'[d] # "none"
  BY <1>1 DEF TimedOut, Live, IInv, TypeOK
<1>4. status'[c] # "up" /\ \A d \in Conn : status'[d] = "up" => status[d] = "up"
  BY <1>1 DEF TimedOut, IInv, TypeOK
<1>5. ~Idle(c)' /\ \A d \in Conn : Idle(d)' => Idle(d)
  BY <1>1, <1>4, Zenon DEF Idle
<1>6. age' \in [Conn -> Int] /\ heard' \subseteq Conn
  BY <1>1, Zenon DEF IInv, TypeOK
<1> QED BY <1>1, <1>2, <1>3, <1>5, <1>6, VisitInv

\* A connection that has heard since, or whose time was ahead, is not idle.
LEMMA TimeJumpInv == ASSUME IInv, NEW c \in Conn, TimeJump(c) PROVE IInv'
<1>1. /\ age' = [age EXCEPT ![c] = 0] /\ heard' = heard \ {c} /\ At(c) /\ it' = Following
      /\ UNCHANGED <<workers, status, connectionList, adding, linked, erasing, torn, due>>
  BY Zenon DEF TimeJump, list
<1>2. /\ age' \in [Conn -> Int] /\ heard' \subseteq Conn
      /\ status' \in [Conn -> {"none", "up", "closing", "gone"}]
  BY <1>1 DEF IInv, TypeOK
<1>3. age'[c] = 0 /\ \A d \in Conn : age'[d] # age[d] => d = c
  BY <1>1 DEF IInv, TypeOK
<1>4. \A d \in Conn : Idle(d)' => Idle(d)
  BY <1>1, <1>3 DEF Idle
<1>5. ~Idle(c)'
  BY <1>3 DEF Idle
<1> QED BY <1>1, <1>2, <1>4, <1>5, VisitInv

\* erase begins at a connection that is gone.
LEMMA EraseInv == ASSUME IInv, NEW c \in Conn, EraseClosed(c) PROVE IInv'
<1>1. /\ At(c) /\ status[c] = "gone" /\ erasing' = TRUE
      /\ torn' = (torn \/ (it = Len(connectionList) /\ adding # {}))
      /\ connectionList' = IF torn' THEN <<>> ELSE connectionList
      /\ it' = IF torn' /\ it > 0 THEN 1 ELSE it
      /\ UNCHANGED <<workers, status, age, adding, linked, due, heard>>
  BY Zenon DEF EraseClosed, Locked, Becomes
<1>2. it > 0 /\ it \in Nat
  BY <1>1, ListFacts DEF At, IInv
<1>3. workers = 0 => ~torn /\ adding \cup linked = {} /\ adding = {}
  BY <1>2 DEF IInv, Alone
<1>4. CASE torn'
  <2>1. workers # 0
    BY <1>1, <1>3, <1>4, Zenon
  <2>2. it' = IF it > 0 THEN 1 ELSE 0
    BY <1>1, <1>2, <1>4, Zenon
  <2>3. linked \subseteq Conn
    BY Zenon DEF IInv, TypeOK
  <2> QED BY <1>1, <1>2, <1>4, <2>1, <2>2, <2>3, TornInv
<1>5. CASE ~torn'
  <2>1. ~torn /\ UNCHANGED <<torn, connectionList, it>>
    <3>1. ~torn /\ torn' = torn
      BY <1>1, <1>5, Zenon DEF IInv, TypeOK
    <3> QED BY <1>1, <1>5, <3>1, Zenon
  <2>2. it \in DOMAIN connectionList /\ connectionList[it] = c
    <3>1. it <= Len(connectionList) /\ connectionList[it] = c
      BY <1>1, <2>1, Zenon DEF At
    <3> QED BY <1>2, <3>1, ListFacts DEF IInv
  <2>3. Gone'
    BY <1>1, <1>2, <2>1, <2>2, Zenon DEF Gone
  <2>4. TypeOK'
    BY <1>1, <2>1, Zenon DEF IInv, TypeOK
  <2>5. Once'
    BY <1>1, <2>1, ZenonT(60) DEF IInv, Once, Live
  <2>6. Passed'
    BY <1>1, <2>1, Zenon DEF IInv, Passed, Idle
  <2>7. Alone'
    BY <1>1, <1>3, <2>1, Zenon DEF Alone
  <2> QED BY <1>1, <2>3, <2>4, <2>5, <2>6, <2>7, Zenon DEF IInv
<1> QED BY <1>4, <1>5

\* Only a connection that is gone is taken off the list; those behind it move
\* up, and the iterator is at the next.
LEMMA ErasedInv == ASSUME IInv, Erased, ~torn PROVE IInv'
<1>1. PICK s, t, n, k : /\ s = connectionList /\ t = connectionList' /\ n = Len(s) /\ k = it
  BY Zenon
<1>2. /\ s \in Seq(Conn) /\ n \in Nat /\ DOMAIN s = 1..n /\ k \in 1..n /\ k \in Nat
      /\ \A i \in DOMAIN s : s[i] \in Conn
  BY <1>1, ListFacts DEF IInv, TypeOK, Erased, Gone
<1>3. /\ status[s[k]] = "gone"
      /\ UNCHANGED <<workers, status, age, adding, linked, due, it, heard, torn>>
      /\ erasing' = FALSE
      /\ t = SubSeq(s, 1, k - 1) \o SubSeq(s, k + 1, n)
  <2>1. torn' = torn
    BY DEF Erased, Becomes, IInv, TypeOK
  <2>2. UNCHANGED <<workers, status, age, adding, linked, due, it, heard>> /\ erasing' = FALSE
    BY <2>1, Zenon DEF Erased, Becomes
  <2>3. t = SubSeq(s, 1, k - 1) \o SubSeq(s, k + 1, n)
    BY <1>1, <2>1, Zenon DEF Erased, Becomes
  <2>4. status[s[k]] = "gone"
    BY <1>1, Zenon DEF IInv, Gone, Erased
  <2> QED BY <2>1, <2>2, <2>3, <2>4, Zenon
<1>4. /\ t \in Seq(Conn) /\ Len(t) = n - 1
      /\ \A i \in 1..(k - 1) : t[i] = s[i]
      /\ \A i \in k..(n - 1) : t[i] = s[i + 1]
  <2>1. PICK a, b : a = SubSeq(s, 1, k - 1) /\ b = SubSeq(s, k + 1, n)
    BY Zenon
  <2>2. /\ a \in Seq(Conn) /\ Len(a) = k - 1
        /\ \A i \in 1..(k - 1) : a[i] = s[i]
    BY <1>1, <1>2, <2>1, SubSeqProperties
  <2>3. /\ b \in Seq(Conn) /\ Len(b) = n - k
        /\ \A i \in 1..(n - k) : b[i] = s[k + i]
    BY <1>1, <1>2, <2>1, SubSeqProperties
  <2>4. t = a \o b
    BY <1>3, <2>1
  <2>5. /\ t \in Seq(Conn) /\ Len(t) = (k - 1) + (n - k)
        /\ \A i \in 1..(k - 1) : t[i] = a[i]
        /\ \A i \in 1..(n - k) : t[(k - 1) + i] = b[i]
    <3>1. /\ t \in Seq(Conn) /\ Len(t) = Len(a) + Len(b)
          /\ \A i \in 1..Len(a) : t[i] = a[i]
          /\ \A i \in 1..Len(b) : t[Len(a) + i] = b[i]
      <4>1. a \in Seq(Conn) /\ b \in Seq(Conn)
        BY <2>2, <2>3
      <4>2. /\ a \o b \in Seq(Conn) /\ Len(a \o b) = Len(a) + Len(b)
            /\ \A i \in 1..Len(a) : (a \o b)[i] = a[i]
            /\ \A i \in 1..Len(b) : (a \o b)[Len(a) + i] = b[i]
        BY <4>1, ConcatProperties
      <4> QED BY <2>4, <4>2, Zenon
    <3> QED BY <2>2, <2>3, <3>1
  <2>6. ASSUME NEW i \in k..(n - 1) PROVE t[i] = s[i + 1]
    <3>1. PICK j : j = i - k + 1
      BY Zenon
    <3>2. j \in 1..(n - k) /\ (k - 1) + j = i /\ k + j = i + 1
      BY <1>2, <3>1
    <3> QED BY <2>3, <2>5, <3>2
  <2> QED BY <1>2, <2>2, <2>5, <2>6
<1>5. DOMAIN t = 1..(n - 1)
  BY <1>2, <1>4
\* where each position of the new list comes from
<1>6. PICK from : from = [i \in 1..(n - 1) |-> IF i < k THEN i ELSE i + 1]
  BY Zenon
<1>7. /\ \A i \in DOMAIN t : from[i] \in DOMAIN s /\ t[i] = s[from[i]] /\ from[i] # k
      /\ \A i, j \in DOMAIN t : from[i] = from[j] => i = j
      /\ \A j \in DOMAIN s : j # k => \E i \in DOMAIN t : from[i] = j
  <2>1. ASSUME NEW i \in DOMAIN t
        PROVE  from[i] \in DOMAIN s /\ t[i] = s[from[i]] /\ from[i] # k
    <3>1. CASE i < k
      <4>1. from[i] = i /\ i \in 1..(k - 1) /\ i \in 1..n /\ i # k
        BY <1>2, <1>5, <1>6, <3>1
      <4> QED BY <1>2, <1>4, <4>1
    <3>2. CASE ~(i < k)
      <4>1. from[i] = i + 1 /\ i \in k..(n - 1) /\ i + 1 \in 1..n /\ i + 1 # k
        BY <1>2, <1>5, <1>6, <3>2
      <4> QED BY <1>2, <1>4, <4>1
    <3> QED BY <3>1, <3>2
  <2>2. \A i, j \in DOMAIN t : from[i] = from[j] => i = j
    BY <1>2, <1>5, <1>6, SMTT(30)
  <2>3. ASSUME NEW j \in DOMAIN s, j # k PROVE \E i \in DOMAIN t : from[i] = j
    <3>1. CASE j < k
      <4>1. j \in DOMAIN t /\ from[j] = j
        BY <1>2, <1>5, <1>6, <3>1
      <4> QED BY <4>1
    <3>2. CASE j > k
      <4>1. j - 1 \in DOMAIN t /\ from[j - 1] = j
        BY <1>2, <1>5, <1>6, <3>2
      <4> QED BY <4>1
    <3> QED BY <1>2, <2>3, <3>1, <3>2
  <2> QED BY <2>1, <2>2, <2>3, Zenon
<1>8. TypeOK'
  <2>1. it' \in 0 .. Len(t) + 1
    <3>1. k \in 0 .. (n - 1) + 1
      BY <1>2
    <3> QED BY <1>1, <1>3, <1>4, <3>1, Zenon
  <2> QED BY <1>1, <1>3, <1>4, <2>1, Zenon DEF IInv, TypeOK
<1>9. Once'
  <2>1. /\ \A i, j \in DOMAIN s : s[i] = s[j] => i = j
        /\ \A i \in DOMAIN s : status[s[i]] # "none" /\ s[i] \notin adding
        /\ \A c \in Conn : (Live(c) /\ c \notin adding) => \E i \in DOMAIN s : s[i] = c
    BY <1>1, Zenon DEF IInv, Once
  <2>2. \A i, j \in DOMAIN t : t[i] = t[j] => i = j
    BY <1>7, <2>1
  <2>3. \A i \in DOMAIN t : status[t[i]] # "none" /\ t[i] \notin adding
    BY <1>7, <2>1
  <2>4. ASSUME NEW c \in Conn, Live(c), c \notin adding PROVE \E i \in DOMAIN t : t[i] = c
    <3>1. PICK j \in DOMAIN s : s[j] = c
      BY <2>1, <2>4, Zenon
    <3>2. j # k
      BY <1>3, <2>4, <3>1 DEF Live
    <3>3. PICK i \in DOMAIN t : from[i] = j
      BY <1>7, <3>2
    <3> QED BY <1>7, <3>1, <3>3
  <2> QED BY <1>1, <1>3, <2>2, <2>3, <2>4, Zenon DEF Once, Live
<1>10. Passed'
  <2>1. ASSUME NEW i \in 1 .. it - 1 PROVE ~Idle(t[i])'
    <3>1. t[i] = s[i] /\ ~Idle(s[i])
      BY <1>1, <1>4, Zenon DEF IInv, Passed
    <3> QED BY <1>1, <1>3, <3>1, Zenon DEF Idle
  <2> QED BY <1>1, <1>3, <2>1, Zenon DEF Passed
<1>11. Gone' /\ Alone' /\ \A c \in adding' : status'[c] # "none"
  BY <1>3, Zenon DEF IInv, Gone, Alone
<1> QED BY <1>8, <1>9, <1>10, <1>11 DEF IInv

\* A step of push_back or erase on a list that is torn leaves it torn.
LEMMA TornStepInv ==
  ASSUME IInv, torn, Erased \/ \E c \in Conn : Link(c)
  PROVE  IInv'
<1>1. /\ torn' /\ connectionList' = <<>> /\ it' = (IF torn' /\ it > 0 THEN 1 ELSE it)
      /\ UNCHANGED <<workers, status, age, due, heard>>
      /\ adding' \subseteq adding /\ linked' \subseteq Conn
      /\ erasing' = FALSE \/ erasing' = erasing
  BY Zenon DEF Erased, Link, Becomes, IInv, TypeOK
<1>2. it' = IF it > 0 THEN 1 ELSE 0
  <2>1. it \in Nat
    BY ListFacts DEF IInv
  <2>2. it > 0 \/ it = 0
    BY <2>1
  <2> QED BY <1>1, <2>2, Zenon
<1>3. workers # 0
  BY Zenon DEF IInv, Alone
<1>4. erasing' \in BOOLEAN /\ (erasing' => it > 0)
  <2>1. CASE erasing' = FALSE
    BY <2>1, Zenon
  <2>2. CASE erasing' = erasing
    BY <2>2, Zenon DEF IInv, TypeOK, Gone
  <2> QED BY <1>1, <2>1, <2>2, Zenon
<1> QED BY <1>1, <1>2, <1>3, <1>4, TornInv, Zenon

\* Every step of the connections, the clock and the walk keeps the invariant.
LEMMA StepInv == IInv /\ [Next]_vars => IInv'
<1> SUFFICES ASSUME IInv, [Next]_vars PROVE IInv'
  OBVIOUS
<1>1. CASE \E c \in Conn : AddHttpConnection(c)
  BY <1>1, AddInv
<1>2. CASE \E c \in Conn : Receive(c) \/ Shutdown(c) \/ Leave(c)
  BY <1>2, PeersInv
<1>3. CASE Second \/ \E n \in 1..MaxJump : ClockJump(n)
  BY <1>3, TimeInv
<1>4. CASE OnTimer \/ EndWalk
  BY <1>4, BeginEndInv
<1>5. CASE \E c \in Conn : Link(c)
  BY <1>5, LinkInv, TornStepInv
<1>6. CASE \E c \in Conn : Added(c)
  BY <1>6, AddedInv
<1>7. CASE \E c \in Conn : TimeOut(c)
  BY <1>7, TimeOutInv
<1>8. CASE \E c \in Conn : TimeJump(c)
  BY <1>8, TimeJumpInv
<1>9. CASE \E c \in Conn : EraseClosed(c)
  BY <1>9, EraseInv
<1>10. CASE Erased
  BY <1>10, ErasedInv, TornStepInv
<1>11. CASE UNCHANGED vars
  BY <1>11, Zenon DEF vars, list, IInv, TypeOK, Once, Live, Passed, Idle, Gone, Alone
<1> QED BY <1>1, <1>2, <1>3, <1>4, <1>5, <1>6, <1>7, <1>8, <1>9, <1>10, <1>11, Zenon
         DEF Next, Walk, PushBack

\* Without workers the idle timer's list is never torn; with any number of them,
\* each live connection stays on it, once, and no walk passes an idle one, as
\* long as no push_back overlaps another or the erase of the last node: for any
\* connections, limits and steps of the clock.
THEOREM LiveWatched == Spec => []AllWatched
<1>1. IInv => AllWatched
  <2> SUFFICES ASSUME IInv PROVE AllWatched
    OBVIOUS
  <2>1. ASSUME ~torn, NEW c \in Conn, Live(c), c \notin adding
        PROVE  \E i \in DOMAIN connectionList : \A j \in DOMAIN connectionList :
                 connectionList[j] = c <=> j = i
    <3>1. PICK i \in DOMAIN connectionList : connectionList[i] = c
      BY <2>1, Zenon DEF IInv, Once
    <3> QED BY <2>1, <3>1, Zenon DEF IInv, Once
  <2> QED BY <2>1, Zenon DEF IInv, Passed, Alone, AllWatched
<1> QED BY InitInv, StepInv, <1>1, PTL DEF Spec

\* Types are kept, and the iterator stays on the list it walks.
THEOREM TypeCorrect == Spec => []TypeOK
<1>1. IInv => TypeOK
  BY DEF IInv
<1> QED BY InitInv, StepInv, <1>1, PTL DEF Spec
=============================================================================
