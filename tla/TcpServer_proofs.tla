-------------------------- MODULE TcpServer_proofs --------------------------
(***************************************************************************)
(* Proofs about the life, the removal and the count of connections, for    *)
(* any number of connections, of I/O loops and any limit.                  *)
(*                                                                         *)
(* RawThisAlive and FinAfterOutput hold however the idle timer interferes. *)
(* They rest on Life: what each state_ says about where the connection's   *)
(* functors are, and that a shutdownInLoop left in the queue of a          *)
(* connection that is in no map any more is followed there by its          *)
(* connectDestroyed, which holds a shared_ptr.                             *)
(*                                                                         *)
(* The assertions, the clean destruction and the count hold when the idle  *)
(* timer cannot race with an I/O loop (NoRace).  They rest on Phase: a     *)
(* connection that is down is in exactly one of the stages of its removal, *)
(* the running close handler, removeConnectionInLoop, connectDestroyed,    *)
(* and it leaves connections_ between the second and the third.            *)
(*                                                                         *)
(* The first part is lemmas about the steps: what they do to the queues of *)
(* functors and to the control points of the loops, that they keep the     *)
(* types, and that a step for one connection leaves the others alone.      *)
(***************************************************************************)
EXTENDS TcpServer, FiniteSetTheorems, TLAPS

State == {"none", "kConnecting", "kConnected", "kDisconnecting", "kDisconnected"}
Op == StrongOps \cup {"shutdownInLoop", "addTimerInLoop"}
ClosePc == {"closed", "down"}
TimerPc == {"shutdown", "shutdownSet", "delay", "delaySet"}

Queues == [Loop -> Seq(Op \X Conn)]

\* The types of the members of the connections, the server and the loops.
TypeOK ==
  /\ state \in [Conn -> State]
  /\ loopOf \in [Conn -> Loop]
  /\ Workers # <<>> => next \in 1..Len(Workers)
  /\ events \in [Conn -> SUBSET {"read", "write"}]
  /\ added \in [Conn -> BOOLEAN]
  /\ output \in [Conn -> BOOLEAN]
  /\ finSent \in [Conn -> BOOLEAN]
  /\ connections \in SUBSET Conn
  /\ timerList \in SUBSET Conn
  /\ numConnected \in Int
  /\ delayed \in [Conn -> Nat]
  /\ queue \in Queues
  /\ pc \in [Loop -> {Idle} \cup (ClosePc \cup TimerPc) \X Conn]

-----------------------------------------------------------------------------
(* What can be said of a family q of queues and of a connection.           *)

InQ(q, op, c) == \E l \in Loop : Task(op, c) \in Range(q[l])

Once(q, op, c) ==
  \A k, l \in Loop : \A i \in 1..Len(q[k]), j \in 1..Len(q[l]) :
    q[k][i] = Task(op, c) /\ q[l][j] = Task(op, c) => k = l /\ i = j

\* Every shutdownInLoop of c has a connectDestroyed of c behind it.
Guarded(q, c) ==
  \A l \in Loop : \A i \in 1..Len(q[l]) : q[l][i] = Task("shutdownInLoop", c) =>
    \E j \in 1..Len(q[l]) : i < j /\ q[l][j] = Task("connectDestroyed", c)

\* These functors of c, and the close handler, are in its own loop.
Home(q, c) ==
  \A l \in Loop : \A op \in {"shutdownInLoop", "forceCloseInLoop"} :
    Task(op, c) \in Range(q[l]) => l = loopOf[c]

ClosedAtHome(c) ==
  \A l \in Loop : pc[l] \in {<<"closed", c>>, <<"down", c>>} => l = loopOf[c]

Closing(c) == \E l \in Loop : pc[l] \in {<<"closed", c>>, <<"down", c>>}
Expiring(c) == \E p \in TimerPc : pc[Base] = <<p, c>>
Up(c) == state[c] \in {"kConnected", "kDisconnecting"}

-----------------------------------------------------------------------------
(* Pushing on and popping from one of the queues.                          *)

\* A handler's control point is not the idle one, and two of them are equal
\* only when they are of one operation and one connection.
LEMMA PcDistinct ==
  /\ \A p, c : <<p, c>> # Idle
  /\ \A p, c, o, d : <<p, c>> = <<o, d>> <=> p = o /\ c = d
BY Zenon DEF Idle

\* The elements of a queue after a push.
LEMMA PushElements ==
  ASSUME NEW q \in Queues, NEW l \in Loop, NEW op \in Op, NEW c \in Conn
  PROVE  /\ Push(q, l, op, c) \in Queues
         /\ \A k \in Loop : k # l => Push(q, l, op, c)[k] = q[k]
         /\ Len(Push(q, l, op, c)[l]) = Len(q[l]) + 1
         /\ \A i \in 1..Len(q[l]) : Push(q, l, op, c)[l][i] = q[l][i]
         /\ Push(q, l, op, c)[l][Len(q[l]) + 1] = Task(op, c)
<1>1. Task(op, c) \in Op \X Conn
  BY Zenon DEF Task
<1>2. q[l] \in Seq(Op \X Conn)
  BY Zenon DEF Queues
<1>3. Append(q[l], Task(op, c)) \in Seq(Op \X Conn)
  BY <1>1, <1>2
<1>4. Push(q, l, op, c) = [q EXCEPT ![l] = Append(q[l], Task(op, c))]
  BY Zenon DEF Push
<1>5. Push(q, l, op, c)[l] = Append(q[l], Task(op, c))
  BY <1>4, Zenon DEF Queues
<1> QED BY <1>1, <1>2, <1>3, <1>4, <1>5 DEF Queues

\* A push adds one functor to what is queued, after what was there.
LEMMA PushFacts ==
  ASSUME NEW q \in Queues, NEW l \in Loop, NEW op \in Op, NEW c \in Conn
  PROVE  /\ \A k \in Loop : \A o, d : Task(o, d) \in Range(Push(q, l, op, c)[k]) <=>
              Task(o, d) \in Range(q[k]) \/ (k = l /\ o = op /\ d = c)
         /\ \A o, d : InQ(Push(q, l, op, c), o, d) <=> InQ(q, o, d) \/ (o = op /\ d = c)
         /\ \A o, d : Once(q, o, d) /\ (~InQ(q, o, d) \/ o # op \/ d # c)
              => Once(Push(q, l, op, c), o, d)
         /\ \A d : Guarded(q, d) /\ (op # "shutdownInLoop" \/ d # c)
              => Guarded(Push(q, l, op, c), d)
         /\ /\ op = "connectDestroyed"
            /\ \A k \in Loop : Task("shutdownInLoop", c) \in Range(q[k]) => k = l
            => Guarded(Push(q, l, op, c), c)
<1> DEFINE r == Push(q, l, op, c)
           n == Len(q[l])
<1>1. \A k \in Loop : q[k] \in Seq(Op \X Conn) /\ DOMAIN q[k] = 1..Len(q[k])
                      /\ Len(q[k]) \in Nat
  BY DEF Queues
<1>2. /\ r \in Queues
      /\ \A k \in Loop : k # l => r[k] = q[k]
      /\ Len(r[l]) = n + 1
      /\ \A i \in 1..n : r[l][i] = q[l][i]
      /\ r[l][n + 1] = Task(op, c)
  BY PushElements, ZenonT(60)
<1>3. \A k \in Loop : DOMAIN r[k] = 1..Len(r[k]) /\ Len(r[k]) \in Nat
  BY <1>2 DEF Queues
<1>4. \A o, d : Task(o, d) = Task(op, c) <=> o = op /\ d = c
  BY Zenon DEF Task
<1> HIDE DEF r
<1>5. \A k \in Loop : \A o, d : Task(o, d) \in Range(r[k]) <=>
        Task(o, d) \in Range(q[k]) \/ (k = l /\ o = op /\ d = c)
  <2>1. \A t : t \in Range(r[l]) <=> t \in Range(q[l]) \/ t = Task(op, c)
    <3>1. ASSUME NEW t \in Range(q[l]) PROVE t \in Range(r[l])
      <4>1. PICK i \in 1..n : t = q[l][i]
        BY <1>1, <3>1, Zenon DEF Range
      <4>2. i \in DOMAIN r[l] /\ t = r[l][i]
        BY <1>1, <1>2, <1>3, <4>1
      <4> QED BY <4>2, Zenon DEF Range
    <3>2. Task(op, c) \in Range(r[l])
      <4>1. n + 1 \in DOMAIN r[l]
        BY <1>1, <1>2, <1>3
      <4> QED BY <1>2, <4>1, Zenon DEF Range
    <3>3. ASSUME NEW t \in Range(r[l]) PROVE t \in Range(q[l]) \/ t = Task(op, c)
      <4>1. PICK i \in 1..(n + 1) : t = r[l][i]
        BY <1>2, <1>3, <3>3, Zenon DEF Range
      <4>2. CASE i = n + 1
        BY <1>2, <4>1, <4>2, Zenon
      <4>3. CASE i # n + 1
        <5>1. i \in DOMAIN q[l] /\ t = q[l][i]
          BY <1>1, <1>2, <4>1, <4>3, SMTT(30)
        <5> QED BY <5>1, Zenon DEF Range
      <4> QED BY <4>2, <4>3, Zenon
    <3> QED BY <3>1, <3>2, <3>3, Zenon
  <2> QED BY <1>2, <1>4, <2>1
<1>6. \A o, d : InQ(r, o, d) <=> InQ(q, o, d) \/ (o = op /\ d = c)
  BY <1>5 DEF InQ
<1>a. ASSUME NEW k \in Loop, NEW x \in 1..Len(r[k])
      PROVE  \/ x \in 1..Len(q[k]) /\ r[k][x] = q[k][x]
             \/ k = l /\ x = n + 1 /\ r[k][x] = Task(op, c)
  <2>1. CASE k = l
    <3>1. x \in 1..(n + 1) /\ n \in Nat
      BY <1>1, <1>2, <2>1, Zenon
    <3>2. x = n + 1 \/ x \in 1..n
      BY <3>1
    <3> QED BY <1>2, <2>1, <3>2, Zenon
  <2>2. CASE k # l
    BY <1>2, <2>2, Zenon
  <2> QED BY <2>1, <2>2, Zenon
<1> HIDE DEF n
<1>7. ASSUME NEW o, NEW d, Once(q, o, d), ~InQ(q, o, d) \/ o # op \/ d # c
      PROVE  Once(r, o, d)
  <2>1. SUFFICES ASSUME NEW j \in Loop, NEW k \in Loop,
                        NEW x \in 1..Len(r[j]), NEW y \in 1..Len(r[k]),
                        r[j][x] = Task(o, d), r[k][y] = Task(o, d)
                 PROVE  j = k /\ x = y
    BY ZenonT(60) DEF Once
  <2>2. CASE o = op /\ d = c
    <3>1. \A m \in Loop : \A z \in 1..Len(q[m]) : q[m][z] # Task(o, d)
      BY <1>1, <1>7, <2>2, Zenon DEF InQ, Range
    <3>2. j = l /\ x = n + 1
      BY <1>a, <2>1, <3>1, Zenon
    <3>3. k = l /\ y = n + 1
      BY <1>a, <2>1, <3>1, Zenon
    <3> QED BY <3>2, <3>3, Zenon
  <2>3. CASE ~(o = op /\ d = c)
    <3>1. x \in 1..Len(q[j]) /\ q[j][x] = Task(o, d)
      BY <1>a, <1>4, <2>1, <2>3
    <3>2. y \in 1..Len(q[k]) /\ q[k][y] = Task(o, d)
      BY <1>a, <1>4, <2>1, <2>3
    <3> QED BY <1>7, <3>1, <3>2, Zenon DEF Once
  <2> QED BY <2>2, <2>3, Zenon
<1>8. ASSUME NEW d, Guarded(q, d), op # "shutdownInLoop" \/ d # c
      PROVE  Guarded(r, d)
  <2>1. SUFFICES ASSUME NEW k \in Loop, NEW x \in 1..Len(r[k]),
                        r[k][x] = Task("shutdownInLoop", d)
                 PROVE  \E y \in 1..Len(r[k]) : x < y /\ r[k][y] = Task("connectDestroyed", d)
    BY Zenon DEF Guarded
  <2>2. x \in 1..Len(q[k]) /\ q[k][x] = Task("shutdownInLoop", d)
    BY <1>a, <1>4, <1>8, <2>1
  <2>3. PICK y \in 1..Len(q[k]) : x < y /\ q[k][y] = Task("connectDestroyed", d)
    BY <1>8, <2>2, Zenon DEF Guarded
  <2>4. y \in 1..Len(r[k]) /\ r[k][y] = Task("connectDestroyed", d)
    BY <1>1, <1>2, <2>3, SMTT(30) DEF n
  <2> QED BY <2>3, <2>4, Zenon
<1>9. ASSUME op = "connectDestroyed",
             \A k \in Loop : Task("shutdownInLoop", c) \in Range(q[k]) => k = l
      PROVE  Guarded(r, c)
  <2>1. SUFFICES ASSUME NEW k \in Loop, NEW x \in 1..Len(r[k]),
                        r[k][x] = Task("shutdownInLoop", c)
                 PROVE  \E y \in 1..Len(r[k]) : x < y /\ r[k][y] = Task("connectDestroyed", c)
    BY Zenon DEF Guarded
  <2>2. r[k][x] \in Range(r[k])
    BY <1>3, Zenon DEF Range
  <2>3. k = l
    BY <1>5, <1>9, <2>1, <2>2, Zenon
  <2>4. x # n + 1
    BY <1>2, <1>4, <1>9, <2>1, <2>3
  <2>5. n + 1 \in 1..Len(r[k]) /\ x < n + 1
    BY <1>1, <1>2, <2>3, <2>4 DEF n
  <2> QED BY <1>2, <1>9, <2>3, <2>5, Zenon
<1> USE DEF r
<1> QED BY <1>5, <1>6, <1>7, <1>8, <1>9, Zenon

Pop(q, l) == [q EXCEPT ![l] = Tail(@)]

\* The elements of a queue after its head was taken.
LEMMA PopElements ==
  ASSUME NEW q \in Queues, NEW l \in Loop, q[l] # <<>>
  PROVE  /\ Len(q[l]) \in Nat /\ Len(q[l]) >= 1 /\ q[l][1] = Head(q[l])
         /\ Pop(q, l) \in Queues
         /\ \A k \in Loop : k # l => Pop(q, l)[k] = q[k]
         /\ Len(Pop(q, l)[l]) = Len(q[l]) - 1
         /\ \A i \in 1..(Len(q[l]) - 1) : Pop(q, l)[l][i] = q[l][i + 1]
<1>1. q[l] \in Seq(Op \X Conn) /\ Len(q[l]) \in Nat
  BY DEF Queues
<1>2. /\ Len(q[l]) >= 1 /\ q[l][1] = Head(q[l]) /\ Tail(q[l]) \in Seq(Op \X Conn)
      /\ Len(Tail(q[l])) = Len(q[l]) - 1
      /\ \A i \in 1..(Len(q[l]) - 1) : Tail(q[l])[i] = q[l][i + 1]
  BY <1>1
<1>3. Pop(q, l)[l] = Tail(q[l]) /\ \A k \in Loop : k # l => Pop(q, l)[k] = q[k]
  BY Zenon DEF Pop, Queues
<1>4. Pop(q, l) \in Queues
  BY <1>2, Zenon DEF Pop, Queues
<1> QED BY <1>1, <1>2, <1>3, <1>4, Zenon

\* Running the functor at the head of a queue.
LEMMA PopFacts ==
  ASSUME NEW q \in Queues, NEW l \in Loop, NEW op, NEW c,
         q[l] # <<>>, Head(q[l]) = Task(op, c)
  PROVE  /\ Pop(q, l) \in Queues
         /\ op \in Op /\ c \in Conn /\ InQ(q, op, c)
         /\ \A k \in Loop : \A o, d :
              Task(o, d) \in Range(Pop(q, l)[k]) => Task(o, d) \in Range(q[k])
         /\ \A o, d : InQ(Pop(q, l), o, d) => InQ(q, o, d)
         /\ \A o, d : InQ(q, o, d) => InQ(Pop(q, l), o, d) \/ (o = op /\ d = c)
         /\ \A o, d : Once(q, o, d) => Once(Pop(q, l), o, d)
         /\ Once(q, op, c) => ~InQ(Pop(q, l), op, c)
         /\ \A d : Guarded(q, d) => Guarded(Pop(q, l), d)
<1> DEFINE n == Len(q[l])
           r == Pop(q, l)
<1>1. \A k \in Loop : q[k] \in Seq(Op \X Conn) /\ DOMAIN q[k] = 1..Len(q[k])
                      /\ Len(q[k]) \in Nat
  BY DEF Queues
<1>2. n >= 1 /\ q[l][1] = Task(op, c)
  BY PopElements, Zenon
<1>3. /\ r \in Queues
      /\ \A k \in Loop : k # l => r[k] = q[k]
      /\ Len(r[l]) = n - 1
      /\ \A i \in 1..(n - 1) : r[l][i] = q[l][i + 1]
  BY PopElements, Zenon
<1> HIDE DEF r
<1>4. \A k \in Loop : DOMAIN r[k] = 1..Len(r[k]) /\ Len(r[k]) \in Nat
  BY <1>3 DEF Queues
<1>5. op \in Op /\ c \in Conn
  <2>1. q[l][1] \in Op \X Conn
    BY <1>1, <1>2
  <2> QED BY <1>2, <2>1 DEF Task
<1>6. Task(op, c) \in Range(q[l])
  BY <1>1, <1>2 DEF Range
<1>7. \A k \in Loop : \A t : t \in Range(r[k]) => t \in Range(q[k])
  <2>1. ASSUME NEW t \in Range(r[l]) PROVE t \in Range(q[l])
    <3>1. PICK i \in 1..(n - 1) : t = r[l][i]
      BY <1>3, <1>4, <2>1, Zenon DEF Range
    <3>2. i + 1 \in DOMAIN q[l] /\ t = q[l][i + 1]
      BY <1>1, <1>3, <3>1
    <3> QED BY <3>2, Zenon DEF Range
  <2> QED BY <1>3, <2>1, Zenon
<1>8. ASSUME NEW t, t # Task(op, c), t \in Range(q[l]) PROVE t \in Range(r[l])
  <2>1. PICK i \in 1..n : t = q[l][i]
    BY <1>1, <1>8, Zenon DEF Range
  <2>2. i # 1
    BY <1>2, <1>8, <2>1, Zenon
  <2>3. i - 1 \in DOMAIN r[l] /\ r[l][i - 1] = t
    BY <1>1, <1>3, <1>4, <2>1, <2>2
  <2> QED BY <2>3, Zenon DEF Range
<1>9. \A o, d : InQ(q, o, d) => InQ(r, o, d) \/ (o = op /\ d = c)
  <2>1. \A o, d : Task(o, d) = Task(op, c) <=> o = op /\ d = c
    BY Zenon DEF Task
  <2> QED BY <1>3, <1>8, <2>1, Zenon DEF InQ
<1>10. ASSUME NEW k \in Loop, NEW i \in 1..Len(r[k])
       PROVE  \E j \in 1..Len(q[k]) : /\ r[k][i] = q[k][j]
                                      /\ j = IF k = l THEN i + 1 ELSE i
  BY <1>1, <1>3, <1>10, SMTT(60)
<1>11. ASSUME NEW o, NEW d, Once(q, o, d) PROVE Once(r, o, d)
  <2>1. SUFFICES ASSUME NEW j \in Loop, NEW k \in Loop,
                        NEW x \in 1..Len(r[j]), NEW y \in 1..Len(r[k]),
                        r[j][x] = Task(o, d), r[k][y] = Task(o, d)
                 PROVE  j = k /\ x = y
    BY ZenonT(60) DEF Once
  <2>2. PICK v \in 1..Len(q[j]) : r[j][x] = q[j][v] /\ v = IF j = l THEN x + 1 ELSE x
    BY <1>10, Zenon
  <2>3. PICK w \in 1..Len(q[k]) : r[k][y] = q[k][w] /\ w = IF k = l THEN y + 1 ELSE y
    BY <1>10, Zenon
  <2>4. j = k /\ v = w
    BY <1>11, <2>1, <2>2, <2>3, ZenonT(120) DEF Once
  <2> QED BY <2>2, <2>3, <2>4
<1>12. ASSUME Once(q, op, c), InQ(r, op, c) PROVE FALSE
  <2>1. PICK k \in Loop : Task(op, c) \in Range(r[k])
    BY <1>12, Zenon DEF InQ
  <2>2. PICK x \in 1..Len(r[k]) : r[k][x] = Task(op, c)
    BY <1>4, <2>1, Zenon DEF Range
  <2>3. PICK v \in 1..Len(q[k]) : r[k][x] = q[k][v] /\ v = IF k = l THEN x + 1 ELSE x
    BY <1>10, Zenon
  <2>4. k = l /\ v = 1
    BY <1>1, <1>2, <1>12, <2>2, <2>3 DEF Once
  <2> QED BY <2>3, <2>4
<1>13. ASSUME NEW d, Guarded(q, d) PROVE Guarded(r, d)
  <2>1. SUFFICES ASSUME NEW k \in Loop, NEW x \in 1..Len(r[k]),
                        r[k][x] = Task("shutdownInLoop", d)
                 PROVE  \E y \in 1..Len(r[k]) : x < y /\ r[k][y] = Task("connectDestroyed", d)
    BY Zenon DEF Guarded
  <2>2. PICK v \in 1..Len(q[k]) : r[k][x] = q[k][v] /\ v = IF k = l THEN x + 1 ELSE x
    BY <1>10, Zenon
  <2>3. PICK w \in 1..Len(q[k]) : v < w /\ q[k][w] = Task("connectDestroyed", d)
    BY <1>13, <2>1, <2>2, Zenon DEF Guarded
  <2>4. CASE k = l
    <3>1. w - 1 \in 1..Len(r[k]) /\ x < w - 1 /\ r[k][w - 1] = q[k][w]
      BY <1>1, <1>3, <2>2, <2>3, <2>4, SMTT(60)
    <3> QED BY <2>3, <3>1, Zenon
  <2>5. CASE k # l
    BY <1>3, <2>2, <2>3, <2>5, Zenon
  <2> QED BY <2>4, <2>5, Zenon
<1> QED BY <1>3, <1>5, <1>6, <1>7, <1>9, <1>11, <1>12, <1>13, Zenon DEF InQ, r

-----------------------------------------------------------------------------
(* Steps of one connection leave the others alone.                         *)

\* What a step that only moves functors of other connections keeps of d.
SameQ(q, r, d) ==
  /\ \A o : InQ(r, o, d) <=> InQ(q, o, d)
  /\ \A o : Once(q, o, d) => Once(r, o, d)
  /\ Guarded(q, d) => Guarded(r, d)
  /\ \A k \in Loop : \A o : Task(o, d) \in Range(r[k]) => Task(o, d) \in Range(q[k])

Same(d) ==
  /\ state'[d] = state[d] /\ loopOf'[d] = loopOf[d] /\ events'[d] = events[d]
  /\ added'[d] = added[d] /\ output'[d] = output[d] /\ finSent'[d] = finSent[d]
  /\ d \in connections' <=> d \in connections
  /\ d \in timerList' <=> d \in timerList
  /\ SameQ(queue, queue', d)
  /\ \A k \in Loop : \A p : pc'[k] = <<p, d>> <=> pc[k] = <<p, d>>

\* How a step for c may change the queues.
QueueStep(c) ==
  \/ queue' = queue
  \/ \E l \in Loop, op \in Op : queue' = Push(queue, l, op, c)
  \/ \E l \in Loop : \E op : Runs(l, op, c) /\ queue' = Pop(queue, l)
  \/ \E l \in Loop, op \in Op :
       /\ Runs(Base, "removeConnectionInLoop", c)
       /\ queue' = Push(Pop(queue, Base), l, op, c)
  \/ \E k, l \in Loop, o, op \in Op : queue' = Push(Push(queue, k, o, c), l, op, c)

\* Such a step keeps the queues well formed and leaves other connections' alone.
LEMMA QueueFrame ==
  ASSUME queue \in Queues, NEW c \in Conn, QueueStep(c)
  PROVE  queue' \in Queues /\ \A d : d # c => SameQ(queue, queue', d)
<1>a. ASSUME NEW q \in Queues, NEW l \in Loop, NEW op \in Op
      PROVE  /\ Push(q, l, op, c) \in Queues
             /\ \A d : d # c => SameQ(q, Push(q, l, op, c), d)
  BY PushElements, PushFacts DEF SameQ
<1>b. ASSUME NEW l \in Loop, NEW op, Runs(l, op, c)
      PROVE  /\ Pop(queue, l) \in Queues
             /\ \A d : d # c => SameQ(queue, Pop(queue, l), d)
  BY <1>b, PopFacts DEF SameQ, Runs
<1>c. \A q, r, t, d : SameQ(q, r, d) /\ SameQ(r, t, d) => SameQ(q, t, d)
  BY DEF SameQ
<1>d. Base \in Loop
  BY Zenon DEF Loop
<1>1. CASE queue' = queue
  BY <1>1, Zenon DEF SameQ
<1>2. CASE \E l \in Loop, op \in Op : queue' = Push(queue, l, op, c)
  BY <1>2, <1>a, Zenon
<1>3. CASE \E l \in Loop : \E op : Runs(l, op, c) /\ queue' = Pop(queue, l)
  BY <1>3, <1>b, Zenon
<1>4. CASE \E l \in Loop, op \in Op :
             /\ Runs(Base, "removeConnectionInLoop", c)
             /\ queue' = Push(Pop(queue, Base), l, op, c)
  <2>1. Pop(queue, Base) \in Queues /\ \A d : d # c => SameQ(queue, Pop(queue, Base), d)
    BY <1>4, <1>b, <1>d, Zenon
  <2>2. PICK l \in Loop, op \in Op : queue' = Push(Pop(queue, Base), l, op, c)
    BY <1>4, Zenon
  <2>3. queue' \in Queues /\ \A d : d # c => SameQ(Pop(queue, Base), queue', d)
    BY <1>a, <2>1, <2>2, Zenon
  <2> QED BY <1>c, <2>1, <2>3, Zenon
<1>5. CASE \E k, l \in Loop, o, op \in Op : queue' = Push(Push(queue, k, o, c), l, op, c)
  <2>1. PICK k \in Loop, l \in Loop, o \in Op, op \in Op :
          queue' = Push(Push(queue, k, o, c), l, op, c)
    BY <1>5, Zenon
  <2> DEFINE q == Push(queue, k, o, c)
  <2>2. q \in Queues /\ \A d : d # c => SameQ(queue, q, d)
    BY <1>a, Zenon
  <2>3. queue' = Push(q, l, op, c)
    BY <2>1, Zenon
  <2> HIDE DEF q
  <2>4. queue' \in Queues /\ \A d : d # c => SameQ(q, queue', d)
    BY <1>a, <2>2, <2>3, Zenon
  <2> QED BY <1>c, <2>2, <2>4, Zenon
<1> QED BY <1>1, <1>2, <1>3, <1>4, <1>5, Zenon DEF QueueStep

\* The loop that a new connection is given is one of the loops, and so is the
\* place of the next one.
LEMMA NextLoop ==
  ASSUME TypeOK
  PROVE  /\ Base \in Loop
         /\ GetNextLoop \in Loop
         /\ Workers # <<>> => NextIndex \in 1..Len(Workers)
<1>1. Base \in Loop
  BY Zenon DEF Loop
<1>2. CASE Workers = <<>>
  BY <1>1, <1>2, Zenon DEF GetNextLoop
<1>3. CASE Workers # <<>>
  <2>1. next \in 1..Len(Workers) /\ DOMAIN Workers = 1..Len(Workers) /\ Len(Workers) \in Nat
    BY <1>3, TcpServerConstants DEF TypeOK
  <2>2. Workers[next] \in Range(Workers)
    BY <2>1, Zenon DEF Range
  <2> QED BY <1>1, <1>3, <2>1, <2>2 DEF GetNextLoop, NextIndex, Loop
<1> QED BY <1>1, <1>2, <1>3, Zenon

\* The functors and the loops that the steps name.
LEMMA Places ==
  ASSUME TypeOK, NEW c \in Conn
  PROVE  /\ {"connectEstablished", "forceCloseInLoop", "removeConnectionInLoop",
             "connectDestroyed", "shutdownInLoop", "addTimerInLoop"} \subseteq Op
         /\ Base \in Loop /\ GetNextLoop \in Loop /\ loopOf[c] \in Loop
         /\ queue \in Queues
BY NextLoop, Zenon DEF Op, StrongOps, TypeOK

\* The control points of HttpTimer's handler.
LEMMA TimerPlaces == {"shutdown", "shutdownSet", "delay", "delaySet"} = TimerPc
BY Zenon DEF TimerPc

\* Every step moves functors in one of the ways of QueueStep.
LEMMA QueueSteps ==
  ASSUME TypeOK, NEW c \in Conn, ConnStep(c)
  PROVE  QueueStep(c)
<1>a. Base \in Loop /\ GetNextLoop \in Loop /\ loopOf[c] \in Loop
  BY NextLoop, Zenon DEF TypeOK
<1>b. {"connectEstablished", "forceCloseInLoop", "removeConnectionInLoop",
       "connectDestroyed", "shutdownInLoop", "addTimerInLoop"} \subseteq Op
  BY Zenon DEF Op, StrongOps
<1>1. CASE NewConnection(c)
  BY <1>1, <1>a, <1>b, Zenon DEF NewConnection, Establish, QueueStep
<1>2. CASE HandleRead(c)
  BY <1>2, Zenon DEF HandleRead, QueueStep
<1>3. CASE HandleHangup(c)
  BY <1>3, Zenon DEF HandleHangup, QueueStep
<1>4. CASE HandleWrite(c)
  BY <1>4, Zenon DEF HandleWrite, QueueStep
<1>5. CASE DelayedForceClose(c)
  BY <1>5, <1>a, <1>b, Zenon DEF DelayedForceClose, QueueStep
<1>6. CASE RunRemoveConnection(c)
  BY <1>6, <1>a, <1>b, Zenon
   DEF RunRemoveConnection, RemoveConnectionInLoop, QueueStep, Rest, Pop
<1>7. CASE OnTimer(c)
  BY <1>7, Zenon DEF OnTimer, QueueStep
<1>8. CASE ShutdownTest(c)
  BY <1>8, Zenon DEF ShutdownTest, QueueStep
<1>9. CASE ShutdownSet(c)
  BY <1>9, <1>a, <1>b, Zenon DEF ShutdownSet, ShutdownInLoop, QueueStep
<1>10. CASE DelayTest(c)
  BY <1>10, Zenon DEF DelayTest, QueueStep
<1>11. CASE DelaySet(c)
  BY <1>11, <1>a, <1>b, Zenon DEF DelaySet, QueueStep
<1>12. ASSUME NEW l \in Loop, ConnectEstablished(l, c) PROVE QueueStep(c)
  BY <1>12, Zenon DEF ConnectEstablished, QueueStep, Rest, Pop
<1>13. ASSUME NEW l \in Loop, ConnectDestroyed(l, c) PROVE QueueStep(c)
  BY <1>13, Zenon DEF ConnectDestroyed, QueueStep, Rest, Pop
<1>14. ASSUME NEW l \in Loop, RunShutdownInLoop(l, c) PROVE QueueStep(c)
  BY <1>14, Zenon DEF RunShutdownInLoop, QueueStep, Rest, Pop
<1>15. ASSUME NEW l \in Loop, RunAddTimer(l, c) PROVE QueueStep(c)
  BY <1>15, Zenon DEF RunAddTimer, QueueStep, Rest, Pop
<1>16. ASSUME NEW l \in Loop, RunForceCloseInLoop(l, c) PROVE QueueStep(c)
  BY <1>16, Zenon DEF RunForceCloseInLoop, QueueStep, Rest, Pop
<1>17. ASSUME NEW l \in Loop, OnDisconnected(l, c) PROVE QueueStep(c)
  BY <1>17, Zenon DEF OnDisconnected, QueueStep
<1>18. ASSUME NEW l \in Loop, OnNotDisconnected(l, c) PROVE QueueStep(c)
  BY <1>18, <1>a, <1>b, Zenon
   DEF OnNotDisconnected, CloseCallback, RemoveConnectionInLoop, QueueStep
<1>19. ASSUME NEW l \in Loop, OnDown(l, c) PROVE QueueStep(c)
  <2>1. CASE state[c] = "kDisconnecting"
    BY <1>19, <1>a, <1>b, <2>1, Zenon
     DEF OnDown, CloseCallback, RemoveConnectionInLoop, QueueStep
  <2>2. CASE state[c] # "kDisconnecting"
    BY <1>19, <1>a, <1>b, <2>2, Zenon
     DEF OnDown, CloseCallback, RemoveConnectionInLoop, QueueStep
  <2> QED BY <2>1, <2>2, Zenon
<1> QED BY <1>1, <1>2, <1>3, <1>4, <1>5, <1>6, <1>7, <1>8, <1>9, <1>10, <1>11,
           <1>12, <1>13, <1>14, <1>15, <1>16, <1>17, <1>18, <1>19, ZenonT(60)
  DEF ConnStep, TimerStep, LoopStep

PcType == {Idle} \cup (ClosePc \cup TimerPc) \X Conn

\* Every step keeps the types.
LEMMA TypeStep ==
  ASSUME TypeOK, NEW c \in Conn, ConnStep(c)
  PROVE  TypeOK'
<1>q. queue' \in Queues
  BY QueueSteps, QueueFrame, Zenon DEF TypeOK
<1>l. loopOf[c] \in Loop /\ Base \in Loop
  BY NextLoop, Zenon DEF TypeOK
<1>d. /\ [delayed EXCEPT ![c] = @ + 1] \in [Conn -> Nat]
      /\ delayed[c] > 0 => [delayed EXCEPT ![c] = @ - 1] \in [Conn -> Nat]
  BY DEF TypeOK
<1>p. \A l \in Loop : /\ [pc EXCEPT ![l] = Idle] \in [Loop -> PcType]
                      /\ \A o \in ClosePc \cup TimerPc :
                           [pc EXCEPT ![l] = <<o, c>>] \in [Loop -> PcType]
  BY Zenon DEF TypeOK, PcType
<1>o. ClosePc \cup TimerPc = {"closed", "down", "shutdown", "shutdownSet", "delay", "delaySet"}
  BY Zenon DEF ClosePc, TimerPc
<1>s. \A s \in State : [state EXCEPT ![c] = s] \in [Conn -> State]
  BY Zenon DEF TypeOK
<1>e. /\ events \in [Conn -> SUBSET {"read", "write"}]
      /\ [events EXCEPT ![c] = {}] \in [Conn -> SUBSET {"read", "write"}]
      /\ [events EXCEPT ![c] = {"read"}] \in [Conn -> SUBSET {"read", "write"}]
  BY Zenon DEF TypeOK
<1>b. /\ [finSent EXCEPT ![c] = TRUE] \in [Conn -> BOOLEAN]
      /\ [finSent EXCEPT ![c] = @ \/ "write" \notin events[c]] \in [Conn -> BOOLEAN]
      /\ \A b \in BOOLEAN : [added EXCEPT ![c] = b] \in [Conn -> BOOLEAN]
  BY Zenon DEF TypeOK
<1> USE DEF State
<1>1. CASE NewConnection(c)
  <2>1. state' \in [Conn -> State] /\ delayed' \in [Conn -> Nat]
    BY <1>1, <1>d, <1>s, ZenonT(60) DEF NewConnection, Establish, TypeOK
  <2>2. /\ loopOf' \in [Conn -> Loop] /\ (Workers # <<>> => next' \in 1..Len(Workers))
        /\ connections' \in SUBSET Conn /\ timerList' \in SUBSET Conn
    BY <1>1, NextLoop DEF NewConnection, Establish, TypeOK
  <2>3. finSent' \in [Conn -> BOOLEAN]
    BY <1>1, <1>b, Zenon DEF NewConnection, Establish, TypeOK
  <2>4. events' \in [Conn -> SUBSET {"read", "write"}]
    BY <1>1, <1>e, Zenon DEF NewConnection, Establish
  <2>5. added' \in [Conn -> BOOLEAN]
    BY <1>1, <1>b, Zenon DEF NewConnection, Establish, TypeOK
  <2> QED BY <1>1, <1>q, <2>1, <2>2, <2>3, <2>4, <2>5
           DEF NewConnection, Establish, TypeOK
<1>2. CASE HandleRead(c)
  <2>1. PICK left \in BOOLEAN, close \in BOOLEAN :
          LET waits == output[c] \/ left
          IN  /\ output' = [output EXCEPT ![c] = waits]
              /\ events' = [events EXCEPT ![c] = IF waits THEN @ \cup {"write"} ELSE @]
              /\ finSent' = [finSent EXCEPT ![c] = @ \/ (close /\ ~waits)]
              /\ state' = [state EXCEPT ![c] = IF close THEN "kDisconnecting" ELSE @]
    BY <1>2, Zenon DEF HandleRead
  <2>2. output' \in [Conn -> BOOLEAN] /\ finSent' \in [Conn -> BOOLEAN]
    BY <2>1, Zenon DEF TypeOK
  <2>3. events' \in [Conn -> SUBSET {"read", "write"}] /\ state' \in [Conn -> State]
    BY <2>1, Zenon DEF TypeOK
  <2> QED BY <1>2, <1>q, <2>2, <2>3, Zenon DEF HandleRead, TypeOK
<1>3. CASE HandleHangup(c)
  BY <1>3, <1>q, <1>l, <1>p, <1>o, <1>s, Zenon
   DEF HandleHangup, HandleClose, TypeOK, PcType
<1>4. CASE HandleWrite(c)
  BY <1>4, <1>q, Zenon DEF HandleWrite, TypeOK
<1>5. CASE DelayedForceClose(c)
  BY <1>5, <1>q, <1>d, <1>s, Zenon DEF DelayedForceClose, TypeOK
<1>6. CASE RunRemoveConnection(c)
  BY <1>6, <1>q, Zenon DEF RunRemoveConnection, RemoveConnectionInLoop, TypeOK
<1>7. CASE OnTimer(c)
  BY <1>7, <1>q, <1>l, <1>p, <1>o, Zenon DEF OnTimer, TypeOK, PcType
<1>8. CASE ShutdownTest(c)
  BY <1>8, <1>q, <1>l, <1>p, <1>o, Zenon DEF ShutdownTest, TypeOK, PcType
<1>9. CASE ShutdownSet(c)
  <2>1. pc' \in [Loop -> PcType]
    BY <1>9, <1>l, <1>p, <1>o, Zenon DEF ShutdownSet
  <2>2. state' \in [Conn -> State]
    BY <1>9, <1>s, Zenon DEF ShutdownSet
  <2>3. finSent' \in [Conn -> BOOLEAN]
    <3>1. finSent \in [Conn -> BOOLEAN]
      BY Zenon DEF TypeOK
    <3> QED BY <1>9, <1>b, <3>1, Zenon DEF ShutdownSet, ShutdownInLoop
  <2> QED BY <1>9, <1>q, <2>1, <2>2, <2>3, Zenon DEF ShutdownSet, TypeOK, PcType
<1>10. CASE DelayTest(c)
  BY <1>10, <1>q, <1>l, <1>p, <1>o, Zenon DEF DelayTest, TypeOK, PcType
<1>11. CASE DelaySet(c)
  BY <1>11, <1>q, <1>l, <1>p, <1>o, <1>d, <1>s, ZenonT(60) DEF DelaySet, TypeOK, PcType
<1>12. ASSUME NEW l \in Loop, ConnectEstablished(l, c) PROVE TypeOK'
  <2>1. state' \in [Conn -> State] /\ delayed' \in [Conn -> Nat]
    BY <1>12, <1>d, <1>s, ZenonT(120) DEF ConnectEstablished, Establish, TypeOK
  <2>2. /\ loopOf' \in [Conn -> Loop] /\ (Workers # <<>> => next' \in 1..Len(Workers))
        /\ connections' \in SUBSET Conn /\ timerList' \in SUBSET Conn
    BY <1>12, Zenon DEF ConnectEstablished, Establish, TypeOK
  <2>3. finSent' \in [Conn -> BOOLEAN]
    BY <1>12, <1>b, Zenon DEF ConnectEstablished, Establish, TypeOK
  <2>4. events' \in [Conn -> SUBSET {"read", "write"}]
    BY <1>12, <1>e, Zenon DEF ConnectEstablished, Establish
  <2>5. added' \in [Conn -> BOOLEAN]
    BY <1>12, <1>b, Zenon DEF ConnectEstablished, Establish, TypeOK
  <2> QED BY <1>12, <1>q, <2>1, <2>2, <2>3, <2>4, <2>5
           DEF ConnectEstablished, Establish, TypeOK
<1>13. ASSUME NEW l \in Loop, ConnectDestroyed(l, c) PROVE TypeOK'
  BY <1>13, <1>q, Zenon DEF ConnectDestroyed, TypeOK
<1>14. ASSUME NEW l \in Loop, RunShutdownInLoop(l, c) PROVE TypeOK'
  BY <1>14, <1>q, Zenon DEF RunShutdownInLoop, ShutdownInLoop, TypeOK
<1>15. ASSUME NEW l \in Loop, RunAddTimer(l, c) PROVE TypeOK'
  BY <1>15, <1>q, <1>d, <1>s, Zenon DEF RunAddTimer, TypeOK
<1>16. ASSUME NEW l \in Loop, RunForceCloseInLoop(l, c) PROVE TypeOK'
  <2>1. CASE Up(c)
    <3>0. HandleClose(c)
      BY <1>16, <2>1, Zenon DEF RunForceCloseInLoop, Up
    <3>1. pc' \in [Loop -> PcType]
      BY <1>l, <1>p, <1>o, <3>0, Zenon DEF HandleClose
    <3>2. state' \in [Conn -> State]
      BY <1>s, <3>0, Zenon DEF HandleClose
    <3>3. events' \in [Conn -> SUBSET {"read", "write"}]
      BY <1>e, <3>0, Zenon DEF HandleClose
    <3> QED BY <1>16, <1>q, <3>1, <3>2, <3>3, Zenon DEF RunForceCloseInLoop, TypeOK, PcType
  <2>2. CASE ~Up(c)
    BY <1>16, <1>q, <2>2, Zenon DEF RunForceCloseInLoop, TypeOK, Up
  <2> QED BY <2>1, <2>2, Zenon
<1>17. ASSUME NEW l \in Loop, OnDisconnected(l, c) PROVE TypeOK'
  BY <1>17, <1>q, <1>l, <1>p, <1>o, Zenon DEF OnDisconnected, TypeOK, PcType
<1>18. ASSUME NEW l \in Loop, OnNotDisconnected(l, c) PROVE TypeOK'
  <2>1. pc' \in [Loop -> PcType]
    BY <1>18, <1>p, Zenon DEF OnNotDisconnected, CloseCallback
  <2>2. connections' \in SUBSET Conn
    <3>1. connections \in SUBSET Conn
      BY Zenon DEF TypeOK
    <3>2. CASE l = Base
      BY <1>18, <3>1, <3>2, Zenon
       DEF OnNotDisconnected, CloseCallback, RemoveConnectionInLoop
    <3>3. CASE l # Base
      BY <1>18, <3>1, <3>3, Zenon DEF OnNotDisconnected, CloseCallback
    <3> QED BY <3>2, <3>3, Zenon
  <2>3. numConnected' \in Int
    BY <1>18, Zenon DEF OnNotDisconnected, TypeOK
  <2> QED BY <1>18, <1>q, <2>1, <2>2, <2>3, Zenon
           DEF OnNotDisconnected, CloseCallback, TypeOK, PcType
<1>19. ASSUME NEW l \in Loop, OnDown(l, c) PROVE TypeOK'
  <2>1. pc' \in [Loop -> PcType]
    BY <1>19, <1>p, Zenon DEF OnDown, CloseCallback
  <2>2. connections' \in SUBSET Conn
    <3>1. connections \in SUBSET Conn
      BY Zenon DEF TypeOK
    <3>2. CASE l = Base
      BY <1>19, <3>1, <3>2, Zenon DEF OnDown, CloseCallback, RemoveConnectionInLoop
    <3>3. CASE l # Base
      BY <1>19, <3>1, <3>3, Zenon DEF OnDown, CloseCallback
    <3> QED BY <3>2, <3>3, Zenon
  <2>3. numConnected' \in Int
    BY <1>19, SMTT(30) DEF OnDown, TypeOK
  <2> QED BY <1>19, <1>q, <2>1, <2>2, <2>3, Zenon DEF OnDown, CloseCallback, TypeOK, PcType
<1> QED BY <1>1, <1>2, <1>3, <1>4, <1>5, <1>6, <1>7, <1>8, <1>9, <1>10, <1>11,
           <1>12, <1>13, <1>14, <1>15, <1>16, <1>17, <1>18, <1>19, ZenonT(60)
  DEF ConnStep, TimerStep, LoopStep

\* A step for one connection leaves every other as it was.
LEMMA StepFrame ==
  ASSUME TypeOK, NEW c \in Conn, Home(queue, c), ConnStep(c), NEW d \in Conn, d # c
  PROVE  Same(d)
<1>q. SameQ(queue, queue', d)
  BY QueueSteps, QueueFrame, Zenon DEF TypeOK
<1>l. loopOf[c] \in Loop /\ Base \in Loop
  BY NextLoop, Zenon DEF TypeOK
<1> DEFINE SamePc == \A k \in Loop : \A p : pc'[k] = <<p, d>> <=> pc[k] = <<p, d>>
<1>p. ASSUME NEW l \in Loop, NEW v, v = Idle \/ \E p : v = <<p, c>>,
             pc[l] = Idle \/ \E p : pc[l] = <<p, c>>, pc' = [pc EXCEPT ![l] = v]
      PROVE  SamePc
  <2>0. \A o, p : <<o, c>> # <<p, d>> /\ Idle # <<p, d>>
    BY PcDistinct, Zenon
  <2>1. (\A p : v # <<p, d>>) /\ (\A p : pc[l] # <<p, d>>)
    BY <1>p, <2>0, Zenon
  <2>2. pc'[l] = v /\ \A k \in Loop : k # l => pc'[k] = pc[k]
    BY <1>p, Zenon DEF TypeOK
  <2> QED BY <2>1, <2>2, Zenon
<1> HIDE DEF SamePc
<1>1. CASE NewConnection(c)
  BY <1>1, <1>q, SMTT(30) DEF NewConnection, Establish, TypeOK, Same
<1>2. CASE HandleRead(c)
  BY <1>2, <1>q, Zenon DEF HandleRead, TypeOK, Same
<1>3. CASE HandleHangup(c)
  <2>1. SamePc
    BY <1>3, <1>l, <1>p, Zenon DEF HandleHangup, HandleClose
  <2> QED BY <1>3, <1>q, <2>1, Zenon
           DEF HandleHangup, HandleClose, TypeOK, Same, SamePc
<1>4. CASE HandleWrite(c)
  BY <1>4, <1>q, Zenon DEF HandleWrite, TypeOK, Same
<1>5. CASE DelayedForceClose(c)
  BY <1>5, <1>q, Zenon DEF DelayedForceClose, TypeOK, Same
<1>6. CASE RunRemoveConnection(c)
  BY <1>6, <1>q, Zenon DEF RunRemoveConnection, RemoveConnectionInLoop, TypeOK, Same
<1>7. CASE OnTimer(c)
  <2>1. SamePc
    BY <1>7, <1>l, <1>p, Zenon DEF OnTimer
  <2> QED BY <1>7, <1>q, <2>1, Zenon DEF OnTimer, TypeOK, Same, SamePc
<1>8. CASE ShutdownTest(c)
  <2>1. SamePc
    BY <1>8, <1>l, <1>p, Zenon DEF ShutdownTest
  <2> QED BY <1>8, <1>q, <2>1, Zenon DEF ShutdownTest, TypeOK, Same, SamePc
<1>9. CASE ShutdownSet(c)
  <2>1. SamePc
    BY <1>9, <1>l, <1>p, Zenon DEF ShutdownSet
  <2> QED BY <1>9, <1>q, <2>1, Zenon DEF ShutdownSet, ShutdownInLoop, TypeOK, Same, SamePc
<1>10. CASE DelayTest(c)
  <2>1. SamePc
    BY <1>10, <1>l, <1>p, Zenon DEF DelayTest
  <2> QED BY <1>10, <1>q, <2>1, Zenon DEF DelayTest, TypeOK, Same, SamePc
<1>11. CASE DelaySet(c)
  <2>1. SamePc
    BY <1>11, <1>l, <1>p, Zenon DEF DelaySet
  <2> QED BY <1>11, <1>q, <2>1, Zenon DEF DelaySet, TypeOK, Same, SamePc
<1>12. ASSUME NEW l \in Loop, ConnectEstablished(l, c) PROVE Same(d)
  BY <1>12, <1>q, Zenon DEF ConnectEstablished, Establish, TypeOK, Same
<1>13. ASSUME NEW l \in Loop, ConnectDestroyed(l, c) PROVE Same(d)
  BY <1>13, <1>q, Zenon DEF ConnectDestroyed, TypeOK, Same
<1>14. ASSUME NEW l \in Loop, RunShutdownInLoop(l, c) PROVE Same(d)
  BY <1>14, <1>q, Zenon DEF RunShutdownInLoop, ShutdownInLoop, TypeOK, Same
<1>15. ASSUME NEW l \in Loop, RunAddTimer(l, c) PROVE Same(d)
  BY <1>15, <1>q, Zenon DEF RunAddTimer, TypeOK, Same
<1>16. ASSUME NEW l \in Loop, RunForceCloseInLoop(l, c) PROVE Same(d)
  <2>a. l = loopOf[c] /\ pc[l] = Idle
    <3>1. Task("forceCloseInLoop", c) \in Range(queue[l])
      BY <1>16, PopElements DEF RunForceCloseInLoop, Runs, TypeOK, Range, Queues
    <3> QED BY <1>16, <3>1, Zenon DEF RunForceCloseInLoop, Runs, Home
  <2>1. CASE Up(c)
    <3>1. SamePc
      BY <1>16, <1>l, <1>p, <2>a, <2>1, Zenon
       DEF RunForceCloseInLoop, HandleClose, Up
    <3> QED BY <1>16, <1>q, <2>1, <3>1, Zenon
             DEF RunForceCloseInLoop, HandleClose, TypeOK, Same,
                 SamePc, Up
  <2>2. CASE ~Up(c)
    BY <1>16, <1>q, <2>2, Zenon DEF RunForceCloseInLoop, HandleClose, TypeOK, Same, Up
  <2> QED BY <2>1, <2>2, Zenon
<1>17. ASSUME NEW l \in Loop, OnDisconnected(l, c) PROVE Same(d)
  <2>1. SamePc
    BY <1>17, <1>l, <1>p, Zenon DEF OnDisconnected
  <2> QED BY <1>17, <1>q, <2>1, Zenon DEF OnDisconnected, TypeOK, Same, SamePc
<1>18. ASSUME NEW l \in Loop, OnNotDisconnected(l, c) PROVE Same(d)
  <2>1. SamePc
    BY <1>18, <1>l, <1>p, Zenon DEF OnNotDisconnected, CloseCallback
  <2> QED BY <1>18, <1>q, <2>1, Zenon
           DEF OnNotDisconnected, CloseCallback,
               RemoveConnectionInLoop, TypeOK, Same, SamePc
<1>19. ASSUME NEW l \in Loop, OnDown(l, c) PROVE Same(d)
  <2>1. SamePc
    BY <1>19, <1>l, <1>p, ZenonT(120) DEF OnDown, CloseCallback
  <2> QED BY <1>19, <1>q, <2>1, Zenon
           DEF OnDown, CloseCallback, RemoveConnectionInLoop, TypeOK,
               Same, SamePc
<1> QED BY <1>1, <1>2, <1>3, <1>4, <1>5, <1>6, <1>7, <1>8, <1>9, <1>10, <1>11,
           <1>12, <1>13, <1>14, <1>15, <1>16, <1>17, <1>18, <1>19, ZenonT(60)
  DEF ConnStep, TimerStep, LoopStep

-----------------------------------------------------------------------------
(* What a step for a connection does to its functors and control points.   *)

\* The queues of a connection after a functor of it was queued.
LEMMA PushStep ==
  ASSUME TypeOK, NEW c \in Conn, NEW l \in Loop, NEW op \in Op,
         queue' = Push(queue, l, op, c)
  PROVE  /\ \A o : InQ(queue, o, c)' <=> InQ(queue, o, c) \/ o = op
         /\ \A o : Once(queue, o, c) /\ o # op => Once(queue, o, c)'
         /\ ~InQ(queue, op, c) => Once(queue, op, c)'
         /\ Guarded(queue, c) /\ op # "shutdownInLoop" => Guarded(queue, c)'
         /\ op = "connectDestroyed" /\ Home(queue, c) /\ l = loopOf[c] => Guarded(queue, c)'
         /\ (/\ Home(queue, c) /\ loopOf'[c] = loopOf[c]
             /\ (op \in {"shutdownInLoop", "forceCloseInLoop"} => l = loopOf[c]))
            => Home(queue, c)'
<1>1. queue \in Queues
  BY Zenon DEF TypeOK
<1>a. /\ \A k \in Loop : \A o, d : Task(o, d) \in Range(queue'[k]) <=>
            Task(o, d) \in Range(queue[k]) \/ (k = l /\ o = op /\ d = c)
      /\ op = "connectDestroyed"
           /\ (\A k \in Loop : Task("shutdownInLoop", c) \in Range(queue[k]) => k = l)
         => Guarded(queue', c)
  BY <1>1, PushFacts, SMTT(30)
<1>b. \A o : InQ(queue', o, c) <=> InQ(queue, o, c) \/ o = op
  BY <1>1, PushFacts, SMTT(30)
<1>c. \A o : Once(queue, o, c) /\ (~InQ(queue, o, c) \/ o # op) => Once(queue', o, c)
  BY <1>1, PushFacts, ZenonT(60)
<1>d. Guarded(queue, c) /\ op # "shutdownInLoop" => Guarded(queue', c)
  BY <1>1, PushFacts, Zenon
<1>2. ~InQ(queue, op, c) => Once(queue, op, c)
  <2>1. \A k \in Loop : DOMAIN queue[k] = 1..Len(queue[k])
    BY <1>1 DEF Queues
  <2> QED BY <2>1, Zenon DEF InQ, Once, Range
<1>3. ASSUME Home(queue, c), loopOf'[c] = loopOf[c],
             op \in {"shutdownInLoop", "forceCloseInLoop"} => l = loopOf[c]
      PROVE  Home(queue, c)'
  BY <1>3, <1>a, Zenon DEF Home
<1>4. ASSUME op = "connectDestroyed", Home(queue, c), l = loopOf[c]
      PROVE  Guarded(queue', c)
  BY <1>4, <1>a, Zenon DEF Home
<1> QED BY <1>b, <1>c, <1>d, <1>2, <1>3, <1>4, Zenon

\* The queues of a connection after a functor of it was run.
LEMMA PopStep ==
  ASSUME TypeOK, NEW c \in Conn, NEW l \in Loop, NEW op, Runs(l, op, c),
         queue' = Pop(queue, l)
  PROVE  /\ InQ(queue, op, c) /\ Task(op, c) \in Range(queue[l])
         /\ \A o : InQ(queue, o, c)' => InQ(queue, o, c)
         /\ \A o : o # op /\ InQ(queue, o, c) => InQ(queue, o, c)'
         /\ \A o : Once(queue, o, c) => Once(queue, o, c)'
         /\ Once(queue, op, c) => ~InQ(queue, op, c)'
         /\ Guarded(queue, c) => Guarded(queue, c)'
         /\ Home(queue, c) /\ loopOf'[c] = loopOf[c] => Home(queue, c)'
<1>1. queue \in Queues /\ queue[l] # <<>> /\ Head(queue[l]) = Task(op, c)
  BY Zenon DEF TypeOK, Runs
<1>2. Task(op, c) \in Range(queue[l])
  BY <1>1, PopElements DEF Queues, Range
<1>a. InQ(queue, op, c)
  BY <1>1, PopFacts, Zenon
<1>b. \A k \in Loop : \A o, d : Task(o, d) \in Range(queue'[k]) => Task(o, d) \in Range(queue[k])
  BY <1>1, PopFacts, Zenon
<1>c. \A o : InQ(queue', o, c) => InQ(queue, o, c)
  BY <1>1, PopFacts, Zenon
<1>d. \A o : InQ(queue, o, c) => InQ(queue', o, c) \/ o = op
  BY <1>1, PopFacts, ZenonT(60)
<1>e. \A o : Once(queue, o, c) => Once(queue', o, c)
  BY <1>1, PopFacts, Zenon
<1>f. Once(queue, op, c) => ~InQ(queue', op, c)
  BY <1>1, PopFacts, Zenon
<1>g. Guarded(queue, c) => Guarded(queue', c)
  BY <1>1, PopFacts, Zenon
<1>3. Home(queue, c) /\ loopOf'[c] = loopOf[c] => Home(queue, c)'
  BY <1>b, Zenon DEF Home
<1> QED BY <1>2, <1>3, <1>a, <1>c, <1>d, <1>e, <1>f, <1>g, Zenon

\* How the control points of the loops concern a connection whose step leaves
\* them alone, ...
LEMMA PcSame ==
  ASSUME NEW c \in Conn, loopOf'[c] = loopOf[c], pc' = pc
  PROVE  /\ Closing(c)' <=> Closing(c)
         /\ Expiring(c)' <=> Expiring(c)
         /\ ClosedAtHome(c) => ClosedAtHome(c)'
BY Zenon DEF Closing, Expiring, ClosedAtHome

\* ... starts its close handler, ...
LEMMA PcClosed ==
  ASSUME TypeOK, NEW c \in Conn, loopOf'[c] = loopOf[c],
         pc' = [pc EXCEPT ![loopOf[c]] = <<"closed", c>>]
  PROVE  /\ Closing(c)'
         /\ Expiring(c)' => Expiring(c)
         /\ ClosedAtHome(c) => ClosedAtHome(c)'
<1>1. loopOf[c] \in Loop /\ Base \in Loop
  BY Zenon DEF TypeOK, Loop
<1>2. /\ pc'[loopOf[c]] = <<"closed", c>>
      /\ \A k \in Loop : k # loopOf[c] => pc'[k] = pc[k]
  BY <1>1, Zenon DEF TypeOK
<1>3. \A p \in TimerPc : p # "closed"
  BY Zenon DEF TimerPc
<1>4. Expiring(c)' => Expiring(c)
  BY <1>1, <1>2, <1>3, PcDistinct, SMTT(30) DEF Expiring
<1> QED BY <1>1, <1>2, <1>4, Zenon DEF Closing, ClosedAtHome

\* ... goes on with it, ...
LEMMA PcDown ==
  ASSUME TypeOK, NEW c \in Conn, loopOf'[c] = loopOf[c], NEW l \in Loop,
         pc[l] = <<"closed", c>>, pc' = [pc EXCEPT ![l] = <<"down", c>>]
  PROVE  /\ Closing(c) /\ Closing(c)'
         /\ Expiring(c)' => Expiring(c)
         /\ ClosedAtHome(c) => ClosedAtHome(c)'
<1>1. pc'[l] = <<"down", c>> /\ \A k \in Loop : k # l => pc'[k] = pc[k]
  BY Zenon DEF TypeOK
<1>2. \A p \in TimerPc : p # "down"
  BY Zenon DEF TimerPc
<1>3. Expiring(c)' => Expiring(c)
  BY <1>1, <1>2, PcDistinct, SMTT(30) DEF Expiring, Loop
<1> QED BY <1>1, <1>3, Zenon DEF Closing, ClosedAtHome

\* ... ends it, ...
LEMMA PcDone ==
  ASSUME TypeOK, NEW c \in Conn, loopOf'[c] = loopOf[c], NEW l \in Loop,
         pc[l] \in {<<"closed", c>>, <<"down", c>>}, pc' = [pc EXCEPT ![l] = Idle]
  PROVE  /\ Closing(c)
         /\ Expiring(c)' => Expiring(c) /\ l # Base
         /\ ClosedAtHome(c) => l = loopOf[c] /\ ClosedAtHome(c)' /\ ~Closing(c)'
<1>1. pc'[l] = Idle /\ \A k \in Loop : k # l => pc'[k] = pc[k]
  BY Zenon DEF TypeOK
<1>2. Expiring(c)' => Expiring(c) /\ l # Base
  BY <1>1, PcDistinct DEF Expiring, Loop
<1>3. ClosedAtHome(c) => l = loopOf[c] /\ ClosedAtHome(c)' /\ ~Closing(c)'
  BY <1>1, PcDistinct DEF Closing, ClosedAtHome
<1> QED BY <1>2, <1>3, Zenon DEF Closing

\* ... or moves the idle timer's handler for it.
LEMMA PcTimer ==
  ASSUME TypeOK, NEW c \in Conn, loopOf'[c] = loopOf[c], NEW v,
         pc[Base] = Idle \/ \E p \in TimerPc : pc[Base] = <<p, c>>,
         v = Idle \/ \E p \in TimerPc : v = <<p, c>>,
         pc' = [pc EXCEPT ![Base] = v]
  PROVE  /\ Closing(c)' <=> Closing(c)
         /\ ClosedAtHome(c) => ClosedAtHome(c)'
<1>1. Base \in Loop
  BY Zenon DEF Loop
<1>2. pc'[Base] = v /\ \A k \in Loop : k # Base => pc'[k] = pc[k]
  BY <1>1, Zenon DEF TypeOK
<1>3. \A p \in TimerPc : p # "closed" /\ p # "down"
  BY Zenon DEF TimerPc
<1>4. v \notin {<<"closed", c>>, <<"down", c>>} /\ pc[Base] \notin {<<"closed", c>>, <<"down", c>>}
  BY <1>3, PcDistinct
<1> QED BY <1>1, <1>2, <1>4, Zenon DEF Closing, ClosedAtHome

-----------------------------------------------------------------------------
(* The life of a connection.                                               *)

\* What the state of a connection says about the rest of it.
Life(c) ==
  /\ state[c] = "none" => c \notin connections /\ \A op \in Op : ~InQ(queue, op, c)
  /\ state[c] \in {"none", "kConnecting"} => events[c] = {} /\ ~output[c] /\ ~finSent[c]
  /\ state[c] \in {"none", "kConnecting", "kConnected"} =>
       /\ ~Closing(c) /\ ~InQ(queue, "removeConnectionInLoop", c)
       /\ ~InQ(queue, "shutdownInLoop", c)
  /\ state[c] \in {"kConnecting", "kConnected"} => c \in connections
  /\ state[c] = "kConnected" => ~finSent[c]
  /\ InQ(queue, "connectEstablished", c) =>
       state[c] = "kConnecting" /\ Once(queue, "connectEstablished", c)
  /\ Expiring(c) => c \in connections /\ state[c] \notin {"none", "kConnecting"}
  /\ Home(queue, c) /\ ClosedAtHome(c)
  /\ c \in connections \/ Guarded(queue, c)
  /\ "read" \in events[c] => (output[c] => "write" \in events[c] /\ ~finSent[c])

IInv == TypeOK /\ \A c \in Conn : Life(c)

-----------------------------------------------------------------------------
(* Life is inductive.                                                      *)

\* What a step for another connection keeps of d.
LEMMA LifeFrame ==
  ASSUME NEW d \in Conn, Same(d), Life(d)
  PROVE  Life(d)'
<1>1. Closing(d)' <=> Closing(d)
  BY Zenon DEF Same, Closing
<1>2. Expiring(d)' <=> Expiring(d)
  BY Zenon DEF Same, Expiring, Loop
<1>3. ClosedAtHome(d)'
  BY Zenon DEF Same, ClosedAtHome, Life
<1>4. Home(queue, d)'
  BY Zenon DEF Same, SameQ, Home, Life
<1> QED BY <1>1, <1>2, <1>3, <1>4, Zenon DEF Same, SameQ, Life

\* handleClose takes a connection that was established to kDisconnected.
LEMMA LifeClose ==
  ASSUME TypeOK, NEW c \in Conn, Life(c), state[c] \notin {"none", "kConnecting"},
         HandleClose(c), UNCHANGED <<loopOf, output, finSent, connections>>,
         \A o : InQ(queue, o, c)' => InQ(queue, o, c),
         Home(queue, c)', Guarded(queue, c) => Guarded(queue, c)'
  PROVE  Life(c)'
<1>1. state'[c] = "kDisconnected" /\ events'[c] = {} /\ (c \in connections' <=> c \in connections)
  BY Zenon DEF HandleClose, TypeOK
<1>2. loopOf'[c] = loopOf[c] /\ pc' = [pc EXCEPT ![loopOf[c]] = <<"closed", c>>]
  BY Zenon DEF HandleClose
<1>3. Closing(c)' /\ (Expiring(c)' => Expiring(c)) /\ ClosedAtHome(c)'
  BY <1>2, PcClosed, Zenon DEF Life
<1> QED BY <1>1, <1>3, Zenon DEF Life

\* The end of the close handler removes the connection, or queues the removal,
\* when the queues q it starts from are as good as the present ones.
LEMMA LifeRemove ==
  ASSUME TypeOK, NEW c \in Conn, Life(c), NEW l \in Loop, NEW q \in Queues,
         pc[l] \in {<<"closed", c>>, <<"down", c>>}, CloseCallback(q, l, c),
         UNCHANGED state,
         \A o : InQ(q, o, c) => InQ(queue, o, c) \/ o = "forceCloseInLoop",
         Home(q, c), Guarded(queue, c) => Guarded(q, c)
  PROVE  Life(c)'
<1>1. /\ state'[c] = state[c] /\ loopOf'[c] = loopOf[c] /\ events'[c] = events[c]
      /\ output'[c] = output[c] /\ finSent'[c] = finSent[c]
      /\ pc' = [pc EXCEPT ![l] = Idle]
  BY Zenon DEF CloseCallback
<1>2. /\ Closing(c) /\ (Expiring(c)' => Expiring(c) /\ l # Base)
      /\ l = loopOf[c] /\ ClosedAtHome(c)' /\ ~Closing(c)'
  BY <1>1, PcDone, Zenon DEF Life
<1>3. state[c] \notin {"none", "kConnecting", "kConnected"}
  BY <1>2, Zenon DEF Life
<1>o. {"removeConnectionInLoop", "connectDestroyed"} \subseteq Op /\ Base \in Loop
  BY Zenon DEF Op, StrongOps, Loop
<1>4. CASE l = Base
  <2>1. c \notin connections' /\ queue' = Push(q, l, "connectDestroyed", c)
    BY <1>2, <1>4, Zenon DEF CloseCallback, RemoveConnectionInLoop
  <2>2. \A o : InQ(queue, o, c)' <=> InQ(q, o, c) \/ o = "connectDestroyed"
    BY <1>o, <2>1, PushFacts, SMTT(60)
  <2>3. Guarded(queue, c)'
    BY <1>o, <1>2, <2>1, PushFacts, SMTT(60) DEF Home
  <2>4. Home(queue, c)'
    BY <1>o, <1>1, <2>1, PushFacts, SMTT(30) DEF Home
  <2> QED BY <1>1, <1>2, <1>3, <1>4, <2>1, <2>2, <2>3, <2>4, ZenonT(60) DEF Life
<1>5. CASE l # Base
  <2>1. connections' = connections /\ queue' = Push(q, Base, "removeConnectionInLoop", c)
    BY <1>5, ZenonT(60) DEF CloseCallback
  <2>2. \A o : InQ(queue, o, c)' <=> InQ(q, o, c) \/ o = "removeConnectionInLoop"
    BY <1>o, <2>1, PushFacts
  <2>3. Guarded(q, c) => Guarded(queue, c)'
    BY <1>o, <2>1, PushFacts, ZenonT(60)
  <2>4. Home(queue, c)'
    BY <1>o, <1>1, <2>1, PushFacts, SMTT(30) DEF Home
  <2> QED BY <1>1, <1>2, <1>3, <2>1, <2>2, <2>3, <2>4, ZenonT(60) DEF Life
<1> QED BY <1>4, <1>5, Zenon

\* A connection that a step establishes.
LEMMA LifeEstablish ==
  ASSUME TypeOK, NEW c \in Conn, Life(c), state[c] \in {"none", "kConnecting"},
         Establish(c), UNCHANGED <<output, pc>>, c \in connections',
         \A o : InQ(queue, o, c)' => InQ(queue, o, c),
         ~InQ(queue, "connectEstablished", c)',
         Home(queue, c)', ClosedAtHome(c)'
  PROVE  Life(c)'
<1>1. /\ state'[c] \in {"kConnected", "kDisconnecting"}
      /\ state'[c] = "kConnected" => finSent'[c] = finSent[c]
  BY Zenon DEF Establish, TypeOK
<1>2. output'[c] = output[c]
  OBVIOUS
<1>3. (Closing(c)' <=> Closing(c)) /\ (Expiring(c)' <=> Expiring(c))
  BY Zenon DEF Closing, Expiring
<1> QED BY <1>1, <1>2, <1>3, Zenon DEF Life

\* Life is kept when TcpServer::newConnection enters the connection in the
\* map and hands it to a loop.
LEMMA LifeNewConnection ==
  ASSUME TypeOK, NEW c \in Conn, Life(c), NewConnection(c)
  PROVE  Life(c)'
<1>1. state[c] = "none" /\ c \in connections' /\ ~InQ(queue, "connectEstablished", c)
  BY Places, Zenon DEF NewConnection, Life
<1>2. \A l \in Loop, op \in {"shutdownInLoop", "forceCloseInLoop"} :
        Task(op, c) \notin Range(queue[l])
  BY Places, <1>1, Zenon DEF Life, InQ
<1>3. ClosedAtHome(c)'
  BY <1>1, Zenon DEF Life, Closing, ClosedAtHome, NewConnection
<1>4. CASE GetNextLoop = Base
  <2>1. Establish(c) /\ UNCHANGED <<output, pc>> /\ queue' = queue
    BY <1>4, Zenon DEF NewConnection
  <2>2. Home(queue, c)'
    BY <1>2, <2>1, Zenon DEF Home
  <2> QED BY <1>1, <1>3, <2>1, <2>2, LifeEstablish, Zenon
<1>5. CASE GetNextLoop # Base
  <2>1. /\ queue' = Push(queue, GetNextLoop, "connectEstablished", c)
        /\ UNCHANGED <<output, pc, events, finSent>>
    BY <1>5, Zenon DEF NewConnection
  <2>2. state'[c] = "kConnecting"
    BY <1>5, Zenon DEF NewConnection, TypeOK
  <2>3. /\ \A o : InQ(queue, o, c)' <=> InQ(queue, o, c) \/ o = "connectEstablished"
        /\ Once(queue, "connectEstablished", c)'
    BY Places, <1>1, <2>1, PushStep, ZenonT(60)
  <2>4. Home(queue, c)'
    BY Places, <1>2, <2>1, PushFacts DEF Home
  <2>5. (Closing(c)' <=> Closing(c)) /\ (Expiring(c)' <=> Expiring(c))
    BY <2>1, Zenon DEF Closing, Expiring
  <2>6. events'[c] = events[c] /\ output'[c] = output[c] /\ finSent'[c] = finSent[c]
    BY <2>1, Zenon
  <2> QED BY Places, <1>1, <1>3, <2>2, <2>3, <2>4, <2>5, <2>6, ZenonT(60) DEF Life
<1> QED BY <1>4, <1>5, Zenon

\* Life is kept when the request callback answers and, for the last
\* request, shuts down.
LEMMA LifeHandleRead ==
  ASSUME TypeOK, NEW c \in Conn, Life(c), HandleRead(c)
  PROVE  Life(c)'
<1>1. PICK left \in BOOLEAN, close \in BOOLEAN :
        LET waits == output[c] \/ left
        IN  /\ output' = [output EXCEPT ![c] = waits]
            /\ events' = [events EXCEPT ![c] = IF waits THEN @ \cup {"write"} ELSE @]
            /\ finSent' = [finSent EXCEPT ![c] = @ \/ (close /\ ~waits)]
            /\ state' = [state EXCEPT ![c] = IF close THEN "kDisconnecting" ELSE @]
  BY Zenon DEF HandleRead
<1>2. /\ state[c] = "kConnected" /\ UNCHANGED <<loopOf, connections, queue, pc>>
  BY Zenon DEF HandleRead
<1>3. /\ state'[c] = IF close THEN "kDisconnecting" ELSE "kConnected"
      /\ output'[c] = (output[c] \/ left)
      /\ finSent'[c] = (finSent[c] \/ (close /\ ~(output[c] \/ left)))
      /\ output[c] \/ left => "write" \in events'[c]
  BY <1>1, <1>2, Zenon DEF TypeOK
<1>4. (Closing(c)' <=> Closing(c)) /\ (Expiring(c)' <=> Expiring(c)) /\ ClosedAtHome(c)'
  BY <1>2, PcSame, Zenon DEF Life
<1>5. Home(queue, c)'
  BY <1>2, Zenon DEF Home, Life
<1> QED BY <1>2, <1>3, <1>4, <1>5, Zenon DEF Life

\* Life is kept when handleRead at end of file, or handleClose on a
\* hang-up, closes the connection.
LEMMA LifeHandleHangup ==
  ASSUME TypeOK, NEW c \in Conn, Life(c), HandleHangup(c)
  PROVE  Life(c)'
<1>1. /\ HandleClose(c) /\ UNCHANGED <<loopOf, output, finSent, connections, queue>>
      /\ events[c] # {}
  BY Zenon DEF HandleHangup
<1>2. Home(queue, c)'
  BY <1>1, Zenon DEF Home, Life
<1>3. state[c] \notin {"none", "kConnecting"}
  BY <1>1, Zenon DEF Life
<1> QED BY <1>1, <1>2, <1>3, LifeClose, Zenon

\* Life is kept when handleWrite drains the output and, when
\* disconnecting, sends the FIN.
LEMMA LifeHandleWrite ==
  ASSUME TypeOK, NEW c \in Conn, Life(c), HandleWrite(c)
  PROVE  Life(c)'
<1>1. UNCHANGED <<state, loopOf, connections, queue, pc>> /\ "write" \in events[c]
  BY Zenon DEF HandleWrite
<1>2. ~output'[c] /\ finSent'[c] = (finSent[c] \/ state[c] = "kDisconnecting")
  BY Zenon DEF HandleWrite, TypeOK
<1>3. (Closing(c)' <=> Closing(c)) /\ (Expiring(c)' <=> Expiring(c)) /\ ClosedAtHome(c)'
  BY <1>1, PcSame, Zenon DEF Life
<1>4. Home(queue, c)'
  BY <1>1, Zenon DEF Home, Life
<1> QED BY <1>1, <1>2, <1>3, <1>4, Zenon DEF Life

\* Life is kept when the delayed force close queues forceCloseInLoop
\* through its weak pointer.
LEMMA LifeDelayedForceClose ==
  ASSUME TypeOK, NEW c \in Conn, Life(c), DelayedForceClose(c)
  PROVE  Life(c)'
<1>1. UNCHANGED <<loopOf, events, output, finSent, connections, pc>>
  BY Zenon DEF DelayedForceClose
<1>2. (Closing(c)' <=> Closing(c)) /\ (Expiring(c)' <=> Expiring(c)) /\ ClosedAtHome(c)'
  BY <1>1, PcSame, Zenon DEF Life
<1>3. CASE Alive(c) /\ Up(c)
  <2>1. queue' = Push(queue, loopOf[c], "forceCloseInLoop", c)
    BY <1>3, Zenon DEF DelayedForceClose, Up
  <2>2. state'[c] = "kDisconnecting"
    BY <1>3, ZenonT(60) DEF DelayedForceClose, Up, TypeOK
  <2>3. /\ \A o : InQ(queue, o, c)' <=> InQ(queue, o, c) \/ o = "forceCloseInLoop"
        /\ Guarded(queue, c) => Guarded(queue, c)'
        /\ Home(queue, c)'
    BY Places, <1>1, <2>1, PushStep, SMTT(30) DEF Life
  <2> QED BY <1>1, <1>2, <1>3, <2>2, <2>3, Zenon DEF Life, Up
<1>4. CASE ~(Alive(c) /\ Up(c))
  <2>1. UNCHANGED <<state, queue>>
    BY <1>4, Zenon DEF DelayedForceClose, Up
  <2>2. Home(queue, c)'
    BY <1>1, <2>1, Zenon DEF Home, Life
  <2> QED BY <1>1, <1>2, <2>1, <2>2, Zenon DEF Life
<1> QED BY <1>3, <1>4, Zenon

\* Life is kept when removeConnectionInLoop erases the entry and queues
\* connectDestroyed.
LEMMA LifeRunRemoveConnection ==
  ASSUME TypeOK, NEW c \in Conn, Life(c), RunRemoveConnection(c)
  PROVE  Life(c)'
<1> DEFINE q == Pop(queue, Base)
<1>1. /\ Runs(Base, "removeConnectionInLoop", c)
      /\ UNCHANGED <<state, loopOf, events, output, finSent, pc>>
      /\ queue' = Push(q, loopOf[c], "connectDestroyed", c)
      /\ c \notin connections'
  BY ZenonT(60) DEF RunRemoveConnection, RemoveConnectionInLoop, Rest, Pop
<1>2. /\ q \in Queues /\ InQ(queue, "removeConnectionInLoop", c)
      /\ \A o, d : InQ(q, o, d) => InQ(queue, o, d)
  BY Places, <1>1, PopFacts, SMTT(120) DEF Runs
<1>3. Home(q, c)
  BY Places, <1>1, PopFacts, SMTT(60) DEF Runs, Home, Life
<1> HIDE DEF q
<1>4. \A o : InQ(queue, o, c)' <=> InQ(q, o, c) \/ o = "connectDestroyed"
  BY Places, <1>1, <1>2, PushFacts, SMTT(60)
<1>5. Guarded(queue, c)'
  BY Places, <1>1, <1>2, <1>3, PushFacts, SMTT(60) DEF Home
<1>6. Home(queue, c)'
  BY Places, <1>1, <1>2, <1>3, PushFacts, SMTT(120) DEF Home
<1>7. (Closing(c)' <=> Closing(c)) /\ (Expiring(c)' <=> Expiring(c)) /\ ClosedAtHome(c)'
  BY <1>1, PcSame, Zenon DEF Life
<1>8. ~Expiring(c)
  BY <1>1, PcDistinct, Zenon DEF Runs, Expiring
<1> QED BY <1>1, <1>2, <1>4, <1>5, <1>6, <1>7, <1>8, ZenonT(60) DEF Life

\* Life is kept when HttpTimer's handler reaches an expired connection.
LEMMA LifeOnTimer ==
  ASSUME TypeOK, NEW c \in Conn, Life(c), OnTimer(c)
  PROVE  Life(c)'
<1>1. /\ UNCHANGED <<state, loopOf, events, output, finSent, connections, queue>>
      /\ pc[Base] = Idle /\ pc' = [pc EXCEPT ![Base] = <<"shutdown", c>>]
      /\ state[c] = "kConnected"
  BY Zenon DEF OnTimer
<1>2. (Closing(c)' <=> Closing(c)) /\ ClosedAtHome(c)'
  BY TimerPlaces, <1>1, PcTimer, Zenon DEF Life
<1>3. Home(queue, c)'
  BY <1>1, Zenon DEF Home, Life
<1> QED BY <1>1, <1>2, <1>3, Zenon DEF Life

\* Life is kept when shutdown tests state_ in the timer's thread.
LEMMA LifeShutdownTest ==
  ASSUME TypeOK, NEW c \in Conn, Life(c), ShutdownTest(c)
  PROVE  Life(c)'
<1>1. /\ UNCHANGED <<state, loopOf, events, output, finSent, connections, queue>>
      /\ pc[Base] = <<"shutdown", c>>
      /\ \E p \in TimerPc : pc' = [pc EXCEPT ![Base] = <<p, c>>]
  BY TimerPlaces, Zenon DEF ShutdownTest
<1>2. (Closing(c)' <=> Closing(c)) /\ ClosedAtHome(c)'
  BY TimerPlaces, <1>1, PcTimer, Zenon DEF Life
<1>3. Home(queue, c)'
  BY <1>1, Zenon DEF Home, Life
<1>4. Expiring(c)
  BY TimerPlaces, <1>1, Zenon DEF Expiring
<1> QED BY <1>1, <1>2, <1>3, <1>4, ZenonT(60) DEF Life

\* Life is kept when shutdown sets kDisconnecting and queues shutdownInLoop.
LEMMA LifeShutdownSet ==
  ASSUME TypeOK, NEW c \in Conn, Life(c), ShutdownSet(c)
  PROVE  Life(c)'
<1>1. /\ UNCHANGED <<loopOf, events, output, connections>>
      /\ pc[Base] = <<"shutdownSet", c>> /\ pc' = [pc EXCEPT ![Base] = <<"delay", c>>]
  BY Zenon DEF ShutdownSet
<1>2. state'[c] = "kDisconnecting"
  BY Zenon DEF ShutdownSet, TypeOK
<1>3. (Closing(c)' <=> Closing(c)) /\ ClosedAtHome(c)'
  BY TimerPlaces, <1>1, PcTimer, Zenon DEF Life
<1>4. Expiring(c)
  BY TimerPlaces, <1>1, Zenon DEF Expiring
<1>5. c \in connections /\ ~InQ(queue, "connectEstablished", c)
  BY <1>4, Zenon DEF Life
<1>6. CASE loopOf[c] = Base
  <2>1. queue' = queue
    BY <1>6, Zenon DEF ShutdownSet
  <2>2. finSent'[c] = (finSent[c] \/ "write" \notin events[c])
    BY <1>6, Zenon DEF ShutdownSet, ShutdownInLoop, TypeOK
  <2>3. Home(queue, c)'
    BY <1>1, <2>1, Zenon DEF Home, Life
  <2> QED BY <1>1, <1>2, <1>3, <1>5, <2>1, <2>2, <2>3, ZenonT(60) DEF Life
<1>7. CASE loopOf[c] # Base
  <2>1. queue' = Push(queue, loopOf[c], "shutdownInLoop", c) /\ finSent' = finSent
    BY <1>7, Zenon DEF ShutdownSet
  <2>2. /\ \A o : InQ(queue, o, c)' <=> InQ(queue, o, c) \/ o = "shutdownInLoop"
        /\ Home(queue, c)'
    BY Places, <1>1, <2>1, PushStep, ZenonT(120) DEF Life
  <2> QED BY <1>1, <1>2, <1>3, <1>5, <2>1, <2>2, ZenonT(60) DEF Life
<1> QED BY <1>6, <1>7, Zenon

\* Life is kept when forceCloseWithDelay tests state_ in the timer's thread.
LEMMA LifeDelayTest ==
  ASSUME TypeOK, NEW c \in Conn, Life(c), DelayTest(c)
  PROVE  Life(c)'
<1>1. /\ UNCHANGED <<state, loopOf, events, output, finSent, connections, queue>>
      /\ pc[Base] = <<"delay", c>>
      /\ \E v : pc' = [pc EXCEPT ![Base] = v] /\ (v = Idle \/ v = <<"delaySet", c>>)
  BY Zenon DEF DelayTest
<1>2. (Closing(c)' <=> Closing(c)) /\ ClosedAtHome(c)'
  BY TimerPlaces, <1>1, PcTimer, Zenon DEF Life
<1>3. Home(queue, c)'
  BY <1>1, Zenon DEF Home, Life
<1>4. Expiring(c)
  BY TimerPlaces, <1>1, Zenon DEF Expiring
<1> QED BY <1>1, <1>2, <1>3, <1>4, Zenon DEF Life

\* Life is kept when forceCloseWithDelay sets kDisconnecting and queues the timer.
LEMMA LifeDelaySet ==
  ASSUME TypeOK, NEW c \in Conn, Life(c), DelaySet(c)
  PROVE  Life(c)'
<1>1. /\ UNCHANGED <<loopOf, events, output, finSent, connections>>
      /\ pc[Base] = <<"delaySet", c>> /\ pc' = [pc EXCEPT ![Base] = Idle]
  BY Zenon DEF DelaySet
<1>2. state'[c] = "kDisconnecting"
  BY Zenon DEF DelaySet, TypeOK
<1>3. (Closing(c)' <=> Closing(c)) /\ ClosedAtHome(c)'
  BY TimerPlaces, <1>1, PcTimer, Zenon DEF Life
<1>4. Expiring(c)
  BY TimerPlaces, <1>1, Zenon DEF Expiring
<1>5. c \in connections /\ ~InQ(queue, "connectEstablished", c)
  BY <1>4, Zenon DEF Life
<1>6. CASE loopOf[c] = Base
  <2>1. queue' = queue
    BY <1>6, Zenon DEF DelaySet
  <2>2. Home(queue, c)'
    BY <1>1, <2>1, Zenon DEF Home, Life
  <2> QED BY <1>1, <1>2, <1>3, <1>5, <2>1, <2>2, ZenonT(60) DEF Life
<1>7. CASE loopOf[c] # Base
  <2>1. queue' = Push(queue, loopOf[c], "addTimerInLoop", c)
    BY <1>7, Zenon DEF DelaySet
  <2>2. /\ \A o : InQ(queue, o, c)' <=> InQ(queue, o, c) \/ o = "addTimerInLoop"
        /\ Home(queue, c)'
    BY Places, <1>1, <2>1, PushStep, Zenon DEF Life
  <2> QED BY <1>1, <1>2, <1>3, <1>5, <2>1, <2>2, ZenonT(60) DEF Life
<1> QED BY <1>6, <1>7, Zenon

\* Life is kept when connectEstablished runs in the connection's loop.
LEMMA LifeConnectEstablished ==
  ASSUME TypeOK, NEW c \in Conn, Life(c), NEW l \in Loop, ConnectEstablished(l, c)
  PROVE  Life(c)'
<1>1. /\ Runs(l, "connectEstablished", c) /\ Establish(c)
      /\ queue' = Pop(queue, l) /\ UNCHANGED <<loopOf, output, connections, pc>>
  BY Zenon DEF ConnectEstablished, Rest, Pop
<1>2. /\ InQ(queue, "connectEstablished", c)
      /\ \A o : InQ(queue, o, c)' => InQ(queue, o, c)
      /\ Once(queue, "connectEstablished", c) => ~InQ(queue, "connectEstablished", c)'
      /\ Home(queue, c)'
  BY <1>1, PopStep, Zenon DEF Life
<1>3. ClosedAtHome(c)'
  BY <1>1, PcSame, Zenon DEF Life
<1>4. /\ state[c] = "kConnecting" /\ ~InQ(queue, "connectEstablished", c)'
      /\ c \in connections'
  BY <1>1, <1>2, Zenon DEF Life
<1> QED BY <1>1, <1>2, <1>3, <1>4, LifeEstablish, Zenon

\* Life is kept when connectDestroyed runs and its functor drops the last reference.
LEMMA LifeConnectDestroyed ==
  ASSUME TypeOK, NEW c \in Conn, Life(c), NEW l \in Loop, ConnectDestroyed(l, c)
  PROVE  Life(c)'
<1>1. /\ Runs(l, "connectDestroyed", c) /\ queue' = Pop(queue, l)
      /\ UNCHANGED <<state, loopOf, events, output, finSent, connections, pc>>
  BY Zenon DEF ConnectDestroyed, Rest, Pop
<1>2. /\ \A o : InQ(queue, o, c)' => InQ(queue, o, c)
      /\ \A o : Once(queue, o, c) => Once(queue, o, c)'
      /\ Guarded(queue, c) => Guarded(queue, c)'
      /\ Home(queue, c)'
  BY <1>1, PopStep, Zenon DEF Life
<1>3. (Closing(c)' <=> Closing(c)) /\ (Expiring(c)' <=> Expiring(c)) /\ ClosedAtHome(c)'
  BY <1>1, PcSame, Zenon DEF Life
<1> QED BY <1>1, <1>2, <1>3, Zenon DEF Life

\* Life is kept when shutdownInLoop sends the FIN unless output is waiting.
LEMMA LifeRunShutdownInLoop ==
  ASSUME TypeOK, NEW c \in Conn, Life(c), NEW l \in Loop, RunShutdownInLoop(l, c)
  PROVE  Life(c)'
<1>1. /\ Runs(l, "shutdownInLoop", c) /\ queue' = Pop(queue, l)
      /\ UNCHANGED <<state, loopOf, events, output, connections, pc>>
  BY Zenon DEF RunShutdownInLoop, Rest, Pop
<1>2. /\ InQ(queue, "shutdownInLoop", c)
      /\ \A o : InQ(queue, o, c)' => InQ(queue, o, c)
      /\ \A o : Once(queue, o, c) => Once(queue, o, c)'
      /\ Guarded(queue, c) => Guarded(queue, c)'
      /\ Home(queue, c)'
  BY <1>1, PopStep, ZenonT(120) DEF Life
<1>3. (Closing(c)' <=> Closing(c)) /\ (Expiring(c)' <=> Expiring(c)) /\ ClosedAtHome(c)'
  BY <1>1, PcSame, Zenon DEF Life
<1>4. finSent'[c] = (finSent[c] \/ "write" \notin events[c])
  BY Zenon DEF RunShutdownInLoop, ShutdownInLoop, TypeOK
<1> QED BY <1>1, <1>2, <1>3, <1>4, Zenon DEF Life

\* Life is kept when addTimerInLoop enters the delayed force close.
LEMMA LifeRunAddTimer ==
  ASSUME TypeOK, NEW c \in Conn, Life(c), NEW l \in Loop, RunAddTimer(l, c)
  PROVE  Life(c)'
<1>1. /\ Runs(l, "addTimerInLoop", c) /\ queue' = Pop(queue, l)
      /\ UNCHANGED <<state, loopOf, events, output, finSent, connections, pc>>
  BY Zenon DEF RunAddTimer, Rest, Pop
<1>2. /\ \A o : InQ(queue, o, c)' => InQ(queue, o, c)
      /\ \A o : Once(queue, o, c) => Once(queue, o, c)'
      /\ Guarded(queue, c) => Guarded(queue, c)'
      /\ Home(queue, c)'
  BY <1>1, PopStep, ZenonT(120) DEF Life
<1>3. (Closing(c)' <=> Closing(c)) /\ (Expiring(c)' <=> Expiring(c)) /\ ClosedAtHome(c)'
  BY <1>1, PcSame, Zenon DEF Life
<1> QED BY <1>1, <1>2, <1>3, Zenon DEF Life

\* Life is kept when forceCloseInLoop closes a connection that is still up.
LEMMA LifeRunForceCloseInLoop ==
  ASSUME TypeOK, NEW c \in Conn, Life(c), NEW l \in Loop, RunForceCloseInLoop(l, c)
  PROVE  Life(c)'
<1>1. /\ Runs(l, "forceCloseInLoop", c) /\ queue' = Pop(queue, l)
      /\ UNCHANGED <<loopOf, output, finSent, connections>>
  BY Zenon DEF RunForceCloseInLoop, Rest, Pop
<1>2. /\ \A o : InQ(queue, o, c)' => InQ(queue, o, c)
      /\ \A o : Once(queue, o, c) => Once(queue, o, c)'
      /\ Guarded(queue, c) => Guarded(queue, c)'
      /\ Home(queue, c)'
  BY <1>1, PopStep, Zenon DEF Life
<1>3. CASE Up(c)
  <2>1. HandleClose(c) /\ state[c] \notin {"none", "kConnecting"}
    BY <1>3, Zenon DEF RunForceCloseInLoop, Up
  <2> QED BY <1>1, <1>2, <2>1, LifeClose, ZenonT(60)
<1>4. CASE ~Up(c)
  <2>1. UNCHANGED <<state, events, pc>>
    BY <1>4, Zenon DEF RunForceCloseInLoop, Up
  <2>2. (Closing(c)' <=> Closing(c)) /\ (Expiring(c)' <=> Expiring(c)) /\ ClosedAtHome(c)'
    BY <1>1, <2>1, PcSame, Zenon DEF Life
  <2> QED BY <1>1, <1>2, <2>1, <2>2, ZenonT(120) DEF Life
<1> QED BY <1>3, <1>4, Zenon

\* Life is kept when the connection callback counts a disconnection.
LEMMA LifeOnDisconnected ==
  ASSUME TypeOK, NEW c \in Conn, Life(c), NEW l \in Loop, OnDisconnected(l, c)
  PROVE  Life(c)'
<1>1. /\ UNCHANGED <<state, loopOf, events, output, finSent, connections, queue>>
      /\ pc[l] = <<"closed", c>> /\ pc' = [pc EXCEPT ![l] = <<"down", c>>]
  BY Zenon DEF OnDisconnected
<1>2. Closing(c) /\ Closing(c)' /\ (Expiring(c)' => Expiring(c)) /\ ClosedAtHome(c)'
  BY <1>1, PcDown, ZenonT(120) DEF Life
<1>3. Home(queue, c)'
  BY <1>1, Zenon DEF Home, Life
<1> QED BY <1>1, <1>2, <1>3, Zenon DEF Life

\* Life is kept when the connection callback finds the connection not disconnected.
LEMMA LifeOnNotDisconnected ==
  ASSUME TypeOK, NEW c \in Conn, Life(c), NEW l \in Loop, OnNotDisconnected(l, c)
  PROVE  Life(c)'
BY Places, LifeRemove, ZenonT(120) DEF OnNotDisconnected, Life

\* Life is kept when handleClose's last part hands the connection to
\* TcpServer for removal.
LEMMA LifeOnDown ==
  ASSUME TypeOK, NEW c \in Conn, Life(c), NEW l \in Loop, OnDown(l, c)
  PROVE  Life(c)'
<1> DEFINE q == IF state[c] = "kDisconnecting"
                  THEN Push(queue, l, "forceCloseInLoop", c) ELSE queue
<1>1. pc[l] = <<"down", c>> /\ CloseCallback(q, l, c) /\ UNCHANGED state
  BY Zenon DEF OnDown
<1>2. l = loopOf[c] /\ Home(queue, c)
  BY <1>1, Zenon DEF Life, ClosedAtHome
<1>3. /\ q \in Queues
      /\ \A o : InQ(q, o, c) => InQ(queue, o, c) \/ o = "forceCloseInLoop"
      /\ Guarded(queue, c) => Guarded(q, c)
  <2>1. CASE state[c] = "kDisconnecting"
    <3>1. q = Push(queue, l, "forceCloseInLoop", c)
      BY <2>1, Zenon
    <3> HIDE DEF q
    <3>2. q \in Queues
      BY Places, <3>1, PushElements, ZenonT(60)
    <3>3. \A o : InQ(q, o, c) => InQ(queue, o, c) \/ o = "forceCloseInLoop"
      BY Places, <3>1, PushFacts, SMTT(120)
    <3>4. Guarded(queue, c) => Guarded(q, c)
      BY Places, <3>1, PushFacts, Zenon
    <3> QED BY <3>2, <3>3, <3>4, Zenon
  <2>2. CASE state[c] # "kDisconnecting"
    BY Places, <2>2, ZenonT(60)
  <2> QED BY <2>1, <2>2, Zenon
<1>4. Home(q, c)
  BY Places, <1>2, PushFacts, SMTT(30) DEF Home
<1> QED BY <1>1, <1>3, <1>4, LifeRemove, Zenon

\* Every step keeps Life of its own connection.
LEMMA LifeStep ==
  ASSUME TypeOK, NEW c \in Conn, Life(c), ConnStep(c)
  PROVE  Life(c)'
BY LifeNewConnection, LifeHandleRead, LifeHandleHangup, LifeHandleWrite,
   LifeDelayedForceClose, LifeRunRemoveConnection, LifeOnTimer,
   LifeShutdownTest, LifeShutdownSet, LifeDelayTest, LifeDelaySet,
   LifeConnectEstablished, LifeConnectDestroyed, LifeRunShutdownInLoop,
   LifeRunAddTimer, LifeRunForceCloseInLoop, LifeOnDisconnected,
   LifeOnNotDisconnected, LifeOnDown, ZenonT(60)
DEF ConnStep, TimerStep, LoopStep

\* The connections start with Life.
LEMMA InitIInv ==
  ASSUME Init
  PROVE  IInv
<1>1. queue \in Queues /\ \A l \in Loop : queue[l] = <<>>
  BY SMTT(30) DEF Init, Queues
<1>2. TypeOK
  <2>1. Workers # <<>> => 1 \in 1..Len(Workers)
    BY TcpServerConstants, SMTT(30)
  <2> QED BY <1>1, <2>1 DEF Init, TypeOK, State, Loop
<1>3. ASSUME NEW c \in Conn PROVE Life(c)
  <2>1. /\ \A op : ~InQ(queue, op, c)
        /\ Home(queue, c) /\ Guarded(queue, c)
    BY <1>1, SMTT(30) DEF InQ, Home, Guarded, Range
  <2>2. ~Closing(c) /\ ~Expiring(c) /\ ClosedAtHome(c)
    <3>1. \A l \in Loop : \A p : pc[l] # <<p, c>>
      BY PcDistinct, Zenon DEF Init
    <3> QED BY <3>1, Zenon DEF Closing, Expiring, ClosedAtHome, Loop
  <2>3. state[c] = "none" /\ events[c] = {} /\ ~output[c] /\ ~finSent[c] /\ c \notin connections
    BY Zenon DEF Init
  <2> QED BY <2>1, <2>2, <2>3, Zenon DEF Life
<1> QED BY <1>2, <1>3, Zenon DEF IInv

\* Every step keeps the types and Life.
LEMMA StepIInv ==
  ASSUME IInv, [Next]_vars
  PROVE  IInv'
<1>1. CASE UNCHANGED vars
  <2>1. TypeOK'
    BY <1>1, Zenon DEF IInv, TypeOK, vars
  <2>2. ASSUME NEW d \in Conn PROVE Same(d)
    BY <1>1, Zenon DEF Same, SameQ, vars
  <2> QED BY <2>1, <2>2, LifeFrame, Zenon DEF IInv
<1>2. CASE Next
  <2>1. PICK c \in Conn : ConnStep(c)
    BY <1>2, Zenon DEF Next
  <2>2. TypeOK'
    BY <2>1, TypeStep, Zenon DEF IInv
  <2>3. Life(c)'
    BY <2>1, LifeStep, Zenon DEF IInv
  <2>4. ASSUME NEW d \in Conn, d # c PROVE Life(d)'
    <3>1. Home(queue, c)
      BY Zenon DEF IInv, Life
    <3>2. Same(d)
      BY <2>1, <2>4, <3>1, StepFrame, Zenon DEF IInv
    <3> QED BY <3>2, LifeFrame, Zenon DEF IInv
  <2> QED BY <2>2, <2>3, <2>4, Zenon DEF IInv
<1> QED BY <1>1, <1>2, Zenon

\* For any connections, loops and limit: a shutdownInLoop that shutdown()
\* queued bound to a bare this never outlives its connection.
THEOREM ThisOutlived == Spec => []RawThisAlive
<1>1. IInv => RawThisAlive
  <2>1. SUFFICES ASSUME IInv, NEW c \in Conn, Queued("shutdownInLoop", c)
                 PROVE  Alive(c)
    BY Zenon DEF RawThisAlive
  <2>2. CASE c \in connections
    BY <2>2, Zenon DEF Alive
  <2>3. CASE Guarded(queue, c)
    <3>1. PICK l \in Loop : Task("shutdownInLoop", c) \in Range(queue[l])
      BY <2>1, Zenon DEF Queued
    <3>2. DOMAIN queue[l] = 1..Len(queue[l])
      BY <2>1, SMTT(120) DEF IInv, TypeOK, Queues
    <3>3. PICK i \in 1..Len(queue[l]) : queue[l][i] = Task("shutdownInLoop", c)
      BY <3>1, <3>2, Zenon DEF Range
    <3>4. PICK j \in 1..Len(queue[l]) : queue[l][j] = Task("connectDestroyed", c)
      BY <2>3, <3>3, Zenon DEF Guarded
    <3>5. Task("connectDestroyed", c) \in Range(queue[l])
      BY <3>2, <3>4, ZenonT(60) DEF Range
    <3> QED BY <3>5, Zenon DEF Alive, Queued, StrongOps
  <2> QED BY <2>1, <2>2, <2>3, Zenon DEF IInv, Life
<1> QED BY <1>1, InitIInv, StepIInv, PTL DEF Spec

\* For any connections, loops and limit: shutdownInLoop, run at once, from the
\* queue or by handleWrite, never shuts the write side before outputBuffer_ is
\* empty.
THEOREM FinIsLast == Spec => []FinAfterOutput
<1>1. IInv => FinAfterOutput
  BY Zenon DEF IInv, Life, FinAfterOutput
<1> QED BY <1>1, InitIInv, StepIInv, PTL DEF Spec

-----------------------------------------------------------------------------
(* The removal and the count of connections.                               *)

\* The idle timer and the connections share one thread, or there is no timer.
NoRace == ~KeepAlive \/ Workers = <<>>

\* The stages of a connection that goes down.
Phase(c) ==
  /\ Up(c) => /\ added[c] /\ c \in connections /\ ~Closing(c)
              /\ ~InQ(queue, "removeConnectionInLoop", c)
              /\ ~InQ(queue, "connectDestroyed", c)
  /\ Closing(c) => /\ state[c] = "kDisconnected" /\ c \in connections
                   /\ ~InQ(queue, "removeConnectionInLoop", c)
                   /\ ~InQ(queue, "connectDestroyed", c)
  /\ InQ(queue, "removeConnectionInLoop", c) =>
       /\ state[c] = "kDisconnected" /\ c \in connections
       /\ ~InQ(queue, "connectDestroyed", c)
       /\ Once(queue, "removeConnectionInLoop", c)
  /\ InQ(queue, "connectDestroyed", c) =>
       state[c] = "kDisconnected" /\ c \notin connections
  /\ events[c] # {} => Up(c)
  /\ state[c] = "kDisconnected" =>
       \/ ~added[c]
       \/ Closing(c)
       \/ InQ(queue, "removeConnectionInLoop", c)
       \/ InQ(queue, "connectDestroyed", c)
  /\ Expiring(c) => Up(c) /\ KeepAlive
  /\ c \in timerList => KeepAlive

Counted == {c \in Conn : Up(c) \/ Closing(c)}
Serving == {c \in Conn : state[c] = "kConnected"}

Count ==
  /\ IsFiniteSet(Counted)
  /\ numConnected = Cardinality(Counted)
  /\ Cardinality(Serving) <= MaxConnections

CInv == IInv /\ aborted = "no" /\ (\A c \in Conn : Phase(c)) /\ Count

\* What a step for another connection keeps of d.
LEMMA PhaseFrame ==
  ASSUME NEW d \in Conn, Same(d), Phase(d)
  PROVE  Phase(d)' /\ (d \in Counted' <=> d \in Counted) /\ (d \in Serving' <=> d \in Serving)
<1>1. Closing(d)' <=> Closing(d)
  BY Zenon DEF Same, Closing
<1>2. Expiring(d)' <=> Expiring(d)
  BY Zenon DEF Same, Expiring, Loop
<1>3. Up(d)' <=> Up(d)
  BY Zenon DEF Same, Up
<1>4. Phase(d)'
  BY <1>1, <1>2, <1>3, Zenon DEF Same, SameQ, Phase
<1> QED BY <1>1, <1>3, <1>4, ZenonT(30) DEF Counted, Serving, Same

\* What a step may do to the count: nothing, count its connection in, serving
\* it only within the limit, or count it out.
Effect(c) ==
  \/ /\ numConnected' = numConnected
     /\ c \in Counted' <=> c \in Counted
     /\ c \in Serving' => c \in Serving
  \/ /\ numConnected' = numConnected + 1
     /\ c \notin Counted /\ c \in Counted'
     /\ c \in Serving' => numConnected + 1 <= MaxConnections
  \/ /\ numConnected' = numConnected - 1
     /\ c \in Counted /\ c \notin Counted'
     /\ c \notin Serving'

\* handleClose finds the connection up, and starts its removal.
LEMMA PhaseClose ==
  ASSUME NoRace, TypeOK, NEW c \in Conn, Phase(c), Up(c), HandleClose(c),
         UNCHANGED <<loopOf, added, connections, timerList, numConnected>>,
         \A o : InQ(queue, o, c)' => InQ(queue, o, c)
  PROVE  Phase(c)' /\ aborted' = "no" /\ Effect(c)
<1>1. /\ state'[c] = "kDisconnected" /\ events'[c] = {} /\ aborted' = "no"
      /\ pc' = [pc EXCEPT ![loopOf[c]] = <<"closed", c>>] /\ loopOf'[c] = loopOf[c]
  BY Zenon DEF HandleClose, TypeOK, Up
<1>2. Closing(c)' /\ (Expiring(c)' => Expiring(c))
  BY <1>1, PcClosed, Zenon
<1>3. ~Expiring(c)'
  <2>1. CASE ~KeepAlive
    BY <1>2, <2>1, ZenonT(60) DEF Phase
  <2>2. CASE Workers = <<>>
    <3>1. loopOf[c] = Base
      BY <2>2, SMTT(30) DEF TypeOK, Loop, Range
    <3>2. pc'[Base] = <<"closed", c>>
      BY <1>1, <3>1, Zenon DEF TypeOK, Loop
    <3> QED BY <3>2, PcDistinct, SMTT(30) DEF Expiring, TimerPc
  <2> QED BY <2>1, <2>2, ZenonT(30) DEF NoRace
<1>4. Phase(c)'
  BY <1>1, <1>2, <1>3, Zenon DEF Phase, Up
<1>5. c \in Counted /\ c \in Counted' /\ c \notin Serving'
  BY <1>1, <1>2, Zenon DEF Counted, Serving
<1> QED BY <1>1, <1>4, <1>5, Zenon DEF Effect

\* An established connection is up, and counted in.
LEMMA PhaseEstablish ==
  ASSUME TypeOK, NEW c \in Conn, Life(c), Phase(c), state[c] \in {"none", "kConnecting"},
         Establish(c), pc' = pc, c \in connections',
         \A o : InQ(queue, o, c)' => InQ(queue, o, c)
  PROVE  Phase(c)' /\ Effect(c)
<1>1. /\ state'[c] \in {"kConnected", "kDisconnecting"}
      /\ state'[c] = "kConnected" => numConnected + 1 <= MaxConnections
      /\ numConnected' = numConnected + 1
      /\ added'[c] /\ (c \in timerList' => KeepAlive \/ c \in timerList)
  BY TcpServerConstants, SMTT(30) DEF Establish, TypeOK
<1>2. (Closing(c)' <=> Closing(c)) /\ (Expiring(c)' <=> Expiring(c))
  BY Zenon DEF Closing, Expiring
<1>3. ~Closing(c) /\ ~Expiring(c) /\ ~InQ(queue, "removeConnectionInLoop", c)
      /\ ~InQ(queue, "connectDestroyed", c)
  BY Zenon DEF Life, Phase
<1>4. Phase(c)'
  BY <1>1, <1>2, <1>3, Zenon DEF Phase, Up
<1>5. c \notin Counted /\ c \in Counted'
  BY <1>1, <1>3, Zenon DEF Counted, Up
<1> QED BY <1>1, <1>4, <1>5, ZenonT(60) DEF Effect, Serving

\* Phase is kept when TcpServer::newConnection enters the connection in
\* the map and hands it to a loop.
LEMMA PhaseNewConnection ==
  ASSUME NoRace, TypeOK, NEW c \in Conn, Life(c), Phase(c), aborted = "no",
         NewConnection(c)
  PROVE  Phase(c)' /\ aborted' = "no" /\ Effect(c)
<1>1. state[c] = "none" /\ c \in connections' /\ UNCHANGED <<pc, aborted>>
  BY Zenon DEF NewConnection
<1>2. CASE GetNextLoop = Base
  <2>1. Establish(c) /\ queue' = queue
    BY <1>2, Zenon DEF NewConnection
  <2> QED BY <1>1, <2>1, PhaseEstablish, ZenonT(60)
<1>3. CASE GetNextLoop # Base
  <2>1. /\ queue' = Push(queue, GetNextLoop, "connectEstablished", c)
        /\ UNCHANGED <<events, added, numConnected, timerList>>
    BY <1>3, Zenon DEF NewConnection
  <2>2. state'[c] = "kConnecting"
    BY <1>3, Zenon DEF NewConnection, TypeOK
  <2>3. \A o : InQ(queue, o, c)' => InQ(queue, o, c) \/ o = "connectEstablished"
    BY Places, <2>1, PushStep, ZenonT(60)
  <2>4. (Closing(c)' <=> Closing(c)) /\ (Expiring(c)' <=> Expiring(c))
    BY <1>1, Zenon DEF Closing, Expiring
  <2>5. /\ ~Closing(c) /\ ~Expiring(c) /\ events'[c] = {}
        /\ ~InQ(queue, "removeConnectionInLoop", c)'
        /\ ~InQ(queue, "connectDestroyed", c)'
    BY Places, <1>1, <2>1, <2>3, ZenonT(60) DEF Life
  <2>6. Phase(c)'
    BY <2>1, <2>2, <2>4, <2>5, ZenonT(60) DEF Phase, Up
  <2> QED BY <1>1, <2>1, <2>2, <2>4, <2>5, <2>6, ZenonT(60) DEF Effect, Counted, Serving, Up
<1> QED BY <1>2, <1>3, Zenon

\* Phase is kept when the request callback answers and, for the last
\* request, shuts down.
LEMMA PhaseHandleRead ==
  ASSUME NoRace, TypeOK, NEW c \in Conn, Life(c), Phase(c), aborted = "no",
         HandleRead(c)
  PROVE  Phase(c)' /\ aborted' = "no" /\ Effect(c)
<1>1. /\ state[c] = "kConnected"
      /\ UNCHANGED <<loopOf, added, connections, timerList, numConnected,
                     queue, pc, aborted>>
  BY Zenon DEF HandleRead
<1>2. state'[c] \in {"kConnected", "kDisconnecting"}
  BY Zenon DEF HandleRead, TypeOK
<1>3. (Closing(c)' <=> Closing(c)) /\ (Expiring(c)' <=> Expiring(c))
  BY <1>1, PcSame, Zenon
<1>4. Up(c) /\ Up(c)'
  BY <1>1, <1>2, Zenon DEF Up
<1>5. Phase(c)'
  BY <1>1, <1>2, <1>3, <1>4, ZenonT(60) DEF Phase
<1> QED BY <1>1, <1>4, <1>5, ZenonT(30) DEF Effect, Counted, Serving

\* Phase is kept when handleRead at end of file, or handleClose on a
\* hang-up, closes the connection.
LEMMA PhaseHandleHangup ==
  ASSUME NoRace, TypeOK, NEW c \in Conn, Life(c), Phase(c), aborted = "no",
         HandleHangup(c)
  PROVE  Phase(c)' /\ aborted' = "no" /\ Effect(c)
<1>1. /\ HandleClose(c) /\ events[c] # {}
      /\ UNCHANGED <<loopOf, added, connections, timerList, numConnected, queue>>
  BY Zenon DEF HandleHangup
<1>2. Up(c)
  BY <1>1, Zenon DEF Phase
<1> QED BY <1>1, <1>2, PhaseClose, ZenonT(60)

\* Phase is kept when handleWrite drains the output and, when
\* disconnecting, sends the FIN.
LEMMA PhaseHandleWrite ==
  ASSUME NoRace, TypeOK, NEW c \in Conn, Life(c), Phase(c), aborted = "no",
         HandleWrite(c)
  PROVE  Phase(c)' /\ aborted' = "no" /\ Effect(c)
<1>1. /\ "write" \in events[c]
      /\ UNCHANGED <<state, loopOf, added, connections, timerList,
                     numConnected, queue, pc, aborted>>
  BY Zenon DEF HandleWrite
<1>2. (Closing(c)' <=> Closing(c)) /\ (Expiring(c)' <=> Expiring(c))
  BY <1>1, PcSame, Zenon
<1>3. Up(c) /\ Up(c)'
  BY <1>1, Zenon DEF Phase, Up
<1>4. Phase(c)'
  BY <1>1, <1>2, <1>3, ZenonT(60) DEF Phase
<1> QED BY <1>1, <1>3, <1>4, ZenonT(60) DEF Effect, Counted, Serving

\* Phase is kept when the delayed force close queues forceCloseInLoop
\* through its weak pointer.
LEMMA PhaseDelayedForceClose ==
  ASSUME NoRace, TypeOK, NEW c \in Conn, Life(c), Phase(c), aborted = "no",
         DelayedForceClose(c)
  PROVE  Phase(c)' /\ aborted' = "no" /\ Effect(c)
<1>1. UNCHANGED <<loopOf, events, added, connections, timerList, numConnected,
                  pc, aborted>>
  BY Zenon DEF DelayedForceClose
<1>2. (Closing(c)' <=> Closing(c)) /\ (Expiring(c)' <=> Expiring(c))
  BY <1>1, PcSame, ZenonT(30)
<1>3. CASE Alive(c) /\ Up(c)
  <2>1. queue' = Push(queue, loopOf[c], "forceCloseInLoop", c)
    BY <1>3, Zenon DEF DelayedForceClose, Up
  <2>2. state'[c] = "kDisconnecting"
    BY <1>3, Zenon DEF DelayedForceClose, Up, TypeOK
  <2>3. \A o : InQ(queue, o, c)' <=> InQ(queue, o, c) \/ o = "forceCloseInLoop"
    BY Places, <2>1, PushStep, ZenonT(30)
  <2>4. Up(c)'
    BY <2>2, Zenon DEF Up
  <2>5. Phase(c)'
    BY <1>1, <1>2, <1>3, <2>2, <2>3, <2>4, ZenonT(60) DEF Phase
  <2> QED BY <1>1, <1>3, <2>2, <2>4, <2>5, ZenonT(60) DEF Effect, Counted, Serving
<1>4. CASE ~(Alive(c) /\ Up(c))
  <2>1. UNCHANGED <<state, queue>>
    BY <1>4, Zenon DEF DelayedForceClose, Up
  <2>2. Up(c)' <=> Up(c)
    BY <2>1, Zenon DEF Up
  <2>3. Phase(c)'
    BY <1>1, <1>2, <2>1, <2>2, ZenonT(60) DEF Phase
  <2> QED BY <1>1, <1>2, <2>1, <2>2, <2>3, ZenonT(60) DEF Effect, Counted, Serving
<1> QED BY <1>3, <1>4, ZenonT(60)

\* Phase is kept when removeConnectionInLoop erases the entry and queues
\* connectDestroyed.
LEMMA PhaseRunRemoveConnection ==
  ASSUME NoRace, TypeOK, NEW c \in Conn, Life(c), Phase(c), aborted = "no",
         RunRemoveConnection(c)
  PROVE  Phase(c)' /\ aborted' = "no" /\ Effect(c)
<1> DEFINE q == Pop(queue, Base)
<1>1. /\ Runs(Base, "removeConnectionInLoop", c)
      /\ UNCHANGED <<state, loopOf, events, added, timerList, numConnected, pc>>
      /\ queue' = Push(q, loopOf[c], "connectDestroyed", c)
      /\ c \notin connections'
      /\ c \in connections => aborted' = "no"
  BY ZenonT(60) DEF RunRemoveConnection, RemoveConnectionInLoop, Rest, Pop
<1>2. /\ q \in Queues /\ InQ(queue, "removeConnectionInLoop", c)
      /\ \A o : InQ(q, o, c) => InQ(queue, o, c)
      /\ Once(queue, "removeConnectionInLoop", c) => ~InQ(q, "removeConnectionInLoop", c)
  BY Places, <1>1, PopFacts, SMTT(120) DEF Runs
<1> HIDE DEF q
<1>3. \A o : InQ(queue, o, c)' <=> InQ(q, o, c) \/ o = "connectDestroyed"
  BY Places, <1>1, <1>2, PushFacts, SMTT(120)
<1>4. (Closing(c)' <=> Closing(c)) /\ (Expiring(c)' <=> Expiring(c)) /\ (Up(c)' <=> Up(c))
  BY <1>1, PcSame, ZenonT(30) DEF Up
<1>5. state[c] = "kDisconnected" /\ c \in connections /\ ~InQ(q, "removeConnectionInLoop", c)
  BY <1>2, Zenon DEF Phase
<1>6. ~Closing(c) /\ ~Up(c)
  BY <1>2, <1>5, ZenonT(30) DEF Phase, Up
<1>7. Phase(c)'
  BY <1>1, <1>3, <1>4, <1>5, <1>6, ZenonT(60) DEF Phase
<1> QED BY <1>1, <1>4, <1>5, <1>7, ZenonT(60) DEF Effect, Counted, Serving

\* Phase is kept when HttpTimer's handler reaches an expired connection.
LEMMA PhaseOnTimer ==
  ASSUME NoRace, TypeOK, NEW c \in Conn, Life(c), Phase(c), aborted = "no",
         OnTimer(c)
  PROVE  Phase(c)' /\ aborted' = "no" /\ Effect(c)
<1>1. /\ UNCHANGED <<state, loopOf, events, added, connections, timerList,
                     numConnected, queue, aborted>>
      /\ pc[Base] = Idle /\ pc' = [pc EXCEPT ![Base] = <<"shutdown", c>>]
      /\ state[c] = "kConnected" /\ c \in timerList
  BY Zenon DEF OnTimer
<1>2. Closing(c)' <=> Closing(c)
  BY TimerPlaces, <1>1, PcTimer, ZenonT(60)
<1>3. Up(c) /\ KeepAlive
  BY TimerPlaces, <1>1, Zenon DEF Phase, Expiring, Up
<1>4. Up(c)' <=> Up(c)
  BY <1>1, Zenon DEF Up
<1>5. Phase(c)'
  BY <1>1, <1>2, <1>3, <1>4, ZenonT(60) DEF Phase
<1> QED BY <1>1, <1>2, <1>4, <1>5, ZenonT(60) DEF Effect, Counted, Serving

\* Phase is kept when shutdown tests state_ in the timer's thread.
LEMMA PhaseShutdownTest ==
  ASSUME NoRace, TypeOK, NEW c \in Conn, Life(c), Phase(c), aborted = "no",
         ShutdownTest(c)
  PROVE  Phase(c)' /\ aborted' = "no" /\ Effect(c)
<1>1. /\ UNCHANGED <<state, loopOf, events, added, connections, timerList,
                     numConnected, queue, aborted>>
      /\ \E p \in TimerPc : pc' = [pc EXCEPT ![Base] = <<p, c>>]
      /\ pc[Base] = <<"shutdown", c>>
  BY TimerPlaces, Zenon DEF ShutdownTest
<1>2. Closing(c)' <=> Closing(c)
  BY TimerPlaces, <1>1, PcTimer, ZenonT(60)
<1>3. Up(c) /\ KeepAlive
  BY TimerPlaces, <1>1, Zenon DEF Phase, Expiring, Up
<1>4. Up(c)' <=> Up(c)
  BY <1>1, Zenon DEF Up
<1>5. Phase(c)'
  BY <1>1, <1>2, <1>3, <1>4, ZenonT(60) DEF Phase
<1> QED BY <1>1, <1>2, <1>4, <1>5, ZenonT(60) DEF Effect, Counted, Serving

\* Phase is kept when shutdown sets kDisconnecting and queues shutdownInLoop.
LEMMA PhaseShutdownSet ==
  ASSUME NoRace, TypeOK, NEW c \in Conn, Life(c), Phase(c), aborted = "no",
         ShutdownSet(c)
  PROVE  Phase(c)' /\ aborted' = "no" /\ Effect(c)
<1>1. /\ UNCHANGED <<loopOf, events, added, connections, timerList,
                     numConnected, aborted>>
      /\ pc[Base] = <<"shutdownSet", c>> /\ pc' = [pc EXCEPT ![Base] = <<"delay", c>>]
  BY Zenon DEF ShutdownSet
<1>2. state'[c] = "kDisconnecting"
  BY Zenon DEF ShutdownSet, TypeOK
<1>3. Closing(c)' <=> Closing(c)
  BY TimerPlaces, <1>1, PcTimer, ZenonT(120)
<1>4. Up(c) /\ KeepAlive /\ Up(c)'
  BY TimerPlaces, <1>1, <1>2, ZenonT(30) DEF Phase, Expiring, Up
<1>5. \A o : InQ(queue, o, c)' => InQ(queue, o, c) \/ o = "shutdownInLoop"
  <2>1. queue' = queue \/ queue' = Push(queue, loopOf[c], "shutdownInLoop", c)
    BY Zenon DEF ShutdownSet
  <2> QED BY Places, <2>1, PushStep, ZenonT(30)
<1>6. Phase(c)'
  BY <1>1, <1>2, <1>3, <1>4, <1>5, ZenonT(60) DEF Phase
<1> QED BY <1>1, <1>2, <1>3, <1>4, <1>6, ZenonT(60) DEF Effect, Counted, Serving

\* Phase is kept when forceCloseWithDelay tests state_ in the timer's thread.
LEMMA PhaseDelayTest ==
  ASSUME NoRace, TypeOK, NEW c \in Conn, Life(c), Phase(c), aborted = "no",
         DelayTest(c)
  PROVE  Phase(c)' /\ aborted' = "no" /\ Effect(c)
<1>1. /\ UNCHANGED <<state, loopOf, events, added, connections, timerList,
                     numConnected, queue, aborted>>
      /\ \E v : pc' = [pc EXCEPT ![Base] = v] /\ (v = Idle \/ v = <<"delaySet", c>>)
      /\ pc[Base] = <<"delay", c>>
  BY Zenon DEF DelayTest
<1>2. Closing(c)' <=> Closing(c)
  BY TimerPlaces, <1>1, PcTimer, ZenonT(120)
<1>3. Up(c) /\ KeepAlive
  BY TimerPlaces, <1>1, ZenonT(60) DEF Phase, Expiring, Up
<1>4. Up(c)' <=> Up(c)
  BY <1>1, Zenon DEF Up
<1>5. Phase(c)'
  BY <1>1, <1>2, <1>3, <1>4, ZenonT(60) DEF Phase
<1> QED BY <1>1, <1>2, <1>4, <1>5, ZenonT(60) DEF Effect, Counted, Serving

\* Phase is kept when forceCloseWithDelay sets kDisconnecting and queues the timer.
LEMMA PhaseDelaySet ==
  ASSUME NoRace, TypeOK, NEW c \in Conn, Life(c), Phase(c), aborted = "no",
         DelaySet(c)
  PROVE  Phase(c)' /\ aborted' = "no" /\ Effect(c)
<1>1. /\ UNCHANGED <<loopOf, events, added, connections, timerList,
                     numConnected, aborted>>
      /\ pc[Base] = <<"delaySet", c>> /\ pc' = [pc EXCEPT ![Base] = Idle]
  BY Zenon DEF DelaySet
<1>2. state'[c] = "kDisconnecting"
  BY Zenon DEF DelaySet, TypeOK
<1>3. Closing(c)' <=> Closing(c)
  BY TimerPlaces, <1>1, PcTimer, Zenon
<1>4. Up(c) /\ KeepAlive /\ Up(c)'
  BY TimerPlaces, <1>1, <1>2, ZenonT(30) DEF Phase, Expiring, Up
<1>5. \A o : InQ(queue, o, c)' => InQ(queue, o, c) \/ o = "addTimerInLoop"
  <2>1. queue' = queue \/ queue' = Push(queue, loopOf[c], "addTimerInLoop", c)
    BY Zenon DEF DelaySet
  <2> QED BY Places, <2>1, PushStep, ZenonT(30)
<1>6. Phase(c)'
  BY <1>1, <1>2, <1>3, <1>4, <1>5, ZenonT(60) DEF Phase
<1> QED BY <1>1, <1>2, <1>3, <1>4, <1>6, ZenonT(60) DEF Effect, Counted, Serving

\* Phase is kept when connectEstablished runs in the connection's loop.
LEMMA PhaseConnectEstablished ==
  ASSUME NoRace, TypeOK, NEW c \in Conn, Life(c), Phase(c), aborted = "no",
         NEW l \in Loop, ConnectEstablished(l, c)
  PROVE  Phase(c)' /\ aborted' = "no" /\ Effect(c)
<1>1. /\ Runs(l, "connectEstablished", c) /\ Establish(c)
      /\ queue' = Pop(queue, l) /\ UNCHANGED <<loopOf, connections, pc>>
      /\ state[c] = "kConnecting" => aborted' = "no"
  BY Zenon DEF ConnectEstablished, Rest, Pop
<1>2. /\ InQ(queue, "connectEstablished", c)
      /\ \A o : InQ(queue, o, c)' => InQ(queue, o, c)
  BY <1>1, PopStep, ZenonT(30)
<1>3. state[c] = "kConnecting" /\ c \in connections'
  BY <1>1, <1>2, ZenonT(30) DEF Life
<1> QED BY <1>1, <1>2, <1>3, PhaseEstablish, ZenonT(30)

\* Phase is kept when connectDestroyed runs and its functor drops the last
\* reference.
LEMMA PhaseConnectDestroyed ==
  ASSUME NoRace, TypeOK, NEW c \in Conn, Life(c), Phase(c), aborted = "no",
         NEW l \in Loop, ConnectDestroyed(l, c)
  PROVE  Phase(c)' /\ aborted' = "no" /\ Effect(c)
<1>1. /\ Runs(l, "connectDestroyed", c) /\ queue' = Pop(queue, l)
      /\ UNCHANGED <<state, loopOf, events, connections, timerList,
                     numConnected, pc>>
      /\ events[c] = {} => aborted' = "no"
  BY Zenon DEF ConnectDestroyed, Rest, Pop
<1>2. ~added'[c]
  BY Zenon DEF ConnectDestroyed, TypeOK
<1>3. /\ InQ(queue, "connectDestroyed", c)
      /\ \A o : InQ(queue, o, c)' => InQ(queue, o, c)
      /\ \A o : Once(queue, o, c) => Once(queue, o, c)'
  BY <1>1, PopStep, ZenonT(30)
<1>4. (Closing(c)' <=> Closing(c)) /\ (Expiring(c)' <=> Expiring(c)) /\ (Up(c)' <=> Up(c))
  BY <1>1, PcSame, ZenonT(30) DEF Up
<1>5. ~Up(c) /\ events[c] = {}
  BY <1>3, ZenonT(30) DEF Phase, Up
<1>6. Phase(c)'
  BY <1>1, <1>2, <1>3, <1>4, <1>5, ZenonT(60) DEF Phase
<1> QED BY <1>1, <1>4, <1>5, <1>6, ZenonT(30) DEF Effect, Counted, Serving

\* Phase is kept when shutdownInLoop sends the FIN unless output is waiting.
LEMMA PhaseRunShutdownInLoop ==
  ASSUME NoRace, TypeOK, NEW c \in Conn, Life(c), Phase(c), aborted = "no",
         NEW l \in Loop, RunShutdownInLoop(l, c)
  PROVE  Phase(c)' /\ aborted' = "no" /\ Effect(c)
<1>1. /\ Runs(l, "shutdownInLoop", c) /\ queue' = Pop(queue, l)
      /\ UNCHANGED <<state, loopOf, events, added, connections, timerList,
                     numConnected, pc, aborted>>
  BY Zenon DEF RunShutdownInLoop, Rest, Pop
<1>2. /\ \A o : InQ(queue, o, c)' => InQ(queue, o, c)
      /\ \A o : o # "shutdownInLoop" /\ InQ(queue, o, c) => InQ(queue, o, c)'
      /\ \A o : Once(queue, o, c) => Once(queue, o, c)'
  BY <1>1, PopStep, ZenonT(30)
<1>3. (Closing(c)' <=> Closing(c)) /\ (Expiring(c)' <=> Expiring(c)) /\ (Up(c)' <=> Up(c))
  BY <1>1, PcSame, ZenonT(30) DEF Up
<1>4. Phase(c)'
  BY <1>1, <1>2, <1>3, ZenonT(120) DEF Phase
<1> QED BY <1>1, <1>3, <1>4, ZenonT(60) DEF Effect, Counted, Serving

\* Phase is kept when addTimerInLoop enters the delayed force close.
LEMMA PhaseRunAddTimer ==
  ASSUME NoRace, TypeOK, NEW c \in Conn, Life(c), Phase(c), aborted = "no",
         NEW l \in Loop, RunAddTimer(l, c)
  PROVE  Phase(c)' /\ aborted' = "no" /\ Effect(c)
<1>1. /\ Runs(l, "addTimerInLoop", c) /\ queue' = Pop(queue, l)
      /\ UNCHANGED <<state, loopOf, events, added, connections, timerList,
                     numConnected, pc, aborted>>
  BY Zenon DEF RunAddTimer, Rest, Pop
<1>2. /\ \A o : InQ(queue, o, c)' => InQ(queue, o, c)
      /\ \A o : o # "addTimerInLoop" /\ InQ(queue, o, c) => InQ(queue, o, c)'
      /\ \A o : Once(queue, o, c) => Once(queue, o, c)'
  BY <1>1, PopStep, ZenonT(30)
<1>3. (Closing(c)' <=> Closing(c)) /\ (Expiring(c)' <=> Expiring(c)) /\ (Up(c)' <=> Up(c))
  BY <1>1, PcSame, ZenonT(30) DEF Up
<1>4. Phase(c)'
  BY <1>1, <1>2, <1>3, ZenonT(30) DEF Phase
<1> QED BY <1>1, <1>3, <1>4, ZenonT(60) DEF Effect, Counted, Serving

\* Phase is kept when forceCloseInLoop closes a connection that is still up.
LEMMA PhaseRunForceCloseInLoop ==
  ASSUME NoRace, TypeOK, NEW c \in Conn, Life(c), Phase(c), aborted = "no",
         NEW l \in Loop, RunForceCloseInLoop(l, c)
  PROVE  Phase(c)' /\ aborted' = "no" /\ Effect(c)
<1>1. /\ Runs(l, "forceCloseInLoop", c) /\ queue' = Pop(queue, l)
      /\ UNCHANGED <<loopOf, added, connections, timerList, numConnected>>
  BY Zenon DEF RunForceCloseInLoop, Rest, Pop
<1>2. /\ \A o : InQ(queue, o, c)' => InQ(queue, o, c)
      /\ \A o : o # "forceCloseInLoop" /\ InQ(queue, o, c) => InQ(queue, o, c)'
      /\ \A o : Once(queue, o, c) => Once(queue, o, c)'
  BY <1>1, PopStep, ZenonT(30)
<1>3. CASE Up(c)
  <2>1. HandleClose(c)
    BY <1>3, Zenon DEF RunForceCloseInLoop, Up
  <2> QED BY <1>1, <1>2, <1>3, <2>1, PhaseClose, ZenonT(60)
<1>4. CASE ~Up(c)
  <2>1. UNCHANGED <<state, events, pc, aborted>>
    BY <1>4, Zenon DEF RunForceCloseInLoop, Up
  <2>2. (Closing(c)' <=> Closing(c)) /\ (Expiring(c)' <=> Expiring(c)) /\ (Up(c)' <=> Up(c))
    BY <1>1, <2>1, PcSame, ZenonT(30) DEF Up
  <2>3. Phase(c)'
    BY <1>1, <1>2, <2>1, <2>2, ZenonT(30) DEF Phase
  <2> QED BY <1>1, <2>1, <2>2, <2>3, ZenonT(60) DEF Effect, Counted, Serving
<1> QED BY <1>3, <1>4, ZenonT(30)

\* Phase is kept when the connection callback counts a disconnection.
LEMMA PhaseOnDisconnected ==
  ASSUME NoRace, TypeOK, NEW c \in Conn, Life(c), Phase(c), aborted = "no",
         NEW l \in Loop, OnDisconnected(l, c)
  PROVE  Phase(c)' /\ aborted' = "no" /\ Effect(c)
<1>1. /\ UNCHANGED <<state, loopOf, events, added, connections, timerList,
                     numConnected, queue, aborted>>
      /\ pc[l] = <<"closed", c>> /\ pc' = [pc EXCEPT ![l] = <<"down", c>>]
  BY Zenon DEF OnDisconnected
<1>2. Closing(c) /\ Closing(c)' /\ (Expiring(c)' => Expiring(c))
  BY <1>1, PcDown, Zenon
<1>3. Up(c)' <=> Up(c)
  BY <1>1, Zenon DEF Up
<1>4. Phase(c)'
  BY <1>1, <1>2, <1>3, ZenonT(30) DEF Phase
<1> QED BY <1>1, <1>2, <1>4, ZenonT(30) DEF Effect, Counted, Serving

\* Phase is kept when the connection callback finds the connection not disconnected.
LEMMA PhaseOnNotDisconnected ==
  ASSUME NoRace, TypeOK, NEW c \in Conn, Life(c), Phase(c), aborted = "no",
         NEW l \in Loop, OnNotDisconnected(l, c)
  PROVE  Phase(c)' /\ aborted' = "no" /\ Effect(c)
<1>1. Closing(c) /\ state[c] # "kDisconnected"
  BY Zenon DEF OnNotDisconnected, Closing
<1> QED BY <1>1, ZenonT(30) DEF Phase

\* Phase is kept when handleClose's last part hands the connection to
\* TcpServer for removal.
LEMMA PhaseOnDown ==
  ASSUME NoRace, TypeOK, NEW c \in Conn, Life(c), Phase(c), aborted = "no",
         NEW l \in Loop, OnDown(l, c)
  PROVE  Phase(c)' /\ aborted' = "no" /\ Effect(c)
<1>1. /\ pc[l] = <<"down", c>> /\ pc' = [pc EXCEPT ![l] = Idle]
      /\ UNCHANGED <<state, loopOf, events, added, timerList>>
      /\ numConnected' = numConnected - 1
  BY Zenon DEF OnDown, CloseCallback
<1>2. Closing(c) /\ (Expiring(c)' => Expiring(c)) /\ ~Closing(c)'
  BY <1>1, PcDone, ZenonT(120) DEF Life
<1>3. /\ state[c] = "kDisconnected" /\ c \in connections
      /\ ~InQ(queue, "removeConnectionInLoop", c) /\ ~InQ(queue, "connectDestroyed", c)
  BY <1>2, ZenonT(30) DEF Phase
<1>4. ~Up(c) /\ ~Up(c)'
  BY <1>1, <1>3, ZenonT(30) DEF Up
<1>5. Effect(c)
  BY <1>1, <1>2, <1>3, <1>4, ZenonT(30) DEF Effect, Counted, Serving
<1>6. CloseCallback(queue, l, c)
  BY <1>3, Zenon DEF OnDown
<1>7. CASE l = Base
  <2>1. /\ c \notin connections' /\ aborted' = "no"
        /\ queue' = Push(queue, loopOf[c], "connectDestroyed", c)
    BY <1>3, <1>6, <1>7, ZenonT(60) DEF CloseCallback, RemoveConnectionInLoop
  <2>2. \A o : InQ(queue, o, c)' <=> InQ(queue, o, c) \/ o = "connectDestroyed"
    BY Places, <2>1, PushStep, ZenonT(30)
  <2>3. Phase(c)'
    BY <1>1, <1>2, <1>3, <1>4, <2>1, <2>2, ZenonT(120) DEF Phase
  <2> QED BY <1>5, <2>1, <2>3, ZenonT(30)
<1>8. CASE l # Base
  <2>1. /\ connections' = connections /\ aborted' = "no"
        /\ queue' = Push(queue, Base, "removeConnectionInLoop", c)
    BY <1>6, <1>8, ZenonT(30) DEF CloseCallback
  <2>2. /\ \A o : InQ(queue, o, c)' <=> InQ(queue, o, c) \/ o = "removeConnectionInLoop"
        /\ Once(queue, "removeConnectionInLoop", c)'
    <3>1. Base \in Loop /\ "removeConnectionInLoop" \in Op
      BY Places, Zenon
    <3>2. ~InQ(queue, "removeConnectionInLoop", c)
      BY <1>3, ZenonT(30)
    <3> QED BY <2>1, <3>1, <3>2, PushStep, ZenonT(60)
  <2>3. Phase(c)'
    BY <1>1, <1>2, <1>3, <1>4, <2>1, <2>2, ZenonT(120) DEF Phase
  <2> QED BY <1>5, <2>1, <2>3, ZenonT(30)
<1> QED BY <1>7, <1>8, ZenonT(30)

\* Every step keeps the stages of its own connection, passes the assertions it
\* meets, and counts rightly.
LEMMA PhaseStep ==
  ASSUME NoRace, TypeOK, NEW c \in Conn, Life(c), Phase(c), aborted = "no",
         ConnStep(c)
  PROVE  Phase(c)' /\ aborted' = "no" /\ Effect(c)
BY PhaseNewConnection, PhaseHandleRead, PhaseHandleHangup, PhaseHandleWrite,
   PhaseDelayedForceClose, PhaseRunRemoveConnection, PhaseOnTimer,
   PhaseShutdownTest, PhaseShutdownSet, PhaseDelayTest, PhaseDelaySet,
   PhaseConnectEstablished, PhaseConnectDestroyed, PhaseRunShutdownInLoop,
   PhaseRunAddTimer, PhaseRunForceCloseInLoop, PhaseOnDisconnected,
   PhaseOnNotDisconnected, PhaseOnDown, ZenonT(60)
DEF ConnStep, TimerStep, LoopStep

\* The count stays exact when one connection is counted in, out or neither.
LEMMA CountStep ==
  ASSUME Count, NEW c \in Conn, Effect(c),
         \A d \in Conn : d # c => (d \in Counted' <=> d \in Counted)
                                  /\ (d \in Serving' <=> d \in Serving)
  PROVE  Count'
<1>t. /\ Counted \subseteq Conn /\ Counted' \subseteq Conn
      /\ Serving \subseteq Counted /\ Serving' \subseteq Counted'
  BY Zenon DEF Counted, Serving, Up
<1>n. /\ IsFiniteSet(Counted) /\ numConnected = Cardinality(Counted)
      /\ Cardinality(Serving) <= MaxConnections
  BY Zenon DEF Count
<1>s. /\ IsFiniteSet(Serving) /\ Cardinality(Serving) \in Nat
      /\ Cardinality(Counted) \in Nat /\ MaxConnections \in Nat
  BY <1>t, <1>n, FS_Subset, FS_CardinalityType, TcpServerConstants, ZenonT(60)
<1>d. \A d \in Conn : d # c => /\ d \in Counted' <=> d \in Counted
                               /\ d \in Serving' <=> d \in Serving
  BY Zenon
<1> SUFFICES /\ IsFiniteSet(Counted') /\ numConnected' = Cardinality(Counted')
             /\ Cardinality(Serving') <= MaxConnections
  BY Zenon DEF Count
<1>1. CASE /\ numConnected' = numConnected
           /\ c \in Counted' <=> c \in Counted
           /\ c \in Serving' => c \in Serving
  <2>1. Counted' = Counted
    <3>1. \A d \in Conn : d \in Counted' <=> d \in Counted
      BY <1>1, <1>d, ZenonT(30)
    <3> QED BY <1>t, <3>1, ZenonT(30)
  <2>2. Serving' \subseteq Serving
    BY <1>1, <1>t, <1>d, <2>1, ZenonT(60)
  <2>3. Cardinality(Serving') <= Cardinality(Serving) /\ Cardinality(Serving') \in Nat
    BY <1>s, <2>2, FS_Subset, FS_CardinalityType, ZenonT(30)
  <2> QED BY <1>1, <1>n, <1>s, <2>1, <2>3, SMTT(120)
<1>2. CASE /\ numConnected' = numConnected + 1
           /\ c \notin Counted /\ c \in Counted'
           /\ c \in Serving' => numConnected + 1 <= MaxConnections
  <2>1. Counted' = Counted \cup {c}
    BY <1>2, <1>t, <1>d, ZenonT(30)
  <2>2. IsFiniteSet(Counted') /\ Cardinality(Counted') = Cardinality(Counted) + 1
    BY <1>2, <1>n, <2>1, FS_AddElement, ZenonT(60)
  <2>3. CASE c \in Serving'
    <3>1. Cardinality(Serving') <= Cardinality(Counted') /\ Cardinality(Serving') \in Nat
      BY <1>t, <2>2, FS_Subset, FS_CardinalityType, ZenonT(60)
    <3> QED BY <1>2, <1>n, <1>s, <2>2, <2>3, <3>1, SMTT(120)
  <2>4. CASE c \notin Serving'
    <3>1. Serving' \subseteq Serving
      BY <1>t, <1>d, <2>4, ZenonT(60)
    <3>2. Cardinality(Serving') <= Cardinality(Serving) /\ Cardinality(Serving') \in Nat
      BY <1>s, <3>1, FS_Subset, FS_CardinalityType, Zenon
    <3> QED BY <1>2, <1>n, <1>s, <2>2, <3>2, SMTT(60)
  <2> QED BY <2>3, <2>4, ZenonT(30)
<1>3. CASE /\ numConnected' = numConnected - 1
           /\ c \in Counted /\ c \notin Counted'
           /\ c \notin Serving'
  <2>1. Counted' = Counted \ {c}
    BY <1>3, <1>t, <1>d, ZenonT(30)
  <2>2. IsFiniteSet(Counted') /\ Cardinality(Counted') = Cardinality(Counted) - 1
    BY <1>3, <1>n, <2>1, FS_RemoveElement, ZenonT(60)
  <2>3. Serving' \subseteq Serving
    BY <1>t, <1>d, <1>3, ZenonT(60)
  <2>4. Cardinality(Serving') <= Cardinality(Serving) /\ Cardinality(Serving') \in Nat
    BY <1>s, <2>3, FS_Subset, FS_CardinalityType, Zenon
  <2> QED BY <1>3, <1>n, <1>s, <2>2, <2>4, SMTT(60)
<1> QED BY <1>1, <1>2, <1>3, ZenonT(30) DEF Effect

\* Nothing is counted, queued or being closed at the start.
LEMMA InitCInv ==
  ASSUME Init
  PROVE  CInv
<1>1. IInv /\ aborted = "no"
  BY InitIInv, Zenon DEF Init
<1>2. ASSUME NEW c \in Conn PROVE Phase(c) /\ c \notin Counted /\ c \notin Serving
  <2>1. /\ state[c] = "none" /\ events[c] = {} /\ c \notin timerList
        /\ \A l \in Loop : queue[l] = <<>> /\ pc[l] = Idle
    BY Zenon DEF Init
  <2>2. \A op : ~InQ(queue, op, c)
    BY <2>1, SMTT(30) DEF InQ, Range
  <2>3. ~Closing(c) /\ ~Expiring(c)
    <3>1. \A l \in Loop : \A p : pc[l] # <<p, c>>
      BY PcDistinct, Zenon DEF Init
    <3> QED BY <3>1, ZenonT(60) DEF Closing, Expiring, Loop
  <2> QED BY <2>1, <2>2, <2>3, ZenonT(60) DEF Phase, Up, Counted, Serving
<1>3. Counted = {} /\ Serving = {} /\ numConnected = 0
  BY <1>2, Zenon DEF Counted, Serving, Init
<1>4. Count
  BY <1>3, FS_EmptySet, TcpServerConstants, SMTT(60) DEF Count
<1> QED BY <1>1, <1>2, <1>4, ZenonT(30) DEF CInv

\* Every step keeps it, as long as the idle timer shares the loop.
LEMMA StepCInv ==
  ASSUME NoRace, CInv, [Next]_vars
  PROVE  CInv'
<1>i. IInv'
  BY StepIInv, Zenon DEF CInv
<1>1. CASE UNCHANGED vars
  <2>1. ASSUME NEW d \in Conn PROVE Same(d)
    BY <1>1, Zenon DEF Same, SameQ, vars
  <2>2. \A d \in Conn : Phase(d)' /\ (d \in Counted' <=> d \in Counted)
                                  /\ (d \in Serving' <=> d \in Serving)
    BY <2>1, PhaseFrame, ZenonT(30) DEF CInv
  <2>3. Counted' = Counted /\ Serving' = Serving
    BY <2>2, Zenon DEF Counted, Serving
  <2>4. numConnected' = numConnected /\ aborted' = aborted
    BY <1>1, Zenon DEF vars
  <2> QED BY <1>i, <2>2, <2>3, <2>4, ZenonT(60) DEF CInv, Count
<1>2. CASE Next
  <2>1. PICK c \in Conn : ConnStep(c)
    BY <1>2, Zenon DEF Next
  <2>2. Phase(c)' /\ aborted' = "no" /\ Effect(c)
    BY <2>1, PhaseStep, Zenon DEF CInv, IInv
  <2>3. ASSUME NEW d \in Conn, d # c
        PROVE  Phase(d)' /\ (d \in Counted' <=> d \in Counted) /\ (d \in Serving' <=> d \in Serving)
    <3>1. Home(queue, c)
      BY Zenon DEF CInv, IInv, Life
    <3>2. Same(d)
      BY <2>1, <2>3, <3>1, StepFrame, ZenonT(60) DEF CInv, IInv
    <3> QED BY <3>2, PhaseFrame, ZenonT(30) DEF CInv
  <2>4. Count'
    BY <2>2, <2>3, CountStep, ZenonT(30) DEF CInv
  <2> QED BY <1>i, <2>2, <2>3, <2>4, ZenonT(60) DEF CInv
<1> QED BY <1>1, <1>2, Zenon

\* CInv is an invariant when the idle timer does not race with an I/O loop.
LEMMA CInvariant ==
  ASSUME NoRace
  PROVE  Spec => []CInv
<1>1. Init => CInv
  BY InitCInv, Zenon
<1>2. CInv /\ [Next]_vars => CInv'
  BY StepCInv, Zenon
<1> QED BY <1>1, <1>2, PTL DEF Spec

\* For any connections, loops and limit, when the idle timer does not race with
\* an I/O loop: no assertion of connectEstablished, handleClose,
\* connectDestroyed or removeConnectionInLoop fails.
THEOREM AssertionsHold ==
  ASSUME NoRace
  PROVE  Spec => []NoAssertFails
<1>1. CInv => NoAssertFails
  BY Zenon DEF CInv, NoAssertFails
<1>2. Spec => []CInv
  BY CInvariant, ZenonT(60)
<1> QED BY <1>1, <1>2, PTL

\* Under the same condition: the last shared_ptr to a connection goes only
\* after it is down and connectDestroyed has taken its channel out.
THEOREM CleanDestruction ==
  ASSUME NoRace
  PROVE  Spec => []DestroyedClean
<1>1. CInv => DestroyedClean
  <2>1. SUFFICES ASSUME CInv, NEW c \in Conn, state[c] # "none", ~Alive(c)
                 PROVE  state[c] = "kDisconnected" /\ ~added[c]
    BY Zenon DEF DestroyedClean
  <2>2. c \notin connections /\ ~InQ(queue, "removeConnectionInLoop", c)
        /\ ~InQ(queue, "connectDestroyed", c)
    BY <2>1, Zenon DEF Alive, Queued, InQ, StrongOps
  <2>3. ~Closing(c)
    BY <2>1, PcDistinct, SMTT(120) DEF Alive, Closing
  <2>4. state[c] = "kDisconnected"
    BY <2>1, <2>2, ZenonT(60) DEF CInv, IInv, TypeOK, State, Life, Phase, Up
  <2> QED BY <2>1, <2>2, <2>3, <2>4, ZenonT(60) DEF CInv, Phase
<1>2. Spec => []CInv
  BY CInvariant, Zenon
<1> QED BY <1>1, <1>2, PTL

\* Under the same condition: numConnected_ is the number of connections that
\* are up or not yet counted out, and no more than kMaxConnections_ are served.
THEOREM CountHolds ==
  ASSUME NoRace
  PROVE  Spec => []CountExact
<1>1. CInv => CountExact
  BY Zenon DEF CInv, Count, Counted, Serving, Up, Closing, CountExact
<1>2. Spec => []CInv
  BY CInvariant, Zenon
<1> QED BY <1>1, <1>2, PTL
=============================================================================
