-------------------------- MODULE TimerQueue_proofs --------------------------
(***************************************************************************)
(* The three safety properties of the timer queue, for any set of heap     *)
(* addresses, any delays and any number of timers.                         *)
(*                                                                         *)
(* OwnedOnce needs to know that a sequence number is never used twice      *)
(* (Numbered), as addresses are.  CancelSticks speaks of the time between  *)
(* two batches; what carries it through a batch is that a canceled timer   *)
(* is in neither set, and that one canceled from a callback of the batch   *)
(* it expired in is in cancelingTimers_ until reset looks (CancelKept).    *)
(* Armed is compared with every timer instead of the earliest (ArmedAll).  *)
(***************************************************************************)
EXTENDS TimerQueue, FiniteSetTheorems,
        NaturalsInduction, WellFoundedInduction, TLAPS

Timer == [seq : Nat, due : 0..MaxDelay, interval : 0..MaxDelay]

\* The types of the queue's members and of the history variables.
TypeOK ==
  /\ heap \in [Addr -> Timer]
  /\ flight \in SUBSET Addr
  /\ timers \in SUBSET ((0..MaxDelay) \X Addr)
  /\ activeTimers \in SUBSET (Addr \X Nat)
  /\ callingExpired \in BOOLEAN
  /\ canceling \in SUBSET (Addr \X Nat)
  /\ expired \in SUBSET Addr
  /\ toRun \in SUBSET expired
  /\ elapsed \in Nat
  /\ timerfd \in 0..Disarmed
  /\ issued \in SUBSET (Addr \X Nat)
  /\ canceled \in SUBSET Nat
  /\ ~callingExpired => expired = {}

\* Sequence numbers are given out once, and a live timer has the one it got.
Numbered ==
  /\ IsFiniteSet(issued)
  /\ \A x \in issued : x[2] \in 1..Created
  /\ \A x, y \in issued : x[2] = y[2] => x = y
  /\ canceled \subseteq 1..Created
  /\ \A a \in Addr : heap[a] # Free => <<a, heap[a].seq>> \in issued

\* OwnedOnce, said of each address.
Owned ==
  /\ \A e \in timers :
       /\ heap[e[2]].due = e[1] /\ <<e[2], heap[e[2]].seq>> \in activeTimers
       /\ e[2] \notin flight /\ e[2] \notin expired
  /\ \A x \in activeTimers :
       heap[x[1]].seq = x[2] /\ <<heap[x[1]].due, x[1]>> \in timers
  /\ flight \cap expired = {}
  /\ \A a \in Addr :
       heap[a] # Free <=> a \in flight \/ a \in expired \/ <<heap[a].due, a>> \in timers

CancelKept ==
  /\ \A x \in activeTimers : x[2] \notin canceled
  /\ \A a \in flight : heap[a].seq \notin canceled
  /\ \A a \in expired : heap[a].seq \in canceled => <<a, heap[a].seq>> \in canceling

ArmedAll ==
  ~callingExpired => \A e \in timers : timerfd <= Arm(e[1])

IInv == TypeOK /\ Numbered /\ Owned /\ CancelKept /\ ArmedAll

USE TimerConstants

\* Every non-empty set of naturals has a least element.
LEMMA NatMin ==
  ASSUME NEW T \in SUBSET Nat, T # {}
  PROVE  \E m \in T : \A k \in T : m <= k
<1> DEFINE R == {ss \in Nat \X Nat : ss[1] < ss[2]}
<1>1. IsWellFoundedOn(R, Nat)
  BY NatLessThanWellFounded DEF OpToRel
<1> HIDE DEF R
<1>2. PICK m \in T : \A k \in T : ~(<<k, m>> \in R)
  BY <1>1, WFMin, Zenon
<1>3. \A k \in T : ~(k < m)
  BY <1>2, Zenon DEF R
<1> QED BY <1>3, SMT

\* Earliest returns the expiration of a queued timer, and the smallest one.
LEMMA EarliestLeast ==
  ASSUME NEW ts \in SUBSET ((0..MaxDelay) \X Addr), ts # {}
  PROVE  /\ Earliest(ts) \in 0..MaxDelay
         /\ \E e \in ts : Earliest(ts) = e[1]
         /\ \A e \in ts : Earliest(ts) <= e[1]
<1> DEFINE D == {e[1] : e \in ts}
<1>1. D \in SUBSET Nat /\ D # {}
  OBVIOUS
<1>2. \E m \in D : \A k \in D : m <= k
  BY <1>1, NatMin, Zenon
<1>3. Earliest(ts) = Min(D)
  BY DEF Earliest
<1> HIDE DEF D
<1>4. Min(D) \in D /\ \A k \in D : Min(D) <= k
  BY <1>2 DEF Min
<1> USE DEF D
<1>5. PICK e \in ts : Min(D) = e[1]
  BY <1>4
<1>6. e[1] \in 0..MaxDelay
  OBVIOUS
<1>7. \A x \in ts : x[1] \in D
  OBVIOUS
<1> HIDE DEF D
<1> QED BY <1>3, <1>4, <1>5, <1>6, <1>7

\* Where time stands and where the timerfd is armed.
LEMMA TimeTypes ==
  /\ \A n \in 0..MaxDelay : Less(n) \in 0..MaxDelay /\ Arm(n) \in 1..MaxDelay
  /\ \A n \in 0..Disarmed : Less(n) \in 0..Disarmed
  /\ \A m, n \in 0..MaxDelay : m <= n => Arm(m) <= Arm(n)
BY DEF Less, Arm, Disarmed

\* The constructor's state satisfies the invariant.
LEMMA InitIInv == Init => IInv
<1> SUFFICES ASSUME Init PROVE IInv
  OBVIOUS
<1>1. TypeOK
  <2>1. Free \in Timer
    BY DEF Free, Timer
  <2>2. heap \in [Addr -> Timer]
    BY <2>1 DEF Init
  <2>3. elapsed \in Nat /\ timerfd \in 0..Disarmed
    BY DEF Init, Disarmed
  <2> QED BY <2>2, <2>3, Zenon DEF Init, TypeOK
<1>2. Numbered
  BY FS_EmptySet DEF Init, Numbered, Created
<1> QED BY <1>1, <1>2 DEF Init, IInv, Owned, CancelKept, ArmedAll

-----------------------------------------------------------------------------
\* Every step keeps the types.
LEMMA TypeStep == TypeOK /\ Numbered /\ [Next]_vars => TypeOK'
<1> SUFFICES ASSUME TypeOK, Numbered, [Next]_vars PROVE TypeOK'
  OBVIOUS
<1>c. Created \in Nat
  BY FS_CardinalityType DEF Numbered, Created
<1>a. Free \in Timer
  BY DEF Free, Timer
<1>b. ASSUME NEW t \in Timer, NEW d \in 0..MaxDelay
      PROVE  [t EXCEPT !.due = d] \in Timer
  BY DEF Timer
<1>1. ASSUME NEW a \in Addr, NEW due \in 0..MaxDelay, NEW interval \in Intervals,
             AddTimer(a, due, interval)
      PROVE  TypeOK'
  <2>1. [seq |-> Created + 1, due |-> due, interval |-> interval] \in Timer
    BY <1>c DEF Timer
  <2>2. heap' \in [Addr -> Timer]
    BY <1>1, <2>1 DEF AddTimer, TypeOK
  <2>3. issued' \in SUBSET (Addr \X Nat)
    BY <1>1, <1>c DEF AddTimer, TypeOK
  <2> QED BY <1>1, <2>2, <2>3 DEF AddTimer, TypeOK, batch, Disarmed
<1>2. ASSUME NEW a \in Addr, AddTimerInLoop(a) PROVE TypeOK'
  <2>1. heap[a].due \in 0..MaxDelay /\ heap[a].seq \in Nat
    BY DEF TypeOK, Timer
  <2>2. timerfd' \in 0..Disarmed
    BY <1>2, <2>1, TimeTypes DEF AddTimerInLoop, TypeOK, Disarmed
  <2> QED BY <1>2, <2>1, <2>2 DEF AddTimerInLoop, TypeOK, batch, history
<1>3. ASSUME NEW id \in issued, CancelInLoop(id) PROVE TypeOK'
  <2>1. id[1] \in Addr /\ id[2] \in Nat /\ id \in Addr \X Nat
    BY DEF TypeOK
  <2>2. heap' \in [Addr -> Timer]
    BY <1>3, <2>1, <1>a DEF CancelInLoop, TypeOK
  <2> QED BY <1>3, <2>1, <2>2, Zenon DEF CancelInLoop, TypeOK
<1>4. CASE HandleRead
  <2>1. expired' \in SUBSET Addr
    BY <1>4 DEF HandleRead, TypeOK
  <2> QED BY <1>4, <2>1 DEF HandleRead, TypeOK, history, Disarmed
<1>5. ASSUME NEW a \in Addr, RunTimer(a) PROVE TypeOK'
  BY <1>5 DEF RunTimer, TypeOK, sets
<1>6. CASE Reset
  <2>1. \A a \in Addr : NextDue(a) \in 0..MaxDelay /\ heap[a] \in Timer
                        /\ heap[a].seq \in Nat
    BY DEF TypeOK, Timer, NextDue
  <2>2. heap' \in [Addr -> Timer]
    BY <1>6, <1>a, <1>b, <2>1 DEF Reset
  <2>3. timers' \in SUBSET ((0..MaxDelay) \X Addr)
    BY <1>6, <2>1 DEF Reset, TypeOK
  <2>4. activeTimers' \in SUBSET (Addr \X Nat)
    BY <1>6, <2>1 DEF Reset, TypeOK
  <2>5. timerfd' \in 0..Disarmed
    <3>1. CASE timers' = {}
      BY <1>6, <3>1 DEF Reset, TypeOK
    <3>2. CASE timers' # {}
      <4>1. Arm(Earliest(timers')) \in 1..MaxDelay
        BY <2>3, <3>2, EarliestLeast, TimeTypes, Zenon
      <4> QED BY <1>6, <3>2, <4>1 DEF Reset, Disarmed
    <3> QED BY <3>1, <3>2
  <2> QED BY <1>6, <2>2, <2>3, <2>4, <2>5, Zenon DEF Reset, TypeOK, history
<1>7. CASE Tick
  <2>1. heap' \in [Addr -> Timer]
    <3>1. ASSUME NEW a \in Addr
          PROVE  heap[a] \in Timer /\ Less(heap[a].due) \in 0..MaxDelay
      BY TimeTypes DEF TypeOK, Timer
    <3> QED BY <1>7, <1>b, <3>1 DEF Tick
  <2>2. timers' \in SUBSET ((0..MaxDelay) \X Addr)
    BY <1>7, TimeTypes DEF Tick, TypeOK
  <2>3. timerfd' \in 0..Disarmed
    BY <1>7, TimeTypes DEF Tick, TypeOK, Disarmed
  <2> QED BY <1>7, <2>1, <2>2, <2>3 DEF Tick, TypeOK, history
<1>8. CASE UNCHANGED vars
  BY <1>8 DEF TypeOK, vars, sets, batch, history, Disarmed
<1> QED BY <1>1, <1>2, <1>3, <1>4, <1>5, <1>6, <1>7, <1>8 DEF Next, HandleReadStep

\* A sequence number is above zero, which is what a free address has.
LEMMA LiveNumbered ==
  ASSUME TypeOK, Numbered
  PROVE  /\ Created \in Nat
         /\ \A b \in Addr : heap[b] # Free => heap[b].seq # 0
<1>1. Created \in Nat
  BY FS_CardinalityType DEF Numbered, Created
<1>2. \A b \in Addr : heap[b].seq \in Nat
  BY DEF TypeOK, Timer
<1>3. \A b \in Addr : heap[b] # Free => <<b, heap[b].seq>>[2] \in 1..Created
  BY Zenon DEF Numbered
<1> QED BY <1>1, <1>2, <1>3

\* What a tick does to the timer at an address.
LEMMA TickHeap ==
  ASSUME TypeOK, Numbered, Tick, NEW b \in Addr
  PROVE  /\ heap'[b].seq = heap[b].seq
         /\ heap'[b].due = Less(heap[b].due)
         /\ heap'[b] = Free <=> heap[b] = Free
<1>1. heap[b] \in Timer /\ heap'[b] = [heap[b] EXCEPT !.due = Less(heap[b].due)]
  BY DEF Tick, TypeOK
<1>2. Less(0) = 0
  BY DEF Less
<1>3. heap[b] # Free => heap[b].seq # 0
  BY LiveNumbered
<1> QED BY <1>1, <1>2, <1>3 DEF Timer, Free

\* What reset does to the timer at an address.
LEMMA ResetHeap ==
  ASSUME TypeOK, Reset, NEW b \in Addr
  PROVE  /\ b \notin expired => heap'[b] = heap[b]
         /\ b \in expired /\ ~Restarts(b) => heap'[b] = Free
         /\ b \in expired /\ Restarts(b) =>
              /\ heap'[b].seq = heap[b].seq
              /\ heap'[b].due = NextDue(b) /\ NextDue(b) \in 0..MaxDelay
              /\ heap'[b] # Free /\ heap[b] # Free
<1>1. heap[b] \in Timer /\ NextDue(b) \in 0..MaxDelay
  BY DEF TypeOK, Timer, NextDue
<1>2. b \in expired /\ Restarts(b) =>
        heap'[b] = [heap[b] EXCEPT !.due = NextDue(b)] /\ heap[b].interval > 0
  BY DEF Reset, Restarts
<1>3. b \in expired /\ Restarts(b) =>
        /\ heap'[b].seq = heap[b].seq /\ heap'[b].due = NextDue(b)
        /\ heap'[b] # Free /\ heap[b] # Free
  BY <1>1, <1>2 DEF Timer, Free
<1> QED BY <1>1, <1>3 DEF Reset

\* Every step keeps Numbered: a new timer gets a number above all others.
LEMMA NumberedStep == TypeOK /\ Numbered /\ [Next]_vars => Numbered'
<1> SUFFICES ASSUME TypeOK, Numbered, [Next]_vars PROVE Numbered'
  OBVIOUS
<1>a. Created \in Nat
  BY LiveNumbered
<1>1. ASSUME NEW a \in Addr, NEW due \in 0..MaxDelay, NEW interval \in Intervals,
             AddTimer(a, due, interval)
      PROVE  Numbered'
  <2>1. <<a, Created + 1>> \notin issued
    BY <1>a DEF Numbered
  <2>2. IsFiniteSet(issued') /\ Created' = Created + 1
    BY <1>1, <2>1, FS_AddElement, Zenon DEF AddTimer, Numbered, Created
  <2>3. \A x \in issued' : x \in issued \/ x = <<a, Created + 1>>
    BY <1>1 DEF AddTimer
  <2>4. \A x \in issued' : x[2] \in 1..Created'
    BY <1>a, <2>2, <2>3 DEF Numbered
  <2>5. \A x, y \in issued' : x[2] = y[2] => x = y
    BY <1>a, <2>3 DEF Numbered
  <2>6. canceled' \subseteq 1..Created'
    BY <1>1, <1>a, <2>2 DEF AddTimer, Numbered
  <2>7. \A b \in Addr : heap'[b] # Free => <<b, heap'[b].seq>> \in issued'
    BY <1>1 DEF AddTimer, Numbered, TypeOK
  <2> QED BY <2>2, <2>4, <2>5, <2>6, <2>7 DEF Numbered
<1>2. ASSUME NEW a \in Addr, AddTimerInLoop(a) PROVE Numbered'
  BY <1>2 DEF AddTimerInLoop, history, Numbered, Created
<1>3. ASSUME NEW id \in issued, CancelInLoop(id) PROVE Numbered'
  <2>1. id[1] \in Addr /\ id[2] \in 1..Created
    BY DEF TypeOK, Numbered
  <2>2. issued' = issued /\ Created' = Created
    BY <1>3 DEF CancelInLoop, Created
  <2>3. canceled' \subseteq 1..Created'
    BY <1>3, <2>1, <2>2, Zenon DEF CancelInLoop, Numbered
  <2>4. \A b \in Addr : heap'[b] # Free => heap'[b] = heap[b]
    BY <1>3, <2>1 DEF CancelInLoop, TypeOK
  <2> QED BY <2>2, <2>3, <2>4 DEF Numbered
<1>4. CASE HandleRead
  BY <1>4 DEF HandleRead, history, Numbered, Created
<1>5. ASSUME NEW a \in Addr, RunTimer(a) PROVE Numbered'
  BY <1>5 DEF RunTimer, sets, Numbered, Created
<1>6. CASE Reset
  <2>1. \A b \in Addr : heap'[b] # Free => heap'[b].seq = heap[b].seq /\ heap[b] # Free
    BY <1>6, ResetHeap
  <2> QED BY <1>6, <2>1 DEF Reset, history, Numbered, Created
<1>7. CASE Tick
  <2>1. \A b \in Addr : heap'[b] # Free => heap'[b].seq = heap[b].seq /\ heap[b] # Free
    BY <1>7, TickHeap
  <2> QED BY <1>7, <2>1 DEF Tick, history, Numbered, Created
<1>8. CASE UNCHANGED vars
  BY <1>8 DEF vars, sets, history, Numbered, Created
<1> QED BY <1>1, <1>2, <1>3, <1>4, <1>5, <1>6, <1>7, <1>8 DEF Next, HandleReadStep

\* Every step keeps Owned: a timer moves from one owner to the next.
LEMMA OwnedStep == TypeOK /\ Numbered /\ Owned /\ [Next]_vars => Owned'
<1> SUFFICES ASSUME TypeOK, Numbered, Owned, [Next]_vars PROVE Owned'
  OBVIOUS
<1>a. \A e \in timers : e = <<e[1], e[2]>> /\ e[2] \in Addr
  BY DEF TypeOK
<1>b. \A x \in activeTimers : x = <<x[1], x[2]>> /\ x[1] \in Addr
  BY DEF TypeOK
<1>c. expired \subseteq Addr /\ flight \subseteq Addr
  BY DEF TypeOK
<1>d. \A a, d : <<d, a>> \in timers =>
        heap[a].due = d /\ a \in Addr /\ a \notin flight /\ a \notin expired
  <2>1. ASSUME NEW a, NEW d, <<d, a>> \in timers
        PROVE  heap[a].due = d /\ a \in Addr /\ a \notin flight /\ a \notin expired
    <3> DEFINE e == <<d, a>>
    <3>1. e \in timers /\ e[1] = d /\ e[2] = a
      BY <2>1
    <3> HIDE DEF e
    <3> QED BY <1>a, <3>1, Zenon DEF Owned
  <2> QED BY <2>1
<1>e. \A e \in timers : e = <<heap[e[2]].due, e[2]>>
  BY <1>a, Zenon DEF Owned
<1>1. ASSUME NEW a \in Addr, NEW due \in 0..MaxDelay, NEW interval \in Intervals,
             AddTimer(a, due, interval)
      PROVE  Owned'
  <2>1. Created \in Nat
    BY LiveNumbered
  <2>2. heap'[a] # Free
    BY <1>1, <2>1 DEF AddTimer, TypeOK, Free
  <2>3. \A b \in Addr : b # a => heap'[b] = heap[b]
    BY <1>1 DEF AddTimer, TypeOK
  <2>4. /\ a \notin expired
        /\ \A e \in timers : e[2] # a
        /\ \A x \in activeTimers : x[1] # a
    BY <1>1, <1>a, <1>b, Zenon DEF AddTimer, Owned
  <2>5. \A d : <<d, a>> \notin timers
    BY <2>4
  <2> QED BY <1>1, <1>a, <1>b, <1>c, <2>2, <2>3, <2>4, <2>5 DEF AddTimer, Owned, batch
<1>2. ASSUME NEW a \in Addr, AddTimerInLoop(a) PROVE Owned'
  <2>1. UNCHANGED <<heap, expired>> /\ flight' = flight \ {a} /\ a \in flight
    BY <1>2 DEF AddTimerInLoop, batch
  <2>2. /\ timers' = timers \cup {<<heap[a].due, a>>}
        /\ activeTimers' = activeTimers \cup {<<a, heap[a].seq>>}
    BY <1>2 DEF AddTimerInLoop
  <2> QED BY <2>1, <2>2 DEF Owned
<1>3. ASSUME NEW id \in issued, CancelInLoop(id) PROVE Owned'
  <2>1. id = <<id[1], id[2]>> /\ id[1] \in Addr
    BY DEF TypeOK
  <2>2. CASE id \in activeTimers
    <3>1. heap[id[1]].seq = id[2] /\ <<heap[id[1]].due, id[1]>> \in timers
      BY <2>2 DEF Owned
    <3>2. /\ timers' = timers \ {<<heap[id[1]].due, id[1]>>}
          /\ activeTimers' = activeTimers \ {id}
          /\ heap'[id[1]] = Free
          /\ \A b \in Addr : b # id[1] => heap'[b] = heap[b]
          /\ UNCHANGED <<flight, expired>>
      BY <1>3, <2>1, <2>2 DEF CancelInLoop, TypeOK
    <3>3. \A e \in timers' : e \in timers /\ e[2] # id[1]
      BY <1>e, <3>2
    <3>4. \A x \in activeTimers' : x \in activeTimers /\ x[1] # id[1]
      BY <1>b, <2>1, <3>1, <3>2 DEF Owned
    <3>5. \A d : <<d, id[1]>> \notin timers'
      BY <3>3
    <3>6. id[1] \notin flight /\ id[1] \notin expired
      BY <3>1, Zenon DEF Owned
    <3> QED BY <1>a, <1>b, <2>1, <3>1, <3>2, <3>3, <3>4, <3>5, <3>6 DEF Owned
  <2>3. CASE id \notin activeTimers
    BY <1>3, <2>3 DEF CancelInLoop, Owned
  <2> QED BY <2>2, <2>3
<1>4. CASE HandleRead
  <2>1. expired = {} /\ UNCHANGED <<heap, flight>>
    BY <1>4 DEF HandleRead, TypeOK
  <2>2. timers' = {e \in timers : e[1] # 0}
    BY <1>4 DEF HandleRead
  <2>3. activeTimers' = {x \in activeTimers : x[1] \notin expired'}
    BY <1>4 DEF HandleRead
  <2>4. \A a : a \in expired' <=> <<0, a>> \in timers
    <3>1. expired' = {e[2] : e \in {x \in timers : x[1] = 0}}
      BY <1>4 DEF HandleRead
    <3> QED BY <1>a, <3>1
  <2>5. \A e \in timers : e[2] \in expired' <=> e[1] = 0
    <3>1. \A e \in timers : e[2] \in expired' => e[1] = 0
      <4>1. ASSUME NEW e \in timers, <<0, e[2]>> \in timers PROVE e[1] = 0
        BY <4>1, <1>d, Zenon DEF Owned
      <4> QED BY <2>4, <4>1, Zenon
    <3>2. \A e \in timers : e[1] = 0 => e[2] \in expired'
      BY <1>a, <2>4
    <3> QED BY <3>1, <3>2
  <2>6. \A e \in timers' : /\ heap[e[2]].due = e[1]
                           /\ <<e[2], heap[e[2]].seq>> \in activeTimers'
                           /\ e[2] \notin flight /\ e[2] \notin expired'
    BY <2>2, <2>3, <2>5 DEF Owned
  <2>7. \A x \in activeTimers' :
          heap[x[1]].seq = x[2] /\ <<heap[x[1]].due, x[1]>> \in timers'
    BY <2>2, <2>3, <2>4 DEF Owned
  <2>8. flight \cap expired' = {}
    BY <1>d, <2>4, Zenon
  <2>9. \A a \in Addr : heap[a] # Free <=>
          a \in flight \/ a \in expired' \/ <<heap[a].due, a>> \in timers'
    BY <1>d, <2>1, <2>2, <2>4, Zenon DEF Owned
  <2> QED BY <2>1, <2>6, <2>7, <2>8, <2>9 DEF Owned
<1>5. ASSUME NEW a \in Addr, RunTimer(a) PROVE Owned'
  BY <1>5 DEF RunTimer, sets, Owned
<1>6. CASE Reset
  <2>1. expired' = {} /\ flight' = flight
    BY <1>6 DEF Reset
  <2>2. \A e : e \in timers' <=>
          e \in timers \/ \E a \in expired : Restarts(a) /\ e = <<NextDue(a), a>>
    BY <1>6 DEF Reset
  <2>3. \A x : x \in activeTimers' <=>
          x \in activeTimers \/ \E a \in expired : Restarts(a) /\ x = <<a, heap[a].seq>>
    BY <1>6 DEF Reset
  <2>4. \A a \in Addr :
          /\ a \notin expired => heap'[a] = heap[a]
          /\ a \in expired /\ ~Restarts(a) => heap'[a] = Free
          /\ a \in expired /\ Restarts(a) =>
               heap'[a].seq = heap[a].seq /\ heap'[a].due = NextDue(a) /\ heap'[a] # Free
    BY <1>6, ResetHeap
  <2>5. \A e \in timers : heap'[e[2]] = heap[e[2]]
    BY <1>a, <2>4, Zenon DEF Owned
  <2>6. \A x \in activeTimers : heap'[x[1]] = heap[x[1]]
    BY <1>b, <2>4, <2>5, Zenon DEF Owned
  <2>7. \A e \in timers' : /\ heap'[e[2]].due = e[1]
                           /\ <<e[2], heap'[e[2]].seq>> \in activeTimers'
                           /\ e[2] \notin flight
    BY <1>c, <2>2, <2>3, <2>4, <2>5 DEF Owned
  <2>8. \A x \in activeTimers' : heap'[x[1]].seq = x[2] /\ <<heap'[x[1]].due, x[1]>> \in timers'
    BY <1>c, <2>2, <2>3, <2>4, <2>6 DEF Owned
  <2>9. ASSUME NEW a \in Addr
        PROVE  heap'[a] # Free <=> a \in flight \/ <<heap'[a].due, a>> \in timers'
    <3>1. CASE a \in expired /\ Restarts(a)
      BY <2>2, <2>4, <3>1
    <3>2. CASE a \in expired /\ ~Restarts(a)
      <4>1. a \notin flight /\ heap'[a] = Free
        BY <2>4, <3>2 DEF Owned
      <4>2. \A d : <<d, a>> \notin timers'
        BY <1>d, <2>2, <3>2, SMTT(30)
      <4> QED BY <4>1, <4>2, SMTT(30)
    <3>3. CASE a \notin expired
      BY <2>2, <2>4, <3>3, SMTT(30) DEF Owned
    <3> QED BY <3>1, <3>2, <3>3
  <2> QED BY <2>1, <2>7, <2>8, <2>9 DEF Owned
<1>7. CASE Tick
  <2>1. UNCHANGED <<flight, activeTimers, expired>>
    BY <1>7 DEF Tick
  <2>2. \A a \in Addr : /\ heap'[a].seq = heap[a].seq
                        /\ heap'[a].due = Less(heap[a].due)
                        /\ heap'[a] = Free <=> heap[a] = Free
    BY <1>7, TickHeap
  <2>3. \A f : f \in timers' <=> \E e \in timers : f = <<Less(e[1]), e[2]>>
    BY <1>7 DEF Tick
  <2>4. \A a \in Addr : <<heap'[a].due, a>> \in timers' <=> <<heap[a].due, a>> \in timers
    <3>1. ASSUME NEW a \in Addr, <<heap[a].due, a>> \in timers
          PROVE  <<heap'[a].due, a>> \in timers'
      BY <2>2, <2>3, <3>1
    <3>2. ASSUME NEW a \in Addr, <<heap'[a].due, a>> \in timers'
          PROVE  <<heap[a].due, a>> \in timers
      <4>1. PICK e \in timers : <<heap'[a].due, a>> = <<Less(e[1]), e[2]>>
        BY <2>3, <3>2
      <4> QED BY <1>e, <4>1
    <3> QED BY <3>1, <3>2, Zenon
  <2>5. \A f \in timers' : /\ heap'[f[2]].due = f[1]
                           /\ <<f[2], heap'[f[2]].seq>> \in activeTimers
                           /\ f[2] \notin flight /\ f[2] \notin expired
    BY <1>a, <2>2, <2>3 DEF Owned
  <2>6. \A x \in activeTimers :
          heap'[x[1]].seq = x[2] /\ <<heap'[x[1]].due, x[1]>> \in timers'
    BY <1>b, <2>2, <2>4, Zenon DEF Owned
  <2> QED BY <2>1, <2>2, <2>4, <2>5, <2>6, Zenon DEF Owned
<1>8. CASE UNCHANGED vars
  BY <1>8 DEF vars, sets, batch, Owned
<1> QED BY <1>1, <1>2, <1>3, <1>4, <1>5, <1>6, <1>7, <1>8 DEF Next, HandleReadStep

\* Every step keeps CancelKept.
LEMMA CancelStep ==
  TypeOK /\ Numbered /\ Owned /\ CancelKept /\ [Next]_vars => CancelKept'
<1> SUFFICES ASSUME TypeOK, Numbered, Owned, CancelKept, [Next]_vars PROVE CancelKept'
  OBVIOUS
<1>a. \A x \in activeTimers : x = <<x[1], x[2]>> /\ x[1] \in Addr
  BY DEF TypeOK
<1>b. expired \subseteq Addr /\ flight \subseteq Addr
  BY DEF TypeOK
<1>c. /\ \A x \in activeTimers : x \in issued
      /\ \A a \in flight \cup expired : <<a, heap[a].seq>> \in issued
  <2>1. \A x \in activeTimers : heap[x[1]] # Free /\ x = <<x[1], heap[x[1]].seq>>
    BY <1>a, Zenon DEF Owned
  <2> QED BY <1>a, <1>b, <2>1, ZenonT(120) DEF Owned, Numbered
<1>1. ASSUME NEW a \in Addr, NEW due \in 0..MaxDelay, NEW interval \in Intervals,
             AddTimer(a, due, interval)
      PROVE  CancelKept'
  <2>1. heap'[a].seq = Created + 1 /\ Created \in Nat
    BY <1>1, LiveNumbered DEF AddTimer, TypeOK
  <2>2. heap'[a].seq \notin canceled
    BY <2>1 DEF Numbered
  <2>3. \A b \in Addr : b # a => heap'[b] = heap[b]
    BY <1>1, SMTT(30) DEF AddTimer, TypeOK
  <2>4. a \notin expired
    BY <1>1, Zenon DEF AddTimer, Owned
  <2> QED BY <1>1, <1>b, <2>2, <2>3, <2>4 DEF AddTimer, CancelKept, batch
<1>2. ASSUME NEW a \in Addr, AddTimerInLoop(a) PROVE CancelKept'
  BY <1>2 DEF AddTimerInLoop, CancelKept, batch, history
<1>3. ASSUME NEW id \in issued, CancelInLoop(id) PROVE CancelKept'
  <2>1. id = <<id[1], id[2]>> /\ id[1] \in Addr
    BY DEF TypeOK
  <2>2. UNCHANGED <<flight, expired>>
    BY <1>3 DEF CancelInLoop
  <2>3. CASE id \in activeTimers
    <3>1. /\ activeTimers' = activeTimers \ {id}
          /\ canceling' = canceling
          /\ canceled' = canceled \cup {id[2]}
          /\ \A b \in Addr : b # id[1] => heap'[b] = heap[b]
      BY <1>3, <2>1, <2>3 DEF CancelInLoop, TypeOK
    <3>2. id[1] \notin flight /\ id[1] \notin expired
      <4> DEFINE e == <<heap[id[1]].due, id[1]>>
      <4>1. e \in timers /\ e[2] = id[1]
        BY <2>3 DEF Owned
      <4> HIDE DEF e
      <4> QED BY <4>1, Zenon DEF Owned
    <3>3. \A x \in activeTimers' : x[2] \notin canceled'
      BY <1>c, <2>3, <3>1 DEF CancelKept, Numbered
    <3>4. \A a \in flight \cup expired : heap'[a] = heap[a] /\ heap[a].seq # id[2]
      <4>1. ASSUME NEW a \in flight \cup expired PROVE heap[a].seq # id[2]
        <5> DEFINE y == <<a, heap[a].seq>>
        <5>1. y \in issued /\ y[2] = heap[a].seq /\ y[1] # id[1]
          BY <1>c, <3>2
        <5> HIDE DEF y
        <5> QED BY <5>1 DEF Numbered
      <4> QED BY <1>b, <3>1, <3>2, <4>1
    <3> QED BY <2>2, <3>1, <3>3, <3>4 DEF CancelKept
  <2>4. CASE id \notin activeTimers /\ id[1] \in expired /\ heap[id[1]].seq = id[2]
    <3>1. /\ UNCHANGED <<heap, activeTimers>>
          /\ canceling' = canceling \cup {id}
          /\ canceled' = canceled \cup {id[2]}
      BY <1>3, <2>4, SMTT(30) DEF CancelInLoop, TypeOK
    <3>2. \A x \in activeTimers : x[2] # id[2]
      BY <1>c, <2>4 DEF Numbered
    <3>3. \A a \in flight : heap[a].seq # id[2]
      <4>1. ASSUME NEW a \in flight PROVE heap[a].seq # id[2]
        <5> DEFINE y == <<a, heap[a].seq>>
        <5>1. y \in issued /\ y[2] = heap[a].seq /\ y[1] # id[1]
          BY <1>c, <2>4, SMTT(30) DEF Owned
        <5> HIDE DEF y
        <5> QED BY <5>1, SMTT(30) DEF Numbered
      <4> QED BY <4>1
    <3>4. \A a \in expired : heap[a].seq = id[2] => <<a, heap[a].seq>> = id
      <4>1. ASSUME NEW a \in expired, heap[a].seq = id[2] PROVE <<a, heap[a].seq>> = id
        <5> DEFINE y == <<a, heap[a].seq>>
        <5>1. y \in issued /\ y[2] = id[2]
          BY <1>c, <4>1
        <5> HIDE DEF y
        <5>2. y = id
          BY <5>1 DEF Numbered
        <5> QED BY <5>2 DEF y
      <4> QED BY <4>1
    <3> QED BY <2>2, <3>1, <3>2, <3>3, <3>4 DEF CancelKept
  <2>5. CASE id \notin activeTimers /\ ~(id[1] \in expired /\ heap[id[1]].seq = id[2])
    <3>1. UNCHANGED <<heap, activeTimers, canceled>> /\ canceling \subseteq canceling'
      BY <1>3, <2>5, SMTT(30) DEF CancelInLoop
    <3> QED BY <2>2, <3>1, SMTT(30) DEF CancelKept
  <2> QED BY <2>3, <2>4, <2>5
<1>4. CASE HandleRead
  <2>1. UNCHANGED <<heap, flight, canceled>> /\ activeTimers' \subseteq activeTimers
    BY <1>4 DEF HandleRead, history
  <2>2. ASSUME NEW a \in expired' PROVE heap[a].seq \notin canceled
    <3>1. PICK e \in timers : a = e[2]
      BY <1>4 DEF HandleRead
    <3> DEFINE x == <<a, heap[a].seq>>
    <3>2. x \in activeTimers /\ x[2] = heap[a].seq
      BY <3>1 DEF Owned
    <3> HIDE DEF x
    <3> QED BY <3>2 DEF CancelKept
  <2> QED BY <2>1, <2>2 DEF CancelKept
<1>5. ASSUME NEW a \in Addr, RunTimer(a) PROVE CancelKept'
  BY <1>5 DEF RunTimer, sets, CancelKept
<1>6. CASE Reset
  <2>1. expired' = {} /\ UNCHANGED <<flight, canceled>>
    BY <1>6 DEF Reset, history
  <2>2. \A a \in flight : heap'[a] = heap[a]
    <3>1. \A a \in flight : a \in Addr /\ a \notin expired
      BY <1>b DEF Owned
    <3> QED BY <1>6, <3>1, ResetHeap, SMTT(30)
  <2>3. ASSUME NEW x \in activeTimers' PROVE x[2] \notin canceled
    <3>1. CASE x \in activeTimers
      BY <3>1 DEF CancelKept
    <3>2. CASE \E a \in expired : Restarts(a) /\ x = <<a, heap[a].seq>>
      BY <3>2 DEF CancelKept, Restarts
    <3> QED BY <1>6, <2>3, <3>1, <3>2, SMTT(30) DEF Reset
  <2> QED BY <2>1, <2>2, <2>3 DEF CancelKept
<1>7. CASE Tick
  <2>1. \A a \in Addr : heap'[a].seq = heap[a].seq
    BY <1>7, TickHeap, SMTT(30)
  <2> QED BY <1>7, <1>b, <2>1 DEF Tick, CancelKept, history
<1>8. CASE UNCHANGED vars
  BY <1>8 DEF vars, sets, batch, history, CancelKept
<1> QED BY <1>1, <1>2, <1>3, <1>4, <1>5, <1>6, <1>7, <1>8 DEF Next, HandleReadStep

\* Every step keeps ArmedAll.
LEMMA ArmedStep == TypeOK /\ ArmedAll /\ [Next]_vars => (TypeOK' => ArmedAll')
<1> SUFFICES ASSUME TypeOK, ArmedAll, [Next]_vars, TypeOK' PROVE ArmedAll'
  BY SMTT(30)
<1>a. \A e \in timers : e[1] \in 0..MaxDelay /\ Arm(e[1]) \in 1..MaxDelay
  BY TimeTypes, SMTT(30) DEF TypeOK
<1>1. ASSUME NEW a \in Addr, NEW due \in 0..MaxDelay, NEW interval \in Intervals,
             AddTimer(a, due, interval)
      PROVE  ArmedAll'
  BY <1>1 DEF AddTimer, ArmedAll, batch
<1>2. ASSUME NEW a \in Addr, AddTimerInLoop(a) PROVE ArmedAll'
  <2>1. PICK d \in 0..MaxDelay : d = heap[a].due
    BY SMTT(30) DEF TypeOK, Timer
  <2>2. timers' = timers \cup {<<d, a>>} /\ callingExpired' = callingExpired
    BY <1>2, <2>1, SMTT(30) DEF AddTimerInLoop, batch
  <2>3. PICK changed \in EarliestChanged(d) : timerfd' = IF changed THEN Arm(d) ELSE timerfd
    BY <1>2, <2>1 DEF AddTimerInLoop
  <2>4. Arm(d) \in 1..MaxDelay
    BY TimeTypes
  <2>5. timers # {} => /\ Earliest(timers) \in 0..MaxDelay
                       /\ \E e \in timers : Earliest(timers) = e[1]
                       /\ \A e \in timers : Earliest(timers) <= e[1]
    BY EarliestLeast DEF TypeOK
  <2>6. ASSUME ~callingExpired, changed PROVE \A e \in timers' : timerfd' <= Arm(e[1])
    <3>1. timerfd' = Arm(d)
      BY <2>3, <2>6
    <3>2. d = 0 \/ \A e \in timers : d <= e[1]
      <4>1. CASE timers = {}
        BY <4>1
      <4>2. CASE timers # {} /\ d < Earliest(timers)
        BY <1>a, <2>5, <4>2
      <4>3. CASE timers # {} /\ ~(d < Earliest(timers)) /\ d # 0
        BY <2>3, <2>6, <4>3, Zenon DEF EarliestChanged
      <4> QED BY <4>1, <4>2, <4>3
    <3>3. \A e \in timers : d <= e[1]
      BY <1>a, <3>2
    <3>4. \A e \in timers : Arm(d) <= Arm(e[1])
      BY <1>a, <3>3, TimeTypes
    <3> QED BY <2>2, <2>4, <3>1, <3>4
  <2>7. ASSUME ~callingExpired, ~changed PROVE \A e \in timers' : timerfd' <= Arm(e[1])
    <3>1. timerfd' = timerfd
      BY <2>3, <2>7
    <3>2. PICK f \in timers : f[1] <= d
      <4>1. timers # {} /\ ~(d < Earliest(timers))
        BY <2>3, <2>7, Zenon DEF EarliestChanged
      <4>2. PICK f \in timers : Earliest(timers) = f[1]
        BY <2>5, <4>1, SMTT(30)
      <4> QED BY <1>a, <4>1, <4>2
    <3>3. timerfd <= Arm(f[1]) /\ Arm(f[1]) <= Arm(d)
      BY <1>a, <2>7, <3>2, TimeTypes, SMTT(30) DEF ArmedAll
    <3>4. timerfd <= Arm(d)
      BY <1>a, <2>4, <3>3, TimeTypes DEF TypeOK
    <3> QED BY <2>2, <2>7, <3>1, <3>4 DEF ArmedAll
  <2> QED BY <2>2, <2>6, <2>7, SMTT(30) DEF ArmedAll
<1>3. ASSUME NEW id \in issued, CancelInLoop(id) PROVE ArmedAll'
  <2>1. timers' \subseteq timers /\ UNCHANGED <<timerfd, callingExpired>>
    BY <1>3 DEF CancelInLoop
  <2> QED BY <2>1, SMTT(30) DEF ArmedAll
<1>4. CASE HandleRead
  BY <1>4 DEF HandleRead, ArmedAll
<1>5. ASSUME NEW a \in Addr, RunTimer(a) PROVE ArmedAll'
  BY <1>5 DEF RunTimer, sets, ArmedAll
<1>6. CASE Reset
  <2>1. CASE timers' = {}
    BY <2>1 DEF ArmedAll
  <2>2. CASE timers' # {}
    <3>1. /\ Earliest(timers') \in 0..MaxDelay
          /\ \A e \in timers' : Earliest(timers') <= e[1] /\ e[1] \in 0..MaxDelay
      BY <2>2, EarliestLeast DEF TypeOK
    <3>2. \A e \in timers' : Arm(Earliest(timers')) <= Arm(e[1])
      BY <3>1, TimeTypes
    <3> QED BY <1>6, <2>2, <3>2, SMTT(30) DEF Reset, ArmedAll
  <2> QED BY <2>1, <2>2
<1>7. CASE Tick
  <2>1. SUFFICES ASSUME ~callingExpired, NEW f \in timers' PROVE timerfd' <= Arm(f[1])
    BY <1>7 DEF Tick, ArmedAll
  <2>2. PICK e \in timers : f = <<Less(e[1]), e[2]>>
    BY <1>7, SMTT(30) DEF Tick
  <2>3. timerfd \in Nat /\ timerfd <= Arm(e[1])
    BY <2>1 DEF ArmedAll, TypeOK, Disarmed
  <2>4. timerfd' = Less(timerfd)
    BY <1>7, <1>a, <2>3, SMTT(30) DEF Tick, Disarmed
  <2> QED BY <1>a, <2>2, <2>3, <2>4 DEF Less, Arm
<1>8. CASE UNCHANGED vars
  BY <1>8 DEF vars, sets, batch, ArmedAll
<1> QED BY <1>1, <1>2, <1>3, <1>4, <1>5, <1>6, <1>7, <1>8, SMTT(30) DEF Next, HandleReadStep

\* Every step of addTimer, cancel, handleRead and the clock keeps it.
LEMMA StepIInv == IInv /\ [Next]_vars => IInv'
BY TypeStep, NumberedStep, OwnedStep, CancelStep, ArmedStep, SMTT(30) DEF IInv

-----------------------------------------------------------------------------
\* The entries of the two sets are determined by the address.
LEMMA PairShapes ==
  ASSUME TypeOK, Owned
  PROVE  /\ \A e \in timers : e = <<heap[e[2]].due, e[2]>>
         /\ \A x \in activeTimers : x = <<x[1], heap[x[1]].seq>> /\ x[1] \in Addr
<1>1. \A e \in timers : e = <<e[1], e[2]>>
  BY DEF TypeOK
<1>2. \A x \in activeTimers : x = <<x[1], x[2]>> /\ x[1] \in Addr
  BY DEF TypeOK
<1> QED BY <1>1, <1>2, Zenon DEF Owned

\* A queued timer is in timers_ and in activeTimers_ once each: the map from
\* one set to the other is a bijection, so they have the same size.
LEMMA SameSize ==
  ASSUME TypeOK, Numbered, Owned
  PROVE  Cardinality(activeTimers) = Cardinality(timers)
<1>1. activeTimers \subseteq issued
  <2>1. \A x \in activeTimers : x = <<x[1], heap[x[1]].seq>> /\ x[1] \in Addr
    BY PairShapes
  <2> QED BY <2>1, ZenonT(30) DEF Owned, Numbered
<1>2. IsFiniteSet(activeTimers)
  BY <1>1, FS_Subset DEF Numbered
<1> DEFINE f == [x \in activeTimers |-> <<heap[x[1]].due, x[1]>>]
<1>3. f \in [activeTimers -> timers]
  BY DEF Owned
<1>4. \A x, y \in activeTimers : f[x] = f[y] => x = y
  <2>1. \A x \in activeTimers : x = <<x[1], heap[x[1]].seq>>
    BY PairShapes
  <2> QED BY <2>1
<1>5. \A e \in timers : \E x \in activeTimers : f[x] = e
  <2>1. ASSUME NEW e \in timers PROVE \E x \in activeTimers : f[x] = e
    <3>1. e = <<heap[e[2]].due, e[2]>> /\ <<e[2], heap[e[2]].seq>> \in activeTimers
      BY PairShapes DEF Owned
    <3>2. f[<<e[2], heap[e[2]].seq>>] = e
      BY <3>1
    <3> QED BY <3>1, <3>2, SMTT(30)
  <2> QED BY <2>1
<1> HIDE DEF f
<1>6. f \in Bijection(activeTimers, timers)
  BY <1>3, <1>4, <1>5 DEF Bijection, Injection, IsInjective, Surjection
<1>7. ExistsBijection(activeTimers, timers)
  BY <1>6 DEF ExistsBijection
<1> QED BY <1>2, <1>7, FS_Bijection

\* No timer is forgotten or deleted twice, and the two sets agree.
THEOREM TimersOwned == Spec => []OwnedOnce
<1>1. ASSUME TypeOK, Numbered, Owned PROVE OwnedOnce
  <2>1. activeTimers = {<<e[2], heap[e[2]].seq>> : e \in timers}
    <3>1. ASSUME NEW x \in activeTimers
          PROVE  \E e \in timers : x = <<e[2], heap[e[2]].seq>>
      <4>1. x = <<x[1], heap[x[1]].seq>> /\ <<heap[x[1]].due, x[1]>> \in timers
        BY <1>1, PairShapes DEF Owned
      <4> QED BY <4>1, SMTT(30)
    <3> QED BY <1>1, <3>1 DEF Owned
  <2>2. \A a \in Addr : a \in {e[2] : e \in timers} <=> <<heap[a].due, a>> \in timers
    <3>1. \A e \in timers : e = <<heap[e[2]].due, e[2]>>
      BY <1>1, PairShapes, SMTT(30)
    <3> QED BY <3>1
  <2>3. {a \in Addr : heap[a] # Free} = flight \cup {e[2] : e \in timers} \cup expired
    <3>1. flight \subseteq Addr /\ expired \subseteq Addr /\ {e[2] : e \in timers} \subseteq Addr
      BY <1>1 DEF TypeOK
    <3> QED BY <1>1, <2>2, <3>1, Zenon DEF Owned
  <2> QED BY <1>1, <2>1, <2>3, SameSize, SMTT(30) DEF Owned, OwnedOnce
<1>2. IInv => OwnedOnce
  BY <1>1 DEF IInv
<1> QED BY InitIInv, StepIInv, <1>2, PTL DEF Spec

\* Between two calls of handleRead no queued timer is slept through.
THEOREM TimerfdArmed == Spec => []Armed
<1>1. IInv => Armed
  <2>1. ASSUME IInv, timers # {} PROVE \E e \in timers : Earliest(timers) = e[1]
    BY <2>1, EarliestLeast DEF IInv, TypeOK
  <2> QED BY <2>1 DEF IInv, ArmedAll, Armed
<1> QED BY InitIInv, StepIInv, <1>1, PTL DEF Spec

\* A canceled timer does not come back.
THEOREM CancelHolds == Spec => []CancelSticks
<1>1. IInv => CancelSticks
  BY DEF IInv, CancelKept, CancelSticks
<1> QED BY InitIInv, StepIInv, <1>1, PTL DEF Spec
=============================================================================
