----------------------------- MODULE TimerQueue -----------------------------
(***************************************************************************)
(* net/TimerQueue.cc: the timers of one loop, kept in two sets, and the    *)
(* timerfd that is armed for the earliest of them.                         *)
(*                                                                         *)
(* Times are relative to the clock (how many ticks ahead, 0 when past), so *)
(* repeating timers need no bound on time.  A timer is an object at a heap *)
(* address that is used again after it is deleted; only its sequence       *)
(* number is unique.  Everything here runs in the loop thread but the      *)
(* creation of a timer; while callingExpired, AddTimerInLoop and           *)
(* CancelInLoop are calls made by the timer callback that is running.      *)
(***************************************************************************)
EXTENDS Naturals, FiniteSets, FiniteSetsExt

CONSTANTS Addr,       \* heap addresses of Timer objects
          MaxDelay,   \* bound on when, in ticks
          Intervals,  \* the intervals in use, 0 for a one-shot timer
          MaxCreated  \* bound on s_numCreated_

ASSUME TimerConstants ==
  /\ MaxDelay \in Nat \ {0} /\ MaxCreated \in Nat
  /\ Intervals \subseteq 0..MaxDelay

VARIABLES heap,           \* the Timer at each address, or Free
          flight,         \* created, addTimerInLoop not run yet
          timers,         \* timers_: pairs of expiration and address
          activeTimers,   \* activeTimers_: pairs of address and sequence
          callingExpired, \* callingExpiredTimers_
          canceling,      \* cancelingTimers_
          expired,        \* the local vector of handleRead (addresses)
          toRun,          \* the part of it still to be run
          elapsed,        \* ticks since handleRead read the clock
          timerfd,        \* ticks until it is readable, or Disarmed
          issued,         \* history: the TimerIds handed out
          ran,            \* history: sequence numbers that ran
          canceled        \* history: canceled while queued or expired

sets == <<heap, flight, timers, activeTimers>>
batch == <<callingExpired, canceling, expired, toRun, elapsed>>
history == <<issued, ran, canceled>>
vars == <<sets, batch, timerfd, history>>

Free == [seq |-> 0, due |-> 0, interval |-> 0]
Disarmed == MaxDelay + 1
Created == Cardinality(issued)

Init ==
  /\ heap = [a \in Addr |-> Free]
  /\ flight = {}
  /\ timers = {}
  /\ activeTimers = {}
  /\ callingExpired = FALSE
  /\ canceling = {}
  /\ expired = {}
  /\ toRun = {}
  /\ elapsed = 0
  /\ timerfd = Disarmed
  /\ issued = {}
  /\ ran = {}
  /\ canceled = {}

\* Mutant: a timer already due is armed with zero, which disarms the timerfd.
ArmExactly(due) == IF due = 0 THEN Disarmed ELSE due

\* resetTimerfd: howMuchTimeFromNow is never zero, which would disarm it.
Arm(due) == IF due = 0 THEN 1 ELSE due

Earliest(ts) == Min({e[1] : e \in ts})

\* What insert may return: of two timers past due either may be the earlier.
EarliestChanged(due) ==
  IF timers = {} \/ due < Earliest(timers) THEN {TRUE}
  ELSE IF due = 0 THEN BOOLEAN ELSE {FALSE}

\* addTimer up to runInLoop, in any thread.
AddTimer(a, due, interval) ==
  /\ heap[a] = Free
  /\ Created < MaxCreated
  /\ heap' = [heap EXCEPT ![a] =
                [seq |-> Created + 1, due |-> due, interval |-> interval]]
  /\ flight' = flight \cup {a}
  /\ issued' = issued \cup {<<a, Created + 1>>}
  /\ UNCHANGED <<timers, activeTimers, batch, timerfd, ran, canceled>>

\* Mutant: the timerfd is armed for the first timer only.
AddTimerInLoopFirst(a) ==
  /\ a \in flight
  /\ flight' = flight \ {a}
  /\ timers' = timers \cup {<<heap[a].due, a>>}
  /\ activeTimers' = activeTimers \cup {<<a, heap[a].seq>>}
  /\ timerfd' = IF timers = {} THEN Arm(heap[a].due) ELSE timerfd
  /\ UNCHANGED <<heap, batch, history>>

\* addTimerInLoop with insert.
AddTimerInLoop(a) ==
  /\ a \in flight
  /\ flight' = flight \ {a}
  /\ timers' = timers \cup {<<heap[a].due, a>>}
  /\ activeTimers' = activeTimers \cup {<<a, heap[a].seq>>}
  /\ \E changed \in EarliestChanged(heap[a].due) :
       timerfd' = IF changed THEN Arm(heap[a].due) ELSE timerfd
  /\ UNCHANGED <<heap, batch, history>>

\* Mutant: an expired timer is deleted at once.
CancelInLoopDeletes(id) ==
  /\ id \in issued
  /\ timers' = {e \in timers : e[2] # id[1] \/ heap[id[1]].seq # id[2]}
  /\ activeTimers' = activeTimers \ {id}
  /\ heap' = IF heap[id[1]].seq = id[2] /\ id[1] \notin flight
               THEN [heap EXCEPT ![id[1]] = Free] ELSE heap
  /\ UNCHANGED <<flight, batch, timerfd, history>>

\* cancelInLoop: an expired timer is gone from both sets, and is remembered.
CancelInLoop(id) ==
  /\ id \in issued
  /\ IF id \in activeTimers
       THEN /\ timers' = timers \ {<<heap[id[1]].due, id[1]>>}
            /\ activeTimers' = activeTimers \ {id}
            /\ heap' = [heap EXCEPT ![id[1]] = Free]
            /\ UNCHANGED canceling
       ELSE /\ canceling' = IF callingExpired THEN canceling \cup {id} ELSE canceling
            /\ UNCHANGED <<timers, activeTimers, heap>>
  /\ canceled' = IF id \in activeTimers \/ (id[1] \in expired /\ heap[id[1]].seq = id[2])
                   THEN canceled \cup {id[2]} ELSE canceled
  /\ UNCHANGED <<flight, callingExpired, expired, toRun, elapsed, timerfd,
                 issued, ran>>

-----------------------------------------------------------------------------
(* handleRead                                                              *)

\* Up to the first callback: readTimerfd, and getExpired moves out what is due.
HandleRead ==
  /\ ~callingExpired
  /\ timerfd = 0
  /\ timerfd' = Disarmed
  /\ expired' = {e[2] : e \in {x \in timers : x[1] = 0}}
  /\ toRun' = expired'
  /\ timers' = {e \in timers : e[1] # 0}
  /\ activeTimers' = {x \in activeTimers : x[1] \notin expired'}
  /\ callingExpired' = TRUE
  /\ canceling' = {}
  /\ elapsed' = 0
  /\ UNCHANGED <<heap, flight, history>>

\* The vector is in order of expiration; timers past due are not told apart
\* here, so any of them may be next.
RunTimer(a) ==
  /\ callingExpired
  /\ a \in toRun
  /\ toRun' = toRun \ {a}
  /\ ran' = ran \cup {heap[a].seq}
  /\ UNCHANGED <<sets, callingExpired, canceling, expired, elapsed, timerfd,
                 issued, canceled>>

\* Mutant: cancelingTimers_ is not looked at.
RestartsCanceled(a) == heap[a].interval > 0

\* reset puts back the repeating timers that were not canceled meanwhile.
Restarts(a) == heap[a].interval > 0 /\ <<a, heap[a].seq>> \notin canceling

\* Timer::restart(now), with the time handleRead read.
NextDue(a) == IF heap[a].interval > elapsed THEN heap[a].interval - elapsed ELSE 0

\* After the last callback: reset, which deletes the other expired timers.
Reset ==
  /\ callingExpired
  /\ toRun = {}
  /\ callingExpired' = FALSE
  /\ expired' = {}
  /\ heap' = [a \in Addr |->
                IF a \notin expired THEN heap[a]
                ELSE IF Restarts(a) THEN [heap[a] EXCEPT !.due = NextDue(a)]
                ELSE Free]
  /\ LET back == {a \in expired : Restarts(a)}
     IN  /\ timers' = timers \cup {<<NextDue(a), a>> : a \in back}
         /\ activeTimers' = activeTimers \cup {<<a, heap[a].seq>> : a \in back}
  /\ timerfd' = IF timers' = {} THEN timerfd ELSE Arm(Earliest(timers'))
  /\ UNCHANGED <<flight, canceling, toRun, elapsed, history>>

\* Time passes; a timerfd that ran down stays readable until it is read.
Less(n) == IF n = 0 THEN 0 ELSE n - 1

Tick ==
  /\ heap' = [a \in Addr |-> [heap[a] EXCEPT !.due = Less(@)]]
  /\ timers' = {<<Less(e[1]), e[2]>> : e \in timers}
  /\ timerfd' = IF timerfd = Disarmed THEN Disarmed ELSE Less(timerfd)
  /\ elapsed' = IF callingExpired /\ elapsed < MaxDelay THEN elapsed + 1 ELSE elapsed
  /\ UNCHANGED <<flight, activeTimers, callingExpired, canceling, expired,
                 toRun, history>>

-----------------------------------------------------------------------------
HandleReadStep == HandleRead \/ (\E a \in Addr : RunTimer(a)) \/ Reset

Next ==
  \/ \E a \in Addr, due \in 0..MaxDelay, interval \in Intervals :
       AddTimer(a, due, interval)
  \/ \E a \in Addr : AddTimerInLoop(a)
  \/ \E id \in issued : CancelInLoop(id)
  \/ HandleReadStep
  \/ Tick

Spec == Init /\ [][Next]_vars

\* Time passes, and the loop runs its functors and the timerfd's handler.
Fairness ==
  /\ WF_vars(Tick)
  /\ WF_vars(HandleReadStep)
  /\ \A a \in Addr : WF_vars(AddTimerInLoop(a))

FairSpec == Spec /\ Fairness

-----------------------------------------------------------------------------
\* The two sets hold the same live timers, each under the expiration it has
\* now, and every timer has one owner: it is in flight, queued or expired, so
\* that none is deleted twice or forgotten, whatever callbacks add and cancel.
OwnedOnce ==
  LET queued == {e[2] : e \in timers}
  IN  /\ activeTimers = {<<e[2], heap[e[2]].seq>> : e \in timers}
      /\ Cardinality(activeTimers) = Cardinality(timers)
      /\ \A e \in timers : heap[e[2]].due = e[1]
      /\ {a \in Addr : heap[a] # Free} = flight \cup queued \cup expired
      /\ flight \cap queued = {} /\ flight \cap expired = {}
      /\ queued \cap expired = {}

\* Between calls of handleRead the timerfd is armed for the earliest timer, or
\* is about to go off, so no timer is slept through.
Armed ==
  ~callingExpired /\ timers # {} => timerfd <= Arm(Earliest(timers))

\* A timer canceled while it was queued, or from a callback of the batch it
\* expired in, is not in the queue again when the batch is over.
CancelSticks ==
  ~callingExpired => \A x \in activeTimers : x[2] \notin canceled

\* A timer that was added runs, unless it is canceled first.
AddedRuns ==
  \A s \in 1..MaxCreated :
    (\E a \in Addr : heap[a].seq = s) ~> (s \in ran \cup canceled)
=============================================================================
