------------------------------- MODULE LogFile ------------------------------
(***************************************************************************)
(* base/LogFile.cc under base/AsyncLogging.cc: the logging thread's file,  *)
(* which is rolled when it is too large or a new period (a day) begins.    *)
(* A file is named by the second it was opened in; the wall clock that     *)
(* names them may be set back.  What AsyncLogging calls file, one sequence *)
(* of lines, is here spread over named files and stdio's buffer.           *)
(*                                                                         *)
(* A line, and the notice of dropped lines, is one byte long.              *)
(***************************************************************************)
EXTENDS AsyncLogging

CONSTANTS RollSize,      \* rollSize_
          RollSeconds,   \* kRollPerSeconds_
          CheckEveryN,   \* checkEveryN_
          FlushInterval, \* flushInterval_
          MaxClock       \* bound on time(NULL), which starts at 1

ASSUME LogFileConstants ==
  /\ RollSize \in Nat /\ FlushInterval \in Nat /\ MaxClock \in Nat
  /\ RollSeconds \in Nat \ {0} /\ CheckEveryN \in Nat \ {0}

VARIABLES clock,  \* time(NULL)
          lf      \* the LogFile:
                  \*   disk, name, buffered: the files by name, the open one,
                  \*     and what of it is still in stdio's buffer
                  \*   bytes, count, startOfPeriod, lastRoll, lastFlush: its members
                  \*   at, late: history, the time of the last append and the
                  \*     appends since a roll became due for the period

fileVars == <<clock, lf>>
allVars == <<vars, fileVars>>

Period(now) == (now \div RollSeconds) * RollSeconds

\* fflush, and fclose of the old file.
Flush(f) == [f EXCEPT !.disk[f.name] = @ \o f.buffered, !.buffered = << >>]

\* rollFile without its guard.
RollFileAlways(f, now) ==
  [Flush(f) EXCEPT !.lastRoll = now, !.lastFlush = now, !.startOfPeriod = Period(now),
     !.name = now, !.bytes = 0,
     !.disk = [n \in DOMAIN @ \cup {now} |-> IF n \in DOMAIN @ THEN @[n] ELSE << >>]]

\* rollFile: fopen(name, "a") continues a file of that name.
RollFile(f, now) ==
  IF now > f.lastRoll
  THEN LET old == Flush(f)
       IN [old EXCEPT !.lastRoll = now, !.lastFlush = now, !.startOfPeriod = Period(now),
             !.name = now, !.bytes = 0,
             !.disk = [n \in DOMAIN old.disk \cup {now} |->
                         IF n \in DOMAIN old.disk THEN old.disk[n] ELSE << >>]]
  ELSE f

\* The constructor.
NewLogFile(now) ==
  [disk |-> [n \in {now} |-> << >>], name |-> now, buffered |-> << >>, bytes |-> 0, count |-> 0,
   startOfPeriod |-> Period(now), lastRoll |-> now, lastFlush |-> now, at |-> now, late |-> 0]

\* append_unlocked's check on the count of appends, one append late.
CheckedLate(f, now) ==
  IF f.count + 1 <= CheckEveryN THEN [f EXCEPT !.count = @ + 1]
  ELSE LET g == [f EXCEPT !.count = 0]
       IN IF Period(now) # g.startOfPeriod THEN RollFile(g, now) ELSE g

\* append_unlocked's check on the count of appends.
Checked(f, now) ==
  IF f.count + 1 < CheckEveryN THEN [f EXCEPT !.count = @ + 1]
  ELSE LET g == [f EXCEPT !.count = 0]
       IN IF Period(now) # g.startOfPeriod THEN RollFile(g, now)
          ELSE IF now - g.lastFlush > FlushInterval THEN Flush([g EXCEPT !.lastFlush = now])
          ELSE g

\* append_unlocked.
AppendUnlocked(f, chunk, now) ==
  LET longer == [f EXCEPT !.buffered = @ \o chunk, !.bytes = @ + Len(chunk), !.at = now]
      g == IF longer.bytes > RollSize THEN RollFile(longer, now) ELSE Checked(longer, now)
      due == now > g.lastRoll /\ Period(now) # g.startOfPeriod
  IN [g EXCEPT !.late = IF due THEN @ + 1 ELSE 0]

-----------------------------------------------------------------------------
InitF == Init /\ clock = 1 /\ lf = NewLogFile(1)

\* start(): the thread makes its LogFile.
StartF == Start /\ lf' = NewLogFile(clock) /\ UNCHANGED clock

\* The appends of threadFunc, of the notice and of a buffer, and its flush().
CutBacklogF ==
  /\ CutBacklog
  /\ lf' = IF TooLong THEN AppendUnlocked(lf, <<DropNotice>>, clock) ELSE lf
  /\ UNCHANGED clock

AppendBufferF ==
  /\ AppendBuffer
  /\ lf' = AppendUnlocked(lf, buffersToWrite[written + 1], clock)
  /\ UNCHANGED clock

RecycleF == Recycle /\ lf' = Flush(lf) /\ UNCHANGED clock

\* Time passes, or the clock is set.
SetClock ==
  /\ \E now \in 1 .. MaxClock : now # clock /\ clock' = now
  /\ UNCHANGED <<vars, lf>>

NextF ==
  \/ StartF
  \/ AppendLine /\ UNCHANGED fileVars
  \/ Stop /\ UNCHANGED fileVars
  \/ TestRunning /\ UNCHANGED fileVars
  \/ WaitOnCond /\ UNCHANGED fileVars
  \/ SwapBuffers /\ UNCHANGED fileVars
  \/ CutBacklogF
  \/ AppendBufferF
  \/ RecycleF
  \/ SetClock

\* The thread is scheduled, and waitForSeconds ends, as in AsyncLogging:
\* LogFile never holds it up.
SpecF == InitF /\ [][NextF]_allVars /\ WF_vars(LogThread)

-----------------------------------------------------------------------------
(* Where lines are: pieces of text, as a function of an integer.           *)

Lines(s) == Range(s) \ {DropNotice}
LinesOf(pieces) == UNION {Lines(pieces[k]) : k \in DOMAIN pieces}

Before(X, Y) == \A x \in X, y \in Y : x < y

InOrder(s) ==
  \A i, j \in DOMAIN s : i < j /\ DropNotice \notin {s[i], s[j]} => s[i] < s[j]

PiecesInOrder(pieces) ==
  /\ \A k \in DOMAIN pieces : InOrder(pieces[k])
  /\ \A k, l \in DOMAIN pieces : k < l => Before(Lines(pieces[k]), Lines(pieces[l]))

\* The stages of a line's way, the last one first: the files by their names,
\* stdio's buffer, the buffers the thread has yet to write, and the front
\* buffers.
Unwritten == [k \in written + 1 .. Len(buffersToWrite) |-> buffersToWrite[k]]
Stages == <<lf.disk, <<lf.buffered>>, Unwritten, buffers, <<currentBuffer>>>>

\* Read in the order of their names, the files hold the lines in the order
\* of the appends, and what is still in the logger's buffers follows them:
\* no line is lost, written twice or out of order, but for those a backlog
\* made threadFunc drop, though files are rolled and the clock is set back.
\* If it dropped any, the files say so.
FilesInOrder ==
  /\ \A s \in DOMAIN Stages : PiecesInOrder(Stages[s])
  /\ \A s, t \in DOMAIN Stages : s < t => Before(LinesOf(Stages[s]), LinesOf(Stages[t]))
  /\ UNION {LinesOf(Stages[s]) : s \in DOMAIN Stages} = (1..appended) \ dropped
  /\ dropped # {} =>
       DropNotice \in Range(lf.buffered) \cup UNION {Range(lf.disk[n]) : n \in DOMAIN lf.disk}

\* A file is left too large only in the second it was opened in (or with
\* the clock behind it), and at most CheckEveryN - 1 appends of a new
\* period go to the file of an old one.
RolledInTime ==
  /\ lf.bytes > RollSize => lf.at <= lf.lastRoll
  /\ lf.late < CheckEveryN
=============================================================================
