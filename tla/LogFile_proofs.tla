--------------------------- MODULE LogFile_proofs ---------------------------
(***************************************************************************)
(* Proofs about the logger and its files, for every buffer size, backlog   *)
(* limit of at least two buffers, roll size, period and check interval.    *)
(***************************************************************************)
EXTENDS LogFile, SequenceTheorems, TLAPS

USE LoggingConstants, LogFileConstants

-----------------------------------------------------------------------------
(* Pieces of text.                                                         *)

Text == Seq(Nat)

\* A text with another behind it.
LEMMA ConcatText ==
  ASSUME NEW s \in Text, NEW t \in Text
  PROVE  /\ s \o t \in Text
         /\ Range(s \o t) = Range(s) \cup Range(t)
         /\ Lines(s \o t) = Lines(s) \cup Lines(t)
<1>1. /\ s \o t \in Seq(Nat) /\ Len(s \o t) = Len(s) + Len(t)
      /\ Len(s) \in Nat /\ Len(t) \in Nat
      /\ \A i \in 1..Len(s) : (s \o t)[i] = s[i]
      /\ \A i \in 1..Len(t) : (s \o t)[Len(s) + i] = t[i]
  BY ConcatProperties DEF Text
<1>2. PICK u, m, n : u = s \o t /\ m = Len(s) /\ n = Len(t)
  BY Zenon
<1>3. DOMAIN u = 1..(m + n) /\ DOMAIN s = 1..m /\ DOMAIN t = 1..n /\ m \in Nat /\ n \in Nat
  BY <1>1, <1>2 DEF Text
<1>4. /\ \A i \in 1..m : u[i] = s[i]
      /\ \A i \in 1..n : u[m + i] = t[i]
  BY <1>1, <1>2
<1>5. ASSUME NEW i \in 1..(m + n) PROVE u[i] \in Range(s) \cup Range(t)
  <2>1. CASE i <= m
    <3>1. i \in 1..m
      BY <1>3, <1>5, <2>1
    <3> QED BY <1>3, <1>4, <3>1 DEF Range
  <2>2. CASE i > m
    <3>1. PICK j \in 1..n : i = m + j
      <4>1. i - m \in 1..n /\ i = m + (i - m)
        BY <1>3, <1>5, <2>2
      <4> QED BY <4>1
    <3> QED BY <1>3, <1>4, <3>1 DEF Range
  <2> QED BY <1>3, <1>5, <2>1, <2>2
<1>6. Range(s) \subseteq Range(u)
  <2>1. ASSUME NEW i \in 1..m PROVE s[i] \in Range(u)
    <3>1. i \in 1..(m + n)
      BY <1>3, <2>1
    <3> QED BY <1>3, <1>4, <3>1, SMTT(120) DEF Range
  <2> QED BY <1>3, <2>1 DEF Range
<1>7. Range(t) \subseteq Range(u)
  <2>1. ASSUME NEW i \in 1..n PROVE t[i] \in Range(u)
    <3>1. m + i \in 1..(m + n)
      BY <1>3, <2>1
    <3> QED BY <1>3, <1>4, <3>1 DEF Range
  <2> QED BY <1>3, <2>1 DEF Range
<1>8. Range(u) = Range(s) \cup Range(t)
  <2>1. Range(u) \subseteq Range(s) \cup Range(t)
    BY <1>3, <1>5 DEF Range
  <2> QED BY <1>6, <1>7, <2>1
<1> QED BY <1>1, <1>2, <1>8 DEF Lines, Text

\* ... is in order if both are and the lines of the first come first.
LEMMA ConcatInOrder ==
  ASSUME NEW s \in Text, NEW t \in Text, InOrder(s), InOrder(t),
         Before(Lines(s), Lines(t))
  PROVE  InOrder(s \o t)
<1>1. /\ s \o t \in Seq(Nat) /\ Len(s \o t) = Len(s) + Len(t)
      /\ Len(s) \in Nat /\ Len(t) \in Nat
      /\ \A i \in 1..Len(s) : (s \o t)[i] = s[i]
      /\ \A i \in 1..Len(t) : (s \o t)[Len(s) + i] = t[i]
  BY ConcatProperties DEF Text
<1>2. PICK u, m, n : u = s \o t /\ m = Len(s) /\ n = Len(t)
  BY Zenon
<1>3. DOMAIN u = 1..(m + n) /\ DOMAIN s = 1..m /\ DOMAIN t = 1..n /\ m \in Nat /\ n \in Nat
  BY <1>1, <1>2 DEF Text
<1>4. /\ \A i \in 1..m : u[i] = s[i]
      /\ \A i \in 1..n : u[m + i] = t[i]
  BY <1>1, <1>2
<1>5. ASSUME NEW i \in 1..(m + n) PROVE i \in 1..m \/ \E j \in 1..n : i = m + j
  <2>1. i <= m \/ (i - m \in 1..n /\ i = m + (i - m))
    BY <1>3, <1>5
  <2> QED BY <1>3, <1>5, <2>1
<1>6. SUFFICES ASSUME NEW i \in 1..(m + n), NEW j \in 1..(m + n), i < j,
                      u[i] # DropNotice, u[j] # DropNotice
               PROVE  u[i] < u[j]
  BY <1>2, <1>3, Zenon DEF InOrder
<1>7. CASE i \in 1..m /\ j \in 1..m
  BY <1>3, <1>4, <1>6, <1>7 DEF InOrder
<1>8. CASE i \in 1..m /\ j \notin 1..m
  <2>1. PICK k \in 1..n : j = m + k
    BY <1>5, <1>8
  <2>2. u[i] = s[i] /\ u[j] = t[k]
    BY <1>4, <1>8, <2>1
  <2>3. u[i] \in Lines(s) /\ u[j] \in Lines(t)
    BY <1>3, <1>6, <1>8, <2>1, <2>2 DEF Lines, Range
  <2> QED BY <2>3 DEF Before
<1>9. CASE i \notin 1..m
  <2>1. PICK a \in 1..n : i = m + a
    BY <1>5, <1>9
  <2>2. j \notin 1..m
    BY <1>3, <1>6, <2>1
  <2>3. PICK b \in 1..n : j = m + b
    BY <1>5, <2>2
  <2>4. a < b /\ u[i] = t[a] /\ u[j] = t[b]
    BY <1>3, <1>4, <1>6, <2>1, <2>3
  <2> QED BY <1>3, <1>6, <2>4 DEF InOrder
<1> QED BY <1>7, <1>8, <1>9

\* A text with one line appended.
LEMMA AppendText ==
  ASSUME NEW s \in Text, NEW x \in Nat
  PROVE  /\ Append(s, x) \in Text
         /\ Range(Append(s, x)) = Range(s) \cup {x}
         /\ x # DropNotice => Lines(Append(s, x)) = Lines(s) \cup {x}
         /\ InOrder(s) /\ Before(Lines(s), {x}) => InOrder(Append(s, x))
<1>1. <<x>> \in Text /\ Range(<<x>>) = {x} /\ InOrder(<<x>>) /\ Append(s, x) = s \o <<x>>
  <2>1. Append(s, x) = s \o <<x>>
    BY AppendIsConcat DEF Text
  <2> QED BY <2>1 DEF Range, InOrder, Text
<1>2. Lines(<<x>>) \subseteq {x} /\ (x # DropNotice => Lines(<<x>>) = {x})
  BY <1>1 DEF Lines
<1>3. Before(Lines(s), {x}) => Before(Lines(s), Lines(<<x>>))
  BY <1>2 DEF Before
<1>4. ASSUME InOrder(s), Before(Lines(s), {x}) PROVE InOrder(s \o <<x>>)
  BY <1>1, <1>3, <1>4, ConcatInOrder, Zenon
<1>5. s \o <<x>> \in Text /\ Range(s \o <<x>>) = Range(s) \cup {x}
      /\ Lines(s \o <<x>>) = Lines(s) \cup Lines(<<x>>)
  BY <1>1, ConcatText, Zenon
<1> QED BY <1>1, <1>2, <1>4, <1>5, Zenon

-----------------------------------------------------------------------------
(* Pieces, as functions of integers.                                       *)

\* A line of a collection of pieces is a line of one of them.
LEMMA InPieces ==
  ASSUME NEW p
  PROVE  /\ \A x : x \in LinesOf(p) <=> \E k \in DOMAIN p : x \in Lines(p[k])
         /\ \A k \in DOMAIN p : Lines(p[k]) \subseteq LinesOf(p)
BY Zenon DEF LinesOf

\* Another piece behind a sequence of pieces.
LEMMA AppendPiece ==
  ASSUME NEW p \in Seq(Text), NEW s \in Text, PiecesInOrder(p), InOrder(s),
         Before(LinesOf(p), Lines(s))
  PROVE  /\ PiecesInOrder(Append(p, s))
         /\ LinesOf(Append(p, s)) = LinesOf(p) \cup Lines(s)
<1>1. PICK q, n : q = Append(p, s) /\ n = Len(p)
  BY Zenon
<1>2. /\ DOMAIN p = 1..n /\ DOMAIN q = 1..(n + 1) /\ n \in Nat
      /\ \A i \in 1..n : q[i] = p[i]
      /\ q[n + 1] = s
  BY <1>1, AppendProperties
<1>3. \A i \in 1..(n + 1) : i \in 1..n \/ i = n + 1
  BY <1>2
<1>4. n + 1 \in 1..(n + 1) /\ \A i \in 1..n : i \in 1..(n + 1)
  BY <1>2
<1>5. LinesOf(q) = LinesOf(p) \cup Lines(s)
  <2>1. \A x : x \in LinesOf(q) <=> \E k \in 1..(n + 1) : x \in Lines(q[k])
    BY <1>2, InPieces, Zenon
  <2>2. \A x : x \in LinesOf(p) <=> \E k \in 1..n : x \in Lines(p[k])
    BY <1>2, InPieces, Zenon
  <2>3. \A x : x \in LinesOf(q) <=> x \in LinesOf(p) \/ x \in Lines(s)
    BY <1>2, <1>3, <1>4, <2>1, <2>2
  <2> QED BY <2>3
<1>6. PiecesInOrder(q)
  <2>1. ASSUME NEW k \in 1..(n + 1) PROVE InOrder(q[k])
    BY <1>2, <1>3, <2>1 DEF PiecesInOrder
  <2>2. ASSUME NEW k \in 1..(n + 1), NEW l \in 1..(n + 1), k < l
        PROVE  Before(Lines(q[k]), Lines(q[l]))
    <3>1. k \in 1..n
      BY <1>2, <2>2
    <3>2. CASE l \in 1..n
      BY <1>2, <2>2, <3>1, <3>2 DEF PiecesInOrder
    <3>3. CASE l = n + 1
      <4>1. q[l] = s /\ q[k] = p[k] /\ Lines(p[k]) \subseteq LinesOf(p)
        BY <1>2, <3>1, <3>3, InPieces
      <4> QED BY <4>1 DEF Before
    <3> QED BY <1>3, <3>2, <3>3
  <2> QED BY <1>2, <2>1, <2>2 DEF PiecesInOrder
<1> QED BY <1>1, <1>5, <1>6

\* No piece, and one piece.
LEMMA FewPieces ==
  /\ PiecesInOrder(<< >>) /\ LinesOf(<< >>) = {} /\ Lines(<< >>) = {} /\ InOrder(<< >>)
  /\ \A s : LinesOf(<<s>>) = Lines(s) /\ (PiecesInOrder(<<s>>) <=> InOrder(s))
<1>1. DOMAIN << >> = {}
  OBVIOUS
<1>2. PiecesInOrder(<< >>) /\ LinesOf(<< >>) = {} /\ Lines(<< >>) = {} /\ InOrder(<< >>)
  BY <1>1, Zenon DEF PiecesInOrder, LinesOf, Lines, InOrder, Range
<1>3. ASSUME NEW s PROVE LinesOf(<<s>>) = Lines(s) /\ (PiecesInOrder(<<s>>) <=> InOrder(s))
  <2>1. DOMAIN <<s>> = {1} /\ <<s>>[1] = s
    OBVIOUS
  <2>2. \A k, l \in {1} : ~(k < l)
    OBVIOUS
  <2>3. LinesOf(<<s>>) = Lines(s)
    <3>1. \A x : x \in LinesOf(<<s>>) <=> x \in Lines(s)
      BY <2>1, InPieces
    <3> QED BY <3>1
  <2> QED BY <2>1, <2>2, <2>3 DEF PiecesInOrder
<1> QED BY <1>2, <1>3

-----------------------------------------------------------------------------
(* The files on disk.                                                      *)

Disks == UNION {[N -> Text] : N \in SUBSET Nat}
NoticeOn(d) == DropNotice \in UNION {Range(d[n]) : n \in DOMAIN d}

\* Text goes to the end of the last file.
LEMMA LastFile ==
  ASSUME NEW d \in Disks, NEW n \in DOMAIN d, \A m \in DOMAIN d : m <= n,
         NEW b \in Text, PiecesInOrder(d), InOrder(b), Before(LinesOf(d), Lines(b)),
         NEW e, e = [d EXCEPT ![n] = @ \o b]
  PROVE  /\ e \in Disks /\ DOMAIN e = DOMAIN d /\ PiecesInOrder(e)
         /\ LinesOf(e) = LinesOf(d) \cup Lines(b)
         /\ NoticeOn(e) <=> NoticeOn(d) \/ DropNotice \in Range(b)
<1>1. DOMAIN d \in SUBSET Nat /\ d \in [DOMAIN d -> Text]
  BY Zenon DEF Disks
<1>2. /\ d[n] \o b \in Text
      /\ Range(d[n] \o b) = Range(d[n]) \cup Range(b)
      /\ Lines(d[n] \o b) = Lines(d[n]) \cup Lines(b)
  BY <1>1, ConcatText, Zenon
<1>3. DOMAIN e = DOMAIN d /\ e[n] = d[n] \o b /\ \A m \in DOMAIN d : m # n => e[m] = d[m]
  BY <1>1, SMTT(30)
<1>4. e \in Disks
  <2>1. e \in [DOMAIN d -> Text]
    BY <1>1, <1>2
  <2> QED BY <1>1, <2>1, Zenon DEF Disks
<1>5. LinesOf(e) = LinesOf(d) \cup Lines(b)
  <2>1. \A x : x \in LinesOf(e) <=> \E k \in DOMAIN d : x \in Lines(e[k])
    BY <1>3, InPieces, Zenon
  <2>2. \A x : x \in LinesOf(d) <=> \E k \in DOMAIN d : x \in Lines(d[k])
    BY InPieces, Zenon
  <2>3. \A x : x \in LinesOf(e) <=> x \in LinesOf(d) \/ x \in Lines(b)
    BY <1>2, <1>3, <2>1, <2>2, Zenon
  <2> QED BY <2>3, Zenon
<1>6. PiecesInOrder(e)
  <2>1. Lines(d[n]) \subseteq LinesOf(d) /\ InOrder(d[n]) /\ d[n] \in Text
    BY <1>1, InPieces, SMTT(30) DEF PiecesInOrder
  <2>2. InOrder(e[n])
    <3>1. Before(Lines(d[n]), Lines(b))
      BY <2>1 DEF Before
    <3> QED BY <1>3, <2>1, <3>1, ConcatInOrder
  <2>3. ASSUME NEW k \in DOMAIN d PROVE InOrder(e[k])
    BY <1>3, <2>2, <2>3, SMTT(30) DEF PiecesInOrder
  <2>4. ASSUME NEW k \in DOMAIN d, NEW l \in DOMAIN d, k < l
        PROVE  Before(Lines(e[k]), Lines(e[l]))
    <3>1. k # n /\ e[k] = d[k]
      <4>1. k \in Nat /\ l \in Nat /\ n \in Nat /\ l <= n
        BY <1>1
      <4>2. k # n
        BY <2>4, <4>1, SMTT(30)
      <4> QED BY <1>3, <4>2
    <3>2. Before(Lines(d[k]), Lines(d[l])) /\ Lines(d[k]) \subseteq LinesOf(d)
      BY <2>4, InPieces, SMTT(30) DEF PiecesInOrder
    <3>3. CASE l = n
      BY <1>2, <1>3, <3>1, <3>2, <3>3, SMTT(30) DEF Before
    <3>4. CASE l # n
      BY <1>3, <3>1, <3>2, <3>4
    <3> QED BY <3>3, <3>4
  <2> QED BY <1>3, <2>3, <2>4 DEF PiecesInOrder
<1>7. NoticeOn(e) <=> NoticeOn(d) \/ DropNotice \in Range(b)
  <2>1. NoticeOn(e) <=> \E k \in DOMAIN d : DropNotice \in Range(e[k])
    BY <1>3, Zenon DEF NoticeOn
  <2>2. NoticeOn(d) <=> \E k \in DOMAIN d : DropNotice \in Range(d[k])
    BY Zenon DEF NoticeOn
  <2> QED BY <1>2, <1>3, <2>1, <2>2, Zenon
<1> QED BY <1>3, <1>4, <1>5, <1>6, <1>7, Zenon

\* A file is opened after the last one.
LEMMA NextFile ==
  ASSUME NEW d \in Disks, NEW n \in Nat, \A m \in DOMAIN d : m < n, PiecesInOrder(d),
         NEW e, e = [m \in DOMAIN d \cup {n} |-> IF m \in DOMAIN d THEN d[m] ELSE << >>]
  PROVE  /\ e \in Disks /\ DOMAIN e = DOMAIN d \cup {n} /\ PiecesInOrder(e)
         /\ LinesOf(e) = LinesOf(d)
         /\ NoticeOn(e) <=> NoticeOn(d)
<1>1. DOMAIN d \in SUBSET Nat /\ d \in [DOMAIN d -> Text]
  BY Zenon DEF Disks
<1>2. n \notin DOMAIN d /\ << >> \in Text
  BY <1>1 DEF Text
<1>3. /\ DOMAIN e = DOMAIN d \cup {n} /\ e[n] = << >>
      /\ \A m \in DOMAIN d : e[m] = d[m]
  BY <1>2
<1>4. e \in Disks
  <2>1. e \in [DOMAIN d \cup {n} -> Text] /\ DOMAIN d \cup {n} \in SUBSET Nat
    BY <1>1, <1>2, SMTT(30)
  <2> QED BY <2>1, Zenon DEF Disks
<1>5. Lines(e[n]) = {} /\ InOrder(e[n]) /\ Range(e[n]) = {}
  <2>1. Range(<< >>) = {}
    BY DEF Range
  <2> QED BY <1>3, <2>1, FewPieces
<1>6. LinesOf(e) = LinesOf(d)
  <2>1. \A x : x \in LinesOf(e) <=> \E k \in DOMAIN d \cup {n} : x \in Lines(e[k])
    BY <1>3, InPieces, Zenon
  <2>2. \A x : x \in LinesOf(d) <=> \E k \in DOMAIN d : x \in Lines(d[k])
    BY InPieces, Zenon
  <2>3. \A x : x \in LinesOf(e) <=> x \in LinesOf(d)
    BY <1>3, <1>5, <2>1, <2>2, Zenon
  <2> QED BY <2>3, Zenon
<1>7. PiecesInOrder(e)
  <2>1. ASSUME NEW k \in DOMAIN d \cup {n} PROVE InOrder(e[k])
    BY <1>3, <1>5, <2>1 DEF PiecesInOrder
  <2>2. ASSUME NEW k \in DOMAIN d \cup {n}, NEW l \in DOMAIN d \cup {n}, k < l
        PROVE  Before(Lines(e[k]), Lines(e[l]))
    <3>1. CASE k \in DOMAIN d /\ l \in DOMAIN d
      BY <1>3, <2>2, <3>1 DEF PiecesInOrder
    <3>2. CASE k = n \/ l = n
      BY <1>5, <3>2 DEF Before
    <3> QED BY <3>1, <3>2
  <2> QED BY <1>3, <2>1, <2>2, Zenon DEF PiecesInOrder
<1>8. NoticeOn(e) <=> NoticeOn(d)
  <2>1. NoticeOn(e) <=> \E k \in DOMAIN d \cup {n} : DropNotice \in Range(e[k])
    BY <1>3, Zenon DEF NoticeOn
  <2>2. NoticeOn(d) <=> \E k \in DOMAIN d : DropNotice \in Range(d[k])
    BY Zenon DEF NoticeOn
  <2> QED BY <1>3, <1>5, <2>1, <2>2, Zenon
<1> QED BY <1>3, <1>4, <1>6, <1>7, <1>8

-----------------------------------------------------------------------------
(* LogFile's functions keep its files in order.                            *)

LogFiles ==
  [disk : Disks, name : Nat, buffered : Text, bytes : Nat, count : Nat,
   startOfPeriod : {Period(n) : n \in Nat}, lastRoll : Nat, lastFlush : Nat,
   at : Nat, late : Nat]

Shape(f) ==
  f = [disk |-> f.disk, name |-> f.name, buffered |-> f.buffered, bytes |-> f.bytes,
       count |-> f.count, startOfPeriod |-> f.startOfPeriod, lastRoll |-> f.lastRoll,
       lastFlush |-> f.lastFlush, at |-> f.at, late |-> f.late]

\* The open file is the last one, and what is in stdio's buffer follows it.
GoodFile(f) ==
  /\ f \in LogFiles
  /\ f.lastRoll = f.name /\ f.name \in DOMAIN f.disk
  /\ \A n \in DOMAIN f.disk : n <= f.name
  /\ PiecesInOrder(f.disk) /\ InOrder(f.buffered)
  /\ Before(LinesOf(f.disk), Lines(f.buffered))

FileLines(f) == LinesOf(f.disk) \cup Lines(f.buffered)
Noticed(f) == NoticeOn(f.disk) \/ DropNotice \in Range(f.buffered)

\* The same files with the same lines.
Keeps(f, g) == GoodFile(g) /\ FileLines(g) = FileLines(f) /\ (Noticed(g) <=> Noticed(f))

\* What does not touch the files.
LEMMA MembersOnly ==
  ASSUME NEW f, GoodFile(f), NEW g \in LogFiles, g.disk = f.disk, g.buffered = f.buffered,
         g.name = f.name, g.lastRoll = f.lastRoll
  PROVE  Keeps(f, g)
BY Zenon DEF Keeps, GoodFile, FileLines, Noticed

\* fflush moves stdio's buffer to the end of the open file.
LEMMA FlushKeeps ==
  ASSUME NEW f, GoodFile(f)
  PROVE  /\ Keeps(f, Flush(f))
         /\ Flush(f).buffered = << >> /\ Flush(f).name = f.name
         /\ DOMAIN Flush(f).disk = DOMAIN f.disk
         /\ Flush(f).bytes = f.bytes /\ Flush(f).count = f.count /\ Flush(f).at = f.at
         /\ Flush(f).late = f.late /\ Flush(f).lastRoll = f.lastRoll
         /\ Flush(f).startOfPeriod = f.startOfPeriod
<1> DEFINE g == Flush(f)
<1>1. f \in LogFiles
  BY DEF GoodFile
<1>2. /\ g.disk = [f.disk EXCEPT ![f.name] = @ \o f.buffered] /\ g.buffered = << >>
      /\ g.name = f.name /\ g.bytes = f.bytes /\ g.count = f.count
      /\ g.startOfPeriod = f.startOfPeriod /\ g.lastRoll = f.lastRoll
      /\ g.lastFlush = f.lastFlush /\ g.at = f.at /\ g.late = f.late
      /\ Shape(g)
  <2>1. g = [[f EXCEPT !.disk = [f.disk EXCEPT ![f.name] = @ \o f.buffered]]
               EXCEPT !.buffered = << >>]
    BY <1>1, Zenon DEF Flush
  <2>2. PICK d : d = [f.disk EXCEPT ![f.name] = @ \o f.buffered]
    BY Zenon
  <2> HIDE DEF g
  <2> QED BY <1>1, <2>1, <2>2, Zenon DEF LogFiles, Shape
<1> HIDE DEF g
<1>3. /\ g.disk \in Disks /\ DOMAIN g.disk = DOMAIN f.disk /\ PiecesInOrder(g.disk)
      /\ LinesOf(g.disk) = LinesOf(f.disk) \cup Lines(f.buffered)
      /\ NoticeOn(g.disk) <=> NoticeOn(f.disk) \/ DropNotice \in Range(f.buffered)
  <2>1. f.disk \in Disks /\ f.buffered \in Text
    BY <1>1 DEF LogFiles
  <2>2. /\ f.name \in DOMAIN f.disk /\ \A m \in DOMAIN f.disk : m <= f.name
        /\ PiecesInOrder(f.disk) /\ InOrder(f.buffered)
        /\ Before(LinesOf(f.disk), Lines(f.buffered))
    BY DEF GoodFile
  <2> QED BY <1>2, <2>1, <2>2, LastFile, Zenon
<1>4. << >> \in Text /\ Lines(<< >>) = {} /\ InOrder(<< >>) /\ Range(<< >>) = {}
  BY FewPieces DEF Text, Range
<1>5. g \in LogFiles
  BY <1>1, <1>2, <1>3, <1>4, Zenon DEF LogFiles, Shape
<1>6. GoodFile(g)
  <2>1. Before(LinesOf(g.disk), Lines(g.buffered))
    BY <1>2, <1>4, Zenon DEF Before
  <2> QED BY <1>2, <1>3, <1>4, <1>5, <2>1, Zenon DEF GoodFile
<1>7. FileLines(g) = FileLines(f)
  BY <1>2, <1>3, <1>4, Zenon DEF FileLines
<1>8. Noticed(g) <=> Noticed(f)
  BY <1>2, <1>3, <1>4, Zenon DEF Noticed
<1> QED BY <1>2, <1>3, <1>6, <1>7, <1>8, Zenon DEF g, Keeps

\* rollFile opens a file after the last one, or does nothing.
LEMMA RollKeeps ==
  ASSUME NEW f, GoodFile(f), NEW now \in Nat
  PROVE  /\ Keeps(f, RollFile(f, now))
         /\ RollFile(f, now).count = f.count /\ RollFile(f, now).late = f.late
         /\ RollFile(f, now).at = f.at
         /\ IF now > f.lastRoll
              THEN RollFile(f, now).lastRoll = now /\ RollFile(f, now).bytes = 0
              ELSE RollFile(f, now) = f
<1>1. CASE ~(now > f.lastRoll)
  BY <1>1, Zenon DEF RollFile, Keeps
<1>2. CASE now > f.lastRoll
  <2> DEFINE o == Flush(f)
             g == RollFile(f, now)
  <2>1. /\ GoodFile(o) /\ FileLines(o) = FileLines(f) /\ (Noticed(o) <=> Noticed(f))
        /\ o.buffered = << >> /\ o.name = f.name /\ DOMAIN o.disk = DOMAIN f.disk
        /\ o.count = f.count /\ o.at = f.at /\ o.late = f.late
    BY FlushKeeps, Zenon DEF Keeps
  <2>2. o \in LogFiles
    BY <2>1, Zenon DEF GoodFile
  <2>3. g = [o EXCEPT !.lastRoll = now, !.lastFlush = now, !.startOfPeriod = Period(now),
               !.name = now, !.bytes = 0,
               !.disk = [n \in DOMAIN o.disk \cup {now} |->
                           IF n \in DOMAIN o.disk THEN o.disk[n] ELSE << >>]]
    BY <1>2, Zenon DEF RollFile
  <2> HIDE DEF o, g
  <2>4. /\ g.disk = [n \in DOMAIN o.disk \cup {now} |->
                       IF n \in DOMAIN o.disk THEN o.disk[n] ELSE << >>]
        /\ g.buffered = << >> /\ g.name = now /\ g.bytes = 0 /\ g.count = o.count
        /\ g.startOfPeriod = Period(now) /\ g.lastRoll = now
        /\ g.lastFlush = now /\ g.at = o.at /\ g.late = o.late
        /\ Shape(g)
    BY <2>1, <2>2, <2>3, Zenon DEF LogFiles, Shape
  <2>5. \A m \in DOMAIN o.disk : m \in Nat /\ m < now
    <3>1. f.name < now /\ f.name \in Nat
      BY <1>2 DEF GoodFile, LogFiles
    <3>2. \A m \in DOMAIN o.disk : m \in Nat /\ m <= f.name
      <4>1. DOMAIN o.disk \in SUBSET Nat
        BY <2>2, Zenon DEF LogFiles, Disks
      <4> QED BY <2>1, <4>1, Zenon DEF GoodFile
    <3> QED BY <3>1, <3>2
  <2>6. /\ g.disk \in Disks /\ DOMAIN g.disk = DOMAIN o.disk \cup {now} /\ PiecesInOrder(g.disk)
        /\ LinesOf(g.disk) = LinesOf(o.disk) /\ (NoticeOn(g.disk) <=> NoticeOn(o.disk))
    <3>1. o.disk \in Disks /\ PiecesInOrder(o.disk)
      BY <2>1, <2>2 DEF GoodFile, LogFiles
    <3> QED BY <2>4, <2>5, <3>1, NextFile, Zenon
  <2>7. << >> \in Text /\ Lines(<< >>) = {} /\ InOrder(<< >>)
    BY FewPieces, SMTT(30) DEF Text
  <2>8. g \in LogFiles
    <3>1. g.startOfPeriod \in {Period(n) : n \in Nat}
      BY <2>4, Zenon
    <3>2. o.count \in Nat /\ o.at \in Nat /\ o.late \in Nat
      BY <2>2 DEF LogFiles
    <3>3. /\ g.disk \in Disks /\ g.name \in Nat /\ g.buffered \in Text /\ g.bytes \in Nat
          /\ g.count \in Nat /\ g.lastRoll \in Nat /\ g.lastFlush \in Nat
          /\ g.at \in Nat /\ g.late \in Nat
      BY <2>4, <2>6, <2>7, <3>2
    <3> QED BY <2>4, <3>1, <3>3, Zenon DEF LogFiles, Shape
  <2>9. \A n \in DOMAIN g.disk : n <= now
    BY <2>5, <2>6
  <2>10. GoodFile(g)
    <3>1. Before(LinesOf(g.disk), Lines(g.buffered))
      BY <2>4, <2>7, Zenon DEF Before
    <3>2. now \in DOMAIN g.disk
      BY <2>6
    <3> QED BY <2>4, <2>6, <2>7, <2>8, <2>9, <3>1, <3>2, ZenonT(120) DEF GoodFile
  <2>11. FileLines(g) = FileLines(f) /\ (Noticed(g) <=> Noticed(f))
    BY <2>1, <2>4, <2>6, Zenon DEF FileLines, Noticed
  <2> QED BY <1>2, <2>1, <2>4, <2>10, <2>11, Zenon DEF g, Keeps
<1> QED BY <1>1, <1>2

\* Doing one after the other.
LEMMA KeepsBoth ==
  ASSUME NEW f, NEW g, NEW h, Keeps(f, g), Keeps(g, h)
  PROVE  Keeps(f, h)
BY Zenon DEF Keeps

\* A period is due when rollFile would open a file for a new one.
Due(f, now) == now > f.lastRoll /\ Period(now) # f.startOfPeriod

\* The check on the count of appends, which leaves no roll due when made.
LEMMA CheckedKeeps ==
  ASSUME NEW f, GoodFile(f), f.count < CheckEveryN, NEW now \in Nat
  PROVE  /\ Keeps(f, Checked(f, now))
         /\ Checked(f, now).bytes \in {0, f.bytes}
         /\ Checked(f, now).at = f.at /\ Checked(f, now).late = f.late
         /\ \/ Checked(f, now).count = f.count + 1 /\ f.count + 1 < CheckEveryN
            \/ Checked(f, now).count = 0 /\ ~Due(Checked(f, now), now)
<1>1. f \in LogFiles /\ f.count \in Nat
  BY SMTT(30) DEF GoodFile, LogFiles
<1>2. CASE f.count + 1 < CheckEveryN
  <2>1. PICK g : g = [f EXCEPT !.count = @ + 1]
    BY Zenon
  <2>2. /\ g \in LogFiles /\ g.disk = f.disk /\ g.buffered = f.buffered /\ g.name = f.name
        /\ g.lastRoll = f.lastRoll /\ g.bytes = f.bytes /\ g.at = f.at /\ g.late = f.late
        /\ g.count = f.count + 1
    BY <1>1, <2>1 DEF LogFiles
  <2>3. Keeps(f, g)
    BY <2>2, MembersOnly, Zenon
  <2>4. Checked(f, now) = g
    BY <1>2, <2>1, Zenon DEF Checked
  <2> QED BY <1>2, <2>2, <2>3, <2>4, SMTT(30)
<1>3. CASE ~(f.count + 1 < CheckEveryN)
  <2>1. PICK g : g = [f EXCEPT !.count = 0]
    BY Zenon
  <2>2. /\ g \in LogFiles /\ g.disk = f.disk /\ g.buffered = f.buffered /\ g.name = f.name
        /\ g.lastRoll = f.lastRoll /\ g.bytes = f.bytes /\ g.at = f.at /\ g.late = f.late
        /\ g.count = 0 /\ g.startOfPeriod = f.startOfPeriod
    BY <1>1, <2>1 DEF LogFiles
  <2>3. Keeps(f, g) /\ GoodFile(g)
    BY <2>2, MembersOnly, Zenon DEF Keeps
  <2>4. CASE Period(now) # g.startOfPeriod
    <3>1. Checked(f, now) = RollFile(g, now)
      BY <1>3, <2>1, <2>4, Zenon DEF Checked
    <3>2. PICK h : h = RollFile(g, now)
      BY Zenon
    <3>3. /\ Keeps(g, h) /\ h.count = g.count /\ h.late = g.late /\ h.at = g.at
          /\ IF now > g.lastRoll THEN h.lastRoll = now /\ h.bytes = 0 ELSE h = g
      BY <2>3, <3>2, RollKeeps, ZenonT(30)
    <3>4. Keeps(f, h)
      BY <2>3, <3>3, KeepsBoth, Zenon
    <3>5. ~(now > h.lastRoll) /\ h.bytes \in {0, f.bytes}
      BY <2>2, <3>3
    <3> QED BY <2>2, <3>1, <3>2, <3>3, <3>4, <3>5, Zenon DEF Due
  <2>5. CASE Period(now) = g.startOfPeriod /\ now - g.lastFlush > FlushInterval
    <3>1. PICK h : h = [g EXCEPT !.lastFlush = now]
      BY Zenon
    <3>2. Checked(f, now) = Flush(h)
      BY <1>3, <2>1, <2>5, <3>1, Zenon DEF Checked
    <3>3. /\ h \in LogFiles /\ h.disk = g.disk /\ h.buffered = g.buffered /\ h.name = g.name
          /\ h.lastRoll = g.lastRoll /\ h.bytes = g.bytes /\ h.at = g.at /\ h.late = g.late
          /\ h.count = 0 /\ h.startOfPeriod = g.startOfPeriod
      BY <2>2, <3>1 DEF LogFiles
    <3>4. Keeps(g, h) /\ GoodFile(h)
      BY <2>3, <3>3, MembersOnly, Zenon DEF Keeps
    <3>5. /\ Keeps(h, Flush(h)) /\ Flush(h).bytes = h.bytes /\ Flush(h).count = h.count
          /\ Flush(h).at = h.at /\ Flush(h).late = h.late
          /\ Flush(h).startOfPeriod = h.startOfPeriod
      BY <3>4, FlushKeeps, Zenon
    <3>6. Keeps(f, Flush(h))
      BY <2>3, <3>4, <3>5, KeepsBoth, Zenon
    <3> QED BY <2>2, <2>5, <3>2, <3>3, <3>5, <3>6, Zenon DEF Due
  <2>6. CASE Period(now) = g.startOfPeriod /\ ~(now - g.lastFlush > FlushInterval)
    <3>1. Checked(f, now) = g
      BY <1>3, <2>1, <2>6, Zenon DEF Checked
    <3> QED BY <2>2, <2>3, <2>6, <3>1, Zenon DEF Due
  <2> QED BY <2>4, <2>5, <2>6, Zenon
<1> QED BY <1>2, <1>3, Zenon

\* What the size, the count and the lateness of the open file satisfy.
Rolls(f) ==
  /\ f.late <= f.count /\ f.count < CheckEveryN
  /\ f.bytes > RollSize => f.at <= f.lastRoll

\* append_unlocked adds the lines of its chunk behind all others.
LEMMA AppendKeeps ==
  ASSUME NEW f, GoodFile(f), Rolls(f), NEW now \in Nat, NEW chunk \in Text, InOrder(chunk),
         Before(FileLines(f), Lines(chunk))
  PROVE  /\ GoodFile(AppendUnlocked(f, chunk, now)) /\ Rolls(AppendUnlocked(f, chunk, now))
         /\ FileLines(AppendUnlocked(f, chunk, now)) = FileLines(f) \cup Lines(chunk)
         /\ Noticed(AppendUnlocked(f, chunk, now)) <=> Noticed(f) \/ DropNotice \in Range(chunk)
<1> DEFINE longer == [f EXCEPT !.buffered = @ \o chunk, !.bytes = @ + Len(chunk), !.at = now]
           g == IF longer.bytes > RollSize THEN RollFile(longer, now) ELSE Checked(longer, now)
           h == AppendUnlocked(f, chunk, now)
<1>1. f \in LogFiles /\ f.count \in Nat /\ f.buffered \in Text /\ Len(chunk) \in Nat
  <2>1. Len(chunk) \in Nat
    BY SMTT(30) DEF Text
  <2>2. f \in LogFiles
    BY DEF GoodFile
  <2> QED BY <2>1, <2>2 DEF LogFiles
<1>2. /\ f.buffered \o chunk \in Text
      /\ Range(f.buffered \o chunk) = Range(f.buffered) \cup Range(chunk)
      /\ Lines(f.buffered \o chunk) = Lines(f.buffered) \cup Lines(chunk)
  BY <1>1, ConcatText, Zenon
<1>3. h = [g EXCEPT !.late = IF Due(g, now) THEN @ + 1 ELSE 0]
  BY Zenon DEF AppendUnlocked, Due
<1>4. /\ longer \in LogFiles /\ longer.disk = f.disk /\ longer.name = f.name
      /\ longer.lastRoll = f.lastRoll /\ longer.buffered = f.buffered \o chunk
      /\ longer.at = now /\ longer.count = f.count /\ longer.late = f.late
  <2>1. PICK b : b = f.buffered \o chunk
    BY Zenon
  <2>2. PICK n \in Nat : n = f.bytes + Len(chunk)
    BY <1>1, SMTT(30) DEF LogFiles
  <2>3. longer = [f EXCEPT !.buffered = b, !.bytes = n, !.at = now]
    BY <2>1, <2>2
  <2> HIDE DEF longer
  <2> QED BY <1>1, <1>2, <2>1, <2>3, Zenon DEF LogFiles
<1> HIDE DEF longer
<1>5. /\ GoodFile(longer) /\ FileLines(longer) = FileLines(f) \cup Lines(chunk)
      /\ Noticed(longer) <=> Noticed(f) \/ DropNotice \in Range(chunk)
  <2>1. InOrder(f.buffered \o chunk)
    <3>1. Before(Lines(f.buffered), Lines(chunk)) /\ InOrder(f.buffered)
      BY DEF Before, FileLines, GoodFile
    <3> QED BY <1>1, <3>1, ConcatInOrder, Zenon
  <2>2. Before(LinesOf(f.disk), Lines(f.buffered \o chunk))
    <3>1. Before(LinesOf(f.disk), Lines(f.buffered)) /\ Before(LinesOf(f.disk), Lines(chunk))
      BY DEF Before, FileLines, GoodFile
    <3> QED BY <1>2, <3>1, SMTT(30) DEF Before
  <2>3. GoodFile(longer)
    BY <1>4, <2>1, <2>2, ZenonT(120) DEF GoodFile
  <2>4. FileLines(longer) = FileLines(f) \cup Lines(chunk)
    BY <1>2, <1>4, SMTT(30) DEF FileLines
  <2>5. Noticed(longer) <=> Noticed(f) \/ DropNotice \in Range(chunk)
    BY <1>2, <1>4, SMTT(120) DEF Noticed
  <2> QED BY <2>3, <2>4, <2>5
<1>6. /\ Keeps(longer, g) /\ g.at = now /\ g.late = f.late
      /\ g.bytes > RollSize => g.at <= g.lastRoll
      /\ \/ g.count = f.count + 1 /\ f.count + 1 < CheckEveryN
         \/ g.count \in {0, f.count} /\ ~Due(g, now)
  <2>1. CASE longer.bytes > RollSize
    <3>1. /\ Keeps(longer, g) /\ g.count = f.count /\ g.late = f.late /\ g.at = now
          /\ IF now > longer.lastRoll THEN g.lastRoll = now /\ g.bytes = 0 ELSE g = longer
      BY <1>4, <1>5, <2>1, RollKeeps, ZenonT(120)
    <3>2. ~(now > g.lastRoll)
      BY <3>1, SMTT(60)
    <3>3. g.bytes > RollSize => g.at <= g.lastRoll
      <4>1. g.lastRoll \in Nat
        BY <3>1, SMTT(120) DEF Keeps, GoodFile, LogFiles
      <4> QED BY <3>1, <3>2, <4>1, SMTT(120)
    <3> HIDE DEF g
    <3> QED BY <3>1, <3>2, <3>3, SMTT(30) DEF Due
  <2>2. CASE ~(longer.bytes > RollSize)
    <3>1. longer.count < CheckEveryN
      BY <1>4, SMTT(30) DEF Rolls
    <3>2. /\ Keeps(longer, g) /\ g.bytes \in {0, longer.bytes}
          /\ g.at = longer.at /\ g.late = longer.late
          /\ \/ g.count = longer.count + 1 /\ longer.count + 1 < CheckEveryN
             \/ g.count = 0 /\ ~Due(g, now)
      BY <1>5, <2>2, <3>1, CheckedKeeps, ZenonT(120)
    <3> HIDE DEF g
    <3>3. ~(g.bytes > RollSize)
      BY <2>2, <3>2
    <3> QED BY <1>4, <3>2, <3>3, ZenonT(120)
  <2> QED BY <2>1, <2>2, ZenonT(120)
<1> HIDE DEF g
<1>7. /\ h \in LogFiles /\ h.disk = g.disk /\ h.buffered = g.buffered /\ h.name = g.name
      /\ h.lastRoll = g.lastRoll /\ h.bytes = g.bytes /\ h.at = g.at /\ h.count = g.count
      /\ h.late = IF Due(g, now) THEN g.late + 1 ELSE 0
  <2>1. g \in LogFiles
    BY <1>6 DEF Keeps, GoodFile
  <2>2. PICK n \in Nat : n = IF Due(g, now) THEN g.late + 1 ELSE 0
    BY <2>1 DEF LogFiles
  <2>3. h = [g EXCEPT !.late = n]
    BY <1>3, <2>1, <2>2 DEF LogFiles
  <2> HIDE DEF h
  <2> QED BY <2>1, <2>2, <2>3, SMTT(30) DEF LogFiles
<1> HIDE DEF h
<1>8. Keeps(longer, h)
  <2>1. Keeps(g, h)
    BY <1>6, <1>7, MembersOnly, Zenon DEF Keeps
  <2> QED BY <1>6, <2>1, KeepsBoth, Zenon
<1>9. Rolls(h)
  <2>1. f.late \in Nat /\ f.late <= f.count /\ f.count < CheckEveryN
    BY DEF Rolls, GoodFile, LogFiles
  <2>2. h.late <= h.count /\ h.count < CheckEveryN
    BY <1>1, <1>6, <1>7, <2>1
  <2> QED BY <1>6, <1>7, <2>2, Zenon DEF Rolls
<1> QED BY <1>5, <1>8, <1>9, Zenon DEF Keeps, h

-----------------------------------------------------------------------------
(* The logging thread never runs out of buffers.                           *)

\* What makes its assertions inductive: nextBuffer_ is only missing when a
\* full buffer was queued since the last swap, so newBuffer2 is only given
\* away along with two buffers to take it back from.
Spare ==
  /\ ~nextBuffer => buffers # <<>>
  /\ pc = "new" => newBuffer1 /\ newBuffer2 /\ buffersToWrite = <<>> /\ appended = 0
  /\ pc \in {"write", "append"} /\ ~newBuffer2 => Len(buffersToWrite) >= 2
  /\ pc # "append" => written = 0
  /\ appended <= MaxLines

BInv == TypeOK /\ BuffersRecycled /\ Spare

\* A new buffer and a new list of buffers are empty sequences of their types.
LEMMA EmptyTypes ==
  /\ <<>> \in Seq(Line) /\ <<>> \in Seq(Seq(Line)) /\ Len(<<>>) = 0
  /\ \A n \in Line : <<n>> \in Seq(Line) /\ Len(<<n>>) = 1
OBVIOUS

\* Appending keeps the type and adds one element.
LEMMA AppendTypes ==
  /\ \A s \in Seq(Line), n \in Line :
       Append(s, n) \in Seq(Line) /\ Len(Append(s, n)) = Len(s) + 1
  /\ \A s \in Seq(Seq(Line)), b \in Seq(Line) :
       /\ Append(s, b) \in Seq(Seq(Line))
       /\ Len(Append(s, b)) = Len(s) + 1
       /\ Append(s, b) # <<>>
BY AppendProperties

\* The constructor's state satisfies the invariant.
LEMMA InitBInv == Init => BInv
<1> SUFFICES ASSUME Init PROVE BInv
  OBVIOUS
<1>1. currentBuffer \in Seq(Line) /\ Len(currentBuffer) < BufferSize
  BY EmptyTypes DEF Init
<1>2. buffers \in Seq(Seq(Line)) /\ buffersToWrite \in Seq(Seq(Line))
  BY EmptyTypes DEF Init
<1>3. written \in 0..Len(buffersToWrite)
  BY EmptyTypes DEF Init
<1>4. TypeOK
  BY <1>1, <1>2, <1>3, Zenon DEF Init, TypeOK
<1> QED BY <1>4 DEF Init, BInv, BuffersRecycled, Spare

\* append() keeps it.
LEMMA AppendLineBInv == ASSUME BInv, AppendLine PROVE BInv'
<1> USE DEF BInv
<1>1. appended \in Nat /\ appended + 1 \in Line /\ appended' = appended + 1 /\ appended' \in Nat
      /\ appended' <= MaxLines
  BY DEF AppendLine, TypeOK, Line
<1>2. UNCHANGED <<running, pc, newBuffer1, newBuffer2, buffersToWrite, written>>
  BY DEF AppendLine
<1>3. CASE Fits(currentBuffer)
  <2>1. currentBuffer' \in Seq(Line) /\ Len(currentBuffer') = Len(currentBuffer) + 1
    <3>1. currentBuffer' = Append(currentBuffer, appended + 1)
      BY <1>3 DEF AppendLine
    <3>2. currentBuffer \in Seq(Line)
      BY DEF TypeOK
    <3> QED BY <1>1, <3>1, <3>2, AppendTypes
  <2>2. Len(currentBuffer') < BufferSize
    BY <1>3, <2>1 DEF Fits, TypeOK
  <2>3. UNCHANGED <<buffers, nextBuffer>>
    BY <1>3 DEF AppendLine
  <2>4. TypeOK'
    BY <1>1, <1>2, <2>1, <2>2, <2>3, Zenon DEF TypeOK
  <2>5. Spare'
    BY <1>1, <1>2, <2>3 DEF AppendLine, Spare
  <2> QED BY <1>2, <2>4, <2>5 DEF BuffersRecycled
<1>4. CASE ~Fits(currentBuffer)
  <2>1. currentBuffer' \in Seq(Line) /\ Len(currentBuffer') < BufferSize
    <3>1. currentBuffer' = <<appended + 1>>
      BY <1>4 DEF AppendLine
    <3>2. <<appended + 1>> \in Seq(Line) /\ Len(<<appended + 1>>) = 1
      BY <1>1, EmptyTypes
    <3> QED BY <3>1, <3>2
  <2>2. buffers' \in Seq(Seq(Line)) /\ buffers' # <<>>
    BY <1>4, AppendTypes, Zenon DEF AppendLine, TypeOK
  <2>3. nextBuffer' = FALSE
    BY <1>4 DEF AppendLine
  <2>4. TypeOK'
    BY <1>1, <1>2, <2>1, <2>2, <2>3, Zenon DEF TypeOK
  <2>5. Spare'
    BY <1>1, <1>2, <2>2 DEF AppendLine, Spare
  <2> QED BY <1>2, <2>4, <2>5 DEF BuffersRecycled
<1> QED BY <1>3, <1>4

\* The swap keeps it.
LEMMA SwapBInv == ASSUME BInv, SwapBuffers PROVE BInv'
<1> USE DEF BInv
<1>1. /\ currentBuffer' \in Seq(Line) /\ Len(currentBuffer') < BufferSize
      /\ buffersToWrite' \in Seq(Seq(Line)) /\ buffers' \in Seq(Seq(Line))
      /\ Len(buffersToWrite') = Len(buffers) + 1 /\ Len(buffers) \in Nat
  <2>1. currentBuffer' = <<>> /\ buffers' = <<>> /\ buffersToWrite' = Append(buffers, currentBuffer)
    BY DEF SwapBuffers
  <2>2. buffers \in Seq(Seq(Line)) /\ currentBuffer \in Seq(Line)
    BY DEF TypeOK
  <2> QED BY <2>1, <2>2, EmptyTypes, AppendTypes
<1>2. written' = 0 /\ written' \in 0..Len(buffersToWrite')
  BY <1>1 DEF SwapBuffers, Spare
<1>3. TypeOK'
  BY <1>1, <1>2, Zenon DEF SwapBuffers, TypeOK
<1>4. BuffersRecycled'
  BY <1>1 DEF SwapBuffers, BuffersRecycled
<1>5. ~newBuffer2' => buffers # <<>>
  BY DEF SwapBuffers, BuffersRecycled, Spare
<1>6. buffers # <<>> => Len(buffers) >= 1
  BY DEF TypeOK
<1>7. ~newBuffer2' => Len(buffersToWrite') >= 2
  BY <1>1, <1>5, <1>6
<1> QED BY <1>2, <1>3, <1>4, <1>7 DEF SwapBuffers, Spare

\* Cutting the backlog keeps two buffers.
LEMMA CutBInv == ASSUME BInv, CutBacklog PROVE BInv'
<1> USE DEF BInv
<1>1. /\ buffersToWrite' \in Seq(Seq(Line))
      /\ IF TooLong THEN Len(buffersToWrite') = 2 ELSE buffersToWrite' = buffersToWrite
  <2>1. buffersToWrite \in Seq(Seq(Line))
    BY DEF TypeOK
  <2>2. CASE TooLong
    <3>1. buffersToWrite' = SubSeq(buffersToWrite, 1, 2)
      BY <2>2 DEF CutBacklog
    <3>2. Len(buffersToWrite) > 2
      BY <2>1, <2>2 DEF TooLong
    <3>3. SubSeq(buffersToWrite, 1, 2) \in Seq(Seq(Line)) /\ Len(SubSeq(buffersToWrite, 1, 2)) = 2
      BY <2>1, <3>2, SubSeqProperties
    <3> QED BY <2>2, <3>1, <3>3
  <2>3. CASE ~TooLong
    BY <2>1, <2>3 DEF CutBacklog
  <2> QED BY <2>2, <2>3
<1>2. written' = 0 /\ Len(buffersToWrite') \in Nat /\ written' \in 0..Len(buffersToWrite')
  <2>1. written' = 0
    BY DEF CutBacklog, Spare
  <2> QED BY <1>1, <2>1
<1>3. UNCHANGED <<running, currentBuffer, nextBuffer, buffers, newBuffer1, newBuffer2, appended>>
      /\ pc' = "append" /\ pc = "write"
  BY DEF CutBacklog
<1>4. TypeOK'
  BY <1>1, <1>2, <1>3, Zenon DEF TypeOK
<1>5. buffersToWrite' # <<>>
  <2>1. buffersToWrite # <<>>
    BY <1>3 DEF BuffersRecycled
  <2>2. Len(buffersToWrite') = 2 => buffersToWrite' # <<>>
    BY EmptyTypes
  <2> QED BY <1>1, <2>1, <2>2, Zenon
<1>6. ~newBuffer2 => Len(buffersToWrite') >= 2
  BY <1>1, <1>3, SMTT(30) DEF Spare
<1> QED BY <1>3, <1>4, <1>5, <1>6 DEF BuffersRecycled, Spare

\* Enough written buffers survive to be used again.
LEMMA RecycleBInv == ASSUME BInv, Recycle PROVE BInv'
<1> USE DEF BInv
<1>1. buffersToWrite # <<>> /\ Len(buffersToWrite) \in Nat /\ Len(buffersToWrite) >= 1
  BY DEF Recycle, BuffersRecycled, TypeOK
<1>2. Recycled >= 1 /\ (~newBuffer2 => Recycled >= 2)
  BY <1>1 DEF Recycle, Recycled, Spare
<1>3. newBuffer1' = TRUE
  BY <1>2, Zenon DEF Recycle
<1>4. newBuffer2' = TRUE
  <2>1. CASE newBuffer2
    BY <2>1, Zenon DEF Recycle
  <2>2. CASE ~newBuffer2
    <3>1. Recycled >= (IF newBuffer1 THEN 1 ELSE 2)
      BY <1>2, <2>2
    <3> QED BY <3>1, Zenon DEF Recycle
  <2> QED BY <2>1, <2>2, Zenon
<1>5. /\ pc' = "test" /\ buffersToWrite' = <<>> /\ written' = 0
      /\ UNCHANGED <<running, currentBuffer, nextBuffer, buffers, appended>>
  BY DEF Recycle
<1>6. buffersToWrite' \in Seq(Seq(Line)) /\ written' \in 0..Len(buffersToWrite')
  BY <1>5, EmptyTypes
<1>7. TypeOK'
  BY <1>3, <1>4, <1>5, <1>6 DEF TypeOK
<1> QED BY <1>3, <1>4, <1>5, <1>7 DEF BuffersRecycled, Spare

\* Every step of an appender, of stop() and of threadFunc keeps it.
LEMMA StepBInv == BInv /\ [Next]_vars => BInv'
<1> SUFFICES ASSUME BInv, [Next]_vars PROVE BInv'
  OBVIOUS
<1>1. CASE Start
  BY <1>1 DEF BInv, Start, TypeOK, BuffersRecycled, Spare
<1>2. CASE Stop
  BY <1>2, Zenon DEF BInv, Stop, TypeOK, BuffersRecycled, Spare
<1>3. CASE TestRunning
  BY <1>3 DEF BInv, TestRunning, TypeOK, BuffersRecycled, Spare
<1>4. CASE WaitOnCond
  BY <1>4 DEF BInv, WaitOnCond, TypeOK, BuffersRecycled, Spare
<1>5. CASE AppendBuffer
  <2>1. written' \in 0..Len(buffersToWrite')
    BY <1>5 DEF BInv, AppendBuffer, TypeOK
  <2> QED BY <1>5, <2>1 DEF BInv, AppendBuffer, TypeOK, BuffersRecycled, Spare
<1>6. CASE UNCHANGED vars
  BY <1>6 DEF BInv, vars, TypeOK, BuffersRecycled, Spare
<1> QED BY <1>1, <1>2, <1>3, <1>4, <1>5, <1>6, AppendLineBInv, SwapBInv, CutBInv, RecycleBInv
  DEF Next, LogThread

\* The assertions of threadFunc on its spare buffers never fail.
THEOREM AssertionsHold == Spec => []BuffersRecycled
<1>1. BInv => BuffersRecycled
  BY DEF BInv
<1> QED BY InitBInv, StepBInv, <1>1, PTL DEF Spec

\* Types are kept, and append() leaves room in currentBuffer_.
THEOREM TypeCorrect == Spec => []TypeOK
<1>1. BInv => TypeOK
  BY DEF BInv
<1> QED BY InitBInv, StepBInv, <1>1, PTL DEF Spec

-----------------------------------------------------------------------------
(* The lines on their way to the files.                                    *)

Written == FileLines(lf)
ToWrite == LinesOf(Unwritten)
Queued == LinesOf(buffers)
Front == Lines(currentBuffer)

\* Lines are in the stages in the order of the appends ...
Ordered ==
  /\ PiecesInOrder(Unwritten) /\ PiecesInOrder(buffers) /\ InOrder(currentBuffer)
  /\ Before(Written, ToWrite) /\ Before(Written, Queued) /\ Before(Written, Front)
  /\ Before(ToWrite, Queued) /\ Before(ToWrite, Front) /\ Before(Queued, Front)

\* ... and each line is in one of them, unless it was dropped.
Complete ==
  /\ Written \cup ToWrite \cup Queued \cup Front = (1..appended) \ dropped
  /\ dropped \subseteq 1..appended
  /\ dropped # {} => Noticed(lf) /\ pc # "new"

FInv == /\ BInv /\ clock \in Nat /\ GoodFile(lf) /\ Rolls(lf)
        /\ Ordered /\ Complete

\* Sequences over a larger set.
LEMMA WiderSeq == ASSUME NEW S, NEW T, S \subseteq T PROVE Seq(S) \subseteq Seq(T)
<1> SUFFICES ASSUME NEW s \in Seq(S) PROVE s \in Seq(T)
  OBVIOUS
<1>1. PICK n : n = Len(s)
  OBVIOUS
<1>2. n \in Nat /\ DOMAIN s = 1..n /\ s = [i \in 1..n |-> s[i]] /\ \A i \in 1..n : s[i] \in T
  BY <1>1, SMTT(30)
<1>3. s \in [1..n -> T]
  BY <1>2
<1> QED BY <1>2, <1>3

\* Lines of the logger's buffers are texts without a notice.
LEMMA BufferText ==
  /\ Seq(Line) \subseteq Text /\ Seq(Seq(Line)) \subseteq Seq(Text)
  /\ \A s \in Seq(Line) : Lines(s) = Range(s) /\ Range(s) \subseteq Line
<1>1. Line \subseteq Nat /\ DropNotice \notin Line
  BY DEF Line, DropNotice
<1>2. Seq(Line) \subseteq Text
  BY <1>1, WiderSeq, Zenon DEF Text
<1>3. ASSUME NEW s \in Seq(Line) PROVE Lines(s) = Range(s) /\ Range(s) \subseteq Line
  <2>1. Range(s) \subseteq Line
    BY DEF Range
  <2> QED BY <1>1, <2>1 DEF Lines
<1> QED BY <1>2, <1>3, WiderSeq, Zenon

\* A new LogFile has an empty file.
LEMMA NewFile ==
  ASSUME NEW now \in Nat
  PROVE  /\ GoodFile(NewLogFile(now)) /\ Rolls(NewLogFile(now))
         /\ FileLines(NewLogFile(now)) = {}
<1> DEFINE f == NewLogFile(now)
           d == [n \in {now} |-> << >>]
<1>1. << >> \in Text /\ Lines(<< >>) = {} /\ InOrder(<< >>)
  BY FewPieces DEF Text
<1>2. d \in Disks /\ DOMAIN d = {now} /\ d[now] = << >>
  <2>1. d \in [{now} -> Text] /\ {now} \in SUBSET Nat
    BY <1>1
  <2>2. DOMAIN d = {now} /\ d[now] = << >>
    OBVIOUS
  <2> QED BY <2>1, <2>2, Zenon DEF Disks
<1> HIDE DEF d
<1>3. PiecesInOrder(d) /\ LinesOf(d) = {}
  <2>1. LinesOf(d) = {}
    BY <1>1, <1>2, InPieces
  <2>2. \A k, l \in {now} : ~(k < l)
    OBVIOUS
  <2> QED BY <1>1, <1>2, <2>1, <2>2 DEF PiecesInOrder
<1>4. /\ f \in LogFiles /\ f.disk = d /\ f.name = now /\ f.lastRoll = now /\ f.buffered = << >>
      /\ f.bytes = 0 /\ f.late = 0 /\ f.count = 0
  <2>1. Period(now) \in {Period(n) : n \in Nat}
    BY Zenon
  <2>2. f = [disk |-> d, name |-> now, buffered |-> << >>, bytes |-> 0, count |-> 0,
             startOfPeriod |-> Period(now), lastRoll |-> now, lastFlush |-> now, at |-> now,
             late |-> 0]
    BY Zenon DEF NewLogFile, d
  <2> HIDE DEF f
  <2> QED BY <1>1, <1>2, <2>1, <2>2 DEF LogFiles
<1> HIDE DEF f
<1>5. GoodFile(f)
  <2>1. Before(LinesOf(d), Lines(<< >>))
    BY <1>1, Zenon DEF Before
  <2>2. \A n \in DOMAIN d : n <= now
    BY <1>2
  <2> QED BY <1>1, <1>2, <1>3, <1>4, <2>1, <2>2, Zenon DEF GoodFile
<1>6. Rolls(f)
  BY <1>4 DEF Rolls
<1>7. FileLines(f) = {}
  BY <1>1, <1>3, <1>4 DEF FileLines
<1> QED BY <1>5, <1>6, <1>7 DEF f


\* The pieces of b after the first w.
Rest(b, w) == [k \in w + 1 .. Len(b) |-> b[k]]

\* What is left of the buffers when w of the pieces are written.
LEMMA RestFacts ==
  ASSUME NEW b \in Seq(Seq(Line)), NEW w \in 0..Len(b)
  PROVE  /\ w = Len(b) => PiecesInOrder(Rest(b, w)) /\ LinesOf(Rest(b, w)) = {}
         /\ w = 0 => Rest(b, w) = b
         /\ DOMAIN Rest(b, w) = w + 1 .. Len(b)
         /\ \A k \in w + 1 .. Len(b) : Rest(b, w)[k] = b[k] /\ b[k] \in Seq(Line)
<1>1. Len(b) \in Nat
  OBVIOUS
<1>2. /\ DOMAIN Rest(b, w) = w + 1 .. Len(b)
      /\ \A k \in w + 1 .. Len(b) : Rest(b, w)[k] = b[k]
  BY Zenon DEF Rest
<1>3. \A k \in w + 1 .. Len(b) : b[k] \in Seq(Line)
  BY <1>1
<1>4. w = Len(b) => DOMAIN Rest(b, w) = {}
  BY <1>1, <1>2
<1>5. DOMAIN Rest(b, w) = {} => PiecesInOrder(Rest(b, w)) /\ LinesOf(Rest(b, w)) = {}
  BY Zenon DEF PiecesInOrder, LinesOf
<1>6. ASSUME w = 0 PROVE Rest(b, w) = b
  <2>1. Rest(b, w) = [k \in 1..Len(b) |-> b[k]]
    BY <1>1, <1>6 DEF Rest
  <2> QED BY <1>1, <2>1
<1> QED BY <1>2, <1>3, <1>4, <1>5, <1>6, Zenon

\* What is before a union is before its parts, and the other way round.
LEMMA BeforeSets ==
  /\ \A X, Y, Z : Before(X, Y \cup Z) <=> Before(X, Y) /\ Before(X, Z)
  /\ \A X, Y, Z : Before(X \cup Y, Z) <=> Before(X, Z) /\ Before(Y, Z)
  /\ \A X : Before(X, {}) /\ Before({}, X)
  /\ \A X \in SUBSET Nat : \A Y : Before(X, Y) => X \cap Y = {}
<1>1. \A X \in SUBSET Nat : \A Y : Before(X, Y) => X \cap Y = {}
  <2>1. \A x \in Nat : ~(x < x)
    OBVIOUS
  <2> QED BY <2>1, Zenon DEF Before
<1> QED BY <1>1, Zenon DEF Before

\* A step that moves no line and leaves the files' text alone.
LEMMA SameLines ==
  ASSUME FInv, BInv', clock' \in Nat, Keeps(lf, lf'), Rolls(lf'), pc' = "new" => pc = "new",
         UNCHANGED <<currentBuffer, buffers, appended, dropped>>,
         PiecesInOrder(Unwritten'), LinesOf(Unwritten') = ToWrite
  PROVE  FInv'
<1>1. /\ Written' = Written /\ ToWrite' = ToWrite /\ Queued' = Queued /\ Front' = Front
      /\ GoodFile(lf') /\ (Noticed(lf') <=> Noticed(lf))
  BY Zenon DEF Keeps, Written, ToWrite, Queued, Front
<1>2. Ordered'
  BY <1>1, Zenon DEF FInv, Ordered
<1>3. Complete'
  BY <1>1, Zenon DEF FInv, Complete
<1> QED BY <1>1, <1>2, <1>3, Zenon DEF FInv

\* A step that leaves the files and the buffers to write as they are.
LEMMA SameBuffers ==
  ASSUME FInv, BInv', clock' \in Nat, pc' = "new" => pc = "new",
         UNCHANGED <<lf, currentBuffer, buffers, buffersToWrite, written, appended, dropped>>
  PROVE  FInv'
<1>1. Unwritten' = Unwritten
  BY Zenon DEF Unwritten
<1>2. Keeps(lf, lf') /\ Rolls(lf')
  BY Zenon DEF FInv, Keeps
<1>3. PiecesInOrder(Unwritten') /\ LinesOf(Unwritten') = ToWrite
  BY <1>1, Zenon DEF FInv, Ordered, ToWrite
<1> QED BY <1>2, <1>3, SameLines, Zenon

\* At first there are no lines.
LEMMA InitFInv == InitF => FInv
<1> SUFFICES ASSUME InitF PROVE FInv
  OBVIOUS
<1>1. BInv
  BY InitBInv DEF InitF
<1>2. clock \in Nat /\ GoodFile(lf) /\ Rolls(lf) /\ Written = {}
  <2>1. 1 \in Nat
    OBVIOUS
  <2> QED BY <2>1, NewFile, Zenon DEF InitF, Written
<1>3. PiecesInOrder(Unwritten) /\ ToWrite = {}
  <2>1. /\ buffersToWrite \in Seq(Seq(Line)) /\ written \in 0..Len(buffersToWrite)
        /\ written = Len(buffersToWrite) /\ Unwritten = Rest(buffersToWrite, written)
    BY <1>1, EmptyTypes DEF InitF, Init, BInv, TypeOK, Unwritten, Rest
  <2> QED BY <2>1, RestFacts, Zenon DEF ToWrite
<1>4. PiecesInOrder(buffers) /\ Queued = {} /\ InOrder(currentBuffer) /\ Front = {}
  BY FewPieces, Zenon DEF InitF, Init, Queued, Front
<1>5. Ordered
  BY <1>2, <1>3, <1>4, BeforeSets, Zenon DEF Ordered
<1>6. Complete
  BY <1>2, <1>3, <1>4 DEF Complete, InitF, Init
<1> QED BY <1>1, <1>2, <1>5, <1>6, Zenon DEF FInv

\* start(): the new file is the first, and no line has been appended.
LEMMA StartFInv == ASSUME FInv, BInv', StartF PROVE FInv'
<1>1. appended = 0 /\ dropped = {} /\ pc = "new"
  BY DEF FInv, BInv, Spare, Complete, StartF, Start
<1>2. ToWrite = {} /\ Queued = {} /\ Front = {}
  BY <1>1 DEF FInv, Complete
<1>3. /\ UNCHANGED <<currentBuffer, buffers, appended, dropped, clock>>
      /\ Unwritten' = Unwritten /\ Queued' = Queued /\ Front' = Front /\ ToWrite' = ToWrite
  BY Zenon DEF StartF, Start, Unwritten, Queued, Front, ToWrite
<1>4. GoodFile(lf') /\ Rolls(lf') /\ Written' = {} /\ clock' \in Nat
  BY <1>3, NewFile, Zenon DEF StartF, FInv, Written
<1>5. Ordered'
  BY <1>2, <1>3, <1>4, BeforeSets, Zenon DEF FInv, Ordered
<1>6. Complete'
  BY <1>1, <1>2, <1>3, <1>4 DEF Complete
<1> QED BY <1>4, <1>5, <1>6, Zenon DEF FInv


\* append(): the line follows all others, in currentBuffer_ or in a new one.
LEMMA AppendLineFInv == ASSUME FInv, BInv', AppendLine, UNCHANGED fileVars PROVE FInv'
<1>1. PICK n : n = appended + 1
  OBVIOUS
<1>2. /\ appended \in Nat /\ n \in Line /\ n \in Nat /\ n # DropNotice /\ appended' = n
      /\ dropped' = dropped /\ pc' = pc /\ pc # "new"
      /\ currentBuffer \in Text /\ buffers \in Seq(Text)
  <2>1. currentBuffer \in Seq(Line) /\ buffers \in Seq(Seq(Line))
    BY DEF FInv, BInv, TypeOK
  <2>2. currentBuffer \in Text /\ buffers \in Seq(Text)
    BY <2>1, BufferText, Zenon
  <2> QED BY <1>1, <2>2 DEF FInv, BInv, TypeOK, AppendLine, Line, DropNotice
<1>3. /\ Written' = Written /\ ToWrite' = ToWrite /\ Unwritten' = Unwritten
      /\ GoodFile(lf') /\ Rolls(lf') /\ clock' \in Nat /\ (Noticed(lf') <=> Noticed(lf))
  BY Zenon DEF FInv, AppendLine, fileVars, Written, ToWrite, Unwritten
<1>4. Before(Written, {n}) /\ Before(ToWrite, {n}) /\ Before(Queued, {n}) /\ Before(Front, {n})
  <2>1. Written \cup ToWrite \cup Queued \cup Front \subseteq 1..appended
    BY DEF FInv, Complete
  <2>2. \A x \in 1..appended : x < n
    BY <1>1, <1>2
  <2> QED BY <2>1, <2>2 DEF Before
<1>5. /\ PiecesInOrder(buffers') /\ InOrder(currentBuffer')
      /\ Queued' \cup Front' = Queued \cup Front \cup {n}
      /\ \/ Queued' = Queued /\ Front' = Front \cup {n}
         \/ Queued' = Queued \cup Front /\ Front' = {n}
  <2>1. CASE Fits(currentBuffer)
    <3>1. currentBuffer' = Append(currentBuffer, n) /\ buffers' = buffers
      BY <1>1, <2>1 DEF AppendLine
    <3>2. Front' = Front \cup {n} /\ InOrder(currentBuffer') /\ Queued' = Queued
      BY <1>2, <1>4, <3>1, AppendText, Zenon DEF FInv, Ordered, Front, Queued
    <3> QED BY <3>1, <3>2 DEF FInv, Ordered
  <2>2. CASE ~Fits(currentBuffer)
    <3>1. currentBuffer' = <<n>> /\ buffers' = Append(buffers, currentBuffer)
      BY <1>1, <2>2 DEF AppendLine
    <3>2. PiecesInOrder(buffers') /\ Queued' = Queued \cup Front
      BY <1>2, <3>1, AppendPiece, Zenon DEF FInv, Ordered, Front, Queued
    <3>3. Front' = {n} /\ InOrder(currentBuffer')
      <4>1. <<n>> = Append(<< >>, n) /\ << >> \in Text
        BY DEF Text
      <4>2. Before(Lines(<< >>), {n})
        BY FewPieces, BeforeSets, Zenon
      <4>3. Lines(<<n>>) = Lines(<< >>) \cup {n} /\ InOrder(<<n>>)
        BY <1>2, <4>1, <4>2, FewPieces, AppendText, Zenon
      <4> QED BY <3>1, <4>3, FewPieces DEF Front
    <3> QED BY <3>2, <3>3
  <2> QED BY <2>1, <2>2
<1>6. Ordered'
  <2>1. /\ Before(ToWrite, Queued \cup Front) /\ Before(ToWrite, Front \cup {n})
        /\ Before(Written, Queued \cup Front) /\ Before(Written, Front \cup {n})
        /\ Before(Queued, Front \cup {n}) /\ Before(Queued \cup Front, {n})
    BY <1>4, BeforeSets, Zenon DEF FInv, Ordered
  <2>2. /\ Before(Written, Queued) /\ Before(Written, ToWrite) /\ Before(ToWrite, Queued)
    BY SMTT(30) DEF FInv, Ordered
  <2>3. /\ Before(ToWrite', Queued') /\ Before(ToWrite', Front') /\ Before(Written', ToWrite')
        /\ Before(Written', Queued') /\ Before(Written', Front') /\ Before(Queued', Front')
    BY <1>3, <1>4, <1>5, <2>1, <2>2, SMTT(30)
  <2>4. PiecesInOrder(Unwritten')
    BY <1>3 DEF FInv, Ordered
  <2> QED BY <1>5, <2>3, <2>4, Zenon DEF Ordered
<1>7. Complete'
  <2>1. 1..n = (1..appended) \cup {n} /\ n \notin 1..appended
    BY <1>1, <1>2, SMTT(30)
  <2>2. Written' \cup ToWrite' \cup Queued' \cup Front' = (1..n) \ dropped
    BY <1>3, <1>5, <2>1 DEF FInv, Complete
  <2> QED BY <1>2, <1>3, <2>1, <2>2 DEF FInv, Complete
<1> QED BY <1>3, <1>6, <1>7, Zenon DEF FInv

\* The swap makes the full buffers and currentBuffer_ the ones to write.
LEMMA SwapFInv == ASSUME FInv, BInv', SwapBuffers, UNCHANGED fileVars PROVE FInv'
<1>1. /\ currentBuffer \in Text /\ buffers \in Seq(Text)
      /\ buffersToWrite' = Append(buffers, currentBuffer) /\ written' = 0
      /\ buffersToWrite' \in Seq(Seq(Line)) /\ written' \in 0..Len(buffersToWrite')
  <2>1. currentBuffer \in Seq(Line) /\ buffers \in Seq(Seq(Line))
    BY DEF FInv, BInv, TypeOK
  <2>2. currentBuffer \in Text /\ buffers \in Seq(Text)
    BY <2>1, BufferText, Zenon
  <2> QED BY <2>2 DEF FInv, BInv, Spare, TypeOK, SwapBuffers
<1>2. ToWrite = {}
  <2>1. buffersToWrite = <<>> /\ written = 0
    BY DEF FInv, BInv, BuffersRecycled, Spare, SwapBuffers
  <2>2. /\ written = Len(buffersToWrite) /\ written \in 0..Len(buffersToWrite)
        /\ buffersToWrite \in Seq(Seq(Line)) /\ Unwritten = Rest(buffersToWrite, written)
    BY <2>1, EmptyTypes DEF Unwritten, Rest
  <2> QED BY <2>2, RestFacts, Zenon DEF ToWrite
<1>3. Unwritten' = buffersToWrite'
  BY <1>1, RestFacts, Zenon DEF Unwritten, Rest
<1>4. PiecesInOrder(Unwritten') /\ ToWrite' = Queued \cup Front
  BY <1>1, <1>3, AppendPiece, Zenon DEF FInv, Ordered, Queued, Front, ToWrite
<1>5. PiecesInOrder(buffers') /\ InOrder(currentBuffer') /\ Queued' = {} /\ Front' = {}
  BY FewPieces, Zenon DEF SwapBuffers, Queued, Front
<1>6. /\ Written' = Written /\ GoodFile(lf') /\ Rolls(lf') /\ clock' \in Nat
      /\ (Noticed(lf') <=> Noticed(lf)) /\ appended' = appended /\ dropped' = dropped
      /\ pc' # "new"
  <2>1. pc' # "new"
    BY DEF SwapBuffers
  <2> QED BY <2>1, Zenon DEF FInv, SwapBuffers, fileVars, Written
<1>7. Ordered'
  BY <1>4, <1>5, <1>6, BeforeSets, Zenon DEF FInv, Ordered
<1>8. Complete'
  BY <1>2, <1>4, <1>5, <1>6 DEF FInv, Complete
<1> QED BY <1>6, <1>7, <1>8, Zenon DEF FInv


\* A backlog's first two buffers are kept; the lines of the others come after
\* theirs, and are dropped with a notice.
LEMMA CutFInv == ASSUME FInv, BInv', CutBacklogF PROVE FInv'
<1>1. CASE ~TooLong
  <2>1. /\ UNCHANGED <<lf, currentBuffer, buffers, buffersToWrite, written, appended, dropped>>
        /\ clock' \in Nat /\ pc' # "new"
    BY <1>1 DEF CutBacklogF, CutBacklog, FInv
  <2> QED BY <2>1, SameBuffers, Zenon
<1>2. CASE TooLong
  <2>1. PICK b, c, D : /\ b = buffersToWrite /\ c = buffersToWrite'
                       /\ D = UNION {Range(b[k]) : k \in 3..Len(b)}
    BY Zenon
  <2>2. /\ b \in Seq(Seq(Line)) /\ Len(b) \in Nat /\ Len(b) > 2 /\ written = 0 /\ written' = 0
        /\ c = SubSeq(b, 1, 2) /\ dropped' = dropped \cup D
        /\ UNCHANGED <<currentBuffer, buffers, appended, clock>> /\ pc' # "new" /\ pc = "write"
    BY <1>2, <2>1, SMTT(30) DEF CutBacklogF, CutBacklog, TooLong, FInv, BInv, TypeOK, Spare
  <2>3. /\ c \in Seq(Seq(Line)) /\ DOMAIN c = 1..2 /\ c[1] = b[1] /\ c[2] = b[2]
        /\ DOMAIN b = 1..Len(b) /\ Len(c) = 2
    <3>1. c \in Seq(Seq(Line)) /\ Len(c) = 2 /\ \A i \in 1..2 : c[i] = b[i]
      BY <2>2, SubSeqProperties
    <3> QED BY <2>2, <3>1, SMTT(30)
  <2>4. Unwritten = b /\ Unwritten' = c
    <3>1. 0 \in 0..Len(b) /\ 0 \in 0..Len(c)
      BY <2>2, <2>3
    <3>2. Unwritten = Rest(b, 0) /\ Unwritten' = Rest(c, 0)
      BY <2>1, <2>2, SMTT(30) DEF Unwritten, Rest
    <3> QED BY <2>2, <2>3, <3>1, <3>2, RestFacts, Zenon
  <2>5. /\ \A k \in DOMAIN c : k \in DOMAIN b /\ c[k] = b[k]
        /\ \A k \in 3..Len(b) : k \in DOMAIN b /\ 1 < k /\ 2 < k
        /\ \A k \in DOMAIN b : k \in DOMAIN c \/ k \in 3..Len(b)
        /\ \A k \in DOMAIN b : Lines(b[k]) = Range(b[k])
    <3>1. \A k \in DOMAIN b : b[k] \in Seq(Line)
      BY <2>2
    <3>2. \A k \in DOMAIN b : Lines(b[k]) = Range(b[k])
      BY <3>1, BufferText, Zenon
    <3> QED BY <2>2, <2>3, <3>2, SMTT(30)
  <2>6. PiecesInOrder(c)
    BY <2>4, <2>5, Zenon DEF FInv, Ordered, PiecesInOrder
  <2>7. \A x : x \in D <=> \E k \in 3..Len(b) : x \in Lines(b[k])
    <3>1. \A x : x \in D <=> \E k \in 3..Len(b) : x \in Range(b[k])
      BY <2>1, Zenon
    <3>2. \A k \in 3..Len(b) : Range(b[k]) = Lines(b[k])
      BY <2>5, Zenon
    <3> QED BY <3>1, <3>2, Zenon
  <2>8. ToWrite = ToWrite' \cup D
    <3>1. \A x : x \in LinesOf(b) <=> \E k \in DOMAIN b : x \in Lines(b[k])
      BY InPieces, Zenon
    <3>2. \A x : x \in LinesOf(c) <=> \E k \in DOMAIN c : x \in Lines(c[k])
      BY InPieces, Zenon
    <3>3. \A x : x \in LinesOf(b) <=> x \in LinesOf(c) \/ x \in D
      BY <2>5, <2>7, <3>1, <3>2, Zenon
    <3> QED BY <2>4, <3>3 DEF ToWrite
  <2>9. Before(ToWrite', D)
    <3>1. \A k \in {1, 2}, l \in 3..Len(b) : Before(Lines(b[k]), Lines(b[l]))
      <4>1. \A k \in {1, 2}, l \in 3..Len(b) : k \in DOMAIN b /\ l \in DOMAIN b /\ k < l
        BY <2>3, <2>2
      <4> QED BY <2>4, <4>1, Zenon DEF FInv, Ordered, PiecesInOrder
    <3>2. \A x : x \in LinesOf(c) => \E k \in {1, 2} : x \in Lines(b[k])
      <4>1. \A x : x \in LinesOf(c) => \E k \in DOMAIN c : x \in Lines(c[k])
        BY InPieces, Zenon
      <4>2. \A k \in DOMAIN c : k \in {1, 2}
        BY <2>3
      <4> QED BY <2>5, <4>1, <4>2, Zenon
    <3> QED BY <2>4, <2>7, <3>1, <3>2, Zenon DEF ToWrite, Before
  <2>10. /\ GoodFile(lf') /\ Rolls(lf') /\ Written' = Written /\ Noticed(lf')
    <3>1. /\ <<DropNotice>> \in Text /\ InOrder(<<DropNotice>>) /\ Lines(<<DropNotice>>) = {}
          /\ DropNotice \in Range(<<DropNotice>>)
      <4>1. DOMAIN <<DropNotice>> = {1} /\ <<DropNotice>>[1] = DropNotice
        OBVIOUS
      <4>2. <<DropNotice>> \in Text
        BY DEF Text, DropNotice
      <4> QED BY <4>1, <4>2 DEF InOrder, Lines, Range
    <3>2. Before(FileLines(lf), Lines(<<DropNotice>>))
      BY <3>1, BeforeSets, Zenon
    <3>3. /\ lf' = AppendUnlocked(lf, <<DropNotice>>, clock) /\ clock \in Nat
          /\ GoodFile(lf) /\ Rolls(lf)
      BY <1>2 DEF CutBacklogF, FInv
    <3>4. /\ GoodFile(lf') /\ Rolls(lf')
          /\ FileLines(lf') = FileLines(lf) \cup Lines(<<DropNotice>>)
          /\ (Noticed(lf') <=> Noticed(lf) \/ DropNotice \in Range(<<DropNotice>>))
      BY <3>1, <3>2, <3>3, AppendKeeps, Zenon
    <3> QED BY <3>1, <3>4 DEF Written
  <2>11. Queued' = Queued /\ Front' = Front /\ clock' \in Nat
    BY <2>2, Zenon DEF FInv, Queued, Front
  <2>12. Ordered'
    <3>1. /\ Before(Written', ToWrite') /\ Before(ToWrite', Queued') /\ Before(ToWrite', Front')
      BY <2>8, <2>10, <2>11, BeforeSets, Zenon DEF FInv, Ordered
    <3> QED BY <2>2, <2>4, <2>6, <2>10, <2>11, <3>1, Zenon DEF FInv, Ordered
  <2>13. Complete'
    <3>1. Before(Written, D) /\ Before(D, Queued) /\ Before(D, Front)
      BY <2>8, BeforeSets, Zenon DEF FInv, Ordered
    <3>2. /\ Written \in SUBSET Nat /\ ToWrite' \in SUBSET Nat /\ D \in SUBSET Nat
          /\ D \subseteq 1..appended
      BY <2>8 DEF FInv, Complete
    <3>3. /\ Written \cap D = {} /\ ToWrite' \cap D = {} /\ D \cap Queued = {} /\ D \cap Front = {}
      BY <2>9, <3>1, <3>2, BeforeSets, Zenon
    <3>4. Written \cup ToWrite' \cup Queued \cup Front = (1..appended) \ (dropped \cup D)
      BY <2>8, <3>3 DEF FInv, Complete
    <3> QED BY <2>2, <2>10, <2>11, <3>2, <3>4 DEF FInv, Complete
  <2> QED BY <2>10, <2>11, <2>12, <2>13, Zenon DEF FInv
<1> QED BY <1>1, <1>2


\* A buffer written comes behind the lines of the files and before the rest.
LEMMA AppendBufferFInv == ASSUME FInv, BInv', AppendBufferF PROVE FInv'
<1>1. PICK b, w, chunk : b = buffersToWrite /\ w = written /\ chunk = b[w + 1]
  BY Zenon
<1>2. /\ b \in Seq(Seq(Line)) /\ Len(b) \in Nat /\ w \in 0..Len(b) /\ w < Len(b)
      /\ buffersToWrite' = b /\ written' = w + 1 /\ w + 1 \in 0..Len(b) /\ w + 1 \in 1..Len(b)
      /\ UNCHANGED <<currentBuffer, buffers, appended, dropped, clock, pc>> /\ pc # "new"
  BY <1>1 DEF AppendBufferF, AppendBuffer, FInv, BInv, TypeOK
<1>3. PICK r, q : r = Unwritten /\ q = Unwritten'
  BY Zenon
<1>4. /\ DOMAIN r = w + 1 .. Len(b) /\ DOMAIN q = (w + 1) + 1 .. Len(b)
      /\ \A k \in DOMAIN r : r[k] = b[k] /\ b[k] \in Seq(Line)
      /\ \A k \in DOMAIN q : q[k] = b[k]
  <2>1. r = Rest(b, w) /\ q = Rest(b, w + 1)
    BY <1>1, <1>2, <1>3, Zenon DEF Unwritten, Rest
  <2> QED BY <1>2, <2>1, RestFacts, ZenonT(120)
<1>5. /\ w + 1 \in DOMAIN r /\ \A k \in DOMAIN q : k \in DOMAIN r /\ w + 1 < k /\ q[k] = r[k]
      /\ \A k \in DOMAIN r : k = w + 1 \/ k \in DOMAIN q
  <2>1. PICK n : n = Len(b)
    BY Zenon
  <2>2. /\ w + 1 \in w + 1 .. n
        /\ \A k \in (w + 1) + 1 .. n : k \in w + 1 .. n /\ w + 1 < k
        /\ \A k \in w + 1 .. n : k = w + 1 \/ k \in (w + 1) + 1 .. n
    <3>1. n \in Nat /\ w \in Nat /\ w < n
      BY <1>2, <2>1
    <3> QED BY <3>1
  <2> QED BY <1>4, <2>1, <2>2, Zenon
<1>6. r[w + 1] = chunk /\ chunk \in Text /\ DropNotice \notin Range(chunk)
  <2>1. chunk \in Seq(Line) /\ r[w + 1] = chunk
    BY <1>1, <1>4, <1>5, Zenon
  <2>2. DropNotice \notin Lines(chunk)
    BY DEF Lines
  <2> QED BY <2>1, <2>2, BufferText, Zenon
<1>7. PiecesInOrder(r) /\ ToWrite = LinesOf(r) /\ ToWrite' = LinesOf(q)
  BY <1>3, Zenon DEF FInv, Ordered, ToWrite
<1>8. PiecesInOrder(q) /\ InOrder(chunk) /\ Before(Lines(chunk), LinesOf(q))
  <2>1. PiecesInOrder(q) /\ InOrder(chunk)
    BY <1>5, <1>6, <1>7, Zenon DEF PiecesInOrder
  <2>2. \A k \in DOMAIN q : Before(Lines(chunk), Lines(q[k]))
    BY <1>5, <1>6, <1>7, Zenon DEF PiecesInOrder
  <2>3. \A x : x \in LinesOf(q) => \E k \in DOMAIN q : x \in Lines(q[k])
    BY InPieces, Zenon
  <2> QED BY <2>1, <2>2, <2>3, Zenon DEF Before
<1>9. ToWrite = Lines(chunk) \cup ToWrite'
  <2>1. \A x : x \in LinesOf(r) <=> \E k \in DOMAIN r : x \in Lines(r[k])
    BY InPieces, Zenon
  <2>2. \A x : x \in LinesOf(q) <=> \E k \in DOMAIN q : x \in Lines(q[k])
    BY InPieces, Zenon
  <2>3. \A x : x \in LinesOf(r) <=> x \in Lines(chunk) \/ x \in LinesOf(q)
    BY <1>5, <1>6, <2>1, <2>2, Zenon
  <2> QED BY <1>7, <2>3
<1>10. /\ Before(FileLines(lf), Lines(chunk)) /\ Before(Written, ToWrite')
       /\ Before(Lines(chunk), Queued) /\ Before(Lines(chunk), Front)
       /\ Before(ToWrite', Queued) /\ Before(ToWrite', Front)
  <2>1. /\ Before(Written, Lines(chunk) \cup ToWrite')
        /\ Before(Lines(chunk) \cup ToWrite', Queued)
        /\ Before(Lines(chunk) \cup ToWrite', Front)
    BY <1>9 DEF FInv, Ordered
  <2> QED BY <2>1, BeforeSets, Zenon DEF Written
<1>11. /\ GoodFile(lf') /\ Rolls(lf') /\ Written' = Written \cup Lines(chunk)
       /\ (Noticed(lf') <=> Noticed(lf))
  <2>1. /\ lf' = AppendUnlocked(lf, chunk, clock) /\ clock \in Nat /\ GoodFile(lf) /\ Rolls(lf)
    BY <1>1 DEF AppendBufferF, FInv
  <2> QED BY <1>6, <1>8, <1>10, <2>1, AppendKeeps, Zenon DEF Written
<1>12. Queued' = Queued /\ Front' = Front /\ clock' \in Nat
  BY <1>2, Zenon DEF FInv, Queued, Front
<1>13. Ordered'
  <2>1. /\ Before(Written \cup Lines(chunk), ToWrite') /\ Before(Written \cup Lines(chunk), Queued)
        /\ Before(Written \cup Lines(chunk), Front)
    BY <1>7, <1>8, <1>10, BeforeSets, Zenon DEF FInv, Ordered
  <2>2. /\ Before(Written', ToWrite') /\ Before(Written', Queued') /\ Before(Written', Front')
        /\ Before(ToWrite', Queued') /\ Before(ToWrite', Front') /\ Before(Queued', Front')
    BY <1>10, <1>11, <1>12, <2>1, SMTT(30) DEF FInv, Ordered
  <2>3. PiecesInOrder(Unwritten') /\ PiecesInOrder(buffers') /\ InOrder(currentBuffer')
    BY <1>2, <1>3, <1>8, SMTT(30) DEF FInv, Ordered
  <2> QED BY <2>2, <2>3, Zenon DEF Ordered
<1>14. Complete'
  BY <1>2, <1>9, <1>11, <1>12 DEF FInv, Complete
<1> QED BY <1>11, <1>12, <1>13, <1>14, Zenon DEF FInv

\* When all buffers are written, the file is flushed.
LEMMA RecycleFInv == ASSUME FInv, BInv', RecycleF PROVE FInv'
<1>1. PiecesInOrder(Unwritten') /\ LinesOf(Unwritten') = {} /\ ToWrite = {}
  <2>1. /\ buffersToWrite \in Seq(Seq(Line)) /\ written \in 0..Len(buffersToWrite)
        /\ written = Len(buffersToWrite) /\ Unwritten = Rest(buffersToWrite, written)
    BY DEF RecycleF, Recycle, FInv, BInv, TypeOK, Unwritten, Rest
  <2>2. /\ buffersToWrite' \in Seq(Seq(Line)) /\ written' \in 0..Len(buffersToWrite')
        /\ written' = Len(buffersToWrite') /\ Unwritten' = Rest(buffersToWrite', written')
    BY EmptyTypes DEF RecycleF, Recycle, Unwritten, Rest
  <2>3. LinesOf(Rest(buffersToWrite, written)) = {}
    BY <2>1, RestFacts, Zenon
  <2>4. /\ PiecesInOrder(Rest(buffersToWrite', written'))
        /\ LinesOf(Rest(buffersToWrite', written')) = {}
    BY <2>2, RestFacts, Zenon
  <2> QED BY <2>1, <2>2, <2>3, <2>4, Zenon DEF ToWrite
<1>2. Keeps(lf, lf') /\ Rolls(lf')
  <2>1. GoodFile(lf) /\ lf' = Flush(lf) /\ Rolls(lf)
    BY DEF RecycleF, FInv
  <2>2. /\ Keeps(lf, lf') /\ lf'.bytes = lf.bytes /\ lf'.count = lf.count /\ lf'.at = lf.at
        /\ lf'.late = lf.late /\ lf'.lastRoll = lf.lastRoll
    BY <2>1, FlushKeeps, Zenon
  <2> QED BY <2>1, <2>2 DEF Rolls
<1>3. /\ UNCHANGED <<currentBuffer, buffers, appended, dropped>> /\ clock' \in Nat
      /\ pc' # "new"
  BY DEF RecycleF, Recycle, FInv
<1> QED BY <1>1, <1>2, <1>3, SameLines, Zenon

\* Every step of the logger, its files and the clock keeps the invariant.
LEMMA StepFInv == FInv /\ [NextF]_allVars => FInv'
<1> SUFFICES ASSUME FInv, [NextF]_allVars PROVE FInv'
  OBVIOUS
<1>1. [Next]_vars
  BY Zenon DEF NextF, Next, LogThread, StartF, CutBacklogF, AppendBufferF, RecycleF, SetClock, allVars
<1>2. BInv'
  BY <1>1, StepBInv DEF FInv
<1>3. CASE StartF
  BY <1>2, <1>3, StartFInv, SMTT(30)
<1>4. CASE AppendLine /\ UNCHANGED fileVars
  BY <1>2, <1>4, AppendLineFInv
<1>5. CASE Stop /\ UNCHANGED fileVars
  BY <1>2, <1>5, SameBuffers, Zenon DEF Stop, fileVars, FInv
<1>6. CASE TestRunning /\ UNCHANGED fileVars
  <2>1. pc' # "new"
    BY <1>6 DEF TestRunning
  <2> QED BY <1>2, <1>6, <2>1, SameBuffers, Zenon DEF TestRunning, fileVars, FInv
<1>7. CASE WaitOnCond /\ UNCHANGED fileVars
  <2>1. pc' # "new"
    BY <1>7, SMTT(30) DEF WaitOnCond
  <2> QED BY <1>2, <1>7, <2>1, SameBuffers, Zenon DEF WaitOnCond, fileVars, FInv
<1>8. CASE SwapBuffers /\ UNCHANGED fileVars
  BY <1>2, <1>8, SwapFInv
<1>9. CASE CutBacklogF
  BY <1>2, <1>9, CutFInv
<1>10. CASE AppendBufferF
  BY <1>2, <1>10, AppendBufferFInv
<1>11. CASE RecycleF
  BY <1>2, <1>11, RecycleFInv
<1>12. CASE SetClock
  <2>1. clock' \in Nat
    BY <1>12 DEF SetClock
  <2> QED BY <1>2, <1>12, <2>1, SameBuffers, Zenon DEF SetClock, vars
<1>13. CASE UNCHANGED allVars
  BY <1>2, <1>13, SameBuffers, Zenon DEF allVars, vars, fileVars, FInv
<1> QED BY <1>3, <1>4, <1>5, <1>6, <1>7, <1>8, <1>9, <1>10, <1>11, <1>12, <1>13, Zenon DEF NextF

\* The stages of FilesInOrder, one by one.
LEMMA InvInOrder == FInv => FilesInOrder
<1> SUFFICES ASSUME FInv PROVE FilesInOrder
  BY SMTT(30)
<1> DEFINE S == Stages
<1>1. /\ DOMAIN S = 1..5 /\ S[1] = lf.disk /\ S[2] = <<lf.buffered>> /\ S[3] = Unwritten
      /\ S[4] = buffers /\ S[5] = <<currentBuffer>>
  BY DEF Stages
<1> HIDE DEF S
<1>2. PICK A, B : A = LinesOf(lf.disk) /\ B = Lines(lf.buffered)
  BY Zenon
<1>3. /\ LinesOf(S[1]) = A /\ LinesOf(S[2]) = B /\ LinesOf(S[3]) = ToWrite
      /\ LinesOf(S[4]) = Queued /\ LinesOf(S[5]) = Front /\ Written = A \cup B
  BY <1>1, <1>2, FewPieces, Zenon DEF ToWrite, Queued, Front, Written, FileLines
<1>4. \A s \in 1..5 : s = 1 \/ s = 2 \/ s = 3 \/ s = 4 \/ s = 5
  OBVIOUS
<1>5. \A s \in DOMAIN S : PiecesInOrder(S[s])
  <2>1. /\ PiecesInOrder(S[1]) /\ PiecesInOrder(S[2]) /\ PiecesInOrder(S[3])
        /\ PiecesInOrder(S[4]) /\ PiecesInOrder(S[5])
    BY <1>1, FewPieces, ZenonT(120) DEF FInv, GoodFile, Ordered
  <2> QED BY <1>1, <1>4, <2>1, Zenon
<1>6. \A s, t \in DOMAIN S : s < t => Before(LinesOf(S[s]), LinesOf(S[t]))
  <2>1. /\ Before(A, B) /\ Before(A \cup B, ToWrite) /\ Before(A \cup B, Queued)
        /\ Before(A \cup B, Front) /\ Before(ToWrite, Queued) /\ Before(ToWrite, Front)
        /\ Before(Queued, Front)
    BY <1>2, <1>3 DEF FInv, GoodFile, Ordered
  <2>2. /\ Before(A, ToWrite) /\ Before(B, ToWrite) /\ Before(A, Queued) /\ Before(B, Queued)
        /\ Before(A, Front) /\ Before(B, Front)
    BY <2>1, BeforeSets, Zenon
  <2>3. \A s, t \in 1..5 : s < t =>
          \/ s = 1 /\ (t = 2 \/ t = 3 \/ t = 4 \/ t = 5)
          \/ s = 2 /\ (t = 3 \/ t = 4 \/ t = 5)
          \/ s = 3 /\ (t = 4 \/ t = 5)
          \/ s = 4 /\ t = 5
    OBVIOUS
  <2> QED BY <1>1, <1>3, <2>1, <2>2, <2>3, SMTT(120)
<1>7. UNION {LinesOf(S[s]) : s \in DOMAIN S} = (1..appended) \ dropped
  <2>1. \A x : x \in UNION {LinesOf(S[s]) : s \in DOMAIN S} <=> \E s \in 1..5 : x \in LinesOf(S[s])
    BY <1>1, Zenon
  <2>2. 1 \in 1..5 /\ 2 \in 1..5 /\ 3 \in 1..5 /\ 4 \in 1..5 /\ 5 \in 1..5
    OBVIOUS
  <2>3. \A x : (\E s \in 1..5 : x \in LinesOf(S[s])) <=>
                 x \in A \/ x \in B \/ x \in ToWrite \/ x \in Queued \/ x \in Front
    BY <1>3, <1>4, <2>2, Zenon
  <2>4. \A x : x \in UNION {LinesOf(S[s]) : s \in DOMAIN S} <=>
                 x \in Written \cup ToWrite \cup Queued \cup Front
    BY <1>3, <2>1, <2>3
  <2> QED BY <2>4, Zenon DEF FInv, Complete
<1>8. dropped # {} =>
        DropNotice \in Range(lf.buffered) \cup UNION {Range(lf.disk[n]) : n \in DOMAIN lf.disk}
  BY Zenon DEF FInv, Complete, Noticed, NoticeOn
<1> QED BY <1>5, <1>6, <1>7, <1>8, Zenon DEF FilesInOrder, S

\* The files hold the lines in the order of the appends, each once and none
\* lost but for those dropped with a notice, whatever the clock does.
THEOREM LinesKeptInOrder == SpecF => []FilesInOrder
BY InitFInv, StepFInv, InvInOrder, PTL DEF SpecF

\* A file that is too large, or of an old period, is rolled when it can be.
THEOREM RollsInTime == SpecF => []RolledInTime
<1>1. FInv => RolledInTime
  BY DEF FInv, GoodFile, LogFiles, Rolls, RolledInTime
<1> QED BY InitFInv, StepFInv, <1>1, PTL DEF SpecF

\* The assertions of threadFunc hold with LogFile under it, too.
THEOREM AssertionsHoldF == SpecF => []BuffersRecycled
<1>1. FInv => BuffersRecycled
  BY DEF FInv, BInv
<1> QED BY InitFInv, StepFInv, <1>1, PTL DEF SpecF
=============================================================================
