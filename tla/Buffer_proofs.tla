---------------------------- MODULE Buffer_proofs ----------------------------
(***************************************************************************)
(* net/Buffer.h is a queue of bytes: Buffer implements ByteQueue, for all  *)
(* sizes of the vector, of its reserve in front and of readFd's extrabuf.  *)
(*                                                                         *)
(* The inductive invariant is that the indices are in order and within the *)
(* vector (Good).  Each function of the source has a lemma that says what  *)
(* it does to the readable bytes; each action is then one step of the      *)
(* queue, or none.                                                         *)
(***************************************************************************)
EXTENDS Buffer, SequenceTheorems, TLAPS

Buffers == [bytes : Seq(Byte), reader : Nat, writer : Nat]

Good(b) ==
  /\ b \in Buffers
  /\ b.reader <= b.writer /\ b.writer <= Len(b.bytes)
  /\ CheapPrepend <= Len(b.bytes)

-----------------------------------------------------------------------------
(* The vector                                                              *)

\* std::copy into the vector leaves its size and every other byte.
LEMMA CopyFacts ==
  ASSUME NEW bytes \in Seq(Byte), NEW at \in Nat, NEW data \in Seq(Byte)
  PROVE  /\ CopyTo(bytes, at, data) \in Seq(Byte)
         /\ Len(CopyTo(bytes, at, data)) = Len(bytes)
         /\ \A i \in 1..Len(bytes) :
              CopyTo(bytes, at, data)[i] =
                IF i > at /\ i <= at + Len(data) THEN data[i - at] ELSE bytes[i]
<1>1. \A i \in 1..Len(bytes) :
        (IF i > at /\ i <= at + Len(data) THEN data[i - at] ELSE bytes[i]) \in Byte
  OBVIOUS
<1>2. CopyTo(bytes, at, data) \in [1..Len(bytes) -> Byte]
  BY <1>1 DEF CopyTo
<1> QED BY <1>2 DEF CopyTo

\* resize to a larger size keeps the bytes that are there.
LEMMA ResizeFacts ==
  ASSUME NEW bytes \in Seq(Byte), NEW n \in Nat
  PROVE  /\ Resize(bytes, n) \in Seq(Byte)
         /\ Len(Resize(bytes, n)) = n
         /\ \A i \in 1..n : i <= Len(bytes) => Resize(bytes, n)[i] = bytes[i]
<1>1. \A i \in 1..n : (IF i <= Len(bytes) THEN bytes[i] ELSE Zero) \in Byte
  BY BufferConstants
<1>2. Resize(bytes, n) \in [1..n -> Byte]
  BY <1>1 DEF Resize
<1> QED BY <1>2 DEF Resize

\* The bytes between two places of a sequence, one by one.
LEMMA Slice ==
  ASSUME NEW s \in Seq(Byte), NEW m \in Nat, NEW n \in Nat, m <= n, n <= Len(s)
  PROVE  /\ SubSeq(s, m + 1, n) \in Seq(Byte)
         /\ Len(SubSeq(s, m + 1, n)) = n - m
         /\ \A i \in 1..(n - m) : SubSeq(s, m + 1, n)[i] = s[m + i]
<1>1. PICK k \in Int : k = m + 1
  OBVIOUS
<1>2. \A i \in k..n : s[i] \in Byte
  BY <1>1
<1> DEFINE t == SubSeq(s, k, n)
<1>3. /\ t \in Seq(Byte)
      /\ Len(t) = IF k <= n THEN n - k + 1 ELSE 0
      /\ \A i \in 1..(n - k + 1) : t[i] = s[k + i - 1]
  BY <1>2, SubSeqProperties
<1> HIDE DEF t
<1>4. Len(t) = n - m
  BY <1>1, <1>3
<1>5. ASSUME NEW i \in 1..(n - m) PROVE t[i] = s[m + i]
  <2>1. i \in 1..(n - k + 1) /\ k + i - 1 = m + i
    BY <1>1
  <2> QED BY <1>3, <2>1, SMTT(30)
<1>6. t = SubSeq(s, m + 1, n)
  BY <1>1 DEF t
<1> QED BY <1>3, <1>4, <1>5, <1>6, Zenon

\* The readable bytes, one by one.
LEMMA ContentsFacts ==
  ASSUME NEW b, Good(b)
  PROVE  /\ Contents(b) \in Seq(Byte)
         /\ Len(Contents(b)) = ReadableBytes(b)
         /\ ReadableBytes(b) \in Nat
         /\ \A i \in 1..ReadableBytes(b) : Contents(b)[i] = b.bytes[b.reader + i]
<1>1. /\ b.bytes \in Seq(Byte) /\ b.reader \in Nat /\ b.writer \in Nat
      /\ b.reader <= b.writer /\ b.writer <= Len(b.bytes)
  BY DEF Good, Buffers
<1>2. b.writer - b.reader \in Nat
  BY <1>1
<1> QED BY <1>1, <1>2, Slice, Zenon DEF Contents, ReadableBytes

\* Two buffers with the same readable bytes.
LEMMA SameContents ==
  ASSUME NEW b, Good(b), NEW s \in Seq(Byte), Len(s) = ReadableBytes(b),
         \A i \in 1..Len(s) : b.bytes[b.reader + i] = s[i]
  PROVE  Contents(b) = s
BY ContentsFacts, SeqEqual

-----------------------------------------------------------------------------
(* The functions of the source                                             *)

\* makeSpace keeps the readable bytes and makes room for len more.  When it
\* moves them, it moves them down, as it asserts (kCheapPrepend <
\* readerIndex_), so that std::copy is right for them.
LEMMA MakeSpaceFacts ==
  ASSUME NEW b, Good(b), NEW len \in Nat, WritableBytes(b) < len
  PROVE  /\ Good(MakeSpace(b, len))
         /\ Contents(MakeSpace(b, len)) = Contents(b)
         /\ WritableBytes(MakeSpace(b, len)) >= len
         /\ ~NeedsResize(b, len) => CheapPrepend < b.reader
<1> DEFINE m == MakeSpace(b, len)
<1>1. /\ b.bytes \in Seq(Byte) /\ b.reader \in Nat /\ b.writer \in Nat
      /\ b.reader <= b.writer /\ b.writer <= Len(b.bytes)
      /\ CheapPrepend <= Len(b.bytes) /\ CheapPrepend \in Nat
      /\ Len(b.bytes) \in Nat /\ Len(b.bytes) - b.writer < len
  BY BufferConstants DEF Good, Buffers, WritableBytes
<1>2. /\ Contents(b) \in Seq(Byte)
      /\ Len(Contents(b)) = b.writer - b.reader
      /\ \A i \in 1..(b.writer - b.reader) : Contents(b)[i] = b.bytes[b.reader + i]
  BY ContentsFacts DEF ReadableBytes
<1>3. CASE NeedsResize(b, len)
  <2>1. /\ m.bytes = Resize(b.bytes, b.writer + len)
        /\ m.reader = b.reader /\ m.writer = b.writer
        /\ (m.bytes \in Seq(Byte) => m \in Buffers)
    BY <1>3, SMTT(120) DEF MakeSpace, Good, Buffers
  <2> HIDE DEF m
  <2>2. /\ m.bytes \in Seq(Byte) /\ Len(m.bytes) = b.writer + len
        /\ \A i \in 1..(b.writer + len) : i <= Len(b.bytes) => m.bytes[i] = b.bytes[i]
    <3>1. PICK n \in Nat : n = b.writer + len
      BY <1>1
    <3>2. b.bytes \in Seq(Byte) /\ m.bytes = Resize(b.bytes, n)
      BY <1>1, <2>1, <3>1
    <3>3. /\ Resize(b.bytes, n) \in Seq(Byte) /\ Len(Resize(b.bytes, n)) = n
          /\ \A i \in 1..n : i <= Len(b.bytes) => Resize(b.bytes, n)[i] = b.bytes[i]
      BY <3>2, ResizeFacts, Zenon
    <3> QED BY <3>1, <3>2, <3>3
  <2>3. Good(m)
    BY <1>1, <2>1, <2>2 DEF Good, Buffers
  <2>4. WritableBytes(m) >= len
    BY <1>1, <2>1, <2>2 DEF WritableBytes
  <2>5. ASSUME NEW i \in 1..Len(Contents(b)) PROVE m.bytes[m.reader + i] = Contents(b)[i]
    <3>1. b.reader + i \in 1..(b.writer + len) /\ b.reader + i <= Len(b.bytes)
      <4>1. i \in Nat /\ 1 <= i /\ i <= b.writer - b.reader
        BY <1>1, <1>2
      <4> QED BY <1>1, <4>1, SMTT(120)
    <3>2. Contents(b)[i] = b.bytes[b.reader + i]
      BY <1>2
    <3> QED BY <2>1, <2>2, <3>1, <3>2
  <2>6. Contents(m) = Contents(b)
    BY <1>2, <2>1, <2>3, <2>5, SameContents DEF ReadableBytes
  <2> QED BY <1>3, <2>3, <2>4, <2>6 DEF m
<1>4. CASE ~NeedsResize(b, len)
  <2>1. m = [bytes |-> CopyTo(b.bytes, CheapPrepend, Contents(b)),
             reader |-> CheapPrepend, writer |-> CheapPrepend + (b.writer - b.reader)]
    BY <1>4 DEF MakeSpace, ReadableBytes
  <2> HIDE DEF m
  <2>2. (Len(b.bytes) - b.writer) + b.reader >= len + CheapPrepend
    BY <1>1, <1>4 DEF NeedsResize, WritableBytes
  <2>3. CheapPrepend < b.reader
    BY <1>1, <2>2
  <2>4. /\ m.bytes \in Seq(Byte) /\ Len(m.bytes) = Len(b.bytes)
        /\ \A i \in 1..Len(b.bytes) :
             m.bytes[i] = IF i > CheapPrepend /\ i <= CheapPrepend + (b.writer - b.reader)
                          THEN Contents(b)[i - CheapPrepend] ELSE b.bytes[i]
    BY <1>1, <1>2, <2>1, CopyFacts, SMTT(30)
  <2>5. Good(m)
    BY <1>1, <2>1, <2>2, <2>4 DEF Good, Buffers
  <2>6. WritableBytes(m) >= len
    BY <1>1, <2>1, <2>2, <2>4, SMTT(30) DEF WritableBytes
  <2>7. ASSUME NEW i \in 1..Len(Contents(b)) PROVE m.bytes[m.reader + i] = Contents(b)[i]
    <3>1. /\ CheapPrepend + i \in 1..Len(b.bytes) /\ CheapPrepend + i > CheapPrepend
          /\ CheapPrepend + i <= CheapPrepend + (b.writer - b.reader)
          /\ (CheapPrepend + i) - CheapPrepend = i
      <4>1. i \in Nat /\ 1 <= i /\ i <= b.writer - b.reader
        BY <1>1, <1>2
      <4>2. CheapPrepend + i \in Nat /\ CheapPrepend + i <= Len(b.bytes)
        BY <1>1, <2>2, <4>1, SMTT(30)
      <4> QED BY <1>1, <4>1, <4>2
    <3>2. m.reader = CheapPrepend
      BY <2>1
    <3> QED BY <2>4, <3>1, <3>2
  <2>8. ReadableBytes(m) = Len(Contents(b))
    BY <1>1, <1>2, <2>1 DEF ReadableBytes
  <2>9. Contents(m) = Contents(b)
    BY <1>2, <2>5, <2>7, <2>8, SameContents
  <2> QED BY <2>3, <2>5, <2>6, <2>9 DEF m
<1> QED BY <1>3, <1>4

\* ensureWritableBytes keeps the readable bytes and leaves room.
LEMMA EnsureFacts ==
  ASSUME NEW b, Good(b), NEW len \in Nat
  PROVE  /\ Good(EnsureWritableBytes(b, len))
         /\ Contents(EnsureWritableBytes(b, len)) = Contents(b)
         /\ WritableBytes(EnsureWritableBytes(b, len)) >= len
<1>1. WritableBytes(b) \in Int
  BY DEF WritableBytes, Good, Buffers
<1> QED BY <1>1, MakeSpaceFacts DEF EnsureWritableBytes

\* append puts the data behind the readable bytes.
LEMMA AppendedFacts ==
  ASSUME NEW b, Good(b), NEW data \in Seq(Byte)
  PROVE  /\ Good(Appended(b, data))
         /\ Contents(Appended(b, data)) = Contents(b) \o data
<1> DEFINE room == EnsureWritableBytes(b, Len(data))
           a == Appended(b, data)
<1>1. Good(room) /\ Contents(room) = Contents(b) /\ WritableBytes(room) >= Len(data)
  BY EnsureFacts
<1>2. /\ a.bytes = CopyTo(room.bytes, room.writer, data)
      /\ a.reader = room.reader /\ a.writer = room.writer + Len(data)
      /\ a.bytes \in Seq(Byte) /\ a.writer \in Nat => a \in Buffers
  BY <1>1, Zenon DEF Appended, Good, Buffers
<1> HIDE DEF room, a
<1>3. /\ room.bytes \in Seq(Byte) /\ room.reader \in Nat /\ room.writer \in Nat
      /\ room.reader <= room.writer /\ room.writer + Len(data) <= Len(room.bytes)
      /\ Len(data) \in Nat /\ Len(room.bytes) \in Nat /\ CheapPrepend <= Len(room.bytes)
  BY <1>1 DEF Good, Buffers, WritableBytes
<1>4. /\ a.bytes \in Seq(Byte) /\ Len(a.bytes) = Len(room.bytes)
      /\ \A i \in 1..Len(room.bytes) :
           a.bytes[i] = IF i > room.writer /\ i <= room.writer + Len(data)
                        THEN data[i - room.writer] ELSE room.bytes[i]
  BY <1>2, <1>3, CopyFacts, SMTT(30)
<1>5. Good(a)
  BY <1>2, <1>3, <1>4 DEF Good
<1> DEFINE c == Contents(b)
<1>c. /\ c \in Seq(Byte) /\ Len(c) = room.writer - room.reader
      /\ \A i \in 1..(room.writer - room.reader) : c[i] = room.bytes[room.reader + i]
  BY <1>1, ContentsFacts DEF ReadableBytes
<1> DEFINE s == c \o data
<1> HIDE DEF c
<1>s. /\ s \in Seq(Byte) /\ Len(s) = Len(c) + Len(data)
      /\ \A i \in 1..(Len(c) + Len(data)) :
           s[i] = IF i <= Len(c) THEN c[i] ELSE data[i - Len(c)]
  BY <1>c, ConcatProperties, Zenon
<1> HIDE DEF s
<1>6. Len(c) = room.writer - room.reader /\ s \in Seq(Byte)
      /\ Len(s) = (room.writer - room.reader) + Len(data)
  BY <1>c, <1>s
<1>8. Len(s) = ReadableBytes(a)
  BY <1>2, <1>3, <1>6 DEF ReadableBytes
<1>9. ASSUME NEW i \in 1..Len(s) PROVE a.bytes[a.reader + i] = s[i]
  <2>1. /\ room.reader + i \in 1..Len(room.bytes) /\ i \in Nat
        /\ i \in 1..(Len(c) + Len(data))
    BY <1>3, <1>6, SMTT(120)
  <2>2. CASE i <= Len(c)
    <3>1. ~(room.reader + i > room.writer) /\ i \in 1..(room.writer - room.reader)
      BY <1>3, <1>6, <2>1, <2>2
    <3>2. s[i] = c[i]
      BY <1>s, <2>1, <2>2
    <3>3. c[i] = room.bytes[room.reader + i]
      BY <1>c, <3>1
    <3>4. a.bytes[room.reader + i] = room.bytes[room.reader + i]
      BY <1>4, <2>1, <3>1
    <3> QED BY <1>2, <3>2, <3>3, <3>4
  <2>3. CASE ~(i <= Len(c))
    <3>1. /\ room.reader + i > room.writer /\ room.reader + i <= room.writer + Len(data)
          /\ (room.reader + i) - room.writer = i - Len(c)
      BY <1>3, <1>6, <2>1, <2>3, SMTT(120)
    <3>2. s[i] = data[i - Len(c)]
      BY <1>s, <2>1, <2>3
    <3>3. a.bytes[room.reader + i] = data[(room.reader + i) - room.writer]
      BY <1>4, <2>1, <3>1
    <3> QED BY <1>2, <3>1, <3>2, <3>3
  <2> QED BY <2>2, <2>3
<1>10. Contents(a) = s
  BY <1>5, <1>6, <1>8, <1>9, SameContents
<1> QED BY <1>5, <1>10 DEF a, s, c

\* retrieve takes len bytes off the front.
LEMMA RetrievedFacts ==
  ASSUME NEW b, Good(b), NEW len \in Nat, len <= ReadableBytes(b)
  PROVE  /\ Good(Retrieved(b, len))
         /\ Contents(Retrieved(b, len)) = SubSeq(Contents(b), len + 1, Len(Contents(b)))
<1> DEFINE r == Retrieved(b, len)
           s == SubSeq(Contents(b), len + 1, Len(Contents(b)))
<1>1. /\ b.bytes \in Seq(Byte) /\ b.reader \in Nat /\ b.writer \in Nat
      /\ b.reader <= b.writer /\ b.writer <= Len(b.bytes) /\ len <= b.writer - b.reader
      /\ CheapPrepend <= Len(b.bytes) /\ CheapPrepend \in Nat /\ Len(b.bytes) \in Nat
  BY BufferConstants DEF Good, Buffers, ReadableBytes
<1>2. /\ Contents(b) \in Seq(Byte) /\ Len(Contents(b)) = b.writer - b.reader
      /\ \A i \in 1..(b.writer - b.reader) : Contents(b)[i] = b.bytes[b.reader + i]
  BY ContentsFacts DEF ReadableBytes
<1>3. /\ s \in Seq(Byte) /\ Len(s) = (b.writer - b.reader) - len
      /\ \A i \in 1..((b.writer - b.reader) - len) : s[i] = Contents(b)[len + i]
  <2>1. PICK n \in Nat : n = Len(Contents(b)) /\ len <= n
    BY <1>1, <1>2
  <2> QED BY <1>2, <2>1, Slice
<1>4. CASE len < b.writer - b.reader
  <2>1. /\ r.bytes = b.bytes /\ r.reader = b.reader + len /\ r.writer = b.writer
        /\ r.reader \in Nat => r \in Buffers
    BY <1>4, SMTT(120) DEF Retrieved, Good, Buffers, ReadableBytes
  <2> HIDE DEF r, s
  <2>2. Good(r)
    BY <1>1, <1>4, <2>1 DEF Good
  <2>3. Len(s) = ReadableBytes(r)
    BY <1>1, <1>3, <2>1 DEF ReadableBytes
  <2>4. ASSUME NEW i \in 1..Len(s) PROVE r.bytes[r.reader + i] = s[i]
    <3>1. /\ len + i \in 1..(b.writer - b.reader) /\ i \in 1..((b.writer - b.reader) - len)
          /\ (b.reader + len) + i = b.reader + (len + i)
      BY <1>1, <1>3
    <3> QED BY <1>2, <1>3, <2>1, <3>1
  <2>5. Contents(r) = s
    BY <1>3, <2>2, <2>3, <2>4, SameContents
  <2> QED BY <2>2, <2>5 DEF r, s
<1>5. CASE ~(len < b.writer - b.reader)
  <2>1. /\ r.bytes = b.bytes /\ r.reader = CheapPrepend /\ r.writer = CheapPrepend
        /\ r \in Buffers
    BY <1>1, <1>5, Zenon DEF Retrieved, Good, Buffers, ReadableBytes
  <2> HIDE DEF r, s
  <2>2. Good(r)
    BY <1>1, <2>1 DEF Good
  <2>3. Len(s) = 0
    <3>1. b.writer - b.reader = len
      BY <1>1, <1>5
    <3> QED BY <1>3, <3>1
  <2>4. ReadableBytes(r) = 0
    BY <1>1, <2>1 DEF ReadableBytes
  <2>5. \A i \in 1..Len(s) : r.bytes[r.reader + i] = s[i]
    BY <2>3
  <2>6. Contents(r) = s
    BY <1>3, <2>2, <2>3, <2>4, <2>5, SameContents, Zenon
  <2> QED BY <2>2, <2>6 DEF r, s
<1> QED BY <1>4, <1>5

\* readFd puts the data behind the readable bytes, also when a part of it has
\* gone through extrabuf.
LEMMA ReadInFacts ==
  ASSUME NEW b, Good(b), NEW data \in Seq(Byte)
  PROVE  /\ Good(ReadIn(b, data))
         /\ Contents(ReadIn(b, data)) = Contents(b) \o data
<1>1. /\ b.bytes \in Seq(Byte) /\ b.reader \in Nat /\ b.writer \in Nat
      /\ b.reader <= b.writer /\ b.writer <= Len(b.bytes)
      /\ Len(b.bytes) \in Nat /\ Len(data) \in Nat
  BY DEF Good, Buffers
<1>2. ASSUME NEW part \in Seq(Byte), Len(part) <= WritableBytes(b)
      PROVE  /\ Good([b EXCEPT !.bytes = CopyTo(@, b.writer, part),
                               !.writer = @ + Len(part)])
             /\ Contents([b EXCEPT !.bytes = CopyTo(@, b.writer, part),
                                   !.writer = @ + Len(part)]) = Contents(b) \o part
  <2>1. EnsureWritableBytes(b, Len(part)) = b
    BY <1>1, <1>2 DEF EnsureWritableBytes, WritableBytes
  <2>2. Appended(b, part) = [b EXCEPT !.bytes = CopyTo(@, b.writer, part),
                                      !.writer = @ + Len(part)]
    BY <2>1 DEF Appended
  <2> QED BY <2>2, AppendedFacts, Zenon
<1>3. CASE Len(data) <= WritableBytes(b)
  <2>1. data = SubSeq(data, 1, Len(data))
    BY SubSeqFull
  <2>2. ReadIn(b, data) = [b EXCEPT !.bytes = CopyTo(@, b.writer, data),
                                    !.writer = @ + Len(data)]
    BY <1>3, <2>1, Zenon DEF ReadIn
  <2> QED BY <1>2, <1>3, <2>2, Zenon
<1>4. CASE ~(Len(data) <= WritableBytes(b))
  <2> DEFINE w == WritableBytes(b)
             first == SubSeq(data, 1, w)
             more == SubSeq(data, w + 1, Len(data))
             full == [b EXCEPT !.bytes = CopyTo(@, b.writer, first), !.writer = @ + w]
  <2>1. w \in Nat /\ w <= Len(data) /\ w <= WritableBytes(b)
    BY <1>1, <1>4 DEF WritableBytes
  <2>2. ReadIn(b, data) = Appended(full, more)
    BY <1>4 DEF ReadIn
  <2> HIDE DEF w
  <2>3. first \in Seq(Byte) /\ Len(first) = w
    <3>1. SubSeq(data, 0 + 1, w) \in Seq(Byte) /\ Len(SubSeq(data, 0 + 1, w)) = w - 0
      BY <1>1, <2>1, Slice
    <3> QED BY <2>1, <3>1
  <2>4. more \in Seq(Byte)
    BY <1>1, <2>1, Slice
  <2>5. first \o more = data
    <3>1. SubSeq(data, 1, Len(data)) = data
      BY SubSeqFull
    <3>2. /\ data \in Seq(Byte) /\ 1 \in 1..(Len(data) + 1) /\ w \in (1 - 1)..Len(data)
          /\ Len(data) \in w..Len(data)
      BY <1>1, <2>1, SMTT(30)
    <3> QED BY <3>1, <3>2, ConcatAdjacentSubSeq, Zenon
  <2>6. Good(full) /\ Contents(full) = Contents(b) \o first
    <3>1. Len(first) <= WritableBytes(b)
      BY <2>1, <2>3
    <3> QED BY <1>2, <2>3, <3>1, Zenon
  <2> HIDE DEF first, more, full
  <2>7. Good(Appended(full, more)) /\ Contents(Appended(full, more)) = Contents(full) \o more
    BY <2>4, <2>6, AppendedFacts, Zenon
  <2>8. Contents(b) \in Seq(Byte)
    BY ContentsFacts
  <2>9. (Contents(b) \o first) \o more = Contents(b) \o (first \o more)
    BY <2>3, <2>4, <2>8, ConcatAssociative, SMTT(120)
  <2> QED BY <2>2, <2>5, <2>6, <2>7, <2>9
<1> QED BY <1>3, <1>4

\* unwrite takes len bytes off the back.
LEMMA UnwriteFacts ==
  ASSUME NEW b, Good(b), NEW len \in Nat, len <= ReadableBytes(b)
  PROVE  /\ Good([b EXCEPT !.writer = @ - len])
         /\ Contents([b EXCEPT !.writer = @ - len])
              = SubSeq(Contents(b), 1, Len(Contents(b)) - len)
<1> DEFINE u == [b EXCEPT !.writer = @ - len]
           n == (b.writer - b.reader) - len
           s == SubSeq(Contents(b), 1, n)
<1>1. /\ b.bytes \in Seq(Byte) /\ b.reader \in Nat /\ b.writer \in Nat
      /\ b.reader <= b.writer /\ b.writer <= Len(b.bytes) /\ len <= b.writer - b.reader
      /\ CheapPrepend <= Len(b.bytes) /\ CheapPrepend \in Nat /\ Len(b.bytes) \in Nat
  BY BufferConstants DEF Good, Buffers, ReadableBytes
<1>2. /\ Contents(b) \in Seq(Byte) /\ Len(Contents(b)) = b.writer - b.reader
      /\ \A i \in 1..(b.writer - b.reader) : Contents(b)[i] = b.bytes[b.reader + i]
  BY ContentsFacts DEF ReadableBytes
<1>3. n \in Nat /\ n <= b.writer - b.reader /\ (b.writer - len) - b.reader = n
      /\ b.writer - len \in Nat /\ b.writer - len <= Len(b.bytes)
      /\ b.reader <= b.writer - len
  BY <1>1
<1>4. /\ u.bytes = b.bytes /\ u.reader = b.reader /\ u.writer = b.writer - len
      /\ u \in Buffers
  BY <1>3, SMTT(120) DEF Good, Buffers
<1>5. s \in Seq(Byte) /\ Len(s) = n /\ \A i \in 1..n : s[i] = Contents(b)[i]
  <2> DEFINE t == SubSeq(Contents(b), 0 + 1, n)
  <2>1. t \in Seq(Byte) /\ Len(t) = n - 0 /\ \A i \in 1..(n - 0) : t[i] = Contents(b)[0 + i]
    BY <1>2, <1>3, Slice
  <2>2. s = t
    OBVIOUS
  <2> HIDE DEF s, t, n
  <2>3. n - 0 = n /\ \A i \in 1..n : 0 + i = i
    BY <1>3
  <2> QED BY <2>1, <2>2, <2>3
<1> HIDE DEF u, s, n
<1>6. Good(u)
  BY <1>1, <1>3, <1>4 DEF Good
<1>7. Len(s) = ReadableBytes(u)
  BY <1>3, <1>4, <1>5 DEF ReadableBytes
<1>8. ASSUME NEW i \in 1..Len(s) PROVE u.bytes[u.reader + i] = s[i]
  <2>1. i \in 1..n /\ i \in 1..(b.writer - b.reader)
    BY <1>1, <1>3, <1>5, SMTT(30)
  <2> QED BY <1>2, <1>4, <1>5, <2>1
<1>9. Contents(u) = s
  BY <1>5, <1>6, <1>7, <1>8, SameContents
<1> QED BY <1>2, <1>6, <1>9, Zenon DEF u, s, n

\* prepend puts the data in front of the readable bytes.
LEMMA PrependFacts ==
  ASSUME NEW b, Good(b), NEW data \in Seq(Byte), Len(data) <= b.reader
  PROVE  LET p == [b EXCEPT !.reader = @ - Len(data),
                            !.bytes = CopyTo(@, b.reader - Len(data), data)]
         IN  Good(p) /\ Contents(p) = data \o Contents(b)
<1> DEFINE p == [b EXCEPT !.reader = @ - Len(data),
                          !.bytes = CopyTo(@, b.reader - Len(data), data)]
           from == b.reader - Len(data)
<1>1. /\ b.bytes \in Seq(Byte) /\ b.reader \in Nat /\ b.writer \in Nat
      /\ b.reader <= b.writer /\ b.writer <= Len(b.bytes)
      /\ CheapPrepend <= Len(b.bytes) /\ Len(b.bytes) \in Nat /\ Len(data) \in Nat
  BY DEF Good, Buffers
<1>2. from \in Nat /\ from + Len(data) = b.reader
  BY <1>1
<1>3. /\ CopyTo(b.bytes, from, data) \in Seq(Byte)
      /\ Len(CopyTo(b.bytes, from, data)) = Len(b.bytes)
      /\ \A i \in 1..Len(b.bytes) :
           CopyTo(b.bytes, from, data)[i] =
             IF i > from /\ i <= from + Len(data) THEN data[i - from] ELSE b.bytes[i]
  <2> HIDE DEF from
  <2> QED BY <1>1, <1>2, CopyFacts
<1>4. /\ p.bytes = CopyTo(b.bytes, from, data) /\ p.reader = from /\ p.writer = b.writer
      /\ p \in Buffers
  BY <1>2, <1>3, Zenon DEF Good, Buffers
<1> HIDE DEF p, from
<1>5. Good(p)
  BY <1>1, <1>2, <1>3, <1>4 DEF Good
<1> DEFINE c == Contents(b)
<1>6. /\ c \in Seq(Byte) /\ Len(c) = b.writer - b.reader
      /\ \A i \in 1..(b.writer - b.reader) : c[i] = b.bytes[b.reader + i]
  BY ContentsFacts DEF ReadableBytes
<1> DEFINE s == data \o c
<1> HIDE DEF c
<1>7. /\ s \in Seq(Byte) /\ Len(s) = Len(data) + Len(c)
      /\ \A i \in 1..(Len(data) + Len(c)) :
           s[i] = IF i <= Len(data) THEN data[i] ELSE c[i - Len(data)]
  BY <1>6, ConcatProperties, Zenon
<1> HIDE DEF s
<1>8. Len(c) = b.writer - b.reader /\ Len(s) = Len(data) + (b.writer - b.reader)
  BY <1>6, <1>7
<1>9. Len(s) = ReadableBytes(p)
  BY <1>1, <1>2, <1>4, <1>8 DEF ReadableBytes
<1>10. ASSUME NEW i \in 1..Len(s) PROVE p.bytes[p.reader + i] = s[i]
  <2>1. /\ from + i \in 1..Len(b.bytes) /\ i \in Nat /\ from + i > from
        /\ i \in 1..(Len(data) + Len(c))
    BY <1>1, <1>2, <1>8, SMTT(30)
  <2>2. CASE i <= Len(data)
    <3>1. from + i <= from + Len(data) /\ (from + i) - from = i
      BY <1>1, <1>2, <2>1, <2>2
    <3>2. p.bytes[from + i] = data[(from + i) - from]
      BY <1>3, <1>4, <2>1, <3>1
    <3>3. s[i] = data[i]
      BY <1>7, <2>1, <2>2
    <3> QED BY <1>4, <3>1, <3>2, <3>3
  <2>3. CASE ~(i <= Len(data))
    <3>1. /\ ~(from + i <= from + Len(data)) /\ from + i = b.reader + (i - Len(data))
          /\ i - Len(data) \in 1..(b.writer - b.reader)
      BY <1>1, <1>2, <1>8, <2>1, <2>3, SMTT(120)
    <3>2. p.bytes[from + i] = b.bytes[from + i]
      BY <1>3, <1>4, <2>1, <3>1
    <3>3. s[i] = c[i - Len(data)]
      BY <1>7, <2>1, <2>3
    <3>4. c[i - Len(data)] = b.bytes[b.reader + (i - Len(data))]
      BY <1>6, <3>1
    <3> QED BY <1>4, <3>1, <3>2, <3>3, <3>4
  <2> QED BY <2>2, <2>3
<1>11. Contents(p) = s
  BY <1>5, <1>7, <1>9, <1>10, SameContents
<1> QED BY <1>5, <1>11 DEF p, s, c

\* A new buffer is empty.
LEMMA EmptyFacts == Good(Empty) /\ Contents(Empty) = << >>
<1>1. {CheapPrepend, InitialSize} \subseteq Nat /\ Zero \in Byte
  BY BufferConstants
<1>2. CheapPrepend + InitialSize \in Nat
  BY <1>1
<1>3. Empty.bytes \in [1..(CheapPrepend + InitialSize) -> Byte]
  BY <1>1 DEF Empty
<1>4. Empty.bytes \in Seq(Byte) /\ Len(Empty.bytes) = CheapPrepend + InitialSize
  BY <1>2, <1>3
<1>5. Good(Empty)
  BY <1>1, <1>4 DEF Empty, Good, Buffers
<1>6. ReadableBytes(Empty) = 0
  BY <1>1 DEF Empty, ReadableBytes
<1> QED BY <1>5, <1>6, ContentsFacts, EmptySeq

-----------------------------------------------------------------------------
(* The steps                                                               *)

\* One call's data is a sequence of at most MaxLen bytes.
LEMMA DataFacts == Data \subseteq Seq(Byte) /\ Data = BQ!Bytes
<1>1. ASSUME NEW data \in Data PROVE data \in Seq(Byte)
  <2>1. PICK n \in 0..MaxLen : data \in [1..n -> Byte]
    BY DEF Data
  <2>2. n \in Nat
    BY BufferConstants
  <2> QED BY <2>1, <2>2
<1> QED BY <1>1 DEF Data, BQ!Bytes

\* Every call keeps the indices in order and is a step of the queue of bytes,
\* or (shrink, a call with no bytes) leaves it as it is.
LEMMA StepRefines ==
  ASSUME Good(buf), [Next]_buf
  PROVE  Good(buf)' /\ [BQ!Next]_(Contents(buf))
<1>1. CASE UNCHANGED buf
  BY <1>1 DEF Good, Contents
<1>2. ASSUME NEW data \in Data, AppendData(data)
      PROVE  Good(buf)' /\ BQ!Next
  <2>1. Good(buf)' /\ BQ!Put(data)
    BY <1>2, DataFacts, AppendedFacts DEF AppendData, BQ!Put
  <2> QED BY <2>1, DataFacts DEF BQ!Next
<1>3. ASSUME NEW data \in Data, ReadFd(data)
      PROVE  Good(buf)' /\ BQ!Next
  <2>1. Good(buf)' /\ BQ!Put(data)
    BY <1>3, DataFacts, ReadInFacts, SMTT(30) DEF ReadFd, BQ!Put
  <2> QED BY <2>1, DataFacts DEF BQ!Next
<1>4. ASSUME NEW data \in Data, Prepend(data)
      PROVE  Good(buf)' /\ BQ!Next
  <2>1. Good(buf)' /\ BQ!Untake(data)
    BY <1>4, DataFacts, PrependFacts, Zenon DEF Prepend, BQ!Untake
  <2> QED BY <2>1, DataFacts DEF BQ!Next
<1>5. ASSUME NEW len \in 0..MaxLen, Retrieve(len)
      PROVE  Good(buf)' /\ BQ!Next
  <2>1. len \in Nat /\ len <= ReadableBytes(buf)
    BY <1>5, BufferConstants DEF Retrieve
  <2>2. Len(Contents(buf)) = ReadableBytes(buf) /\ ReadableBytes(buf) \in Nat
    BY ContentsFacts
  <2>3. Good(buf)' /\ BQ!Take(len)
    BY <1>5, <2>1, <2>2, RetrievedFacts DEF Retrieve, BQ!Take
  <2> QED BY <2>1, <2>2, <2>3 DEF BQ!Next
<1>6. ASSUME NEW len \in 0..MaxLen, Unwrite(len)
      PROVE  Good(buf)' /\ BQ!Next
  <2>1. len \in Nat /\ len <= ReadableBytes(buf)
    BY <1>6, BufferConstants DEF Unwrite
  <2>2. Len(Contents(buf)) = ReadableBytes(buf) /\ ReadableBytes(buf) \in Nat
    BY ContentsFacts
  <2>3. Good(buf)' /\ BQ!Unput(len)
    BY <1>6, <2>1, <2>2, UnwriteFacts, Zenon DEF Unwrite, BQ!Unput
  <2> QED BY <2>1, <2>2, <2>3 DEF BQ!Next
<1>7. ASSUME NEW reserve \in 0..MaxLen, Shrink(reserve)
      PROVE  Good(buf)' /\ Contents(buf)' = Contents(buf)
  <2> DEFINE other == EnsureWritableBytes(Empty, ReadableBytes(buf) + reserve)
  <2>1. reserve \in Nat
    BY BufferConstants
  <2>2. Contents(buf) \in Seq(Byte) /\ ReadableBytes(buf) + reserve \in Nat
    BY <2>1, ContentsFacts
  <2>3. Good(other) /\ Contents(other) = << >>
    BY <2>2, EmptyFacts, EnsureFacts
  <2> HIDE DEF other
  <2>4. buf' = Appended(other, Contents(buf))
    BY <1>7 DEF Shrink, other
  <2>5. << >> \o Contents(buf) = Contents(buf)
    BY <2>2, ConcatEmptySeq
  <2>6. Good(Appended(other, Contents(buf)))
        /\ Contents(Appended(other, Contents(buf))) = << >> \o Contents(buf)
    BY <2>2, <2>3, AppendedFacts, Zenon
  <2> QED BY <2>4, <2>5, <2>6, Zenon DEF Good, Contents
<1> QED BY <1>1, <1>2, <1>3, <1>4, <1>5, <1>6, <1>7 DEF Next

\* For all sizes and bounds: through every append, readFd, retrieve, unwrite,
\* prepend and shrink, with the moves and growths of makeSpace, readers see a
\* queue of bytes.
THEOREM Refines == Spec => ByteStream
<1>1. Init => Good(buf) /\ BQ!Init
  BY EmptyFacts DEF Init, BQ!Init
<1>2. Good(buf) /\ [Next]_buf => Good(buf)' /\ [BQ!Next]_(Contents(buf))
  BY StepRefines
<1> QED BY <1>1, <1>2, PTL DEF Spec, ByteStream, BQ!Spec
=============================================================================
