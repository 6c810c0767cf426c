------------------------------- MODULE Buffer -------------------------------
(***************************************************************************)
(* net/Buffer.h and Buffer::readFd: a vector of bytes with a reader and a  *)
(* writer index.  The vector is kept with all of its bytes, stale ones     *)
(* included, so that a copy to or from the wrong place shows.  The integer *)
(* forms of append, peek, retrieve and prepend are these on 1 to 8 bytes.  *)
(***************************************************************************)
EXTENDS Naturals, Sequences

CONSTANTS Byte,          \* the bytes, Zero among them
          Zero,          \* what resize fills the vector with
          CheapPrepend,  \* kCheapPrepend
          InitialSize,   \* kInitialSize
          ExtraSize,     \* sizeof extrabuf in readFd
          MaxLen,        \* bound on the bytes one call handles
          MaxSize        \* bound on the size of the vector

ASSUME BufferConstants ==
  /\ {CheapPrepend, InitialSize, ExtraSize, MaxLen, MaxSize} \subseteq Nat
  /\ Zero \in Byte

VARIABLE buf  \* buffer_, readerIndex_ and writerIndex_

Empty == [bytes |-> [i \in 1..(CheapPrepend + InitialSize) |-> Zero],
          reader |-> CheapPrepend, writer |-> CheapPrepend]

Init == buf = Empty

ReadableBytes(b) == b.writer - b.reader
WritableBytes(b) == Len(b.bytes) - b.writer
Contents(b) == SubSeq(b.bytes, b.reader + 1, b.writer)

\* std::copy(data, data + len, begin() + at); index i of the vector is at i + 1.
CopyTo(bytes, at, data) ==
  [i \in 1..Len(bytes) |->
     IF i > at /\ i <= at + Len(data) THEN data[i - at] ELSE bytes[i]]

Resize(bytes, n) ==
  [i \in 1..n |-> IF i <= Len(bytes) THEN bytes[i] ELSE Zero]

\* makeSpace: not even with the free bytes in front is there enough room.
NeedsResize(b, len) == WritableBytes(b) + b.reader < len + CheapPrepend

\* Mutant: the indices move and the bytes do not.
MakeSpaceNoCopy(b, len) ==
  IF NeedsResize(b, len)
    THEN [b EXCEPT !.bytes = Resize(@, b.writer + len)]
    ELSE [b EXCEPT !.reader = CheapPrepend,
                   !.writer = CheapPrepend + ReadableBytes(b)]

\* makeSpace: grow the vector, or move the readable bytes to the front.
MakeSpace(b, len) ==
  IF NeedsResize(b, len)
    THEN [b EXCEPT !.bytes = Resize(@, b.writer + len)]
    ELSE [bytes |-> CopyTo(b.bytes, CheapPrepend, Contents(b)),
          reader |-> CheapPrepend,
          writer |-> CheapPrepend + ReadableBytes(b)]

EnsureWritableBytes(b, len) ==
  IF WritableBytes(b) < len THEN MakeSpace(b, len) ELSE b

\* append: ensureWritableBytes, copy, hasWritten.
Appended(b, data) ==
  LET room == EnsureWritableBytes(b, Len(data))
  IN  [room EXCEPT !.bytes = CopyTo(@, room.writer, data),
                   !.writer = @ + Len(data)]

\* retrieve, with retrieveAll when nothing is left.
Retrieved(b, len) ==
  IF len < ReadableBytes(b)
    THEN [b EXCEPT !.reader = @ + len]
    ELSE [b EXCEPT !.reader = CheapPrepend, !.writer = CheapPrepend]

\* readFd: what does not fit goes through extrabuf and append.
ReadIn(b, data) ==
  LET here == IF Len(data) <= WritableBytes(b) THEN Len(data) ELSE WritableBytes(b)
      full == [b EXCEPT !.bytes = CopyTo(@, b.writer, SubSeq(data, 1, here)),
                        !.writer = @ + here]
  IN  IF Len(data) <= WritableBytes(b) THEN full
      ELSE Appended(full, SubSeq(data, here + 1, Len(data)))

-----------------------------------------------------------------------------
AppendData(data) == buf' = Appended(buf, data)

ReadFd(data) ==
  /\ Len(data) <= WritableBytes(buf)
                  + (IF WritableBytes(buf) < ExtraSize THEN ExtraSize ELSE 0)
  /\ buf' = ReadIn(buf, data)

Retrieve(len) == len <= ReadableBytes(buf) /\ buf' = Retrieved(buf, len)

Unwrite(len) ==
  /\ len <= ReadableBytes(buf)
  /\ buf' = [buf EXCEPT !.writer = @ - len]

Prepend(data) ==
  /\ Len(data) <= buf.reader
  /\ buf' = [buf EXCEPT !.reader = @ - Len(data),
                        !.bytes = CopyTo(@, buf.reader - Len(data), data)]

\* shrink: a new buffer with the same readable bytes takes the old one's place.
Shrink(reserve) ==
  buf' = Appended(EnsureWritableBytes(Empty, ReadableBytes(buf) + reserve),
                  Contents(buf))

Data == UNION {[1..n -> Byte] : n \in 0..MaxLen}

Next ==
  /\ \/ \E data \in Data : AppendData(data) \/ ReadFd(data) \/ Prepend(data)
     \/ \E len \in 0..MaxLen : Retrieve(len) \/ Unwrite(len) \/ Shrink(len)
  /\ Len(buf'.bytes) <= MaxSize

Spec == Init /\ [][Next]_buf

-----------------------------------------------------------------------------
BQ == INSTANCE ByteQueue WITH readable <- Contents(buf)

\* Through all moves, growths and stale bytes, readers see a queue of bytes.
ByteStream == BQ!Spec
=============================================================================
