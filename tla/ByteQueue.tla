------------------------------ MODULE ByteQueue ------------------------------
(***************************************************************************)
(* What net/Buffer.h promises: a queue of bytes that is filled at the back *)
(* (append, readFd), emptied at the front (retrieve) and, within the room  *)
(* kept free there, also filled at the front (prepend).                    *)
(***************************************************************************)
EXTENDS Naturals, Sequences

CONSTANTS Byte,  \* the bytes
          MaxLen \* bound on the bytes one call handles

VARIABLE readable  \* the bytes between peek() and beginWrite()

Bytes == UNION {[1..n -> Byte] : n \in 0..MaxLen}

Init == readable = <<>>

Put(data) == readable' = readable \o data
Take(n) == n <= Len(readable) /\ readable' = SubSeq(readable, n + 1, Len(readable))
Untake(data) == readable' = data \o readable
Unput(n) == n <= Len(readable) /\ readable' = SubSeq(readable, 1, Len(readable) - n)

Next ==
  \/ \E data \in Bytes : Put(data) \/ Untake(data)
  \/ \E n \in 0..Len(readable) : Take(n) \/ Unput(n)

Spec == Init /\ [][Next]_readable
=============================================================================
