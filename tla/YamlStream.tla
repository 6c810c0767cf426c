----------------------------- MODULE YamlStream -----------------------------
(***************************************************************************)
(* Stream (stream.cpp): the bytes of the input become characters.  The      *)
(* encoding is guessed from the byte order mark, or from the zeros around    *)
(* a first ASCII character: an automaton reads up to four bytes and puts     *)
(* back those that are not part of a mark.  The UTF-8 the scanner reads      *)
(* bytewise is taken a character at a time.                                  *)
(***************************************************************************)
EXTENDS YamlScalar

EndOfInput == -1

Byte(bytes, i) == IF i < Len(bytes) THEN bytes[i + 1] ELSE EndOfInput

(* IntroCharTypeOf: any byte that is not special counts as ASCII. *)
IntroCharTypeOf(b) ==
  CASE b = 0 -> "00" [] b = 187 -> "BB" [] b = 191 -> "BF" [] b = 239 -> "EF"
    [] b = 254 -> "FE" [] b = 255 -> "FF" [] b = EndOfInput -> "Other"
    [] OTHER -> "Ascii"

(* s_introTransitions with s_introUngetCount: the next state, and how many   *)
(* bytes are put back on the way to it.                                      *)
Intro(state, type) ==
  LET On(t, yes, no) == IF type = t THEN yes ELSE no
  IN  CASE state = "start" ->
             (CASE type = "00" -> <<"utfbe_b1", 0>>
                [] type = "EF" -> <<"utf8_bom1", 0>>
                [] type = "FE" -> <<"utf16be_bom1", 0>>
                [] type = "FF" -> <<"utfle_bom1", 0>>
                [] type = "Ascii" -> <<"utf8_imp", 0>>
                [] OTHER -> <<"utf8", 1>>)
        [] state = "utfbe_b1" ->
             On("00", <<"utf32be_b2", 0>>, On("Ascii", <<"utf16be", 2>>, <<"utf8", 2>>))
        [] state = "utf32be_b2" ->
             On("00", <<"utf32be", 3>>, On("FE", <<"utf32be_bom3", 0>>, <<"utf8", 3>>))
        [] state = "utf32be_bom3" -> On("FF", <<"utf32be", 0>>, <<"utf8", 4>>)
        [] state = "utf16be_bom1" -> On("FF", <<"utf16be", 0>>, <<"utf8", 2>>)
        [] state = "utfle_bom1" -> On("FE", <<"utf16le_bom2", 0>>, <<"utf8", 2>>)
        [] state = "utf16le_bom2" -> On("00", <<"utf32le_bom3", 0>>, <<"utf16le", 1>>)
        [] state = "utf32le_bom3" -> On("00", <<"utf32le", 0>>, <<"utf16le", 2>>)
        [] state = "utf8_imp" -> On("00", <<"utf16le_imp", 0>>, <<"utf8", 2>>)
        [] state = "utf16le_imp" -> On("00", <<"utf32le_imp3", 0>>, <<"utf16le", 3>>)
        [] state = "utf32le_imp3" -> On("00", <<"utf32le", 4>>, <<"utf16le", 4>>)
        [] state = "utf8_bom1" -> On("BB", <<"utf8_bom2", 0>>, <<"utf8", 2>>)
        [] state = "utf8_bom2" -> On("BF", <<"utf8", 0>>, <<"utf8", 3>>)

CharSets == {"utf8", "utf16le", "utf16be", "utf32le", "utf32be"}

(* The constructor of Stream: used counts the bytes read and not put back. *)
RECURSIVE GuessCharSet(_, _, _)
GuessCharSet(bytes, state, used) ==
  LET step == Intro(state, IntroCharTypeOf(Byte(bytes, used)))
  IN  IF state \in CharSets THEN [charSet |-> state, used |-> used]
      ELSE GuessCharSet(bytes, step[1], used + 1 - step[2])
----------------------------------------------------------------------------
(* QueueUnicodeCodepoint: U+0004 is Stream::eof() and may not be queued. *)
QueueUnicodeCodepoint(q, ch) ==
  Append(q, IF ch = 4 THEN "REPLACEMENT" ELSE CharOf(ch))

HighSurrogates == 55296..56319
LowSurrogates == 56320..57343

Unit(bytes, i, charSet) ==
  IF charSet = "utf16be" THEN 256 * bytes[i + 1] + bytes[i + 2]
  ELSE 256 * bytes[i + 2] + bytes[i + 1]

(* StreamInUtf16; high is the leading surrogate that was read, 0 for none.   *)
(* After a surrogate without its other half the surrogate itself is queued,  *)
(* not the unit that follows it.                                             *)
RECURSIVE StreamInUtf16(_, _, _, _, _)
StreamInUtf16(bytes, charSet, i, high, q) ==
  LET ch == Unit(bytes, i, charSet)
      bad == QueueUnicodeCodepoint(q, 65533)
      Go(h, r) == StreamInUtf16(bytes, charSet, i + 2, h, r)
  IN  IF i + 2 > Len(bytes) THEN (IF high = 0 THEN q ELSE bad)
      ELSE IF high = 0
      THEN CASE ch \in LowSurrogates -> Go(0, bad)
             [] ch \in HighSurrogates -> Go(ch, q)
             [] OTHER -> Go(0, QueueUnicodeCodepoint(q, ch))
      ELSE CASE ch \in LowSurrogates ->
                  Go(0, QueueUnicodeCodepoint(q, 65536 + 1024 * (high - 55296) + ch - 56320))
             [] ch \in HighSurrogates -> Go(ch, bad)
             [] OTHER -> Go(0, QueueUnicodeCodepoint(bad, high))

RECURSIVE StreamInUtf32(_, _, _, _)
StreamInUtf32(bytes, charSet, i, q) ==
  LET Place(k) == IF charSet = "utf32be" THEN 4 - k ELSE k - 1
      ch == bytes[i + 1] * 256 ^ Place(1) + bytes[i + 2] * 256 ^ Place(2)
            + bytes[i + 3] * 256 ^ Place(3) + bytes[i + 4] * 256 ^ Place(4)
  IN  IF i + 4 > Len(bytes) THEN q
      ELSE StreamInUtf32(bytes, charSet, i + 4, QueueUnicodeCodepoint(q, ch))

(* StreamInUtf8 passes the bytes on; here they are read as characters. *)
Utf8Length(b) == IF b < 128 THEN 1 ELSE IF b < 224 THEN 2 ELSE IF b < 240 THEN 3 ELSE 4

RECURSIVE StreamInUtf8(_, _, _)
StreamInUtf8(bytes, i, q) ==
  LET b == bytes[i + 1]
      n == Utf8Length(b)
      lead == b % (CASE n = 1 -> 128 [] n = 2 -> 32 [] n = 3 -> 16 [] n = 4 -> 8)
      Code(k) == IF k = 1 THEN lead
                 ELSE FoldLeft(LAMBDA a, c : 64 * a + (c % 64), lead, SubSeq(bytes, i + 2, i + k))
  IN  IF i >= Len(bytes) \/ i + n > Len(bytes) THEN q
      ELSE StreamInUtf8(bytes, i + n, Append(q, CharOf(Code(n))))

(* What a scanner gets to see of the bytes. *)
Decoded(bytes) ==
  LET guess == GuessCharSet(bytes, "start", 0)
  IN  CASE guess.charSet = "utf8" -> StreamInUtf8(bytes, guess.used, <<>>)
        [] guess.charSet \in {"utf16le", "utf16be"} ->
             StreamInUtf16(bytes, guess.charSet, guess.used, 0, <<>>)
        [] OTHER -> StreamInUtf32(bytes, guess.charSet, guess.used, <<>>)
----------------------------------------------------------------------------
(* The reference: how a file is written in an encoding, with a byte order    *)
(* mark or without.                                                          *)

Utf8Bytes(n) ==
  LET Tail6(k) == 128 + ((n \div (64 ^ k)) % 64)
  IN  CASE n < 128 -> <<n>>
        [] n \in 128..2047 -> <<192 + (n \div 64), Tail6(0)>>
        [] n \in 2048..65535 -> <<224 + (n \div 4096), Tail6(1), Tail6(0)>>
        [] n > 65535 -> <<240 + (n \div 262144), Tail6(2), Tail6(1), Tail6(0)>>

Utf16Units(n) ==
  IF n < 65536 THEN <<n>>
  ELSE <<55296 + ((n - 65536) \div 1024), 56320 + ((n - 65536) % 1024)>>

BigEnd(n, k) == [i \in 1..k |-> (n \div (256 ^ (k - i))) % 256]

CharBytes(c, charSet) ==
  LET n == CodeOf(c)
      Join(f(_)) == FoldLeft(LAMBDA a, u : a \o f(u), <<>>, Utf16Units(n))
      Big2(u) == BigEnd(u, 2)
      Little2(u) == Reverse(BigEnd(u, 2))
  IN  CASE charSet = "utf8" -> Utf8Bytes(n)
        [] charSet = "utf16be" -> Join(Big2)
        [] charSet = "utf16le" -> Join(Little2)
        [] charSet = "utf32be" -> BigEnd(n, 4)
        [] charSet = "utf32le" -> Reverse(BigEnd(n, 4))

Encoded(chars, encoding) ==
  FoldLeft(LAMBDA a, c : a \o CharBytes(c, encoding.charSet), <<>>,
           IF encoding.bom THEN <<"BOM">> \o chars ELSE chars)
============================================================================
