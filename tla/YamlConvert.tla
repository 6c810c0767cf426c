---------------------------- MODULE YamlConvert ----------------------------
(***************************************************************************)
(* The scalars of yaml-cpp that are not strings: how the emitter writes a    *)
(* bool, an int, a char and a Binary (emitter.cpp, emitterutils.cpp,         *)
(* binary.cpp), and how Node::as reads them (convert.h, convert.cpp).        *)
(*                                                                         *)
(* A decoder returns <<value>>, or <<>> where the code returns false.        *)
(***************************************************************************)
EXTENDS YamlEmitter

CONSTANT IntBits   \* the width of an int

ASSUME IntBitsAssumption == IntBits \in Nat \ {0}

(* Every Write but the one of strings: prepare, write, started. *)
WriteScalar(e, chars) ==
  IF ~e.good THEN e ELSE StartedScalar(Write(PrepareNode(e, "Scalar"), chars))
----------------------------------------------------------------------------
(* bool *)

BoolNames ==
  [YesNoBool     |-> [yes |-> <<"y", "e", "s">>, no |-> <<"n", "o">>],
   OnOffBool     |-> [yes |-> <<"o", "n">>, no |-> <<"o", "f", "f">>],
   TrueFalseBool |-> [yes |-> <<"t", "r", "u", "e">>, no |-> <<"f", "a", "l", "s", "e">>]]

IsUpper(c) == CodeOf(c) \in 65..90
IsLower(c) == CodeOf(c) \in 97..122
ToUpper(c) == IF IsLower(c) THEN CharOf(CodeOf(c) - 32) ELSE c
ToLower(c) == IF IsUpper(c) THEN CharOf(CodeOf(c) + 32) ELSE c

(* A short bool is the first letter of yes or no whatever the format. *)
ComputeFullBoolName(settings, b) ==
  LET format == IF settings.boolLength = "ShortBool" THEN "YesNoBool" ELSE settings.boolFmt
      name == IF b THEN BoolNames[format].yes ELSE BoolNames[format].no
  IN  CASE settings.boolCase = "UpperCase" -> [i \in DOMAIN name |-> ToUpper(name[i])]
        [] settings.boolCase = "CamelCase" -> <<ToUpper(name[1])>> \o Tail(name)
        [] settings.boolCase = "LowerCase" -> name

WriteBool(e, b) ==
  LET name == ComputeFullBoolName(e.settings, b)
  IN  WriteScalar(e, IF e.settings.boolLength = "ShortBool" THEN <<name[1]>> ELSE name)

IsFlexibleCase(str) ==
  LET rest == Range(Tail(str))
  IN  \/ \A i \in DOMAIN str : IsLower(str[i])
      \/ IsUpper(str[1]) /\ ((\A c \in rest : IsLower(c)) \/ (\A c \in rest : IsUpper(c)))

DecodeBool(str) ==
  LET names(which) == {BoolNames[f][which] : f \in DOMAIN BoolNames}
      lower == [i \in DOMAIN str |-> ToLower(str[i])]
  IN  CASE ~IsFlexibleCase(str) -> <<>>
        [] IsFlexibleCase(str) /\ lower \in names("yes") \cup {<<"y">>} -> <<TRUE>>
        [] IsFlexibleCase(str) /\ lower \in names("no") \cup {<<"n">>} -> <<FALSE>>
        [] OTHER -> <<>>
----------------------------------------------------------------------------
(* int: a hexadecimal or octal one is written without a sign, as the stream  *)
(* writes the bits of a negative number.                                     *)

RECURSIVE InBase(_, _)
InBase(n, base) ==
  IF n < base THEN <<HexDigits[n + 1]>>
  ELSE Append(InBase(n \div base, base), HexDigits[(n % base) + 1])

(* WriteIntegralType and PrepareIntegralStream *)
WriteInt(e, n) ==
  LET bits == IF n < 0 THEN 2 ^ IntBits + n ELSE n
  IN  WriteScalar(e,
        CASE e.settings.intFmt = "Dec" -> IF n < 0 THEN <<"-">> \o InBase(-n, 10) ELSE InBase(n, 10)
          [] e.settings.intFmt = "Hex" -> <<"0", "x">> \o InBase(bits, 16)
          [] e.settings.intFmt = "Oct" -> <<"0">> \o InBase(bits, 8))

(* The extraction of a std::stringstream without a base: the prefix tells    *)
(* it, and a number that does not fit is an error.                           *)
DecodeInt(str) ==
  LET negative == At(str, 0) = "-"
      body == IF negative THEN Tail(str) ELSE str
      hex == Len(body) > 2 /\ SubSeq(body, 1, 2) = <<"0", "x">>
      base == IF hex THEN 16 ELSE IF At(body, 0) = "0" THEN 8 ELSE 10
      digits == IF hex THEN SubSeq(body, 3, Len(body)) ELSE body
      valid == digits # <<>> /\ \A i \in DOMAIN digits :
                 \E d \in 1..base : HexDigits[d] = digits[i]
      magnitude == FoldLeft(LAMBDA n, c : base * n + HexValue(c), 0, digits)
      value == IF negative THEN -magnitude ELSE magnitude
  IN  IF valid /\ value \in -(2 ^ (IntBits - 1))..(2 ^ (IntBits - 1) - 1)
      THEN <<value>> ELSE <<>>
----------------------------------------------------------------------------
(* char *)

WriteChar(e, ch) ==
  LET quoted(chars) == <<"\"">> \o chars \o <<"\"">>
  IN  WriteScalar(e,
        CASE ch \in Letters -> <<ch>>
          [] ch \in {"\"", "\\"} -> quoted(<<"\\", ch>>)
          [] ch = "\t" -> quoted(<<"\\", "t">>)
          [] ch = "\n" -> quoted(<<"\\", "n">>)
          [] ch = "BS" -> quoted(<<"\\", "b">>)
          [] OTHER -> quoted(IF CodeOf(ch) \in 32..126 THEN <<ch>> ELSE HexSequence(ch)))

DecodeChar(str) == IF Len(str) = 1 THEN str ELSE <<>>
----------------------------------------------------------------------------
(* binary.cpp *)

Encoding ==
  SubSeq(Ascii, 34, 59) \o SubSeq(Ascii, 66, 91) \o SubSeq(Ascii, 17, 26) \o <<"+", "/">>

EncodeBase64(data) ==
  LET size == Len(data)
      byte(i) == IF i <= size THEN data[i] ELSE 0
      quad(k) == LET a == byte(3 * k + 1)  b == byte(3 * k + 2)  c == byte(3 * k + 3)
                     sextets == <<a \div 4, (a % 4) * 16 + (b \div 16),
                                  (b % 16) * 4 + (c \div 64), c % 64>>
                 IN  [i \in 1..4 |-> IF 3 * k + i > size + 1 THEN "="
                                     ELSE Encoding[sextets[i] + 1]]
  IN  Concat([k \in 1..((size + 2) \div 3) |-> quad(k - 1)])

(* The value of a character, 255 if it has none. *)
Decoding(c) ==
  CASE c = "=" -> 0
    [] c \in Range(Encoding) -> (CHOOSE d \in 0..63 : Encoding[d + 1] = c)
    [] OTHER -> 255

DecodeBase64(input) ==
  LET space(i) == input[i] \in {" ", "\t", "\n", "VT", "FF", "\r"}
      step(s, i) ==
        LET value == (s.value * 64 + Decoding(input[i])) % (2 ^ 24)
            whole == s.cnt % 4 = 3
            second == i > 1 /\ input[i - 1] # "="
        IN  IF space(i) THEN s
            ELSE [value |-> value, cnt |-> s.cnt + 1,
                  bad |-> s.bad \/ Decoding(input[i]) = 255,
                  out |-> s.out \o (IF whole THEN <<value \div 65536>> ELSE <<>>)
                            \o (IF whole /\ second THEN <<(value \div 256) % 256>> ELSE <<>>)
                            \o (IF whole /\ input[i] # "=" THEN <<value % 256>> ELSE <<>>)]
      end == FoldLeft(step, [value |-> 0, cnt |-> 0, bad |-> FALSE, out |-> <<>>],
                      [i \in DOMAIN input |-> i])
  IN  IF end.bad THEN <<>> ELSE end.out

(* convert<Binary> takes what DecodeBase64 gives, but refuses to make bytes  *)
(* out of nothing of a text that is not empty.                               *)
DecodeBinary(str) ==
  LET data == DecodeBase64(str)
  IN  IF data = <<>> /\ str # <<>> THEN <<>> ELSE <<data>>

BinaryTag == [type |-> "NamedHandle", prefix |-> <<>>, content |-> <<"b", "i", "n", "a", "r", "y">>]

WriteBinary(e, data) ==
  WriteScalar(WriteTag(e, BinaryTag), DoubleQuoted(EncodeBase64(data), FALSE))
============================================================================
