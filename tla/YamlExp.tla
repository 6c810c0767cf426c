------------------------------ MODULE YamlExp ------------------------------
(***************************************************************************)
(* The lexical expressions of yaml-cpp (exp.h, null.cpp).                   *)
(*                                                                         *)
(* A text is a sequence of characters, a position counts from 0, and every  *)
(* character past the end is Eof.  A character is a one-character string,   *)
(* or the name of a control or non-ASCII character: its UTF-8 bytes are the *)
(* business of YamlStream.  An expression is a predicate on a text and a    *)
(* position; where the code uses the length of a match, an operator that    *)
(* returns it, -1 when nothing matches.                                     *)
(***************************************************************************)
EXTENDS Integers, Sequences, FiniteSets, FiniteSetsExt, TLC

Eof == "EOF"

At(in, i) == IF i < Len(in) THEN in[i + 1] ELSE Eof

Column(in, i) == i - Max({0} \cup {k \in 1..i : in[k] = "\n"})

Line(in, i) == Cardinality({k \in 1..i : in[k] = "\n"})

----------------------------------------------------------------------------
(* Characters and their code points. *)

Ascii == << " ", "!", "\"", "#", "$", "%", "&", "'", "(", ")", "*", "+", ",",
            "-", ".", "/", "0", "1", "2", "3", "4", "5", "6", "7", "8", "9",
            ":", ";", "<", "=", ">", "?", "@", "A", "B", "C", "D", "E", "F",
            "G", "H", "I", "J", "K", "L", "M", "N", "O", "P", "Q", "R", "S",
            "T", "U", "V", "W", "X", "Y", "Z", "[", "\\", "]", "^", "_", "BACKQUOTE",
            "a", "b", "c", "d", "e", "f", "g", "h", "i", "j", "k", "l", "m",
            "n", "o", "p", "q", "r", "s", "t", "u", "v", "w", "x", "y", "z",
            "{", "|", "}", "~" >>

Named == { <<"NUL", 0>>, <<"BEL", 7>>, <<"BS", 8>>, <<"\t", 9>>, <<"\n", 10>>,
           <<"VT", 11>>, <<"FF", 12>>, <<"\r", 13>>, <<"ESC", 27>>,
           <<"NEL", 133>>, <<"NBSP", 160>>, <<"E_ACUTE", 233>>, <<"LS", 8232>>,
           <<"PS", 8233>>, <<"EURO", 8364>>, <<"BOM", 65279>>,
           <<"REPLACEMENT", 65533>>, <<"SMILEY", 128512>> }

CodePoints == Named \cup {<<Ascii[k], k + 31>> : k \in 1..Len(Ascii)}

CodeOf(c) == (CHOOSE p \in CodePoints : p[1] = c)[2]

(* A code point outside the alphabet is named by its number. *)
CharOf(n) ==
  IF \E p \in CodePoints : p[2] = n
  THEN (CHOOSE p \in CodePoints : p[2] = n)[1] ELSE "U" \o ToString(n)

HexDigits == << "0", "1", "2", "3", "4", "5", "6", "7", "8", "9",
                "a", "b", "c", "d", "e", "f" >>

Digits == {HexDigits[k] : k \in 1..10}

Letters == {Ascii[k] : k \in 34..59 \cup 66..91}

Hexes == {HexDigits[k] : k \in 1..16} \cup {"A", "B", "C", "D", "E", "F"}

(* null.cpp *)
IsNullString(str) ==
  str \in { <<>>, <<"~">>, <<"n", "u", "l", "l">>, <<"N", "u", "l", "l">>,
            <<"N", "U", "L", "L">> }

Words == Letters \cup Digits \cup {"-"}
----------------------------------------------------------------------------
(* exp.h *)

Blank(in, i) == At(in, i) \in {" ", "\t"}

Break(in, i) ==
  CASE At(in, i) = "\n" -> 1
    [] At(in, i) = "\r" /\ At(in, i + 1) = "\n" -> 2
    [] OTHER -> -1

BlankOrBreak(in, i) == Blank(in, i) \/ Break(in, i) > 0

BreakOrEof(in, i) == BlankOrBreak(in, i) \/ At(in, i) = Eof

NotPrintable == {"NUL", "BEL", "BS", "VT", "FF", "ESC"}

DocMark(in, i, c) == (\A k \in 0..2 : At(in, i + k) = c) /\ BreakOrEof(in, i + 3)

DocStart(in, i) == DocMark(in, i, "-")

DocEnd(in, i) == DocMark(in, i, ".")

DocIndicator(in, i) == DocStart(in, i) \/ DocEnd(in, i)

BlockEntry(in, i) == At(in, i) = "-" /\ BreakOrEof(in, i + 1)

Key(in, i) == At(in, i) = "?" /\ BlankOrBreak(in, i + 1)

Value(in, i) == At(in, i) = ":" /\ BreakOrEof(in, i + 1)

ValueInFlow(in, i) ==
  At(in, i) = ":" /\ (BlankOrBreak(in, i + 1) \/ At(in, i + 1) \in {",", "}"})

ValueInJSONFlow(in, i) == At(in, i) = ":"

Anchor(in, i) == ~(At(in, i) \in {"[", "]", "{", "}", ","} \/ BlankOrBreak(in, i))

AnchorEnd(in, i) ==
  At(in, i) \in {"?", ":", ",", "]", "}", "%", "@", "BACKQUOTE"} \/ BlankOrBreak(in, i)

(* One character of a tag or of a URI; "%" takes two hexadecimal digits.    *)
TagMatch(in, i) ==
  CASE At(in, i) \in Words \cup {"#", ";", "/", "?", ":", "@", "&", "=", "+",
                                 "$", "_", ".", "~", "*", "'", "(", ")"} -> 1
    [] At(in, i) = "%" /\ {At(in, i + 1), At(in, i + 2)} \subseteq Hexes -> 3
    [] OTHER -> -1

URIMatch(in, i) ==
  IF At(in, i) \in {",", "!", "[", "]"} THEN 1 ELSE TagMatch(in, i)

Indicators == {",", "[", "]", "{", "}", "#", "&", "*", "!", "|", ">", "'",
               "\"", "%", "@", "BACKQUOTE"}

PlainScalar(in, i) ==
  ~ \/ BlankOrBreak(in, i)
    \/ At(in, i) \in Indicators
    \/ At(in, i) \in {"-", "?", ":"} /\ BreakOrEof(in, i + 1)

PlainScalarInFlow(in, i) ==
  ~ \/ BlankOrBreak(in, i)
    \/ At(in, i) \in Indicators \cup {"?"}
    \/ At(in, i) \in {"-", ":"} /\ Blank(in, i + 1)

EndScalar(in, i) == At(in, i) = ":" /\ BreakOrEof(in, i + 1)

EndScalarInFlow(in, i) ==
  \/ At(in, i) = ":" /\ (BreakOrEof(in, i + 1) \/ At(in, i + 1) \in {",", "]", "}"})
  \/ At(in, i) \in {",", "?", "[", "]", "{", "}"}

CommentAfterBlank(in, i) ==
  \/ Blank(in, i) /\ At(in, i + 1) = "#"
  \/ Break(in, i) > 0 /\ At(in, i + Break(in, i)) = "#"

ScanScalarEnd(in, i) == EndScalar(in, i) \/ CommentAfterBlank(in, i)

ScanScalarEndInFlow(in, i) == EndScalarInFlow(in, i) \/ CommentAfterBlank(in, i)

EscBreak(in, i) == At(in, i) = "\\" /\ Break(in, i + 1) > 0

(* The characters of a chomping and indentation indicator. *)
Chomp(in, i) ==
  CASE At(in, i) \in {"+", "-"} /\ At(in, i + 1) \in Digits -> 2
    [] At(in, i) \in Digits /\ At(in, i + 1) \in {"+", "-"} -> 2
    [] At(in, i) \in {"+", "-"} \cup Digits -> 1
    [] OTHER -> 0
============================================================================
