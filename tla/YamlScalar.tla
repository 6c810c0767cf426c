----------------------------- MODULE YamlScalar -----------------------------
(***************************************************************************)
(* What yaml-cpp reads inside one token: scalars (scanscalar.cpp), escape   *)
(* sequences (exp.cpp), tags (scantag.cpp) and runs of characters.  Every   *)
(* operator takes the text and a position and returns a record with the     *)
(* position after what it read, and error where the code throws.            *)
(***************************************************************************)
EXTENDS YamlExp, SequencesExt

Slice(in, i, j) == SubSeq(in, i + 1, j)

(* The first position from i on where P fails; a loop of INPUT.get(). *)
Skip(in, i, P(_, _)) == Min({k \in i..Len(in) : At(in, k) = Eof \/ ~P(in, k)})

NotBreak(in, i) == Break(in, i) < 0

NotBlankOrBreak(in, i) == ~BlankOrBreak(in, i)

----------------------------------------------------------------------------
(* exp.cpp: escape sequences. *)

HexValue(c) ==
  CHOOSE d \in 0..15 : \/ HexDigits[d + 1] = c
                       \/ d >= 10 /\ Ascii[d + 24] = c

RECURSIVE ParseHex(_)
ParseHex(str) ==
  IF str = <<>> THEN 0 ELSE 16 * ParseHex(Front(str)) + HexValue(Last(str))

(* A sequence longer than the alphabet needs would overflow TLC's integers,  *)
(* so the first digits of an eight-digit code are compared, not computed.    *)
HexEscape(in, i, n) ==
  LET str   == Slice(in, i, IF i + n < Len(in) THEN i + n ELSE Len(in))
      isHex == Len(str) = n /\ Range(str) \subseteq Hexes
      huge  == n = 8 /\ \E k \in 1..2 : str[k] # "0"
      value == ParseHex(str)
  IN  IF ~isHex \/ huge \/ value \in 55296..57343 \/ value > 1114111
      THEN [len |-> 2, char |-> Eof, error |-> TRUE]
      ELSE [len |-> n + 2, char |-> CharOf(value), error |-> FALSE]

(* "\N" and "\_" give one byte, not the two of their UTF-8 form. *)
SimpleEscapes ==
  { <<"0", "NUL">>, <<"a", "BEL">>, <<"b", "BS">>, <<"t", "\t">>,
    <<"\t", "\t">>, <<"n", "\n">>, <<"v", "VT">>, <<"f", "FF">>, <<"r", "\r">>,
    <<"e", "ESC">>, <<" ", " ">>, <<"\"", "\"">>, <<"'", "'">>, <<"\\", "\\">>,
    <<"/", "/">>, <<"N", "BYTE85">>, <<"_", "BYTEA0">>, <<"L", "LS">>,
    <<"P", "PS">> }

Escape(in, i) ==
  LET ch == At(in, i + 1)
  IN  CASE \E e \in SimpleEscapes : e[1] = ch ->
             [len |-> 2, error |-> FALSE,
              char |-> (CHOOSE e \in SimpleEscapes : e[1] = ch)[2]]
        [] ch = "x" -> HexEscape(in, i + 2, 2)
        [] ch = "u" -> HexEscape(in, i + 2, 4)
        [] ch = "U" -> HexEscape(in, i + 2, 8)
        [] OTHER -> [len |-> 2, char |-> Eof, error |-> TRUE]
----------------------------------------------------------------------------
(* scanscalar.cpp: params is a record with the fields of ScanScalarParams,   *)
(* where end names the expression that ends the scalar.                      *)

ScanScalarParams ==
  [end |-> "empty", eatEnd |-> FALSE, indent |-> 0, detectIndent |-> FALSE,
   eatLeadingWhitespace |-> FALSE, escape |-> "none", fold |-> "DONT_FOLD",
   trimTrailingSpaces |-> FALSE, chomp |-> "CLIP", onDocIndicator |-> "NONE",
   onTabInIndentation |-> "NONE"]

EndMatch(in, i, end) ==
  LET matches == CASE end = "plain"  -> ScanScalarEnd(in, i)
                   [] end = "flow"   -> ScanScalarEndInFlow(in, i)
                   [] end = "single" -> At(in, i) = "'" /\ At(in, i + 1) # "'"
                   [] end = "double" -> At(in, i) = "\""
                   [] end = "empty"  -> At(in, i) = Eof
  IN  IF ~matches THEN -1 ELSE IF end = "empty" THEN 0 ELSE 1

(* Phase 1: up to the end of the line, of the scalar or of the document. *)
RECURSIVE ReadLine(_, _, _)
ReadLine(in, p, s) ==
  LET i == s.pos
      t == [s EXCEPT !.foundNonEmptyLine = TRUE, !.pastOpeningBreak = TRUE]
      Add(n, c) == [t EXCEPT !.pos = i + n, !.scalar = Append(@, c)]
      Escaped(u) == [u EXCEPT !.lastNonWhitespace = Len(u.scalar),
                              !.lastEscaped = Len(u.scalar)]
      docHere == Column(in, i) = 0 /\ DocIndicator(in, i)
  IN  IF EndMatch(in, i, p.end) >= 0 \/ Break(in, i) > 0 \/ At(in, i) = Eof
      THEN s
      ELSE IF docHere /\ p.onDocIndicator # "NONE"
      THEN [s EXCEPT !.error = p.onDocIndicator = "THROW"]
      ELSE IF p.escape = "\\" /\ EscBreak(in, i)
      THEN Escaped([t EXCEPT !.pos = i + 1, !.escapedNewline = TRUE])
      ELSE IF At(in, i) = p.escape
      THEN LET e == Escape(in, i)
           IN  IF e.error THEN [t EXCEPT !.error = TRUE]
               ELSE ReadLine(in, p, Escaped(Add(e.len, e.char)))
      ELSE LET u == Add(1, At(in, i))
           IN  ReadLine(in, p, IF Blank(in, i) THEN u
                               ELSE [u EXCEPT !.lastNonWhitespace = Len(u.scalar)])

(* Phase 3: the required indentation, then the rest of the whitespace. *)
RECURSIVE EatIndent(_, _, _, _)
EatIndent(in, p, i, detecting) ==
  IF /\ At(in, i) = " "
     /\ Column(in, i) < p.indent \/ detecting
     /\ EndMatch(in, i, p.end) < 0
  THEN EatIndent(in, p, i + 1, detecting) ELSE i

TabHere(in, p, i) ==
  At(in, i) = "\t" /\ Column(in, i) < p.indent /\ p.onTabInIndentation = "THROW"

RECURSIVE EatBlanks(_, _, _)
EatBlanks(in, p, i) ==
  IF /\ Blank(in, i)
     /\ ~TabHere(in, p, i)
     /\ p.eatLeadingWhitespace
     /\ EndMatch(in, i, p.end) < 0
  THEN EatBlanks(in, p, i + 1) ELSE i

(* What a line ending adds to the scalar once the opening break is past. *)
FoldBreak(in, p, s, i, nextEmpty, nextMore) ==
  LET newlines(n) == [k \in 1..n |-> "\n"]
      joined == /\ ~s.emptyLine /\ ~nextEmpty /\ ~s.moreIndented /\ ~nextMore
                /\ Column(in, i) >= p.indent
      glue == IF joined THEN <<" ">> ELSE IF nextEmpty THEN <<>> ELSE <<"\n">>
      flush == IF nextEmpty \/ s.foldedNewlines = 0 THEN <<>>
               ELSE newlines(s.foldedNewlines - 1)
                    \o (IF s.foldedStartedMore \/ nextMore \/ ~s.foundNonEmptyLine
                        THEN <<"\n">> ELSE <<>>)
  IN  CASE p.fold = "DONT_FOLD" -> [s EXCEPT !.scalar = Append(@, "\n")]
        [] p.fold = "FOLD_BLOCK" ->
             [s EXCEPT !.scalar = @ \o glue \o flush,
                       !.foldedNewlines = IF nextEmpty THEN @ + 1 ELSE 0]
        [] p.fold = "FOLD_FLOW" ->
             IF nextEmpty THEN [s EXCEPT !.scalar = Append(@, "\n")]
             ELSE IF ~s.emptyLine /\ ~s.escapedNewline
             THEN [s EXCEPT !.scalar = Append(@, " ")] ELSE s

(* Phase 2 and 3 for the line r: the break, with the next line at i. *)
BreakLine(in, p, r, i) ==
  LET nextEmpty == Break(in, i) > 0
      nextMore  == Blank(in, i)
      started == p.fold = "FOLD_BLOCK" /\ r.foldedNewlines = 0 /\ nextEmpty
      line == [r EXCEPT !.scalar = IF p.fold = "FOLD_FLOW"
                                   THEN SubSeq(@, 1, r.lastNonWhitespace) ELSE @,
                        !.foldedStartedMore = IF started THEN r.moreIndented ELSE @]
      folded == IF r.pastOpeningBreak
                THEN FoldBreak(in, p, line, i, nextEmpty, nextMore) ELSE line
  IN  [folded EXCEPT !.pos = i, !.emptyLine = nextEmpty, !.moreIndented = nextMore,
                     !.pastOpeningBreak = TRUE,
                     !.error = nextMore /\ TabHere(in, p, i),
                     !.leadingSpaces = ~nextEmpty /\ Column(in, i) < p.indent]

(* The parameters once the next line's indentation has been read up to i. *)
DetectIndent(in, p, r, i) ==
  IF p.detectIndent /\ ~r.foundNonEmptyLine /\ Column(in, i) > p.indent
  THEN [p EXCEPT !.indent = Column(in, i)] ELSE p

AtDocIndicator(in, p, i) ==
  p.onDocIndicator = "BREAK" /\ Column(in, i) = 0 /\ DocIndicator(in, i)

RECURSIVE ScanLines(_, _, _)

(* After the line r: the end of the scalar, or its next line. *)
AfterLine(in, p, r) ==
  LET n == EndMatch(in, r.pos, p.end)
      i == EatIndent(in, p, r.pos + Break(in, r.pos),
                     p.detectIndent /\ ~r.foundNonEmptyLine)
      q == DetectIndent(in, p, r, i)
  IN  IF r.error \/ AtDocIndicator(in, p, r.pos) THEN r
      ELSE IF At(in, r.pos) = Eof THEN [r EXCEPT !.error = p.eatEnd]
      ELSE IF n >= 0 THEN [r EXCEPT !.pos = IF p.eatEnd THEN @ + n ELSE @]
      ELSE ScanLines(in, q, BreakLine(in, q, r, EatBlanks(in, q, i)))

ScanLines(in, p, s) ==
  IF At(in, s.pos) = Eof \/ s.error \/ s.leadingSpaces THEN s
  ELSE LET line == ReadLine(in, p, [s EXCEPT !.lastNonWhitespace = Len(s.scalar),
                                             !.escapedNewline = FALSE])
       IN  AfterLine(in, p, line)

(* The index (from 0) of the last character that is not c, or of the last    *)
(* escaped one if that is later; -1 (npos) if there is neither.              *)
LastKept(s, c) ==
  LET pos == Max({0} \cup {k \in 1..Len(s.scalar) : s.scalar[k] # c}) - 1
  IN  IF pos < s.lastEscaped THEN s.lastEscaped ELSE pos

TrimSpaces(p, s) ==
  LET pos == LastKept(s, " ")
  IN  IF p.trimTrailingSpaces /\ pos >= 0 /\ pos < Len(s.scalar)
      THEN [s EXCEPT !.scalar = SubSeq(@, 1, pos + 1)] ELSE s

ChompBreaks(p, s) ==
  LET pos == LastKept(s, "\n")
      keep == IF pos < 0 THEN 0 ELSE IF p.chomp = "CLIP" THEN pos + 2 ELSE pos + 1
  IN  IF p.chomp # "KEEP" /\ keep < Len(s.scalar)
      THEN [s EXCEPT !.scalar = SubSeq(@, 1, keep)] ELSE s

ScanScalar(in, i, p) ==
  ChompBreaks(p, TrimSpaces(p,
    ScanLines(in, p,
      [pos |-> i, scalar |-> <<>>, foundNonEmptyLine |-> FALSE,
       pastOpeningBreak |-> p.fold = "FOLD_FLOW", emptyLine |-> FALSE,
       moreIndented |-> FALSE, foldedNewlines |-> 0, foldedStartedMore |-> FALSE,
       lastEscaped |-> -1, lastNonWhitespace |-> 0, escapedNewline |-> FALSE,
       leadingSpaces |-> FALSE, error |-> FALSE])))
----------------------------------------------------------------------------
(* scantag.cpp *)

CharMatch(in, i, kind) ==
  CASE kind = "URI" -> URIMatch(in, i)
    [] kind = "Tag" -> TagMatch(in, i)
    [] kind = "Word" -> IF At(in, i) \in Words THEN 1 ELSE -1

RECURSIVE SkipMatches(_, _, _)
SkipMatches(in, i, kind) ==
  LET n == CharMatch(in, i, kind)
  IN  IF n > 0 THEN SkipMatches(in, i + n, kind) ELSE i

(* Verbatim tag, from its "<". *)
ScanVerbatimTag(in, i) ==
  LET end == SkipMatches(in, i + 1, "URI")
  IN  [pos |-> end + 1, tag |-> Slice(in, i + 1, end), error |-> At(in, end) # ">"]

(* Word characters may make a handle; after any other tag character they     *)
(* cannot, and a "!" is then an error.                                       *)
ScanTagHandle(in, i) ==
  LET word == SkipMatches(in, i, "Word")
      handle == At(in, word) \in {"!", Eof}
      end == IF handle THEN word ELSE SkipMatches(in, word, "Tag")
  IN  [pos |-> end, tag |-> Slice(in, i, end), canBeHandle |-> handle,
       error |-> ~handle /\ At(in, end) = "!"]

ScanTagSuffix(in, i) ==
  LET end == SkipMatches(in, i, "Tag")
  IN  [pos |-> end, tag |-> Slice(in, i, end), error |-> end = i]
============================================================================
