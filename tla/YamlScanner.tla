----------------------------- MODULE YamlScanner -----------------------------
(***************************************************************************)
(* The scanner of yaml-cpp (scanner.cpp, simplekey.cpp, scantoken.cpp): the *)
(* text becomes a queue of tokens, pulled one by one by the parser.         *)
(*                                                                         *)
(* What is hard here is the simple key: whether "a" starts a block map and  *)
(* is its key is known only when the ":" is met, many tokens later.  Until   *)
(* then BLOCK_MAP_START and KEY stand in the queue UNVERIFIED, and a         *)
(* SimpleKey on a stack points at them and at the indent marker; all three   *)
(* become VALID or INVALID together.                                         *)
(*                                                                         *)
(* A scanner is a record.  tokens holds every token ever queued and head     *)
(* counts those popped, so that a token is named by its index as it is by    *)
(* its address in the code; marks is m_indentRefs, where markers are kept    *)
(* for good, and indents the stack of those in force; pointers are indexes,  *)
(* 0 for nullptr; error is a ParserException thrown.                         *)
(***************************************************************************)
EXTENDS YamlScalar

NewScanner(text) ==
  [in |-> text, pos |-> 0, tokens |-> <<>>, head |-> 0,
   started |-> FALSE, ended |-> FALSE, simpleKeyAllowed |-> FALSE,
   canBeJSONFlow |-> FALSE, simpleKeys |-> <<>>, marks |-> <<>>,
   indents |-> <<>>, flows |-> <<>>, error |-> FALSE]

Token(type) ==
  [type |-> type, status |-> "VALID", value |-> <<>>, params |-> <<>>, data |-> ""]

IndentMarker(column, type, start) ==
  [column |-> column, type |-> type, status |-> "VALID", startToken |-> start]

Throw(s) == [s EXCEPT !.error = TRUE]

InBlockContext(s) == s.flows = <<>>

Peek(s) == At(s.in, s.pos)

Here(s) == Column(s.in, s.pos)

Eat(s, n) == [s EXCEPT !.pos = @ + n]

Push(s, token) == [s EXCEPT !.tokens = Append(@, token)]

Allow(s, key, json) == [s EXCEPT !.simpleKeyAllowed = key, !.canBeJSONFlow = json]

TopIndent(s) == s.marks[Last(s.indents)]

GetTopIndent(s) == IF s.indents = <<>> THEN 0 ELSE TopIndent(s).column
----------------------------------------------------------------------------
(* simplekey.cpp *)

(* SimpleKey::Validate and Invalidate: the indent and both tokens at once. *)
Settle(s, key, status) ==
  [s EXCEPT !.marks = [m \in DOMAIN @ |->
                        IF m = key.indent THEN [@[m] EXCEPT !.status = status] ELSE @[m]],
            !.tokens = [t \in DOMAIN @ |->
                        IF t \in {key.mapStart, key.key}
                        THEN [@[t] EXCEPT !.status = status] ELSE @[t]]]

ExistsActiveSimpleKey(s) ==
  s.simpleKeys # <<>> /\ Last(s.simpleKeys).flowLevel = Len(s.flows)

PopSimpleKey(s) == [s EXCEPT !.simpleKeys = Front(@)]

InvalidateSimpleKey(s) ==
  IF ExistsActiveSimpleKey(s)
  THEN PopSimpleKey(Settle(s, Last(s.simpleKeys), "INVALID")) ELSE s

(* A key reaches at most 1024 characters back and never over a line end. *)
SimpleKeyInReach(s, key) ==
  /\ Line(s.in, s.pos) = Line(s.in, key.pos)
  /\ s.pos - key.pos <= 1024

VerifySimpleKey(s) ==
  IF ~ExistsActiveSimpleKey(s) THEN [ok |-> FALSE, s |-> s]
  ELSE LET key == Last(s.simpleKeys)
           ok  == SimpleKeyInReach(s, key)
       IN  [ok |-> ok,
            s |-> PopSimpleKey(Settle(s, key, IF ok THEN "VALID" ELSE "INVALID"))]

PopAllSimpleKeys(s) == [s EXCEPT !.simpleKeys = <<>>]
----------------------------------------------------------------------------
(* scanner.cpp: indentation. *)

StartTokenFor(type) == IF type = "SEQ" THEN "BLOCK_SEQ_START" ELSE "BLOCK_MAP_START"

CanIndent(s, column, type) ==
  LET last == TopIndent(s)
  IN  /\ InBlockContext(s)
      /\ \/ column > last.column
         \/ column = last.column /\ type = "SEQ" /\ last.type = "MAP"

PushIndentTo(s, column, type) ==
  IF ~CanIndent(s, column, type) THEN s
  ELSE LET t == Push(s, Token(StartTokenFor(type)))
       IN  [t EXCEPT !.marks = Append(@, IndentMarker(column, type, Len(t.tokens))),
                     !.indents = Append(@, Len(s.marks) + 1)]

InsertPotentialSimpleKey(s) ==
  LET indented == InBlockContext(s) /\ CanIndent(s, Here(s), "MAP")
      t == IF InBlockContext(s) THEN PushIndentTo(s, Here(s), "MAP") ELSE s
      u == Push(t, Token("KEY"))
      key == [pos |-> s.pos, flowLevel |-> Len(s.flows),
              indent |-> IF indented THEN Len(u.marks) ELSE 0,
              mapStart |-> IF indented THEN Len(t.tokens) ELSE 0,
              key |-> Len(u.tokens)]
      v == [Settle(u, key, "UNVERIFIED") EXCEPT !.simpleKeys = Append(@, key)]
  IN  IF s.simpleKeyAllowed /\ ~ExistsActiveSimpleKey(s) THEN v ELSE s

PopIndent(s) ==
  LET indent == TopIndent(s)
      t == [s EXCEPT !.indents = Front(@)]
  IN  IF indent.status # "VALID" THEN InvalidateSimpleKey(t)
      ELSE CASE indent.type = "SEQ" -> Push(t, Token("BLOCK_SEQ_END"))
             [] indent.type = "MAP" -> Push(t, Token("BLOCK_MAP_END"))
             [] OTHER -> t

RECURSIVE PopIndentsAbove(_)
PopIndentsAbove(s) ==
  LET indent == TopIndent(s)
      stays == \/ indent.column < Here(s)
               \/ /\ indent.column = Here(s)
                  /\ indent.type = "SEQ" => BlockEntry(s.in, s.pos)
  IN  IF s.indents = <<>> \/ stays THEN s ELSE PopIndentsAbove(PopIndent(s))

RECURSIVE PopInvalidIndents(_)
PopInvalidIndents(s) ==
  IF s.indents # <<>> /\ TopIndent(s).status = "INVALID"
  THEN PopInvalidIndents(PopIndent(s)) ELSE s

PopIndentToHere(s) ==
  IF InBlockContext(s) THEN PopInvalidIndents(PopIndentsAbove(s)) ELSE s

RECURSIVE PopAllIndents(_)
PopAllIndents(s) ==
  IF ~InBlockContext(s) \/ s.indents = <<>> \/ TopIndent(s).type = "NONE"
  THEN s ELSE PopAllIndents(PopIndent(s))

StartStream(s) ==
  [s EXCEPT !.started = TRUE, !.simpleKeyAllowed = TRUE,
            !.marks = <<IndentMarker(-1, "NONE", 0)>>, !.indents = <<1>>]

(* The keys still unverified are dropped, neither valid nor invalid. *)
EndStream(s) ==
  [PopAllSimpleKeys(PopAllIndents(s)) EXCEPT !.simpleKeyAllowed = FALSE, !.ended = TRUE]

(* Whitespace, comments and line ends; a line end invalidates the simple    *)
(* key and a tab in block context forbids one.                              *)
RECURSIVE ScanToNextToken(_)
ScanToNextToken(s) ==
  LET i == Skip(s.in, s.pos, Blank)
      tab == InBlockContext(s) /\ \E k \in s.pos..(i - 1) : At(s.in, k) = "\t"
      t == [s EXCEPT !.simpleKeyAllowed = @ /\ ~tab,
                     !.pos = IF At(s.in, i) = "#" THEN Skip(s.in, i, NotBreak) ELSE i]
      n == Break(t.in, t.pos)
  IN  IF n < 0 THEN t
      ELSE LET u == InvalidateSimpleKey(Eat(t, n))
           IN  ScanToNextToken([u EXCEPT !.simpleKeyAllowed = @ \/ InBlockContext(u)])
----------------------------------------------------------------------------
(* scantoken.cpp *)

RECURSIVE ReadParams(_, _, _)
ReadParams(in, i, params) ==
  LET from == Skip(in, i, Blank)
      to == Skip(in, from, NotBlankOrBreak)
  IN  IF At(in, from) \in {Eof, "#"} \/ Break(in, from) > 0
      THEN [pos |-> from, params |-> params]
      ELSE ReadParams(in, to, Append(params, Slice(in, from, to)))

Fresh(s) == Allow(PopAllSimpleKeys(PopAllIndents(s)), FALSE, FALSE)

ScanDirective(s) ==
  LET from == s.pos + 1
      to == Skip(s.in, from, NotBlankOrBreak)
      r == ReadParams(s.in, to, <<>>)
  IN  Push([Fresh(s) EXCEPT !.pos = r.pos],
           [Token("DIRECTIVE") EXCEPT !.value = Slice(s.in, from, to),
                                      !.params = r.params])

ScanDocStart(s) == Push(Eat(Fresh(s), 3), Token("DOC_START"))

ScanDocEnd(s) == Push(Eat(Fresh(s), 3), Token("DOC_END"))

FlowOf(ch) == IF ch \in {"[", "]"} THEN "FLOW_SEQ" ELSE "FLOW_MAP"

ScanFlowStart(s) ==
  LET t == Eat(Allow(InsertPotentialSimpleKey(s), TRUE, FALSE), 1)
      flow == FlowOf(Peek(s))
  IN  Push([t EXCEPT !.flows = Append(@, flow)],
           Token(IF flow = "FLOW_SEQ" THEN "FLOW_SEQ_START" ELSE "FLOW_MAP_START"))

(* The last entry of a flow collection may be a key without a value. *)
SoloEntry(s) ==
  IF InBlockContext(s) THEN s
  ELSE IF Last(s.flows) = "FLOW_SEQ" THEN InvalidateSimpleKey(s)
  ELSE LET v == VerifySimpleKey(s)
       IN  IF v.ok THEN Push(v.s, Token("VALUE")) ELSE v.s

ScanFlowEnd(s) ==
  LET t == Eat(Allow(SoloEntry(s), FALSE, TRUE), 1)
      flow == FlowOf(Peek(s))
  IN  IF InBlockContext(s) THEN Throw(s)
      ELSE IF Last(s.flows) # flow THEN Throw(t)
      ELSE Push([t EXCEPT !.flows = Front(@)],
                Token(IF flow = "FLOW_SEQ" THEN "FLOW_SEQ_END" ELSE "FLOW_MAP_END"))

ScanFlowEntry(s) == Push(Eat(Allow(SoloEntry(s), TRUE, FALSE), 1), Token("FLOW_ENTRY"))

ScanBlockEntry(s) ==
  IF ~InBlockContext(s) \/ ~s.simpleKeyAllowed THEN Throw(s)
  ELSE Push(Eat(Allow(PushIndentTo(s, Here(s), "SEQ"), TRUE, FALSE), 1),
            Token("BLOCK_ENTRY"))

ScanKey(s) ==
  LET t == IF InBlockContext(s) THEN PushIndentTo(s, Here(s), "MAP") ELSE s
  IN  IF InBlockContext(s) /\ ~s.simpleKeyAllowed THEN Throw(s)
      ELSE Push(Eat(Allow(t, InBlockContext(s), s.canBeJSONFlow), 1), Token("KEY"))

ScanValue(s) ==
  LET v == VerifySimpleKey(s)
      t == Allow(v.s, v.s.simpleKeyAllowed, FALSE)
      u == IF v.ok THEN Allow(t, FALSE, FALSE)
           ELSE IF ~InBlockContext(t) THEN Allow(t, FALSE, FALSE)
           ELSE IF ~t.simpleKeyAllowed THEN Throw(t)
           ELSE Allow(PushIndentTo(t, Here(t), "MAP"), TRUE, FALSE)
  IN  IF u.error THEN u ELSE Push(Eat(u, 1), Token("VALUE"))

ScanAnchorOrAlias(s) ==
  LET t == Allow(InsertPotentialSimpleKey(s), FALSE, FALSE)
      from == s.pos + 1
      to == Skip(s.in, from, Anchor)
      type == IF Peek(s) = "*" THEN "ALIAS" ELSE "ANCHOR"
  IN  IF to = from \/ (At(s.in, to) # Eof /\ ~AnchorEnd(s.in, to)) THEN Throw(t)
      ELSE Push([t EXCEPT !.pos = to], [Token(type) EXCEPT !.value = Slice(s.in, from, to)])

ScanTag(s) ==
  LET t == Allow(InsertPotentialSimpleKey(s), FALSE, FALSE)
      i == s.pos + 1
      verbatim == ScanVerbatimTag(s.in, i)
      handle == ScanTagHandle(s.in, i)
      named == handle.canBeHandle /\ At(s.in, handle.pos) = "!"
      suffix == ScanTagSuffix(s.in, handle.pos + 1)
      kind == CASE named -> "NAMED_HANDLE"
                [] handle.tag # <<>> -> "PRIMARY_HANDLE"
                [] handle.canBeHandle -> "SECONDARY_HANDLE"
                [] OTHER -> "NON_SPECIFIC"
      Emit(r, token) == IF r.error THEN Throw(t) ELSE Push([t EXCEPT !.pos = r.pos], token)
  IN  IF At(s.in, i) = "<"
      THEN Emit(verbatim, [Token("TAG") EXCEPT !.value = verbatim.tag, !.data = "VERBATIM"])
      ELSE IF handle.error THEN Throw(t)
      ELSE Emit(IF named THEN suffix ELSE handle,
                [Token("TAG") EXCEPT !.value = handle.tag, !.data = kind,
                                     !.params = IF named THEN <<suffix.tag>> ELSE <<>>])

(* The scalar r was read in state s: queue it, and say whether a key may     *)
(* follow.                                                                   *)
PushScalar(s, r, type, key, json) ==
  IF r.error THEN Throw(s)
  ELSE Push(Allow([s EXCEPT !.pos = r.pos], key, json),
            [Token(type) EXCEPT !.value = r.scalar])

(* The indentation is taken before the key may push an indent of its own.    *)
ScanPlainScalar(s) ==
  LET p == [ScanScalarParams EXCEPT
              !.end = IF InBlockContext(s) THEN "plain" ELSE "flow",
              !.indent = IF InBlockContext(s) THEN GetTopIndent(s) + 1 ELSE 0,
              !.fold = "FOLD_FLOW", !.eatLeadingWhitespace = TRUE,
              !.trimTrailingSpaces = TRUE, !.chomp = "STRIP",
              !.onDocIndicator = "BREAK", !.onTabInIndentation = "THROW"]
      r == ScanScalar(s.in, s.pos, p)
  IN  PushScalar(InsertPotentialSimpleKey(s), r, "PLAIN_SCALAR", r.leadingSpaces, FALSE)

ScanQuotedScalar(s) ==
  LET single == Peek(s) = "'"
      p == [ScanScalarParams EXCEPT
              !.end = IF single THEN "single" ELSE "double", !.eatEnd = TRUE,
              !.escape = IF single THEN "'" ELSE "\\", !.fold = "FOLD_FLOW",
              !.eatLeadingWhitespace = TRUE, !.onDocIndicator = "THROW"]
      r == ScanScalar(s.in, s.pos + 1, p)
  IN  PushScalar(InsertPotentialSimpleKey(s), r, "NON_PLAIN_SCALAR", FALSE, TRUE)

ScanBlockScalar(s) ==
  LET n == Chomp(s.in, s.pos + 1)
      marks == {At(s.in, s.pos + k) : k \in 1..n}
      digit == marks \cap Digits
      i == Skip(s.in, s.pos + 1 + n, Blank)
      j == IF At(s.in, i) = "#" THEN Skip(s.in, i, NotBreak) ELSE i
      level == IF digit = {} THEN 1 ELSE HexValue(CHOOSE d \in digit : TRUE)
      p == [ScanScalarParams EXCEPT
              !.fold = IF Peek(s) = ">" THEN "FOLD_BLOCK" ELSE "DONT_FOLD",
              !.chomp = IF "+" \in marks THEN "KEEP"
                        ELSE IF "-" \in marks THEN "STRIP" ELSE "CLIP",
              !.indent = IF GetTopIndent(s) >= 0 THEN level + GetTopIndent(s) ELSE level,
              !.detectIndent = digit = {}, !.onTabInIndentation = "THROW"]
  IN  IF "0" \in digit \/ (At(s.in, j) # Eof /\ Break(s.in, j) < 0) THEN Throw(s)
      ELSE PushScalar(s, ScanScalar(s.in, j, p), "NON_PLAIN_SCALAR", TRUE, FALSE)
----------------------------------------------------------------------------
(* scanner.cpp: the next token. *)

ValueHere(s) ==
  CASE InBlockContext(s) -> Value(s.in, s.pos)
    [] s.canBeJSONFlow   -> ValueInJSONFlow(s.in, s.pos)
    [] OTHER             -> ValueInFlow(s.in, s.pos)

PlainHere(s) ==
  IF InBlockContext(s) THEN PlainScalar(s.in, s.pos) ELSE PlainScalarInFlow(s.in, s.pos)

(* The tests are made in this order. *)
ScanToken(s) ==
  IF Peek(s) = Eof THEN EndStream(s)
  ELSE IF Here(s) = 0 /\ Peek(s) = "%" THEN ScanDirective(s)
  ELSE IF Here(s) = 0 /\ DocStart(s.in, s.pos) THEN ScanDocStart(s)
  ELSE IF Here(s) = 0 /\ DocEnd(s.in, s.pos) THEN ScanDocEnd(s)
  ELSE IF Peek(s) \in {"[", "{"} THEN ScanFlowStart(s)
  ELSE IF Peek(s) \in {"]", "}"} THEN ScanFlowEnd(s)
  ELSE IF Peek(s) = "," THEN ScanFlowEntry(s)
  ELSE IF BlockEntry(s.in, s.pos) THEN ScanBlockEntry(s)
  ELSE IF Key(s.in, s.pos) THEN ScanKey(s)
  ELSE IF ValueHere(s) THEN ScanValue(s)
  ELSE IF Peek(s) \in {"*", "&"} THEN ScanAnchorOrAlias(s)
  ELSE IF Peek(s) = "!" THEN ScanTag(s)
  ELSE IF InBlockContext(s) /\ Peek(s) \in {"|", ">"} THEN ScanBlockScalar(s)
  ELSE IF Peek(s) \in {"'", "\""} THEN ScanQuotedScalar(s)
  ELSE IF PlainHere(s) THEN ScanPlainScalar(s)
  ELSE Throw(s)

ScanNextToken(s) ==
  IF ~s.started THEN StartStream(s)
  ELSE ScanToken(PopIndentToHere(ScanToNextToken(s)))

(* The front of the queue, and the loop of EnsureTokensInQueue: an invalid   *)
(* token is dropped, an unverified one waits for the rest of the text.       *)
QueueEmpty(s) == s.head = Len(s.tokens)

FrontToken(s) == s.tokens[s.head + 1]

PopToken(s) == [s EXCEPT !.head = @ + 1]

FrontInvalid(s) == ~QueueEmpty(s) /\ FrontToken(s).status = "INVALID"

(* Mutant: an unverified token is handed out. *)
FrontReadyUnverified(s) == (~QueueEmpty(s) \/ s.ended) /\ ~FrontInvalid(s)

FrontReady(s) ==
  \/ ~QueueEmpty(s) /\ FrontToken(s).status = "VALID"
  \/ s.ended /\ ~FrontInvalid(s)

EnsureTokensInQueue(s) ==
  IF FrontInvalid(s) THEN PopToken(s) ELSE ScanNextToken(s)
============================================================================
