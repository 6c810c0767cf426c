---------------------------- MODULE YamlEmitter ----------------------------
(***************************************************************************)
(* The emitter of yaml-cpp (emitter.cpp, emitterstate.cpp, emitterutils.cpp,*)
(* setting.h): calls such as BeginSeq, a string or EndMap become text.      *)
(*                                                                         *)
(* An emitter is a record: out is what the ostream_wrapper has written, the  *)
(* groups are the collections open, and a group keeps the settings that were *)
(* changed for it, to be restored when it ends.  Formats are named as in     *)
(* EMITTER_MANIP.  A call on an emitter that is not good does nothing.       *)
(***************************************************************************)
EXTENDS YamlScalar

Defaults ==
  [charset |-> "EmitNonAscii", str |-> "Auto", boolFmt |-> "TrueFalseBool",
   boolLength |-> "LongBool", boolCase |-> "LowerCase", intFmt |-> "Dec", indent |-> 2,
   preComment |-> 2, postComment |-> 1, Seq |-> "Block", Map |-> "Block",
   mapKey |-> "Auto"]

NewEmitter ==
  [out |-> <<>>, comment |-> FALSE, good |-> TRUE, groups |-> <<>>, curIndent |-> 0,
   hasAnchor |-> FALSE, hasTag |-> FALSE, hasNonContent |-> FALSE, docCount |-> 0,
   settings |-> Defaults, modified |-> <<>>, globals |-> <<>>, assertion |-> FALSE]

SetError(e) == [e EXCEPT !.good = FALSE]
----------------------------------------------------------------------------
(* ostream_wrapper.cpp and indentation.h *)

Spaces(n) == [k \in 1..n |-> " "]

Write(e, chars) ==
  [e EXCEPT !.out = @ \o chars, !.comment = @ /\ "\n" \notin Range(chars)]

Col(e) == Column(e.out, Len(e.out))

IndentTo(e, n) == Write(e, Spaces(IF Col(e) < n THEN n - Col(e) ELSE 0))

NewlineIf(e, cond) == IF cond THEN Write(e, <<"\n">>) ELSE e

SpaceOrIndentTo(e, requireSpace, indent) ==
  LET f == NewlineIf(e, e.comment)
  IN  IndentTo(IF Col(f) > 0 /\ requireSpace THEN Write(f, <<" ">>) ELSE f, indent)
----------------------------------------------------------------------------
(* emitterstate.cpp: the groups. *)

CurGroup(e) == Last(e.groups)
InGroup(e) == e.groups # <<>>

CurGroupFlowType(e) == IF InGroup(e) THEN CurGroup(e).flowType ELSE "NoType"
CurGroupIndent(e) == IF InGroup(e) THEN CurGroup(e).indent ELSE 0
CurGroupChildCount(e) == IF InGroup(e) THEN CurGroup(e).childCount ELSE e.docCount
CurGroupLongKey(e) == InGroup(e) /\ CurGroup(e).longKey

LastIndent(e) ==
  IF Len(e.groups) <= 1 THEN 0 ELSE e.curIndent - e.groups[Len(e.groups) - 1].indent

HasBegunContent(e) == e.hasAnchor \/ e.hasTag
HasBegunNode(e) == HasBegunContent(e) \/ e.hasNonContent

(* Group::NodeType and NextGroupType *)
NodeType(type, flowType) ==
  CASE type = "Seq" /\ flowType = "Flow"  -> "FlowSeq"
    [] type = "Seq" /\ flowType = "Block" -> "BlockSeq"
    [] type = "Map" /\ flowType = "Flow"  -> "FlowMap"
    [] type = "Map" /\ flowType = "Block" -> "BlockMap"

(* Everything inside a flow collection is flow. *)
GetFlowType(e, type) ==
  IF CurGroupFlowType(e) = "Flow" THEN "Flow" ELSE e.settings[type]

(* setting.h: the changes are undone in the order they were made. *)
Restore(settings, changes) ==
  FoldLeft(LAMBDA s, c : [s EXCEPT ![c.name] = c.value], settings, changes)

ClearModifiedSettings(e) ==
  [e EXCEPT !.settings = Restore(@, e.modified), !.modified = <<>>]

(* StartedDoc, and the end of StartedNode *)
ClearNode(e) ==
  [e EXCEPT !.hasAnchor = FALSE, !.hasTag = FALSE, !.hasNonContent = FALSE]

StartedNode(e) ==
  LET n == Len(e.groups)
      count == CurGroupChildCount(e) + 1
  IN  ClearNode(IF ~InGroup(e) THEN [e EXCEPT !.docCount = count]
                ELSE [e EXCEPT !.groups[n].childCount = count,
                               !.groups[n].longKey = @ /\ count % 2 # 0])

StartedScalar(e) == ClearModifiedSettings(StartedNode(e))

StartedGroup(e, type) ==
  LET f == StartedNode(e)
      group == [type |-> type, flowType |-> GetFlowType(f, type),
                indent |-> f.settings.indent, childCount |-> 0, longKey |-> FALSE,
                modified |-> f.modified]
  IN  [f EXCEPT !.curIndent = @ + CurGroupIndent(f),
                !.groups = Append(@, group), !.modified = <<>>]

(* Mutant: a group leaves its settings behind. *)
EndedGroupKeeps(e, type) ==
  LET f == [e EXCEPT !.groups = Front(@)]
      g == [f EXCEPT !.curIndent = @ - CurGroupIndent(f), !.settings = Restore(@, e.globals)]
  IN  IF ~InGroup(e) \/ CurGroup(e).type # type THEN SetError(e) ELSE ClearModifiedSettings(g)

(* The group's own changes are undone by its destructor, also on an error. *)
EndedGroup(e, type) ==
  LET group == CurGroup(e)
      f == [e EXCEPT !.groups = Front(@), !.settings = Restore(@, group.modified)]
      g == [f EXCEPT !.assertion = @ \/ f.curIndent < CurGroupIndent(f),
                     !.curIndent = @ - CurGroupIndent(f),
                     !.settings = Restore(@, e.globals)]
  IN  IF ~InGroup(e) THEN SetError(e)
      ELSE IF group.type # type THEN SetError(f)
      ELSE ClearModifiedSettings(g)

SetLongKey(e) ==
  IF InGroup(e) /\ CurGroup(e).type = "Map" THEN [e EXCEPT !.groups[Len(e.groups)].longKey = TRUE]
  ELSE [e EXCEPT !.assertion = TRUE]

ForceFlow(e) ==
  IF InGroup(e) THEN [e EXCEPT !.groups[Len(e.groups)].flowType = "Flow"]
  ELSE [e EXCEPT !.assertion = TRUE]
----------------------------------------------------------------------------
(* Settings: which of them a value is accepted by. *)

AcceptedBy(value) ==
  CASE value \in {"EmitNonAscii", "EscapeNonAscii"}             -> {"charset"}
    [] value \in {"SingleQuoted", "DoubleQuoted", "Literal"}    -> {"str"}
    [] value \in {"OnOffBool", "TrueFalseBool", "YesNoBool"}    -> {"boolFmt"}
    [] value \in {"UpperCase", "LowerCase", "CamelCase"}        -> {"boolCase"}
    [] value \in {"LongBool", "ShortBool"}                      -> {"boolLength"}
    [] value \in {"Dec", "Hex", "Oct"}                          -> {"intFmt"}
    [] value \in {"Block", "Flow"}                              -> {"Seq", "Map"}
    [] value = "LongKey"                                        -> {"mapKey"}
    [] value = "Auto"                                           -> {"str", "mapKey"}

SetLocal(e, name, value) ==
  [e EXCEPT !.settings[name] = value,
            !.modified = Append(@, [name |-> name, value |-> e.settings[name]])]

(* The default branch of Emitter::SetLocalValue. *)
SetLocalValue(e, value) ==
  IF ~e.good THEN e
  ELSE FoldSet(LAMBDA name, f : SetLocal(f, name, value), e, AcceptedBy(value))

(* A global change is recorded with its new value, so that restoring it      *)
(* keeps it.                                                                 *)
SetGlobal(e, name, value) ==
  [e EXCEPT !.settings[name] = value,
            !.globals = Append(@, [name |-> name, value |-> value])]
----------------------------------------------------------------------------
(* PrepareNode and the functions it calls. *)

Inline == {"Property", "Scalar", "FlowSeq", "FlowMap"}
Blocks == {"BlockSeq", "BlockMap"}

EmitBeginDoc(e) ==
  IF ~e.good THEN e
  ELSE IF InGroup(e) \/ HasBegunContent(e) THEN SetError(e)
  ELSE ClearNode(Write(NewlineIf(e, Col(e) > 0), <<"-", "-", "-", "\n">>))

PrepareTopNode(e, child) ==
  LET f == IF e.docCount > 0 /\ Col(e) > 0 THEN EmitBeginDoc(e) ELSE e
  IN  CASE child = "NoType" -> e
        [] child \in Inline -> SpaceOrIndentTo(f, HasBegunContent(f), 0)
        [] child \in Blocks -> NewlineIf(f, HasBegunNode(f))

(* FlowSeqPrepareNode and the four FlowMapPrepare functions differ only in   *)
(* what they write before a first child, lead, and before the others, sep.   *)
FlowPrepare(e, child, lead, sep) ==
  LET indent == LastIndent(e)
      first == CurGroupChildCount(e) = 0
      f == Write(IndentTo(NewlineIf(e, e.comment), indent), IF first THEN lead ELSE sep)
      g == IF HasBegunNode(e) THEN e ELSE f
  IN  CASE child = "NoType" -> g
        [] child \in Inline -> SpaceOrIndentTo(g, HasBegunContent(g) \/ ~first, indent)
        [] child \in Blocks -> [g EXCEPT !.assertion = TRUE]

FlowMapPrepareNode(e, child) ==
  LET isKey == CurGroupChildCount(e) % 2 = 0
      f == IF isKey /\ e.settings.mapKey = "LongKey" THEN SetLongKey(e) ELSE e
  IN  CASE ~isKey -> FlowPrepare(f, child, <<":">>, <<":">>)
        [] isKey /\ CurGroupLongKey(f) ->
             FlowPrepare(f, child, <<"{", " ", "?">>, <<",", " ", "?">>)
        [] isKey /\ ~CurGroupLongKey(f) -> FlowPrepare(f, child, <<"{">>, <<",">>)

BlockSeqPrepareNode(e, child) ==
  LET f == Write(IndentTo(NewlineIf(e, CurGroupChildCount(e) > 0 \/ e.comment),
                          e.curIndent), <<"-">>)
      g == IF HasBegunContent(e) THEN e ELSE f
  IN  CASE child = "NoType" -> e
        [] child \in Inline ->
             SpaceOrIndentTo(g, HasBegunContent(g), e.curIndent + CurGroupIndent(e))
        [] child = "BlockSeq" -> NewlineIf(g, TRUE)
        [] child = "BlockMap" -> NewlineIf(g, HasBegunContent(g) \/ g.comment)

BlockMapPrepareLongKey(e, child) ==
  LET f == NewlineIf(e, CurGroupChildCount(e) > 0)
      g == IF HasBegunContent(e) THEN e
           ELSE Write(IndentTo(NewlineIf(f, f.comment), e.curIndent), <<"?">>)
  IN  CASE child = "NoType" -> e
        [] child \in Inline -> SpaceOrIndentTo(g, TRUE, e.curIndent + 1)
        [] child \in Blocks -> g

BlockMapPrepareLongKeyValue(e, child) ==
  LET g == IF HasBegunContent(e) THEN e
           ELSE Write(IndentTo(NewlineIf(e, TRUE), e.curIndent), <<":">>)
  IN  IF child = "NoType" THEN e ELSE SpaceOrIndentTo(g, TRUE, e.curIndent + 1)

BlockMapPrepareSimpleKey(e, child) ==
  LET g == NewlineIf(e, ~HasBegunNode(e) /\ CurGroupChildCount(e) > 0)
  IN  CASE child = "NoType" -> e
        [] child \in Inline -> SpaceOrIndentTo(g, HasBegunContent(g), e.curIndent)
        [] child \in Blocks -> g

BlockMapPrepareSimpleKeyValue(e, child) ==
  LET g == IF HasBegunNode(e) THEN e ELSE Write(e, <<":">>)
  IN  CASE child = "NoType" -> g
        [] child \in Inline -> SpaceOrIndentTo(g, TRUE, e.curIndent + CurGroupIndent(e))
        [] child \in Blocks -> NewlineIf(g, TRUE)

(* A block collection as a key needs the long form. *)
BlockMapPrepareNode(e, child) ==
  LET isKey == CurGroupChildCount(e) % 2 = 0
      long == isKey /\ (e.settings.mapKey = "LongKey" \/ child \in Blocks)
      f == IF long THEN SetLongKey(e) ELSE e
  IN  CASE isKey /\ CurGroupLongKey(f)   -> BlockMapPrepareLongKey(f, child)
        [] isKey /\ ~CurGroupLongKey(f)  -> BlockMapPrepareSimpleKey(f, child)
        [] ~isKey /\ CurGroupLongKey(f)  -> BlockMapPrepareLongKeyValue(f, child)
        [] ~isKey /\ ~CurGroupLongKey(f) -> BlockMapPrepareSimpleKeyValue(f, child)

PrepareNode(e, child) ==
  LET type == NodeType(CurGroup(e).type, CurGroup(e).flowType)
  IN  CASE ~InGroup(e) -> PrepareTopNode(e, child)
        [] InGroup(e) /\ type = "FlowSeq" -> FlowPrepare(e, child, <<"[">>, <<",">>)
        [] InGroup(e) /\ type = "BlockSeq" -> BlockSeqPrepareNode(e, child)
        [] InGroup(e) /\ type = "FlowMap" -> FlowMapPrepareNode(e, child)
        [] InGroup(e) /\ type = "BlockMap" -> BlockMapPrepareNode(e, child)
----------------------------------------------------------------------------
(* Documents and groups. *)

EmitEndDoc(e) ==
  IF ~e.good THEN e
  ELSE IF InGroup(e) \/ HasBegunContent(e) THEN SetError(e)
  ELSE Write(NewlineIf(e, Col(e) > 0), <<".", ".", ".", "\n">>)

(* EmitBeginSeq and EmitBeginMap *)
EmitBegin(e, type) ==
  IF ~e.good THEN e
  ELSE StartedGroup(PrepareNode(e, NodeType(type, GetFlowType(e, type))), type)

(* EmitEndSeq and EmitEndMap: an empty collection can only be flow. *)
EmitEnd(e, type) ==
  LET empty == CurGroupChildCount(e) = 0
      f == IF empty THEN ForceFlow(e) ELSE e
      open == IF type = "Seq" THEN <<"[">> ELSE <<"{">>
      close == IF type = "Seq" THEN <<"]">> ELSE <<"}">>
      g == IF CurGroupFlowType(f) # "Flow" THEN f
           ELSE Write(IndentTo(NewlineIf(f, f.comment), f.curIndent),
                      IF empty THEN open \o close ELSE close)
  IN  IF ~e.good THEN e ELSE EndedGroup(g, type)

EmitNewline(e) ==
  IF ~e.good THEN e
  ELSE [NewlineIf(PrepareNode(e, "NoType"), TRUE) EXCEPT !.hasNonContent = TRUE]
----------------------------------------------------------------------------
(* emitterutils.cpp: scalars. *)

(* A byte that is no UTF-8 character is written as U+FFFD. *)
CodePoint(c) == IF c \in {"BYTE85", "BYTEA0"} THEN "REPLACEMENT" ELSE c

NonAscii(c) == c \in {"BYTE85", "BYTEA0"} \/ CodeOf(c) >= 128

IsValidPlainScalar(str, flow, onlyAscii) ==
  /\ ~IsNullString(str)
  /\ IF flow THEN PlainScalarInFlow(str, 0) ELSE PlainScalar(str, 0)
  /\ Last(str) # " "
  /\ \A i \in 0..(Len(str) - 1) :
       LET c == str[i + 1]
       IN  /\ ~(IF flow THEN EndScalarInFlow(str, i) ELSE EndScalar(str, i))
           /\ ~(BlankOrBreak(str, i) /\ At(str, i + 1) = "#")
           /\ c \notin NotPrintable \cup {"BOM", "\t"} /\ Break(str, i) < 0
           /\ onlyAscii => ~NonAscii(c)

ComputeStringFormat(str, format, flow, onlyAscii) ==
  LET ascii == onlyAscii => \A i \in DOMAIN str : ~NonAscii(str[i])
  IN  CASE format = "Auto" /\ IsValidPlainScalar(str, flow, onlyAscii) -> "Plain"
        [] format = "SingleQuoted" /\ ascii /\ "\n" \notin Range(str) -> "SingleQuoted"
        [] format = "Literal" /\ ascii /\ ~flow -> "Literal"
        [] OTHER -> "DoubleQuoted"

Concat(parts) == FoldLeft(LAMBDA a, b : a \o b, <<>>, parts)

(* Mutant: a quote in the text is not doubled. *)
SingleQuotedOnce(str) == <<"'">> \o [i \in DOMAIN str |-> CodePoint(str[i])] \o <<"'">>

SingleQuoted(str) ==
  <<"'">> \o Concat([i \in DOMAIN str |->
                      IF str[i] = "'" THEN <<"'", "'">> ELSE <<CodePoint(str[i])>>])
          \o <<"'">>

(* WriteDoubleQuoteEscapeSequence *)
HexSequence(c) ==
  LET code == CodeOf(c)
      digits(n) == [k \in 1..n |-> HexDigits[((code \div (16 ^ (n - k))) % 16) + 1]]
  IN  CASE code < 255   -> <<"\\", "x">> \o digits(2)
        [] code \in 255..65534 -> <<"\\", "u">> \o digits(4)
        [] code > 65534 -> <<"\\", "U", "0">> \o digits(7)

EscapeOf(c, onlyAscii) ==
  CASE c \in {"\"", "\\"} -> <<"\\", c>>
    [] c = "\n" -> <<"\\", "n">>
    [] c = "\t" -> <<"\\", "t">>
    [] c = "\r" -> <<"\\", "r">>
    [] c = "BS" -> <<"\\", "b">>
    [] OTHER ->
         IF CodeOf(c) < 32 \/ CodeOf(c) \in 128..160 \/ c = "BOM"
            \/ (onlyAscii /\ CodeOf(c) > 126)
         THEN HexSequence(c) ELSE <<c>>

DoubleQuoted(str, onlyAscii) ==
  <<"\"">> \o Concat([i \in DOMAIN str |-> EscapeOf(CodePoint(str[i]), onlyAscii)])
           \o <<"\"">>

(* The indentation follows every line break, the last one included. *)
Literal(str, indent) ==
  <<"|", "\n">> \o Spaces(indent)
    \o Concat([i \in DOMAIN str |->
                IF str[i] = "\n" THEN <<"\n">> \o Spaces(indent) ELSE <<CodePoint(str[i])>>])

(* Write(const std::string&) *)
WriteString(e, str) ==
  LET onlyAscii == e.settings.charset = "EscapeNonAscii"
      format == ComputeStringFormat(str, e.settings.str, CurGroupFlowType(e) = "Flow",
                                    onlyAscii)
      f == IF format = "Literal" THEN SetLocal(e, "mapKey", "LongKey") ELSE e
      g == PrepareNode(f, "Scalar")
      chars == CASE format = "Plain" -> str
                 [] format = "SingleQuoted" -> SingleQuoted(str)
                 [] format = "DoubleQuoted" -> DoubleQuoted(str, onlyAscii)
                 [] format = "Literal" -> Literal(str, g.curIndent + g.settings.indent)
  IN  IF ~e.good THEN e ELSE StartedScalar(Write(g, chars))

WriteNull(e) ==
  IF ~e.good THEN e ELSE StartedScalar(Write(PrepareNode(e, "Scalar"), <<"~">>))
----------------------------------------------------------------------------
(* Properties, aliases and comments. *)

IsAnchorChar(c) ==
  /\ c \notin {",", "[", "]", "{", "}", " ", "\t", "BOM", "\n", "\r"}
  /\ c = "NEL" \/ CodeOf(c) \in 32..125 \/ CodeOf(c) >= 160

NameOK(name) == \A i \in DOMAIN name : IsAnchorChar(name[i])

WriteAlias(e, name) ==
  IF ~e.good THEN e
  ELSE IF HasBegunContent(e) \/ ~NameOK(name) THEN SetError(e)
  ELSE StartedScalar(Write(PrepareNode(e, "Scalar"), <<"*">> \o name))

WriteAnchor(e, name) ==
  IF ~e.good THEN e
  ELSE IF e.hasAnchor \/ ~NameOK(name) THEN SetError(e)
  ELSE [Write(PrepareNode(e, "Property"), <<"&">> \o name) EXCEPT !.hasAnchor = TRUE]

(* All of str matches URI or Tag, one match after the other. *)
AllMatch(str, kind) == SkipMatches(str, 0, kind) >= Len(str)

(* A tag is verbatim, local (one "!") or has a prefix, empty for "!!". *)
TagText(tag) ==
  CASE tag.type = "Verbatim" -> <<"!", "<">> \o tag.content \o <<">">>
    [] tag.type = "PrimaryHandle" -> <<"!">> \o tag.content
    [] tag.type = "NamedHandle" -> <<"!">> \o tag.prefix \o <<"!">> \o tag.content

TagValid(tag) ==
  /\ AllMatch(tag.content, IF tag.type = "Verbatim" THEN "URI" ELSE "Tag")
  /\ AllMatch(tag.prefix, "URI")

WriteTag(e, tag) ==
  IF ~e.good THEN e
  ELSE IF e.hasTag \/ ~TagValid(tag) THEN SetError(e)
  ELSE [Write(PrepareNode(e, "Property"), TagText(tag)) EXCEPT !.hasTag = TRUE]

(* The lines of a comment start in the column where the first one did. *)
CommentText(lines, column, post) ==
  Concat([i \in DOMAIN lines |->
           (IF i = 1 THEN <<>> ELSE <<"\n">> \o Spaces(column))
             \o <<"#">> \o Spaces(post) \o lines[i]])

WriteComment(e, lines) ==
  LET f == PrepareNode(e, "NoType")
      g == Write(f, Spaces(IF Col(f) > 0 THEN e.settings.preComment ELSE 0))
      h == Write(g, CommentText(lines, Col(g), e.settings.postComment))
  IN  IF ~e.good THEN e ELSE [h EXCEPT !.comment = TRUE, !.hasNonContent = TRUE]
============================================================================
