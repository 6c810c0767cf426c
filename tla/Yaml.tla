-------------------------------- MODULE Yaml --------------------------------
(***************************************************************************)
(* yaml-cpp as a whole: a client writes a document with an Emitter, Load    *)
(* reads it, Dump writes what was read and Load reads that again.           *)
(*                                                                         *)
(*   write --> load --> dump --> reload --> done                            *)
(*                                                                         *)
(* meant is the graph the client meant, kept beside the emitter by driving   *)
(* a NodeBuilder with the same calls; read is the graph of the first load.   *)
(* A behaviour may also begin at load with a text of its own, as a file      *)
(* written by hand: then nothing was meant.                                  *)
(***************************************************************************)
EXTENDS YamlParser, YamlDump, YamlStream, YamlConvert

CONSTANTS
  Families,   \* what clients do: records of the calls and values they use
  Texts       \* texts written by hand

VARIABLES
  phase,      \* see above
  family,     \* the client
  calls,      \* how many calls it has made
  emitter,    \* its emitter
  props,      \* the tag and anchor it has written for its next node
  meant,      \* the graph it means
  text,       \* what is being read
  steps,      \* how many steps the parser has made on it
  read,       \* the builder of the first load
  events,     \* the events of Dump that are left
  dumper      \* the EmitFromEvents of Dump

clientVars == <<family, calls, emitter, props, meant>>
dumpVars == <<read, events, dumper>>
vars == <<phase, clientVars, text, steps, dumpVars, parserVars>>

NoProps == [tag |-> <<>>, anchor |-> NullAnchor]

ByHand == [calls |-> {}]

StepsPerChar == 5

(* Load on a file in some encoding; the parser and its builder are new. *)
StartLoad(chars, encoding) ==
  /\ text' = chars /\ steps' = 0
  /\ scanner' = NewScanner(Decoded(Encoded(chars, encoding)))
  /\ frames' = <<Frame("Directives")>>
  /\ directives' = NewDirectives
  /\ collections' = <<>> /\ anchors' = <<>> /\ curAnchor' = 0
  /\ builder' = NewBuilder /\ outcome' = "parsing" /\ assertion' = FALSE

Utf8 == [charSet |-> "utf8", bom |-> FALSE]

Init ==
  /\ \/ \E f \in Families : family = f /\ phase = "write" /\ text = <<>>
     \/ \E t \in Texts : family = ByHand /\ phase = "written" /\ text = t
  /\ calls = 0 /\ steps = 0 /\ emitter = NewEmitter /\ props = NoProps /\ meant = NewBuilder
  /\ scanner = NewScanner(<<>>) /\ frames = <<>> /\ directives = NewDirectives
  /\ collections = <<>> /\ anchors = <<>> /\ curAnchor = 0
  /\ builder = NewBuilder /\ outcome = "idle" /\ assertion = FALSE
  /\ read = NewBuilder /\ events = <<>> /\ dumper = NewDumper
----------------------------------------------------------------------------
(* The client.  It closes what it opens, gives a map as many values as keys  *)
(* and an alias no properties.  It keeps off what the emitter cannot write   *)
(* so that it is read back:                                                  *)
(*   - the keys of a map are neither aliases nor block collections with      *)
(*     properties nor empty collections: "*1:" is read as an alias to "1:",  *)
(*     "&1- a" as no collection, and "  []:" is deeper than the next key;    *)
(*   - a flow map has no long keys: "{ ?a: b}" is read as the key "?a";      *)
(*   - a flow collection with a comment in it is not empty: "{ # c" "{}";    *)
(*   - no scalar begins like "--- ", which is read as a new document, or     *)
(*     ends in a carriage return, which is read as part of the line break;   *)
(*   - no line break ends a document that another one follows: the emitter   *)
(*     begins the next one only in the middle of a line;                     *)
(*   - a negative int is decimal: "0xff" is read as 255, which may not fit;  *)
(*   - a Literal ends in one line break: it is read with one in any case;    *)
(*   - a node has at most one local format, and no local LongKey where       *)
(*     strings are literals, which make the key long by themselves: of two   *)
(*     changes of one setting the first is undone first, and its value       *)
(*     stays.                                                                *)

AtKey ==
  /\ InGroup(emitter) /\ CurGroup(emitter).type = "Map"
  /\ CurGroupChildCount(emitter) % 2 = 0

(* The group that is open is itself a key. *)
InKey ==
  LET n == Len(emitter.groups)
  IN  n > 1 /\ emitter.groups[n - 1].type = "Map" /\ emitter.groups[n - 1].childCount % 2 = 1

Calls(kind) ==
  /\ phase = "write" /\ kind \in family.calls
  /\ calls < family.max /\ calls' = calls + 1
  /\ UNCHANGED <<phase, family, text, steps, dumpVars, parserVars>>

(* Once the first document is complete, what follows is another one. *)
Meant(graph) == meant' = IF meant.root = 0 THEN graph ELSE meant

Written(e) == emitter' = e /\ props' = NoProps

Formatted(format) ==
  IF format = "none" THEN emitter ELSE SetLocalValue(emitter, format)

(* Emitter << value for the type the client writes, and Node::as for it. *)
WriteAs(e, value) ==
  CASE family.as = "string" -> WriteString(e, value)
    [] family.as = "bool"   -> WriteBool(e, value)
    [] family.as = "int"    -> WriteInt(e, value)
    [] family.as = "char"   -> WriteChar(e, value)
    [] family.as = "binary" -> WriteBinary(e, value)

DecodeAs(str) ==
  CASE family.as = "string" -> <<str>>
    [] family.as = "bool"   -> DecodeBool(str)
    [] family.as = "int"    -> DecodeInt(str)
    [] family.as = "char"   -> DecodeChar(str)
    [] family.as = "binary" -> DecodeBinary(str)

KeepsForm(str) == ~DocIndicator(str, 0) /\ (str # <<>> => Last(str) # "\r")

Writable(e, value) ==
  /\ family.as = "string" => KeepsForm(value)
  /\ family.as = "int" => value >= 0 \/ e.settings.intFmt = "Dec"

(* Whether the client may begin a node. *)
MayBegin(e) ==
  /\ meant.root = 0 \/ "Doc" \in family.calls
  /\ AtKey /\ CurGroupFlowType(e) = "Flow" => e.settings.mapKey # "LongKey"

Scalar ==
  /\ Calls("Scalar")
  /\ \E value \in family.scalars, format \in family.formats :
       /\ MayBegin(Formatted(format)) /\ Writable(Formatted(format), value)
       /\ format = "LongKey" => emitter.settings.str # "Literal"
       /\ Written(WriteAs(Formatted(format), value))
       /\ Meant(OnScalar(meant, props.tag, props.anchor, value))

Null ==
  /\ Calls("Null") /\ props.tag = <<>> /\ MayBegin(emitter)
  /\ Written(WriteNull(emitter)) /\ Meant(OnNull(meant, props.anchor))

Begin ==
  /\ Calls("Begin")
  /\ \E type \in {"Seq", "Map"}, style \in family.styles :
       /\ MayBegin(Formatted(style))
       /\ AtKey /\ props # NoProps => GetFlowType(Formatted(style), type) = "Flow"
       /\ Written(EmitBegin(Formatted(style), type))
       /\ Meant(IF type = "Seq"
                THEN OnSequenceStart(meant, props.tag, props.anchor, "Default")
                ELSE OnMapStart(meant, props.tag, props.anchor, "Default"))

End ==
  /\ Calls("Begin") /\ InGroup(emitter) /\ props = NoProps
  /\ LET type == CurGroup(emitter).type
         empty == CurGroupChildCount(emitter) = 0
     IN  /\ type = "Map" => CurGroupChildCount(emitter) % 2 = 0
         /\ empty => ~InKey /\ (CurGroupFlowType(emitter) = "Flow" => ~emitter.hasNonContent)
         /\ Written(EmitEnd(emitter, type))
         /\ Meant(IF type = "Seq" THEN OnSequenceEnd(meant) ELSE OnMapEnd(meant))

Anchors ==
  /\ Calls("Anchor") /\ props.anchor = NullAnchor /\ meant.root = 0 /\ MayBegin(emitter)
  /\ LET anchor == Len(meant.anchors) + 1
     IN  /\ emitter' = WriteAnchor(emitter, AnchorName(anchor))
         /\ props' = [props EXCEPT !.anchor = anchor]
         /\ UNCHANGED meant

Alias ==
  /\ Calls("Anchor") /\ props = NoProps /\ meant.root = 0 /\ ~AtKey
  /\ \E anchor \in DOMAIN meant.anchors :
       /\ Written(WriteAlias(emitter, AnchorName(anchor)))
       /\ Meant(OnAlias(meant, anchor))

Tags ==
  /\ Calls("Tag") /\ props.tag = <<>> /\ MayBegin(emitter)
  /\ \E tag \in family.tags :
       /\ emitter' = WriteTag(emitter, tag.written)
       /\ props' = [props EXCEPT !.tag = tag.meant]
       /\ UNCHANGED meant

Comment ==
  /\ Calls("Comment")
  /\ \E lines \in {<< <<"c">> >>, << <<"c">>, <<"-", " ", "c">> >>} :
       emitter' = WriteComment(emitter, lines)
  /\ UNCHANGED <<props, meant>>

Newline ==
  /\ Calls("Newline") /\ emitter' = EmitNewline(emitter) /\ UNCHANGED <<props, meant>>

BeginDoc ==
  /\ Calls("Doc") /\ ~InGroup(emitter) /\ props = NoProps
  /\ emitter.docCount > 0 \/ emitter.out = <<>>
  /\ emitter' = EmitBeginDoc(emitter) /\ UNCHANGED <<props, meant>>

EndDoc ==
  /\ Calls("Doc") /\ ~InGroup(emitter) /\ props = NoProps /\ emitter.docCount > 0
  /\ emitter' = EmitEndDoc(emitter) /\ UNCHANGED <<props, meant>>

(* SetSeqFormat, SetMapFormat and SetStringFormat *)
Global ==
  /\ Calls("Global")
  /\ \E change \in family.globals :
       emitter' = SetGlobal(emitter, change.name, change.value)
  /\ UNCHANGED <<props, meant>>

Finish ==
  /\ phase = "write"
  /\ emitter.good /\ ~InGroup(emitter) /\ emitter.docCount > 0 /\ props = NoProps
  /\ phase' = "written" /\ text' = emitter.out
  /\ UNCHANGED <<clientVars, steps, dumpVars, parserVars>>

Client ==
  \/ Scalar \/ Null \/ Begin \/ End \/ Anchors \/ Alias \/ Tags
  \/ Comment \/ Newline \/ BeginDoc \/ EndDoc \/ Global \/ Finish
----------------------------------------------------------------------------
Open ==
  /\ phase = "written" /\ phase' = "load"
  /\ \E encoding \in IF family = ByHand THEN {Utf8} ELSE family.encodings :
       StartLoad(text, encoding)
  /\ UNCHANGED <<clientVars, dumpVars>>

Parse ==
  /\ phase \in {"load", "reload"}
  /\ ParserStep /\ steps' = steps + 1
  /\ UNCHANGED <<phase, clientVars, text, dumpVars>>

(* Dump, an event at a time. *)
StartDump ==
  /\ phase = "load" /\ outcome = "loaded"
  /\ phase' = "dump" /\ read' = builder
  /\ events' = NodeEvents(builder) /\ dumper' = NewDumper
  /\ UNCHANGED <<clientVars, text, steps, parserVars>>

DumpEvent ==
  /\ phase = "dump" /\ events # <<>>
  /\ dumper' = EmitEvent(dumper, Head(events)) /\ events' = Tail(events)
  /\ UNCHANGED <<phase, clientVars, text, steps, read, parserVars>>

Reload ==
  /\ phase = "dump" /\ events = <<>>
  /\ phase' = "reload" /\ StartLoad(dumper.emitter.out, Utf8)
  /\ UNCHANGED <<clientVars, dumpVars>>

Done ==
  /\ phase \in {"load", "reload"}
  /\ outcome = "failed" \/ (outcome = "loaded" /\ phase = "reload")
  /\ phase' = "done"
  /\ UNCHANGED <<clientVars, text, steps, dumpVars, parserVars>>

(* The client may leave its document unfinished. *)
Rest ==
  /\ phase = "done" \/ (phase = "write" /\ calls = family.max)
  /\ UNCHANGED vars

Next == Client \/ Open \/ Parse \/ StartDump \/ DumpEvent \/ Reload \/ Done \/ Rest

Spec == Init /\ [][Next]_vars
----------------------------------------------------------------------------
(* What two graphs must agree on: all but the styles, and whether a tag was   *)
(* left out or is one of the tags that stand for none.                        *)
Plain(tag) == IF tag \in {<<>>, <<"?">>, <<"!">>} THEN <<>> ELSE tag

Content(g) ==
  [root |-> g.root,
   nodes |-> [id \in DOMAIN g.nodes |->
               [type |-> g.nodes[id].type, tag |-> Plain(g.nodes[id].tag),
                value |-> g.nodes[id].value, kids |-> g.nodes[id].kids]]]

(* The same for a graph that is read as the client's type. *)
ReadAs(g) ==
  LET c == Content(g)
      tag(node) == IF family.as = "binary" THEN <<>> ELSE node.tag
  IN  [c EXCEPT !.nodes = [id \in DOMAIN c.nodes |->
         IF c.nodes[id].type = "Scalar"
         THEN [c.nodes[id] EXCEPT !.value = DecodeAs(@), !.tag = tag(c.nodes[id])]
         ELSE c.nodes[id]]]

MeantAs(g) ==
  LET c == Content(g)
  IN  [c EXCEPT !.nodes = [id \in DOMAIN c.nodes |->
         IF c.nodes[id].type = "Scalar" THEN [c.nodes[id] EXCEPT !.value = <<@>>]
         ELSE c.nodes[id]]]

(* The same limits on what Dump writes. *)
Dumpable(g) ==
  /\ \A id \in DOMAIN g.nodes :
       g.nodes[id].type = "Scalar" => KeepsForm(g.nodes[id].value)
  /\ \A id \in DOMAIN g.nodes : g.nodes[id].type = "Map" =>
       \A k \in DOMAIN g.nodes[id].kids : k % 2 = 1 =>
         LET key == g.nodes[g.nodes[id].kids[k]]
             collection == key.type \in {"Sequence", "Map"}
         IN  /\ ~IsAliased(g, g.nodes[id].kids[k])
             /\ collection => key.kids # <<>>
             /\ collection /\ Plain(key.tag) # <<>> => key.style = "Flow"

(* No assert of the parser, the NodeBuilder, the emitter or Dump fails, on    *)
(* any text and for any order of calls a client keeps to: the collection      *)
(* stack, the builder's stack and keys and the emitter's groups stay in step  *)
(* with each other across every way a collection can begin and end.           *)
NoAssertFails ==
  /\ ~assertion /\ ~builder.assertion /\ ~meant.assertion
  /\ ~emitter.assertion /\ ~dumper.assertion /\ ~dumper.emitter.assertion

(* What a client writes with an Emitter, Load reads: the text is accepted,    *)
(* in any encoding of the file, and the graph is the one the client meant,    *)
(* its shared nodes shared, its tags translated and its values converted back *)
(* (Node::as) to what they were.                                              *)
WrittenIsRead ==
  family # ByHand =>
    /\ phase = "load" => outcome # "failed"
    /\ phase = "dump" => ReadAs(read) = MeantAs(meant)

(* Dump writes what Load reads as the same graph, for every graph that a text *)
(* gave, whoever wrote it.                                                    *)
DumpIsRead ==
  phase = "reload" /\ outcome # "parsing" /\ Dumpable(read) =>
    outcome = "loaded" /\ Content(builder) = Content(read)

(* A local setting ends with the node it was for: outside every group, and    *)
(* with none pending, an emitter has its defaults and the global settings.    *)
SettingsRestored ==
  \A e \in {emitter, dumper.emitter} :
    ~InGroup(e) /\ e.modified = <<>> => e.settings = Restore(Defaults, e.globals)

(* A simple key that may still be validated points into the queue (pMapStart  *)
(* and pKey of SimpleKey): the parser never pops a token it still points at,  *)
(* or Validate would write to a token that is gone.                           *)
KeysInQueue ==
  \A k \in 1..Len(scanner.simpleKeys) :
    LET key == scanner.simpleKeys[k]
    IN  key.key > scanner.head /\ (key.mapStart # 0 => key.mapStart > scanner.head)

(* Load ends, and soon: on every text the scanner and the parser together     *)
(* make at most StepsPerChar steps for each character and its end.            *)
LoadIsLinear == steps <= StepsPerChar * (Len(text) + 1)
============================================================================
