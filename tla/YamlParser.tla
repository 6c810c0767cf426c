----------------------------- MODULE YamlParser -----------------------------
(***************************************************************************)
(* Load (parse.cpp): the parser pulls tokens from the scanner and drives a  *)
(* NodeBuilder.  SingleDocParser is a recursive descent; its call stack is   *)
(* the variable frames, one frame for each HandleNode in progress, and an    *)
(* action is what the code does between two looks at the front of the token  *)
(* queue.  Each look first runs the scanner until the front is ready, so     *)
(* Scan interleaves with the calls as in the code.                           *)
(***************************************************************************)
EXTENDS YamlScanner, YamlBuilder

CONSTANT MaxDepth   \* HandleNode calls that may be nested; 2000 in the code

ASSUME MaxDepthAssumption == MaxDepth \in Nat \ {0}

VARIABLES
  scanner,      \* m_scanner
  frames,       \* the calls in progress, the innermost last
  collections,  \* m_pCollectionStack
  anchors,      \* m_anchors: from names to anchors
  curAnchor,    \* m_curAnchor
  directives,   \* m_pDirectives
  builder,      \* the NodeBuilder that receives the events
  outcome,      \* "idle", "parsing", "loaded" or "failed" (an exception)
  assertion     \* an assert of the parser has failed

parserVars ==
  <<scanner, frames, collections, anchors, curAnchor, directives, builder, outcome, assertion>>

NewDirectives == [isDefault |-> TRUE, tags |-> <<>>]

Frame(pc) == [pc |-> pc, first |-> TRUE, tag |-> <<>>, anchor |-> NullAnchor]
----------------------------------------------------------------------------
Running == outcome = "parsing" /\ ~scanner.error

(* EnsureTokensInQueue, one turn of its loop; an error ends the load. *)
Scan ==
  /\ Running /\ ~FrontReady(scanner)
  /\ scanner' = EnsureTokensInQueue(scanner)
  /\ outcome' = IF scanner'.error THEN "failed" ELSE outcome
  /\ UNCHANGED <<frames, collections, anchors, curAnchor, directives, builder, assertion>>

On(pc) == Running /\ FrontReady(scanner) /\ Last(frames).pc = pc

Sees(types) == ~QueueEmpty(scanner) /\ FrontToken(scanner).type \in types

PopFront == scanner' = PopToken(scanner)

Fail ==
  /\ outcome' = "failed"
  /\ UNCHANGED <<scanner, frames, collections, anchors, curAnchor, directives, builder,
                 assertion>>

(* Where the innermost call goes on: at pc, in a call of HandleNode that      *)
(* returns to pc, or in its caller.                                           *)
Goto(pc) == frames' = Append(Front(frames), Frame(pc))
Call(pc) == frames' = Front(frames) \o <<Frame(pc), Frame("Node")>>
Return   == frames' = Front(frames)

PushCollection(type) == collections' = Append(collections, type)

PopCollection(type) ==
  LET matches == collections # <<>> /\ Last(collections) = type
  IN  /\ assertion' = (assertion \/ ~matches)
      /\ collections' = IF matches THEN Front(collections) ELSE collections

Emit(b) == builder' = b

SameDocument == UNCHANGED <<anchors, curAnchor, directives, outcome>>
----------------------------------------------------------------------------
(* parser.cpp *)

(* HandleYamlDirective reads "<int><any character><int>". *)
VersionParts(v) ==
  { k \in 2..(Len(v) - 1) : /\ \A i \in 1..(k - 1) : v[i] \in Digits
                            /\ v[k] \notin Digits
                            /\ \A i \in (k + 1)..Len(v) : v[i] \in Digits }

MajorAtMostOne(v, k) == v[k - 1] \in {"0", "1"} /\ \A i \in 1..(k - 2) : v[i] = "0"

YamlDirectiveOK(d, params) ==
  /\ Len(params) = 1
  /\ d.isDefault
  /\ \E k \in VersionParts(params[1]) : MajorAtMostOne(params[1], k)

TagDirectiveOK(d, params) == Len(params) = 2 /\ params[1] \notin DOMAIN d.tags

(* The directives of the last document are kept unless there are new ones. *)
HandleDirective ==
  /\ On("Directives") /\ Sees({"DIRECTIVE"})
  /\ LET token == FrontToken(scanner)
         d == IF Last(frames).first THEN NewDirectives ELSE directives
         yaml == token.value = <<"Y", "A", "M", "L">>
         tag == token.value = <<"T", "A", "G">>
     IN  \/ /\ \/ yaml /\ ~YamlDirectiveOK(d, token.params)
               \/ tag /\ ~TagDirectiveOK(d, token.params)
            /\ Fail
         \/ /\ yaml => YamlDirectiveOK(d, token.params)
            /\ tag => TagDirectiveOK(d, token.params)
            /\ directives' =
                 IF yaml THEN [d EXCEPT !.isDefault = FALSE]
                 ELSE IF tag THEN [d EXCEPT !.tags = (token.params[1] :> token.params[2]) @@ @]
                 ELSE d
            /\ PopFront
            /\ frames' = <<[Frame("Directives") EXCEPT !.first = FALSE]>>
            /\ UNCHANGED <<collections, anchors, curAnchor, builder, outcome, assertion>>

(* HandleNextDocument and HandleDocument, up to the root node. *)
HandleDocument ==
  /\ On("Directives") /\ ~Sees({"DIRECTIVE"})
  /\ IF QueueEmpty(scanner)
     THEN outcome' = "loaded" /\ UNCHANGED <<scanner, frames>>
     ELSE /\ Call("DocumentEnd")
          /\ IF Sees({"DOC_START"}) THEN PopFront ELSE UNCHANGED scanner
          /\ UNCHANGED outcome
  /\ UNCHANGED <<collections, anchors, curAnchor, directives, builder, assertion>>

HandleDocumentEnd ==
  /\ On("DocumentEnd")
  /\ IF Sees({"DOC_END"}) THEN PopFront /\ UNCHANGED outcome
     ELSE outcome' = "loaded" /\ UNCHANGED scanner
  /\ UNCHANGED <<frames, collections, anchors, curAnchor, directives, builder, assertion>>
----------------------------------------------------------------------------
(* tag.cpp and directives.cpp *)

YamlPrefix == <<"t", "a", "g", ":", "y", "a", "m", "l", ".", "o", "r", "g", ",",
                "2", "0", "0", "2", ":">>

TranslateTagHandle(handle) ==
  IF handle \in DOMAIN directives.tags THEN directives.tags[handle]
  ELSE IF handle = <<"!", "!">> THEN YamlPrefix ELSE handle

TranslateTag(token) ==
  CASE token.data = "VERBATIM" -> token.value
    [] token.data = "PRIMARY_HANDLE" -> TranslateTagHandle(<<"!">>) \o token.value
    [] token.data = "SECONDARY_HANDLE" -> TranslateTagHandle(<<"!", "!">>) \o token.value
    [] token.data = "NAMED_HANDLE" ->
         TranslateTagHandle(<<"!">> \o token.value \o <<"!">>) \o token.params[1]
    [] token.data = "NON_SPECIFIC" -> <<"!">>
----------------------------------------------------------------------------
(* HandleNode: first until a property has been read. *)

Node == Last(frames)

OnNode == On("Node") /\ Len(frames) - 1 < MaxDepth

TooDeep == On("Node") /\ Len(frames) - 1 >= MaxDepth /\ Fail

(* A value without a key is a map of its own (HandleCompactMapWithNoKey). *)
ValueNode ==
  /\ OnNode /\ Node.first /\ Sees({"VALUE"})
  /\ Emit(OnNull(OnMapStart(builder, <<"?">>, NullAnchor, "Default"), NullAnchor))
  /\ PopFront
  /\ PushCollection("CompactMap") /\ Call("CompactMapEnd")
  /\ SameDocument /\ UNCHANGED assertion

AliasNode ==
  /\ OnNode /\ Node.first /\ Sees({"ALIAS"})
  /\ LET name == FrontToken(scanner).value
     IN  IF name \notin DOMAIN anchors THEN Fail
         ELSE /\ Emit(OnAlias(builder, anchors[name]))
              /\ PopFront /\ Return
              /\ SameDocument /\ UNCHANGED <<collections, assertion>>

(* ParseProperties *)
ParseTag ==
  /\ OnNode /\ Sees({"TAG"})
  /\ IF Node.tag # <<>> THEN Fail
     ELSE /\ frames' = [frames EXCEPT ![Len(frames)].tag = TranslateTag(FrontToken(scanner)),
                                      ![Len(frames)].first = FALSE]
          /\ PopFront
          /\ SameDocument /\ UNCHANGED <<collections, builder, assertion>>

ParseAnchor ==
  /\ OnNode /\ Sees({"ANCHOR"})
  /\ IF Node.anchor # NullAnchor THEN Fail
     ELSE /\ curAnchor' = curAnchor + 1
          /\ anchors' = (FrontToken(scanner).value :> curAnchor') @@ anchors
          /\ frames' = [frames EXCEPT ![Len(frames)].anchor = curAnchor',
                                      ![Len(frames)].first = FALSE]
          /\ PopFront
          /\ UNCHANGED <<collections, directives, builder, outcome, assertion>>

NodeContent ==
  /\ OnNode /\ ~Sees({"TAG", "ANCHOR"})
  /\ Node.first => ~Sees({"VALUE", "ALIAS"})

NullToken ==
  Sees({"PLAIN_SCALAR"}) /\ IsNullString(FrontToken(scanner).value)

NodeTag ==
  IF Node.tag # <<>> THEN Node.tag
  ELSE IF Sees({"NON_PLAIN_SCALAR"}) THEN <<"!">> ELSE <<"?">>

CompactMapHere ==
  Sees({"KEY"}) /\ collections # <<>> /\ Last(collections) = "FlowSeq"

ScalarNode ==
  /\ NodeContent /\ Sees({"PLAIN_SCALAR", "NON_PLAIN_SCALAR"})
  /\ Emit(IF NullToken THEN OnNull(builder, Node.anchor)
          ELSE OnScalar(builder, NodeTag, Node.anchor, FrontToken(scanner).value))
  /\ PopFront /\ Return
  /\ SameDocument /\ UNCHANGED <<collections, assertion>>

SequenceNode ==
  /\ NodeContent /\ Sees({"FLOW_SEQ_START", "BLOCK_SEQ_START"})
  /\ LET flow == Sees({"FLOW_SEQ_START"})
     IN  /\ Emit(OnSequenceStart(builder, NodeTag, Node.anchor,
                                 IF flow THEN "Flow" ELSE "Block"))
         /\ PushCollection(IF flow THEN "FlowSeq" ELSE "BlockSeq")
         /\ Goto(IF flow THEN "FlowSeq" ELSE "BlockSeq")
  /\ PopFront
  /\ SameDocument /\ UNCHANGED assertion

MapKind ==
  IF CompactMapHere THEN "CompactMap"
  ELSE IF Sees({"FLOW_MAP_START"}) THEN "FlowMap" ELSE "BlockMap"

MapNode ==
  /\ NodeContent /\ (Sees({"FLOW_MAP_START", "BLOCK_MAP_START"}) \/ CompactMapHere)
  /\ Emit(OnMapStart(builder, NodeTag, Node.anchor,
                     IF MapKind = "BlockMap" THEN "Block" ELSE "Flow"))
  /\ PushCollection(MapKind)
  /\ IF MapKind = "CompactMap" THEN Call("CompactMapValue") ELSE Goto(MapKind)
  /\ PopFront
  /\ SameDocument /\ UNCHANGED assertion

(* No content: nothing, or a token that belongs to a collection around. *)
EmptyNode ==
  /\ NodeContent /\ ~CompactMapHere
  /\ ~Sees({"PLAIN_SCALAR", "NON_PLAIN_SCALAR", "FLOW_SEQ_START", "BLOCK_SEQ_START",
            "FLOW_MAP_START", "BLOCK_MAP_START"})
  /\ Emit(IF QueueEmpty(scanner) \/ NodeTag = <<"?">> THEN OnNull(builder, Node.anchor)
          ELSE OnScalar(builder, NodeTag, Node.anchor, <<>>))
  /\ Return
  /\ SameDocument /\ UNCHANGED <<scanner, collections, assertion>>
----------------------------------------------------------------------------
(* HandleBlockSequence and HandleFlowSequence *)

BlockSeqLoop ==
  /\ On("BlockSeq")
  /\ \/ ~Sees({"BLOCK_ENTRY", "BLOCK_SEQ_END"}) /\ Fail
     \/ /\ Sees({"BLOCK_ENTRY"})
        /\ PopFront /\ Goto("BlockSeqEntry")
        /\ SameDocument /\ UNCHANGED <<collections, builder, assertion>>
     \/ /\ Sees({"BLOCK_SEQ_END"})
        /\ PopFront /\ PopCollection("BlockSeq")
        /\ Emit(OnSequenceEnd(builder)) /\ Return
        /\ SameDocument

BlockSeqEntry ==
  /\ On("BlockSeqEntry")
  /\ IF Sees({"BLOCK_ENTRY", "BLOCK_SEQ_END"})
     THEN Emit(OnNull(builder, NullAnchor)) /\ Goto("BlockSeq")
     ELSE Call("BlockSeq") /\ UNCHANGED builder
  /\ SameDocument /\ UNCHANGED <<scanner, collections, assertion>>

FlowSeqLoop ==
  /\ On("FlowSeq")
  /\ \/ QueueEmpty(scanner) /\ Fail
     \/ /\ Sees({"FLOW_SEQ_END"})
        /\ PopFront /\ PopCollection("FlowSeq")
        /\ Emit(OnSequenceEnd(builder)) /\ Return
        /\ SameDocument
     \/ /\ ~QueueEmpty(scanner) /\ ~Sees({"FLOW_SEQ_END"})
        /\ Call("FlowSeqNext")
        /\ SameDocument /\ UNCHANGED <<scanner, collections, builder, assertion>>

(* Mutant: the comma is not consumed. *)
FlowNextKeepsComma(pc, loop, end) ==
  /\ On(pc)
  /\ IF ~Sees({"FLOW_ENTRY", end}) THEN Fail
     ELSE Goto(loop) /\ SameDocument /\ UNCHANGED <<scanner, collections, builder, assertion>>

FlowNext(pc, loop, end) ==
  /\ On(pc)
  /\ IF ~Sees({"FLOW_ENTRY", end}) THEN Fail
     ELSE /\ IF Sees({"FLOW_ENTRY"}) THEN PopFront ELSE UNCHANGED scanner
          /\ Goto(loop)
          /\ SameDocument /\ UNCHANGED <<collections, builder, assertion>>

FlowSeqNext == FlowNext("FlowSeqNext", "FlowSeq", "FLOW_SEQ_END")
----------------------------------------------------------------------------
(* HandleBlockMap, HandleFlowMap and HandleCompactMap *)

MapEnd(kind) ==
  /\ PopCollection(kind)
  /\ Emit(OnMapEnd(builder)) /\ Return
  /\ SameDocument

(* The key at the top of the loop, absent when a value stands there. *)
MapKey(next) ==
  /\ IF Sees({"KEY"}) THEN PopFront /\ Call(next) /\ UNCHANGED builder
     ELSE Emit(OnNull(builder, NullAnchor)) /\ Goto(next) /\ UNCHANGED scanner
  /\ SameDocument /\ UNCHANGED <<collections, assertion>>

MapValue(pc, next) ==
  /\ On(pc)
  /\ IF Sees({"VALUE"}) THEN PopFront /\ Call(next) /\ UNCHANGED builder
     ELSE Emit(OnNull(builder, NullAnchor)) /\ Goto(next) /\ UNCHANGED scanner
  /\ SameDocument /\ UNCHANGED <<collections, assertion>>

BlockMapLoop ==
  /\ On("BlockMap")
  /\ \/ ~Sees({"KEY", "VALUE", "BLOCK_MAP_END"}) /\ Fail
     \/ Sees({"BLOCK_MAP_END"}) /\ PopFront /\ MapEnd("BlockMap")
     \/ Sees({"KEY", "VALUE"}) /\ MapKey("BlockMapValue")

BlockMapValue == MapValue("BlockMapValue", "BlockMap")

FlowMapLoop ==
  /\ On("FlowMap")
  /\ \/ QueueEmpty(scanner) /\ Fail
     \/ Sees({"FLOW_MAP_END"}) /\ PopFront /\ MapEnd("FlowMap")
     \/ ~QueueEmpty(scanner) /\ ~Sees({"FLOW_MAP_END"}) /\ MapKey("FlowMapValue")

FlowMapValue == MapValue("FlowMapValue", "FlowMapNext")

FlowMapNext == FlowNext("FlowMapNext", "FlowMap", "FLOW_MAP_END")

CompactMapValue == MapValue("CompactMapValue", "CompactMapEnd")

CompactMapEnd == On("CompactMapEnd") /\ UNCHANGED scanner /\ MapEnd("CompactMap")
----------------------------------------------------------------------------
ParserStep ==
  \/ Scan \/ HandleDirective \/ HandleDocument \/ HandleDocumentEnd
  \/ TooDeep \/ ValueNode \/ AliasNode \/ ParseTag \/ ParseAnchor
  \/ ScalarNode \/ SequenceNode \/ MapNode \/ EmptyNode
  \/ BlockSeqLoop \/ BlockSeqEntry \/ FlowSeqLoop \/ FlowSeqNext
  \/ BlockMapLoop \/ BlockMapValue
  \/ FlowMapLoop \/ FlowMapValue \/ FlowMapNext
  \/ CompactMapValue \/ CompactMapEnd
============================================================================
