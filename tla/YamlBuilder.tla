----------------------------- MODULE YamlBuilder -----------------------------
(***************************************************************************)
(* NodeBuilder (nodebuilder.cpp): the events of a parser become a graph of  *)
(* nodes.  A graph is the sequence of its nodes in the order of their       *)
(* creation and a node is named by its index; kids are the elements of a    *)
(* sequence, or the keys and values of a map in turn.                       *)
(*                                                                         *)
(* The builder has no stack of half-built maps: m_keys holds one entry for  *)
(* each map that waits for a key or a value, and whether a node is a key    *)
(* follows from comparing its length with m_mapDepth.                       *)
(***************************************************************************)
EXTENDS Integers, Sequences, SequencesExt

NullAnchor == 0

NewBuilder ==
  [nodes |-> <<>>, root |-> 0, stack |-> <<>>, anchors |-> <<>>,
   keys |-> <<>>, mapDepth |-> 0, assertion |-> FALSE]

NewNode == [type |-> "Undefined", tag |-> <<>>, value |-> <<>>, style |-> "Default",
            kids |-> <<>>]

Top(b) == b.nodes[Last(b.stack)]

(* Mutant: only one key is expected at a time, whatever the depth. *)
PushNodeOneKey(b, id) ==
  LET needsKey == b.stack # <<>> /\ Top(b).type = "Map" /\ b.keys = <<>>
  IN  [b EXCEPT !.stack = Append(@, id),
                !.keys = IF needsKey THEN Append(@, [node |-> id, done |-> FALSE]) ELSE @]

(* Push(node): below a map with no key pending, the node is the next key. *)
PushNode(b, id) ==
  LET needsKey == /\ b.stack # <<>> /\ Top(b).type = "Map"
                  /\ Len(b.keys) < b.mapDepth
  IN  [b EXCEPT !.stack = Append(@, id),
                !.keys = IF needsKey THEN Append(@, [node |-> id, done |-> FALSE]) ELSE @]

(* Push(mark, anchor): the anchors arrive in the order they were given out. *)
PushNew(b, anchor, node) ==
  LET id == Len(b.nodes) + 1
      c == [b EXCEPT !.nodes = Append(@, NewNode)]
      d == IF anchor = NullAnchor THEN c
           ELSE [c EXCEPT !.anchors = Append(@, id),
                          !.assertion = @ \/ anchor # Len(b.anchors) + 1]
      e == PushNode(d, id)
  IN  [e EXCEPT !.nodes[id] = node]

Pop(b) ==
  LET id == Last(b.stack)
      rest == [b EXCEPT !.stack = Front(@)]
      parent == Last(rest.stack)
      type == b.nodes[parent].type
      key == Last(b.keys)
  IN  CASE b.stack = <<>> -> [b EXCEPT !.assertion = TRUE]
        [] Len(b.stack) = 1 -> [rest EXCEPT !.root = id]
        [] Len(b.stack) > 1 /\ type = "Sequence" ->
             [rest EXCEPT !.nodes[parent].kids = Append(@, id)]
        [] Len(b.stack) > 1 /\ type = "Map" /\ b.keys # <<>> ->
             IF key.done
             THEN [rest EXCEPT !.nodes[parent].kids = @ \o <<key.node, id>>,
                               !.keys = Front(@)]
             ELSE [rest EXCEPT !.keys[Len(b.keys)].done = TRUE]
        [] OTHER -> [rest EXCEPT !.assertion = TRUE]

OnNull(b, anchor) == Pop(PushNew(b, anchor, [NewNode EXCEPT !.type = "Null"]))

OnAlias(b, anchor) == Pop(PushNode(b, b.anchors[anchor]))

OnScalar(b, tag, anchor, value) ==
  Pop(PushNew(b, anchor,
              [NewNode EXCEPT !.type = "Scalar", !.tag = tag, !.value = value]))

OnSequenceStart(b, tag, anchor, style) ==
  PushNew(b, anchor, [NewNode EXCEPT !.type = "Sequence", !.tag = tag, !.style = style])

OnSequenceEnd(b) == Pop(b)

OnMapStart(b, tag, anchor, style) ==
  [PushNew(b, anchor, [NewNode EXCEPT !.type = "Map", !.tag = tag, !.style = style])
     EXCEPT !.mapDepth = @ + 1]

OnMapEnd(b) ==
  IF b.mapDepth = 0 THEN [b EXCEPT !.assertion = TRUE]
  ELSE Pop([b EXCEPT !.mapDepth = @ - 1])
============================================================================
