------------------------------ MODULE YamlDump ------------------------------
(***************************************************************************)
(* Dump (emit.cpp): NodeEvents walks a graph of nodes and EmitFromEvents    *)
(* turns its events into calls of an emitter.  A node met more than once    *)
(* gets an anchor when it is written and an alias from then on, so that     *)
(* shared nodes stay shared and a cycle ends.                               *)
(***************************************************************************)
EXTENDS YamlEmitter, YamlBuilder

(* Setup: how often a node is met, its children being followed once. *)
RefCount(g, id) ==
  Cardinality({<<p, k>> \in {<<0, 0>>} \cup UNION {{p} \X DOMAIN g.nodes[p].kids :
                                                    p \in DOMAIN g.nodes} :
                 IF p = 0 THEN g.root = id ELSE g.nodes[p].kids[k] = id})

IsAliased(g, id) == RefCount(g, id) > 1

(* An event: its kind, the anchor (0 for none) and the node it is about. *)
Event(kind, anchor, node) == [kind |-> kind, anchor |-> anchor, node |-> node]

(* Emit: known lists the nodes that have an anchor, in its order. *)
RECURSIVE EmitNode(_, _, _)
EmitNode(g, st, id) ==
  LET node == g.nodes[id]
      aliased == IsAliased(g, id)
      known == IF aliased THEN Append(st.known, id) ELSE st.known
      anchor == IF aliased THEN Len(known) ELSE NullAnchor
      Say(s, event) == [s EXCEPT !.events = Append(@, event)]
      start == Say([st EXCEPT !.known = known], Event(node.type, anchor, node))
      kids == FoldLeft(LAMBDA s, kid : EmitNode(g, s, kid), start, node.kids)
  IN  IF aliased /\ Contains(st.known, id)
      THEN Say(st, Event("Alias", CHOOSE n \in DOMAIN st.known : st.known[n] = id, NewNode))
      ELSE CASE node.type \in {"Null", "Scalar"} -> start
             [] node.type \in {"Sequence", "Map"} -> Say(kids, Event("End", NullAnchor, node))
             [] node.type = "Undefined" -> [st EXCEPT !.known = known]

(* A node without memory (nothing was loaded) has no events. *)
NodeEvents(g) ==
  IF g.root = 0 THEN <<>>
  ELSE EmitNode(g, [events |-> <<>>, known |-> <<>>], g.root).events
----------------------------------------------------------------------------
(* emitfromevents.cpp: waiting is m_stateStack. *)

NewDumper == [emitter |-> NewEmitter, waiting |-> <<>>, assertion |-> FALSE]

(* The decimal digits of an anchor. *)
AnchorName(n) ==
  IF n < 10 THEN <<HexDigits[n + 1]>> ELSE <<HexDigits[(n \div 10) + 1], HexDigits[(n % 10) + 1]>>

BeginNode(d) ==
  LET turned == IF Last(d.waiting) = "Key" THEN "Value" ELSE "Key"
  IN  IF d.waiting = <<>> \/ Last(d.waiting) = "Entry" THEN d
      ELSE [d EXCEPT !.waiting[Len(d.waiting)] = turned]

(* Mutant: the anchor is forgotten. *)
EmitPropsNoAnchor(e, tag, anchor) ==
  IF tag \in {<<>>, <<"?">>, <<"!">>} THEN e
  ELSE WriteTag(e, [type |-> "Verbatim", prefix |-> <<>>, content |-> tag])

EmitProps(e, tag, anchor) ==
  LET f == IF tag \in {<<>>, <<"?">>, <<"!">>} THEN e
           ELSE WriteTag(e, [type |-> "Verbatim", prefix |-> <<>>, content |-> tag])
  IN  IF anchor = NullAnchor THEN f ELSE WriteAnchor(f, AnchorName(anchor))

Styled(e, style) == IF style \in {"Block", "Flow"} THEN SetLocalValue(e, style) ELSE e

Collect(d, event, type, state) ==
  LET e == Styled(EmitProps(d.emitter, event.node.tag, event.anchor), event.node.style)
  IN  [BeginNode(d) EXCEPT !.emitter = EmitBegin(e, type), !.waiting = Append(@, state)]

EndCollection(d, type, state) ==
  [d EXCEPT !.emitter = EmitEnd(@, type), !.waiting = Front(@),
            !.assertion = @ \/ Last(d.waiting) # state]

EmitEvent(d, event) ==
  LET node == event.node
      props == EmitProps(d.emitter, node.tag, event.anchor)
  IN  CASE event.kind = "Null" ->
             [BeginNode(d) EXCEPT !.emitter = WriteNull(EmitProps(@, <<>>, event.anchor))]
        [] event.kind = "Scalar" -> [BeginNode(d) EXCEPT !.emitter = WriteString(props, node.value)]
        [] event.kind = "Alias" ->
             [BeginNode(d) EXCEPT !.emitter = WriteAlias(@, AnchorName(event.anchor))]
        [] event.kind = "Sequence" -> Collect(d, event, "Seq", "Entry")
        [] event.kind = "Map" -> Collect(d, event, "Map", "Key")
        [] event.kind = "End" /\ node.type = "Sequence" -> EndCollection(d, "Seq", "Entry")
        [] event.kind = "End" /\ node.type = "Map" -> EndCollection(d, "Map", "Key")
============================================================================
