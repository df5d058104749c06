----------------------------- MODULE FrameTopology -----------------------------
(* The graph of the frame graph (core/graph/directed_graph.hpp): a dense list  *)
(* of vertices, and for each vertex the lists of its edges, in the order the   *)
(* code keeps them in.  A vertex is a node or a pin of an instance of a        *)
(* template: <<subgraph, name>>.                                               *)
EXTENDS Integers, Sequences, SequencesExt

CONSTANT Templates  \* name |-> [nodes, pins, edges, inputs, outputs, bound]

(* All pins: name |-> [name, node, kind]; names are those of one template only. *)
PinDesc ==
  [p \in UNION {{d.name : d \in ToSet(Templates[t].pins)} : t \in DOMAIN Templates} |->
     CHOOSE d \in UNION {ToSet(Templates[t].pins) : t \in DOMAIN Templates} : d.name = p]

IsPin(v) == v[2] \in DOMAIN PinDesc
IsSink(v) == PinDesc[v[2]].kind = "sink"
NodeOf(p) == <<p[1], PinDesc[p[2]].node>>

EmptyGraph == [vertices |-> << >>, in |-> [v \in {} |-> << >>], out |-> [v \in {} |-> << >>]]

(* erase_unordered: the last element takes the place of the erased one. *)
EraseUnordered(s, x) ==
  [k \in 1..(Len(s) - 1) |-> IF s[k] = x THEN Last(s) ELSE s[k]]

has_edge(g, v, w) == Contains(g.out[v], w)
add_edge(g, v, w) == [g EXCEPT !.out[v] = Append(@, w), !.in[w] = Append(@, v)]
remove_edge(g, v, w) == [g EXCEPT !.out[v] = EraseUnordered(@, w), !.in[w] = EraseUnordered(@, v)]

add_vertices(g, vs) ==
  [vertices |-> g.vertices \o vs,
   in  |-> [v \in DOMAIN g.in \cup ToSet(vs) |-> IF v \in DOMAIN g.in THEN g.in[v] ELSE << >>],
   out |-> [v \in DOMAIN g.out \cup ToSet(vs) |-> IF v \in DOMAIN g.out THEN g.out[v] ELSE << >>]]

(* A vertex with all of its edges. *)
remove_vertex(g, v) ==
  LET h == FoldLeft(LAMBDA a, u : remove_edge(a, u, v),
                    FoldLeft(LAMBDA a, w : remove_edge(a, v, w), g, g.out[v]), g.in[v])
  IN  [vertices |-> EraseUnordered(h.vertices, v),
       in  |-> [u \in DOMAIN h.in \ {v} |-> h.in[u]],
       out |-> [u \in DOMAIN h.out \ {v} |-> h.out[u]]]

(* frame_graph_template::connect and frame_graph::connect: an edge between the  *)
(* pins, and one between their nodes unless it is there.                        *)
connect_pins(g, p, q) ==
  LET h == add_edge(g, p, q)
  IN  IF has_edge(h, NodeOf(p), NodeOf(q)) THEN h ELSE add_edge(h, NodeOf(p), NodeOf(q))

PinsOfNode(t, n) == SelectSeq(Templates[t].pins, LAMBDA d : d.node = n)

(* The vertices of template t as instance i, in the order of add_node. *)
TemplateVertices(i, t) ==
  FlattenSeq([k \in DOMAIN Templates[t].nodes |->
    LET n == Templates[t].nodes[k]
    IN  << <<i, n>> >> \o [j \in DOMAIN PinsOfNode(t, n) |-> <<i, PinsOfNode(t, n)[j].name>>]])

instantiate_template(g, i, t) ==
  LET vs    == TemplateVertices(i, t)
      owned == FoldLeft(LAMBDA a, v : IF IsPin(v) THEN add_edge(a, NodeOf(v), v) ELSE a,
                        add_vertices(g, vs), vs)
  IN  FoldLeft(LAMBDA a, e : connect_pins(a, <<i, e[1]>>, <<i, e[2]>>), owned, Templates[t].edges)

(* dfs_visit_template, over incoming edges and in post order. *)
RECURSIVE Visit(_, _, _)
Visit(g, order, v) ==
  IF Contains(order, v) THEN order
  ELSE Append(FoldLeft(LAMBDA a, u : Visit(g, a, u), order, g.in[v]), v)

PostOrder(g) == FoldLeft(LAMBDA a, v : Visit(g, a, v), << >>, g.vertices)

(* mark_active_nodes: what is reached from `nodes` over incoming edges. *)
RECURSIVE MarkActive(_, _)
MarkActive(g, nodes) ==
  LET next == nodes \cup {u \in UNION {ToSet(g.in[v]) : v \in nodes} : ~IsPin(u)}
  IN  IF next = nodes THEN nodes ELSE MarkActive(g, next)
=============================================================================
