---------------------------- MODULE CausalGraph ----------------------------
(***************************************************************************)
(* The graph of typed edges between vectors (graph/causal_graph.hpp): two  *)
(* maps that hold every edge, by its source and by its target. Weights,    *)
(* times and repeated edges are left out, and so is the list that only     *)
(* counts edges for the statistics.                                        *)
(***************************************************************************)
EXTENDS Naturals, FiniteSets

CONSTANT Vertex     \* vector ids

Edge(src, tgt, type) == [src |-> src, tgt |-> tgt, type |-> type]

EmptyGraph == [out |-> [id \in Vertex |-> {}], in |-> [id \in Vertex |-> {}]]

add_edge(g, e) == [g EXCEPT !.out[e.src] = @ \cup {e}, !.in[e.tgt] = @ \cup {e}]

\* Mutant: the edges that point to the node stay with their sources.
remove_node_Half(g, id) == [g EXCEPT !.out[id] = {}, !.in[id] = {}]

remove_node(g, id) ==
    [out |-> [k \in Vertex |-> IF k = id THEN {} ELSE {e \in g.out[k] : e.tgt # id}],
     in  |-> [k \in Vertex |-> IF k = id THEN {} ELSE {e \in g.in[k] : e.src # id}]]

has_edge(g, src, tgt, type) == Edge(src, tgt, type) \in g.out[src]

\* Newer versions: SUPERSEDED_BY out-edges and UPDATES in-edges.
find_superseding(g, id) ==
    {e.tgt : e \in {x \in g.out[id] : x.type = "SUPERSEDED_BY"}}
        \cup {e.src : e \in {x \in g.in[id] : x.type = "UPDATES"}}

Targets(g, nodes) == {e.tgt : e \in UNION {g.out[n] : n \in nodes}}

\* Breadth-first search, level by level, from the nodes the level before has discovered.
get_neighbours(g, start, hops) ==
    LET search[h \in 0..hops] ==
            IF h = 0 THEN [visited |-> {start}, frontier |-> {start}]
            ELSE LET next == Targets(g, search[h - 1].frontier) \ search[h - 1].visited
                 IN  [visited |-> search[h - 1].visited \cup next, frontier |-> next]
    IN  search[hops].visited \ {start}

\* Every edge is in both maps or in neither.
Mirrored(g) ==
    LET edges == UNION {g.out[id] : id \in Vertex}
    IN  \A id \in Vertex :
            /\ g.out[id] = {e \in edges : e.src = id}
            /\ g.in[id] = {e \in edges : e.tgt = id}

\* The reference: what walks of at most that many edges lead to.
Within(g, start, hops) ==
    LET walk[h \in 0..hops] == IF h = 0 THEN {start} ELSE Targets(g, walk[h - 1])
    IN  (UNION {walk[h] : h \in 1..hops}) \ {start}
=============================================================================
