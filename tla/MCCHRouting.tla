---------------------------- MODULE MCCHRouting ----------------------------
(***************************************************************************)
(* CHRouting on small graphs.                                              *)
(***************************************************************************)
EXTENDS CHRouting

Edge(a, b, fwd, bwd) == [a |-> a, b |-> b, fwd |-> fwd, bwd |-> bwd]
Road(a, b, w) == Edge(a, b, w, w)

\* Two routes from 0 to 1, by 2 and by 3, and a road that joins them.
Detour(w, oneway) ==
    [nodes |-> 0 .. 3,
     edges |-> [e \in 1 .. 5 |->
        LET ends == <<<<0, 2>>, <<2, 1>>, <<0, 3>>, <<3, 1>>, <<2, 3>>>>[e]
        IN  Edge(ends[1], ends[2], w[e], IF e \in oneway THEN Inf ELSE w[e])]]

Detours ==
    {Detour(w, oneway) : w \in {v \in [1 .. 5 -> {1, 3}] : v[1] = 1 \/ v[4] = 3},
                         oneway \in {{}, {2, 5}}}

\* A line of four nodes whose middle is two parallel edges, each the lighter
\* one in one direction.
Parallel(w) ==
    [nodes |-> 0 .. 3, edges |-> <<Road(0, 1, 1), Edge(1, 2, 1, w), Edge(1, 2, 3, 1), Road(2, 3, 1)>>]

\* A ring of five nodes: shortcuts of shortcuts.
Ring(w) ==
    [nodes |-> 0 .. 4,
     edges |-> <<Road(0, 1, 1), Road(1, 2, 1), Road(2, 3, 1), Road(3, 4, 1), Edge(4, 0, w, 4)>>]

Asked == {Detour(w, {2, 5}) : w \in {<<1, 1, 1, 3, 1>>, <<3, 1, 1, 5, 1>>, <<1, 3, 3, 1, 1>>}}
           \cup {Parallel(3), Ring(4)}

AllGraphs == Detours \cup Asked \cup {Parallel(1), Ring(1)}

AllRequests ==
    UNION {[graph : {g}, from : {0, 2}, to : g.nodes, stall : BOOLEAN] : g \in Asked}
=============================================================================
