----------------------------- MODULE Distances -----------------------------
(***************************************************************************)
(* Distances between the nodes of a graph without turns, defined without   *)
(* any algorithm of the code: the least weight of a walk.                  *)
(***************************************************************************)
EXTENDS Weights, FiniteSets

Least(weights) ==
    IF weights \subseteq {Inf} THEN Inf
    ELSE CHOOSE w \in weights \ {Inf} : \A v \in weights \ {Inf} : w <= v

\* arcs is a set of <<tail, head, weight>>.  A lightest walk visits no node
\* twice, so there are fewer arcs in it than nodes in the graph.
Distances(nodes, arcs) ==
    LET within[i \in 0 .. Cardinality(nodes) - 1] ==
            [p \in nodes \X nodes |->
               IF i = 0 THEN (IF p[1] = p[2] THEN 0 ELSE Inf)
               ELSE Least({within[i - 1][p]}
                            \cup {Add(within[i - 1][<<p[1], arc[1]>>], arc[3]) :
                                     arc \in {x \in arcs : x[2] = p[2]}})]
    IN  within[Cardinality(nodes) - 1]
=============================================================================
