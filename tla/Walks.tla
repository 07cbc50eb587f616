------------------------------- MODULE Walks -------------------------------
(***************************************************************************)
(* What a routing algorithm is to compute, defined without reference to    *)
(* any algorithm: the least weight of a walk from the start to the goal of *)
(* a query, over all walks that respect one-way edges, forbidden turns and *)
(* the prescribed first and last edge.  A query is a record as BidirSearch *)
(* describes it.                                                           *)
(***************************************************************************)
EXTENDS Integers, Sequences, FiniteSets, SequencesExt

CONSTANTS Inf, AnyEdge

\* An arc is an edge travelled from one of its ends.
TailNode(arc) == arc[2]
HeadNode(q, arc) == LET e == q.edges[arc[1]] IN IF e.a = TailNode(arc) THEN e.b ELSE e.a
ArcWeight(q, arc) ==
    LET e == q.edges[arc[1]] IN IF e.a = TailNode(arc) THEN e.fwd ELSE e.bwd

Arcs(q) ==
    {arc \in UNION {{<<e, q.edges[e].a>>, <<e, q.edges[e].b>>} : e \in DOMAIN q.edges} :
        ArcWeight(q, arc) # Inf}

Turn(q, in, out) ==
    IF in[1] = out[1] THEN q.uTurn
    ELSE IF <<in[1], TailNode(out), out[1]>> \in q.restricted THEN Inf ELSE 0

Follows(q, out, in) == TailNode(out) = HeadNode(q, in) /\ Turn(q, in, out) # Inf

IsFirst(q, arc) == TailNode(arc) = q.start["from"] /\ q.only["from"] \in {AnyEdge, arc[1]}
IsFinal(q, arc) == HeadNode(q, arc) = q.start["to"] /\ q.only["to"] \in {AnyEdge, arc[1]}

\* Pairs of an arc and the weight of a walk that ends with it: the lightest for
\* each arc, among the walks of at most i arcs.
Lightest(ends) == {x \in ends : \A y \in ends : y[1] = x[1] => x[2] <= y[2]}

LightestEnds(q) ==
    LET arcs == Arcs(q)
        one == {<<arc, ArcWeight(q, arc)>> : arc \in {x \in arcs : IsFirst(q, x)}}
        ends[i \in 1 .. Cardinality(arcs)] ==
            IF i = 1 THEN one
            ELSE LET shorter == ends[i - 1]
                     After(x) == {<<out, x[2] + Turn(q, x[1], out) + ArcWeight(q, out)>> :
                                      out \in {arc \in arcs : Follows(q, arc, x[1])}}
                     longer == UNION {After(x) : x \in shorter}
                 IN  Lightest(shorter \cup longer)
    IN  IF arcs = {} THEN {} ELSE ends[Cardinality(arcs)]

Distance(q) ==
    IF q.start["from"] = q.start["to"] /\ q.only = [s \in {"from", "to"} |-> AnyEdge] THEN 0
    ELSE LET weights == {x[2] : x \in {y \in LightestEnds(q) : IsFinal(q, y[1])}}
         IN  IF weights = {} THEN Inf ELSE CHOOSE w \in weights : \A v \in weights : w <= v

\* The arcs of a sequence of edges followed from node n; << >> is followed to n.
Follow(q, n, edges) ==
    LET walk[i \in 0 .. Len(edges)] ==
            IF i = 0 THEN [at |-> n, arcs |-> << >>]
            ELSE LET before == walk[i - 1]
                     e == q.edges[edges[i]]
                 IN  [at |-> IF e.a = before.at THEN e.b ELSE e.a,
                      arcs |-> Append(before.arcs, <<edges[i], before.at>>)]
    IN  walk[Len(edges)]

\* edges is a walk of the query with exactly this weight.
IsWalk(q, edges, weight) ==
    LET walk == Follow(q, q.start["from"], edges)
        n == Len(edges)
        total[i \in 0 .. n] ==
            IF i = 0 THEN 0
            ELSE total[i - 1] + ArcWeight(q, walk.arcs[i])
                   + (IF i = 1 THEN 0 ELSE Turn(q, walk.arcs[i - 1], walk.arcs[i]))
    IN  /\ walk.at = q.start["to"]
        /\ \A i \in 1 .. n : walk.arcs[i] \in Arcs(q)
        /\ \A i \in 1 .. (n - 1) : Follows(q, walk.arcs[i + 1], walk.arcs[i])
        /\ n > 0 => IsFirst(q, walk.arcs[1]) /\ IsFinal(q, walk.arcs[n])
        /\ total[n] = weight
=============================================================================
