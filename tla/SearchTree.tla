----------------------------- MODULE SearchTree -----------------------------
(***************************************************************************)
(* What the search algorithms of core/routing share: the query graph as    *)
(* they see it, the weight of an edge with its turn (calc_weight.go), the  *)
(* entries of a shortest path tree (spt_entry.go) and their traversal ids  *)
(* (util/traversal_mode.go).                                               *)
(*                                                                         *)
(* The graph has no loop edges: the importer splits them                   *)
(* (way_segment_parser.go, splitLoopSegments).                             *)
(***************************************************************************)
EXTENDS Weights, Sequences, FiniteSets, SequencesExt, TLC

CONSTANTS AnyEdge,   \* "no restriction" as a start or target edge
          NoEntry    \* nil

Sides == {"from", "to"}
Other(s) == IF s = "from" THEN "to" ELSE "from"

\* An edge joins a and b, with its weight from a to b and from b to a.  A turn
\* <<in, via, out>> is forbidden when it is in "restricted"; a turn back into
\* the same edge costs "uTurn".  Edge weights are at least the beeline between
\* the positions of their ends (CalcMinWeightPerDistance is a lower bound).
Beeline(q, m, n) == IF q.pos[m] > q.pos[n] THEN q.pos[m] - q.pos[n] ELSE q.pos[n] - q.pos[m]

VARIABLE query   \* the request being answered; it never changes

-----------------------------------------------------------------------------

Incident(n) == {e \in DOMAIN query.edges : n \in {query.edges[e].a, query.edges[e].b}}

AdjNode(e, n) == IF query.edges[e].a = n THEN query.edges[e].b ELSE query.edges[e].a

\* CalcEdgeWeight of e seen from base; the search towards the start (s = "to")
\* travels it in the opposite direction.
EdgeWeight(e, base, s) ==
    IF (query.edges[e].a = base) = (s = "from") THEN query.edges[e].fwd ELSE query.edges[e].bwd

TurnWeight(in, via, out) ==
    IF in = out THEN query.uTurn
    ELSE IF <<in, via, out>> \in query.restricted THEN Inf ELSE 0

\* An entry of the shortest path tree.  "edges" is the chain of edges from the
\* root, which the code follows along the parents.
NewSPTEntry(n) == [node |-> n, weight |-> 0, edges |-> << >>]

IsRoot(entry) == entry.edges = << >>

\* CalcWeightWithTurnWeight plus the weight of the path up to the parent.
calcWeight(e, parent, s) ==
    LET turn == IF IsRoot(parent) THEN 0
                ELSE IF s = "from" THEN TurnWeight(Last(parent.edges), parent.node, e)
                                   ELSE TurnWeight(e, parent.node, Last(parent.edges))
    IN  Add(Add(EdgeWeight(e, parent.node, s), turn), parent.weight)

createEntry(e, parent, s) ==
    [node |-> AdjNode(e, parent.node), weight |-> calcWeight(e, parent, s),
     edges |-> Append(parent.edges, e)]

\* Mutation: an entry is replaced by one of the same weight.
ImprovesOrEquals(entry, id, tree) ==
    entry.weight # Inf /\ (id \in DOMAIN tree => tree[id].weight >= entry.weight)

\* The entry is filed in the tree under id: it is the first or a lighter one.
Improves(entry, id, tree) ==
    entry.weight # Inf /\ (id \in DOMAIN tree => tree[id].weight > entry.weight)

\* The entry of id becomes "entry".
Filed(tree, id, entry) == [i \in DOMAIN tree \cup {id} |-> IF i = id THEN entry ELSE tree[i]]

\* CreateTraversalID: the adjacent node, or the edge with its direction of
\* travel (the edge key, for the backward search the reverse edge key).
TraversalID(e, base, s) ==
    IF ~query.edgeBased THEN AdjNode(e, base)
    ELSE <<e, IF s = "from" THEN base ELSE AdjNode(e, base)>>
=============================================================================
