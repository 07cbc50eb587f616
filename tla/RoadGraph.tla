------------------------------ MODULE RoadGraph ------------------------------
(***************************************************************************)
(* The imported road network as a request reads it: edge states over the   *)
(* base graph and the weighting of a profile.                              *)
(*                                                                         *)
(* net is a record: nodes, a point for each node; edges, for each edge its *)
(* ends a and b, the pillars from a to b, the geometry they are stored at  *)
(* (0 for none, shared by copies of an edge) and the time a unit of length *)
(* takes forwards and backwards, or Inf; the bounds; the turns that are    *)
(* restricted and the cost of a U-turn; the edges marked as subnetwork.    *)
(* Nodes and edges are numbered from 0.                                    *)
(*                                                                         *)
(* An edge state is an edge in one of its directions.  edgeKey is twice    *)
(* the edge's number, plus one against the direction it is stored in.      *)
(***************************************************************************)
EXTENDS Weights, Geometry

GetNodes(net) == Cardinality(DOMAIN net.nodes)
GetEdges(net) == Cardinality(DOMAIN net.edges)

GetEdgeFromEdgeKey(key) == key \div 2
ReverseEdgeKey(key) == IF key % 2 = 0 THEN key + 1 ELSE key - 1
IsReverse(key) == key % 2 = 1

FullGeometry(net, e) ==
    <<net.nodes[net.edges[e].a]>> \o net.edges[e].pillars \o <<net.nodes[net.edges[e].b]>>

GetEdgeIteratorStateForKey(net, key) ==
    LET e == GetEdgeFromEdgeKey(key)
        points == FullGeometry(net, e)
    IN [edgeKey |-> key, originalEdgeKey |-> key,
        baseNode |-> IF IsReverse(key) THEN net.edges[e].b ELSE net.edges[e].a,
        adjNode |-> IF IsReverse(key) THEN net.edges[e].a ELSE net.edges[e].b,
        points |-> IF IsReverse(key) THEN Reverse(points) ELSE points,
        distance |-> PointListDistance(points),
        reverse |-> IsReverse(key)]

Edge(state) == GetEdgeFromEdgeKey(state.edgeKey)

\* The states an explorer yields at a node; no edge is a loop.
EdgesAtNode(net, n) ==
    {state \in {GetEdgeIteratorStateForKey(net, key) : key \in 0 .. 2 * GetEdges(net) - 1} :
        state.baseNode = n}

----------------------------------------------------------------------------
\* The weighting: edges of subnetworks have no priority.

CalcEdgeWeight(net, state) ==
    LET e == GetEdgeFromEdgeKey(state.originalEdgeKey)
        time == IF state.reverse THEN net.edges[e].bwd ELSE net.edges[e].fwd
    IN IF e \in net.marked \/ time = Inf THEN Inf ELSE state.distance * time

\* DefaultTurnCostProvider, or none.
CalcTurnWeight(net, in, via, out) ==
    IF in = out THEN net.uTurn ELSE IF <<in, via, out>> \in net.restricted THEN Inf ELSE 0

CalcWeightWithTurnWeight(net, state, prevEdge) ==
    Add(CalcEdgeWeight(net, state), CalcTurnWeight(net, prevEdge, state.baseNode, Edge(state)))

\* The filter for snapping, DefaultSnapFilter.
AcceptsSnap(net, state) ==
    /\ Edge(state) \notin net.marked
    /\ \/ CalcEdgeWeight(net, state) # Inf
       \/ CalcEdgeWeight(net, [state EXCEPT !.reverse = ~ @]) # Inf
=============================================================================
