----------------------------- MODULE QueryGraph -----------------------------
(***************************************************************************)
(* The graph of one request (core/routing/querygraph): the base graph in   *)
(* which every edge that a point was snapped to is split at a virtual node *)
(* there.  Virtual nodes and edges are numbered on from those of the base  *)
(* graph, which is not changed.                                            *)
(*                                                                         *)
(* An overlay o is a record: virtualNodes, their points; closestEdges, the *)
(* edge each of them splits; virtualEdges, four states for each of them,   *)
(* in the order BaseSnap, SnapBase, SnapAdj, AdjSnap.                      *)
(***************************************************************************)
EXTENDS LocationIndex

BaseSnap == 0
SnapBase == 1
SnapAdj == 2
AdjSnap == 3

IsVirtualNode(net, n) == n >= GetNodes(net)
IsVirtualEdge(net, e) == e >= GetEdges(net)

VirtualEdge(o, i) == o.virtualEdges[i + 1]
VirtualNodes(net, o) == {GetNodes(net) + i - 1 : i \in DOMAIN o.virtualNodes}

\* ExtendedNodeAccess
NodePoint(net, o, n) ==
    IF IsVirtualNode(net, n) THEN o.virtualNodes[n - GetNodes(net) + 1] ELSE net.nodes[n]

----------------------------------------------------------------------------
\* QueryOverlayBuilder

\* Mutation of FromLesserEnd: a snap at a pillar is treated like one between two.
FromLesserEndAlike(net, snap) ==
    IF snap.closestEdge.baseNode <= snap.closestEdge.adjNode THEN snap
    ELSE [snap EXCEPT !.closestEdge = GetEdgeIteratorStateForKey(net, ReverseEdgeKey(@.edgeKey)),
                      !.wayIndex = Len(snap.closestEdge.points) - @ - 2]

\* A snap to an edge is seen from the lesser of the edge's ends.
FromLesserEnd(net, snap) ==
    IF snap.closestEdge.baseNode <= snap.closestEdge.adjNode THEN snap
    ELSE [snap EXCEPT !.closestEdge = GetEdgeIteratorStateForKey(net, ReverseEdgeKey(@.edgeKey)),
                      !.wayIndex = Len(snap.closestEdge.points) - @
                                   - (IF snap.position = "pillar" THEN 1 ELSE 2)]

\* The snaps on an edge that are not at a tower, from its base to its end.
SnapsAlong(snaps, e) ==
    LET DistanceToPillar(s) == NormDist(s.closestEdge.points[s.wayIndex + 1], s.point)
        on == {i \in DOMAIN snaps : snaps[i].position # "tower" /\ Edge(snaps[i].closestEdge) = e}
        Before(i, j) ==
            LET s == snaps[i]  t == snaps[j]
            IN \/ s.wayIndex < t.wayIndex
               \/ /\ s.wayIndex = t.wayIndex
                  /\ \/ DistanceToPillar(s) < DistanceToPillar(t)
                     \/ DistanceToPillar(s) = DistanceToPillar(t) /\ i < j
    IN SetToSortSeq(on, Before)

\* A virtual edge in both directions, from prev, where the last one ended, to
\* a point behind the pillar wayIndex, or at it.
createEdges(net, o, closest, prev, point, wayIndex, isPillar, node) ==
    LET points == <<prev.point>> \o SubSeq(closest.points, prev.wayIndex + 1, wayIndex + 1)
                  \o (IF isPillar THEN <<>> ELSE <<point>>)
        edge == [edgeKey |-> 2 * (GetEdges(net) + (Len(o.virtualEdges) \div 2)),
                 originalEdgeKey |-> closest.edgeKey,
                 baseNode |-> prev.node, adjNode |-> node, points |-> points,
                 distance |-> PointListDistance(points), reverse |-> closest.reverse]
        reverseEdge == [edge EXCEPT !.edgeKey = @ + 1, !.originalEdgeKey = ReverseEdgeKey(@),
                                    !.baseNode = node, !.adjNode = prev.node,
                                    !.points = Reverse(@), !.reverse = ~ @]
    IN [o EXCEPT !.virtualEdges = @ \o <<edge, reverseEdge>>]

\* A snap at the place of the one before shares its node.
mergeSnap(snaps, i, prev) ==
    [snaps EXCEPT ![i].closestNode = prev.node, ![i].point = prev.point,
                  ![i].wayIndex = IF prev.snap = 0 THEN 0 ELSE snaps[prev.snap].wayIndex,
                  ![i].position = IF prev.snap = 0 THEN "tower" ELSE snaps[prev.snap].position,
                  ![i].queryDistance = <<Dist(prev.point, snaps[i].queryPoint), 1>>]

\* A node with the edge to it; between two nodes of an edge the two states of
\* that edge are repeated, so that each node has four.
addVirtualNode(net, acc, i) ==
    LET snap == acc.snaps[i]
        node == GetNodes(net) + Len(acc.o.virtualNodes)
        o == createEdges(net, acc.o, snap.closestEdge, acc.prev, snap.point, snap.wayIndex,
                         snap.position = "pillar", node)
    IN [o |-> [o EXCEPT !.closestEdges = Append(@, Edge(snap.closestEdge)),
                        !.virtualNodes = Append(@, snap.point),
                        !.virtualEdges = IF acc.prev.added THEN @ \o SubSeq(@, Len(@) - 1, Len(@)) ELSE @],
        snaps |-> [acc.snaps EXCEPT ![i].closestNode = node],
        prev |-> [point |-> snap.point, wayIndex |-> snap.wayIndex + 1, snap |-> i, added |-> TRUE,
                  node |-> node]]

splitEdgeAt(net, acc, i) ==
    IF ConsiderEqual(acc.prev.point, acc.snaps[i].point)
    THEN [acc EXCEPT !.snaps = mergeSnap(acc.snaps, i, acc.prev), !.prev.snap = i]
    ELSE addVirtualNode(net, acc, i)

\* The last virtual edge, if any, leads to the end of the edge that is split.
ToEnd(net, split, closest) ==
    IF split.prev.added
    THEN [split EXCEPT !.o = createEdges(net, @, closest, split.prev, Last(closest.points),
                                         Len(closest.points) - 2, FALSE, closest.adjNode)]
    ELSE split

splitEdgeAlong(net, acc, closest, along) ==
    LET first == [point |-> closest.points[1], wayIndex |-> 1, snap |-> 0, added |-> FALSE,
                  node |-> closest.baseNode]
    IN ToEnd(net, FoldLeft(LAMBDA a, i : splitEdgeAt(net, a, i),
                           [o |-> acc.o, snaps |-> acc.snaps, prev |-> first], along), closest)

splitEdge(net, acc, e) ==
    LET Split(along) == splitEdgeAlong(net, acc, acc.snaps[along[1]].closestEdge, along)
    IN Split(SnapsAlong(acc.snaps, e))

newQueryOverlay == [virtualNodes |-> <<>>, closestEdges |-> <<>>, virtualEdges |-> <<>>]

\* buildVirtualEdges: the overlay, and the snaps with the nodes they are at.
BuildQueryOverlay(net, snaps) ==
    LET turned == [i \in DOMAIN snaps |-> IF snaps[i].position = "tower" THEN snaps[i]
                                          ELSE FromLesserEnd(net, snaps[i])]
        edges == {Edge(snaps[i].closestEdge) : i \in {j \in DOMAIN snaps : snaps[j].position # "tower"}}
    IN FoldLeft(LAMBDA acc, e : splitEdge(net, acc, e),
                [o |-> newQueryOverlay, snaps |-> turned],
                SetToSortSeq(edges, LAMBDA d, e : d < e))

----------------------------------------------------------------------------
\* EdgeChangeBuilder: the edges that real nodes gain and lose.

AdditionalEdges(net, o, node) ==
    {VirtualEdge(o, 4 * i + BaseSnap) :
        i \in {j \in 0 .. Len(o.closestEdges) - 1 : VirtualEdge(o, 4 * j + SnapBase).adjNode = node}}
    \cup {VirtualEdge(o, 4 * i + AdjSnap) :
        i \in {j \in 0 .. Len(o.closestEdges) - 1 : VirtualEdge(o, 4 * j + SnapAdj).adjNode = node}}

RemovedEdges(net, o, node) ==
    {o.closestEdges[state.adjNode - GetNodes(net) + 1] : state \in AdditionalEdges(net, o, node)}

\* QueryGraph: the states that an explorer yields.
EdgesAt(net, o, node) ==
    IF IsVirtualNode(net, node)
    THEN LET i == node - GetNodes(net) IN {VirtualEdge(o, 4 * i + SnapBase), VirtualEdge(o, 4 * i + SnapAdj)}
    ELSE AdditionalEdges(net, o, node)
         \cup {state \in EdgesAtNode(net, node) : Edge(state) \notin RemovedEdges(net, o, node)}

\* The state of an edge that ends at the node.
GetEdgeIteratorState(net, o, e, adjNode) ==
    LET i == 2 * (e - GetEdges(net))
        key == CHOOSE k \in {2 * e, 2 * e + 1} : GetEdgeIteratorStateForKey(net, k).adjNode = adjNode
    IN IF ~ IsVirtualEdge(net, e) THEN GetEdgeIteratorStateForKey(net, key)
       ELSE IF VirtualEdge(o, i).adjNode = adjNode THEN VirtualEdge(o, i)
       ELSE VirtualEdge(o, i + 1)

----------------------------------------------------------------------------
\* QueryGraphWeighting: the weight of turns at real nodes is that of the edges
\* that were split.

getOriginalEdge(net, o, e) == o.closestEdges[((e - GetEdges(net)) \div 2) + 1]

ForEdgeAndCopiesOfEdge(net, node, e) ==
    IF net.edges[e].geo = 0 THEN {e}
    ELSE {f \in DOMAIN net.edges : node \in {net.edges[f].a, net.edges[f].b}
                                   /\ net.edges[f].geo = net.edges[e].geo}

MinWeight(weights) == IF weights \subseteq {Inf} THEN Inf ELSE Min(weights \ {Inf})

CalcTurnWeightOnQueryGraph(net, o, in, via, out) ==
    LET Originals(e) == IF IsVirtualEdge(net, e)
                        THEN ForEdgeAndCopiesOfEdge(net, via, getOriginalEdge(net, o, e)) ELSE {e}
    IN IF IsVirtualNode(net, via) THEN (IF in = out THEN Inf ELSE 0)
       ELSE MinWeight({CalcTurnWeight(net, p, via, q) : p \in Originals(in), q \in Originals(out)})

----------------------------------------------------------------------------
\* What a query graph is to be.

\* The states of the query graph in the order they follow from node along an edge.
RECURSIVE Chain(_, _, _, _)
Chain(net, o, node, key) ==
    LET From(state) == <<state>> \o (IF IsVirtualNode(net, state.adjNode)
                                     THEN Chain(net, o, state.adjNode, key) ELSE <<>>)
    IN From(CHOOSE s \in EdgesAt(net, o, node) : s.originalEdgeKey = key)

\* The points of states that follow each other.
JoinedPoints(states) ==
    <<Head(Head(states).points)>> \o FlattenSeq([i \in DOMAIN states |-> Tail(states[i].points)])

\* Following an edge through the query graph passes all its points, and
\* besides them only virtual nodes.
KeepsEdge(net, o, key) ==
    LET split == {GetNodes(net) + i - 1 : i \in {j \in DOMAIN o.closestEdges :
                                                   o.closestEdges[j] = GetEdgeFromEdgeKey(key)}}
        Kept(state, chain) ==
            /\ Last(chain).adjNode = state.adjNode
            /\ {chain[i].adjNode : i \in 1 .. Len(chain) - 1} = split
            /\ Len(chain) = Cardinality(split) + 1
            /\ SelectSeq(JoinedPoints(chain), LAMBDA p : p \in Range(state.points)) = state.points
            /\ \A i \in DOMAIN chain :
                  (CalcEdgeWeight(net, chain[i]) = Inf) = (CalcEdgeWeight(net, state) = Inf)
        Followed(state) == Kept(state, Chain(net, o, state.baseNode, key))
    IN Followed(GetEdgeIteratorStateForKey(net, key))

\* Every state at a node begins there, is listed at its other end in reverse,
\* and is found by its number.
KeepsNode(net, o, node) ==
    \A state \in EdgesAt(net, o, node) :
        /\ state.baseNode = node
        /\ Head(state.points) = NodePoint(net, o, node)
        /\ Last(state.points) = NodePoint(net, o, state.adjNode)
        /\ \E other \in EdgesAt(net, o, state.adjNode) :
              other.adjNode = node /\ other.edgeKey = ReverseEdgeKey(state.edgeKey)
        /\ GetEdgeIteratorState(net, o, Edge(state), state.adjNode) = state

\* A turn at a node of the base graph weighs what the turn of the split edges
\* does, or of the copies of one that was split.
KeepsTurns(net, o, node) ==
    \A s, t \in EdgesAt(net, o, node) :
        LET Of(state) ==
                LET e == GetEdgeFromEdgeKey(state.originalEdgeKey)
                IN IF Edge(state) = e THEN {e} ELSE ForEdgeAndCopiesOfEdge(net, node, e)
        IN CalcTurnWeightOnQueryGraph(net, o, Edge(s), node, Edge(t))
             = MinWeight({CalcTurnWeight(net, p, node, q) : p \in Of(s), q \in Of(t)})
=============================================================================
