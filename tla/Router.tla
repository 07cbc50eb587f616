------------------------------- MODULE Router -------------------------------
(***************************************************************************)
(* From an imported network to the answer of a request (core/graphhopper   *)
(* and core/routing/router): small subnetworks are marked, the location    *)
(* index is built, and then each request is checked, its points are        *)
(* snapped, the query graph is built, a path is searched for each leg and  *)
(* the legs are joined and simplified.                                     *)
(*                                                                         *)
(* The search itself is BidirSearch; here a leg is any path of least       *)
(* weight.  Networks with turn costs get as far as their query graph.      *)
(***************************************************************************)
EXTENDS Subnetworks, QueryGraph

CONSTANTS
    Configurations,       \* imported networks and the least size of one that is not marked
    Requests,
    Profiles,             \* the profiles configured
    SimplifyResponse,
    WayPointMaxDistance   \* squared, a fraction

VARIABLES
    phase,
    net,
    minNetworkSize,
    ccs,        \* what was found about its components
    ints,       \* the location index
    request,
    snaps,
    overlay,
    paths,      \* of the legs so far
    response

vars == <<phase, net, minNetworkSize, ccs, ints, request, snaps, overlay, paths, response>>

Info == CreateIndexStructureInfo(net.bounds)
HasTurnCosts == net.restricted # {} \/ net.uTurn # 0

None == <<>>
Error(name) == [error |-> name]

----------------------------------------------------------------------------
Init ==
    /\ phase = "imported"
    /\ \E c \in Configurations : net = c.net /\ minNetworkSize = c.minNetworkSize
    /\ ccs = None /\ ints = None /\ request = None
    /\ snaps = <<>> /\ overlay = None /\ paths = <<>> /\ response = None

\* cleanUp
PrepareSubnetworks ==
    /\ phase = "imported"
    /\ ccs' = FindComponents(net)
    /\ net' = DoWork(net, minNetworkSize)
    /\ phase' = "marked"
    /\ UNCHANGED <<minNetworkSize, ints, request, snaps, overlay, paths, response>>

PrepareLocationIndex ==
    /\ phase = "marked"
    /\ ints' = PrepareIndex(net, Info)
    /\ phase' = "ready"
    /\ UNCHANGED <<net, minNetworkSize, ccs, request, snaps, overlay, paths, response>>

----------------------------------------------------------------------------
InBounds(bounds, p) ==
    Lat(p) \in bounds[1] .. bounds[2] /\ Lon(p) \in bounds[3] .. bounds[4]

PointErrors(bounds, points) ==
    [i \in DOMAIN points |-> IF points[i] = NaN THEN "null"
                             ELSE IF ~ InBounds(bounds, points[i]) THEN "out of bounds" ELSE "none"]

NoneOrAll(list, points) == list = <<>> \/ Len(list) = Len(points)
IsAzimuthValue(h) == h = NaN \/ h \in 0 .. 359

\* What is wrong with a request, in the order of the checks.
Errors(bounds, r) ==
    LET checks == <<[fails |-> r.legacy, name |-> "legacy parameter"],
                    [fails |-> r.points = <<>>, name |-> "no points"],
                    [fails |-> ~ NoneOrAll(r.headings, r.points) /\ Len(r.headings) > 1, name |-> "headings"],
                    [fails |-> \E i \in DOMAIN r.headings : ~ IsAzimuthValue(r.headings[i]), name |-> "heading"],
                    [fails |-> ~ NoneOrAll(r.pointHints, r.points), name |-> "point hints"],
                    [fails |-> ~ NoneOrAll(r.curbsides, r.points), name |-> "curbsides"],
                    [fails |-> r.blockArea, name |-> "block area"]>>
        failed == SelectSeq(checks, LAMBDA c : c.fails)
    IN [i \in DOMAIN failed |-> failed[i].name]
       \o SelectSeq(PointErrors(bounds, r.points), LAMBDA e : e # "none")
       \o (IF r.profile \in Profiles THEN <<>> ELSE <<"profile">>)

Respond(r) == response' = r /\ phase' = "answered"

Receive ==
    /\ phase = "ready"
    /\ \E r \in Requests :
          LET errors == Errors(net.bounds, r)
          IN /\ request' = r
             /\ IF errors = <<>> THEN phase' = "snap" /\ UNCHANGED response
                ELSE Respond(Error(Head(errors)))
    /\ UNCHANGED <<net, minNetworkSize, ccs, ints, snaps, overlay, paths>>

\* The next point is snapped.
FindPoint ==
    /\ phase = "snap" /\ Len(snaps) < Len(request.points)
    /\ \E snap \in {FindClosest(net, Info, ints, request.points[Len(snaps) + 1])} :
          IF IsValid(snap) THEN snaps' = Append(snaps, snap) /\ UNCHANGED <<phase, response>>
          ELSE Respond(Error("point not found")) /\ UNCHANGED snaps
    /\ UNCHANGED <<net, minNetworkSize, ccs, ints, request, overlay, paths>>

CreateQueryGraph ==
    /\ phase = "snap" /\ Len(snaps) = Len(request.points)
    /\ \E built \in {BuildQueryOverlay(net, snaps)} : overlay' = built.o /\ snaps' = built.snaps
    /\ phase' = IF HasTurnCosts THEN "answered" ELSE "legs"
    /\ UNCHANGED <<net, minNetworkSize, ccs, ints, request, paths, response>>

----------------------------------------------------------------------------
\* FlexiblePathCalculator and Path

QueryNodes == 0 .. GetNodes(net) + Len(overlay.virtualNodes) - 1

\* Lightest walks from a node, extended edge by edge.
Lightest(walks) == {w \in walks : \A v \in walks : v.endNode = w.endNode => w.weight <= v.weight}

Longer(walk) ==
    {[walk EXCEPT !.endNode = state.adjNode, !.edges = Append(@, Edge(state)),
                  !.weight = @ + CalcEdgeWeight(net, state), !.distance = @ + state.distance] :
        state \in {s \in EdgesAt(net, overlay, walk.endNode) : CalcEdgeWeight(net, s) # Inf}}

RECURSIVE Extend(_, _)
Extend(walks, steps) ==
    IF steps = 0 THEN walks
    ELSE Extend(Lightest(walks \cup UNION {Longer(w) : w \in walks}), steps - 1)

\* The paths of least weight; a path keeps the numbers of its edges only.
CalcPaths(from, to) ==
    LET start == [fromNode |-> from, endNode |-> from, edges |-> <<>>, weight |-> 0, distance |-> 0]
    IN {path \in Extend({start}, Cardinality(QueryNodes) - 1) : path.endNode = to}

\* ForEveryEdge: the edge that ends at the node before is looked up for the node it
\* comes from, and then the state that ends there.
RECURSIVE ForEveryEdge(_, _)
ForEveryEdge(edges, node) ==
    LET From(base) == <<GetEdgeIteratorState(net, overlay, Head(edges), base)>>
                      \o ForEveryEdge(Tail(edges), base)
    IN IF edges = <<>> THEN <<>>
       ELSE From(GetEdgeIteratorState(net, overlay, Head(edges), node).baseNode)

CalcPoints(path) ==
    LET PointsOf(states) == FlattenSeq([i \in DOMAIN states |-> Tail(states[i].points)])
    IN <<NodePoint(net, overlay, path.fromNode)>> \o PointsOf(ForEveryEdge(path.edges, path.fromNode))

CalcLeg ==
    /\ phase = "legs" /\ Len(paths) < Len(snaps) - 1
    /\ \E found \in {CalcPaths(snaps[Len(paths) + 1].closestNode, snaps[Len(paths) + 2].closestNode)} :
          IF found = {} THEN Respond(Error("connection not found")) /\ UNCHANGED paths
          ELSE \E path \in found : paths' = Append(paths, path) /\ UNCHANGED <<phase, response>>
    /\ UNCHANGED <<net, minNetworkSize, ccs, ints, request, snaps, overlay>>

----------------------------------------------------------------------------
\* SimplifyPath, for a single partition of the points into intervals.  Positions
\* are counted from 0.

Removed(points) == Cardinality({i \in DOMAIN points : points[i] = NaN})

\* Mutation of closeIntervals: what earlier intervals lost is not subtracted from the end.
RECURSIVE closeIntervalsKept(_, _)
closeIntervalsKept(s, p) ==
    LET interval == [start |-> s.start - s.removedBefore, end |-> s.end - s.removedNow]
        closed == [s EXCEPT !.intervals[s.at] = interval, !.at = @ + 1, !.start = p,
                            !.removedBefore = @ + s.removedNow, !.removedNow = 0]
        length == s.intervals[s.at + 1].end - s.intervals[s.at + 1].start
    IN IF s.at = Len(s.intervals) THEN closed
       ELSE IF length # 0 THEN [closed EXCEPT !.end = @ + length]
       ELSE closeIntervalsKept(closed, p)

\* The interval that ends at p is brought up to date, and the empty ones behind it.
RECURSIVE closeIntervals(_, _)
closeIntervals(s, p) ==
    LET interval == [start |-> s.start - s.removedBefore,
                     end |-> s.end - s.removedBefore - s.removedNow]
        closed == [s EXCEPT !.intervals[s.at] = interval, !.at = @ + 1, !.start = p,
                            !.removedBefore = @ + s.removedNow, !.removedNow = 0]
        length == s.intervals[s.at + 1].end - s.intervals[s.at + 1].start
    IN IF s.at = Len(s.intervals) THEN closed
       ELSE IF length # 0 THEN [closed EXCEPT !.end = @ + length]
       ELSE closeIntervals(closed, p)

simplifyUpTo(s, p) ==
    LET With(points) ==
            closeIntervals([s EXCEPT !.points = points, !.from = p,
                                     !.removedNow = @ + Removed(points) - Removed(s.points)], p)
    IN IF s.at > Len(s.intervals) \/ p # s.end THEN s
       ELSE With(subSimplify(s.points, s.from + 1, p + 1, WayPointMaxDistance))

SimplifyPath(points, intervals) ==
    LET Compressed(s) == [points |-> RemoveNaN(s.points), intervals |-> s.intervals]
        start == [points |-> points, intervals |-> intervals, at |-> 1, from |-> 0, start |-> 0,
                  end |-> intervals[1].end - intervals[1].start, removedNow |-> 0, removedBefore |-> 0]
    IN Compressed(FoldLeft(simplifyUpTo, start, [i \in DOMAIN points |-> i - 1]))

----------------------------------------------------------------------------
\* The points of the legs, each from the second on without its first.
LegPoints ==
    LET Joined(i, points) == IF i = 1 THEN points ELSE Tail(points)
    IN FlattenSeq([i \in DOMAIN paths |-> Joined(i, CalcPoints(paths[i]))])

WaypointIndices ==
    <<0>> \o [i \in DOMAIN paths |->
                FoldFunctionOnSet(LAMBDA n, sum : n + sum, 0,
                                  [j \in DOMAIN paths |-> Len(CalcPoints(paths[j])) - 1], 1 .. i)]

Total(field) == FoldFunction(LAMBDA x, sum : x + sum, 0, [i \in DOMAIN paths |-> paths[i][field]])

LegIntervals(indices) == [i \in DOMAIN paths |-> [start |-> indices[i], end |-> indices[i + 1]]]

Shown(points, intervals) ==
    IF SimplifyResponse /\ Len(points) > 2 THEN SimplifyPath(points, intervals)
    ELSE [points |-> points, intervals |-> intervals]

BuildResponsePath ==
    /\ phase = "legs" /\ Len(paths) = Len(snaps) - 1
    /\ \E shown \in {IF request.calcPoints THEN Shown(LegPoints, LegIntervals(WaypointIndices))
                     ELSE [points |-> <<>>, intervals |-> <<>>]} :
          Respond([error |-> "none", distance |-> Total("distance"), weight |-> Total("weight"),
                   points |-> shown.points, intervals |-> shown.intervals,
                   waypoints |-> [i \in DOMAIN snaps |-> snaps[i].point]])
    /\ UNCHANGED <<net, minNetworkSize, ccs, ints, request, snaps, overlay, paths>>

\* The next request shares nothing with this one but the network and its index.
Forget ==
    /\ phase = "answered"
    /\ phase' = "ready"
    /\ request' = None /\ snaps' = <<>> /\ overlay' = None /\ paths' = <<>> /\ response' = None
    /\ UNCHANGED <<net, minNetworkSize, ccs, ints>>

Next ==
    \/ PrepareSubnetworks \/ PrepareLocationIndex
    \/ Receive \/ FindPoint \/ CreateQueryGraph \/ CalcLeg \/ BuildResponsePath \/ Forget

Spec == Init /\ [][Next]_vars

----------------------------------------------------------------------------
\* What the search of MaxRegionSearch rings of cells must meet: an edge that is nearer than
\* the border of these cells, or has a point in one of them.
Searched(q, p) ==
    LET reach == MaxRegionSearch - 1
    IN /\ CellX(Info, p) - CellX(Info, q) \in -reach .. reach
       /\ CellY(Info, p) - CellY(Info, q) \in -reach .. reach
InReach(q, e) ==
    \/ WithinRegion(Info, q, DistanceToEdge(net, q, e), MaxRegionSearch - 1)
    \/ \E i \in DOMAIN FullGeometry(net, e) : Searched(q, FullGeometry(net, e)[i])

\* Within the rings of cells that are searched (maxRegionSearch; beyond them an edge is
\* missed, however close the others are), a point is not found only where no edge may be
\* snapped to, and no such edge is closer to it than the one that was found: the ring at
\* which the search stops (findClosest), the leaves it reads and the cells an edge was put
\* in fit together.
ClosestEdgeFound ==
    LET Allowed(q) == {e \in DOMAIN net.edges :
                         AcceptsSnap(net, GetEdgeIteratorStateForKey(net, 2 * e)) /\ InReach(q, e)}
    IN /\ response = Error("point not found") => Allowed(request.points[Len(snaps) + 1]) = {}
       /\ phase = "snap" => \A i \in DOMAIN snaps : \A e \in Allowed(request.points[i]) :
             ~ Less(DistanceToEdge(net, request.points[i], e),
                    DistanceToEdge(net, request.points[i], Edge(snaps[i].closestEdge)))

\* The query graph is the network with virtual nodes on some of its edges: every edge can
\* be followed through it in both directions, past the same points and open or closed
\* alike, every state is found from both of its ends, and turns at the network's nodes
\* weigh what they do there (query_overlay_builder, query_graph, query_graph_weighting).
QueryGraphIsSubdivision ==
    overlay # None =>
        /\ \A key \in Keys(net) : KeepsEdge(net, overlay, key)
        /\ \A n \in QueryNodes : KeepsNode(net, overlay, n)
        /\ \A n \in DOMAIN net.nodes : KeepsTurns(net, overlay, n)

\* The points of an answer pass the snapped points in their order, at the ends of the
\* intervals that simplification has moved them to, and before simplification they are as
\* long as the distance reported (buildResponsePath, SimplifyPath).
ResponseFollowsWaypoints ==
    phase = "answered" /\ response # None /\ response.error = "none" /\ response.points # <<>> =>
        LET intervals == response.intervals
            legs == 1 .. Len(intervals)
        IN /\ Len(intervals) = Len(request.points) - 1
           /\ intervals[1].start = 0 /\ Last(intervals).end = Len(response.points) - 1
           /\ \A i \in legs \ {1} : intervals[i].start = intervals[i - 1].end
           /\ \A i \in legs : /\ response.points[intervals[i].start + 1] = response.waypoints[i]
                              /\ response.points[intervals[i].end + 1] = response.waypoints[i + 1]
           /\ PointListDistance(LegPoints) = response.distance

\* Where no two components are big enough to be kept, there is a path between any two
\* points that were snapped: this is what prepare_routing_subnetworks is run for.
SnappedPointsAreConnected ==
    response = Error("connection not found") =>
        \/ minNetworkSize <= 0
        \/ Cardinality({i \in DOMAIN ccs.components : Len(ccs.components[i]) >= 2 * minNetworkSize}) > 1

\* The components are the strongly connected components of the edge keys
\* (edge_based_tarjan_scc: "the result of the edge-based Tarjan SCC algorithm").
ComponentsAreStronglyConnected ==
    phase = "marked" =>
        {Range(ccs.components[i]) : i \in DOMAIN ccs.components} \cup {{key} : key \in ccs.singles}
            = StronglyConnectedComponents([net EXCEPT !.marked = {}])
=============================================================================
