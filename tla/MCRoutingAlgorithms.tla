------------------------ MODULE MCRoutingAlgorithms ------------------------
(***************************************************************************)
(* The routing algorithms on small road networks.  Every one but Dijkstra  *)
(* from the start accepts a first and a last edge.                         *)
(***************************************************************************)
EXTENDS RoutingAlgorithms

Edge(a, b, fwd, bwd) == [a |-> a, b |-> b, fwd |-> fwd, bwd |-> bwd]

Unrestricted == [s \in Sides |-> AnyEdge]

Trip(a, b) == [s \in Sides |-> IF s = "from" THEN a ELSE b]

NodeBased(edges, pos, trip, astar) ==
    [edges |-> edges, pos |-> pos, restricted |-> {}, uTurn |-> 0, start |-> trip,
     only |-> Unrestricted, edgeBased |-> FALSE, astar |-> astar]

\* Two routes from 0 to 1, by 2 and by 3, and a road that joins them.  Roads 4
\* and 5 may be one-way; a weight exceeds the beeline by 0, 1 or 3.
Detour == <<<<0, 2>>, <<2, 1>>, <<0, 3>>, <<3, 1>>, <<2, 3>>>>

Beelines(pos) ==
    [e \in DOMAIN Detour |->
        LET a == pos[Detour[e][1]]  b == pos[Detour[e][2]]  IN IF a > b THEN a - b ELSE b - a]

Detours(pos, trip, astar) ==
    {NodeBased([e \in DOMAIN Detour |->
                  Edge(Detour[e][1], Detour[e][2], Beelines(pos)[e] + w[e],
                       IF e \in oneway THEN Inf ELSE Beelines(pos)[e] + w[e])],
               pos, trip, astar) :
        w \in [DOMAIN Detour -> {0, 1, 3}], oneway \in SUBSET {4, 5}}

Flat == [n \in 0 .. 3 |-> 0]
Hilly == (0 :> 0) @@ (1 :> 2) @@ (2 :> 1) @@ (3 :> 3)

NodeBasedQueries ==
    Detours(Flat, Trip(0, 1), FALSE) \cup Detours(Flat, Trip(2, 3), FALSE)
      \cup Detours(Hilly, Trip(0, 1), TRUE) \cup Detours(Hilly, Trip(2, 0), TRUE)
      \cup {NodeBased(<<>>, Flat, Trip(0, 0), FALSE), NodeBased(<<>>, Flat, Trip(0, 1), TRUE)}

\* A road from 0 to a crossing 2, from there straight to 1 or around by 3.
Crossing == <<<<0, 2>>, <<2, 1>>, <<2, 3>>, <<3, 1>>>>

EdgeBased(w, oneway, pos, restricted, uTurn, trip, only, astar) ==
    [edges |-> [e \in DOMAIN Crossing |->
                  Edge(Crossing[e][1], Crossing[e][2], w[e], IF e \in oneway THEN Inf ELSE w[e])],
     pos |-> pos, restricted |-> restricted, uTurn |-> uTurn,
     start |-> trip, only |-> only, edgeBased |-> TRUE, astar |-> astar]

\* From 0 to 1 past forbidden turns, freely or with a first or last edge.
CrossingQueries(only, astar) ==
    {EdgeBased(w, oneway, Flat, restricted, uTurn, Trip(0, 1), only, astar) :
        w \in [DOMAIN Crossing -> {0, 1}], oneway \in SUBSET {4}, uTurn \in {1, Inf},
        restricted \in SUBSET {<<1, 2, 2>>, <<1, 2, 3>>, <<3, 3, 4>>}}

\* From the crossing and back to it.
RoundTripQueries(only, astar) ==
    {EdgeBased(w, {}, Flat, {<<2, 2, 3>>}, uTurn, Trip(2, 2), only, astar) :
        w \in [DOMAIN Crossing -> {1, 2}], uTurn \in {1, Inf}}

FreeQueries == CrossingQueries(Unrestricted, FALSE) \cup RoundTripQueries(Unrestricted, FALSE)

\* Trip is used for a pair of edges here: the first and the last one.
RestrictedQueries(astar) ==
    CrossingQueries(Trip(1, 2), astar) \cup CrossingQueries(Trip(AnyEdge, 4), astar)
      \cup RoundTripQueries(Trip(2, 3), astar) \cup RoundTripQueries(Trip(2, AnyEdge), astar)
      \cup RoundTripQueries(Trip(2, 2), astar)

\* A position off the straight road, so that the estimates matter.
GuidedQueries ==
    {EdgeBased([e \in DOMAIN Crossing |-> w[e]], {}, (0 :> 0) @@ (1 :> 2) @@ (2 :> 1) @@ (3 :> 2),
               restricted, uTurn, Trip(0, 1), Unrestricted, TRUE) :
        w \in {f \in [DOMAIN Crossing -> {0, 1, 3}] : f[1] > 0 /\ f[2] > 0 /\ f[3] > 0},
        restricted \in SUBSET {<<1, 2, 2>>, <<3, 3, 4>>}, uTurn \in {1, Inf}}

EdgeBasedQueries ==
    FreeQueries \cup RestrictedQueries(FALSE) \cup RestrictedQueries(TRUE) \cup GuidedQueries

AllQueries == NodeBasedQueries \cup EdgeBasedQueries
=============================================================================
