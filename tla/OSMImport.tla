----------------------------- MODULE OSMImport -----------------------------
(***************************************************************************)
(* The import of an OSM file (package osm): a first pass over the ways     *)
(* counts how often each node is used, a second stores the nodes and cuts  *)
(* every way into edges at the nodes it shares with others, at nodes that  *)
(* are missing from the file and at barriers.                              *)
(*                                                                         *)
(* g is what the passes build: nd, the data of the nodes with the graph's  *)
(* towers, the graph's edges, the number of edges of no length and whether *)
(* a panic has ended the import.  A node of a segment carries, besides the *)
(* code's fields, the id of the file's node it is or is a copy of.         *)
(***************************************************************************)
EXTENDS OSMNodeData, TagParsers, Geometry

CONSTANTS
    Files,              \* the files that may be imported
    MaxWayPointDistance,\* squared, a fraction
    MaxDistance,        \* of an edge, in mm
    HugeSpeed,          \* in place of an infinite one
    PreferredLanguage,  \* the suffix of the key, or the empty string
    Names,              \* a name with semicolons: the name with commas
    Durations           \* the text of a duration: its years, months, days, hours, minutes, seconds

VARIABLES file, pc, at, g
vars == <<file, pc, at, g>>

----------------------------------------------------------------------------
\* OSMReader: which ways and barriers, and what a way's tags are enriched with

acceptWay(way) == Len(way.nodes) >= 2 /\ way.tags # <<>> /\ AcceptWay(way.tags)
isBarrierNode(tags) == HasTag(tags, "barrier") \/ HasTag(tags, "ford")

\* fixWayName; names are short.
fixWayName(name) == IF name \in DOMAIN Names THEN Names[name] ELSE name

resolveWayName(tags) ==
    LET preferred == IF PreferredLanguage = "" THEN ""
                     ELSE fixWayName(GetTag(tags, "name:" \o PreferredLanguage))
    IN IF preferred # "" THEN preferred ELSE fixWayName(GetTag(tags, "name"))

\* The junction's name, when a motorway starts at one.
MotorwayJunctionName(nd, way) ==
    LET Name(tags) == IF tags # NoTags /\ HasValue(tags, "highway", {"motorway_junction"})
                      THEN GetTag(tags, "name") ELSE ""
    IN IF HasValue(way.tags, "highway", {"motorway", "motorway_link"})
       THEN Name(GetNodeTags(nd, way.nodes[1])) ELSE ""

\* parseWayNames: a name and a ref are left out when empty, a destination when there is no tag.
parseWayNames(nd, way) ==
    LET value == [street_name |-> resolveWayName(way.tags),
                  street_ref |-> fixWayName(GetTag(way.tags, "ref")),
                  street_destination_ref |-> fixWayName(GetTag(way.tags, "destination:ref")),
                  street_destination |-> fixWayName(GetTag(way.tags, "destination")),
                  motorway_junction |-> MotorwayJunctionName(nd, way)]
        tagged == (IF HasTag(way.tags, "destination:ref") THEN {"street_destination_ref"} ELSE {})
                  \cup (IF HasTag(way.tags, "destination") THEN {"street_destination"} ELSE {})
        Kept(values) == Restrict(values, {key \in DOMAIN values : values[key] # "" \/ key \in tagged})
    IN Kept(value)

\* parseDuration, in seconds; a year has 365 days and a month 31.
SecondsOf(d) ==
    (((d[1] * 365 + d[2] * 31 + d[3]) * 24 + d[4]) * 60 + d[5]) * 60 + d[6]

\* calcWayDistance is defined only if the file has all the nodes of the way.  A speed
\* below a tenth of a km/h is dropped, which 0/0 is not.
SpeedFromDuration(nd, way) ==
    LET ids == [i \in DOMAIN way.nodes |-> GetID(nd, way.nodes[i])]
        distance == PointListDistance([i \in DOMAIN ids |-> GetCoordinates(nd, ids[i])])
        text == GetTag(way.tags, "duration")
        seconds == SecondsOf(Durations[text])
    IN IF \/ ~ IsFerry(way.tags) \/ \E i \in DOMAIN ids : ~ IsNodeID(ids[i])
          \/ text \notin DOMAIN Durations
       THEN 0
       ELSE IF seconds = 0 THEN IF distance = 0 THEN NotANumber ELSE HugeSpeed
       ELSE (distance * 9) \div (250 * seconds)

preprocessWay(nd, way) ==
    way @@ [keyValues |-> parseWayNames(nd, way), speedFromDuration |-> SpeedFromDuration(nd, way)]

\* addEdge: the edge that is appended to the graph.  An edge from a node to itself
\* panics, and so may a parser; what they leave behind is lost with the process.
Distance(points) == Min({MaxDistance, Max({1, PointListDistance(points)})})

addEdge(x, from, to, points, way, nodes) ==
    LET Edge(kept, distance) ==
            [from |-> from, to |-> to, way |-> way.id, distance |-> distance,
             flags |-> HandleWayTags(way @@ [distance |-> distance]),
             keyValues |-> way.keyValues, geometry |-> SubSeq(kept, 2, Len(kept) - 1),
             barrier |-> HasTag(way.tags, "gh:barrier_edge"),
             nodes |-> [i \in DOMAIN nodes |-> nodes[i].of]]
        Panics(kept) == from = to \/ ~ CanHandleWayTags(way @@ [distance |-> Distance(kept)])
        Added(kept) ==
            IF Panics(kept) THEN [x EXCEPT !.panic = TRUE]
            ELSE [x EXCEPT !.edges = Append(@, Edge(kept, Distance(kept))),
                           !.zero = IF PointListDistance(kept) = 0 THEN @ + 1 ELSE @]
    IN Added(IF Len(points) > 2 THEN Simplify(points, MaxWayPointDistance) ELSE points)

----------------------------------------------------------------------------
\* WaySegmentParser: from a way's nodes to edges.  Each operator returns what
\* the passes have built after it.

\* A pillar at an end of a segment becomes a tower.
Promoted(r, i) ==
    LET node == r.segment[i]
    IN IF ~ IsPillarNode(node.id) THEN r
       ELSE [x |-> [r.x EXCEPT !.nd = ConvertPillarToTowerNode(@, node.id, node.osm),
                               !.panic = @ \/ ~ CanConvert(r.x.nd, node.id)],
             segment |-> [r.segment EXCEPT ![i].id = TowerNodeToID(Len(r.x.nd.towers))]]

\* The segment comes back with the ids of the towers at its ends.
WithEdge(r, way) ==
    LET n == Len(r.segment)
        points == [i \in 1 .. n |-> GetCoordinates(r.x.nd, r.segment[i].id)]
        Tower(i) == IDToTowerNode(r.segment[i].id)
    IN [r EXCEPT !.x = addEdge(@, Tower(1), Tower(n), points, way, r.segment)]

handleSegment(r, way) ==
    LET n == Len(r.segment)
        illegal == \/ n < 2 \/ \E i \in 1 .. n : ~ IsNodeID(r.segment[i].id)
                   \/ \E i \in 2 .. n - 1 : IsTowerNode(r.segment[i].id)
    IN IF illegal THEN [r EXCEPT !.x.panic = TRUE]
       ELSE WithEdge(Promoted(Promoted(r, 1), n), way)

Barrier(way) == [way EXCEPT !.tags = ("gh:barrier_edge" :> "true") @@ @]

\* An edge of no length from the end of a segment to the other node of the barrier.
BarrierEdge(r, node, way) ==
    handleSegment([r EXCEPT !.segment = <<Last(@), node>>], Barrier(way))

\* The segment so far ends with the first of the two nodes at the barrier; the
\* barrier's edge leads to the second, from which the next segment starts.
SplitInto(r, nd, from, to, way) ==
    LET before == [x |-> [r.x EXCEPT !.nd = nd], segment |-> Append(r.segment, from)]
        Split(handled) == [handled EXCEPT !.segment = <<@[2]>>]
    IN Split(BarrierEdge(IF r.segment = <<>> THEN before ELSE handleSegment(before, way), to, way))

\* Mutation of SplitAt: the copy is always put behind the node.
SplitAtUnswapped(r, node, last, way) ==
    LET Split(copied) == SplitInto(r, copied.nd, node, copied.node, way)
    IN Split(AddCopyOfNode(UnsetSplitNode(r.x.nd, node.osm), node))

\* A node that is a barrier gets a copy, before itself when it is the last one.
SplitAt(r, node, last, way) ==
    LET Split(copied) == SplitInto(r, copied.nd, IF last THEN copied.node ELSE node,
                                   IF last THEN node ELSE copied.node, way)
    IN Split(AddCopyOfNode(UnsetSplitNode(r.x.nd, node.osm), node))

splitSegmentAtSplitNodes(x, parent, way) ==
    LET Step(r, i) ==
            IF IsSplitNode(r.x.nd, parent[i].osm) THEN SplitAt(r, parent[i], i = Len(parent), way)
            ELSE [r EXCEPT !.segment = Append(@, parent[i])]
        Rest(r) == IF Len(r.segment) > 1 THEN handleSegment(r, way).x ELSE r.x
    IN Rest(FoldLeft(Step, [x |-> x, segment |-> <<>>], [i \in DOMAIN parent |-> i]))

\* Mutation of CutLoop: the second half keeps the pillar's id.
CutLoopStale(x, mid, last, way) == splitSegmentAtSplitNodes(x, <<mid, last>>, way)

\* The second half of a loop, from the node that the first half may have made a tower.
CutLoop(x, mid, last, way) ==
    splitSegmentAtSplitNodes(x, <<[mid EXCEPT !.id = GetID(x.nd, mid.osm)], last>>, way)

\* A loop is cut before its last node; one of a single node is dropped.
splitLoopSegments(x, segment, way) ==
    LET n == Len(segment)
        isLoop == segment[1].osm = segment[n].osm
        First == splitSegmentAtSplitNodes(x, IF isLoop THEN Front(segment) ELSE segment, way)
    IN IF ~ isLoop THEN First
       ELSE IF n = 2 THEN x
       ELSE CutLoop(First, segment[n - 1], segment[n], way)

\* The segments of a way, each with its nodes as they were when the way was read.
\* Towers end a segment and start the next one.  A missing node ends it too, but a
\* segment of a single node is kept.
Segments(full) ==
    LET Step(r, node) ==
            IF ~ IsNodeID(node.id)
            THEN IF Len(r.open) > 1 THEN [done |-> Append(r.done, r.open), open |-> <<>>] ELSE r
            ELSE IF IsTowerNode(node.id) /\ r.open # <<>>
            THEN [done |-> Append(r.done, Append(r.open, node)), open |-> <<node>>]
            ELSE [r EXCEPT !.open = Append(@, node)]
        All(r) == IF Len(r.open) > 1 THEN Append(r.done, r.open) ELSE r.done
    IN All(FoldLeft(Step, [done |-> <<>>, open |-> <<>>], full))

splitWayAtJunctionsAndEmptySections(x, full, way) ==
    FoldLeft(LAMBDA y, segment : splitLoopSegments(y, segment, way), x, Segments(full))

----------------------------------------------------------------------------
Init ==
    /\ file \in Files
    /\ pc = "pass1" /\ at = 1
    /\ g = [nd |-> NewOSMNodeData(file.maxLeafEntries), edges |-> <<>>, zero |-> 0, panic |-> FALSE]

\* The next element of the file, or what follows its last one.
Advance(elements, next) ==
    IF at < Len(elements) THEN at' = at + 1 /\ UNCHANGED pc ELSE at' = 1 /\ pc' = next

Pass1HandleWay ==
    /\ pc = "pass1"
    /\ LET way == file.ways[at]
           n == Len(way.nodes)
           Count(nd, i) == SetOrUpdateNodeType(nd, way.nodes[i], i \in {1, n})
       IN g' = IF acceptWay(way) THEN [g EXCEPT !.nd = FoldLeft(Count, @, [i \in 1 .. n |-> i])] ELSE g
    /\ Advance(file.ways, "nodes")
    /\ UNCHANGED file

importantTags == {"barrier", "highway", "railway", "crossing", "ford"}

Pass2HandleNode ==
    /\ pc = "nodes" /\ ~ g.panic
    /\ LET node == file.nodes[at]
           type == GetID(g.nd, node.osm)
           added == AddCoordinatesIfMapped(g.nd, node.osm, node.place)
           split == IF isBarrierNode(node.tags) /\ type # JunctionNode
                    THEN SetSplitNode(added, node.osm) ELSE added
           tagged == IF DOMAIN node.tags \cap importantTags = {} THEN split
                     ELSE SetTags(split, node.osm, node.tags)
       IN g' = IF ~ CanAddCoordinates(g.nd, node.osm) \/ ~ CanSetTags(g.nd, node.osm)
               THEN [g EXCEPT !.panic = TRUE]
               ELSE IF type = EmptyNode THEN g ELSE [g EXCEPT !.nd = tagged]
    /\ Advance(file.nodes, "ways")
    /\ UNCHANGED file

Pass2HandleWay ==
    /\ pc = "ways" /\ ~ g.panic
    /\ LET way == file.ways[at]
           segment == [i \in DOMAIN way.nodes |->
                          [osm |-> way.nodes[i], id |-> GetID(g.nd, way.nodes[i]),
                           tags |-> GetNodeTags(g.nd, way.nodes[i]), of |-> way.nodes[i]]]
       IN g' = IF acceptWay(way)
               THEN splitWayAtJunctionsAndEmptySections(g, segment, preprocessWay(g.nd, way))
               ELSE g
    /\ Advance(file.ways, "read")
    /\ UNCHANGED file

\* After the second pass what only the import needs is released; a graph
\* without nodes is an error.
Finish ==
    /\ pc = "read" /\ ~ g.panic
    /\ g' = [g EXCEPT !.nd = Release(@)]
    /\ pc' = IF g.nd.towers = <<>> THEN "empty" ELSE "done"
    /\ UNCHANGED <<file, at>>

Next == Pass1HandleWay \/ Pass2HandleNode \/ Pass2HandleWay \/ Finish

Spec == Init /\ [][Next]_vars
----------------------------------------------------------------------------
Read == pc \in {"done", "empty"}
Accepted == {way \in Range(file.ways) : acceptWay(way)}
WayWith(id) == CHOOSE way \in Range(file.ways) : way.id = id
NodeWith(osm) == CHOOSE node \in Range(file.nodes) : node.osm = osm
Present == {node.osm : node \in Range(file.nodes)}
Edges == Range(g.edges)
Roads == {i \in DOMAIN g.edges : ~ g.edges[i].barrier}
Barriers == {e \in Edges : e.barrier}

Hops(nodes, a, b) ==
    Cardinality({i \in 1 .. Len(nodes) - 1 : nodes[i] = a /\ nodes[i + 1] = b})

\* A ferry that takes no time to get nowhere.
Timeless(way) ==
    LET text == GetTag(way.tags, "duration")
    IN /\ IsFerry(way.tags)
       /\ text \in DOMAIN Durations /\ SecondsOf(Durations[text]) = 0
       /\ Range(way.nodes) \subseteq Present
       /\ \A osm \in Range(way.nodes) : NodeWith(osm).place = NodeWith(way.nodes[1]).place

\* Nothing of a way is lost and nothing doubled, whatever way it is cut: going
\* from one node of a way to the next is part of exactly one edge of that way for
\* each time the way does so, in the way's direction.  No way makes the import panic
\* (pass2Handler.HandleWay, of which g.panic has the panics of the segments, the graph,
\* the B-tree and the speeds) but a ferry of no length and no duration.
WaysBecomeEdges ==
    /\ g.panic => \E way \in Accepted : Timeless(way)
    /\ Read => \A way \in Accepted : \A a, b \in Present :
          a # b /\ Hops(way.nodes, a, b) > 0 =>
             Hops(way.nodes, a, b) =
                FoldFunctionOnSet(LAMBDA n, sum : n + sum, 0,
                                  [i \in DOMAIN g.edges |-> Hops(g.edges[i].nodes, a, b)],
                                  {i \in Roads : g.edges[i].way = way.id})

\* Ways meet where they share a node: all edges that end at a node of the file
\* end at the same tower, with the node's coordinates, unless a barrier edge leads
\* between exactly two (ConvertPillarToTowerNode, addTowerNode, AddCopyOfNode).
OneTowerPerNode ==
    Read => \A osm \in Present :
        LET ends == {e.from : e \in {d \in Edges : d.nodes[1] = osm}}
                    \cup {e.to : e \in {d \in Edges : Last(d.nodes) = osm}}
            barriers == {e \in Barriers : e.nodes[1] = osm}
        IN /\ \A tower \in ends : g.nd.towers[tower + 1] = NodeWith(osm).place
           /\ IF barriers = {} THEN Cardinality(ends) <= 1
              ELSE \E e \in barriers : /\ barriers = {e} /\ e.nodes = <<osm, osm>>
                                       /\ ends = {e.from, e.to} /\ e.from # e.to

\* Nobody passes a barrier but over its edge: a barrier is never inside an edge,
\* at most one road ends at each end of a barrier edge, and a road of the same way
\* leads to where the barrier edge starts or starts where it ends
\* (splitSegmentAtSplitNodes).
BarriersSplit ==
    Read => /\ \A i \in Roads : LET nodes == g.edges[i].nodes
                                IN \A j \in 2 .. Len(nodes) - 1 : ~ isBarrierNode(NodeWith(nodes[j]).tags)
            /\ \A b \in Barriers :
                  /\ isBarrierNode(NodeWith(b.nodes[1]).tags)
                  /\ \A tower \in {b.from, b.to} :
                        Cardinality({<<i, end>> \in Roads \X {"from", "to"} :
                                        g.edges[i][end] = tower}) <= 1
                  /\ \A i \in Roads : g.edges[i].way = b.way =>
                        g.edges[i].to # b.to /\ g.edges[i].from # b.from

\* The geometry of an edge is its nodes' coordinates, and every node left out is
\* nearer to the line between its kept neighbours than the distance allowed
\* (handleSegment, addEdge, RamerDouglasPeucker).
GeometryFollowsWay ==
    Read => \A e \in Edges :
        LET n == Len(e.nodes)
            place == [i \in 1 .. n |-> NodeWith(e.nodes[i]).place]
        IN \E kept \in SUBSET (2 .. n - 1) :
              /\ e.geometry = SelectSeq([i \in 1 .. n |-> IF i \in kept THEN place[i] ELSE NaN],
                                        LAMBDA p : p # NaN)
              /\ \A i \in (2 .. n - 1) \ kept : \E a, b \in kept \cup {1, n} :
                    /\ a < i /\ i < b /\ (a + 1 .. b - 1) \cap kept = {}
                    /\ Less(NormEdgeDist(place[i], place[a], place[b]), MaxWayPointDistance)

\* The B-tree never loses or confuses a node, however it was split: it finds the
\* last value put for each id, nothing for an id of which none was put, and stays
\* sorted with all leaves at the same depth (GHLongLongBTree).
IdsFound ==
    LET ids == g.nd.ids
    IN /\ WellFormed(ids) /\ WellFormed(g.nd.tagIndices)
       /\ ids.size = Cardinality(DOMAIN g.nd.put)
       /\ \A osm \in UNION {Range(way.nodes) : way \in Range(file.ways)} \cup DOMAIN g.nd.put :
             BGet(ids, osm) = IF osm \in DOMAIN g.nd.put THEN g.nd.put[osm] ELSE EmptyNode

\* A car is never let onto a way, or in a direction of it, that its tags close: not
\* where the most special access tag forbids it without a condition, and not against
\* a one-way road or a roundabout (CarAccessParser, OSMRoundaboutParser).
DrivableAsTagged ==
    Read => \A e \in Edges :
        LET tags == WayWith(e.way).tags
            open == e.flags.access
            closed == /\ Given(tags) # <<>> /\ tags[Given(tags)[1]] \in restrictedValues
                      /\ \A i \in DOMAIN CarKeys : ~ ConditionAllows(tags, CarKeys[i])
            allowed == IF IsFerry(tags) THEN {"fwd", "bwd"}
                       ELSE IF closed THEN {}
                       ELSE {"fwd", "bwd"} \ UNION {IF isOneway(tags) \/ Roundabout(tags) THEN {"bwd"} ELSE {},
                                                    IF isReverseOneway(tags) THEN {"fwd"} ELSE {}}
        IN open \subseteq allowed

\* No edge leads across a node that the file lacks: way_segment_parser.go says that
\* such a way is split "to avoid connecting exit/entry points with a straight line".
NoEdgeAcrossGap ==
    Read => \A i \in Roads : LET nodes == g.edges[i].nodes
                            IN \A j \in 1 .. Len(nodes) - 1 :
                                  Hops(WayWith(g.edges[i].way).nodes, nodes[j], nodes[j + 1]) > 0

\* The assertion of decimal_encoded_value_impl.go:62, "NaN value for %s not allowed!":
\* no speed that is not a number gets as far as the parsers of a new edge, where it
\* ends the import.
NoNaNEncoded ==
    g.panic => \A way \in Accepted : SpeedFromDuration(g.nd, way) # NotANumber
=============================================================================
