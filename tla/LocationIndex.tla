---------------------------- MODULE LocationIndex ----------------------------
(***************************************************************************)
(* The index that finds the edge closest to a point (core/storage/index):  *)
(* a tree over the cells of a square grid.  A leaf holds the edges that    *)
(* run through a cell; the tree is written to an array of ints, in which a *)
(* slot of an inner node holds the place of its child, or 0.               *)
(*                                                                         *)
(* A coordinate is kept multiplied by the number of cells in a row, so     *)
(* that a cell is as wide as the bounds.                                   *)
(***************************************************************************)
EXTENDS RoadGraph

CONSTANTS
    MinResolution,     \* the width a cell should have
    MaxRegionSearch,   \* rings of cells that are searched
    EqualNormedDelta,  \* squared distance, a fraction, that counts as none
    Near               \* coordinates that differ by less are considered equal

----------------------------------------------------------------------------
\* IndexStructureInfo.  ratio is the squared number of cells in a row that are wanted, over 4.

RECURSIVE EntriesFor(_)
EntriesFor(ratio) ==
    IF ratio >= 16 THEN <<16>> \o EntriesFor(ratio \div 16)
    ELSE IF ratio >= 4 THEN <<4>> \o EntriesFor(ratio \div 4)
    ELSE <<4>>

getShift(entries) == CHOOSE b \in 1 .. 4 : 2 ^ b = entries

\* bounds are the least and the greatest latitude, then longitude.
CreateIndexStructureInfo(bounds) ==
    LET extent == Max({bounds[2] - bounds[1], bounds[4] - bounds[3]})
        entries == EntriesFor((extent * extent) \div (4 * MinResolution * MinResolution))
        shifts == [i \in DOMAIN entries |-> getShift(entries[i])]
        bits == FoldFunction(LAMBDA s, sum : s + sum, 0, shifts)
    IN [entries |-> entries, shifts |-> shifts, bits |-> bits, parts |-> 2 ^ (bits \div 2),
        bounds |-> bounds, height |-> bounds[2] - bounds[1], width |-> bounds[4] - bounds[3]]

ScaledLat(info, p) == (Lat(p) - info.bounds[1]) * info.parts
ScaledLon(info, p) == (Lon(p) - info.bounds[3]) * info.parts

\* SpatialKeyAlgo
CellY(info, p) == Max({0, Min({ScaledLat(info, p) \div info.height, info.parts - 1})})
CellX(info, p) == Max({0, Min({ScaledLon(info, p) \div info.width, info.parts - 1})})

\* The bits of y and x in turn, those of y first.
Encode(info, x, y) ==
    FoldFunction(LAMBDA v, sum : v + sum, 0,
                 [i \in 0 .. (info.bits \div 2) - 1 |->
                    (4 ^ i) * (((x \div (2 ^ i)) % 2) + 2 * ((y \div (2 ^ i)) % 2))])

----------------------------------------------------------------------------
\* PixelGridTraversal: the cells on the line from a to b.

RECURSIVE CellsFrom(_, _, _, _, _, _)
CellsFrom(info, x, y, x2, y2, line) ==
    LET tMaxX == <<line.stepX * ((x + line.offX) * info.width - line.ax), line.dX>>
        tMaxY == <<line.stepY * ((y + line.offY) * info.height - line.ay), line.dY>>
    IN <<<<x, y>>>> \o
       (IF x = x2 /\ y = y2 THEN <<>>
        ELSE IF x # x2 /\ (y = y2 \/ Less(tMaxX, tMaxY))
             THEN CellsFrom(info, x + line.stepX, y, x2, y2, line)
        ELSE CellsFrom(info, x, y + line.stepY, x2, y2, line))

Traverse(info, a, b) ==
    LET ax == ScaledLon(info, a)
        ay == ScaledLat(info, a)
        bx == ScaledLon(info, b)
        by == ScaledLat(info, b)
        line == [ax |-> ax, ay |-> ay,
                 stepX |-> IF ax >= bx THEN -1 ELSE 1, stepY |-> IF ay >= by THEN -1 ELSE 1,
                 offX |-> IF ax >= bx THEN 0 ELSE 1, offY |-> IF ay >= by THEN 0 ELSE 1,
                 dX |-> Max({ax - bx, bx - ax}), dY |-> Max({ay - by, by - ay})]
    IN CellsFrom(info, CellX(info, a), CellY(info, a), CellX(info, b), CellY(info, b), line)

----------------------------------------------------------------------------
\* InMemConstructionIndex: the edges of each cell, by the cell's key.

put(leaves, key, value) ==
    LET results == IF key \in DOMAIN leaves THEN leaves[key] ELSE <<>>
    IN IF results # <<>> /\ Last(results) = value THEN leaves
       ELSE (key :> Append(results, value)) @@ leaves

AddToAllTilesOnLine(info, leaves, edge, a, b) ==
    FoldLeft(LAMBDA ls, cell : put(ls, Encode(info, cell[1], cell[2]), edge),
             leaves, Traverse(info, a, b))

prepareInMemConstructionIndex(net, info) ==
    FoldLeft(LAMBDA leaves, e :
                LET points == FullGeometry(net, e)
                IN FoldLeft(LAMBDA ls, i : AddToAllTilesOnLine(info, ls, e, points[i], points[i + 1]),
                            leaves, [i \in 1 .. Len(points) - 1 |-> i]),
             <<>>, [i \in 1 .. GetEdges(net) |-> i - 1])

----------------------------------------------------------------------------
\* LineIntIndex

StartPointer == 1
GetInt(ints, i) == IF i \in DOMAIN ints THEN ints[i] ELSE 0

\* A place in the tree is the way to it: the number of levels above it and the
\* leading bits of the keys below it.
BitsBelow(info, depth) ==
    FoldFunctionOnSet(LAMBDA s, sum : s + sum, 0, info.shifts, depth + 1 .. Len(info.shifts))
Exists(info, leaves, depth, prefix) ==
    \E key \in DOMAIN leaves : key \div (2 ^ BitsBelow(info, depth)) = prefix

\* Mutation of storeLeaf: the last edge's slot is taken for the end.
storeLeafShort(results, pointer) ==
    IF Len(results) = 1 THEN pointer :> -(results[1] + 1)
    ELSE (pointer :> pointer + Len(results)) @@ [i \in pointer + 1 .. pointer + Len(results) |-> results[i - pointer]]

\* A leaf of one edge takes a single, negative int.
storeLeaf(results, pointer) ==
    IF Len(results) = 1 THEN pointer :> -(results[1] + 1)
    ELSE (pointer :> pointer + Len(results) + 1)
         @@ [i \in pointer + 1 .. pointer + Len(results) |-> results[i - pointer]]

\* The children of a place, and the ints that a place takes with all below it.
SubEntries(info, leaves, depth, prefix) ==
    {i \in 0 .. info.entries[depth + 1] - 1 : Exists(info, leaves, depth + 1, prefix * info.entries[depth + 1] + i)}
RECURSIVE SizeOf(_, _, _, _)
SizeOf(info, leaves, depth, prefix) ==
    IF depth < Len(info.shifts)
    THEN MapThenSumSet(LAMBDA i : SizeOf(info, leaves, depth + 1, prefix * info.entries[depth + 1] + i),
                       SubEntries(info, leaves, depth, prefix)) + info.entries[depth + 1]
    ELSE IF Len(leaves[prefix]) = 1 THEN 1
    ELSE Len(leaves[prefix]) + 1

\* A node's slots come first, then its children, one after the other.
RECURSIVE storeEntry(_, _, _, _, _)
storeEntry(info, leaves, depth, prefix, pointer) ==
    LET entries == info.entries[depth + 1]
        subEntries == SubEntries(info, leaves, depth, prefix)
        prevIntPointer(i) == pointer + entries
                             + MapThenSumSet(LAMBDA j : SizeOf(info, leaves, depth + 1, prefix * entries + j),
                                             {j \in subEntries : j < i})
        store(i) == (pointer + i :> prevIntPointer(i))
                    @@ storeEntry(info, leaves, depth + 1, prefix * entries + i, prevIntPointer(i))
    IN IF depth = Len(info.shifts) THEN storeLeaf(leaves[prefix], pointer)
       ELSE MapThenFoldSet(LAMBDA ints, others : ints @@ others, <<>>, store,
                           LAMBDA S : CHOOSE i \in S : TRUE, subEntries)

\* PrepareIndex and Store
PrepareIndex(net, info) ==
    storeEntry(info, prepareInMemConstructionIndex(net, info), 0, 0, StartPointer)

RECURSIVE LeafOf(_, _, _, _, _)
LeafOf(info, ints, key, depth, pointer) ==
    LET offset == (key \div (2 ^ BitsBelow(info, depth + 1))) % info.entries[depth + 1]
        next == GetInt(ints, pointer + offset)
    IN IF depth = Len(info.shifts) THEN pointer
       ELSE IF next <= 0 THEN 0
       ELSE LeafOf(info, ints, key, depth + 1, next)

fillIDs(info, ints, key) ==
    LET pointer == LeafOf(info, ints, key, 0, StartPointer)
        data == GetInt(ints, pointer)
    IN IF pointer = 0 THEN <<>>
       ELSE IF data < 0 THEN <<- (data + 1)>>
       ELSE [i \in 1 .. data - pointer - 1 |-> GetInt(ints, pointer + i)]

\* The columns at the ring's left and right, then the rows between them.
Ring(x, y, iteration) ==
    LET columns == [i \in 1 .. 2 * iteration + 1 |->
                      LET row == y - iteration + i - 1
                      IN <<<<x - iteration, row>>, <<x + iteration, row>>>>]
        rows == [i \in 1 .. 2 * iteration - 1 |->
                   <<<<x - iteration + i, y - iteration>>, <<x - iteration + i, y + iteration>>>>]
    IN IF iteration = 0 THEN <<<<x, y>>>> ELSE FlattenSeq(columns) \o FlattenSeq(rows)

FindEdgeIdsInNeighborhood(info, ints, q, iteration) ==
    LET inside == SelectSeq(Ring(CellX(info, q), CellY(info, q), iteration),
                            LAMBDA c : c[1] \in 0 .. info.parts - 1 /\ c[2] \in 0 .. info.parts - 1)
    IN FlattenSeq([i \in DOMAIN inside |-> fillIDs(info, ints, Encode(info, inside[i][1], inside[i][2]))])

----------------------------------------------------------------------------
\* Snap: where a point meets the network.

ConsiderEqual(p, q) ==
    /\ Lat(p) - Lat(q) < Near /\ Lat(q) - Lat(p) < Near
    /\ Lon(p) - Lon(q) < Near /\ Lon(q) - Lon(p) < Near

InvalidNode == -1
NewSnap(q) ==
    [queryPoint |-> q, queryDistance |-> <<1, 0>>, closestNode |-> InvalidNode, wayIndex |-> -1,
     closestEdge |-> <<>>, position |-> "edge", point |-> NaN]
IsValid(snap) == snap.closestNode >= 0

\* The crossing point is moved to a pillar or tower close to it.
CalcSnappedPoint(snap) ==
    LET points == snap.closestEdge.points
        last == Len(points) - 1
        from == points[snap.wayIndex + 1]
        to == points[snap.wayIndex + 2]
        crossing == CrossingPoint(snap.queryPoint, from, to)
    IN IF snap.position # "edge" THEN [snap EXCEPT !.point = from]
       ELSE IF ~ ValidEdgeDistance(snap.queryPoint, from, to) THEN snap
       ELSE IF ConsiderEqual(crossing, from)
            THEN IF snap.wayIndex = 0
                 THEN [snap EXCEPT !.point = from, !.position = "tower",
                                   !.closestNode = snap.closestEdge.baseNode]
                 ELSE [snap EXCEPT !.point = from, !.position = "pillar"]
       ELSE IF ConsiderEqual(crossing, to)
            THEN IF snap.wayIndex + 1 = last
                 THEN [snap EXCEPT !.point = to, !.wayIndex = @ + 1, !.position = "tower",
                                   !.closestNode = snap.closestEdge.adjNode]
                 ELSE [snap EXCEPT !.point = to, !.wayIndex = @ + 1, !.position = "pillar"]
       ELSE [snap EXCEPT !.point = crossing]

----------------------------------------------------------------------------
\* LocationIndexTree

\* What TraverseEdge reports: the closer of the towers, then for each stretch
\* of the edge its closest point or, failing that, the pillar at its end; it
\* stops at a point that is as good as the query point itself.
UpToClose(checks) ==
    LET close == {i \in DOMAIN checks : ~ Less(EqualNormedDelta, checks[i].dist)}
    IN IF close = {} THEN checks ELSE SubSeq(checks, 1, Min(close))

CloserTower(q, state) ==
    LET base == <<NormDist(q, Head(state.points)), 1>>
        adj == <<NormDist(q, Last(state.points)), 1>>
    IN IF Less(base, adj)
       THEN [node |-> state.baseNode, dist |-> base, wayIndex |-> 0, pos |-> "tower"]
       ELSE [node |-> state.adjNode, dist |-> adj, wayIndex |-> Len(state.points) - 1, pos |-> "tower"]

TraverseEdge(q, state) ==
    LET points == state.points
        length == Len(points) - 1
        stretch(i, node) ==
            IF ValidEdgeDistance(q, points[i], points[i + 1])
            THEN <<[node |-> node, dist |-> NormEdgeDist(q, points[i], points[i + 1]),
                    wayIndex |-> i - 1, pos |-> "edge"]>>
            ELSE IF i < length
                 THEN <<[node |-> node, dist |-> <<NormDist(q, points[i + 1]), 1>>,
                         wayIndex |-> i, pos |-> "pillar"]>>
            ELSE <<>>
        Checks(tower) == <<tower>> \o FlattenSeq([i \in 1 .. length |-> stretch(i, tower.node)])
    IN UpToClose(Checks(CloserTower(q, state)))

edgeCheck(snap, state, check) ==
    IF Less(check.dist, snap.queryDistance)
    THEN [snap EXCEPT !.queryDistance = check.dist, !.closestNode = check.node,
                      !.closestEdge = state, !.wayIndex = check.wayIndex, !.position = check.pos]
    ELSE snap

\* The distance to the border of the region searched, times the number of cells in a row.
CalculateRMin(info, q, padding) ==
    LET south == ScaledLat(info, q) - (CellY(info, q) - padding) * info.height
        north == (CellY(info, q) + padding + 1) * info.height - ScaledLat(info, q)
        west == ScaledLon(info, q) - (CellX(info, q) - padding) * info.width
        east == (CellX(info, q) + padding + 1) * info.width - ScaledLon(info, q)
    IN Min({south, north, west, east})

WithinRegion(info, q, dist, padding) ==
    LET rMin == CalculateRMin(info, q, padding)
    IN Less(<<dist[1] * info.parts * info.parts, dist[2]>>, <<rMin * rMin, 1>>)

RECURSIVE SearchRegion(_, _, _, _, _, _, _)
SearchRegion(net, info, ints, q, iteration, seen, snap) ==
    LET ids == FindEdgeIdsInNeighborhood(info, ints, q, iteration)
        new == SelectSeq(ids, LAMBDA e : e \notin seen
                                         /\ AcceptsSnap(net, GetEdgeIteratorStateForKey(net, 2 * e)))
        closer == FoldLeft(LAMBDA s, e :
                              LET state == GetEdgeIteratorStateForKey(net, 2 * e)
                              IN FoldLeft(LAMBDA s2, check : edgeCheck(s2, state, check), s, TraverseEdge(q, state)),
                           snap, new)
    IN IF \/ iteration = MaxRegionSearch
          \/ IsValid(snap) /\ WithinRegion(info, q, snap.queryDistance, iteration - 1)
       THEN snap
       ELSE SearchRegion(net, info, ints, q, iteration + 1, seen \cup Range(ids), closer)

FindClosest(net, info, ints, q) ==
    LET AtPoint(snapped) == [snapped EXCEPT !.queryDistance = <<Dist(snapped.point, q), 1>>]
        Snapped(snap) == IF IsValid(snap) THEN AtPoint(CalcSnappedPoint(snap)) ELSE snap
    IN Snapped(SearchRegion(net, info, ints, q, 0, {}, NewSnap(q)))

----------------------------------------------------------------------------
\* How far a point is from an edge, without the index.

LeastFraction(fractions) == CHOOSE x \in fractions : \A y \in fractions : ~ Less(y, x)

DistanceToEdge(net, q, e) ==
    LET points == FullGeometry(net, e)
        toStretch(i) == IF ValidEdgeDistance(q, points[i], points[i + 1])
                        THEN NormEdgeDist(q, points[i], points[i + 1])
                        ELSE LeastFraction({<<NormDist(q, points[i]), 1>>, <<NormDist(q, points[i + 1]), 1>>})
    IN LeastFraction({toStretch(i) : i \in 1 .. Len(points) - 1})
=============================================================================
