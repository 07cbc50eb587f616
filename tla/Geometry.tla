------------------------------ MODULE Geometry ------------------------------
(***************************************************************************)
(* Distances between points and the simplification of a list of points     *)
(* (core/util), on a plane: a point is a pair of integers, its latitude    *)
(* and its longitude, so the factor that shrinks longitudes is one.  A     *)
(* squared distance is a fraction, so that nothing is rounded before       *)
(* distances are compared.                                                 *)
(***************************************************************************)
EXTENDS Integers, Sequences, SequencesExt

CONSTANTS NaN,         \* in place of a point that has been removed from a list
          Unit         \* the length of the grid's unit, a multiple of ten

Lat(p) == p[1]
Lon(p) == p[2]

NormDist(p, q) == (Lat(p) - Lat(q)) * (Lat(p) - Lat(q)) + (Lon(p) - Lon(q)) * (Lon(p) - Lon(q))

\* CalcDist; what is slanted is rounded to a tenth of the grid's unit.
IntegerRoot(n) ==
    LET RECURSIVE Root(_, _)
        Root(low, high) ==
            IF high - low <= 1 THEN low
            ELSE LET mid == (low + high) \div 2
                 IN IF mid * mid <= n THEN Root(mid, high) ELSE Root(low, mid)
    IN Root(0, Min({n + 2, 40000}))

Dist(p, q) == IF Lat(p) = Lat(q) THEN Unit * Max({Lon(p) - Lon(q), Lon(q) - Lon(p)})
              ELSE IF Lon(p) = Lon(q) THEN Unit * Max({Lat(p) - Lat(q), Lat(q) - Lat(p)})
              ELSE (Unit \div 10) * IntegerRoot(100 * NormDist(p, q))

PointListDistance(points) ==
    FoldFunction(LAMBDA d, total : d + total, 0,
                 [i \in 1 .. Len(points) - 1 |-> Dist(points[i], points[i + 1])])

\* The squared distance of r to the line through a and b, as numerator and
\* denominator.  On a horizontal or vertical line only the other coordinate counts.
NormEdgeDist(r, a, b) ==
    LET dLat == Lat(b) - Lat(a)
        dLon == Lon(b) - Lon(a)
        cross == (Lon(r) - Lon(a)) * dLat - (Lat(r) - Lat(a)) * dLon
    IN IF dLat = 0 THEN <<(Lat(r) - Lat(a)) * (Lat(r) - Lat(a)), 1>>
       ELSE IF dLon = 0 THEN <<(Lon(r) - Lon(a)) * (Lon(r) - Lon(a)), 1>>
       ELSE <<cross * cross, dLon * dLon + dLat * dLat>>

Less(x, y) == x[1] * y[2] < y[1] * x[2]

\* Whether the foot of the perpendicular lies between a and b.
ValidEdgeDistance(r, a, b) ==
    LET Dot(p, q) == Lat(p) * Lat(q) + Lon(p) * Lon(q)
        Minus(p, q) == <<Lat(p) - Lat(q), Lon(p) - Lon(q)>>
    IN /\ Dot(Minus(r, a), Minus(b, a)) > 0
       /\ Dot(Minus(b, r), Minus(b, a)) > 0

\* The foot itself: that of a slanted line is taken down to the grid.
CrossingPoint(r, a, b) ==
    LET dLat == Lat(b) - Lat(a)
        dLon == Lon(b) - Lon(a)
        norm == dLon * dLon + dLat * dLat
        along == (Lon(r) - Lon(a)) * dLon + (Lat(r) - Lat(a)) * dLat
    IN IF dLat = 0 THEN <<Lat(a), Lon(r)>>
       ELSE IF dLon = 0 THEN <<Lat(r), Lon(a)>>
       ELSE <<Lat(a) + ((along * dLat) \div norm), Lon(a) + ((along * dLon) \div norm)>>

----------------------------------------------------------------------------
\* RamerDouglasPeucker.  maxDist is the square of the distance allowed, a fraction.

\* Mutation of Farthest: the nearest point instead.
Nearest(points, from, to) ==
    LET D(i) == NormEdgeDist(points[i], points[from], points[to])
        inner == {i \in from + 1 .. to - 1 : points[i] # NaN}
    IN CHOOSE i \in inner : \A j \in inner : ~ Less(D(j), D(i)) /\ (~ Less(D(i), D(j)) => i <= j)

\* The point of points[from .. to] farthest from the line between the two, and its distance.
Farthest(points, from, to) ==
    LET D(i) == NormEdgeDist(points[i], points[from], points[to])
        inner == {i \in from + 1 .. to - 1 : points[i] # NaN}
    IN CHOOSE i \in inner : \A j \in inner : ~ Less(D(i), D(j)) /\ (~ Less(D(j), D(i)) => i <= j)

RECURSIVE subSimplify(_, _, _, _), subSimplifyAt(_, _, _, _, _)
subSimplifyAt(points, from, i, to, maxDist) ==
    IF Less(NormEdgeDist(points[i], points[from], points[to]), maxDist)
    THEN [j \in DOMAIN points |-> IF from < j /\ j < to THEN NaN ELSE points[j]]
    ELSE subSimplify(subSimplify(points, from, i, maxDist), i, to, maxDist)

subSimplify(points, from, to, maxDist) ==
    IF to - from < 2 THEN points
    ELSE subSimplifyAt(points, from, Farthest(points, from, to), to, maxDist)

RemoveNaN(points) == SelectSeq(points, LAMBDA p : p # NaN)

\* The list is simplified in stretches of 500 points, of which lists here are one.
Simplify(points, maxDist) == RemoveNaN(subSimplify(points, 1, Len(points), maxDist))
=============================================================================
