SPECIFICATION Spec
CONSTANTS
    Inf = Inf
    NaN = NaN
    Unit = 10
    MinResolution = 2
    MaxRegionSearch = 4
    EqualNormedDelta <- MCEqualNormedDelta
    Near = 1
    Configurations <- MCConfigurations
    Requests <- MCRequests
    Profiles <- MCProfiles
    SimplifyResponse = TRUE
    WayPointMaxDistance <- MCWayPointMaxDistance
INVARIANTS
    ClosestEdgeFound
    QueryGraphIsSubdivision
    ResponseFollowsWaypoints
    SnappedPointsAreConnected
