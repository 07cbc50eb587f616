SPECIFICATION Spec
CONSTANTS
    NoEntry = NoEntry
    OptimizeEvery = 2
    Converted <- MCConverted
    NoTags = NoTags
    NaN = NaN
    Unit = 1000
    FirstArtificialId <- MCFirstArtificialId
    SpeedTexts <- MCSpeedTexts
    Lists <- MCLists
    Conditions <- MCConditions
    IgnoredHighways <- MCIgnoredHighways
    Files <- MCFiles
    MaxWayPointDistance <- MCMaxWayPointDistance
    MaxDistance = 10000
    HugeSpeed = 100000
    PreferredLanguage = ""
    Names <- MCNames
    Durations <- MCDurations
INVARIANTS
    NoEdgeAcrossGap
CHECK_DEADLOCK FALSE
