SPECIFICATION Spec
CONSTANTS
    Segments = 2
    MaxGen = 2
    MaxCrashes = 2
INVARIANTS PropertiesCommit ServesOneGeneration OnlyCutOffPropertiesPanic
PROPERTIES CommittedCacheIsKept CommittedCacheIsServed
