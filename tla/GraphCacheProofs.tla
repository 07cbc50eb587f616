-------------------------- MODULE GraphCacheProofs --------------------------
(***************************************************************************)
(* Crash safety of the graph cache, for any number of segments, crashes    *)
(* and versions of the OSM file.                                           *)
(***************************************************************************)
EXTENDS GraphCache, TLAPS

\* The files by name.
LEMMA FilesByName ==
    Files = {"properties", "nodes", "edges", "geometry", "edgekv_vals",
             "edgekv_keys", "turn_costs", "location_index"}
<1>1. DOMAIN LoadOrder = 1 .. 8
  BY DEF LoadOrder
<1> QED
  BY <1>1 DEF Files, Range, LoadOrder

\* load reads the properties first and the location index last, and every file.
LEMMA LoadOrderFacts ==
    /\ Len(LoadOrder) = 8
    /\ \A j \in 1 .. 8 : /\ LoadOrder[j] \in Files
                         /\ LoadOrder[j] = "properties" <=> j = 1
                         /\ LoadOrder[j] = "location_index" <=> j = 8
    /\ \A f \in Files : \E j \in 1 .. 8 : LoadOrder[j] = f
    /\ \A i, j \in 1 .. 8 : LoadOrder[i] = LoadOrder[j] => i = j
<1>1. Len(LoadOrder) = 8
  BY DEF LoadOrder
<1>2. \A j \in 1 .. 8 : /\ LoadOrder[j] \in Files
                        /\ LoadOrder[j] = "properties" <=> j = 1
                        /\ LoadOrder[j] = "location_index" <=> j = 8
  BY FilesByName DEF LoadOrder
<1>3. \A f \in Files : \E j \in 1 .. 8 : LoadOrder[j] = f
  BY FilesByName DEF LoadOrder
<1>4. \A i, j \in 1 .. 8 : LoadOrder[i] = LoadOrder[j] => i = j
  BY DEF LoadOrder
<1> QED
  BY <1>1, <1>2, <1>3, <1>4

\* process writes the properties last; from its second write on it writes every
\* file exactly once.
LEMMA FlushOrderFacts ==
    /\ Len(FlushOrder) = 9
    /\ \A j \in 1 .. 9 : /\ FlushOrder[j] \in Files
                         /\ FlushOrder[j] = "properties" <=> j = 9
    /\ \A f \in Files \ {"properties"} : \E j \in 2 .. 8 : FlushOrder[j] = f
    /\ \A i, j \in 2 .. 9 : FlushOrder[i] = FlushOrder[j] => i = j
<1>1. Len(FlushOrder) = 9
  BY DEF FlushOrder
<1>2. \A j \in 1 .. 9 : /\ FlushOrder[j] \in Files
                        /\ FlushOrder[j] = "properties" <=> j = 9
  BY FilesByName DEF FlushOrder
<1>3. \A f \in Files \ {"properties"} : \E j \in 2 .. 8 : FlushOrder[j] = f
  BY FilesByName DEF FlushOrder
<1>4. \A i, j \in 2 .. 9 : FlushOrder[i] = FlushOrder[j] => i = j
  BY DEF FlushOrder
<1> QED
  BY <1>1, <1>2, <1>3, <1>4
-----------------------------------------------------------------------------

\* A file that is not empty was written by some import.
WrittenByAnImport == \A f \in Files : disk[f].parts # 0 => disk[f].gen \in 1 .. MaxGen

\* While load runs, the properties are known to be whole and what was loaded
\* is what the disk holds.
LoadsFromDisk ==
    phase = "load" =>
        /\ k \in 1 .. 8
        /\ k > 1 => Committed
        /\ \A j \in 1 .. (k - 1) : memory[LoadOrder[j]] = disk[LoadOrder[j]].gen

\* An import starts only where there are no properties; until it comes to write
\* them they stay missing, and by then it has written every other file.
WritesPropertiesLast ==
    /\ phase = "read" => disk["properties"].parts = 0 /\ osmFile
    /\ phase = "flush" =>
        /\ importing \in 1 .. MaxGen
        /\ k \in 1 .. LastFlush
        /\ k < 9 => disk["properties"].parts = 0
        /\ ~Committed
        /\ \A j \in 2 .. (k - 1) : disk[FlushOrder[j]] = File(importing, Complete)

\* The inductive invariant.  That readable properties vouch for all files is not
\* inductive: it needs the history of the import that is about to write them.
IndInv ==
    /\ TypeOK
    /\ PropertiesCommit
    /\ ServesOneGeneration
    /\ OnlyCutOffPropertiesPanic
    /\ WrittenByAnImport
    /\ LoadsFromDisk
    /\ WritesPropertiesLast
-----------------------------------------------------------------------------

\* An empty directory and no process satisfy the inductive invariant.
LEMMA InitEstablishesIndInv == Init => IndInv
<1> SUFFICES ASSUME Init PROVE IndInv
  OBVIOUS
<1>1. \A f \in Files : disk[f] = [gen |-> 0, parts |-> 0] /\ memory[f] = 0
  BY DEF Init, File, NothingLoaded
<1>2. "properties" \in Files
  BY FilesByName
<1>3. Complete \in Nat \ {0}
  BY CacheAssumption DEF Complete
<1>4. ~Committed
  BY <1>1, <1>2, <1>3 DEF Committed
<1>5. TypeOK
  <2>1. disk \in [Files -> [gen : 0 .. MaxGen, parts : 0 .. Complete]]
    BY <1>3, CacheAssumption DEF Init, File
  <2>2. memory \in [Files -> 0 .. MaxGen]
    BY CacheAssumption DEF Init, NothingLoaded
  <2> QED
    BY <1>3, <2>1, <2>2, CacheAssumption, FlushOrderFacts DEF Init, TypeOK
<1> QED
  BY <1>1, <1>4, <1>5 DEF Init, IndInv, PropertiesCommit, ServesOneGeneration,
     OnlyCutOffPropertiesPanic, WrittenByAnImport, LoadsFromDisk, WritesPropertiesLast

\* One file read by load: from the second on the properties are whole, so every
\* other file is whole and of their import, and neither error can occur.
LEMMA LoadFilePreservesIndInv ==
    ASSUME IndInv, LoadFile
    PROVE  IndInv'
<1> DEFINE f == LoadOrder[k]
<1>1. k \in 1 .. 8 /\ f \in Files
  BY LoadOrderFacts DEF IndInv, LoadsFromDisk, LoadFile
<1>2. /\ f = "properties" <=> k = 1
      /\ f = "location_index" <=> k = 8
      /\ "nodes" \in Files /\ "properties" \in Files
  BY <1>1, LoadOrderFacts, FilesByName
<1>3. /\ disk \in [Files -> [gen : 0 .. MaxGen, parts : 0 .. Complete]]
      /\ memory \in [Files -> 0 .. MaxGen]
      /\ Complete \in Nat \ {0}
  BY CacheAssumption DEF IndInv, TypeOK, Complete
<1>4. /\ UNCHANGED <<disk, osm, config, part, importing, crashes>>
      /\ phase = "load"
      /\ Loaded(f) \/ NotThere(f) \/ Unreadable(f)
  BY DEF LoadFile
<1>5. k > 1 => \A g \in Files : disk[g] = disk["properties"] /\ disk[g].parts = Complete
  BY <1>4 DEF IndInv, LoadsFromDisk, PropertiesCommit, Committed
<1>6. k = 8 => memory["nodes"] = disk["nodes"].gen
  <2>1. LoadOrder[2] = "nodes"
    BY DEF LoadOrder
  <2> QED
    BY <1>4, <2>1 DEF IndInv, LoadsFromDisk
<1>7. PropertiesCommit' /\ WrittenByAnImport'
  BY <1>4 DEF IndInv, PropertiesCommit, Committed, WrittenByAnImport
<1> HIDE DEF f
<1>8. CASE Loaded(f)
  <2>1. /\ disk[f].parts = Complete
        /\ memory' = [memory EXCEPT ![f] = disk[f].gen]
        /\ phase' = IF k = 8 THEN "serving" ELSE "load"
        /\ k' = k + 1
    BY <1>8, LoadOrderFacts DEF Loaded, AfterLoad
  <2>2. Committed /\ Committed'
    BY <1>1, <1>2, <1>4, <1>5, <2>1 DEF Committed
  <2>3. \A j \in 1 .. k : memory'[LoadOrder[j]] = disk[LoadOrder[j]].gen
    <3>1. \A j \in 1 .. (k - 1) : /\ memory[LoadOrder[j]] = disk[LoadOrder[j]].gen
                                  /\ LoadOrder[j] # f /\ LoadOrder[j] \in Files
      BY <1>1, <1>4, LoadOrderFacts DEF IndInv, LoadsFromDisk, f
    <3>2. memory'[f] = disk[f].gen
      BY <1>1, <1>3, <2>1
    <3>3. \A j \in 1 .. k : j = k \/ j \in 1 .. (k - 1)
      BY <1>1
    <3> QED
      BY <1>3, <2>1, <3>1, <3>2, <3>3 DEF f
  <2>4. TypeOK'
    BY <1>1, <1>3, <1>4, <2>1, FlushOrderFacts DEF IndInv, TypeOK, config
  <2>5. ServesOneGeneration'
    <3>1. SUFFICES ASSUME k = 8
                   PROVE  /\ memory'["location_index"] # 0
                          /\ \A g \in Files : memory'[g] = memory'["nodes"]
      BY <1>1, <2>1 DEF ServesOneGeneration
    <3>2. \A g \in Files : memory'[g] = disk[g].gen
      BY <2>3, <3>1, LoadOrderFacts
    <3>3. \A g \in Files : disk[g] = disk["properties"] /\ disk[g].gen # 0
      BY <1>3, <1>5, <3>1 DEF IndInv, WrittenByAnImport
    <3> QED
      BY <1>2, <3>2, <3>3, FilesByName
  <2>6. OnlyCutOffPropertiesPanic' /\ WritesPropertiesLast'
    BY <2>1 DEF OnlyCutOffPropertiesPanic, WritesPropertiesLast
  <2>7. LoadsFromDisk'
    BY <1>1, <1>4, <2>1, <2>2, <2>3 DEF LoadsFromDisk
  <2> QED
    BY <1>7, <2>4, <2>5, <2>6, <2>7 DEF IndInv
<1>9. CASE NotThere(f)
  <2>1. /\ disk[f].parts = 0 /\ k' = k /\ memory' = memory
        /\ phase' = CASE f = "properties"     -> IF osmFile THEN "read" ELSE "idle"
                      [] f = "location_index" -> "serving"
                      [] OTHER                -> "failed"
    BY <1>9 DEF NotThere
  <2>2. k = 1
    BY <1>1, <1>3, <1>5, <2>1
  <2>3. disk["properties"].parts = 0 /\ phase' = IF osmFile THEN "read" ELSE "idle"
    BY <1>2, <2>1, <2>2
  <2>4. TypeOK'
    BY <1>4, <2>1, <2>3 DEF IndInv, TypeOK, config
  <2> QED
    BY <1>4, <1>7, <2>3, <2>4 DEF IndInv, ServesOneGeneration, config,
       OnlyCutOffPropertiesPanic, LoadsFromDisk, WritesPropertiesLast
<1>10. CASE Unreadable(f)
  <2>1. /\ \/ disk[f].parts \in 1 .. (Complete - 1)
           \/ f = "location_index" /\ disk[f].parts = Complete /\ disk[f].gen # memory["nodes"]
        /\ phase' = "panicked" /\ k' = k /\ memory' = memory
    BY <1>10 DEF Unreadable
  <2>2. k = 1
    <3>1. SUFFICES ASSUME k > 1 PROVE FALSE
      BY <1>1
    <3>2. disk[f].parts = Complete
      BY <1>1, <1>5, <3>1
    <3>3. f = "location_index" /\ disk[f].gen # memory["nodes"]
      BY <1>3, <2>1, <3>2
    <3>4. memory["nodes"] = disk["nodes"].gen
      BY <1>2, <1>6, <3>3
    <3> QED
      BY <1>1, <1>2, <1>5, <3>1, <3>3, <3>4
  <2>3. disk["properties"].parts \in 1 .. (Complete - 1)
    BY <1>2, <2>1, <2>2
  <2>4. TypeOK'
    BY <1>4, <2>1 DEF IndInv, TypeOK, config
  <2> QED
    BY <1>4, <1>7, <2>1, <2>3, <2>4 DEF IndInv, ServesOneGeneration,
       OnlyCutOffPropertiesPanic, LoadsFromDisk, WritesPropertiesLast, Complete
<1> QED
  BY <1>4, <1>8, <1>9, <1>10
-----------------------------------------------------------------------------

\* The OSM file is read where there are no properties.
LEMMA ReadGraphPreservesIndInv ==
    ASSUME IndInv, ReadGraph
    PROVE  IndInv'
<1>1. /\ disk' = disk /\ memory' = memory /\ UNCHANGED <<osm, config, crashes>>
      /\ phase = "read" /\ k' = 1 /\ part' = 0
      /\ \/ phase' = "flush" /\ importing' = osm
         \/ phase' = "failed" /\ importing' = importing
  BY DEF ReadGraph
<1>2. disk["properties"].parts = 0 /\ osmFile /\ ~Committed
  BY <1>1, CacheAssumption DEF IndInv, WritesPropertiesLast, Committed, Complete
<1>3. TypeOK'
  BY <1>1, FlushOrderFacts, CacheAssumption DEF IndInv, TypeOK, config, Complete
<1>4. WritesPropertiesLast'
  <2>1. LastFlush' \in {1, 9}
    BY FlushOrderFacts DEF LastFlush
  <2> QED
    BY <1>1, <1>2, <2>1 DEF IndInv, TypeOK, WritesPropertiesLast, Committed
<1> QED
  BY <1>1, <1>2, <1>3, <1>4 DEF IndInv, PropertiesCommit, Committed, ServesOneGeneration,
     OnlyCutOffPropertiesPanic, WrittenByAnImport, LoadsFromDisk, config

\* One write of an import: the properties become whole by the last write only,
\* and by then the loop has written every other file.
LEMMA FlushPartPreservesIndInv ==
    ASSUME IndInv, FlushPart
    PROVE  IndInv'
<1> DEFINE f == FlushOrder[k]
<1>1. /\ phase = "flush"
      /\ disk' = [disk EXCEPT ![f] = File(importing, part)]
      /\ UNCHANGED <<osm, config, importing, crashes>>
  BY DEF FlushPart
<1>2. /\ importing \in 1 .. MaxGen
      /\ LastFlush \in {1, 9} /\ k \in 1 .. LastFlush /\ k \in 1 .. 9
      /\ k < 9 => disk["properties"].parts = 0
      /\ ~Committed
      /\ \A j \in 2 .. (k - 1) : disk[FlushOrder[j]] = File(importing, Complete)
  <2>1. LastFlush \in {1, 9}
    BY FlushOrderFacts DEF LastFlush
  <2> QED
    BY <1>1, <2>1 DEF IndInv, WritesPropertiesLast
<1>3. /\ f \in Files /\ "properties" \in Files
      /\ f = "properties" <=> k = 9
      /\ \A j \in 2 .. (k - 1) : FlushOrder[j] # f /\ FlushOrder[j] \in Files
  BY <1>2, FlushOrderFacts, FilesByName
<1>4. /\ disk \in [Files -> [gen : 0 .. MaxGen, parts : 0 .. Complete]]
      /\ memory \in [Files -> 0 .. MaxGen]
      /\ part \in 0 .. Complete
      /\ Complete \in Nat \ {0} /\ MaxGen \in Nat \ {0}
  BY CacheAssumption DEF IndInv, TypeOK, Complete
<1> HIDE DEF f
<1>5. /\ File(importing, part) \in [gen : 0 .. MaxGen, parts : 0 .. Complete]
      /\ File(importing, part).parts = part
      /\ part # 0 => File(importing, part).gen = importing
  BY <1>2, <1>4 DEF File
<1>6. /\ disk' \in [Files -> [gen : 0 .. MaxGen, parts : 0 .. Complete]]
      /\ disk'[f] = File(importing, part)
      /\ \A g \in Files : g # f => disk'[g] = disk[g]
  BY <1>1, <1>3, <1>4, <1>5
<1>7. WrittenByAnImport'
  BY <1>2, <1>5, <1>6 DEF IndInv, WrittenByAnImport
<1>8. \A j \in 2 .. (k - 1) : disk'[FlushOrder[j]] = File(importing, Complete)
  BY <1>2, <1>3, <1>6
<1>9. CASE ~FileWritten
  <2>1. /\ part' = part + 1 /\ k' = k /\ phase' = phase /\ memory' = memory
        /\ part \in 0 .. (Complete - 1)
    BY <1>4, <1>9 DEF FlushPart, FileWritten
  <2>2. /\ ~Committed'
        /\ k < 9 => disk'["properties"].parts = 0
    BY <1>2, <1>3, <1>4, <1>5, <1>6, <2>1 DEF Committed
  <2>3. TypeOK'
    BY <1>1, <1>4, <1>6, <2>1 DEF IndInv, TypeOK, config, Complete
  <2>4. WritesPropertiesLast'
    BY <1>1, <1>2, <1>8, <2>1, <2>2 DEF WritesPropertiesLast, Complete, File, LastFlush, config
  <2> QED
    BY <1>1, <1>7, <2>1, <2>2, <2>3, <2>4 DEF IndInv, PropertiesCommit,
       ServesOneGeneration, OnlyCutOffPropertiesPanic, LoadsFromDisk
<1>10. CASE FileWritten
  <2>1. /\ part = Complete /\ part' = 0 /\ k' = k + 1
        /\ IF k = LastFlush
           THEN phase' = "serving" /\ memory' = [g \in Files |-> importing]
           ELSE phase' = phase /\ memory' = memory
    BY <1>10 DEF FlushPart, FileWritten
  <2>2. LastFlush' = LastFlush
    BY <1>1 DEF LastFlush, config
  <2>3. \A j \in 2 .. k : disk'[FlushOrder[j]] = File(importing, Complete)
    <3>1. \A j \in 2 .. k : j \in 2 .. (k - 1) \/ FlushOrder[j] = f
      BY <1>2 DEF f
    <3> QED
      BY <1>6, <1>8, <2>1, <3>1
  <2>4. k < 9 => (disk'["properties"].parts = 0 /\ ~Committed')
    BY <1>2, <1>3, <1>4, <1>6 DEF Committed
  <2>5. PropertiesCommit'
    <3>1. SUFFICES ASSUME k = 9 PROVE \A g \in Files : disk'[g] = disk'["properties"]
      BY <1>2, <2>4 DEF PropertiesCommit
    <3>2. \A g \in Files : \E j \in 2 .. 9 : FlushOrder[j] = g
      BY FlushOrderFacts
    <3> QED
      BY <1>3, <2>3, <3>1, <3>2
  <2>6. TypeOK'
    <3>1. memory' \in [Files -> 0 .. MaxGen]
      BY <1>2, <1>4, <2>1
    <3>2. k' \in 1 .. (Len(FlushOrder) + 1) /\ part' \in 0 .. Complete
      BY <1>2, <1>4, <2>1, FlushOrderFacts
    <3> QED
      BY <1>1, <1>6, <2>1, <3>1, <3>2 DEF IndInv, TypeOK, config, Complete
  <2>7. ServesOneGeneration'
    BY <1>1, <1>2, <1>4, <2>1, FilesByName DEF ServesOneGeneration
  <2>8. WritesPropertiesLast'
    <3>1. SUFFICES ASSUME k # LastFlush, phase' = "flush"
                   PROVE  WritesPropertiesLast'
      BY <1>1, <2>1 DEF WritesPropertiesLast
    <3>2. k \in 1 .. 8
      BY <1>2, <3>1
    <3>3. disk'["properties"].parts = 0 /\ ~Committed'
      BY <2>4, <3>2
    <3>4. k + 1 \in 1 .. LastFlush
      BY <1>2, <3>1
    <3> QED
      BY <1>1, <1>2, <2>1, <2>2, <2>3, <3>1, <3>2, <3>3, <3>4
         DEF WritesPropertiesLast, File, Complete
  <2> QED
    BY <1>1, <1>7, <2>1, <2>5, <2>6, <2>7, <2>8 DEF IndInv,
       OnlyCutOffPropertiesPanic, LoadsFromDisk
<1> QED
  BY <1>9, <1>10
-----------------------------------------------------------------------------

\* Every step keeps the inductive invariant.  The remaining steps leave the disk
\* alone and the phases "load", "read" and "flush", except for a start, which
\* enters "load", and the removal of the whole cache while no process runs.
LEMMA NextPreservesIndInv == IndInv /\ [Next]_vars => IndInv'
<1> SUFFICES ASSUME IndInv, [Next]_vars PROVE IndInv'
  OBVIOUS
<1> USE DEF IndInv, TypeOK, PropertiesCommit, Committed, ServesOneGeneration,
            OnlyCutOffPropertiesPanic, WrittenByAnImport, LoadsFromDisk, WritesPropertiesLast
<1>1. Complete \in Nat \ {0} /\ MaxGen \in Nat \ {0} /\ MaxCrashes \in Nat
      /\ Len(FlushOrder) = 9 /\ "properties" \in Files
  BY CacheAssumption, FlushOrderFacts, FilesByName DEF Complete
<1>2. NothingLoaded \in [Files -> 0 .. MaxGen]
  BY <1>1 DEF NothingLoaded
<1>3. CASE ImportOrLoad
  <2>1. /\ command' \in {"server", "import", "embedded"}
        /\ osmFile' \in BOOLEAN /\ storeOnFlush' \in BOOLEAN
    BY <1>3 DEF ImportOrLoad
  <2>2. /\ phase' = "load" /\ k' = 1 /\ part' = 0 /\ memory' = NothingLoaded
        /\ UNCHANGED <<disk, osm, importing, crashes>>
    BY <1>3 DEF ImportOrLoad
  <2> QED
    BY <1>1, <1>2, <2>1, <2>2
<1>4. CASE LoadFile
  BY <1>4, LoadFilePreservesIndInv
<1>5. CASE ReadGraph
  BY <1>5, ReadGraphPreservesIndInv
<1>6. CASE FlushPart
  BY <1>6, FlushPartPreservesIndInv
<1>7. CASE Report
  BY <1>7 DEF Report, config
<1>8. CASE Exit
  BY <1>1, <1>2, <1>8 DEF Exit, Ended, config
<1>9. CASE Crash
  BY <1>1, <1>2, <1>9 DEF Crash, Ended, config
<1>10. CASE NewExtract
  BY <1>1, <1>10 DEF NewExtract, config, LastFlush
<1>11. CASE RemoveCache
  <2>1. disk' = [f \in Files |-> [gen |-> 0, parts |-> 0]]
        /\ phase = "down" /\ UNCHANGED <<osm, config, phase, k, part, importing, memory, crashes>>
    BY <1>11 DEF RemoveCache, File
  <2> QED
    BY <1>1, <2>1 DEF config
<1>12. CASE UNCHANGED vars
  BY <1>12 DEF vars, config, LastFlush
<1> QED
  BY <1>3, <1>4, <1>5, <1>6, <1>7, <1>8, <1>9, <1>10, <1>11, <1>12 DEF Next

\* The inductive invariant holds through every sequence of starts and kills.
THEOREM Invariance == Spec => []IndInv
  BY InitEstablishesIndInv, NextPreservesIndInv, PTL DEF Spec

\* Positions, generations and parts of files keep their ranges.
THEOREM TypeCorrect == Spec => []TypeOK
  BY Invariance, PTL DEF IndInv

\* A readable properties file vouches for all other files of the cache (the
\* order of the flushes in process and BaseGraph.Flush).
THEOREM PropertiesCommitTheCache == Spec => []PropertiesCommit
  BY Invariance, PTL DEF IndInv

\* Whatever a start serves comes from one import, its location index included
\* (GraphHopper.load and process).
THEOREM OneGenerationServed == Spec => []ServesOneGeneration
  BY Invariance, PTL DEF IndInv

\* A start panics only over properties that were cut off, and fails only where
\* nothing was committed (RAMDataAccess.LoadExisting, GraphHopper.load).
THEOREM PanicsOnlyOnCutOffProperties == Spec => []OnlyCutOffPropertiesPanic
  BY Invariance, PTL DEF IndInv

\* No later start or import writes to a committed cache (GraphHopper.process is
\* reached only where there are no properties).
THEOREM CommittedCacheStays == Spec => CommittedCacheIsKept
<1> DEFINE Kept == Committed => disk' = disk \/ \A f \in Files : disk'[f].parts = 0
<1>1. IndInv /\ [Next]_vars => [Kept]_vars
  <2> SUFFICES ASSUME IndInv, Next PROVE Kept
    OBVIOUS
  <2>1. CASE FlushPart
    BY <2>1 DEF IndInv, WritesPropertiesLast, FlushPart
  <2>2. CASE RemoveCache
    BY <2>2 DEF RemoveCache, File
  <2>3. CASE ~FlushPart /\ ~RemoveCache
    BY <2>3 DEF Next, ImportOrLoad, LoadFile, ReadGraph, Report, Exit, Crash, Ended, NewExtract
  <2> QED
    BY <2>1, <2>2, <2>3
<1> QED
  BY <1>1, Invariance, PTL DEF Spec, CommittedCacheIsKept
=============================================================================
