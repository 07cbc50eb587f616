----------------------------- MODULE GraphCache -----------------------------
(***************************************************************************)
(* The graph cache on disk and the start-up that loads or creates it       *)
(* (core/graphhopper.go ImportOrLoad, load, process).  A file is written by *)
(* core/storage/ram_data_access.go Flush: os.Create truncates it, then the *)
(* header and the segments are written one by one.  A process may die      *)
(* between any two writes; what it had written stays.  Two processes never *)
(* work on the same directory at once (nothing in the code excludes it).   *)
(*                                                                         *)
(* A generation is the content of the OSM file at the time of an import;   *)
(* a file or a loaded part carries the generation it was made from.        *)
(***************************************************************************)
EXTENDS Integers, Sequences, Functions

CONSTANTS Segments,     \* segments per file
          MaxGen,       \* bound on the versions of the OSM file
          MaxCrashes    \* bound on the crashes

ASSUME CacheAssumption ==
    Segments \in Nat \ {0} /\ MaxGen \in Nat \ {0} /\ MaxCrashes \in Nat

VARIABLES disk,         \* file -> [gen, parts]
          osm,          \* generation of the OSM file as it is now
          command,      \* who called ImportOrLoad
          osmFile,      \* is datareader.file configured
          storeOnFlush,
          phase,        \* what the process is doing, "down" when there is none
          k, part,      \* position in LoadOrder or FlushOrder, and in the file
          importing,    \* generation being imported
          memory,       \* file -> generation in memory, 0 when not loaded
          crashes

config == <<command, osmFile, storeOnFlush>>
vars == <<disk, osm, config, phase, k, part, importing, memory, crashes>>

Complete == Segments + 1    \* the header and every segment

\* Mutation: the properties are read after the node file.
LoadOrderNodesFirst == <<"nodes", "properties", "edges", "geometry", "edgekv_vals",
                         "edgekv_keys", "turn_costs", "location_index">>

\* BaseGraph.LoadExisting between properties and location index; the last is
\* optional.
LoadOrder == <<"properties", "nodes", "edges", "geometry", "edgekv_vals",
               "edgekv_keys", "turn_costs", "location_index">>

\* Mutation: the properties are written first.
FlushOrderPropertiesFirst ==
    <<"location_index", "properties",
      "geometry", "edgekv_keys", "edgekv_vals", "edges", "nodes", "turn_costs", "location_index">>

\* Mutation: the location index is written last.
FlushOrderIndexLast ==
    <<"location_index",
      "geometry", "edgekv_keys", "edgekv_vals", "edges", "nodes", "turn_costs", "properties",
      "location_index">>

\* Mutation: the location index is not written at all.
FlushOrderWithoutIndex ==
    <<"geometry", "edgekv_keys", "edgekv_vals", "edges", "nodes", "turn_costs", "properties">>

\* PrepareIndex flushes the location index; the rest is under storeOnFlush.
FlushOrder == <<"location_index",
                "geometry", "edgekv_keys", "edgekv_vals", "edges", "nodes", "turn_costs",
                "location_index", "properties">>

Files == Range(LoadOrder)

\* LoadExisting treats a file of size 0 like one that does not exist.
File(gen, parts) == [gen |-> IF parts = 0 THEN 0 ELSE gen, parts |-> parts]

NothingLoaded == [f \in Files |-> 0]

Init ==
    /\ disk = [f \in Files |-> File(0, 0)]
    /\ osm = 1
    /\ command = "server" /\ osmFile = TRUE /\ storeOnFlush = TRUE
    /\ phase = "down"
    /\ k = 1 /\ part = 0 /\ importing = 0
    /\ memory = NothingLoaded
    /\ crashes = 0

\* ImportOrLoad, called by a command ("server" stands for "route" as well) in a
\* new process, or once more by an embedding program while fullyLoaded is not
\* set.  The commands keep storeOnFlush's default.
ImportOrLoad ==
    /\ \/ phase = "down" /\ command' \in {"server", "import", "embedded"}
       \/ phase \in {"failed", "idle"} /\ command = "embedded" /\ UNCHANGED command
    /\ osmFile' \in BOOLEAN
    /\ storeOnFlush' \in (IF command' = "embedded" THEN BOOLEAN ELSE {TRUE})
    /\ phase' = "load"
    /\ k' = 1 /\ part' = 0
    /\ memory' = NothingLoaded
    /\ UNCHANGED <<disk, osm, importing, crashes>>

AfterLoad == IF k = Len(LoadOrder) THEN "serving" ELSE "load"

Loaded(f) ==
    /\ disk[f].parts = Complete
    \* a location index whose checksum is not the graph's panics
    /\ f = "location_index" => disk[f].gen = memory["nodes"]
    /\ memory' = [memory EXCEPT ![f] = disk[f].gen]
    /\ phase' = AfterLoad
    /\ k' = k + 1

NotThere(f) ==
    /\ disk[f].parts = 0
    /\ phase' = CASE f = "properties"     -> IF osmFile THEN "read" ELSE "idle"
                  [] f = "location_index" -> "serving"    \* without an index
                  [] OTHER                -> "failed"     \* could not load existing graph
    /\ UNCHANGED <<k, memory>>

\* "segment is empty?", "location index was opened with incorrect graph".  A write of a
\* segment is whole or not done: one cut off in the middle would be loaded as it is.
Unreadable(f) ==
    /\ \/ disk[f].parts \in 1 .. (Complete - 1)
       \/ f = "location_index" /\ disk[f].parts = Complete /\ disk[f].gen # memory["nodes"]
    /\ phase' = "panicked"
    /\ UNCHANGED <<k, memory>>

\* load: one file is opened and read.
LoadFile ==
    /\ phase = "load"
    /\ LET f == LoadOrder[k] IN Loaded(f) \/ NotThere(f) \/ Unreadable(f)
    /\ UNCHANGED <<disk, osm, config, part, importing, crashes>>

\* process, up to the first file written; ReadGraph may return an error.  Its two passes
\* open the OSM file one after the other and are taken to find the same one.
ReadGraph ==
    /\ phase = "read"
    /\ \/ phase' = "flush" /\ importing' = osm
       \/ phase' = "failed" /\ UNCHANGED importing
    /\ k' = 1 /\ part' = 0
    /\ UNCHANGED <<disk, osm, config, memory, crashes>>

\* Position after which process writes nothing more.
LastFlush == IF storeOnFlush THEN Len(FlushOrder) ELSE 1

\* Mutation: the loop over the segments runs once too often.
FileWrittenLate == part > Complete

\* The loop over the segments has ended.
FileWritten == part = Complete

\* RAMDataAccess.Flush: truncate (part 0), write the header, write a segment.
FlushPart ==
    /\ phase = "flush"
    /\ disk' = [disk EXCEPT ![FlushOrder[k]] = File(importing, part)]
    /\ IF ~FileWritten
       THEN part' = part + 1 /\ UNCHANGED <<k, phase, memory>>
       ELSE /\ part' = 0
            /\ k' = k + 1
            /\ IF k = LastFlush
               THEN phase' = "serving" /\ memory' = [f \in Files |-> importing]
               ELSE UNCHANGED <<phase, memory>>
    /\ UNCHANGED <<osm, config, importing, crashes>>

\* runImport ends whenever ImportOrLoad returned no error, which includes
\* "nothing to load and nothing to import".
Report ==
    /\ command = "import" /\ phase \in {"serving", "idle"}
    /\ phase' = "exited"
    /\ UNCHANGED <<disk, osm, config, k, part, importing, memory, crashes>>

\* The end of a process: the memory is gone, the disk stays.
Ended ==
    /\ phase' = "down"
    /\ k' = 1 /\ part' = 0 /\ importing' = 0
    /\ memory' = NothingLoaded
    /\ UNCHANGED <<disk, osm, config>>

Exit ==
    /\ phase \in {"serving", "failed", "idle", "panicked", "exited"}
    /\ Ended
    /\ UNCHANGED crashes

\* A kill, or the panic of a failed write, while the process loads or imports.
Crash ==
    /\ phase \in {"load", "read", "flush"}
    /\ crashes < MaxCrashes
    /\ crashes' = crashes + 1
    /\ Ended

\* The operator replaces the OSM file, at any time.
NewExtract ==
    /\ osm < MaxGen
    /\ osm' = osm + 1
    /\ UNCHANGED <<disk, config, phase, k, part, importing, memory, crashes>>

\* The operator deletes the cache while no process runs.
RemoveCache ==
    /\ phase = "down"
    /\ disk' = [f \in Files |-> File(0, 0)]
    /\ UNCHANGED <<osm, config, phase, k, part, importing, memory, crashes>>

Next ==
    \/ ImportOrLoad
    \/ LoadFile
    \/ ReadGraph
    \/ FlushPart
    \/ Report
    \/ Exit
    \/ Crash
    \/ NewExtract
    \/ RemoveCache

\* ImportOrLoad runs on the main goroutine and waits for nothing but the disk.
Spec == Init /\ [][Next]_vars /\ WF_vars(LoadFile \/ ReadGraph \/ FlushPart)

-----------------------------------------------------------------------------

TypeOK ==
    /\ disk \in [Files -> [gen : 0 .. MaxGen, parts : 0 .. Complete]]
    /\ osm \in 1 .. MaxGen
    /\ osmFile \in BOOLEAN /\ storeOnFlush \in BOOLEAN
    /\ command \in {"server", "import", "embedded"}
    /\ phase \in {"down", "load", "read", "flush", "serving", "idle", "failed",
                  "panicked", "exited"}
    /\ k \in 1 .. (Len(FlushOrder) + 1) /\ part \in 0 .. Complete
    /\ importing \in 0 .. MaxGen
    /\ memory \in [Files -> 0 .. MaxGen]
    /\ crashes \in 0 .. MaxCrashes

Committed == disk["properties"].parts = Complete

\* process writes the properties last, so that a readable properties file
\* vouches for all the others: complete, and of the same import, however many
\* interrupted imports of other extracts left their files in the directory.
PropertiesCommit ==
    Committed => \A f \in Files : disk[f] = disk["properties"]

\* What is served comes from one import in all its parts, the location index
\* included: without it fullyLoaded is set all the same and the router
\* dereferences nil.
ServesOneGeneration ==
    phase = "serving" =>
        memory["location_index"] # 0 /\ \A f \in Files : memory[f] = memory["nodes"]

\* The only cache that makes a start panic is one whose properties file was cut
\* off after its header; nothing else an interrupted import leaves behind is
\* ever parsed, and load never reports "could not load existing graph".
OnlyCutOffPropertiesPanic ==
    /\ phase = "panicked" => disk["properties"].parts \in 1 .. (Complete - 1)
    /\ phase = "failed" => osmFile /\ ~Committed

\* Once committed, a cache is not written to again by any later start: it
\* changes only when the operator removes it as a whole.
CommittedCacheIsKept ==
    [][Committed => disk' = disk \/ \A f \in Files : disk'[f].parts = 0]_vars

\* A start that finds a committed cache serves it, unless it is killed.
CommittedCacheIsServed ==
    (phase = "load" /\ Committed) ~> phase \in {"serving", "down"}
=============================================================================
