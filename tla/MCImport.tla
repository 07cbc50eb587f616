------------------------------ MODULE MCImport ------------------------------
(***************************************************************************)
(* Small OSM files.  One family varies how up to two ways share, repeat    *)
(* and miss up to four nodes and which of them are barriers; another       *)
(* varies the tags of a single way; a third has ferries of no length.      *)
(***************************************************************************)
EXTENDS OSMImport

Node(osm, place, tags) == [osm |-> osm, place |-> place, tags |-> tags]

\* Node 2 is near the line from 1 to 3 but not that from 1 to 4; 1 and 5 share their coordinates.
Places == <<<<0, 0>>, <<3, 0>>, <<6, 1>>, <<9, 4>>, <<0, 0>>>>

AllNodes(barriers) ==
    [osm \in 1 .. 5 |->
        Node(osm, Places[osm],
             IF osm \in barriers THEN [barrier |-> "gate"]
             ELSE IF osm = 1 THEN [highway |-> "motorway_junction", name |-> "Exit"] ELSE <<>>)]

Without(missing, barriers) == SelectSeq(AllNodes(barriers), LAMBDA node : node.osm \notin missing)

Way(id, nodes, tags) == [id |-> id, nodes |-> nodes, tags |-> tags]
Residential == [highway |-> "residential"]
Motorway == [highway |-> "motorway", name |-> "A;B", destination |-> ""]

\* Sequences in which a new node is always the least that has not occurred yet.
Canonical(n) ==
    {s \in [1 .. n -> 1 .. Min({n, 4})] :
        \A i \in 1 .. n : s[i] <= 1 + (IF i = 1 THEN 0 ELSE Max({s[j] : j \in 1 .. i - 1}))}

FirstWays == UNION {Canonical(n) : n \in 2 .. 4} \cup
             {<<1, 2, 3, 4, 1>>, <<1, 2, 3, 1, 4>>, <<1, 2, 3, 4, 2>>, <<1, 5, 2, 3, 4>>}
SecondWays == {<<>>} \cup {s \in [1 .. 2 -> 1 .. 4] : s[1] # s[2]}
              \cup {s \in [1 .. 3 -> 1 .. 4] : s[1] # s[2] /\ s[2] # s[3]}

\* The nodes the file lacks and those that are barriers.
Cases == ({{}} \X ({{}} \cup {{i} : i \in 1 .. 4} \cup {{2, 3}}))
         \cup ({{i} : i \in 1 .. 4} \X {{}, {1}})

StructuralFiles ==
    {[ways |-> IF w2 = <<>> THEN <<Way(1, w1, Motorway)>>
               ELSE <<Way(1, w1, Motorway), Way(2, w2, Residential)>>,
      nodes |-> Without(c[1], c[2]), maxLeafEntries |-> max] :
         w1 \in FirstWays, w2 \in SecondWays, c \in Cases, max \in {1, 2}}

\* An empty value stands for a tag that the way does not have.
Tagged(values) == [key \in {k \in DOMAIN values : values[k] # ""} |-> values[key]]

AccessTags ==
    {Tagged([highway |-> h, oneway |-> o, motorcar |-> m, access |-> a, junction |-> j]) :
        h \in {"residential", "pedestrian", "track", "footway"}, o \in {"", "yes", "-1"},
        m \in {"", "yes", "no", "agricultural;yes", "unknown"}, a \in {"", "no", "private", "yes"},
        j \in {"", "roundabout"}}

SpeedTags ==
    {Tagged([highway |-> h, maxspeed |-> m, surface |-> s, tracktype |-> t] @@ ("maxspeed:backward" :> b)) :
        h \in {"primary", "living_street", "track", "trunk_link", "construction"},
        m \in {"", "none", "walk", "50", "2", "5 mph", "fast"}, b \in {"", "10 knots"},
        s \in {"", "gravel"}, t \in {"", "grade3", "grade5"}}

FerryTags ==
    {Tagged([route |-> r, highway |-> h, ferry |-> f, foot |-> p, duration |-> d, access |-> a]) :
        r \in {"ferry", "shuttle_train"}, h \in {"", "service"}, f \in {"", "no"}, p \in {"", "yes"},
        d \in {"", "0", "PT36S", "late"}, a \in {"", "yes", "no"}}

MixedTags ==
    {Tagged([highway |-> h, ford |-> f, service |-> s, vehicle |-> v, bridge |-> b] @@
            ("motorcar:conditional" :> c @@ "vehicle:forward" :> x @@ "vehicle:backward" :> y)) :
        h \in {"service", "pedestrian"}, f \in {"", "yes"}, s \in {"", "emergency_access"},
        v \in {"", "no", "destination", "forestry"}, b \in {"", "yes"}, c \in {"", "yes @ (Mo-Fr)", "no @ 8"},
        x \in {"", "no"}, y \in {"", "no"}}
    \cup {[man_made |-> "pier"], [railway |-> "platform"], [railway |-> "rail"], <<>>}

TagFiles ==
    {[ways |-> <<Way(1, <<1, 2>>, tags)>>, nodes |-> SubSeq(AllNodes({}), 1, 2), maxLeafEntries |-> 200] :
        tags \in AccessTags \cup SpeedTags \cup FerryTags \cup MixedTags}

\* Ferries between nodes 1 and 5, which share their coordinates, and on to node 2, with
\* and without a road before them.
FerryFiles ==
    {[ways |-> roads \o <<Way(2, nodes, [route |-> "ferry", duration |-> d])>>,
      nodes |-> Without({3}, {}), maxLeafEntries |-> 2] :
        nodes \in {<<1, 5>>, <<1, 5, 1>>, <<1, 1>>, <<1, 5, 2>>, <<1, 3, 5>>, <<4, 2>>},
        d \in {"0", "PT36S", "late"}, roads \in {<<>>, <<Way(1, <<4, 1, 2>>, Residential)>>}}

MCFiles == StructuralFiles \cup TagFiles \cup FerryFiles

----------------------------------------------------------------------------
MCSpeedTexts == "50" :> <<500, "">> @@ "2" :> <<20, "km/h">> @@ "5 mph" :> <<50, "mph">>
                @@ "10 knots" :> <<100, "knots">>
MCLists == "agricultural;yes" :> {"agricultural", "yes"}
MCConditions == "yes @ (Mo-Fr)" :> "yes" @@ "no @ 8" :> "no"
MCDurations == "0" :> <<0, 0, 0, 0, 0, 0>> @@ "PT36S" :> <<0, 0, 0, 0, 0, 36>>
MCNames == "A;B" :> "A, B"
MCIgnoredHighways == {"construction"}
MCMaxWayPointDistance == <<1, 1>>
MCFirstArtificialId == -9
MCConverted == <<30, 30>>
=============================================================================
