----------------------------- MODULE TagParsers -----------------------------
(***************************************************************************)
(* What the import makes of a way's tags: which ways it takes (package     *)
(* routing) and the values it stores for an edge of a way (package         *)
(* parsers), in the order in which graphhopper.go registers the parsers.   *)
(*                                                                         *)
(* Tags are a function from keys to strings.  What a text says is given by *)
(* constants: the number and unit of a speed, the parts of a list, the     *)
(* value a condition starts with.  Speeds are in tenths of a km/h; stored  *)
(* speeds are in the steps of their encoded value.                         *)
(***************************************************************************)
EXTENDS Integers, Sequences, SequencesExt, FiniteSetsExt

CONSTANTS SpeedTexts,     \* the text of a speed: its number in tenths and its unit
          Lists,          \* a text with semicolons: its parts
          Conditions,     \* the text of a condition: what stands before the @
          IgnoredHighways \* of the configuration

Missing == 2^30           \* ev.MaxSpeedMissing
MaxSpeedNone == -10
MaxSpeed150 == 1500

----------------------------------------------------------------------------
\* ReaderElement
GetTag(tags, key) == IF key \in DOMAIN tags THEN tags[key] ELSE ""
HasTag(tags, key) == key \in DOMAIN tags
HasValue(tags, key, values) == GetTag(tags, key) \in values

\* An absent tag has the empty list of parts.
Parts(value) == IF value \in DOMAIN Lists THEN Lists[value] ELSE {value}

\* OSMParsers.AcceptWay
AcceptWay(tags) ==
    IF GetTag(tags, "highway") # "" THEN GetTag(tags, "highway") \notin IgnoredHighways
    ELSE \/ GetTag(tags, "route") # ""
         \/ GetTag(tags, "man_made") = "pier"
         \/ GetTag(tags, "railway") = "platform"

----------------------------------------------------------------------------
\* FerrySpeedCalculator

IsFerry(tags) == \/ GetTag(tags, "route") = "ferry" /\ GetTag(tags, "ferry") # "no"
                 \/ GetTag(tags, "route") = "shuttle_train" /\ GetTag(tags, "shuttle_train") # "no"

\* A decimal encoded value without infinity, with a factor of 2 km/h.
Steps(tenths) == (tenths + 10) \div 20
SmallestNonZero == 20
MaxFerrySpeed == 31 * 20
MaxCarSpeed == 127 * 20

RoundUnit(tenths) == 10 * ((tenths + 5) \div 10)

NotANumber == -1          \* in place of a speed of 0/0

\* way: its tags, the speed its duration gives (or 0) and, of an edge, the distance in mm.
\* A speed that is not a number would be returned: see CanHandleWayTags.
GetFerrySpeed(way) ==
    IF way.speedFromDuration > 0 THEN RoundUnit((way.speedFromDuration * 5) \div 7)
    ELSE IF way.distance < 500000 THEN 10 ELSE 60

MinMax(tenths) == Min({MaxFerrySpeed, Max({tenths, SmallestNonZero})})

----------------------------------------------------------------------------
\* OSMMaxSpeedParser

UnitValue(number, unit) ==
    CASE unit \in {"", "km/h", "kmh", "kph"} -> number
      [] unit = "mph" -> (number * 16093) \div 10000
      [] unit = "knots" -> (number * 1852) \div 1000
      [] OTHER -> 0

ParseMaxspeedString(str) ==
    IF str \in {"none", "unlimited"} THEN MaxSpeedNone
    ELSE IF str \in {"walk", "living_street"} THEN 60
    ELSE IF str \notin DOMAIN SpeedTexts THEN Missing
    ELSE LET value == UnitValue(SpeedTexts[str][1], SpeedTexts[str][2])
         IN IF value < 48 THEN Missing ELSE value

AtMost150(tags, max) ==
    IF max \notin {Missing, MaxSpeedNone} THEN Min({MaxSpeed150, max})
    ELSE IF /\ max = MaxSpeedNone
            /\ HasValue(tags, "highway",
                        {"motorway", "motorway_link", "trunk", "trunk_link", "primary"})
         THEN MaxSpeed150
    ELSE Missing

parseMaxSpeedTag(tags, key) == AtMost150(tags, ParseMaxspeedString(GetTag(tags, key)))

KnownOr(max, other) == IF max # Missing THEN max ELSE other

ParseMaxSpeed(tags, reverse) ==
    KnownOr(parseMaxSpeedTag(tags, IF reverse THEN "maxspeed:backward" ELSE "maxspeed:forward"),
            parseMaxSpeedTag(tags, "maxspeed"))

----------------------------------------------------------------------------
\* Car access: AbstractAccessParser and CarAccessParser

CarKeys == <<"motorcar", "motor_vehicle", "vehicle", "access">>    \* ToOSMRestrictions

restrictedValues == {"no", "restricted", "military", "emergency", "private", "permit",
                     "agricultural", "forestry", "delivery"}
allowedValues == {"yes", "designated", "official", "permissive", "destination"}

carHighwayValues ==
    {"motorway", "motorway_link", "trunk", "trunk_link", "primary", "primary_link", "secondary",
     "secondary_link", "tertiary", "tertiary_link", "unclassified", "residential", "living_street",
     "service", "road", "track", "pedestrian"}
carTrackTypeValues == {"grade1", "grade2", "grade3", ""}
carBarriers ==
    {"kissing_gate", "fence", "bollard", "stile", "turnstile", "cycle_barrier", "motorcycle_barrier",
     "block", "bus_trap", "sump_buster", "jersey_barrier"}

\* The restriction keys the tags give a value, in their order.
Given(tags) == SelectSeq(CarKeys, LAMBDA key : GetTag(tags, key) # "")
FirstWhere(keys, Test(_)) == LET found == SelectSeq(keys, Test) IN IF found = <<>> THEN "" ELSE found[1]

ConditionAllows(tags, key) ==
    LET text == GetTag(tags, key \o ":conditional")
    IN text \in DOMAIN Conditions /\ Conditions[text] \in allowedValues

\* A condition on a key that precedes the restricted one.
hasConditionalOverride(tags, restricted) ==
    \E i \in DOMAIN CarKeys :
        /\ \E j \in DOMAIN CarKeys : CarKeys[j] = restricted /\ i < j
        /\ ConditionAllows(tags, CarKeys[i])

getFerryAccess(tags) ==
    LET first == FirstWhere(Given(tags), LAMBDA key : TRUE)
        value == IF first = "" THEN "" ELSE tags[first]
        allowed == \/ value \in allowedValues
                   \/ value = "" /\ ~ HasTag(tags, "foot") /\ ~ HasTag(tags, "bicycle")
                   \/ HasValue(tags, "hgv", {"yes"})
    IN IF allowed /\ GetTag(tags, "highway") = "" THEN "ferry" ELSE "skip"

getAccessForFord(tags) ==
    IF \E i \in DOMAIN CarKeys : GetTag(tags, CarKeys[i]) \in allowedValues THEN "way" ELSE "skip"

\* Mutation of getAccessFromRestrictions: the most general key decides.
getAccessFromRestrictionsLast(tags) ==
    LET decides(key) == Parts(tags[key]) \cap (allowedValues \cup restrictedValues) # {}
        key == FirstWhere(Reverse(Given(tags)), decides)
    IN IF key = "" THEN "way"
       ELSE IF Parts(tags[key]) \cap allowedValues # {} THEN "way" ELSE "skip"

\* The first key whose value is known decides.
getAccessFromRestrictions(tags) ==
    LET decides(key) == Parts(tags[key]) \cap (allowedValues \cup restrictedValues) # {}
        key == FirstWhere(Given(tags), decides)
    IN IF key = ""
       THEN IF GetTag(tags, "service") = "emergency_access" THEN "skip" ELSE "way"
       ELSE IF Parts(tags[key]) \cap allowedValues # {} \/ hasConditionalOverride(tags, key)
            THEN "way" ELSE "skip"

getAccess(tags) ==
    IF IsFerry(tags) THEN getFerryAccess(tags)
    ELSE IF \/ GetTag(tags, "highway") \notin carHighwayValues
            \/ /\ GetTag(tags, "highway") = "track"
               /\ GetTag(tags, "tracktype") \notin carTrackTypeValues
         THEN "skip"
    ELSE IF HasValue(tags, "ford", {"yes"}) THEN getAccessForFord(tags)
    ELSE getAccessFromRestrictions(tags)

\* Only what a key or its condition allows opens a pedestrian way.
pedestrianAccess(tags) ==
    LET decides(key) == \/ GetTag(tags, key) \in allowedValues \cup restrictedValues
                        \/ ConditionAllows(tags, key)
        key == FirstWhere(CarKeys, decides)
    IN IF key # "" /\ GetTag(tags, key) \notin restrictedValues THEN "way" ELSE "skip"

GetAccess(tags) ==
    IF GetTag(tags, "highway") = "pedestrian" THEN pedestrianAccess(tags)
    ELSE IF HasValue(tags, "highway", {"footway", "cycleway", "steps"}) THEN "skip"
    ELSE getAccess(tags)

isOneway(tags) == HasValue(tags, "oneway", {"yes", "1", "true"})
isReverseOneway(tags) == HasValue(tags, "oneway", {"-1", "reverse"})
isDirectionBlocked(tags, direction) ==
    \E prefix \in {"vehicle", "motor_vehicle", "motorcar"} :
        GetTag(tags, prefix \o ":" \o direction) = "no"

\* CarAccessParser.HandleWayTags: the directions that are opened.
Opened(access, tags, roundabout) ==
    LET along == CASE isOneway(tags) -> {"fwd"}
                   [] ~ isOneway(tags) /\ isReverseOneway(tags) -> {"bwd"}
                   [] OTHER -> IF isDirectionBlocked(tags, "forward") THEN {"bwd"}
                               ELSE IF isDirectionBlocked(tags, "backward") THEN {"fwd"}
                               ELSE {"fwd", "bwd"}
    IN CASE access = "skip" -> {}
         [] access = "ferry" -> {"fwd", "bwd"}
         [] access = "way" -> along \ (IF roundabout THEN {"bwd"} ELSE {})

CarAccess(tags, roundabout) == Opened(GetAccess(tags), tags, roundabout)

\* IsBarrier of a node's tags.
isFordBlocked(tags) == HasValue(tags, "ford", {"yes", "pond"})
IsBarrier(tags) ==
    LET decides(key) == tags[key] \in restrictedValues \cup allowedValues
        key == FirstWhere(Given(tags), decides)
    IN IF GetTag(tags, "barrier") # "" /\ key # "" THEN tags[key] \in restrictedValues
       ELSE GetTag(tags, "barrier") \in carBarriers \/ isFordBlocked(tags)

----------------------------------------------------------------------------
\* CarAverageSpeedParser

defaultSpeed(highway) ==
    CASE highway = "motorway" -> 1000
      [] highway \in {"motorway_link", "trunk"} -> 700
      [] highway \in {"trunk_link", "primary"} -> 650
      [] highway \in {"primary_link", "secondary"} -> 600
      [] highway \in {"secondary_link", "tertiary"} -> 500
      [] highway = "tertiary_link" -> 400
      [] highway \in {"unclassified", "residential"} -> 300
      [] highway \in {"living_street", "pedestrian"} -> 60
      [] highway \in {"service", "road"} -> 200
      [] highway = "track" -> 150
      [] OTHER -> 100

badSurfaceSet ==
    {"cobblestone", "grass_paver", "gravel", "sand", "paving_stones", "dirt", "ground", "grass",
     "unpaved", "compacted", "wood", "pebblestone", "fine_gravel", "earth", "sett",
     "unhewn_cobblestone"}

getSpeed(tags) ==
    LET type == GetTag(tags, "tracktype")
    IN IF GetTag(tags, "highway") = "track" /\ type \in {"grade1", "grade2", "grade3"}
       THEN CASE type = "grade1" -> 200 [] type = "grade2" -> 150 [] type = "grade3" -> 100
       ELSE defaultSpeed(GetTag(tags, "highway"))

ApplyBadSurfaceSpeed(tags, speed) ==
    IF GetTag(tags, "surface") \in badSurfaceSet THEN Min({speed, 300}) ELSE speed

LimitedTo(max, speed) == IF max = Missing THEN speed ELSE Min({(max * 9) \div 10, MaxCarSpeed})

\* SetSpeed panics below half of the smallest speed.
CanSetSpeed(tenths) == tenths >= SmallestNonZero \div 2
SetSpeed(tenths) == Steps(Max({tenths, SmallestNonZero}))

CarSpeed(way, reverse, ferrySpeed) ==
    IF IsFerry(way.tags) THEN IF ferrySpeed = 0 THEN MinMax(GetFerrySpeed(way)) ELSE ferrySpeed * 20
    ELSE LimitedTo(ParseMaxSpeed(way.tags, reverse),
                   ApplyBadSurfaceSpeed(way.tags, getSpeed(way.tags)))

----------------------------------------------------------------------------
\* The parsers with an enum, and roundabouts.

RoadAccessOrder == <<"yes", "destination", "customers", "delivery", "private", "agricultural",
                     "forestry", "no">>
RoadAccessFind(name) ==
    IF name \in {"permit", "service"} THEN 5
    ELSE IF name \in Range(RoadAccessOrder) THEN CHOOSE i \in 1 .. 8 : RoadAccessOrder[i] = name
    ELSE 1

RoadAccess(tags) ==
    LET all == UNION {Parts(tags[key]) : key \in Range(Given(tags))}
    IN IF all = {} THEN "yes" ELSE RoadAccessOrder[Min({RoadAccessFind(part) : part \in all})]

\* A link has the class of the road it leads to.
LinkOf == [motorway_link |-> "motorway", trunk_link |-> "trunk", primary_link |-> "primary",
           secondary_link |-> "secondary", tertiary_link |-> "tertiary"]
roadClassNames ==
    {"motorway", "trunk", "primary", "secondary", "tertiary", "residential", "unclassified", "service",
     "road", "track", "bridleway", "steps", "cycleway", "path", "living_street", "footway",
     "pedestrian", "platform", "corridor", "construction", "busway"}
RoadClass(tags) ==
    LET highway == GetTag(tags, "highway")
        class == IF highway \in DOMAIN LinkOf THEN LinkOf[highway] ELSE highway
    IN IF class \in roadClassNames THEN class ELSE "other"
RoadClassLink(tags) == GetTag(tags, "highway") \in DOMAIN LinkOf

RoadEnvironment(tags) ==
    IF HasValue(tags, "route", {"ferry", "shuttle_train"}) THEN "ferry"
    ELSE IF HasValue(tags, "bridge", {"yes"}) THEN "bridge"
    ELSE IF HasValue(tags, "tunnel", {"yes"}) THEN "tunnel"
    ELSE IF HasValue(tags, "ford", {"yes"}) \/ HasValue(tags, "highway", {"ford"}) THEN "ford"
    ELSE "road"

Roundabout(tags) == HasValue(tags, "junction", {"roundabout", "circular"})

\* What FerrySpeedCalculator stores for every way.
FerrySpeed(way) == Steps(MinMax(GetFerrySpeed(way)))

\* A parser panics: SetDecimal on a ferry speed that is not a number, which rounding
\* and MinMax let pass, or SetSpeed.
CanHandleWayTags(way) ==
    /\ way.speedFromDuration # NotANumber
    /\ \A reverse \in BOOLEAN : CanSetSpeed(CarSpeed(way, reverse, FerrySpeed(way)))

\* OSMParsers.HandleWayTags: what the parsers leave in the flags of a new edge.
\* A missing maxspeed leaves zero.
HandleWayTags(way) ==
    LET tags == way.tags
        ferry == FerrySpeed(way)
        MaxSpeed(reverse) == Steps(KnownOr(ParseMaxSpeed(tags, reverse), 0))
        roundabout == Roundabout(tags)
    IN [roundabout |-> roundabout, roadClass |-> RoadClass(tags), roadClassLink |-> RoadClassLink(tags),
        roadEnvironment |-> RoadEnvironment(tags), roadAccess |-> RoadAccess(tags), wayId |-> way.id,
        maxSpeed |-> [fwd |-> MaxSpeed(FALSE), bwd |-> MaxSpeed(TRUE)], ferrySpeed |-> ferry,
        access |-> CarAccess(tags, roundabout),
        speed |-> [fwd |-> SetSpeed(CarSpeed(way, FALSE, ferry)),
                   bwd |-> SetSpeed(CarSpeed(way, TRUE, ferry))]]
=============================================================================
