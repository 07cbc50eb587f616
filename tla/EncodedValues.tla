--------------------------- MODULE EncodedValues ---------------------------
(***************************************************************************)
(* Values of a few bits packed into the ints of an edge: core/routing/ev,  *)
(* and the layout that core/routing/util/encoding_manager.go gives them.   *)
(*                                                                         *)
(* An encoded value is a record of its kind, its layout and the greatest   *)
(* value written so far.  Decimals are integers in halves of the factor,   *)
(* so that rounding can be seen.                                           *)
(***************************************************************************)
EXTENDS Integers, SequencesExt

CONSTANTS IntBits,    \* 32
          ByteBits,   \* 8
          Infinite,   \* +Inf as a decimal
          NoMaximum   \* math.MinInt32, before anything is written

ASSUME BitsAssumption == IntBits \in Nat \ {0} /\ ByteBits \in Nat \ {0}

\* NewIntEncodedValueImplFull; bits are those asked for.
NewEncodedValue(kind, bits, minStorable, negate, twoDirections, maxIsInfinity) ==
    LET max == 2^bits - 1
    IN  [kind |-> kind, bits |-> IF negate THEN bits + 1 ELSE bits,
         min |-> IF negate THEN -max ELSE minStorable, max |-> max + minStorable,
         negate |-> negate, twoDirections |-> twoDirections,
         maxIsInfinity |-> maxIsInfinity, values |-> << >>,
         maxValue |-> NoMaximum, fwd |-> << >>, bwd |-> << >>]

NewBoolean(twoDirections) == NewEncodedValue("bool", 1, 0, FALSE, twoDirections, FALSE)

\* bits.Len
BitLength(n) == CHOOSE b \in 0 .. n : 2^b > n /\ \A c \in 0 .. b - 1 : 2^c <= n

NewEnum(count, twoDirections) ==
    NewEncodedValue("enum", BitLength(count - 1), 0, FALSE, twoDirections, FALSE)

NewString(expected, twoDirections) ==
    NewEncodedValue("string", BitLength(expected), 0, FALSE, twoDirections, FALSE)

-----------------------------------------------------------------------------
\* InitializerConfig

NewConfig == [dataIndex |-> -1, shift |-> IntBits, nextShift |-> IntBits]

\* Bits that do not fit into what is left of an int start the next one.
NextPlace(cfg, usedBits) ==
    LET last == cfg.nextShift - 1
        spills == (last + usedBits) \div IntBits > last \div IntBits
        shift == IF spills THEN 0 ELSE cfg.nextShift
    IN  [dataIndex |-> IF spills THEN cfg.dataIndex + 1 ELSE cfg.dataIndex,
         shift |-> shift, nextShift |-> shift + usedBits]

Place(cfg) == [index |-> cfg.dataIndex, shift |-> cfg.shift]

RequiredBits(cfg) == cfg.dataIndex * IntBits + cfg.nextShift
RequiredInts(cfg) == (RequiredBits(cfg) + IntBits - 1) \div IntBits
RequiredBytes(cfg) == (RequiredBits(cfg) + ByteBits - 1) \div ByteBits

\* IntEncodedValueImpl.Init and Builder.Add: the value's places, after which
\* the builder is a pair of the values added and the configuration.
Add(builder, ev) ==
    LET cfg == NextPlace(builder.cfg, ev.bits)
        back == IF ev.twoDirections THEN NextPlace(cfg, ev.bits) ELSE cfg
    IN  [cfg |-> back,
         evs |-> Append(builder.evs,
                    [ev EXCEPT !.fwd = Place(cfg),
                               !.bwd = IF ev.twoDirections THEN Place(back) ELSE @])]

\* Start, Add for each, Build
Build(specs) == FoldLeft(Add, [cfg |-> NewConfig, evs |-> << >>], specs)

-----------------------------------------------------------------------------
\* Reading and writing.  An access takes an edge's ints as a function of the
\* data index, here of one edge.

\* flags & mask >> shift
Bits(word, shift, bits) == (word \div 2^shift) % 2^bits

\* flags &^ mask | value << shift
WithBits(word, shift, bits, value) ==
    word + (value - Bits(word, shift, bits)) * 2^shift

Stored(place, ints, ev) == ev.min + Bits(ints[place.index], place.shift, ev.bits)

GetInt(ev, reverse, ints) ==
    IF ev.twoDirections /\ reverse THEN Stored(ev.bwd, ints, ev)
    ELSE IF ev.negate /\ reverse THEN -Stored(ev.fwd, ints, ev)
    ELSE Stored(ev.fwd, ints, ev)

\* What UncheckedSet refuses with a panic, and checkValue.
CanSet(ev, reverse, value) ==
    /\ reverse => ev.negate \/ ev.twoDirections
    /\ value \in ev.min .. ev.max

Written(ev, reverse, value) == IF ev.negate /\ reverse THEN -value ELSE value

\* UncheckedSet, on the edge's ints and on the encoded value.
PlaceOf(ev, reverse) == IF reverse /\ ~ev.negate THEN ev.bwd ELSE ev.fwd

SetInt(ev, reverse, ints, value) ==
    LET place == PlaceOf(ev, reverse)
    IN  [ints EXCEPT ![place.index] =
            WithBits(@, place.shift, ev.bits, Written(ev, reverse, value) - ev.min)]

\* Mutation: the maximum is that of the last write.
MaxUpdatedToLast(ev, reverse, value) == [ev EXCEPT !.maxValue = Written(ev, reverse, value)]

MaxUpdated(ev, reverse, value) ==
    LET v == Written(ev, reverse, value)
    IN  IF ev.maxValue = NoMaximum \/ v > ev.maxValue THEN [ev EXCEPT !.maxValue = v] ELSE ev

GetMaxOrMaxStorableInt(ev) == IF ev.maxValue = NoMaximum THEN ev.max ELSE ev.maxValue

\* math.Round of a number of halves: a half is rounded away from zero.
Round(halves) == IF halves >= 0 THEN (halves + 1) \div 2 ELSE -((1 - halves) \div 2)

CanSetDecimal(ev, reverse, value) ==
    /\ reverse => ev.negate \/ ev.twoDirections
    /\ IF value = Infinite THEN ev.maxIsInfinity
       ELSE value >= 2 * ev.min /\ (ev.maxIsInfinity \/ value <= 2 * ev.max)

\* SetDecimal: the int that is stored.
DecimalToInt(ev, value) ==
    IF value = Infinite THEN ev.max
    ELSE IF ev.maxIsInfinity /\ value >= 2 * ev.max THEN ev.max - 1
    ELSE Round(value)

IntToDecimal(ev, int) == IF ev.maxIsInfinity /\ int = ev.max THEN Infinite ELSE 2 * int

GetDecimal(ev, reverse, ints) == IntToDecimal(ev, GetInt(ev, reverse, ints))
GetMaxOrMaxStorableDecimal(ev) == IntToDecimal(ev, GetMaxOrMaxStorableInt(ev))

\* SetString: a new string takes the next index, 0 stands for none.
MaxValues(ev) == 2^ev.bits - 1
IndexOf(ev, s) == IF s \in {ev.values[i] : i \in DOMAIN ev.values}
                  THEN CHOOSE i \in DOMAIN ev.values : ev.values[i] = s ELSE 0
WithString(ev, s) ==
    IF s = "" \/ IndexOf(ev, s) > 0 THEN ev ELSE [ev EXCEPT !.values = Append(@, s)]
CanSetString(ev, s) == s = "" \/ IndexOf(ev, s) > 0 \/ Len(ev.values) < MaxValues(ev)
GetString(ev, reverse, ints) ==
    LET v == GetInt(ev, reverse, ints) IN IF v = 0 THEN "" ELSE ev.values[v]

-----------------------------------------------------------------------------
\* SerializeEncodedValue and DeserializeEncodedValue: all fields, but an enum
\* comes back as an int.
Deserialized(ev) == IF ev.kind = "enum" THEN [ev EXCEPT !.kind = "int"] ELSE ev
=============================================================================
