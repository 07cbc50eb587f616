----------------------------- MODULE EdgeData ------------------------------
(***************************************************************************)
(* What an edge carries besides its nodes: distance, encoded values, key   *)
(* values and way geometry, down to the bytes they are kept in             *)
(* (core/storage/base_graph.go, base_graph_nodes_and_edges.go,             *)
(* edge_iterator_state_impl.go and kv_storage.go), and how they come back  *)
(* after a flush and a restart.  The number of edges is fixed here; how    *)
(* edges are linked is the matter of BaseGraph.                            *)
(*                                                                         *)
(* expected is what the callers have written: it is not in the program.    *)
(***************************************************************************)
EXTENDS RAMIntDataAccess, EncodedValues

CONSTANTS Edges,        \* 0 .. the number of edges less one
          Variants,     \* graphs: [is3D, specs], specs the values given to the builder
          Inputs,       \* values written: ints, decimals, strings, distances
          Towers,       \* the places of the nodes 0 and 1, by dimension
          Geometries,   \* pillar nodes of an edge, each a sequence of ints
          KeyValues,    \* functions from keys, sequences of bytes, to values [type, bytes]; a key has one type
          None,         \* nil
          MaxWrites     \* bound on the writes of a behaviour

VARIABLES is3D, em, nodes, edges, geometry, kv, expected, disk, writes
vars == <<is3D, em, nodes, edges, geometry, kv, expected, disk, writes>>

-----------------------------------------------------------------------------
\* The edge's fields: initEdgeLayout

BytesForFlags == em.bytesForFlags

nodeA == 0
nodeB == 4
dist == 16
keyValuesRef == 20
flags == 24
geo == flags + BytesForFlags
EdgeEntryBytes == geo + 5
Pointer(e) == e * EdgeEntryBytes

GetDist(e) == GetInt4(edges, Pointer(e) + dist)

\* SetGeoRef and GetGeoRef: five bytes, an int and a signed high byte.
WithGeoRef(da, e, ref) ==
    SetByte(SetInt4(da, Pointer(e) + geo, ref), Pointer(e) + geo + 4, ref \div IntBase)
GetGeoRef(e) ==
    (GetInt4(edges, Pointer(e) + geo) % IntBase)
        + IntBase * ToSigned(GetByte(edges, Pointer(e) + geo + 4), 1)

WithKeyValuesRef(da, e, ref) == SetInt4(da, Pointer(e) + keyValuesRef, ref)
GetKeyValuesRef(e) == GetInt4(edges, Pointer(e) + keyValuesRef)

\* getFlagInt: the last int may have fewer than four bytes.
FlagPosition(e, index) == Pointer(e) + flags + 4 * index
Remaining(index) == BytesForFlags - 4 * index

getFlagInt(e, index) ==
    LET pos == FlagPosition(e, index)
    IN  CASE Remaining(index) = 3 ->
                 (GetShort(edges, pos) % ByteBase^2) * ByteBase + GetByte(edges, pos + 2)
          [] Remaining(index) = 2 -> GetShort(edges, pos) % ByteBase^2
          [] Remaining(index) = 1 -> GetByte(edges, pos)
          [] OTHER -> GetInt4(edges, pos) % IntBase

\* Mutation: three bytes are written like a short.
setFlagIntShort(da, e, index, value) ==
    LET pos == FlagPosition(e, index)
    IN  CASE Remaining(index) \in {2, 3} -> SetShort(da, pos, value)
          [] Remaining(index) = 1 -> SetByte(da, pos, value)
          [] OTHER -> SetInt4(da, pos, value)

setFlagInt(da, e, index, value) ==
    LET pos == FlagPosition(e, index)
    IN  CASE Remaining(index) = 3 ->
                 SetByte(SetShort(da, pos, value \div ByteBase), pos + 2, value % ByteBase)
          [] Remaining(index) = 2 -> SetShort(da, pos, value)
          [] Remaining(index) = 1 -> SetByte(da, pos, value)
          [] OTHER -> SetInt4(da, pos, value)

Flags(e) == [i \in 0 .. em.ints - 1 |-> getFlagInt(e, i)]

-----------------------------------------------------------------------------
\* Nodes are kept in ints: initNodeLayout, with turn costs.

lat == 4
lon == 8
ele == 12
NodeEntryBytes == IF is3D THEN 20 ELSE 16
NodePointer(n) == n * NodeEntryBytes

\* ghNodeAccess.SetNode on the graph's node store, and its getters.
SetNode(da, n, p) ==
    LET flat == SetIntAt(SetIntAt(da, NodePointer(n) + lat, p[1]), NodePointer(n) + lon, p[2])
    IN  IF is3D THEN SetIntAt(flat, NodePointer(n) + ele, p[3]) ELSE flat

NodeAt(n) ==
    LET flat == <<GetIntAt(nodes, NodePointer(n) + lat), GetIntAt(nodes, NodePointer(n) + lon)>>
    IN  IF is3D THEN Append(flat, GetIntAt(nodes, NodePointer(n) + ele)) ELSE flat

-----------------------------------------------------------------------------
\* Way geometry

coordBytes == IF is3D THEN 11 ELSE 8

PointBytes(p) ==
    ToBytes(p[1], 4) \o ToBytes(p[2], 4) \o (IF is3D THEN ToBytes(p[3], 3) ELSE << >>)

PointAt(bytes, off) ==
    LET int(i, n) == FromBytes(SubSeq(bytes, off + i, off + i + n - 1))
        flat == <<ToSigned(int(1, 4), 4), ToSigned(int(5, 4), 4)>>
    IN  IF is3D THEN Append(flat, int(9, 3)) ELSE flat

createWayGeometryBytes(pillars, reverse) ==
    LET ordered == IF reverse THEN Reverse(pillars) ELSE pillars
    IN  ToBytes(Len(pillars), 3) \o FlattenSeq([i \in DOMAIN ordered |-> PointBytes(ordered[i])])

\* The third byte is or-ed to a signed short: a negative one is not changed.
getPillarCount(ref) ==
    LET short == GetShort(geometry.bytes, ref)
    IN  IF short < 0 THEN short ELSE short + ByteBase^2 * GetByte(geometry.bytes, ref + 2)

\* nextGeoRef
Allocated(bytes) ==
    [bytes |-> EnsureCapacity(geometry.bytes, geometry.maxGeoRef + bytes),
     maxGeoRef |-> geometry.maxGeoRef + bytes]

Pillars(e, reverse) ==
    LET ref == GetGeoRef(e)
        count == getPillarCount(ref)
        bytes == GetBytes(geometry.bytes, ref + 3, count * coordBytes)
        stored == [i \in 1 .. count |-> PointAt(bytes, (i - 1) * coordBytes)]
    IN  IF ref = 0 THEN << >> ELSE IF reverse THEN Reverse(stored) ELSE stored

FetchModes == {"TOWER_ONLY", "PILLAR_ONLY", "BASE_AND_PILLAR", "PILLAR_AND_ADJ", "ALL"}

BaseNode(e, reverse) == GetInt4(edges, Pointer(e) + (IF reverse THEN nodeB ELSE nodeA))
AdjNode(e, reverse) == BaseNode(e, ~reverse)

fetchWayGeometry(e, reverse, mode) ==
    LET base == IF mode \in {"TOWER_ONLY", "BASE_AND_PILLAR", "ALL"}
                THEN <<NodeAt(BaseNode(e, reverse))>> ELSE << >>
        adj == IF mode \in {"TOWER_ONLY", "PILLAR_AND_ADJ", "ALL"}
               THEN <<NodeAt(AdjNode(e, reverse))>> ELSE << >>
    IN  base \o (IF mode = "TOWER_ONLY" THEN << >> ELSE Pillars(e, reverse)) \o adj

\* What setWayGeometry refuses: a second geometry that is bigger.
CanSetWayGeometry(e, pillars) ==
    pillars = << >> \/ GetGeoRef(e) = 0 \/ Len(pillars) <= getPillarCount(GetGeoRef(e))

\* The edge records, given as da, and the geometry store after it.
setWayGeometry(da, e, pillars, reverse) ==
    LET old == GetGeoRef(e)
        bytes == createWayGeometryBytes(pillars, reverse)
        store == IF old > 0 THEN geometry ELSE Allocated(3 + Len(pillars) * coordBytes)
        ref == IF old > 0 THEN old ELSE geometry.maxGeoRef
    IN  IF pillars = << >> THEN [edges |-> WithGeoRef(da, e, 0), geometry |-> geometry]
        ELSE [edges |-> WithGeoRef(da, e, ref),
              geometry |-> [store EXCEPT !.bytes =
                  SetBytes(EnsureCapacity(@, ref + Len(bytes)), ref, bytes)]]

-----------------------------------------------------------------------------
\* KVStorage: appended entries, addressed by their first byte

KvStart == 1

\* Indices of keys count from 0, the place of the empty key.
KeyIndex(keys, key) == (CHOOSE i \in DOMAIN keys : keys[i].key = key) - 1
HasKey(keys, key) == \E i \in DOMAIN keys : keys[i].key = key

Put(store, bytes) ==
    [store EXCEPT
        !.vals = SetBytes(EnsureCapacity(@, store.bytePointer + Len(bytes)), store.bytePointer, bytes),
        !.bytePointer = @ + Len(bytes)]

TwoBytesBigEndian(n) == Reverse(ToBytes(n, 2))

\* writeValue, by the type the key was first added with: strings and byte arrays after a
\* byte with their length, all others in four or eight bytes.  A value of another type is
\* written as an empty or a zero one.
Sized(type) == type \in {"S", "["}
AsType(type, value) ==
    IF value.type = type THEN value.bytes ELSE IF Sized(type) THEN << >> ELSE ToBytes(0, 4)
WriteValue(store, value, type) ==
    LET bytes == AsType(type, value)
    IN  Put(IF Sized(type) THEN Put(store, ToBytes(Len(bytes), 1)) ELSE store, bytes)

AddEntry(store, key, value) ==
    LET keys == IF HasKey(store.keys, key) THEN store.keys
                ELSE Append(store.keys, [key |-> key, type |-> value.type])
        index == KeyIndex(keys, key)
    IN  WriteValue(Put([store EXCEPT !.keys = keys], TwoBytesBigEndian(index * 4 + 3)),
                   value, keys[index + 1].type)

EntryPointer(store) == store.bytePointer

\* Add, for a non-empty map whose keys are met in the given order.
AddEntries(store, entries, order) ==
    FoldLeft(LAMBDA s, key : AddEntry(s, key, entries[key]), Put(store, <<Len(order)>>), order)

\* Mutation: the byte with the length is not counted.
BytesOfTypeUnsized(type, pos) ==
    CASE Sized(type) -> GetByte(kv.vals, pos)
      [] type \in {"i", "f"} -> 4
      [] type \in {"l", "d"} -> 8

\* valueLength
BytesOfType(type, pos) ==
    CASE Sized(type) -> 1 + GetByte(kv.vals, pos)
      [] type \in {"i", "f"} -> 4
      [] type \in {"l", "d"} -> 8

ReadValue(type, pos) ==
    [type |-> type,
     bytes |-> IF Sized(type) THEN GetBytes(kv.vals, pos + 1, GetByte(kv.vals, pos))
               ELSE GetBytes(kv.vals, pos, BytesOfType(type, pos))]

\* The loop of Get and GetAll over the entries: it stops at an unknown key.
NextEntry(at) ==
    LET raw == FromBytes(Reverse(GetBytes(kv.vals, at.pos, 2)))
        index == raw \div 4
        key == kv.keys[index + 1]
    IN  IF at.stopped \/ index >= Len(kv.keys) THEN [at EXCEPT !.stopped = TRUE]
        ELSE [at EXCEPT
                !.pos = @ + 2 + BytesOfType(key.type, at.pos + 2),
                !.read = Append(@, [key |-> key.key, fwd |-> (raw \div 2) % 2 = 1,
                                    bwd |-> raw % 2 = 1, value |-> ReadValue(key.type, at.pos + 2)])]

Entries(pointer) ==
    FoldLeft(LAMBDA at, i : NextEntry(at),
             [pos |-> pointer + 1, stopped |-> FALSE, read |-> << >>],
             [i \in 1 .. GetByte(kv.vals, pointer) |-> i]).read

\* GetAll
GetKeyValues(e) ==
    LET read == Entries(GetKeyValuesRef(e))
    IN  [key \in {read[i].key : i \in DOMAIN read} |->
            read[CHOOSE i \in DOMAIN read :
                     read[i].key = key /\ \A j \in i + 1 .. Len(read) : read[j].key # key].value]

\* Get, with None for a missing value
GetValue(e, key, reverse) ==
    LET pointer == GetKeyValuesRef(e)
        read == Entries(pointer)
        found == {i \in DOMAIN read :
                     read[i].key = key /\ IF reverse THEN read[i].bwd ELSE read[i].fwd}
    IN  IF pointer = 0 \/ ~HasKey(kv.keys, key) \/ found = {} THEN None
        ELSE read[CHOOSE i \in found : \A j \in found : i <= j].value

\* The key table is written by Flush: the number of keys, then each of them after its
\* length and before the byte of its type.
ClassTypes == <<"S", "[", "i", "l">>
WithKeyTable(da, keys) ==
    LET KeyParts(k) == <<TwoBytesBigEndian(Len(k.key)), k.key,
                         <<(CHOOSE c \in DOMAIN ClassTypes : ClassTypes[c] = k.type) - 1>>>>
        parts == <<TwoBytesBigEndian(Len(keys))>> \o FlattenSeq([i \in DOMAIN keys |-> KeyParts(keys[i])])
    IN  FoldLeft(LAMBDA at, bytes : [da |-> SetBytes(at.da, at.pos, bytes), pos |-> at.pos + Len(bytes)],
                 [da |-> EnsureCapacity(da, Len(FlattenSeq(parts))), pos |-> 0], parts).da

ReadKeyTable(da) ==
    LET TwoBytes(pos) == FromBytes(Reverse(GetBytes(da, pos, 2)))
        NextKey(at) ==
            LET length == TwoBytes(at.pos)
                type == ClassTypes[GetByte(da, at.pos + 2 + length) + 1]
            IN  [pos |-> at.pos + 2 + length + 1,
                 keys |-> Append(at.keys, [key |-> GetBytes(da, at.pos + 2, length), type |-> type])]
    IN  FoldLeft(LAMBDA at, i : NextKey(at), [pos |-> 2, keys |-> << >>],
                 [i \in 1 .. TwoBytes(0) |-> i]).keys

-----------------------------------------------------------------------------
\* Build: GetRequiredBytes, and the encoded values with their places.
EncodingManager(specs) ==
    LET built == Build(specs)
    IN  [evs |-> built.evs, bytesForFlags |-> RequiredBytes(built.cfg),
         ints |-> RequiredInts(built.cfg)]

\* What a value reads as before anything is written: the bits are zero.
Untouched(ev) ==
    CASE ev.kind = "decimal" -> [r \in BOOLEAN |-> IntToDecimal(ev, IF ev.negate /\ r THEN -ev.min ELSE ev.min)]
      [] ev.kind = "string" -> [r \in BOOLEAN |-> ""]
      [] OTHER -> [r \in BOOLEAN |-> IF ev.negate /\ r THEN -ev.min ELSE ev.min]

\* Create, and Edge for each edge: a fresh edge has no values but its nodes,
\* here two towers 0 and 1.
Init ==
    /\ \E v \in Variants : is3D = v.is3D /\ em = EncodingManager(v.specs)
    /\ nodes = SetNode(SetNode(EnsureCapacityOfInts(<< >>, 2 * NodeEntryBytes),
                               0, Towers[is3D][1]), 1, Towers[is3D][2])
    /\ edges = FoldLeft(LAMBDA da, e : SetInt4(da, Pointer(e) + nodeB, 1),
                        EnsureCapacity(<< >>, Cardinality(Edges) * EdgeEntryBytes),
                        SetToSeq(Edges))
    /\ geometry = [bytes |-> EnsureCapacity(<< >>, 1), maxGeoRef |-> 1]
    /\ kv = [vals |-> EnsureCapacity(<< >>, 1), bytePointer |-> KvStart,
             keys |-> <<[key |-> << >>, type |-> "S"]>>, table |-> EnsureCapacity(<< >>, 1)]
    /\ expected = [e \in Edges |->
            [dist |-> 0, pillars |-> << >>, keyValues |-> << >>,
             values |-> [i \in DOMAIN em.evs |-> Untouched(em.evs[i])]]]
    /\ disk = None
    /\ writes = 0

Write == writes < MaxWrites /\ writes' = writes + 1

MaxDist == IntBase \div 2 - 1

\* SetDistance: a distance too long is cut.
SetDistance(e) ==
    \E d \in Inputs.distances :
        LET stored == IF d > MaxDist THEN MaxDist ELSE d
        IN  /\ Write
            /\ edges' = SetInt4(edges, Pointer(e) + dist, stored)
            /\ expected' = [expected EXCEPT ![e].dist = stored]
            /\ UNCHANGED <<is3D, nodes, em, geometry, kv, disk>>

\* What is read in each direction after v has been written in one.
Remembered(ev, old, reverse, v) ==
    IF ev.twoDirections THEN [old EXCEPT ![reverse] = v]
    ELSE [r \in BOOLEAN |-> IF ev.negate /\ r # reverse THEN -v ELSE v]

\* UncheckedSet on the edge's bytes: only the int that holds the value.
Set(e, i, reverse, ev, int, v) ==
    LET index == PlaceOf(ev, reverse).index
        ints == SetInt(ev, reverse, Flags(e), int)
    IN  /\ Write
        /\ edges' = setFlagInt(edges, e, index, ints[index])
        /\ em' = [em EXCEPT !.evs[i] = MaxUpdated(ev, reverse, int)]
        /\ expected' = [expected EXCEPT ![e].values[i] = Remembered(ev, @, reverse, v)]
        /\ UNCHANGED <<is3D, nodes, geometry, kv, disk>>

\* SetInt, SetBool and SetEnum, and their reverse forms.
SetIntValue(e) ==
    \E i \in DOMAIN em.evs, reverse \in BOOLEAN, v \in Inputs.ints :
        /\ em.evs[i].kind \in {"int", "bool", "enum"}
        /\ CanSet(em.evs[i], reverse, v)
        /\ Set(e, i, reverse, em.evs[i], v, v)

SetDecimal(e) ==
    \E i \in DOMAIN em.evs, reverse \in BOOLEAN, v \in Inputs.decimals :
        /\ em.evs[i].kind = "decimal"
        /\ CanSetDecimal(em.evs[i], reverse, v)
        /\ Set(e, i, reverse, em.evs[i], DecimalToInt(em.evs[i], v), v)

SetString(e) ==
    \E i \in DOMAIN em.evs, reverse \in BOOLEAN, v \in Inputs.strings :
        /\ em.evs[i].kind = "string"
        /\ CanSetString(em.evs[i], v) /\ (reverse => em.evs[i].twoDirections)
        /\ LET ev == WithString(em.evs[i], v)
           IN  Set(e, i, reverse, ev, IndexOf(ev, v), v)

SetWayGeometry(e) ==
    \E pillars \in Geometries[is3D], reverse \in BOOLEAN :
        /\ Write
        /\ CanSetWayGeometry(e, pillars)
        /\ LET new == setWayGeometry(edges, e, pillars, reverse)
           IN  edges' = new.edges /\ geometry' = new.geometry
        /\ expected' = [expected EXCEPT
               ![e].pillars = IF reverse THEN Reverse(pillars) ELSE pillars]
        /\ UNCHANGED <<is3D, nodes, em, kv, disk>>

\* SetKeyValues: Go meets the keys of a map in any order.
SetKeyValues(e) ==
    \E entries \in KeyValues :
        \E order \in SetToSeqs(DOMAIN entries) :
            /\ Write
            /\ kv' = IF entries = << >> THEN kv ELSE AddEntries(kv, entries, order)
            /\ edges' = WithKeyValuesRef(edges, e, IF entries = << >> THEN 0 ELSE EntryPointer(kv))
            /\ expected' = [expected EXCEPT ![e].keyValues = entries]
            /\ UNCHANGED <<is3D, nodes, em, geometry, disk>>

\* CopyPropertiesFrom: the flags are copied as they are, whichever direction
\* the two states have; without key values SetKeyValues panics.
CopyProperties(from, to) ==
    \E fromReverse, toReverse \in BOOLEAN :
        LET flagged == FoldLeft(LAMBDA da, i : setFlagInt(da, to, i - 1, Flags(from)[i - 1]),
                                edges, [i \in 1 .. em.ints |-> i])
            entries == GetKeyValues(from)
            pillars == Pillars(from, fromReverse)
            ref == WithKeyValuesRef(SetInt4(flagged, Pointer(to) + dist, GetDist(from)),
                                    to, EntryPointer(kv))
            new == setWayGeometry(ref, to, pillars, toReverse)
            copied == expected[from].pillars
        IN  /\ Write
            /\ from # to /\ GetKeyValuesRef(from) # 0
            /\ CanSetWayGeometry(to, pillars)
            /\ \E order \in SetToSeqs(DOMAIN entries) : kv' = AddEntries(kv, entries, order)
            /\ edges' = new.edges /\ geometry' = new.geometry
            /\ expected' = [expected EXCEPT ![to] =
                   [expected[from] EXCEPT !.pillars =
                       IF fromReverse = toReverse THEN copied ELSE Reverse(copied)]]
            /\ UNCHANGED <<is3D, nodes, em, disk>>

-----------------------------------------------------------------------------
\* Flush and LoadExisting of the graph, and the encoded values in the
\* properties.  A long in a header is split into two ints.

IntLow(long) == ToSigned(long % IntBase, 4)
IntHigh(long) == long \div IntBase
ToLongFromInts(low, high) == high * IntBase + (low % IntBase)

FlushAll ==
    LET table == WithKeyTable(kv.table, kv.keys)
    IN  /\ kv' = [kv EXCEPT !.table = table]
        /\ disk' = [nodes |-> Flush(nodes, << >>), edges |-> Flush(edges, << >>),
                    geometry |-> Flush(geometry.bytes,
                        <<IntLow(geometry.maxGeoRef), IntHigh(geometry.maxGeoRef)>>),
                    vals |-> Flush(kv.vals, <<IntLow(kv.bytePointer), IntHigh(kv.bytePointer)>>),
                    keys |-> Flush(table, << >>), em |-> em, expected |-> expected]
        /\ UNCHANGED <<is3D, em, nodes, edges, geometry, expected, writes>>

Loaded(file) == ToLongFromInts(file.header[1], file.header[2])

\* A new process: what was not flushed is lost.
Restart ==
    /\ disk # None
    /\ nodes' = LoadExistingInts(disk.nodes)
    /\ edges' = LoadExisting(disk.edges)
    /\ geometry' = [bytes |-> LoadExisting(disk.geometry), maxGeoRef |-> Loaded(disk.geometry)]
    /\ LET table == LoadExisting(disk.keys)
       IN  kv' = [vals |-> LoadExisting(disk.vals), keys |-> ReadKeyTable(table), table |-> table,
                  bytePointer |-> Loaded(disk.vals)]
    /\ em' = [disk.em EXCEPT !.evs = [i \in DOMAIN @ |-> Deserialized(@[i])]]
    /\ expected' = disk.expected
    /\ UNCHANGED <<is3D, disk, writes>>

Next ==
    \/ \E e \in Edges :
          \/ SetDistance(e) \/ SetIntValue(e) \/ SetDecimal(e) \/ SetString(e)
          \/ SetWayGeometry(e) \/ SetKeyValues(e)
          \/ \E from \in Edges : CopyProperties(from, e)
    \/ FlushAll
    \/ Restart

Spec == Init /\ [][Next]_vars

-----------------------------------------------------------------------------
\* A decimal is rounded to the nearest number of factors, and cut at the last
\* one below infinity; half a factor below the greatest it rounds to infinity.
NearestDecimal(ev, v) ==
    IF v = Infinite \/ ~ev.maxIsInfinity THEN {v - 1, v, v + 1}
    ELSE IF v >= 2 * ev.max THEN {2 * (ev.max - 1)}
    ELSE IF v = 2 * ev.max - 1 THEN {Infinite}
    ELSE {v - 1, v, v + 1}

\* The value last written for each encoded value, in each direction, is read
\* back, whatever has been written to the values that share its int, to other
\* edges, or before a restart (getFlagInt, setFlagInt, UncheckedSet).
ValuesKept ==
    \A e \in Edges :
        /\ GetDist(e) = expected[e].dist
        /\ LET ints == Flags(e)
           IN  \A i \in DOMAIN em.evs, reverse \in BOOLEAN :
                   LET ev == em.evs[i]
                       v == expected[e].values[i][reverse]
                   IN  CASE ev.kind = "decimal" ->
                                GetDecimal(ev, reverse, ints) \in NearestDecimal(ev, v)
                         [] ev.kind = "string" -> GetString(ev, reverse, ints) = v
                         [] OTHER -> GetInt(ev, reverse, ints) = v

\* The maximum an encoded value reports, from which the custom weighting takes
\* its bound on the speed, is no less than any value stored for an edge that
\* has been written (GetMaxOrMaxStorableInt); a negated value may exceed it
\* against its direction.
MaximumBoundsStored ==
    \A i \in DOMAIN em.evs :
        LET ev == em.evs[i]
        IN  ev.maxValue # NoMaximum /\ ~ev.negate =>
                \A e \in Edges, reverse \in BOOLEAN :
                    LET v == GetInt(ev, reverse, Flags(e))
                    IN  v <= GetMaxOrMaxStorableInt(ev)

\* Every edge's pillars come back in order, seen from either end and in every
\* fetch mode, whatever geometries are replaced or copied and wherever they
\* cross a segment (setWayGeometry, fetchWayGeometry, copyProperties).
GeometryKept ==
    \A e \in Edges, reverse \in BOOLEAN, mode \in FetchModes :
        LET whole == <<Towers[is3D][1]>> \o expected[e].pillars \o <<Towers[is3D][2]>>
            seen == IF reverse THEN Reverse(whole) ELSE whole
            n == Len(seen)
        IN  fetchWayGeometry(e, reverse, mode) =
                CASE mode = "TOWER_ONLY" -> <<seen[1], seen[n]>>
                  [] mode = "PILLAR_ONLY" -> SubSeq(seen, 2, n - 1)
                  [] mode = "BASE_AND_PILLAR" -> SubSeq(seen, 1, n - 1)
                  [] mode = "PILLAR_AND_ADJ" -> SubSeq(seen, 2, n)
                  [] mode = "ALL" -> seen

\* The key values of an edge are those last set for it, all together and key
\* by key in both directions, in whatever order they were appended
\* (KVStorage.Add, Get, GetAll).
KeyValuesKept ==
    \A e \in Edges :
        LET entries == expected[e].keyValues
        IN  /\ GetKeyValuesRef(e) = 0 <=> entries = << >>
            /\ entries # << >> => GetKeyValues(e) = entries
            /\ \A key \in UNION {DOMAIN x : x \in KeyValues}, reverse \in BOOLEAN :
                   GetValue(e, key, reverse) =
                       IF key \in DOMAIN entries THEN entries[key] ELSE None
=============================================================================
