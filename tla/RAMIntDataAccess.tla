------------------------- MODULE RAMIntDataAccess --------------------------
(***************************************************************************)
(* core/storage/ram_int_data_access.go: segments of ints instead of bytes, *)
(* for nodes, turn costs, shortcuts and the location index.  Positions are *)
(* those of bytes, four to an int.                                         *)
(***************************************************************************)
EXTENDS RAMDataAccess

IntsPerSegment == SegmentSize \div 4

IntBase == ByteBase^4

EnsureCapacityOfInts(da, bytes) ==
    LET need == bytes - Capacity(da)
        n == (need + SegmentSize - 1) \div SegmentSize
    IN  IF need <= 0 THEN da
        ELSE da \o [i \in 1 .. n |-> [b \in 1 .. IntsPerSegment |-> 0]]

IntSegment(pos) == ((pos \div 4) \div IntsPerSegment) + 1
IntIndex(pos) == ((pos \div 4) % IntsPerSegment) + 1

SetIntAt(da, pos, value) == [da EXCEPT ![IntSegment(pos)][IntIndex(pos)] = value]
GetIntAt(da, pos) == da[IntSegment(pos)][IntIndex(pos)]

\* LoadExisting: every segment read takes the ints that were in it.
LoadExistingInts(file) ==
    LET byteCount == file.length - HeaderOffset
    IN  SubSeq(file.segments, 1, (byteCount + SegmentSize - 1) \div SegmentSize)
=============================================================================
