--------------------------- MODULE RAMDataAccess ---------------------------
(***************************************************************************)
(* The growing byte arrays that everything is stored in:                   *)
(* core/storage/ram_data_access.go, with the little-endian conversions of  *)
(* core/util/bit_util.go.  An array is a sequence of segments of equal     *)
(* size.  A byte has ByteBase values, an int four bytes and a short two.   *)
(* An access outside the segments, where the code panics, has no value.    *)
(***************************************************************************)
EXTENDS Integers, SequencesExt

CONSTANTS ByteBase,      \* 256
          SegmentSize,   \* bytes in a segment, a power of two
          HeaderOffset   \* bytes in front of the first segment of a file

\* segmentSizeMin, 128, exceeds headerOffset, 100.
ASSUME SizesAssumption ==
    /\ ByteBase \in Nat \ {0, 1}
    /\ HeaderOffset \in Nat /\ SegmentSize \in Nat /\ HeaderOffset < SegmentSize
    /\ SegmentSize >= 4 /\ \E p \in 0 .. SegmentSize : SegmentSize = 2^p

Byte == 0 .. ByteBase - 1

\* FromInt, FromShort and FromUInt3 are the first 4, 2 and 3 digits.
ToBytes(value, n) == [i \in 1 .. n |-> (value \div ByteBase^(i - 1)) % ByteBase]

FromBytes(bytes) == FoldRight(LAMBDA b, rest : b + ByteBase * rest, bytes, 0)

\* A short is signed, unlike a byte and three bytes.
ToSigned(value, n) == IF 2 * value >= ByteBase^n THEN value - ByteBase^n ELSE value

Capacity(da) == Len(da) * SegmentSize

EnsureCapacity(da, bytes) ==
    LET need == bytes - Capacity(da)
        n == (need + SegmentSize - 1) \div SegmentSize
    IN  IF need <= 0 THEN da
        ELSE da \o [i \in 1 .. n |-> [b \in 1 .. SegmentSize |-> 0]]

Segment(pos) == pos \div SegmentSize + 1
Index(pos) == pos % SegmentSize

\* copy(segment[idx:], bytes): what does not fit is dropped.
CopyInto(segment, idx, bytes) ==
    [b \in DOMAIN segment |->
        IF b - idx \in DOMAIN bytes THEN bytes[b - idx] ELSE segment[b]]

\* Mutation: what reaches beyond the segment is dropped.
SetBytesOneSegment(da, pos, bytes) ==
    [da EXCEPT ![Segment(pos)] = CopyInto(@, Index(pos), bytes)]

\* SetBytes, and SetInt and SetShort, which tell the cases by the number of
\* bytes that are left in the segment.
SetBytes(da, pos, bytes) ==
    LET overflow == Index(pos) + Len(bytes) - SegmentSize
        first == Len(bytes) - overflow
    IN  IF overflow > 0
        THEN [da EXCEPT
                ![Segment(pos)] = CopyInto(@, Index(pos), SubSeq(bytes, 1, first)),
                ![Segment(pos) + 1] = CopyInto(@, 0, SubSeq(bytes, first + 1, Len(bytes)))]
        ELSE [da EXCEPT ![Segment(pos)] = CopyInto(@, Index(pos), bytes)]

\* What would lie in a third segment stays zero, as it was not written either.
GetBytes(da, pos, length) ==
    LET first == SegmentSize - Index(pos)
        rest == [b \in 1 .. length - first |->
                    IF b <= SegmentSize THEN da[Segment(pos) + 1][b] ELSE 0]
    IN  IF length > first THEN SubSeq(da[Segment(pos)], Index(pos) + 1, SegmentSize) \o rest
        ELSE SubSeq(da[Segment(pos)], Index(pos) + 1, Index(pos) + length)

SetInt4(da, pos, value) == SetBytes(da, pos, ToBytes(value, 4))
GetInt4(da, pos) == ToSigned(FromBytes(GetBytes(da, pos, 4)), 4)
SetShort(da, pos, value) == SetBytes(da, pos, ToBytes(value, 2))
GetShort(da, pos) == ToSigned(FromBytes(GetBytes(da, pos, 2)), 2)
SetByte(da, pos, value) == [da EXCEPT ![Segment(pos)][Index(pos) + 1] = value]
GetByte(da, pos) == da[Segment(pos)][Index(pos) + 1]

-----------------------------------------------------------------------------

\* Flush: the header holds the capacity and the ints set by SetHeader.
Flush(da, header) == [length |-> Capacity(da), header |-> header, segments |-> da]

\* LoadExisting takes the header off a length that does not include it; the
\* last segment is still found because it is longer than the header.
LoadExisting(file) ==
    LET byteCount == file.length - HeaderOffset
    IN  SubSeq(file.segments, 1, (byteCount + SegmentSize - 1) \div SegmentSize)
=============================================================================
