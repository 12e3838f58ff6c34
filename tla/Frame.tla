------------------------------- MODULE Frame --------------------------------
(***************************************************************************)
(* The frame header of the wire format, in its three implementations:      *)
(* shared/go/header.go, shared/ts/src/header.ts and                        *)
(* shared/cpp/src/proto/header.cpp.                                        *)
(*                                                                         *)
(* Field widths are the code's.  A byte counts to ByteSize instead of 256, *)
(* so that TLC's integers hold the eight-byte timestamp.  A message on the *)
(* wire is its first HeaderBytes bytes and the payload behind them; a      *)
(* payload is a record of module Payload, of which only size matters here. *)
(***************************************************************************)
EXTENDS Integers, Sequences

CONSTANTS
    ByteSize,        \* values of a byte
    Magic,           \* "SMX1", four bytes
    KnownTypes,      \* type bytes with a meaning
    MaxTrackSlot,
    MaxPayloadBytes

Byte == 0..ByteSize - 1
U16 == ByteSize * ByteSize
U32 == U16 * U16
U64 == U32 * U32
HeaderBytes == 21

\* The fields of a frame, as the structs of Go and C++ declare them.
FrameType(Payloads) ==
    [type : KnownTypes, track : Byte, flags : Byte, seq : 0..U32 - 1,
     timestamp : 0..U64 - 1, payload : Payloads]

ASSUME FrameAssumption ==
    /\ ByteSize \in Nat \ {0, 1}
    /\ Magic \in [1..4 -> Byte]
    /\ KnownTypes \subseteq Byte
    /\ MaxTrackSlot \in Byte
    /\ MaxPayloadBytes \in 1..U16 - 1

\* Names ending in M are plausible mistakes in the definition that follows;
\* no action uses them.

Message(head, payload) == [head |-> head, payload |-> payload]
Length(m) == Len(m.head) + m.payload.size

\* The first check that fails decides the error.
Ok(v) == [err |-> "", val |-> v]
FirstError(checks, v) ==
    LET failing == {i \in DOMAIN checks : checks[i][1]} IN
    IF failing = {} THEN Ok(v)
    ELSE [err |-> checks[CHOOSE i \in failing : \A j \in failing : i <= j][2]]

-----------------------------------------------------------------------------
(* Integers as bytes.                                                      *)

\* encoding/binary.BigEndian, and DataView with littleEndian = false: the
\* high half of a number before its low half.
PutUint16(v) == <<v \div ByteSize, v % ByteSize>>
PutUint32(v) == PutUint16(v \div U16) \o PutUint16(v % U16)
PutUint64(v) == PutUint32(v \div U32) \o PutUint32(v % U32)
Uint16(s) == s[1] * ByteSize + s[2]
Uint32(s) == Uint16(SubSeq(s, 1, 2)) * U16 + Uint16(SubSeq(s, 3, 4))
Uint64(s) == Uint32(SubSeq(s, 1, 4)) * U32 + Uint32(SubSeq(s, 5, 8))

\* The weight of each of eight bytes; v >> 8 * k is v \div Place[8 - k].
Place == <<U32 * (U16 * ByteSize), U32 * U16, U32 * ByteSize, U32,
           U16 * ByteSize, U16, ByteSize, 1>>

\* WriteU16BE, WriteU32BE and WriteU64BE shift and mask each byte.
WriteBEM(v, w) == [i \in 1..w |-> (v \div Place[9 - i]) % ByteSize]
WriteBE(v, w) == [i \in 1..w |-> (v \div Place[8 - w + i]) % ByteSize]

\* The first two shift each byte to its place, the third, a loop, shifts the
\* bytes in, first byte first.
ReadU16BE(s) == s[1] * ByteSize + s[2]
ReadU32BE(s) == s[1] * Place[5] + s[2] * Place[6] + s[3] * Place[7] + s[4]
ShiftIn(v, b) == v * ByteSize + b
ReadU64BE(s) ==
    ShiftIn(ShiftIn(ShiftIn(ShiftIn(ShiftIn(ShiftIn(ShiftIn(ShiftIn(0,
        s[1]), s[2]), s[3]), s[4]), s[5]), s[6]), s[7]), s[8])

\* Bytes from offset a up to, but not including, offset b.
Slice(m, a, b) == SubSeq(m.head, a + 1, b)
At(m, a) == m.head[a + 1]

\* The header's fields at their offsets, written and read back.
Packed(f, len, seq, timestamp) ==
    Message(Magic \o <<f.type % ByteSize, f.track, f.flags>>
            \o len \o seq \o timestamp, f.payload)
Parsed(m, seq, timestamp) ==
    [type |-> At(m, 4), track |-> At(m, 5), flags |-> At(m, 6), seq |-> seq,
     timestamp |-> timestamp, payload |-> m.payload]

-----------------------------------------------------------------------------
(* Encoders.                                                               *)

EncodeFrameGo(f) ==
    FirstError(<< <<f.payload.size > MaxPayloadBytes, "TOO_LARGE">>,
                  <<f.track > MaxTrackSlot, "BAD_TRACK">>,
                  <<f.type \notin KnownTypes, "BAD_TYPE">> >>,
               Packed(f, PutUint16(f.payload.size), PutUint32(f.seq),
                      PutUint64(f.timestamp)))

\* The type is left to the compiler; numbers are checked, being unbounded.
EncodeFrameTs(f) ==
    FirstError(<< <<f.payload.size > MaxPayloadBytes, "TOO_LARGE">>,
                  <<f.track < 0 \/ f.track > MaxTrackSlot, "BAD_TRACK">>,
                  <<f.flags \notin Byte, "BAD_PAYLOAD">>,
                  <<f.seq \notin 0..U32 - 1, "BAD_PAYLOAD">>,
                  <<f.timestamp \notin 0..U64 - 1, "BAD_PAYLOAD">> >>,
               Packed(f, PutUint16(f.payload.size), PutUint32(f.seq),
                      PutUint64(f.timestamp)))

EncodeFrameCpp(f) ==
    FirstError(<< <<f.payload.size > MaxPayloadBytes, "TOO_LARGE">>,
                  <<f.track > MaxTrackSlot, "BAD_TRACK">>,
                  <<f.type \notin KnownTypes, "BAD_TYPE">> >>,
               Packed(f, WriteBE(f.payload.size, 2), WriteBE(f.seq, 4),
                      WriteBE(f.timestamp, 8)))

-----------------------------------------------------------------------------
(* Decoders.                                                               *)

DecodeFrameGo(m) ==
    IF Length(m) < HeaderBytes THEN [err |-> "BAD_LENGTH"]
    ELSE LET len == Uint16(Slice(m, 7, 9)) IN
         FirstError(<< <<Slice(m, 0, 4) # Magic, "BAD_MAGIC">>,
                       <<len > MaxPayloadBytes, "TOO_LARGE">>,
                       <<HeaderBytes + len # Length(m), "BAD_LENGTH">>,
                       <<At(m, 5) > MaxTrackSlot, "BAD_TRACK">>,
                       <<At(m, 4) \notin KnownTypes, "BAD_TYPE">> >>,
                    Parsed(m, Uint32(Slice(m, 9, 13)),
                           Uint64(Slice(m, 13, 21))))

DecodeFrameTs(m) ==
    IF Length(m) < HeaderBytes THEN [err |-> "BAD_LENGTH"]
    ELSE LET len == Uint16(Slice(m, 7, 9)) IN
         FirstError(<< <<Slice(m, 0, 4) # Magic, "BAD_MAGIC">>,
                       <<len > MaxPayloadBytes, "TOO_LARGE">>,
                       <<HeaderBytes + len # Length(m), "BAD_LENGTH">>,
                       <<At(m, 5) > MaxTrackSlot, "BAD_TRACK">>,
                       <<At(m, 4) \notin KnownTypes, "BAD_TYPE">> >>,
                    Parsed(m, Uint32(Slice(m, 9, 13)),
                           Uint64(Slice(m, 13, 21))))

\* (The mistake: a payload of exactly the limit is refused.)
DecodeFrameCppM(m) ==
    IF Length(m) < HeaderBytes THEN [err |-> "BAD_LENGTH"]
    ELSE LET len == ReadU16BE(Slice(m, 7, 9)) IN
         FirstError(<< <<Slice(m, 0, 4) # Magic, "BAD_MAGIC">>,
                       <<len >= MaxPayloadBytes, "TOO_LARGE">>,
                       <<HeaderBytes + len # Length(m), "BAD_LENGTH">>,
                       <<At(m, 5) > MaxTrackSlot, "BAD_TRACK">>,
                       <<At(m, 4) \notin KnownTypes, "BAD_TYPE">> >>,
                    Parsed(m, ReadU32BE(Slice(m, 9, 13)),
                           ReadU64BE(Slice(m, 13, 21))))
DecodeFrameCpp(m) ==
    IF Length(m) < HeaderBytes THEN [err |-> "BAD_LENGTH"]
    ELSE LET len == ReadU16BE(Slice(m, 7, 9)) IN
         FirstError(<< <<Slice(m, 0, 4) # Magic, "BAD_MAGIC">>,
                       <<len > MaxPayloadBytes, "TOO_LARGE">>,
                       <<HeaderBytes + len # Length(m), "BAD_LENGTH">>,
                       <<At(m, 5) > MaxTrackSlot, "BAD_TRACK">>,
                       <<At(m, 4) \notin KnownTypes, "BAD_TYPE">> >>,
                    Parsed(m, ReadU32BE(Slice(m, 9, 13)),
                           ReadU64BE(Slice(m, 13, 21))))
=============================================================================
