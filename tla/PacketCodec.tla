----------------------------- MODULE PacketCodec -----------------------------
(***************************************************************************)
(* The stateless half of river2_packet.c: the inner packet (addresses,     *)
(* command and payload between two checksums) and the outer wrapper that   *)
(* frames it on the wire.  Bytes are numbers, byte strings are sequences.  *)
(***************************************************************************)
EXTENDS Naturals, Sequences

CONSTANTS Crc8(_), Crc16(_)      \* river2_crc8, river2_crc16

RdU16Le(bytes, i) == bytes[i] + 256 * bytes[i + 1]

\* The value is cast to uint16_t.
WrU16Le(v) == <<v % 256, (v \div 256) % 256>>

INNER_HEADER_LEN == 16
INNER_OVERHEAD   == 18
OUTER_OVERHEAD   == 8

Rejected == <<>>         \* length 0: the output buffer is too small

InnerBuild(src, dst, cmd_set, cmd_id, payload, out_cap) ==
    LET start  == <<170, 2>> \o WrU16Le(Len(payload))
        header == start \o <<Crc8(start), 13, 0, 0, 0, 0, 0, 0, src, dst, cmd_set, cmd_id>>
    IN  IF out_cap < INNER_OVERHEAD + Len(payload) THEN Rejected
        ELSE header \o payload \o WrU16Le(Crc16(header \o payload))

\* Seeded fault: the CRC-16 is not compared.
InnerValidUnchecked(data) ==
    /\ Len(data) >= INNER_OVERHEAD
    /\ data[1] = 170 /\ data[2] = 2
    /\ Len(data) = INNER_OVERHEAD + RdU16Le(data, 3)
    /\ Crc8(SubSeq(data, 1, 4)) = data[5]

\* The acceptance test of river2_inner_parse, in the order of its returns.
InnerValid(data) ==
    /\ Len(data) >= INNER_OVERHEAD
    /\ data[1] = 170 /\ data[2] = 2
    /\ Len(data) = INNER_OVERHEAD + RdU16Le(data, 3)
    /\ Crc8(SubSeq(data, 1, 4)) = data[5]
    /\ RdU16Le(data, Len(data) - 1) = Crc16(SubSeq(data, 1, Len(data) - 2))

\* What river2_inner_parse stores in its result when it accepts.
InnerFields(data) ==
    [src |-> data[13], dst |-> data[14], cmd_set |-> data[15], cmd_id |-> data[16],
     payload |-> SubSeq(data, INNER_HEADER_LEN + 1, INNER_HEADER_LEN + RdU16Le(data, 3))]

OuterBuild(frame_type, payload, out_cap) ==
    LET frame == <<90, 90, (16 * frame_type) % 256, 1>>
                   \o WrU16Le(Len(payload) + 2) \o payload
    IN  IF out_cap < OUTER_OVERHEAD + Len(payload) THEN Rejected
        ELSE frame \o WrU16Le(Crc16(frame))
==============================================================================
