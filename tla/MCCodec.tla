------------------------------- MODULE MCCodec -------------------------------
(***************************************************************************)
(* SealedChannel with the real checksums, compared with their definition,  *)
(* and a toy cipher in place of AES.                                       *)
(***************************************************************************)
EXTENDS SealedChannel, Crc, CrcReference

\* All runs of six bytes in what arrives, as messages for the checksums.
Windows == {SubSeq(img, i, i + 5) : i \in 1..(Len(img) - 5)}

\* The tables of river2_crc.c compute what they claim to: river2_crc8 the CRC
\* with polynomial x^8 + x^2 + x + 1 and start value 0, river2_crc16 CRC-16/ARC,
\* that is x^16 + x^15 + x^2 + 1, reflected, start value 0.
ChecksumsAreRemainders ==
    \A m \in Windows : River2Crc8(m) = RefCrc8(m) /\ River2Crc16(m) = RefCrc16(m)

------------------------------------------------------------------------------
\* A stand-in for AES-CBC: a permutation of blocks, each chained to the one before.
Permuted(block) == [i \in 1..BLOCK |-> (7 * block[BLOCK + 1 - i] + i) % 256]
Restored(block) == [i \in 1..BLOCK |-> (183 * (block[BLOCK + 1 - i] - (BLOCK + 1 - i))) % 256]

Block(data, k)  == SubSeq(data, BLOCK * (k - 1) + 1, BLOCK * k)
Chain(prev, block, sign) == [i \in 1..BLOCK |-> (block[i] + sign * prev[i]) % 256]
IV              == [i \in 1..BLOCK |-> 11 * i]
BlockNos(data)  == [k \in 1..(Len(data) \div BLOCK) |-> k]

ToyEncrypt(data) ==
    FoldLeft(LAMBDA acc, k :
                 acc \o Permuted(Chain(IF k = 1 THEN IV ELSE Block(acc, k - 1),
                                       Block(data, k), 1)),
             <<>>, BlockNos(data))
ToyDecrypt(data) ==
    FlattenSeq([k \in DOMAIN BlockNos(data) |->
                   Chain(IF k = 1 THEN IV ELSE Block(data, k - 1),
                         Restored(Block(data, k)), -1)])

------------------------------------------------------------------------------
\* Payloads of 14 bytes make packets of two whole blocks.
Whole(v) == [i \in 1..14 |-> IF i = 1 THEN v ELSE i]
MCPackets ==
    [src : {33}, dst : {5, 53}, cmd_set : {5, 53}, cmd_id : {66, 137},
     payload : {<<>>, <<0>>, <<1, 255, 255>>, <<170, 2, 0, 0>>}]
    \cup [src : {33}, dst : {5}, cmd_set : {5}, cmd_id : {66},
           payload : {Whole(v) : v \in {0, 106, 113, 123}}]
MCBytes == {0, 1, 2, 85, 128, 170, 255}

SeedEnds   == {0, 1, 2, 15, 16, 239, 240, 254, 255}
MCKeyTexts == [srand : {[i \in 1..16 |-> 16 * i - 1]},
               seed  : {<<s0, s1>> : s0 \in SeedEnds, s1 \in SeedEnds},
               pad   : {[i \in 1..14 |-> 14], [i \in 1..14 |-> 0]}]
MCDigests  == {[i \in 1..16 |-> (16 * i + c) % 256] : c \in {0, 1, 10, 15}}
==============================================================================
