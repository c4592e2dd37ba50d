---------------------------- MODULE SealedChannel ----------------------------
(***************************************************************************)
(* What the codec and the session's data promise, stated of a channel: a   *)
(* packet is built and damaged in transit by at most one edit; built       *)
(* packets are sealed, cut short and opened.  Checksums and cipher are     *)
(* constants, of which the assumptions say what the promises rest on.      *)
(***************************************************************************)
EXTENDS SessionData

CONSTANTS
  Packets,    \* [src, dst, cmd_set, cmd_id, payload]
  Bytes,      \* what a damaged byte may become
  KeyTexts,   \* plaintexts of step 2's reply: [srand, seed, pad]
  Digests     \* digests of step 4, 16 bytes each

VARIABLES packet,     \* what was sent
          img,        \* what arrives
          edits       \* number of edits, at most 1

vars == <<packet, img, edits>>

Byte == 0..255

Built(p) == InnerBuild(p.src, p.dst, p.cmd_set, p.cmd_id, p.payload, 300)
Text(k)  == k.srand \o k.seed \o k.pad

\* All that is sealed here: packets padded or, if they are whole blocks, as
\* they are, and the replies of step 2.
Plaintexts == {Padded(Built(p)) : p \in Packets}
                \cup {Built(p) : p \in {q \in Packets : Len(Built(q)) % BLOCK = 0}}
                \cup {Text(k) : k \in KeyTexts}

\* A payload of more than 237 bytes does not fit the receiver's buffer of 256
\* once it is padded.  A last byte of 15 or 16 could make the padding of a key
\* reply reach into the seed.
ASSUME DataAssumption ==
    /\ \A p \in Packets :
          /\ p \in [src : Byte, dst : Byte, cmd_set : Byte, cmd_id : Byte, payload : Seq(Byte)]
          /\ Len(p.payload) <= 237
    /\ Bytes \subseteq Byte
    /\ \A k \in KeyTexts :
          /\ k \in [srand : Seq(Byte), seed : Seq(Byte), pad : Seq(Byte)]
          /\ Len(k.srand) = 16 /\ Len(k.seed) = 2 /\ Len(k.pad) = 14
          /\ k.pad[14] \notin {15, 16}
    /\ \A d \in Digests : d \in Seq(Byte) /\ Len(d) = 16

\* The cipher keeps the length and deciphers whole blocks from the first on,
\* however many there are of them.
ASSUME CipherAssumption ==
    \A text \in Plaintexts :
        /\ CbcEncrypt(text) \in Seq(Byte)
        /\ Len(CbcEncrypt(text)) = Len(text)
        /\ \A n \in 1..(Len(text) \div BLOCK) :
              CbcDecrypt(SubSeq(CbcEncrypt(text), 1, BLOCK * n)) = SubSeq(text, 1, BLOCK * n)

\* What the CRC-16 of a packet is taken of.
Body(p) == SubSeq(Built(p), 1, Len(Built(p)) - 2)

ASSUME ChecksumWidths ==
    \A p \in Packets :
        /\ Crc8(SubSeq(Body(p), 1, 4)) \in Byte
        /\ Crc16(Body(p)) \in Nat /\ Crc16(Body(p)) < 65536

\* The CRC-16 of a packet changes with every single byte.
ASSUME ChecksumNotices ==
    \A p \in Packets, b \in Bytes : \A i \in DOMAIN Body(p) :
        b # Body(p)[i] => Crc16([Body(p) EXCEPT ![i] = b]) # Crc16(Body(p))

------------------------------------------------------------------------------
(* The channel *)

Init == packet \in Packets /\ img = Built(packet) /\ edits = 0

Edit(new) == edits = 0 /\ edits' = 1 /\ img' = new /\ UNCHANGED packet

ChangeByte == \E i \in DOMAIN img, b \in Bytes :
                  b # img[i] /\ Edit([img EXCEPT ![i] = b])
Truncate   == \E n \in 0..(Len(img) - 1) : Edit(SubSeq(img, 1, n))
Extend     == \E b \in Bytes : Edit(Append(img, b))

Next == ChangeByte \/ Truncate \/ Extend
Spec == Init /\ [][Next]_vars

\* A packet with one byte changed, cut short or extended is never accepted.
DamageRejected == edits = 1 => ~InnerValid(img)

------------------------------------------------------------------------------
(* Sealed packets *)

Sealed(p) ==
    LET frame == SendInnerEncrypted(p.src, p.dst, p.cmd_set, p.cmd_id, p.payload)
    IN  SubSeq(frame, 7, Len(frame) - 2)

\* A packet that is sent sealed is found in its frame when it is opened, also
\* when it fills its last block and padding takes a block of its own.
SealedRoundTrip == edits = 0 => OpenDataFrame(Sealed(packet)) = Got(packet)

Stray == [i \in 1..(BLOCK - 1) |-> 90]

\* The decryption is lenient (river2_auth.c:80-85) without ever misreading.  A
\* station that does not pad packets of whole blocks is understood, unless the
\* last bytes happen to look like padding; bytes behind the last whole block
\* make no difference; and a ciphertext cut short gives nothing, or the packet
\* itself if only padding is gone.
LenientDecryption ==
    edits = 0 =>
        LET sealed == Sealed(packet)
        IN  /\ Len(img) % BLOCK = 0 /\ ~ValidPad(img, Last(img)) =>
                   OpenDataFrame(CbcEncrypt(img)) = Got(packet)
            /\ \A k \in 0..(Len(sealed) + BLOCK - 1) :
                   LET opened == OpenDataFrame(SubSeq(sealed \o Stray, 1, k))
                   IN  /\ opened.ok => opened = Got(packet)
                       /\ k >= Len(sealed) => opened.ok

------------------------------------------------------------------------------
(* Session key and digest *)

KeyReply(k) == <<2>> \o CbcEncrypt(Text(k))

\* The key material lies in the table, where the protocol document (section 3,
\* point 2) puts it: behind (seed[1] - 1) pages, 256 of them for seed[1] = 0.
\* All seeds whose 16 bytes are in the table are served, whether the reply is
\* padded as PKCS7 demands or otherwise.
KeyMaterialFound ==
    edits = 0 =>
        \A k \in KeyTexts :
            LET place == 16 * k.seed[1] + 256 * (IF k.seed[2] = 0 THEN 255 ELSE k.seed[2] - 1)
                key   == SessionKeyReply(KeyReply(k))
            IN  IF place + 16 <= LUT_SIZE THEN key = Got(<<place, k.srand>>) ELSE ~key.ok

FromHex(c) == IF c < 65 THEN c - 48 ELSE c - 55

\* Every NUL that snprintf writes is overwritten by the next round or falls
\* behind the payload: the 32 characters read back give the digest.
HexPayloadIsDigest ==
    edits = 0 =>
        \A digest \in Digests :
            LET hex == HexPayload(digest)
            IN  \A i \in 1..16 : digest[i] = 16 * FromHex(hex[2 * i - 1]) + FromHex(hex[2 * i])
==============================================================================
