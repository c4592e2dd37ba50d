------------------------- MODULE SealedChannel_proofs -------------------------
(***************************************************************************)
(* Theorems about SealedChannel: what the codec and the session's data     *)
(* promise, for all packets, checksums and ciphers the assumptions allow.  *)
(***************************************************************************)
EXTENDS SealedChannel, DataLemmas

(* Byte strings *)

\* A number of 16 bits is read back from the two bytes written for it.
LEMMA LittleEndian ==
    ASSUME NEW v \in Nat, v < 65536
    PROVE  /\ WrU16Le(v) \in Seq(Byte) /\ Len(WrU16Le(v)) = 2
           /\ WrU16Le(v)[1] + 256 * WrU16Le(v)[2] = v
<1> DEFINE lo == v % 256
           hi == (v \div 256) % 256
<1>1. lo \in 0..255 /\ hi \in 0..255 /\ lo + 256 * hi = v
  BY TwoBytes
<1>2. WrU16Le(v) = <<lo, hi>>
  BY DEF WrU16Le
<1> HIDE DEF lo, hi
<1>3. lo \in Byte /\ hi \in Byte
  BY <1>1 DEF Byte
<1> QED BY <1>1, <1>2, <1>3

------------------------------------------------------------------------------
(* The inner packet *)

LEMMA PacketType ==
    ASSUME NEW p \in Packets
    PROVE  /\ p.src \in Byte /\ p.dst \in Byte /\ p.cmd_set \in Byte /\ p.cmd_id \in Byte
           /\ p.payload \in Seq(Byte) /\ Len(p.payload) \in Nat /\ Len(p.payload) <= 237
           /\ p = [src |-> p.src, dst |-> p.dst, cmd_set |-> p.cmd_set,
                   cmd_id |-> p.cmd_id, payload |-> p.payload]
<1>1. /\ p \in [src : Byte, dst : Byte, cmd_set : Byte, cmd_id : Byte, payload : Seq(Byte)]
      /\ Len(p.payload) <= 237
  BY DataAssumption
<1>2. p.payload \in Seq(Byte)
  BY <1>1
<1>3. Len(p.payload) \in Nat
  BY <1>2, LenProperties
<1> QED BY <1>1, <1>3

\* The first four bytes of a packet hold the length of its payload.
Opening(n) == <<170, 2>> \o WrU16Le(n)

LEMMA StartShape ==
    ASSUME NEW n \in Nat, n <= 237
    PROVE  /\ Opening(n) \in Seq(Byte) /\ Len(Opening(n)) = 4
           /\ Opening(n)[1] = 170 /\ Opening(n)[2] = 2
           /\ Opening(n)[3] + 256 * Opening(n)[4] = n
<1>m. PICK magic : magic = <<170, 2>>
  OBVIOUS
<1>l. PICK len : len = WrU16Le(n)
  OBVIOUS
<1>1. magic \in Seq(Byte) /\ Len(magic) = 2 /\ magic[1] = 170 /\ magic[2] = 2
  BY <1>m DEF Byte
<1>2. len \in Seq(Byte) /\ Len(len) = 2 /\ len[1] + 256 * len[2] = n
  <2>1. n < 65536
    OBVIOUS
  <2> QED BY <1>l, <2>1, LittleEndian
<1>3. /\ Opening(n) \in Seq(Byte) /\ Len(Opening(n)) = Len(magic) + Len(len)
      /\ \A i \in 1..Len(magic) : Opening(n)[i] = magic[i]
      /\ \A i \in 1..Len(len) : Opening(n)[Len(magic) + i] = len[i]
  <2>1. magic \in Seq(Byte) /\ len \in Seq(Byte) /\ Opening(n) = magic \o len
    BY <1>m, <1>l, <1>1, <1>2 DEF Opening
  <2> QED BY <2>1, Joined
<1>4. 1 \in 1..Len(magic) /\ 2 \in 1..Len(magic) /\ 1 \in 1..Len(len) /\ 2 \in 1..Len(len)
  BY <1>1, <1>2
<1>5. /\ Opening(n)[1] = magic[1] /\ Opening(n)[2] = magic[2]
      /\ Opening(n)[Len(magic) + 1] = len[1] /\ Opening(n)[Len(magic) + 2] = len[2]
  BY <1>3, <1>4
<1>6. Len(magic) + 1 = 3 /\ Len(magic) + 2 = 4 /\ Len(magic) + Len(len) = 4
  BY <1>1, <1>2
<1> QED BY <1>1, <1>2, <1>3, <1>5, <1>6

\* A packet as it is built: where its parts are, and that both checksums are
\* those of the bytes in front of them.
LEMMA BuiltShape ==
    ASSUME NEW p \in Packets
    PROVE  /\ Built(p) \in Seq(Byte) /\ Len(Built(p)) = 18 + Len(p.payload)
           /\ Built(p)[1] = 170 /\ Built(p)[2] = 2
           /\ RdU16Le(Built(p), 3) = Len(p.payload)
           /\ Built(p)[5] = Crc8(SubSeq(Built(p), 1, 4))
           /\ Built(p)[13] = p.src /\ Built(p)[14] = p.dst
           /\ Built(p)[15] = p.cmd_set /\ Built(p)[16] = p.cmd_id
           /\ SubSeq(Built(p), 17, 16 + Len(p.payload)) = p.payload
           /\ RdU16Le(Built(p), Len(Built(p)) - 1) = Crc16(Body(p))
<1>1. /\ p.src \in Byte /\ p.dst \in Byte /\ p.cmd_set \in Byte /\ p.cmd_id \in Byte
      /\ p.payload \in Seq(Byte) /\ Len(p.payload) \in Nat /\ Len(p.payload) <= 237
  BY PacketType
<1>p1. PICK load : load = p.payload
  OBVIOUS
<1>p2. PICK start : start = Opening(Len(load))
  OBVIOUS
<1>p3. PICK sum : sum = Crc8(start)
  OBVIOUS
<1>p4. PICK rest : rest = <<sum, 13, 0, 0, 0, 0, 0, 0, p.src, p.dst, p.cmd_set, p.cmd_id>>
  OBVIOUS
<1>p5. PICK covered : covered = (start \o rest) \o load
  OBVIOUS
<1>p6. PICK check : check = WrU16Le(Crc16(covered))
  OBVIOUS
<1>p7. PICK S : S = Byte \cup {sum, check[1], check[2]}
  OBVIOUS
<1>2. Built(p) = covered \o check
  <2>1. ~(300 < INNER_OVERHEAD + Len(p.payload))
    BY <1>1 DEF INNER_OVERHEAD
  <2> QED BY <1>p1, <1>p2, <1>p3, <1>p4, <1>p5, <1>p6, <2>1, ZenonT(40) DEF Built, InnerBuild, Opening
<1>3. start \in Seq(S) /\ rest \in Seq(S) /\ load \in Seq(S) /\ check \in Seq(S)
  <2>1. start \in Seq(Byte) /\ Byte \subseteq S
    <3>1. Len(load) \in Nat /\ Len(load) <= 237
      BY <1>1, <1>p1
    <3>2. start \in Seq(Byte)
      BY <1>p2, <3>1, StartShape
    <3> QED BY <1>p7, <3>2
  <2>2. start \in Seq(S) /\ load \in Seq(S)
    BY <1>1, <1>p1, <2>1, SeqMonotonic
  <2>3. /\ 13 \in S /\ 0 \in S /\ sum \in S
        /\ p.src \in S /\ p.dst \in S /\ p.cmd_set \in S /\ p.cmd_id \in S
    BY <1>1, <1>p7 DEF Byte
  <2>4. rest \in Seq(S)
    BY <1>p4, <2>3
  <2>5. check[1] \in S /\ check[2] \in S /\ check = <<check[1], check[2]>>
    BY <1>p6, <1>p7 DEF WrU16Le
  <2>6. check \in Seq(S)
    <3> PICK lo \in S, hi \in S : check = <<lo, hi>>
      BY <2>5
    <3> QED OBVIOUS
  <2> QED BY <2>2, <2>4, <2>6
<1>p8. PICK all : all = Built(p)
  OBVIOUS
<1>4. /\ all \in Seq(S) /\ Len(start) \in Nat /\ Len(rest) \in Nat /\ Len(load) \in Nat
      /\ Len(check) \in Nat /\ Len(all) = Len(covered) + Len(check)
      /\ Len(covered) = (Len(start) + Len(rest)) + Len(load)
      /\ \A i \in 1..Len(start) : all[i] = start[i]
      /\ \A i \in 1..Len(rest) : all[Len(start) + i] = rest[i]
      /\ \A i \in 1..Len(check) : all[Len(covered) + i] = check[i]
      /\ SubSeq(all, 1, Len(covered)) = covered
      /\ SubSeq(covered, 1, Len(start)) = start /\ SubSeq(all, 1, Len(start)) = start
      /\ SubSeq(all, (Len(start) + Len(rest)) + 1, Len(covered)) = load
  <2>1. all = covered \o check
    BY <1>2, <1>p8
  <2>2. /\ start \in Seq(S) /\ rest \in Seq(S) /\ load \in Seq(S) /\ check \in Seq(S)
        /\ covered = (start \o rest) \o load
    BY <1>3, <1>p5
  <2>3. /\ all \in Seq(S) /\ Len(start) \in Nat /\ Len(rest) \in Nat /\ Len(load) \in Nat
        /\ Len(check) \in Nat /\ Len(all) = Len(covered) + Len(check)
        /\ Len(covered) = (Len(start) + Len(rest)) + Len(load)
    BY <2>1, <2>2, FourJoined
  <2>4. /\ \A i \in 1..Len(start) : all[i] = start[i]
        /\ \A i \in 1..Len(rest) : all[Len(start) + i] = rest[i]
        /\ \A i \in 1..Len(check) : all[Len(covered) + i] = check[i]
    BY <2>1, <2>2, FourJoined
  <2>5. /\ SubSeq(all, 1, Len(covered)) = covered
        /\ SubSeq(covered, 1, Len(start)) = start /\ SubSeq(all, 1, Len(start)) = start
        /\ SubSeq(all, (Len(start) + Len(rest)) + 1, Len(covered)) = load
    BY <2>1, <2>2, FourJoined
  <2> QED BY <2>3, <2>4, <2>5
<1>5. /\ start \in Seq(Byte) /\ Len(start) = 4 /\ start[1] = 170 /\ start[2] = 2
      /\ start[3] + 256 * start[4] = Len(load)
  <2>1. Len(load) \in Nat /\ Len(load) <= 237
    BY <1>1, <1>p1
  <2> QED BY <1>p2, <2>1, StartShape
<1>6. /\ Len(rest) = 12 /\ rest[1] = sum
      /\ rest[9] = p.src /\ rest[10] = p.dst /\ rest[11] = p.cmd_set /\ rest[12] = p.cmd_id
  BY <1>p4
<1>7. Len(check) = 2
  BY <1>p6 DEF WrU16Le
<1>8. Len(covered) = 16 + Len(load) /\ Len(all) = 18 + Len(load) /\ Len(all) - 2 = Len(covered)
  BY <1>4, <1>5, <1>6, <1>7
<1>9. Body(p) = covered
  <2>1. SubSeq(all, 1, Len(all) - 2) = covered
    BY <1>4, <1>8
  <2> QED BY <1>p8, <2>1 DEF Body
<1>10. sum \in Byte /\ check \in Seq(Byte) /\ check[1] + 256 * check[2] = Crc16(covered)
  <2>1. Crc16(covered) \in Nat /\ Crc16(covered) < 65536
    BY <1>9, ChecksumWidths
  <2>2. check \in Seq(Byte) /\ check[1] + 256 * check[2] = Crc16(covered)
    BY <1>p6, <2>1, LittleEndian
  <2>3. SubSeq(Body(p), 1, 4) = start
    BY <1>4, <1>5, <1>9
  <2>4. Crc8(SubSeq(Body(p), 1, 4)) \in Byte
    BY ChecksumWidths
  <2>5. sum \in Byte
    BY <1>p3, <2>3, <2>4
  <2> QED BY <2>2, <2>5
<1>11. all \in Seq(Byte)
  <2>1. check[1] \in Byte /\ check[2] \in Byte
    <3>1. 1 \in 1..Len(check) /\ 2 \in 1..Len(check)
      BY <1>7
    <3> QED BY <1>10, <3>1, ElementOfSeq
  <2>2. S = Byte
    BY <1>10, <1>p7, <2>1
  <2> QED BY <1>4, <2>2
<1>12. /\ all[1] = 170 /\ all[2] = 2 /\ all[3] = start[3] /\ all[4] = start[4]
  <2>1. 1 \in 1..Len(start) /\ 2 \in 1..Len(start) /\ 3 \in 1..Len(start) /\ 4 \in 1..Len(start)
    BY <1>5
  <2>2. all[1] = start[1] /\ all[2] = start[2] /\ all[3] = start[3] /\ all[4] = start[4]
    BY <1>4, <2>1
  <2> QED BY <1>5, <2>2
<1>13. /\ all[5] = sum /\ all[13] = p.src /\ all[14] = p.dst
       /\ all[15] = p.cmd_set /\ all[16] = p.cmd_id
  <2>1. /\ 1 \in 1..Len(rest) /\ 9 \in 1..Len(rest) /\ 10 \in 1..Len(rest)
        /\ 11 \in 1..Len(rest) /\ 12 \in 1..Len(rest)
    BY <1>6
  <2>2. /\ all[Len(start) + 1] = rest[1] /\ all[Len(start) + 9] = rest[9]
        /\ all[Len(start) + 10] = rest[10] /\ all[Len(start) + 11] = rest[11]
        /\ all[Len(start) + 12] = rest[12]
    BY <1>4, <2>1
  <2>3. /\ Len(start) + 1 = 5 /\ Len(start) + 9 = 13 /\ Len(start) + 10 = 14
        /\ Len(start) + 11 = 15 /\ Len(start) + 12 = 16
    BY <1>5
  <2> QED BY <1>6, <2>2, <2>3
<1>14. RdU16Le(all, 3) = Len(load)
  <2>1. 3 + 1 = 4
    OBVIOUS
  <2> QED BY <1>5, <1>12, <2>1 DEF RdU16Le
<1>15. all[5] = Crc8(SubSeq(all, 1, 4))
  <2>1. SubSeq(all, 1, 4) = start
    BY <1>4, <1>5
  <2> QED BY <1>13, <1>p3, <2>1
<1>16. RdU16Le(all, Len(all) - 1) = Crc16(Body(p))
  <2>1. 1 \in 1..Len(check) /\ 2 \in 1..Len(check)
    BY <1>7
  <2>2. all[Len(covered) + 1] = check[1] /\ all[Len(covered) + 2] = check[2]
    BY <1>4, <2>1
  <2>3. Len(all) - 1 = Len(covered) + 1 /\ (Len(all) - 1) + 1 = Len(covered) + 2
    BY <1>4, <1>8
  <2> QED BY <1>9, <1>10, <2>2, <2>3 DEF RdU16Le
<1>17. SubSeq(all, 17, 16 + Len(load)) = load
  <2>1. (Len(start) + Len(rest)) + 1 = 17
    BY <1>5, <1>6
  <2> QED BY <1>4, <1>8, <2>1
<1> QED
  BY <1>8, <1>11, <1>12, <1>13, <1>14, <1>15, <1>16, <1>17, <1>p1, <1>p8

\* What is built is accepted, and its fields are those of the packet.
LEMMA BuiltAccepted ==
    ASSUME NEW p \in Packets
    PROVE  InnerValid(Built(p)) /\ InnerFields(Built(p)) = p
<1>1. /\ Built(p) \in Seq(Byte) /\ Len(Built(p)) = 18 + Len(p.payload)
      /\ Built(p)[1] = 170 /\ Built(p)[2] = 2
      /\ RdU16Le(Built(p), 3) = Len(p.payload)
      /\ Built(p)[5] = Crc8(SubSeq(Built(p), 1, 4))
      /\ Built(p)[13] = p.src /\ Built(p)[14] = p.dst
      /\ Built(p)[15] = p.cmd_set /\ Built(p)[16] = p.cmd_id
      /\ SubSeq(Built(p), 17, 16 + Len(p.payload)) = p.payload
      /\ RdU16Le(Built(p), Len(Built(p)) - 1) = Crc16(Body(p))
  BY BuiltShape
<1>2. Len(p.payload) \in Nat
  BY PacketType
<1>3. InnerValid(Built(p))
  <2>1. Len(Built(p)) >= INNER_OVERHEAD /\ Len(Built(p)) = INNER_OVERHEAD + RdU16Le(Built(p), 3)
    <3>1. Len(Built(p)) = 18 + Len(p.payload) /\ RdU16Le(Built(p), 3) = Len(p.payload)
      BY <1>1
    <3> QED BY <1>2, <3>1 DEF INNER_OVERHEAD
  <2>2. RdU16Le(Built(p), Len(Built(p)) - 1) = Crc16(SubSeq(Built(p), 1, Len(Built(p)) - 2))
    BY <1>1 DEF Body
  <2> QED BY <1>1, <2>1, <2>2, Zenon DEF InnerValid
<1>4. InnerFields(Built(p)) = p
  <2>1. INNER_HEADER_LEN + 1 = 17 /\ INNER_HEADER_LEN + RdU16Le(Built(p), 3) = 16 + Len(p.payload)
    BY <1>1, <1>2 DEF INNER_HEADER_LEN
  <2>2. InnerFields(Built(p)) = [src |-> p.src, dst |-> p.dst, cmd_set |-> p.cmd_set,
                                 cmd_id |-> p.cmd_id, payload |-> p.payload]
    BY <1>1, <2>1 DEF InnerFields
  <2> QED BY <2>2, PacketType
<1> QED BY <1>3, <1>4

\* The length field stands at the start, so only the packet itself is accepted
\* of all that begins like it.
LEMMA BeginningAccepted ==
    ASSUME NEW p \in Packets, NEW pad \in Seq(Byte), NEW text, text = Built(p) \o pad,
           NEW n \in 0..Len(text), InnerValid(SubSeq(text, 1, n))
    PROVE  SubSeq(text, 1, n) = Built(p)
<1>1. /\ Built(p) \in Seq(Byte) /\ Len(Built(p)) = 18 + Len(p.payload)
      /\ RdU16Le(Built(p), 3) = Len(p.payload) /\ Len(p.payload) \in Nat
  BY BuiltShape, PacketType
<1>2. /\ text \in Seq(Byte) /\ Len(Built(p)) \in Nat /\ Len(text) = Len(Built(p)) + Len(pad)
      /\ \A i \in 1..Len(Built(p)) : text[i] = Built(p)[i]
      /\ SubSeq(text, 1, Len(Built(p))) = Built(p)
  <2>1. Built(p) \in Seq(Byte)
    BY <1>1
  <2> QED BY <2>1, Joined
<1> PICK data : data = SubSeq(text, 1, n)
  OBVIOUS
<1>3. Len(data) = n /\ \A i \in 1..n : data[i] = text[i]
  <2>1. text \in Seq(Byte) /\ 0 \in 0..n
    BY <1>2
  <2> QED BY <2>1, BeginningOf
<1>4. n >= 18 /\ n = 18 + RdU16Le(data, 3)
  <2>1. Len(data) >= INNER_OVERHEAD /\ Len(data) = INNER_OVERHEAD + RdU16Le(data, 3)
    BY DEF InnerValid
  <2> QED BY <1>3, <2>1 DEF INNER_OVERHEAD
<1>5. RdU16Le(data, 3) = RdU16Le(Built(p), 3)
  <2>1. 3 \in 1..n /\ 4 \in 1..n /\ 3 \in 1..Len(Built(p)) /\ 4 \in 1..Len(Built(p)) /\ 3 + 1 = 4
    BY <1>1, <1>4
  <2>2. data[3] = Built(p)[3] /\ data[4] = Built(p)[4]
    BY <1>2, <1>3, <2>1
  <2> QED BY <2>1, <2>2 DEF RdU16Le
<1>6. n = Len(Built(p))
  BY <1>1, <1>4, <1>5
<1> QED BY <1>2, <1>6

------------------------------------------------------------------------------
(* Padding *)

\* Padding fills the last block, or takes one of its own.
LEMMA PaddedShape ==
    ASSUME NEW data \in Seq(Byte)
    PROVE  \E pad \in 1..16, tail \in Seq(Byte) :
              /\ Padded(data) = data \o tail /\ Len(tail) = pad
              /\ \A i \in 1..pad : tail[i] = pad
              /\ Padded(data) \in Seq(Byte) /\ Len(Padded(data)) = Len(data) + pad
              /\ Len(Padded(data)) % 16 = 0
              /\ \A n \in Nat : Len(data) < 16 * n => Len(Padded(data)) <= 16 * n
<1>1. Len(data) \in Nat
  BY LenProperties
<1>p. PICK pad : pad = 16 - (Len(data) % 16)
  OBVIOUS
<1>2. pad \in 1..16
  BY <1>1, <1>p, SMTT(30)
<1>t. PICK tail : tail = [i \in 1..pad |-> pad]
  OBVIOUS
<1>3. tail \in Seq(Byte) /\ Len(tail) = pad /\ \A i \in 1..pad : tail[i] = pad
  <2>1. pad \in Nat /\ pad \in Byte
    BY <1>2 DEF Byte
  <2> QED BY <1>t, <2>1
<1>4. Padded(data) = data \o tail
  BY <1>p, <1>t DEF Padded, BLOCK
<1>5. Padded(data) \in Seq(Byte) /\ Len(Padded(data)) = Len(data) + Len(tail)
  <2>1. tail \in Seq(Byte)
    BY <1>3
  <2> QED BY <1>4, <2>1, Joined
<1>6. /\ (Len(data) + pad) % 16 = 0
      /\ \A n \in Nat : Len(data) < 16 * n => Len(data) + pad <= 16 * n
  BY <1>1, <1>p
<1> QED BY <1>2, <1>3, <1>4, <1>5, <1>6

\* What was padded is found again.
LEMMA PaddingRemoved ==
    ASSUME NEW data \in Seq(Byte)
    PROVE  Unpadded(Padded(data)) = data
<1>1. PICK pad \in 1..16, tail \in Seq(Byte) :
          /\ Padded(data) = data \o tail /\ Len(tail) = pad
          /\ \A i \in 1..pad : tail[i] = pad
  BY PaddedShape
<1>t. PICK text : text = Padded(data)
  OBVIOUS
<1>2. /\ Len(data) \in Nat /\ Len(text) = Len(data) + Len(tail)
      /\ \A i \in 1..Len(tail) : text[Len(data) + i] = tail[i]
      /\ SubSeq(text, 1, Len(data)) = data
  <2>1. text = data \o tail
    BY <1>1, <1>t
  <2> QED BY <2>1, Joined
<1>3. \A j \in 0..(pad - 1) : text[Len(text) - j] = pad
  <2>1. \A j \in 0..(pad - 1) : /\ pad - j \in 1..pad
                                /\ Len(text) - j = Len(data) + (pad - j)
    BY <1>1, <1>2
  <2> QED BY <1>1, <1>2, <2>1
<1>4. Last(text) = pad
  <2>1. Len(text) - 0 = Len(text) /\ 0 \in 0..(pad - 1)
    BY <1>1, <1>2
  <2> QED BY <1>3, <2>1 DEF Last
<1>5. ValidPad(text, pad)
  <2>1. pad >= 1 /\ pad <= BLOCK /\ pad <= Len(text)
    BY <1>1, <1>2 DEF BLOCK
  <2> QED BY <1>3, <2>1 DEF ValidPad
<1>6. Len(text) - pad = Len(data)
  BY <1>1, <1>2
<1>7. Unpadded(text) = SubSeq(text, 1, Len(text) - pad)
  BY <1>4, <1>5, Zenon DEF Unpadded
<1> QED BY <1>t, <1>2, <1>6, <1>7

\* Removing padding leaves a beginning of what was there.
LEMMA UnpaddedBeginning ==
    ASSUME NEW data \in Seq(Byte), Len(data) # 0
    PROVE  \E m \in 0..Len(data) : Unpadded(data) = SubSeq(data, 1, m)
<1>1. Len(data) \in Nat
  BY LenProperties
<1>p. PICK pad : pad = Last(data)
  OBVIOUS
<1>2. CASE ValidPad(data, pad)
  <2>1. Unpadded(data) = SubSeq(data, 1, Len(data) - pad)
    BY <1>p, <1>2, Zenon DEF Unpadded
  <2>2. Len(data) - pad \in 0..Len(data)
    <3>2. Len(data) \in 1..Len(data)
      BY <1>1
    <3>3. pad \in Byte
      BY <1>p, <3>2, ElementOfSeq DEF Last
    <3>4. pad >= 1 /\ pad <= Len(data)
      BY <1>2 DEF ValidPad
    <3> QED BY <1>1, <3>3, <3>4 DEF Byte
  <2> QED BY <2>1, <2>2
<1>3. CASE ~ValidPad(data, pad)
  <2>1. Unpadded(data) = data
    BY <1>p, <1>3, Zenon DEF Unpadded
  <2>2. data = SubSeq(data, 1, Len(data)) /\ Len(data) \in 0..Len(data)
    BY <1>1, SubSeqFull
  <2> QED BY <2>1, <2>2
<1> QED BY <1>2, <1>3

------------------------------------------------------------------------------
(* Decryption *)

LEMMA WholeBlocks ==
    ASSUME NEW k \in Nat
    PROVE  /\ k \div 16 \in Nat /\ k - (k % 16) = 16 * (k \div 16)
           /\ 16 * (k \div 16) <= k /\ k < 16 * (k \div 16) + 16
OBVIOUS

\* The first n blocks of a text as they are given back, if there is room.
Deciphered(text, n, cap) ==
    IF n = 0 THEN Got(<<>>)
    ELSE IF cap < 16 * n THEN NoRoom
    ELSE Got(Unpadded(SubSeq(text, 1, 16 * n)))

\* Whole blocks of a ciphertext are deciphered, less than a block behind them is not.
LEMMA BlocksDecrypted ==
    ASSUME NEW text \in Plaintexts, NEW data, NEW n \in Nat, NEW cap \in Nat,
           Len(text) \in Nat, 16 * n <= Len(text),
           Len(data) \in Nat, 16 * n <= Len(data), Len(data) < 16 * n + 16,
           SubSeq(data, 1, 16 * n) = SubSeq(CbcEncrypt(text), 1, 16 * n)
    PROVE  SessionDecrypt(data, cap) = Deciphered(text, n, cap)
<1>1. Len(data) - (Len(data) % BLOCK) = 16 * n
  BY DEF BLOCK
<1>2. CASE n = 0
  <2>1. Len(data) - (Len(data) % BLOCK) = 0
    BY <1>1, <1>2
  <2> QED BY <1>2, <2>1, Zenon DEF SessionDecrypt, Deciphered
<1>3. CASE n # 0
  <2>1. 16 * n # 0
    BY <1>3
  <2>2. CbcDecrypt(SubSeq(CbcEncrypt(text), 1, 16 * n)) = SubSeq(text, 1, 16 * n)
    <3>1. n \in 1..(Len(text) \div BLOCK) /\ BLOCK * n = 16 * n
      BY <1>3 DEF BLOCK
    <3> QED BY <3>1, CipherAssumption
  <2> QED BY <1>1, <1>3, <2>1, <2>2, Zenon DEF SessionDecrypt, Deciphered
<1> QED BY <1>2, <1>3

\* Of a ciphertext cut after k bytes, or followed by less than a block of other
\* bytes, the whole blocks are deciphered.
LEMMA Decrypted ==
    ASSUME NEW text \in Plaintexts, text \in Seq(Byte), Len(text) % 16 = 0,
           NEW tail \in Seq(Byte), Len(tail) < 16,
           NEW k \in Nat, k <= Len(text) + Len(tail), NEW cap \in Nat
    PROVE  /\ 16 * (k \div 16) <= Len(text)
           /\ SessionDecrypt(SubSeq(CbcEncrypt(text) \o tail, 1, k), cap) =
                 Deciphered(text, k \div 16, cap)
<1>i. PICK in : in = CbcEncrypt(text) \o tail
  OBVIOUS
<1>c. PICK code : code = CbcEncrypt(text)
  OBVIOUS
<1>1. code \in Seq(Byte) /\ Len(code) = Len(text)
  BY <1>c, CipherAssumption
<1>2. in \in Seq(Byte) /\ Len(code) \in Nat /\ Len(tail) \in Nat /\ Len(in) = Len(code) + Len(tail)
  <2>1. code \in Seq(Byte) /\ in = code \o tail
    BY <1>1, <1>c, <1>i
  <2> QED BY <2>1, Joined
<1>n. PICK n : n = k \div 16
  OBVIOUS
<1>d. PICK data : data = SubSeq(in, 1, k)
  OBVIOUS
<1>3. /\ n \in Nat /\ k - (k % 16) = 16 * n /\ 16 * n <= k /\ k < 16 * n + 16 /\ k \in Nat
  BY <1>n, WholeBlocks
<1>4. n \in 0..(Len(text) \div 16) /\ 16 * n <= Len(text) /\ 16 * n \in 0..Len(text)
  <2>1. Len(text) \in Nat /\ k < Len(text) + 16
    BY <1>1, <1>2
  <2>2. Len(text) = 16 * (Len(text) \div 16)
    BY <2>1, WholeBlocks
  <2>3. PICK b \in Nat : b = Len(text) \div 16
    BY <2>1, WholeBlocks
  <2>4. 16 * n < 16 * b + 16
    BY <1>3, <2>1, <2>2, <2>3
  <2>5. n <= b
    BY <1>3, <2>3, <2>4
  <2> QED BY <1>3, <2>1, <2>2, <2>3, <2>5
<1>5. Len(data) = k /\ SubSeq(data, 1, 16 * n) = SubSeq(code, 1, 16 * n)
  <2>1. in \in Seq(Byte) /\ 16 * n \in 0..k /\ k \in 0..Len(in)
    BY <1>1, <1>2, <1>3
  <2>2. Len(data) = k /\ SubSeq(data, 1, 16 * n) = SubSeq(in, 1, 16 * n)
    BY <1>d, <2>1, BeginningOf
  <2>3. SubSeq(in, 1, 16 * n) = SubSeq(code, 1, 16 * n)
    <3>1. 1 \in 1..(Len(code) + 1) /\ 16 * n \in (1 - 1)..Len(code)
      BY <1>1, <1>3, <1>4
    <3>2. code \in Seq(Byte) /\ in = code \o tail
      BY <1>1, <1>c, <1>i
    <3> QED BY <3>1, <3>2, PartInJoined
  <2> QED BY <2>2, <2>3
<1>6. SessionDecrypt(data, cap) = Deciphered(text, n, cap)
  <2>1. SubSeq(data, 1, 16 * n) = SubSeq(CbcEncrypt(text), 1, 16 * n)
    BY <1>5, <1>c
  <2>2. /\ Len(data) \in Nat /\ 16 * n <= Len(data) /\ Len(data) < 16 * n + 16
        /\ n \in Nat /\ Len(text) \in Nat /\ 16 * n <= Len(text)
    BY <1>1, <1>2, <1>3, <1>4, <1>5
  <2> QED BY <2>1, <2>2, BlocksDecrypted
<1> QED BY <1>4, <1>6, <1>d, <1>i, <1>n

\* A ciphertext as it was made.
LEMMA DecryptedWhole ==
    ASSUME NEW text \in Plaintexts, text \in Seq(Byte), Len(text) % 16 = 0, Len(text) # 0,
           NEW cap \in Nat, Len(text) <= cap
    PROVE  SessionDecrypt(CbcEncrypt(text), cap) = Got(Unpadded(text))
<1>c. PICK code : code = CbcEncrypt(text)
  OBVIOUS
<1>1. code \in Seq(Byte) /\ Len(code) = Len(text) /\ Len(text) \in Nat
  BY <1>c, CipherAssumption, LenProperties
<1>n. PICK n : n = Len(text) \div 16
  OBVIOUS
<1>2. n \in Nat /\ 16 * n = Len(text) /\ n # 0 /\ ~(cap < 16 * n)
  BY <1>1, <1>n
<1>3. SubSeq(text, 1, 16 * n) = text
  BY <1>2, SubSeqFull
<1>4. SessionDecrypt(code, cap) = Deciphered(text, n, cap)
  <2>1. /\ Len(code) \in Nat /\ 16 * n <= Len(code) /\ Len(code) < 16 * n + 16
        /\ 16 * n <= Len(text)
    BY <1>1, <1>2
  <2>2. SubSeq(code, 1, 16 * n) = SubSeq(CbcEncrypt(text), 1, 16 * n)
    BY <1>c
  <2> QED BY <1>1, <1>2, <2>1, <2>2, BlocksDecrypted
<1> QED BY <1>2, <1>3, <1>4, <1>c, Zenon DEF Deciphered

\* What a sealed packet is.
LEMMA SealedIs ==
    ASSUME NEW p \in Packets
    PROVE  /\ Sealed(p) = CbcEncrypt(Padded(Built(p)))
           /\ Padded(Built(p)) \in Plaintexts /\ Padded(Built(p)) \in Seq(Byte)
           /\ Len(Padded(Built(p))) % 16 = 0
           /\ Len(Padded(Built(p))) \in Nat
           /\ Len(Padded(Built(p))) >= 18 /\ Len(Padded(Built(p))) <= 256
<1>b. PICK inner : inner = Built(p)
  OBVIOUS
<1>1. inner \in Seq(Byte) /\ Len(inner) \in Nat /\ Len(inner) >= 18 /\ Len(inner) < 256
  <2>1. Built(p) \in Seq(Byte) /\ Len(Built(p)) = 18 + Len(p.payload)
    BY BuiltShape
  <2>2. Len(p.payload) \in Nat /\ Len(p.payload) <= 237
    BY PacketType
  <2> QED BY <1>b, <2>1, <2>2
<1>t. PICK text : text = Padded(inner)
  OBVIOUS
<1>2. /\ text \in Seq(Byte) /\ Len(text) % 16 = 0
      /\ Len(text) \in Nat /\ Len(text) >= 18 /\ Len(text) <= 256
  <2>1. inner \in Seq(Byte)
    BY <1>1
  <2>2. PICK pad \in 1..16 :
            /\ Padded(inner) \in Seq(Byte) /\ Len(Padded(inner)) = Len(inner) + pad
            /\ Len(Padded(inner)) % 16 = 0
            /\ \A n \in Nat : Len(inner) < 16 * n => Len(Padded(inner)) <= 16 * n
    BY <2>1, PaddedShape
  <2>3. 16 \in Nat /\ Len(inner) < 16 * 16 /\ 16 * 16 = 256
    BY <1>1
  <2>4. Len(Padded(inner)) <= 256
    BY <2>2, <2>3
  <2>5. Len(inner) \in Nat /\ Len(inner) >= 18 /\ Len(Padded(inner)) = Len(inner) + pad
    BY <1>1, <2>2
  <2>6. Len(Padded(inner)) \in Nat /\ Len(Padded(inner)) >= 18
    BY <2>5
  <2> QED BY <1>t, <2>2, <2>4, <2>6
<1>3. text \in Plaintexts
  BY <1>b, <1>t DEF Plaintexts
<1>c. PICK code : code = CbcEncrypt(text)
  OBVIOUS
<1>4. code \in Seq(Byte) /\ Len(code) = Len(text)
  BY <1>3, <1>c, CipherAssumption
<1>f. PICK frame : frame = OuterBuild(DATA, code, 600)
  OBVIOUS
<1>5. SendInnerEncrypted(p.src, p.dst, p.cmd_set, p.cmd_id, p.payload) = frame
  <2>1. ~(Len(text) > 320)
    BY <1>2
  <2>2. EncryptPkcs7(inner, 320) = code
    BY <1>c, <1>t, <2>1, Zenon DEF EncryptPkcs7
  <2>3. inner # Rejected /\ code # Rejected
    <3>1. Len(inner) # 0 /\ Len(code) # 0
      BY <1>1, <1>2, <1>4
    <3> QED BY <3>1 DEF Rejected
  <2> QED BY <1>b, <1>f, <2>2, <2>3, ZenonT(40) DEF SendInnerEncrypted, Built
<1>6. SubSeq(frame, 7, Len(frame) - 2) = code
  <2>s. PICK start : start = <<90, 90, 16, 1>>
    OBVIOUS
  <2>r. PICK rest : rest = WrU16Le(Len(code) + 2)
    OBVIOUS
  <2>v. PICK covered : covered = (start \o rest) \o code
    OBVIOUS
  <2>k. PICK check : check = WrU16Le(Crc16(covered))
    OBVIOUS
  <2>e. PICK S : S = Byte \cup {rest[1], rest[2], check[1], check[2]}
    OBVIOUS
  <2>1. frame = covered \o check
    <3>1. ~(600 < OUTER_OVERHEAD + Len(code))
      BY <1>2, <1>4 DEF OUTER_OVERHEAD
    <3>2. start = <<90, 90, (16 * DATA) % 256, 1>>
      BY <2>s DEF DATA
    <3> QED BY <1>f, <2>r, <2>v, <2>k, <3>1, <3>2, ZenonT(40) DEF OuterBuild
  <2>2. start \in Seq(S) /\ rest \in Seq(S) /\ code \in Seq(S) /\ check \in Seq(S)
    <3>1. 90 \in S /\ 16 \in S /\ 1 \in S /\ Byte \subseteq S
      BY <2>e DEF Byte
    <3>2. start \in Seq(S)
      BY <2>s, <3>1
    <3>3. code \in Seq(S)
      BY <1>4, <3>1, SeqMonotonic
    <3>4. /\ rest[1] \in S /\ rest[2] \in S /\ rest = <<rest[1], rest[2]>>
          /\ check[1] \in S /\ check[2] \in S /\ check = <<check[1], check[2]>>
      BY <2>e, <2>k, <2>r DEF WrU16Le
    <3>5. rest \in Seq(S) /\ check \in Seq(S)
      <4> PICK lo \in S, hi \in S, low \in S, high \in S : rest = <<lo, hi>> /\ check = <<low, high>>
        BY <3>4
      <4> QED OBVIOUS
    <3> QED BY <3>2, <3>3, <3>5
  <2>3. /\ Len(start) \in Nat /\ Len(rest) \in Nat /\ Len(code) \in Nat /\ Len(check) \in Nat
        /\ Len(frame) = Len(covered) + Len(check)
        /\ Len(covered) = (Len(start) + Len(rest)) + Len(code)
        /\ SubSeq(frame, (Len(start) + Len(rest)) + 1, Len(covered)) = code
    BY <2>1, <2>2, <2>v, FourJoined
  <2>4. Len(start) = 4 /\ Len(rest) = 2 /\ Len(check) = 2
    BY <2>k, <2>r, <2>s DEF WrU16Le
  <2>5. (Len(start) + Len(rest)) + 1 = 7 /\ Len(frame) - 2 = Len(covered)
    BY <2>3, <2>4
  <2> QED BY <2>3, <2>5
<1>7. Sealed(p) = code
  BY <1>5, <1>6 DEF Sealed
<1> QED BY <1>2, <1>3, <1>7, <1>b, <1>c, <1>t

------------------------------------------------------------------------------
(* Opening *)

\* The bytes of the buffer a data frame is deciphered into.
Room == 256

\* A packet is what opening its bytes gives, and nothing when they are refused.
LEMMA OpenedIs ==
    ASSUME NEW payload, NEW data, SessionDecrypt(payload, Room) = Got(data)
    PROVE  /\ \A p \in Packets : data = Built(p) => OpenDataFrame(payload) = Got(p)
           /\ ~InnerValid(data) => ~OpenDataFrame(payload).ok
<1>1. SessionDecrypt(payload, Room).ok = TRUE /\ SessionDecrypt(payload, Room).bytes = data
  BY DEF Got
<1>2. ASSUME NEW p \in Packets, data = Built(p) PROVE OpenDataFrame(payload) = Got(p)
  <2>1. InnerValid(data) /\ InnerFields(data) = p
    BY <1>2, BuiltAccepted
  <2> QED BY <1>1, <2>1, Zenon DEF OpenDataFrame, Room
<1>3. ASSUME ~InnerValid(data) PROVE ~OpenDataFrame(payload).ok
  <2>1. OpenDataFrame(payload) = NoRoom
    BY <1>1, <1>3, Zenon DEF OpenDataFrame, Room
  <2> QED BY <2>1 DEF NoRoom
<1> QED BY <1>2, <1>3

\* However much arrives of a sealed packet, and of the bytes behind it, opening
\* gives the packet or nothing, and the packet once all of it is there.
LEMMA SealedOpened ==
    ASSUME NEW p \in Packets, NEW k \in Nat, k <= Len(Sealed(p)) + 15
    PROVE  /\ OpenDataFrame(SubSeq(Sealed(p) \o Stray, 1, k)).ok =>
                 OpenDataFrame(SubSeq(Sealed(p) \o Stray, 1, k)) = Got(p)
           /\ k >= Len(Sealed(p)) => OpenDataFrame(SubSeq(Sealed(p) \o Stray, 1, k)) = Got(p)
<1>t. PICK text : text = Padded(Built(p))
  OBVIOUS
<1>d. PICK payload : payload = SubSeq(Sealed(p) \o Stray, 1, k)
  OBVIOUS
<1>r. PICK tail : tail = Stray
  OBVIOUS
<1>b. Built(p) \in Seq(Byte)
  BY BuiltShape
<1>p. PICK pad \in Seq(Byte) : text = Built(p) \o pad
  BY <1>b, <1>t, PaddedShape
<1>1. /\ text \in Plaintexts /\ text \in Seq(Byte) /\ Len(text) \in Nat /\ Len(text) >= 18
      /\ Len(text) % 16 = 0 /\ Sealed(p) = CbcEncrypt(text)
  BY <1>t, SealedIs
<1>l. Len(text) <= Room
  <2>1. Len(text) <= 256
    BY <1>t, SealedIs
  <2> QED BY <2>1 DEF Room
<1>s. tail \in Seq(Byte) /\ Len(tail) = 15
  <2>1. \A i \in 1..15 : 90 \in Byte
    BY DEF Byte
  <2> QED BY <1>r, <2>1 DEF Stray, BLOCK
<1>k. /\ Len(Sealed(p)) = Len(text) /\ k <= Len(text) + Len(tail) /\ Len(tail) < 16
      /\ payload = SubSeq(CbcEncrypt(text) \o tail, 1, k)
  <2>1. Len(CbcEncrypt(text)) = Len(text)
    BY <1>1, CipherAssumption
  <2> QED BY <1>1, <1>d, <1>r, <1>s, <2>1
<1>n. PICK n : n = k \div 16
  OBVIOUS
<1>2. n \in Nat /\ 16 * n <= k /\ k < 16 * n + 16
  BY <1>n, WholeBlocks
<1>3. /\ 16 * n <= Len(text) /\ ~(Room < 16 * n)
      /\ SessionDecrypt(payload, Room) = Deciphered(text, n, Room)
  <2>1. Room \in Nat
    BY DEF Room
  <2>2. /\ 16 * n <= Len(text)
        /\ SessionDecrypt(SubSeq(CbcEncrypt(text) \o tail, 1, k), Room) = Deciphered(text, n, Room)
    BY <1>1, <1>k, <1>n, <1>s, <2>1, Decrypted
  <2>3. ~(Room < 16 * n)
    BY <1>1, <1>2, <1>l, <2>1, <2>2
  <2> QED BY <1>k, <2>2, <2>3
<1>4. CASE n = 0
  <2>1. SessionDecrypt(payload, Room) = Got(<<>>)
    BY <1>3, <1>4, Zenon DEF Deciphered
  <2>2. ~InnerValid(<<>>)
    <3>1. ~(Len(<<>>) >= INNER_OVERHEAD)
      BY DEF INNER_OVERHEAD
    <3> QED BY <3>1 DEF InnerValid
  <2>3. ~OpenDataFrame(payload).ok
    BY <2>1, <2>2, OpenedIs
  <2>4. ~(k >= Len(text))
    <3>1. k \in Nat /\ k < 16 /\ Len(text) \in Nat /\ Len(text) >= 18
      BY <1>1, <1>2, <1>4
    <3> QED BY <3>1
  <2> QED BY <1>1, <1>d, <1>k, <2>3, <2>4
<1>5. CASE n # 0
  <2>b. PICK data : data = SubSeq(text, 1, 16 * n)
    OBVIOUS
  <2>1. SessionDecrypt(payload, Room) = Got(Unpadded(data))
    BY <1>3, <1>5, <2>b, Zenon DEF Deciphered
  <2>2. data \in Seq(Byte) /\ Len(data) = 16 * n
    <3>1. 16 * n \in 0..Len(text) /\ 0 \in 0..(16 * n)
      BY <1>1, <1>2, <1>3
    <3> QED BY <1>1, <2>b, <3>1, BeginningOf
  <2>3. PICK m \in 0..Len(data) : Unpadded(data) = SubSeq(data, 1, m)
    <3>1. Len(data) # 0
      BY <1>2, <1>5, <2>2
    <3> QED BY <2>2, <3>1, UnpaddedBeginning
  <2>4. SubSeq(data, 1, m) = SubSeq(text, 1, m) /\ m \in 0..Len(text)
    <3>1. 16 * n \in 0..Len(text) /\ m \in 0..(16 * n) /\ m \in 0..Len(text)
      <4>1. 16 * n \in 0..Len(text) /\ Len(data) = 16 * n
        BY <1>1, <1>2, <1>3, <2>2
      <4>2. n \in Nat /\ 16 * n <= Len(text) /\ Len(text) \in Nat
        BY <1>1, <1>2, <1>3
      <4> QED BY <4>1, <4>2
    <3>2. SubSeq(SubSeq(text, 1, 16 * n), 1, m) = SubSeq(text, 1, m)
      BY <1>1, <3>1, BeginningOf
    <3> QED BY <2>b, <3>1, <3>2
  <2>5. ASSUME OpenDataFrame(payload).ok PROVE OpenDataFrame(payload) = Got(p)
    <3>1. InnerValid(SubSeq(text, 1, m))
      BY <2>1, <2>3, <2>4, <2>5, OpenedIs
    <3>2. SubSeq(text, 1, m) = Built(p)
      BY <1>p, <2>4, <3>1, BeginningAccepted
    <3> QED BY <2>1, <2>3, <2>4, <3>2, OpenedIs
  <2>6. ASSUME k >= Len(text) PROVE OpenDataFrame(payload) = Got(p)
    <3>1. 16 * n = Len(text)
      <4>p. PICK b : b = Len(text) \div 16
        OBVIOUS
      <4>1. b \in Nat /\ Len(text) = 16 * b
        BY <1>1, <4>p
      <4>2. 16 * n + 16 > 16 * b /\ 16 * n <= 16 * b
        <5>1. k >= Len(text) /\ 16 * n <= Len(text) /\ k < 16 * n + 16 /\ k \in Int
          BY <1>2, <1>3, <2>6
        <5> QED BY <1>2, <4>1, <5>1
      <4>3. n = b
        BY <1>2, <4>1, <4>2
      <4> QED BY <4>1, <4>3
    <3>2. data = text
      BY <1>1, <2>b, <3>1, SubSeqFull
    <3>3. Unpadded(data) = Built(p)
      BY <1>b, <1>t, <3>2, PaddingRemoved
    <3> QED BY <2>1, <3>3, OpenedIs
  <2> QED BY <1>d, <1>k, <2>5, <2>6
<1> QED BY <1>4, <1>5

------------------------------------------------------------------------------
(* The channel *)

\* What arrives is what was built, or one edit of it.
Damaged(p, new) ==
    \/ \E i \in DOMAIN Built(p), b \in Bytes : b # Built(p)[i] /\ new = [Built(p) EXCEPT ![i] = b]
    \/ \E n \in 0..(Len(Built(p)) - 1) : new = SubSeq(Built(p), 1, n)
    \/ \E b \in Bytes : new = Append(Built(p), b)

ChannelInv ==
    /\ packet \in Packets
    /\ edits \in {0, 1}
    /\ edits = 0 => img = Built(packet)
    /\ edits = 1 => Damaged(packet, img)

\* At every moment the image is that of a packet, or one edit away from it.
THEOREM ChannelInvariant == Spec => []ChannelInv
<1>1. Init => ChannelInv
  BY DEF Init, ChannelInv
<1>2. ChannelInv /\ [Next]_vars => ChannelInv'
  <2> SUFFICES ASSUME ChannelInv, [Next]_vars PROVE ChannelInv'
    OBVIOUS
  <2>1. CASE ChangeByte
    <3>1. PICK i \in DOMAIN img, b \in Bytes : b # img[i] /\ Edit([img EXCEPT ![i] = b])
      BY <2>1 DEF ChangeByte
    <3>2. /\ img = Built(packet) /\ packet' = packet /\ edits' = 1
          /\ img' = [img EXCEPT ![i] = b] /\ packet \in Packets
      BY <3>1 DEF Edit, ChannelInv
    <3>3. Damaged(packet, img')
      BY <3>1, <3>2 DEF Damaged
    <3> QED BY <3>2, <3>3 DEF ChannelInv
  <2>2. CASE Truncate
    <3>1. PICK n \in 0..(Len(img) - 1) : Edit(SubSeq(img, 1, n))
      BY <2>2 DEF Truncate
    <3>2. /\ img = Built(packet) /\ packet' = packet /\ edits' = 1
          /\ img' = SubSeq(img, 1, n) /\ packet \in Packets
      BY <3>1 DEF Edit, ChannelInv
    <3>3. Damaged(packet, img')
      BY <3>1, <3>2 DEF Damaged
    <3> QED BY <3>2, <3>3 DEF ChannelInv
  <2>3. CASE Extend
    <3>1. PICK b \in Bytes : Edit(Append(img, b))
      BY <2>3 DEF Extend
    <3>2. /\ img = Built(packet) /\ packet' = packet /\ edits' = 1
          /\ img' = Append(img, b) /\ packet \in Packets
      BY <3>1 DEF Edit, ChannelInv
    <3>3. Damaged(packet, img')
      BY <3>1, <3>2 DEF Damaged
    <3> QED BY <3>2, <3>3 DEF ChannelInv
  <2>4. CASE UNCHANGED vars
    BY <2>4 DEF ChannelInv, Damaged, vars
  <2> QED BY <2>1, <2>2, <2>3, <2>4 DEF Next
<1> QED BY <1>1, <1>2, PTL DEF Spec

\* A packet that is sent sealed is found in its frame when it is opened.
THEOREM RoundTrip == Spec => []SealedRoundTrip
<1>1. ChannelInv => SealedRoundTrip
  <2> SUFFICES ASSUME packet \in Packets PROVE OpenDataFrame(Sealed(packet)) = Got(packet)
    BY DEF ChannelInv, SealedRoundTrip
  <2>t. PICK text : text = Padded(Built(packet))
    OBVIOUS
  <2>1. /\ Sealed(packet) = CbcEncrypt(text) /\ text \in Plaintexts /\ text \in Seq(Byte)
        /\ Len(text) % 16 = 0 /\ Len(text) # 0 /\ Len(text) <= Room /\ Room \in Nat
    <3>1. /\ Sealed(packet) = CbcEncrypt(text) /\ text \in Plaintexts /\ text \in Seq(Byte)
          /\ Len(text) % 16 = 0 /\ Len(text) \in Nat /\ Len(text) >= 18 /\ Len(text) <= 256
      BY <2>t, SealedIs
    <3>2. Len(text) # 0 /\ Len(text) <= Room /\ Room \in Nat
      BY <3>1 DEF Room
    <3> QED BY <3>1, <3>2
  <2>2. SessionDecrypt(Sealed(packet), Room) = Got(Unpadded(text))
    BY <2>1, DecryptedWhole
  <2>3. Unpadded(text) = Built(packet)
    <3>1. Built(packet) \in Seq(Byte)
      BY BuiltShape
    <3> QED BY <2>t, <3>1, PaddingRemoved
  <2> QED BY <2>2, <2>3, OpenedIs
<1> QED BY <1>1, ChannelInvariant, PTL

\* Decryption is lenient and never misreads: a packet of whole blocks needs no
\* padding, stray bytes make no difference, and a beginning gives nothing else.
THEOREM Lenient == Spec => []LenientDecryption
<1>1. ChannelInv => LenientDecryption
  <2>a. SUFFICES ASSUME packet \in Packets, img = Built(packet)
                 PROVE  LET sealed == Sealed(packet)
                      IN  /\ Len(img) % BLOCK = 0 /\ ~ValidPad(img, Last(img)) =>
                                OpenDataFrame(CbcEncrypt(img)) = Got(packet)
                          /\ \A k \in 0..(Len(sealed) + BLOCK - 1) :
                                LET opened == OpenDataFrame(SubSeq(sealed \o Stray, 1, k))
                                IN  /\ opened.ok => opened = Got(packet)
                                    /\ k >= Len(sealed) => opened.ok
    BY DEF ChannelInv, LenientDecryption
  <2>1. img \in Seq(Byte) /\ Len(img) \in Nat /\ Len(img) >= 18 /\ Len(img) <= 255
    <3>1. img \in Seq(Byte) /\ Len(img) = 18 + Len(packet.payload)
      BY <2>a, BuiltShape
    <3>2. Len(packet.payload) \in Nat /\ Len(packet.payload) <= 237
      BY <2>a, PacketType
    <3> QED BY <3>1, <3>2
  <2>2. ASSUME Len(img) % BLOCK = 0, ~ValidPad(img, Last(img))
        PROVE  OpenDataFrame(CbcEncrypt(img)) = Got(packet)
    <3>1. img \in Plaintexts
      BY <2>2, <2>a DEF Plaintexts
    <3>2. Len(img) % 16 = 0 /\ Len(img) # 0 /\ Len(img) <= Room /\ Room \in Nat
      BY <2>1, <2>2 DEF Room, BLOCK
    <3>3. SessionDecrypt(CbcEncrypt(img), Room) = Got(Unpadded(img))
      BY <2>1, <3>1, <3>2, DecryptedWhole
    <3>4. Unpadded(img) = img
      BY <2>2, Zenon DEF Unpadded
    <3> QED BY <2>a, <3>3, <3>4, OpenedIs
  <2>3. ASSUME NEW k \in 0..(Len(Sealed(packet)) + BLOCK - 1)
        PROVE  LET opened == OpenDataFrame(SubSeq(Sealed(packet) \o Stray, 1, k))
               IN  /\ opened.ok => opened = Got(packet)
                   /\ k >= Len(Sealed(packet)) => opened.ok
    <3>1. Len(Sealed(packet)) \in Nat
      <4>1. /\ Sealed(packet) = CbcEncrypt(Padded(Built(packet)))
            /\ Padded(Built(packet)) \in Plaintexts /\ Len(Padded(Built(packet))) \in Nat
        BY <2>a, SealedIs
      <4> QED BY <4>1, CipherAssumption
    <3>2. k \in Nat /\ k <= Len(Sealed(packet)) + 15
      BY <3>1 DEF BLOCK
    <3>3. Got(packet).ok
      BY DEF Got
    <3>4. /\ OpenDataFrame(SubSeq(Sealed(packet) \o Stray, 1, k)).ok =>
                OpenDataFrame(SubSeq(Sealed(packet) \o Stray, 1, k)) = Got(packet)
          /\ k >= Len(Sealed(packet)) =>
                OpenDataFrame(SubSeq(Sealed(packet) \o Stray, 1, k)) = Got(packet)
      BY <2>a, <3>2, SealedOpened
    <3> QED BY <3>3, <3>4
  <2> QED BY <2>2, <2>3
<1> QED BY <1>1, ChannelInvariant, PTL

------------------------------------------------------------------------------
(* The session key *)

\* The three parts of a key reply's plaintext, by the places they are at.
LEMMA KeyTextShape ==
    ASSUME NEW k \in KeyTexts
    PROVE  /\ Text(k) \in Seq(Byte) /\ Len(Text(k)) = 32 /\ Text(k) \in Plaintexts
           /\ SubSeq(Text(k), 1, 16) = k.srand
           /\ Text(k)[17] = k.seed[1] /\ Text(k)[18] = k.seed[2]
           /\ Text(k)[32] = k.pad[14] /\ k.pad[14] \in Byte
           /\ k.seed \in Seq(Byte) /\ Len(k.seed) = 2
<1>a. PICK a : a = k.srand
  OBVIOUS
<1>b. PICK b : b = k.seed
  OBVIOUS
<1>c. PICK c : c = k.pad
  OBVIOUS
<1>h. PICK head : head = a \o b
  OBVIOUS
<1>t. PICK text : text = Text(k)
  OBVIOUS
<1>1. a \in Seq(Byte) /\ b \in Seq(Byte) /\ c \in Seq(Byte)
  BY <1>a, <1>b, <1>c, DataAssumption
<1>2. Len(a) = 16 /\ Len(b) = 2 /\ Len(c) = 14
  BY <1>a, <1>b, <1>c, DataAssumption
<1>3. text = head \o c
  BY <1>a, <1>b, <1>c, <1>h, <1>t DEF Text
<1>4. /\ head \in Seq(Byte) /\ Len(head) = Len(a) + Len(b)
      /\ \A i \in 1..Len(b) : head[Len(a) + i] = b[i]
  BY <1>1, <1>h, Joined
<1>5. /\ text \in Seq(Byte) /\ Len(text) = Len(head) + Len(c)
      /\ \A i \in 1..Len(head) : text[i] = head[i]
      /\ \A i \in 1..Len(c) : text[Len(head) + i] = c[i]
  <2>1. head \in Seq(Byte) /\ c \in Seq(Byte)
    BY <1>1, <1>4
  <2> QED BY <1>3, <2>1, Joined
<1>6. SubSeq(text, 1, 16) = a
  <2>1. SubSeq((a \o b) \o c, 1, Len(a)) = a
    BY <1>1, FirstOfThree
  <2> QED BY <1>2, <1>3, <1>h, <2>1
<1>7. text[17] = b[1] /\ text[18] = b[2]
  <2>1. /\ 1 \in 1..Len(b) /\ 2 \in 1..Len(b) /\ Len(a) + 1 = 17 /\ Len(a) + 2 = 18
        /\ 17 \in 1..Len(head) /\ 18 \in 1..Len(head)
    BY <1>2, <1>4
  <2>2. head[17] = b[1] /\ head[18] = b[2]
    BY <1>4, <2>1
  <2> QED BY <1>5, <2>1, <2>2
<1>8. text[32] = c[14] /\ Len(text) = 32 /\ c[14] \in Byte
  <2>1. 14 \in 1..Len(c) /\ Len(head) + 14 = 32 /\ Len(head) + Len(c) = 32
    BY <1>2, <1>4
  <2>2. c[14] \in Byte
    BY <1>1, <2>1, ElementOfSeq
  <2> QED BY <1>5, <2>1, <2>2
<1>9. text \in Plaintexts
  BY <1>t DEF Plaintexts
<1> QED BY <1>1, <1>2, <1>5, <1>6, <1>7, <1>8, <1>9, <1>a, <1>b, <1>c, <1>t

\* However the reply is padded, its first 18 bytes survive the decryption.
LEMMA KeyReplyOpened ==
    ASSUME NEW k \in KeyTexts
    PROVE  \E m \in 18..32 :
              SessionDecrypt(CbcEncrypt(Text(k)), 64) = Got(SubSeq(Text(k), 1, m))
<1>t. PICK text : text = Text(k)
  OBVIOUS
<1>1. /\ text \in Seq(Byte) /\ Len(text) = 32 /\ text \in Plaintexts
      /\ text[32] = k.pad[14] /\ k.pad[14] \in Byte
  BY <1>t, KeyTextShape
<1>2. SessionDecrypt(CbcEncrypt(text), 64) = Got(Unpadded(text))
  <2>1. Len(text) % 16 = 0 /\ Len(text) # 0 /\ 64 \in Nat /\ Len(text) <= 64
    BY <1>1
  <2> QED BY <1>1, <2>1, DecryptedWhole
<1>p. PICK pad : pad = Last(text)
  OBVIOUS
<1>3. pad \in Byte /\ pad \notin {15, 16}
  <2>1. pad = k.pad[14]
    BY <1>1, <1>p DEF Last
  <2> QED BY <1>1, <2>1, DataAssumption
<1>4. CASE ValidPad(text, pad)
  <2>1. Unpadded(text) = SubSeq(text, 1, 32 - pad)
    BY <1>1, <1>4, <1>p, Zenon DEF Unpadded
  <2>2. 32 - pad \in 18..32
    <3>1. pad >= 1 /\ pad <= 16
      BY <1>4 DEF ValidPad, BLOCK
    <3> QED BY <1>3, <3>1 DEF Byte
  <2> QED BY <1>2, <1>t, <2>1, <2>2
<1>5. CASE ~ValidPad(text, pad)
  <2>1. Unpadded(text) = text
    BY <1>5, <1>p, Zenon DEF Unpadded
  <2>2. text = SubSeq(text, 1, 32)
    BY <1>1, SubSeqFull
  <2>3. 32 \in 18..32
    OBVIOUS
  <2> QED BY <1>2, <1>t, <2>1, <2>2, <2>3
<1> QED BY <1>4, <1>5

\* The key material is taken from where the document puts it, or refused.
THEOREM KeyMaterial == Spec => []KeyMaterialFound
<1>1. ASSUME NEW k \in KeyTexts
      PROVE  LET place == 16 * k.seed[1] + 256 * (IF k.seed[2] = 0 THEN 255 ELSE k.seed[2] - 1)
                 key   == SessionKeyReply(KeyReply(k))
             IN  IF place + 16 <= LUT_SIZE THEN key = Got(<<place, k.srand>>) ELSE ~key.ok
  <2>t. PICK text : text = Text(k)
    OBVIOUS
  <2>c. PICK code : code = CbcEncrypt(text)
    OBVIOUS
  <2>r. PICK reply : reply = KeyReply(k)
    OBVIOUS
  <2>1. /\ text \in Seq(Byte) /\ Len(text) = 32 /\ text \in Plaintexts
        /\ SubSeq(text, 1, 16) = k.srand /\ text[17] = k.seed[1] /\ text[18] = k.seed[2]
        /\ k.seed \in Seq(Byte) /\ Len(k.seed) = 2
    BY <2>t, KeyTextShape
  <2>2. code \in Seq(Byte) /\ Len(code) = 32
    BY <2>1, <2>c, CipherAssumption
  <2>3. Len(reply) = 33 /\ reply[1] = 2 /\ Tail(reply) = code
    <3>m. PICK mark : mark = <<2>>
      OBVIOUS
    <3>1. mark \in Seq(Byte) /\ Len(mark) = 1 /\ mark[1] = 2
      BY <3>m DEF Byte
    <3>2. reply = mark \o code
      BY <2>c, <2>r, <2>t, <3>m DEF KeyReply
    <3>3. /\ reply \in Seq(Byte) /\ Len(reply) = Len(mark) + Len(code)
          /\ \A i \in 1..Len(mark) : reply[i] = mark[i]
          /\ SubSeq(reply, Len(mark) + 1, Len(reply)) = code
      <4>1. mark \in Seq(Byte) /\ code \in Seq(Byte)
        BY <2>2, <3>1
      <4> QED BY <3>2, <4>1, Joined
    <3>4. 1 \in 1..Len(mark) /\ Len(mark) + 1 = 2
      BY <3>1
    <3>5. Tail(reply) = code
      <4>1. Tail(reply) = SubSeq(reply, 2, Len(reply))
        OBVIOUS
      <4> QED BY <3>3, <3>4, <4>1
    <3>6. Len(reply) = 33
      BY <2>2, <3>1, <3>3
    <3>7. reply[1] = 2
      BY <3>1, <3>3, <3>4
    <3> QED BY <3>5, <3>6, <3>7
  <2>4. PICK m \in 18..32 : SessionDecrypt(code, 64) = Got(SubSeq(text, 1, m))
    BY <2>c, <2>t, KeyReplyOpened
  <2>b. PICK bytes : bytes = SubSeq(text, 1, m)
    OBVIOUS
  <2>5. /\ bytes \in Seq(Byte) /\ Len(bytes) = m /\ \A i \in 1..m : bytes[i] = text[i]
        /\ SubSeq(bytes, 1, 16) = k.srand
    <3>1. m \in 0..Len(text) /\ 16 \in 0..m
      BY <2>1, SMTT(30)
    <3> QED BY <2>1, <2>b, <3>1, BeginningOf, ZenonT(40)
  <2>6. SubSeq(bytes, 17, 18) = k.seed
    <3>q. PICK seed : seed = SubSeq(bytes, 17, 18)
      OBVIOUS
    <3>1. 17 \in 1..(Len(bytes) + 1) /\ 18 \in (17 - 1)..Len(bytes) /\ 18 - 17 + 1 = 2
      BY <2>5
    <3>2. /\ seed \in Seq(Byte) /\ Len(seed) = 2
          /\ \A i \in 1..2 : seed[i] = bytes[17 + i - 1]
      BY <2>5, <3>q, <3>1, PartOf
    <3>3. 1 \in 1..2 /\ 2 \in 1..2 /\ 17 + 1 - 1 = 17 /\ 17 + 2 - 1 = 18 /\ 17 \in 1..m /\ 18 \in 1..m
      OBVIOUS
    <3>4. seed[1] = k.seed[1] /\ seed[2] = k.seed[2]
      BY <2>1, <2>5, <3>2, <3>3, SMTT(30)
    <3>5. \A i \in 1..Len(seed) : seed[i] = k.seed[i]
      BY <3>2, <3>4
    <3> QED BY <2>1, <3>2, <3>5, <3>q, SeqEqual
  <2>7. SessionKeyReply(reply) = DeriveSessionKey(k.seed, k.srand)
    <3>1. ~(Len(reply) < 2) /\ ~(Len(bytes) < 18)
      BY <2>3, <2>5
    <3>2. SessionDecrypt(Tail(reply), 64).ok /\ SessionDecrypt(Tail(reply), 64).bytes = bytes
      <4>1. SessionDecrypt(Tail(reply), 64) = Got(bytes)
        BY <2>3, <2>4, <2>b, Zenon
      <4> QED BY <4>1 DEF Got
    <3> QED BY <2>3, <2>5, <2>6, <3>1, <3>2, Zenon DEF SessionKeyReply
  <2>8. k.seed[1] \in Byte /\ k.seed[2] \in Byte
    BY <2>1, ElementOfSeq
  <2>p. PICK place : place = 16 * k.seed[1] + 256 * (IF k.seed[2] = 0 THEN 255 ELSE k.seed[2] - 1)
    OBVIOUS
  <2>9. KeyPosition(k.seed) = place
    <3>1. \A x, y \in Byte : x * 16 + ((y - 1) % 256) * 256 =
                              16 * x + 256 * (IF y = 0 THEN 255 ELSE y - 1)
      BY DEF Byte
    <3> QED BY <2>8, <2>p, <3>1 DEF KeyPosition
  <2>10. IF place + 16 <= LUT_SIZE THEN SessionKeyReply(reply) = Got(<<place, k.srand>>)
                                   ELSE ~SessionKeyReply(reply).ok
    <3>1. place \in Int /\ LUT_SIZE \in Int
      <4>1. \A x, y \in Byte : 16 * x + 256 * (IF y = 0 THEN 255 ELSE y - 1) \in Int
        BY DEF Byte
      <4> QED BY <2>8, <2>p, <4>1 DEF LUT_SIZE
    <3>2. place + 16 <= LUT_SIZE <=> ~(place + 16 > LUT_SIZE)
      BY <3>1
    <3>3. ~NoRoom.ok
      BY DEF NoRoom
    <3> QED BY <2>7, <2>9, <3>2, <3>3, Zenon DEF DeriveSessionKey
  <2> QED BY <2>10, <2>p, <2>r
<1>2. KeyMaterialFound
  BY <1>1 DEF KeyMaterialFound
<1> QED BY <1>2, PTL

------------------------------------------------------------------------------
(* The digest in hexadecimal *)

\* What is written into a byte string, and what is left of it.
LEMMA WrittenIs ==
    ASSUME NEW S, NEW mem \in Seq(S), NEW chars \in Seq(S), NEW at \in 1..(Len(mem) + 1),
           at + Len(chars) <= Len(mem) + 1
    PROVE  /\ Written(mem, at, chars) \in Seq(S)
           /\ Len(Written(mem, at, chars)) = Len(mem)
           /\ \A i \in 1..(at - 1) : Written(mem, at, chars)[i] = mem[i]
           /\ \A i \in 1..Len(chars) : Written(mem, at, chars)[at - 1 + i] = chars[i]
<1>f. PICK front : front = SubSeq(mem, 1, at - 1)
  OBVIOUS
<1>b. PICK back : back = SubSeq(mem, at + Len(chars), Len(mem))
  OBVIOUS
<1>h. PICK head : head = front \o chars
  OBVIOUS
<1>w. PICK new : new = Written(mem, at, chars)
  OBVIOUS
<1>1. Len(mem) \in Nat /\ Len(chars) \in Nat /\ at \in Nat
  BY LenProperties
<1>2. front \in Seq(S) /\ Len(front) = at - 1 /\ \A i \in 1..(at - 1) : front[i] = mem[i]
  <2>1. at - 1 \in 0..Len(mem) /\ 0 \in 0..(at - 1)
    BY <1>1
  <2> QED BY <1>f, <2>1, BeginningOf
<1>3. back \in Seq(S) /\ Len(back) = Len(mem) - (at + Len(chars)) + 1
  <2>1. at + Len(chars) \in 1..(Len(mem) + 1) /\ Len(mem) \in (at + Len(chars) - 1)..Len(mem)
    BY <1>1
  <2> QED BY <1>b, <2>1, PartOf
<1>4. new = head \o back
  BY <1>f, <1>b, <1>h, <1>w DEF Written
<1>5. /\ head \in Seq(S) /\ Len(head) = Len(front) + Len(chars)
      /\ \A i \in 1..Len(front) : head[i] = front[i]
      /\ \A i \in 1..Len(chars) : head[Len(front) + i] = chars[i]
  <2>1. front \in Seq(S)
    BY <1>2
  <2> QED BY <1>h, <2>1, Joined
<1>6. /\ new \in Seq(S) /\ Len(new) = Len(head) + Len(back)
      /\ \A i \in 1..Len(head) : new[i] = head[i]
  <2>1. head \in Seq(S) /\ back \in Seq(S)
    BY <1>3, <1>5
  <2> QED BY <1>4, <2>1, Joined
<1>7. Len(new) = Len(mem)
  BY <1>1, <1>2, <1>3, <1>5, <1>6
<1>8. \A i \in 1..(at - 1) : new[i] = mem[i]
  <2>1. \A i \in 1..(at - 1) : i \in 1..Len(front) /\ i \in 1..Len(head)
    BY <1>1, <1>2, <1>5
  <2> QED BY <1>2, <1>5, <1>6, <2>1
<1>9. \A i \in 1..Len(chars) : new[at - 1 + i] = chars[i]
  <2>1. \A i \in 1..Len(chars) : at - 1 + i \in 1..Len(head) /\ at - 1 + i = Len(front) + i
    BY <1>1, <1>2, <1>5
  <2> QED BY <1>5, <1>6, <2>1
<1> QED BY <1>6, <1>7, <1>8, <1>9, <1>w

\* The digits are read back.
LEMMA Digits ==
    ASSUME NEW d \in Byte
    PROVE  /\ HexDigit(d \div 16) \in Byte /\ HexDigit(d % 16) \in Byte
           /\ d = 16 * FromHex(HexDigit(d \div 16)) + FromHex(HexDigit(d % 16))
<1>1. \A n \in 0..15 : HexDigit(n) \in Byte /\ FromHex(HexDigit(n)) = n
  BY DEF HexDigit, FromHex, Byte
<1>2. d \div 16 \in 0..15 /\ d % 16 \in 0..15 /\ d = 16 * (d \div 16) + (d % 16)
  BY DEF Byte
<1> QED BY <1>1, <1>2

\* One call of snprintf: two digits, a NUL, and what stands in front is kept.
LEMMA SnprintfIs ==
    ASSUME NEW mem \in Seq(Byte), Len(mem) >= 33, NEW i \in 1..16, NEW d \in Byte
    PROVE  /\ Snprintf(mem, 2 * i - 1, d) \in Seq(Byte)
           /\ Len(Snprintf(mem, 2 * i - 1, d)) = Len(mem)
           /\ \A j \in 1..(2 * i - 2) : Snprintf(mem, 2 * i - 1, d)[j] = mem[j]
           /\ Snprintf(mem, 2 * i - 1, d)[2 * i - 1] = HexDigit(d \div 16)
           /\ Snprintf(mem, 2 * i - 1, d)[2 * i] = HexDigit(d % 16)
<1>a. PICK at : at = 2 * i - 1
  OBVIOUS
<1>c. PICK chars : chars = <<HexDigit(d \div 16), HexDigit(d % 16), 0>>
  OBVIOUS
<1>w. PICK new : new = Snprintf(mem, 2 * i - 1, d)
  OBVIOUS
<1>1. new = Written(mem, at, chars)
  BY <1>a, <1>c, <1>w DEF Snprintf
<1>2. /\ chars \in Seq(Byte) /\ Len(chars) = 3
      /\ chars[1] = HexDigit(d \div 16) /\ chars[2] = HexDigit(d % 16)
  <2>1. HexDigit(d \div 16) \in Byte /\ HexDigit(d % 16) \in Byte /\ 0 \in Byte
    <3>1. 0 \in Byte
      BY DEF Byte
    <3> QED BY <3>1, Digits
  <2> QED BY <1>c, <2>1
<1>3. /\ new \in Seq(Byte) /\ Len(new) = Len(mem)
      /\ \A j \in 1..(at - 1) : new[j] = mem[j]
      /\ \A j \in 1..Len(chars) : new[at - 1 + j] = chars[j]
  <2>1. at \in 1..(Len(mem) + 1) /\ at + Len(chars) <= Len(mem) + 1
    <3>1. Len(mem) \in Nat
      BY LenProperties
    <3> QED BY <1>a, <1>2, <3>1
  <2>2. mem \in Seq(Byte) /\ chars \in Seq(Byte)
    BY <1>2
  <2>3. /\ Written(mem, at, chars) \in Seq(Byte)
        /\ Len(Written(mem, at, chars)) = Len(mem)
        /\ \A j \in 1..(at - 1) : Written(mem, at, chars)[j] = mem[j]
        /\ \A j \in 1..Len(chars) : Written(mem, at, chars)[at - 1 + j] = chars[j]
    BY <2>1, <2>2, WrittenIs
  <2> QED BY <1>1, <2>3
<1>4. at - 1 = 2 * i - 2 /\ at - 1 + 1 = 2 * i - 1 /\ at - 1 + 2 = 2 * i
  BY <1>a
<1>5. 1 \in 1..Len(chars) /\ 2 \in 1..Len(chars)
  BY <1>2
<1>6. new[at - 1 + 1] = chars[1] /\ new[at - 1 + 2] = chars[2]
  BY <1>3, <1>5
<1>7. \A j \in 1..(2 * i - 2) : new[j] = mem[j]
  BY <1>3, <1>4
<1>8. new[2 * i - 1] = chars[1] /\ new[2 * i] = chars[2]
  BY <1>4, <1>6
<1> QED BY <1>2, <1>3, <1>7, <1>8, <1>w

\* The rounds as a function, of however many of them.
IsRounds(f, n, digest, mem) ==
    f = [i \in 0..n |-> IF i = 0 THEN mem ELSE Snprintf(f[i - 1], 2 * i - 1, digest[i])]

LEMMA RoundsExist ==
    ASSUME NEW digest, NEW mem
    PROVE  \E after : IsRounds(after, 16, digest, mem)
<1> DEFINE T == {n \in 0..16 : ~ \E f : IsRounds(f, n, digest, mem)}
<1> SUFFICES T = {}
  BY DEF T
<1> SUFFICES ASSUME T # {} PROVE FALSE
  OBVIOUS
<1>1. PICK n \in T : \A m \in T : n <= m
  <2>1. T \in SUBSET Nat
    OBVIOUS
  <2> HIDE DEF T
  <2> QED BY <2>1, LeastOf
<1>2. CASE n = 0
  <2> DEFINE f == [i \in 0..0 |-> mem]
  <2>1. IsRounds(f, 0, digest, mem)
    BY DEF IsRounds
  <2> QED BY <1>2, <2>1
<1>3. CASE n # 0
  <2>1. n \in 1..16 /\ n - 1 \in 0..16 /\ n - 1 \notin T
    BY <1>1, <1>3
  <2>2. PICK g : IsRounds(g, n - 1, digest, mem)
    BY <2>1
  <2> DEFINE f == [i \in 0..n |-> IF i = n THEN Snprintf(g[n - 1], 2 * n - 1, digest[n]) ELSE g[i]]
  <2>3. \A i \in 0..(n - 1) : f[i] = g[i]
    BY <2>1
  <2>4. ASSUME NEW i \in 0..n
        PROVE  f[i] = IF i = 0 THEN mem ELSE Snprintf(f[i - 1], 2 * i - 1, digest[i])
    <3>1. CASE i = n
      <4>1. n - 1 \in 0..(n - 1)
        BY <2>1
      <4>2. f[n - 1] = g[n - 1] /\ f[n] = Snprintf(g[n - 1], 2 * n - 1, digest[n])
        BY <2>1, <2>3, <4>1
      <4> QED BY <2>1, <3>1, <4>2
    <3>2. CASE i # n
      <4>1. i \in 0..(n - 1)
        BY <2>1, <3>2
      <4>2. g[i] = IF i = 0 THEN mem ELSE Snprintf(g[i - 1], 2 * i - 1, digest[i])
        BY <2>2, <4>1 DEF IsRounds
      <4>3. i = 0 \/ i - 1 \in 0..(n - 1)
        BY <2>1, <4>1
      <4>4. f[i] = g[i] /\ (i = 0 \/ f[i - 1] = g[i - 1])
        BY <2>3, <4>1, <4>3
      <4> QED BY <4>2, <4>4
    <3> QED BY <3>1, <3>2
  <2>5. f = [i \in 0..n |-> f[i]]
    OBVIOUS
  <2>6. IsRounds(f, n, digest, mem)
    <3> HIDE DEF f
    <3> QED BY <2>4, <2>5 DEF IsRounds
  <2> HIDE DEF f
  <2> QED BY <2>6
<1> QED BY <1>2, <1>3

LEMMA RoundsDone ==
    ASSUME NEW digest, NEW mem
    PROVE  \E after : IsRounds(after, 16, digest, mem) /\ HexMemory(digest, mem) = after[16]
<1> DEFINE Eqn(f) ==
        f = [i \in 0..16 |-> IF i = 0 THEN mem ELSE Snprintf(f[i - 1], 2 * i - 1, digest[i])]
<1>1. Eqn(CHOOSE f : Eqn(f))
  <2>1. PICK after : IsRounds(after, 16, digest, mem)
    BY RoundsExist
  <2>2. Eqn(after)
    BY <2>1 DEF IsRounds
  <2> HIDE DEF Eqn
  <2> QED BY <2>2
<1>2. HexMemory(digest, mem) = (CHOOSE f : Eqn(f))[16]
  BY Zenon DEF HexMemory
<1>3. IsRounds(CHOOSE f : Eqn(f), 16, digest, mem)
  BY <1>1, Zenon DEF IsRounds
<1> HIDE DEF Eqn
<1> QED BY <1>2, <1>3

\* Behind round i the first i bytes of the digest are written.
Spelled(new, i, digest, mem) ==
    /\ new \in Seq(Byte) /\ Len(new) = Len(mem)
    /\ \A j \in 1..i : /\ new[2 * j - 1] = HexDigit(digest[j] \div 16)
                       /\ new[2 * j] = HexDigit(digest[j] % 16)

LEMMA RoundsWrite ==
    ASSUME NEW digest, \A j \in 1..16 : digest[j] \in Byte,
           NEW mem \in Seq(Byte), Len(mem) >= 33,
           NEW after, IsRounds(after, 16, digest, mem)
    PROVE  \A i \in 0..16 : Spelled(after[i], i, digest, mem)
<1> DEFINE T == {i \in 0..16 : ~Spelled(after[i], i, digest, mem)}
<1> SUFFICES ASSUME T # {} PROVE FALSE
  OBVIOUS
<1>1. PICK n \in T : \A m \in T : n <= m
  <2>1. T \in SUBSET Nat
    BY SMTT(30)
  <2> HIDE DEF T
  <2> QED BY <2>1, LeastOf
<1>2. \A i \in 0..16 : after[i] = IF i = 0 THEN mem ELSE Snprintf(after[i - 1], 2 * i - 1, digest[i])
  BY DEF IsRounds
<1>3. CASE n = 0
  <2>1. after[0] = mem
    BY <1>2
  <2>2. Spelled(after[0], 0, digest, mem)
    BY <2>1 DEF Spelled
  <2> QED BY <1>3, <2>2
<1>4. CASE n # 0
  <2>1. n \in 1..16 /\ n - 1 \in 0..16 /\ n - 1 \notin T
    BY <1>1, <1>4
  <2>2. Spelled(after[n - 1], n - 1, digest, mem)
    BY <2>1
  <2>p. PICK prev : prev = after[n - 1]
    OBVIOUS
  <2>w. PICK new : new = after[n]
    OBVIOUS
  <2>3. /\ prev \in Seq(Byte) /\ Len(prev) = Len(mem) /\ Len(prev) >= 33
        /\ \A j \in 1..(n - 1) : /\ prev[2 * j - 1] = HexDigit(digest[j] \div 16)
                                 /\ prev[2 * j] = HexDigit(digest[j] % 16)
    BY <2>2, <2>p DEF Spelled
  <2>d. PICK d : d = digest[n]
    OBVIOUS
  <2>4. new = Snprintf(prev, 2 * n - 1, d) /\ d \in Byte
    <3>2. digest[n] \in Byte
      BY <2>1
    <3>3. n \in 0..16 /\ n # 0
      BY <2>1
    <3> HIDE DEF T
    <3> QED BY <1>2, <2>d, <2>p, <2>w, <3>2, <3>3
  <2>5. /\ new \in Seq(Byte) /\ Len(new) = Len(prev)
        /\ \A j \in 1..(2 * n - 2) : new[j] = prev[j]
        /\ new[2 * n - 1] = HexDigit(d \div 16) /\ new[2 * n] = HexDigit(d % 16)
    <3>1. prev \in Seq(Byte) /\ Len(prev) >= 33 /\ n \in 1..16
      BY <2>1, <2>3
    <3> HIDE DEF T
    <3> QED BY <2>4, <3>1, SnprintfIs
  <2>6. ASSUME NEW j \in 1..n
        PROVE  /\ new[2 * j - 1] = HexDigit(digest[j] \div 16)
               /\ new[2 * j] = HexDigit(digest[j] % 16)
    <3>1. CASE j = n
      BY <2>5, <2>d, <3>1
    <3>2. CASE j # n
      <4>1. j \in 1..(n - 1) /\ 2 * j - 1 \in 1..(2 * n - 2) /\ 2 * j \in 1..(2 * n - 2)
        BY <2>1, <3>2
      <4> QED BY <2>3, <2>5, <4>1
    <3> QED BY <3>1, <3>2
  <2>7. Spelled(after[n], n, digest, mem)
    BY <2>3, <2>5, <2>6, <2>w DEF Spelled
  <2> QED BY <2>7
<1> QED BY <1>3, <1>4

\* The 32 characters of step 4, read back, are the digest.
THEOREM HexIsDigest == Spec => []HexPayloadIsDigest
<1>1. ASSUME NEW digest \in Digests, NEW i \in 1..16
      PROVE  digest[i] = 16 * FromHex(HexPayload(digest)[2 * i - 1]) + FromHex(HexPayload(digest)[2 * i])
  <2>m. PICK mem : mem = [j \in 1..33 |-> 255]
    OBVIOUS
  <2>1. mem \in Seq(Byte) /\ Len(mem) = 33
    <3>1. 255 \in Byte
      BY DEF Byte
    <3> QED BY <2>m, <3>1
  <2>2. digest \in Seq(Byte) /\ Len(digest) = 16
    BY DataAssumption
  <2>3. PICK after : IsRounds(after, 16, digest, mem) /\ HexMemory(digest, mem) = after[16]
    BY RoundsDone
  <2>w. PICK done : done = after[16]
    OBVIOUS
  <2>4. /\ done \in Seq(Byte) /\ Len(done) = 33
        /\ done[2 * i - 1] = HexDigit(digest[i] \div 16)
        /\ done[2 * i] = HexDigit(digest[i] % 16)
    <3>1. Len(mem) >= 33 /\ 16 \in 0..16 /\ mem \in Seq(Byte)
      BY <2>1
    <3>2. \A n \in 0..16 : Spelled(after[n], n, digest, mem)
      <4>1. \A j \in 1..16 : digest[j] \in Byte
        BY <2>2, ElementOfSeq
      <4>2. IsRounds(after, 16, digest, mem)
        BY <2>3
      <4> QED BY <3>1, <4>1, <4>2, RoundsWrite
    <3> QED BY <2>1, <2>w, <3>1, <3>2 DEF Spelled
  <2>5. HexPayload(digest) = SubSeq(done, 1, 32)
    BY <2>3, <2>m, <2>w DEF HexPayload
  <2>6. \A j \in 1..32 : HexPayload(digest)[j] = done[j]
    <3>1. 32 \in 0..Len(done) /\ 0 \in 0..32
      BY <2>4
    <3>2. done \in Seq(Byte)
      BY <2>4
    <3>3. \A j \in 1..32 : SubSeq(done, 1, 32)[j] = done[j]
      BY <3>1, <3>2, BeginningOf
    <3> QED BY <2>5, <3>3
  <2>7. 2 * i - 1 \in 1..32 /\ 2 * i \in 1..32 /\ i \in 1..Len(digest)
    BY <2>2
  <2>8. digest[i] \in Byte
    BY <2>2, <2>7, ElementOfSeq
  <2>9. digest[i] = 16 * FromHex(HexDigit(digest[i] \div 16)) + FromHex(HexDigit(digest[i] % 16))
    BY <2>8, Digits
  <2> QED BY <2>4, <2>6, <2>7, <2>9
<1>2. HexPayloadIsDigest
  BY <1>1 DEF HexPayloadIsDigest
<1> QED BY <1>2, PTL

------------------------------------------------------------------------------
(* Damage *)

\* A byte string with one byte changed.
LEMMA OneChanged ==
    ASSUME NEW s \in Seq(Byte), NEW i \in 1..Len(s), NEW b \in Byte
    PROVE  /\ [s EXCEPT ![i] = b] \in Seq(Byte)
           /\ Len([s EXCEPT ![i] = b]) = Len(s)
           /\ \A j \in 1..Len(s) : [s EXCEPT ![i] = b][j] = IF j = i THEN b ELSE s[j]
BY ExceptSeq

\* A beginning is known by its bytes.
LEMMA SameBeginning ==
    ASSUME NEW s \in Seq(Byte), NEW t \in Seq(Byte), NEW n \in 0..Len(s), n <= Len(t),
           \A j \in 1..n : s[j] = t[j]
    PROVE  SubSeq(s, 1, n) = SubSeq(t, 1, n)
<1>a. PICK a : a = SubSeq(s, 1, n)
  OBVIOUS
<1>b. PICK b : b = SubSeq(t, 1, n)
  OBVIOUS
<1>1. n \in Nat /\ Len(t) \in Nat /\ n \in 0..Len(t) /\ 0 \in 0..n
  BY LenProperties
<1>2. a \in Seq(Byte) /\ Len(a) = n /\ \A j \in 1..n : a[j] = s[j]
  BY <1>1, <1>a, BeginningOf
<1>3. b \in Seq(Byte) /\ Len(b) = n /\ \A j \in 1..n : b[j] = t[j]
  BY <1>1, <1>b, BeginningOf
<1>4. \A j \in 1..Len(a) : a[j] = b[j]
  BY <1>2, <1>3
<1> QED BY <1>2, <1>3, <1>4, <1>a, <1>b, SeqEqual

\* The CRC-16 tells of a changed byte, whether it is covered or its own.
LEMMA ChangeSeen ==
    ASSUME NEW p \in Packets, NEW i \in 1..Len(Built(p)), NEW b \in Bytes, b # Built(p)[i]
    PROVE  ~InnerValid([Built(p) EXCEPT ![i] = b])
<1>a. PICK all : all = Built(p)
  OBVIOUS
<1>n. PICK new : new = [Built(p) EXCEPT ![i] = b]
  OBVIOUS
<1>l. PICK k : k = Len(all) - 2
  OBVIOUS
<1>1. all \in Seq(Byte) /\ RdU16Le(all, Len(all) - 1) = Crc16(Body(p))
  BY <1>a, BuiltShape
<1>2. Len(all) \in Nat /\ Len(all) >= 18 /\ k \in Nat /\ k + 2 = Len(all) /\ k \in 0..Len(all) /\ 0 \in 0..k
  <2>1. Len(all) = 18 + Len(p.payload) /\ Len(p.payload) \in Nat
    BY <1>a, BuiltShape, PacketType
  <2> QED BY <1>l, <2>1
<1>3. b \in Byte /\ i \in 1..Len(all) /\ b # all[i]
  BY <1>a, DataAssumption
<1>4. /\ new \in Seq(Byte) /\ Len(new) = Len(all)
      /\ \A j \in 1..Len(all) : new[j] = IF j = i THEN b ELSE all[j]
  BY <1>1, <1>3, <1>a, <1>n, OneChanged
<1>c. PICK body : body = Body(p)
  OBVIOUS
<1>5. body = SubSeq(all, 1, k)
  BY <1>a, <1>c, <1>l DEF Body
<1>6. body \in Seq(Byte) /\ Len(body) = k /\ \A j \in 1..k : body[j] = all[j]
  BY <1>1, <1>2, <1>5, BeginningOf
<1>7. CASE i <= k
  <2>1. i \in 1..Len(body) /\ i \in DOMAIN body
    BY <1>2, <1>3, <1>6, <1>7
  <2>x. PICK x : x = [body EXCEPT ![i] = b]
    OBVIOUS
  <2>2. /\ x \in Seq(Byte) /\ Len(x) = k
        /\ \A j \in 1..k : x[j] = IF j = i THEN b ELSE body[j]
    BY <1>3, <1>6, <2>1, <2>x, OneChanged
  <2>y. PICK y : y = SubSeq(new, 1, k)
    OBVIOUS
  <2>3. y \in Seq(Byte) /\ Len(y) = k /\ \A j \in 1..k : y[j] = new[j]
    <3>1. k \in 0..Len(new) /\ 0 \in 0..k
      BY <1>2, <1>4
    <3> QED BY <1>4, <2>y, <3>1, BeginningOf
  <2>4. \A j \in 1..k : x[j] = y[j]
    <3>1. \A j \in 1..k : j \in 1..Len(all)
      BY <1>2
    <3> QED BY <1>4, <1>6, <2>2, <2>3, <3>1
  <2>5. x = y
    BY <2>2, <2>3, <2>4, SeqEqual
  <2>6. Crc16(x) # Crc16(body)
    <3>1. b # body[i]
      BY <1>3, <1>6, <2>1
    <3> QED BY <1>c, <2>1, <2>x, <3>1, ChecksumNotices
  <2>7. RdU16Le(new, Len(new) - 1) = Crc16(body)
    <3>1. /\ Len(all) - 1 \in 1..Len(all) /\ Len(all) - 1 + 1 \in 1..Len(all)
          /\ Len(all) - 1 # i /\ Len(all) - 1 + 1 # i
      BY <1>2, <1>3, <1>7
    <3>2. new[Len(all) - 1] = all[Len(all) - 1] /\ new[Len(all) - 1 + 1] = all[Len(all) - 1 + 1]
      BY <1>4, <3>1
    <3>3. RdU16Le(new, Len(all) - 1) = RdU16Le(all, Len(all) - 1)
      BY <3>2 DEF RdU16Le
    <3> QED BY <1>1, <1>4, <1>c, <3>3
  <2>8. Len(new) - 2 = k
    BY <1>2, <1>4
  <2> QED BY <1>n, <2>5, <2>6, <2>7, <2>8, <2>y, Zenon DEF InnerValid
<1>8. CASE ~(i <= k)
  <2>1. SubSeq(new, 1, k) = body
    <3>1. \A j \in 1..k : new[j] = all[j]
      <4>1. \A j \in 1..k : j \in 1..Len(all) /\ j # i
        BY <1>2, <1>3, <1>8
      <4> QED BY <1>4, <4>1
    <3>2. k \in 0..Len(new) /\ k <= Len(all)
      BY <1>2, <1>4
    <3> QED BY <1>1, <1>4, <1>5, <3>1, <3>2, SameBeginning
  <2>2. RdU16Le(new, Len(new) - 1) # Crc16(body)
    <3>1. /\ k + 1 \in 1..Len(all) /\ k + 2 \in 1..Len(all) /\ (i = k + 1 \/ i = k + 2)
          /\ Len(all) - 1 = k + 1 /\ k + 1 + 1 = k + 2
      BY <1>2, <1>3, <1>8
    <3>2. all[k + 1] \in Byte /\ all[k + 2] \in Byte
      BY <1>1, <3>1, ElementOfSeq
    <3>3. new[k + 1] \in Byte /\ new[k + 2] \in Byte
      BY <1>3, <1>4, <3>1, <3>2
    <3>4. \/ new[k + 1] # all[k + 1] /\ new[k + 2] = all[k + 2]
          \/ new[k + 1] = all[k + 1] /\ new[k + 2] # all[k + 2]
      <4>1. k + 1 # k + 2
        BY <1>2
      <4> QED BY <1>3, <1>4, <3>1, <4>1
    <3>5. \A u, v, x, y \in Byte : (u # x /\ v = y) \/ (u = x /\ v # y) => u + 256 * v # x + 256 * y
      BY DEF Byte
    <3>6. new[k + 1] + 256 * new[k + 2] # all[k + 1] + 256 * all[k + 2]
      BY <3>2, <3>3, <3>4, <3>5
    <3> QED BY <1>1, <1>4, <1>c, <3>1, <3>6 DEF RdU16Le
  <2>3. Len(new) - 2 = k
    BY <1>2, <1>4
  <2> QED BY <1>n, <2>1, <2>2, <2>3, Zenon DEF InnerValid
<1> QED BY <1>7, <1>8

\* A packet with one byte changed, cut short or extended is never accepted.
THEOREM DamageSeen == Spec => []DamageRejected
<1>1. ASSUME NEW p \in Packets, NEW new, Damaged(p, new) PROVE ~InnerValid(new)
  <2>1. Built(p) \in Seq(Byte) /\ Len(Built(p)) \in Nat
    BY BuiltShape, LenProperties
  <2>2. ASSUME NEW i \in DOMAIN Built(p), NEW b \in Bytes, b # Built(p)[i],
               new = [Built(p) EXCEPT ![i] = b]
        PROVE  ~InnerValid(new)
    <3>1. i \in 1..Len(Built(p))
      BY <2>1
    <3> QED BY <2>2, <3>1, ChangeSeen
  <2>3. ASSUME NEW n \in 0..(Len(Built(p)) - 1), new = SubSeq(Built(p), 1, n), InnerValid(new)
        PROVE  FALSE
    <3>e. PICK none : none = <<>>
      OBVIOUS
    <3>1. none \in Seq(Byte) /\ Built(p) = Built(p) \o none
      BY <2>1, <3>e, ConcatEmptySeq
    <3>2. n \in 0..Len(Built(p)) /\ InnerValid(SubSeq(Built(p), 1, n))
      BY <2>1, <2>3
    <3>3. SubSeq(Built(p), 1, n) = Built(p)
      BY <3>1, <3>2, BeginningAccepted
    <3>4. Len(SubSeq(Built(p), 1, n)) = n
      <4>1. 0 \in 0..n
        OBVIOUS
      <4> QED BY <2>1, <3>2, <4>1, BeginningOf
    <3> QED BY <2>1, <3>3, <3>4
  <2>4. ASSUME NEW b \in Bytes, new = Append(Built(p), b), InnerValid(new)
        PROVE  FALSE
    <3>e. PICK more : more = <<b>>
      OBVIOUS
    <3>1. more \in Seq(Byte)
      BY <3>e, DataAssumption
    <3>2. new = Built(p) \o more
      BY <2>1, <2>4, <3>1, <3>e
    <3>3. new \in Seq(Byte) /\ Len(new) = Len(Built(p)) + 1
      <4>1. b \in Byte
        BY DataAssumption
      <4> QED BY <2>1, <2>4, <4>1, AppendProperties
    <3>4. SubSeq(new, 1, Len(new)) = new /\ Len(new) \in 0..Len(new)
      BY <2>1, <3>3, SubSeqFull
    <3>5. InnerValid(SubSeq(new, 1, Len(new)))
      BY <2>4, <3>4
    <3>6. SubSeq(new, 1, Len(new)) = Built(p)
      BY <3>1, <3>2, <3>4, <3>5, BeginningAccepted
    <3> QED BY <2>1, <3>3, <3>4, <3>6
  <2> QED BY <1>1, <2>2, <2>3, <2>4 DEF Damaged
<1>2. ChannelInv => DamageRejected
  BY <1>1 DEF ChannelInv, DamageRejected
<1> QED BY <1>2, ChannelInvariant, PTL
==============================================================================
