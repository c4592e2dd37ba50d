------------------------------ MODULE SessionData ------------------------------
(***************************************************************************)
(* The data the session carries (river2_auth.c): sealing a packet          *)
(* (padding, encryption, wrapping), the lenient decryption, the session    *)
(* key's place in the lookup table, and the hexadecimal digest.  The block *)
(* cipher itself (PSA Crypto) is a pair of constant operators on whole     *)
(* blocks; its failures are left out.                                      *)
(***************************************************************************)
EXTENDS PacketCodec, Integers, SequencesExt

CONSTANTS CbcEncrypt(_), CbcDecrypt(_)  \* external: AES-CBC under key and IV of the session

BLOCK     == 16
DATA      == 1            \* RIVER2_FRAME_DATA
LUT_SIZE  == 65280
NoRoom    == [ok |-> FALSE, bytes |-> <<>>]
Got(data) == [ok |-> TRUE, bytes |-> data]

------------------------------------------------------------------------------
(* Sending *)

Padded(data) ==
    LET pad == BLOCK - (Len(data) % BLOCK) IN data \o [i \in 1..pad |-> pad]

\* aes_cbc_encrypt_pkcs7
EncryptPkcs7(data, out_cap) ==
    IF Len(Padded(data)) > out_cap THEN Rejected ELSE CbcEncrypt(Padded(data))

\* send_inner_encrypted up to the write; Rejected is ESP_ERR_INVALID_SIZE.
SendInnerEncrypted(src, dst, cmd_set, cmd_id, payload) ==
    LET inner     == InnerBuild(src, dst, cmd_set, cmd_id, payload, 300)
        encrypted == EncryptPkcs7(inner, 320)
    IN  IF inner = Rejected \/ encrypted = Rejected THEN Rejected
        ELSE OuterBuild(DATA, encrypted, 600)

------------------------------------------------------------------------------
(* Receiving *)

\* Seeded fault: a block that is padding from end to end is not taken for padding.
ValidPadShort(data, pad) ==
    /\ pad >= 1 /\ pad < BLOCK /\ pad <= Len(data)
    /\ \A i \in 0..(pad - 1) : data[Len(data) - i] = pad

ValidPad(data, pad) ==
    /\ pad >= 1 /\ pad <= BLOCK /\ pad <= Len(data)
    /\ \A i \in 0..(pad - 1) : data[Len(data) - i] = pad

\* What does not end in valid padding is returned as it is.
Unpadded(data) ==
    LET pad == Last(data)
    IN  IF ValidPad(data, pad) THEN SubSeq(data, 1, Len(data) - pad) ELSE data

\* Seeded fault: a ciphertext that is not whole blocks is refused.
SessionDecryptStrict(in, out_cap) ==
    IF in = <<>> THEN Got(<<>>)
    ELSE IF Len(in) % BLOCK # 0 \/ out_cap < Len(in) THEN NoRoom
    ELSE Got(Unpadded(CbcDecrypt(in)))

\* river2_session_decrypt: an incomplete block at the end is ignored.
SessionDecrypt(in, out_cap) ==
    LET aligned == Len(in) - (Len(in) % BLOCK)
    IN  IF aligned = 0 THEN Got(<<>>)
        ELSE IF out_cap < aligned THEN NoRoom
        ELSE Got(Unpadded(CbcDecrypt(SubSeq(in, 1, aligned))))

\* A data frame in telemetry_task and in steps 3 and 4 of the handshake.
OpenDataFrame(payload) ==
    LET inner == SessionDecrypt(payload, 256)
    IN  IF inner.ok /\ InnerValid(inner.bytes) THEN Got(InnerFields(inner.bytes)) ELSE NoRoom

------------------------------------------------------------------------------
(* Step 2: the session key *)

\* Seeded fault: one is not subtracted from the second byte.
KeyPositionPlain(seed) == seed[1] * 16 + seed[2] * 256

\* The place of the key material in the lookup table.
KeyPosition(seed) == seed[1] * 16 + ((seed[2] - 1) % 256) * 256

\* derive_session_key: what is hashed, given as the position and sRand.
DeriveSessionKey(seed, srand) ==
    IF KeyPosition(seed) + 16 > LUT_SIZE THEN NoRoom
    ELSE Got(<<KeyPosition(seed), srand>>)

\* The reply of step 2, all its returns in order.
SessionKeyReply(reply) ==
    IF Len(reply) < 2 \/ reply[1] # 2 THEN NoRoom
    ELSE LET decrypted == SessionDecrypt(Tail(reply), 64)
         IN  IF ~decrypted.ok \/ Len(decrypted.bytes) < 18 THEN NoRoom
             ELSE DeriveSessionKey(SubSeq(decrypted.bytes, 17, 18),
                                   SubSeq(decrypted.bytes, 1, 16))

------------------------------------------------------------------------------
(* Step 4: the digest as upper-case hexadecimal digits *)

HexDigit(d) == IF d < 10 THEN 48 + d ELSE 55 + d

Written(mem, at, chars) ==
    SubSeq(mem, 1, at - 1) \o chars \o SubSeq(mem, at + Len(chars), Len(mem))

\* Seeded fault: room for one digit only, so the second is cut off.
SnprintfShort(mem, at, byte) == Written(mem, at, <<HexDigit(byte \div 16), 0>>)

\* Two digits and the NUL that ends them.
Snprintf(mem, at, byte) ==
    Written(mem, at, <<HexDigit(byte \div 16), HexDigit(byte % 16), 0>>)

\* hex_payload and the byte behind it, which the last round clears.
HexMemory(digest, mem) ==
    LET after[i \in 0..16] ==
            IF i = 0 THEN mem ELSE Snprintf(after[i - 1], 2 * i - 1, digest[i])
    IN  after[16]

HexPayload(digest) == SubSeq(HexMemory(digest, [i \in 1..33 |-> 255]), 1, 32)

------------------------------------------------------------------------------
(* The result of step 4 *)

\* auth_error_name and the test behind it: code 0 in a payload of one byte.
Authenticated(payload) == payload = <<0>>
==============================================================================
