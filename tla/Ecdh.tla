---------------------------------- MODULE Ecdh ----------------------------------
(***************************************************************************)
(* Step 1 of river2_auth_run (river2_auth.c) with the ECDH wrapper         *)
(* (river2_ecdh.c): generate a key pair, send the public key, accept or    *)
(* reject the station's reply, compute the shared secret, and release the  *)
(* context that holds the private key on every path.  Keys are bytes in    *)
(* the form they have on the wire.                                         *)
(***************************************************************************)
EXTENDS MicroEcc

CONSTANTS
  Ks, Zs,         \* bounds on the private keys and initial Z values drawn
  Replies,        \* replies of a station that does not follow the protocol
  Peers           \* one that does: [key, point, rest], its private key, its public
                  \* key, and bytes it appends

Octets == 0..(Pow2[ByteBits] - 1)

\* Beyond the header, what arrives is bytes.
ASSUME EcdhAssumption ==
    /\ Ks \subseteq Nat /\ Zs \subseteq Nat
    /\ \A bytes \in Replies : /\ bytes \in Seq(Nat)
                             /\ \A i \in 4..Len(bytes) : bytes[i] \in Octets
    /\ \A peer \in Peers : /\ peer.key \in 1..(n - 1)
                          /\ peer.point = Multiples[peer.key]
                          /\ peer.rest \in Seq(Octets)

VARIABLES
  pc,             \* "keygen", "send", "wait", "secret", "later", "done"
  err,            \* err, once pc is "done"
  ecdh,           \* the pointer: "NULL" or "ctx"
  heap,           \* contexts allocated and not yet freed
  priv,           \* ctx->priv
  our_pub, reply, shared_secret,
  gaveup,         \* history: uECC_generate_random_int ran out of tries
  e               \* external: the station's private key, 0 if it has none

vars == <<pc, err, ecdh, heap, priv, our_pub, reply, shared_secret, gaveup, e>>

Init ==
    /\ pc = "keygen" /\ err = "OK"
    /\ ecdh = "NULL" /\ heap = 0
    /\ priv = <<>> /\ our_pub = <<>> /\ reply = <<>> /\ shared_secret = <<>>
    /\ gaveup = FALSE /\ e = 0

\* goto done: the context is freed unless the pointer is NULL.
Done(code) ==
    /\ pc' = "done" /\ err' = code
    /\ heap' = IF ecdh = "NULL" THEN heap ELSE heap - 1
    /\ UNCHANGED <<ecdh, priv, our_pub, shared_secret, e>>

------------------------------------------------------------------------------
(* Our key pair *)

PrivateBytes(d) == NativeToBytes(num_n_bytes, Digits(num_n_words, d))

\* uECC_make_key draws keys until one has a public key that is not Zero.
GenKeypair(d, z) ==
    /\ pc = "keygen"
    /\ LET P == PublicKey(Digits(num_n_words, d), z)
       IN  /\ P # Zero
           /\ our_pub' = PointBytes(P)
    /\ priv' = PrivateBytes(d)
    /\ ecdh' = "ctx" /\ heap' = heap + 1
    /\ pc' = "send"
    /\ UNCHANGED <<err, reply, shared_secret, gaveup, e>>

\* calloc fails; or 64 tries do, and the wrapper frees the context itself.
GenKeypairFails ==
    /\ pc = "keygen"
    /\ \/ Done("NO_MEM") /\ UNCHANGED gaveup
       \/ Done("FAIL") /\ gaveup' = TRUE
    /\ UNCHANGED reply

SendPublicKey ==
    /\ pc = "send" /\ pc' = "wait"
    /\ UNCHANGED <<err, ecdh, heap, priv, our_pub, reply, shared_secret, gaveup, e>>

\* The write fails, or no reply arrives before the deadline.
SendOrWaitFails ==
    /\ \/ pc = "send" /\ Done("SEND")
       \/ pc = "wait" /\ Done("TIMEOUT")
    /\ UNCHANGED <<reply, gaveup>>

------------------------------------------------------------------------------
(* The station *)

Take(bytes) ==
    /\ pc' = "secret"
    /\ reply' = bytes
    /\ UNCHANGED <<err, ecdh, heap, priv, our_pub, shared_secret, gaveup>>

Header(curve_type) == <<1, 0, curve_type>>

\* A station that follows the protocol; nobody reads what it appends.
HonestReply ==
    /\ pc = "wait"
    /\ \E peer \in Peers :
          /\ Take(Header(0) \o PointBytes(peer.point) \o peer.rest)
          /\ e' = peer.key

OtherReply ==
    /\ pc = "wait"
    /\ \E bytes \in Replies : Take(bytes) /\ UNCHANGED e

------------------------------------------------------------------------------
(* The reply *)

\* Sizes 52, 56 and 64 for curve types 1 to 4, 40 for all others.
SupportedCurve(curve_type) == curve_type \notin 1..4

ReplyKey == SubSeq(reply, 4, 3 + 2 * num_bytes)

IsKeyReply == Len(reply) >= 3 /\ reply[1] = 1

Acceptable == IsKeyReply /\ SupportedCurve(reply[3]) /\ Len(reply) >= 3 + 2 * num_bytes

ReplyRejected ==
    /\ pc = "secret" /\ ~Acceptable
    /\ Done(IF ~IsKeyReply THEN "INVALID_RESPONSE"
            ELSE IF ~SupportedCurve(reply[3]) THEN "NOT_SUPPORTED" ELSE "INVALID_SIZE")
    /\ UNCHANGED <<reply, gaveup>>

\* Seeded fault: the pointer is kept.
SharedSecretKept(z) ==
    /\ pc = "secret" /\ Acceptable /\ ValidPublicKey(ReplyKey)
    /\ LET P == SharedPoint(ReplyKey, priv, z)
       IN  /\ P # Zero
           /\ shared_secret' = NativeToBytes(num_bytes, Digits(NumWords, P.x))
    /\ heap' = heap - 1
    /\ pc' = "later"
    /\ UNCHANGED <<err, ecdh, priv, our_pub, reply, gaveup, e>>

\* The secret is computed and the context released.
SharedSecret(z) ==
    /\ pc = "secret" /\ Acceptable /\ ValidPublicKey(ReplyKey)
    /\ LET P == SharedPoint(ReplyKey, priv, z)
       IN  /\ P # Zero
           /\ shared_secret' = NativeToBytes(num_bytes, Digits(NumWords, P.x))
    /\ heap' = heap - 1 /\ ecdh' = "NULL"
    /\ pc' = "later"
    /\ UNCHANGED <<err, priv, our_pub, reply, gaveup, e>>

InvalidPoint ==
    /\ pc = "secret" /\ Acceptable /\ ~ValidPublicKey(ReplyKey)
    /\ Done("INVALID_ARG")
    /\ UNCHANGED <<reply, gaveup>>

\* No initial Z is found, or the product comes out as Zero.
SharedSecretFails ==
    /\ pc = "secret" /\ Acceptable /\ ValidPublicKey(ReplyKey)
    /\ \/ gaveup' = TRUE
       \/ (\E z \in Zs \cap RandomInts(p) : SharedPoint(ReplyKey, priv, z) = Zero) /\ UNCHANGED gaveup
    /\ Done("FAIL")
    /\ UNCHANGED reply

\* Steps 2 to 4 (module Auth), which end in the same place.
RestOfHandshake ==
    /\ pc = "later"
    /\ Done("OK")
    /\ UNCHANGED <<reply, gaveup>>

Next ==
    \/ \E d \in Ks \cap RandomInts(n), z \in Zs \cap RandomInts(p) : GenKeypair(d, z)
    \/ GenKeypairFails
    \/ SendPublicKey \/ SendOrWaitFails
    \/ HonestReply \/ OtherReply
    \/ ReplyRejected \/ InvalidPoint \/ SharedSecretFails
    \/ \E z \in Zs \cap RandomInts(p) : SharedSecret(z)
    \/ RestOfHandshake

Spec == Init /\ [][Next]_vars

------------------------------------------------------------------------------
(* Properties *)

\* The private key is freed exactly once, on every path, and not kept beyond
\* step 1; the pointer is never left dangling.
ContextReleased ==
    /\ heap \in {0, 1}
    /\ pc \in {"later", "done"} => heap = 0
    /\ pc # "done" => (ecdh = "ctx") = (heap = 1)

\* Both sides hold the same secret: the one the station computes from our
\* public key, by the group law, with the private key behind its own.
SecretsAgree ==
    pc = "later" /\ e # 0 =>
        PointOf(shared_secret \o shared_secret).x = Ref!Multiple(e, PointOf(our_pub)).x

\* Only public keys are accepted: points of the curve other than infinity,
\* with both coordinates reduced (river2_ecdh.c:69 relies on that).
OnlyPointsAccepted ==
    pc = "later" => ReplyKey \in {PointBytes(Multiples[k]) : k \in DOMAIN Multiples}

\* A station that follows the protocol is refused only if the generator gives
\* up or its point has x = 0, where the ladder's final division fails.
HonestPeerAccepted ==
    pc = "done" /\ err \in {"INVALID_RESPONSE", "NOT_SUPPORTED", "INVALID_SIZE",
                            "INVALID_ARG", "FAIL"} /\ e # 0
        => gaveup \/ Multiples[e].x = 0

D(x) == Digits(NumWords, x)
P0   == D(p)

\* The two foldings of vli_mmod_fast_secp160r1 add up to more than its loop
\* over the carry takes away.
CarryLost(x, y) ==
    LET size  == Weight(NumWords)
        omega == W \div 2 + 1
        q     == ((x * y) \div size) * omega
    IN  ((x * y) % size) + (q % size) + (q \div size) * omega >= size + p

\* On words, the operations give what MicroEcc takes them for: checked on the
\* coordinates of all keys that may arrive (for one of our keys is enough).
WordsComputeField ==
    pc = "secret" /\ Acceptable /\ priv = PrivateBytes(2) =>
        LET x == PointOf(ReplyKey).x
            y == PointOf(ReplyKey).y
        IN  x \in 0..(p - 1) /\ y \in 0..(p - 1) =>
            /\ Val(VliModAdd(D(x), D(y), P0)) = Plus(x, y)
            /\ Val(VliModSub(D(x), D(y), P0)) = Minus(x, y)
            /\ ~CarryLost(x, y) => Val(VliModMultFast(D(x), D(y), P0)) = Mult(x, y)
            /\ Val(VliModInv(D(x), P0)) = ModInv(x)
            /\ Val(Halved(D(x), P0)) = Half(x)
==============================================================================
