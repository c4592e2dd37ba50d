-------------------------------- MODULE MCEcdh --------------------------------
(***************************************************************************)
(* Ecdh on a curve of the family of secp160r1 that TLC can exhaust: 2-bit  *)
(* words of two 1-bit bytes, p = 61, and an order of 67, one bit longer    *)
(* than p, as in secp160r1.                                                *)
(***************************************************************************)
EXTENDS Ecdh

MCG == [x |-> 1, y |-> 16]

\* The smallest and largest keys, and those around 61 = 2^7 - n, where the
\* length of k + n changes.
MCKs == (1..5) \cup {10, 33} \cup (59..66)

AnyKey  == [1..(2 * num_bytes) -> {0, 1}]
Full    == PointBytes(G)
MCReplies ==
    {Header(0) \o key : key \in AnyKey}
    \cup {Header(c) \o Full : c \in 1..5}
    \cup {<<>>, Header(0), Header(0) \o Front(Full), <<2, 0, 0>> \o Full}

MCPeers == {[key |-> k, point |-> Multiples[k], rest |-> rest] :
                k \in DOMAIN Multiples, rest \in {<<>>, <<1>>}}

------------------------------------------------------------------------------
\* vli_mmod_fast_secp160r1 computes product % curve_p (its comment says so).
FastReductionExact ==
    pc = "secret" /\ Acceptable =>
        LET x == PointOf(ReplyKey).x
            y == PointOf(ReplyKey).y
        IN  x < p /\ y < p => Val(VliModMultFast(D(x), D(y), P0)) = Mult(x, y)
==============================================================================
