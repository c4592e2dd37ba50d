------------------------------- MODULE MicroEcc -------------------------------
(***************************************************************************)
(* The elliptic-curve half of micro-ecc (uECC.c, curve-specific.inc) as    *)
(* the ECDH wrapper uses it: Montgomery's ladder in co-Z coordinates,      *)
(* random numbers, key generation and key agreement.  Field elements are   *)
(* numbers here and the field operations exact; Vli models what they do on *)
(* words.  Scalars keep their width in words, because the ladder depends   *)
(* on their top bit.  A point is [x, y]; the pair of zeros stands for the  *)
(* point at infinity, as in the code.                                      *)
(***************************************************************************)
EXTENDS Vli

CONSTANTS
  p, b,           \* the curve y^2 = x^3 - 3x + b over the field of p elements
  n, num_n_bits,  \* its order and the number of bits of that
  G               \* the base point

ASSUME MicroEccAssumption ==
    /\ p = Weight(NumWords) - (W \div 2) - 1
    /\ p % 2 = 1 /\ \A x, y \in 1..(p - 1) : (x * y) % p # 0           \* a prime
    /\ num_n_bits \in Nat \ {0} /\ n \in Pow2[num_n_bits - 1]..(Pow2[num_n_bits] - 1)
    /\ n > 3 /\ \A x, y \in 1..(n - 1) : (x * y) % n # 0               \* a prime

num_n_words == (num_n_bits + WordBits - 1) \div WordBits        \* BITS_TO_WORDS
num_n_bytes == (num_n_bits + ByteBits - 1) \div ByteBits        \* BITS_TO_BYTES
num_bytes   == NumWords * WordSize

Plus(x, y)   == (x + y) % p
Minus(x, y)  == (x - y) % p
Mult(x, y)   == (x * y) % p
Square(x)    == Mult(x, x)

\* uECC_vli_modInv, which maps 0 to 0; Half is the halving in double_jacobian.
Inverses     == [x \in 1..(p - 1) |-> CHOOSE y \in 1..(p - 1) : Mult(x, y) = 1]
ModInv(x)    == IF x = 0 THEN 0 ELSE Inverses[x]
Half(x)      == IF x % 2 = 1 THEN (x + p) \div 2 ELSE x \div 2

Zero         == [x |-> 0, y |-> 0]

\* Seeded fault: x^3 + 3x + b.
XSidePlus(x) == Plus(Mult(Plus(Square(x), 3), x), b)

\* x_side_default
XSide(x)     == Plus(Mult(Minus(Square(x), 3), x), b)

------------------------------------------------------------------------------
(* The curve, as its standard describes it *)

Ref == INSTANCE EccReference WITH q <- p

Points == {P \in [x : 0..(p - 1), y : 0..(p - 1)] :
              (P.y * P.y) % p = (P.x * P.x * P.x - 3 * P.x + b) % p}

\* k times the base point.
Multiples == [k \in 1..(n - 1) |-> Ref!Multiple(k, G)]

\* With infinity, the points are a cyclic group of order n that G generates.
ASSUME CurveAssumption ==
    /\ b \in 0..(p - 1)
    /\ Points = {Multiples[k] : k \in 1..(n - 1)}
    /\ \A i, j \in 1..(n - 1) :
          Ref!Sum(Multiples[i], Multiples[j])
            = IF i + j = n THEN Ref!Infinity ELSE Multiples[(i + j) % n]

------------------------------------------------------------------------------
(* Point arithmetic *)

\* double_jacobian_default: twice P with its new z, for a z that is not 0.
DoubleJacobian(P, z) ==
    LET y2 == Square(P.y)
        A  == Mult(P.x, y2)
        z2 == Square(z)
        B  == Half(Mult(3, Mult(Plus(P.x, z2), Minus(P.x, z2))))
        x3 == Minus(Minus(Square(B), A), A)
    IN  [point |-> [x |-> x3, y |-> Minus(Mult(B, Minus(A, x3)), Square(y2))],
         z     |-> Mult(P.y, z)]

ApplyZ(P, z) == [x |-> Mult(P.x, Square(z)), y |-> Mult(P.y, Mult(Square(z), z))]

\* R[1] is 2P and R[0] is P, with the same z.
XYcZ_initial_double(P, initial_Z) ==
    LET doubled == DoubleJacobian(ApplyZ(P, initial_Z), initial_Z)
    IN  [i \in {0, 1} |-> IF i = 1 THEN doubled.point ELSE ApplyZ(P, doubled.z)]

\* P becomes P', Q becomes P + Q, and sub is x(P') - x(P + Q).
XYcZ_add(P, Q) ==
    LET A   == Square(Minus(Q.x, P.x))
        B   == Mult(P.x, A)
        C   == Mult(Q.x, A)
        dy  == Minus(Q.y, P.y)
        x3  == Minus(Minus(Square(dy), B), C)
        y1  == Mult(P.y, Minus(C, B))
        sub == Minus(B, x3)
    IN  [p |-> [x |-> B, y |-> y1],
         q |-> [x |-> x3, y |-> Minus(Mult(dy, sub), y1)],
         sub |-> sub]

\* P becomes P - Q and Q becomes P + Q, given sub = x(P) - x(Q).
XYcZ_addC(P, Q, sub) ==
    LET A   == Square(sub)
        B   == Mult(P.x, A)
        C   == Mult(Q.x, A)
        sy  == Plus(Q.y, P.y)
        dy  == Minus(Q.y, P.y)
        E   == Mult(P.y, Minus(C, B))
        x3  == Minus(Square(dy), Plus(B, C))
        x3a == Minus(Square(sy), Plus(B, C))
    IN  [p |-> [x |-> x3a, y |-> Minus(Mult(sy, Minus(x3a, B)), E)],
         q |-> [x |-> x3,  y |-> Minus(Mult(dy, Minus(B, x3)), E)]]

\* One round of the ladder: R[nb] and R[1 - nb] after both additions.
AddC(R, nb, sub) ==
    LET sum == XYcZ_addC(R[1 - nb], R[nb], sub)
    IN  [i \in {0, 1} |-> IF i = nb THEN sum.q ELSE sum.p]

Add(R, nb) ==
    LET sum == XYcZ_add(R[nb], R[1 - nb])
    IN  [R |-> [i \in {0, 1} |-> IF i = nb THEN sum.p ELSE sum.q], sub |-> sum.sub]

NotBit(scalar, i) == IF VliTestBit(scalar, i) THEN 0 ELSE 1

\* What bit i of the scalar, the bits above it done, adds to the ladder.
LadderRound(acc, scalar, i) ==
    LET nb == NotBit(scalar, i) IN Add(AddC(acc.R, nb, acc.sub), nb)

\* The scalar has num_bits bits, the highest of which is set.
EccPoint_mult(P, scalar, initial_Z, num_bits) ==
    LET start == XYcZ_initial_double(P, initial_Z)
        ladder[k \in 0..(num_bits - 2)] ==
            IF k = 0 THEN [R |-> start, sub |-> Minus(start[0].x, start[1].x)]
            ELSE LadderRound(ladder[k - 1], scalar, num_bits - 1 - k)
        last == ladder[num_bits - 2]
        nb   == NotBit(scalar, 0)
        R    == AddC(last.R, nb, last.sub)
        z    == Mult(Mult(ModInv(Mult(Mult(Minus(R[1].x, R[0].x), R[1 - nb].y), P.x)), P.y),
                     R[1 - nb].x)
    IN  ApplyZ(Add(R, nb).R[0], z)

------------------------------------------------------------------------------
(* Scalars and random numbers *)

\* regularize_k and the choice made with its result: k + n or k + 2n, the one
\* with num_n_bits + 1 bits.
Regularize(k) ==
    LET order == Digits(num_n_words, n)
        k0    == VliAdd(k, order)
        carry == \/ k0.carry = 1
                 \/ num_n_bits < num_n_words * WordBits /\ VliTestBit(k0.words, num_n_bits)
    IN  IF carry THEN k0.words ELSE VliAdd(k0.words, order).words

\* uECC_generate_random_int: random words, cut to the length of top, until one
\* is in range.
RandomInts(top) ==
    LET len == IF top = n THEN num_n_words ELSE NumWords
    IN  {x \in 0..(Pow2[VliNumBits(Digits(len, top))] - 1) : x # 0 /\ top > x}

\* EccPoint_compute_public_key, Zero being its failure.
PublicKey(private, initial_Z) ==
    EccPoint_mult(G, Regularize(private), initial_Z, num_n_bits + 1)

------------------------------------------------------------------------------
(* The interface on bytes *)

PointBytes(P) == NativeToBytes(num_bytes, Digits(NumWords, P.x))
                   \o NativeToBytes(num_bytes, Digits(NumWords, P.y))

PointOf(bytes) == [x |-> Val(BytesToNative(SubSeq(bytes, 1, num_bytes))),
                   y |-> Val(BytesToNative(SubSeq(bytes, num_bytes + 1, 2 * num_bytes)))]

\* Seeded fault: a coordinate may be p or more.
ValidPublicKeyUnreduced(bytes) ==
    LET P == PointOf(bytes) IN P # Zero /\ Square(P.y) = XSide(P.x)

\* uECC_valid_public_key, uECC_valid_point
ValidPublicKey(bytes) ==
    LET P == PointOf(bytes)
    IN  P # Zero /\ P.x < p /\ P.y < p /\ Square(P.y) = XSide(P.x)

\* Seeded fault: the key is not regularized.
SharedPointIrregular(public_key, private_key, initial_Z) ==
    EccPoint_mult(PointOf(public_key), BytesToNative(private_key), initial_Z, num_n_bits + 1)

\* uECC_shared_secret: the product of the peer's point and the private key, of
\* which the code returns x and whether it is Zero.
SharedPoint(public_key, private_key, initial_Z) ==
    EccPoint_mult(PointOf(public_key), Regularize(BytesToNative(private_key)),
                  initial_Z, num_n_bits + 1)
==============================================================================
