----------------------------- MODULE EccReference -----------------------------
(***************************************************************************)
(* The mathematics MicroEcc is compared with: the chord-and-tangent law in *)
(* affine coordinates and multiplication by repeated addition.             *)
(***************************************************************************)
EXTENDS Integers

CONSTANT q                        \* the field's prime

Infinity == [x |-> -1, y |-> -1]

InverseOf == [x \in 1..(q - 1) |-> CHOOSE y \in 1..(q - 1) : (x * y) % q = 1]

Slope(P, Q) ==
    IF P = Q THEN ((3 * P.x * P.x - 3) * InverseOf[(2 * P.y) % q]) % q
    ELSE ((Q.y - P.y) * InverseOf[(Q.x - P.x) % q]) % q

Sum(P, Q) ==
    IF P = Infinity THEN Q
    ELSE IF Q = Infinity THEN P
    ELSE IF P.x = Q.x /\ (P.y + Q.y) % q = 0 THEN Infinity
    ELSE LET s == Slope(P, Q)
             x == (s * s - P.x - Q.x) % q
         IN  [x |-> x, y |-> (s * (P.x - x) - P.y) % q]

\* k times P
Multiple(k, P) ==
    LET times[i \in 0..k] == IF i = 0 THEN Infinity ELSE Sum(times[i - 1], P)
    IN  times[k]
==============================================================================
