----------------------------- MODULE CrcReference -----------------------------
(***************************************************************************)
(* The mathematical definition of the two checksums: the remainder of the  *)
(* message, a polynomial over GF(2), on division by the generator.  A      *)
(* polynomial is the set of its exponents.                                 *)
(***************************************************************************)
EXTENDS Naturals, Sequences, FiniteSetsExt

Plus(f, g)  == (f \ g) \cup (g \ f)
Times(f, n) == {e + n : e \in f}              \* times x^n

\* f modulo a generator of degree n, by long division from degree d down.
Remainder(f, gen, n, top) ==
    LET div[d \in (n - 1)..top] ==            \* after clearing degrees d and up
            IF d = top THEN f
            ELSE LET g == div[d + 1]
                 IN  IF d + 1 \in g THEN Plus(g, Times(gen, d + 1 - n)) ELSE g
    IN  div[n - 1]

Bit(byte, k) == (byte \div 2^k) % 2 = 1

\* The message as a polynomial, most or least significant bit of a byte first.
MsbFirst(m) == {8 * (Len(m) - i) + k : <<i, k>> \in
                  {<<i, k>> \in (1..Len(m)) \X (0..7) : Bit(m[i], k)}}
LsbFirst(m) == {8 * (Len(m) - i) + 7 - k : <<i, k>> \in
                  {<<i, k>> \in (1..Len(m)) \X (0..7) : Bit(m[i], k)}}

RefCrc8(m)  == LET r == Remainder(Times(MsbFirst(m), 8), {8, 2, 1, 0}, 8, 8 * Len(m) + 8)
               IN  SumSet({2^e : e \in r})
RefCrc16(m) == LET r == Remainder(Times(LsbFirst(m), 16), {16, 15, 2, 0}, 16, 8 * Len(m) + 16)
               IN  SumSet({2^(15 - e) : e \in r})
==============================================================================
