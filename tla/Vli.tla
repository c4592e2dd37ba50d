---------------------------------- MODULE Vli ----------------------------------
(***************************************************************************)
(* The multi-word arithmetic of micro-ecc (uECC.c, curve-specific.inc).  A *)
(* VLI is a sequence of words, the least significant first.  The width of  *)
(* a word, of a byte and of a field element are constants, so that TLC can *)
(* run through all operands of a narrow machine; the reduction is the one  *)
(* for primes of the shape of secp160r1,                                   *)
(*    p = 2^(NumWords * WordBits) - (2^(WordBits - 1) + 1).                *)
(***************************************************************************)
EXTENDS Powers, Sequences, SequencesExt

CONSTANTS
  WordBits,       \* bits of a uECC_word_t (32)
  ByteBits,       \* bits of a byte (8)
  NumWords        \* words of a field element (5)

W         == Pow2[WordBits]
WordSize  == WordBits \div ByteBits
Weight(i) == Pow2[WordBits * i]

\* NumWords products fit in the three words that add up a column.
ASSUME VliAssumption ==
    /\ WordBits \in Nat \ {0} /\ ByteBits \in Nat \ {0} /\ WordBits % ByteBits = 0
    /\ NumWords \in 2..W

\* The number a VLI stands for, and the VLI of len words for a number.
Val(vli) ==
    LET val[i \in 0..Len(vli)] == IF i = 0 THEN 0 ELSE val[i - 1] + vli[i] * Weight(i - 1)
    IN  val[Len(vli)]

Digits(len, x) == [i \in 1..len |-> (x \div Weight(i - 1)) % W]

Zeros(len)     == [i \in 1..len |-> 0]
Low(vli)       == SubSeq(vli, 1, NumWords)
High(vli)      == SubSeq(vli, NumWords + 1, 2 * NumWords)

------------------------------------------------------------------------------
(* Looking at a VLI *)

VliIsZero(vli) == \A i \in DOMAIN vli : vli[i] = 0

BitOf(x, bit)        == (x \div Pow2[bit]) % 2 = 1
VliTestBit(vli, bit) == BitOf(vli[bit \div WordBits + 1], bit % WordBits)

\* Bits up to the highest one that is set.
VliNumBits(vli) ==
    LET digits == Max({0} \cup {i \in DOMAIN vli : vli[i] # 0})
    IN  IF digits = 0 THEN 0
        ELSE WordBits * (digits - 1)
             + Max({i \in 1..WordBits : BitOf(vli[digits], i - 1)})

\* The most significant word that differs decides.
VliCmp(left, right) ==
    LET differ == {i \in DOMAIN left : left[i] # right[i]}
    IN  IF differ = {} THEN 0
        ELSE IF left[Max(differ)] > right[Max(differ)] THEN 1 ELSE -1

------------------------------------------------------------------------------
(* Addition, subtraction, shift *)

AddWord(l, r, carry)  == (l + r + carry) % W
SubWord(l, r, borrow) == (l - r - borrow) % W

\* Seeded fault: a word that did not change never carries.
CarryForgets(l, r, carry) == IF AddWord(l, r, carry) < l THEN 1 ELSE 0

\* A word equal to l has added nothing or one full word: the carry stays.
Carry(l, r, carry) ==
    LET sum == AddWord(l, r, carry)
    IN  IF sum = l THEN carry ELSE IF sum < l THEN 1 ELSE 0

Borrow(l, r, borrow) ==
    LET diff == SubWord(l, r, borrow)
    IN  IF diff = l THEN borrow ELSE IF diff > l THEN 1 ELSE 0

\* From the least significant word up, returning the words and the last carry.
VliAdd(left, right) ==
    LET sum[i \in 0..Len(left)] ==
            IF i = 0 THEN [words |-> <<>>, carry |-> 0]
            ELSE LET acc == sum[i - 1]
                 IN  [words |-> Append(acc.words, AddWord(left[i], right[i], acc.carry)),
                      carry |-> Carry(left[i], right[i], acc.carry)]
    IN  sum[Len(left)]

VliSub(left, right) ==
    LET diff[i \in 0..Len(left)] ==
            IF i = 0 THEN [words |-> <<>>, borrow |-> 0]
            ELSE LET acc == diff[i - 1]
                 IN  [words  |-> Append(acc.words, SubWord(left[i], right[i], acc.borrow)),
                      borrow |-> Borrow(left[i], right[i], acc.borrow)]
    IN  diff[Len(left)]

\* HIGH_BIT_SET
SetHighBit(vli) == [vli EXCEPT ![Len(vli)] = (@ % (W \div 2)) + W \div 2]

VliRshift1(vli) ==
    [i \in 1..Len(vli) |->
        vli[i] \div 2 + (IF i < Len(vli) THEN (vli[i + 1] * (W \div 2)) % W ELSE 0)]

------------------------------------------------------------------------------
(* Multiplication, column by column, in three words r0, r1, r2 *)

MulAdd(r, a, b) ==
    LET product == a * b
        r01     == (r[2] * W + r[1] + product) % (W * W)
    IN  <<r01 % W, r01 \div W, (r[3] + (IF r01 < product THEN 1 ELSE 0)) % W>>

\* Column k adds up the products left[i] * right[k - i], words counted from 0.
Column(left, right, k, r) ==
    LET rows[i \in 0..Len(left)] ==
            IF i = 0 THEN r
            ELSE IF k - (i - 1) \in 0..(Len(left) - 1)
            THEN MulAdd(rows[i - 1], left[i], right[k - i + 2])
            ELSE rows[i - 1]
    IN  rows[Len(left)]

\* Behind each column, its lowest word is done and the accumulator moves down.
VliMult(left, right) ==
    LET top == 2 * Len(left) - 1
        columns[k \in 0..top] ==
            IF k = 0 THEN [words |-> <<>>, r |-> <<0, 0, 0>>]
            ELSE LET acc == columns[k - 1]
                     r   == Column(left, right, k - 1, acc.r)
                 IN  [words |-> Append(acc.words, r[1]), r |-> <<r[2], r[3], 0>>]
    IN  Append(columns[top].words, columns[top].r[1])

------------------------------------------------------------------------------
(* Arithmetic modulo mod, for operands below it *)

VliModAdd(left, right, mod) ==
    LET sum == VliAdd(left, right)
    IN  IF sum.carry = 1 \/ VliCmp(mod, sum.words) # 1
        THEN VliSub(sum.words, mod).words ELSE sum.words

VliModSub(left, right, mod) ==
    LET diff == VliSub(left, right)
    IN  IF diff.borrow = 1 THEN VliAdd(diff.words, mod).words ELSE diff.words

\* right times 2^(WordBits - 1) + 1, in 2 * NumWords words.
OmegaMult(right) ==
    LET shifted == <<(right[1] * (W \div 2)) % W>> \o VliRshift1(right)
        sum     == VliAdd(Low(shifted), right)
        top     == shifted[NumWords + 1] + sum.carry
    IN  sum.words \o <<top % W>> \o <<top \div W>> \o Zeros(NumWords - 2)

SubTimes(vli, mod, times) ==
    LET rest[i \in 0..times] == IF i = 0 THEN vli ELSE VliSub(rest[i - 1], mod).words
    IN  rest[times]

\* vli_mmod_fast_secp160r1: the high half is folded into the low one twice, as
\* 2^(NumWords * WordBits) = 2^(WordBits - 1) + 1 modulo p.
MmodFast(product, mod) ==
    LET q     == OmegaMult(High(product))
        once  == VliAdd(Low(product), Low(q))
        twice == VliAdd(once.words, Low(OmegaMult(High(q))))
        r     == SubTimes(twice.words, mod, once.carry + twice.carry)
    IN  IF VliCmp(r, mod) > 0 THEN VliSub(r, mod).words ELSE r

VliModMultFast(left, right, mod) == MmodFast(VliMult(left, right), mod)

VliEven(vli) == vli[1] % 2 = 0

\* vli_modInv_update: half of uv modulo mod.
Halved(uv, mod) ==
    IF VliEven(uv) THEN VliRshift1(uv)
    ELSE LET sum  == VliAdd(uv, mod)
             half == VliRshift1(sum.words)
         IN  IF sum.carry = 1 THEN SetHighBit(half) ELSE half

\* u - v, made positive first.
Difference(u, v, mod) ==
    VliSub(IF VliCmp(u, v) < 0 THEN VliAdd(u, mod).words ELSE u, v).words

\* A round of uECC_vli_modInv, which keeps a = u * input and b = v * input modulo
\* mod, and stops when a and b meet.
InvRound(s, mod) ==
    IF VliCmp(s.a, s.b) = 0 THEN s
    ELSE IF VliEven(s.a) THEN [s EXCEPT !.a = VliRshift1(@), !.u = Halved(@, mod)]
    ELSE IF VliEven(s.b) THEN [s EXCEPT !.b = VliRshift1(@), !.v = Halved(@, mod)]
    ELSE IF VliCmp(s.a, s.b) > 0
    THEN [s EXCEPT !.a = VliRshift1(VliSub(@, s.b).words),
                   !.u = Halved(Difference(@, s.v, mod), mod)]
    ELSE [s EXCEPT !.b = VliRshift1(VliSub(@, s.a).words),
                   !.v = Halved(Difference(@, s.u, mod), mod)]

\* Each round halves a number, so that more rounds than there are bits in a and
\* b never happen.
VliModInv(input, mod) ==
    LET last  == 2 * (WordBits * Len(mod))
        start == [a |-> input, b |-> mod, u |-> Digits(Len(mod), 1), v |-> Zeros(Len(mod))]
        rounds[i \in 0..last] ==
            IF i = 0 THEN start ELSE InvRound(rounds[i - 1], mod)
    IN  IF VliIsZero(input) THEN input ELSE rounds[last].u

------------------------------------------------------------------------------
(* The external form: bytes, most significant first *)

NativeToBytes(num_bytes, native) ==
    [i \in 1..num_bytes |->
        LET place == num_bytes - i
        IN  (native[place \div WordSize + 1] \div Pow2[ByteBits * (place % WordSize)]) % Pow2[ByteBits]]

\* The bytes of word w, each shifted to its place.
BytesToNative(bytes) ==
    LET num_bytes == Len(bytes)
        Byte(place) == IF place < num_bytes THEN bytes[num_bytes - place] ELSE 0
        Word(w) ==
            LET word[k \in 0..WordSize] ==
                    IF k = 0 THEN 0
                    ELSE word[k - 1]
                         + Byte((w - 1) * WordSize + k - 1) * Pow2[ByteBits * (k - 1)]
            IN  word[WordSize]
    IN  [w \in 1..((num_bytes + WordSize - 1) \div WordSize) |-> Word(w)]
==============================================================================
