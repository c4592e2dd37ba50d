------------------------------ MODULE Ecdh_proofs ------------------------------
(***************************************************************************)
(* For every width of a word and of a number, every prime of the shape     *)
(* that curve-specific.inc counts on, every curve of prime order, key      *)
(* drawn, reply and honest station:                                        *)
(*                                                                         *)
(*  - on words, the arithmetic of uECC.c computes what MicroEcc takes it   *)
(*    for.  Vli computes with functions over the words of a number; each   *)
(*    is followed by the numbers its beginnings stand for (Upto), column   *)
(*    by column for a product (Parts), side by side for the inverse;       *)
(*  - Montgomery's ladder multiplies: before each round its registers hold *)
(*    a and a + 1 times the point over a shared z (LadderAt), for the      *)
(*    number a of the bits done.  It returns Zero instead for a point with *)
(*    x = 0 and for the scalars of three private keys, which leave it with *)
(*    registers that are inverse to one another (LadderLost);              *)
(*  - keys and secrets survive being written as bytes and read back, so    *)
(*    only public keys are accepted, honest ones are, and both sides of an *)
(*    exchange get the same secret (KeysInv);                              *)
(*  - the context with the private key is freed once, on every path        *)
(*    through step 1.                                                      *)
(***************************************************************************)
EXTENDS Ecdh, DataLemmas

------------------------------------------------------------------------------
(* Powers of two and the weights of words *)

\* A word has an even number of values, and a number more than one word.
LEMMA WordSizes ==
    /\ W \in Nat /\ W >= 2 /\ W % 2 = 0 /\ W \div 2 \in Nat \ {0} /\ W = 2 * (W \div 2)
    /\ NumWords \in Nat /\ NumWords >= 2
<1>1. WordBits \in Nat \ {0} /\ NumWords \in Nat /\ NumWords >= 2
  BY VliAssumption
<1>2. PICK half \in Nat \ {0} : W = 2 * half
  BY <1>1, PowersOfTwo DEF W
<1> QED BY <1>1, <1>2

\* The weight of a place, from the place below it and from its parts.
LEMMA Weights ==
    /\ Weight(0) = 1
    /\ \A i \in Nat : Weight(i) \in Nat \ {0} /\ Weight(i + 1) = W * Weight(i)
    /\ \A i, j \in Nat : Weight(i + j) = Weight(i) * Weight(j)
<1>1. WordBits \in Nat
  BY VliAssumption
<1>2. \A i \in Nat : WordBits * i \in Nat
  BY <1>1
<1>3. Weight(0) = 1
  <2>1. WordBits * 0 = 0
    BY <1>1
  <2> QED BY <2>1, PowersOfTwo DEF Weight
<1>4. ASSUME NEW i \in Nat, NEW j \in Nat PROVE Weight(i + j) = Weight(i) * Weight(j)
  <2>1. WordBits * (i + j) = WordBits * i + WordBits * j
    BY <1>1
  <2> QED BY <1>2, <2>1, PowersAdd DEF Weight
<1>5. Weight(1) = W
  <2>1. WordBits * 1 = WordBits
    BY <1>1
  <2> QED BY <2>1 DEF Weight, W
<1>6. ASSUME NEW i \in Nat PROVE Weight(i) \in Nat \ {0} /\ Weight(i + 1) = W * Weight(i)
  <2>1. Weight(i) \in Nat \ {0}
    BY <1>2, PowersOfTwo DEF Weight
  <2>2. Weight(i + 1) = Weight(i) * Weight(1)
    BY <1>4
  <2>3. W \in Nat
    BY WordSizes
  <2> QED BY <1>5, <2>1, <2>2, <2>3
<1> QED BY <1>3, <1>4, <1>6

------------------------------------------------------------------------------
(* The number a VLI stands for *)

Word == 0..(W - 1)

\* The numbers its beginnings stand for.
IsUpto(f, v) ==
    /\ f \in [0..Len(v) -> Nat] /\ f[0] = 0
    /\ \A i \in 1..Len(v) : f[i] = f[i - 1] + v[i] * Weight(i - 1)

Upto(v) == CHOOSE f : IsUpto(f, v)

\* A word in its place is a number.
LEMMA WordProduct ==
    ASSUME NEW x \in Nat, NEW i \in Nat
    PROVE  x * Weight(i) \in Nat
<1>1. Weight(i) \in Nat
  BY Weights
<1> QED BY <1>1

\* The value of a VLI, from the values of its beginnings.
LEMMA ValueUpto ==
    ASSUME NEW v \in Seq(Nat)
    PROVE  IsUpto(Upto(v), v) /\ Val(v) = Upto(v)[Len(v)] /\ Val(v) \in Nat
<1> DEFINE Eqn(f) == f = [i \in 0..Len(v) |-> IF i = 0 THEN 0 ELSE f[i - 1] + v[i] * Weight(i - 1)]
           step == [a \in (1..Len(v)) \X Nat |-> a[2] + v[a[1]] * Weight(a[1] - 1)]
<1>1. Len(v) \in Nat /\ \A i \in 1..Len(v) : v[i] \in Nat
  BY LenProperties, ElementOfSeq
<1>2. step \in [(1..Len(v)) \X Nat -> Nat] /\ 0 \in Nat
  <2>1. ASSUME NEW a \in (1..Len(v)) \X Nat PROVE a[2] + v[a[1]] * Weight(a[1] - 1) \in Nat
    <3>1. a[1] \in 1..Len(v) /\ a[2] \in Nat /\ a[1] - 1 \in Nat /\ v[a[1]] \in Nat
      BY <1>1
    <3>2. v[a[1]] * Weight(a[1] - 1) \in Nat
      BY <3>1, WordProduct
    <3> QED BY <3>1, <3>2
  <2> QED BY <2>1
<1>3. PICK f : Follows(f, Nat, 0, step, Len(v))
  <2> HIDE DEF step
  <2> QED BY <1>1, <1>2, RecursionUpTo
<1>4. ASSUME NEW i \in 1..Len(v) PROVE f[i] = f[i - 1] + v[i] * Weight(i - 1)
  <2>1. f[i] = step[<<i, f[i - 1]>>]
    BY <1>3 DEF Follows
  <2>2. i - 1 \in 0..Len(v) /\ f[i - 1] \in Nat
    <3>1. f \in [0..Len(v) -> Nat]
      BY <1>3 DEF Follows
    <3>2. i - 1 \in 0..Len(v)
      BY <1>1
    <3> QED BY <3>1, <3>2
  <2> QED BY <2>1, <2>2
<1>5. IsUpto(f, v)
  BY <1>3, <1>4 DEF IsUpto, Follows
<1>6. \A g : IsUpto(g, v) => Eqn(g)
  <2> SUFFICES ASSUME NEW g, IsUpto(g, v) PROVE Eqn(g)
    OBVIOUS
  <2>1. \A i \in 0..Len(v) : g[i] = IF i = 0 THEN 0 ELSE g[i - 1] + v[i] * Weight(i - 1)
    <3>1. \A i \in 0..Len(v) : i = 0 \/ i \in 1..Len(v)
      BY <1>1
    <3> QED BY <3>1 DEF IsUpto
  <2>2. g = [i \in 0..Len(v) |-> g[i]]
    BY DEF IsUpto
  <2> QED BY <2>1, <2>2
<1>7. ASSUME NEW g, Eqn(g) PROVE IsUpto(g, v)
  <2>1. g[0] = 0 /\ \A i \in 1..Len(v) : g[i] = g[i - 1] + v[i] * Weight(i - 1)
    <3>1. 0 \in 0..Len(v) /\ \A i \in 1..Len(v) : i \in 0..Len(v) /\ i # 0
      BY <1>1
    <3> QED BY <1>7, <3>1
  <2> DEFINE T == {i \in 0..Len(v) : g[i] \notin Nat}
  <2>2. T = {}
    <3> SUFFICES ASSUME T # {} PROVE FALSE
      OBVIOUS
    <3>1. PICK k \in T : \A j \in T : k <= j
      <4>1. T \in SUBSET Nat
        OBVIOUS
      <4> HIDE DEF T
      <4> QED BY <4>1, LeastOf
    <3>2. k \in 1..Len(v) /\ k - 1 \in 0..Len(v) /\ k - 1 \notin T /\ k - 1 \in Nat
      BY <1>1, <2>1, <3>1
    <3>3. g[k - 1] \in Nat /\ v[k] \in Nat /\ v[k] * Weight(k - 1) \in Nat
      BY <1>1, <3>2, WordProduct
    <3>4. g[k] = g[k - 1] + v[k] * Weight(k - 1)
      BY <2>1, <3>2
    <3> QED BY <3>1, <3>3, <3>4
  <2>3. g = [i \in 0..Len(v) |-> g[i]]
    BY <1>7
  <2>4. g \in [0..Len(v) -> Nat]
    BY <2>2, <2>3
  <2> QED BY <2>1, <2>4 DEF IsUpto
<1>8. IsUpto(Upto(v), v)
  BY <1>5, Zenon DEF Upto
<1>9. Val(v) = (CHOOSE g : Eqn(g))[Len(v)]
  BY Zenon DEF Val
<1>10. (CHOOSE g : Eqn(g)) = Upto(v)
  <2>1. \A g : Eqn(g) <=> IsUpto(g, v)
    BY <1>6, <1>7
  <2> HIDE DEF Eqn
  <2> QED BY <2>1, Zenon DEF Upto
<1>11. Val(v) = Upto(v)[Len(v)]
  BY <1>9, <1>10
<1>12. Upto(v)[Len(v)] \in Nat
  BY <1>1, <1>8 DEF IsUpto
<1> QED BY <1>8, <1>11, <1>12

\* A beginning of i words stands for less than the weight of the next word.
LEMMA UptoBound ==
    ASSUME NEW v \in Seq(Word)
    PROVE  /\ v \in Seq(Nat) /\ \A i \in 0..Len(v) : Upto(v)[i] < Weight(i)
           /\ Val(v) \in Nat /\ Val(v) < Weight(Len(v))
<1>1. v \in Seq(Nat) /\ Len(v) \in Nat /\ \A i \in 1..Len(v) : v[i] \in Word
  <2>1. Word \subseteq Nat
    BY WordSizes DEF Word
  <2>2. Len(v) \in Nat /\ v \in [1..Len(v) -> Word]
    BY LenProperties
  <2>3. v \in [1..Len(v) -> Nat]
    BY <2>1, <2>2
  <2>4. v \in Seq(Nat)
    BY <2>2, <2>3, SeqDef
  <2> QED BY <2>2, <2>4
<1>2. IsUpto(Upto(v), v) /\ Val(v) = Upto(v)[Len(v)] /\ Val(v) \in Nat
  BY <1>1, ValueUpto
<1> DEFINE f == Upto(v)
           T == {i \in 0..Len(v) : ~(f[i] < Weight(i))}
<1>3. T = {}
  <2> SUFFICES ASSUME T # {} PROVE FALSE
    OBVIOUS
  <2>1. PICK k \in T : \A j \in T : k <= j
    <3>1. T \in SUBSET Nat
      OBVIOUS
    <3> HIDE DEF T
    <3> QED BY <3>1, LeastOf
  <2>2. k # 0
    BY <1>2, Weights DEF IsUpto
  <2>3. k \in 1..Len(v) /\ k - 1 \in 0..Len(v) /\ k - 1 \notin T /\ k - 1 \in Nat
    BY <1>1, <2>1, <2>2
  <2>4. f[k - 1] < Weight(k - 1) /\ f[k - 1] \in Nat /\ f[k] = f[k - 1] + v[k] * Weight(k - 1)
    BY <1>2, <2>3 DEF IsUpto
  <2>5. PICK m \in Nat : m = Weight(k - 1) /\ Weight(k) = W * m
    <3>1. (k - 1) + 1 = k
      BY <2>3
    <3> QED BY <2>3, <3>1, Weights
  <2>6. PICK d \in Nat : d = v[k] /\ d <= W - 1 /\ W \in Nat
    BY <1>1, <2>3, WordSizes DEF Word
  <2>7. d * m <= (W - 1) * m /\ (W - 1) * m = W * m - m
    <3>1. W - 1 \in Nat
      BY WordSizes
    <3>2. d * m <= (W - 1) * m
      BY <2>6, <3>1, ProductsGrow
    <3>3. (W - 1) * m = W * m - m
      BY <2>6
    <3> QED BY <3>2, <3>3
  <2>8. f[k] = f[k - 1] + d * m /\ f[k - 1] < m
    BY <2>4, <2>5, <2>6
  <2>9. d * m \in Int /\ W * m \in Int
    BY <2>5, <2>6
  <2>10. f[k] < W * m
    BY <2>4, <2>5, <2>7, <2>8, <2>9, SMTT(30)
  <2> QED BY <2>1, <2>5, <2>10
<1>4. Upto(v)[Len(v)] < Weight(Len(v))
  BY <1>1, <1>3
<1> HIDE DEF f
<1> QED BY <1>1, <1>2, <1>3, <1>4 DEF f

\* Each word adds its share.
LEMMA UptoStep ==
    ASSUME NEW v \in Seq(Word), NEW k \in 1..Len(v)
    PROVE  /\ Upto(v)[k - 1] \in Nat /\ Upto(v)[k] \in Nat
           /\ Upto(v)[k] = Upto(v)[k - 1] + v[k] * Weight(k - 1)
<1>1. Len(v) \in Nat /\ IsUpto(Upto(v), v)
  BY LenProperties, UptoBound, ValueUpto
<1>2. k - 1 \in 0..Len(v) /\ k \in 0..Len(v)
  BY <1>1
<1> QED BY <1>1, <1>2 DEF IsUpto

------------------------------------------------------------------------------
(* Digits and single words *)

\* The digits of a number stand for it, as far as they reach.
LEMMA DigitsValue ==
    ASSUME NEW x \in Nat, NEW len \in Nat
    PROVE  /\ Digits(len, x) \in Seq(Word) /\ Len(Digits(len, x)) = len
           /\ Val(Digits(len, x)) = x % Weight(len)
           /\ x < Weight(len) => Val(Digits(len, x)) = x
<1> DEFINE v == Digits(len, x)
<1>1. ASSUME NEW i \in 1..len
      PROVE  v[i] = (x \div Weight(i - 1)) % W /\ v[i] \in Word
  <2>1. i - 1 \in Nat /\ W \in Nat \ {0}
    BY WordSizes
  <2>2. PICK m \in Nat \ {0} : m = Weight(i - 1)
    BY <2>1, Weights
  <2>3. x \div m \in Nat
    BY Divided
  <2>4. (x \div m) % W \in Nat /\ (x \div m) % W < W
    BY <2>1, <2>3, Divided
  <2>5. v[i] = (x \div m) % W
    BY <2>2 DEF Digits
  <2> QED BY <2>1, <2>2, <2>4, <2>5 DEF Word
<1>2. v = [i \in 1..len |-> v[i]]
  BY DEF Digits
<1> HIDE DEF v
<1>3. v \in Seq(Word) /\ Len(v) = len
  <2>1. v \in [1..len -> Word]
    BY <1>1, <1>2
  <2> QED BY <2>1, SeqDef, LenProperties
<1>4. IsUpto(Upto(v), v) /\ Val(v) = Upto(v)[len]
  BY <1>3, UptoBound, ValueUpto
<1> DEFINE T == {i \in 0..len : Upto(v)[i] # x % Weight(i)}
<1>5. T = {}
  <2> SUFFICES ASSUME T # {} PROVE FALSE
    OBVIOUS
  <2>1. PICK k \in T : \A j \in T : k <= j
    <3>1. T \in SUBSET Nat
      OBVIOUS
    <3> HIDE DEF T
    <3> QED BY <3>1, LeastOf
  <2>2. k # 0
    BY <1>4, Weights DEF IsUpto
  <2>3. k \in 1..len /\ k - 1 \in 0..len /\ k - 1 \notin T /\ k - 1 \in Nat
    BY <2>1, <2>2
  <2>4. Upto(v)[k - 1] = x % Weight(k - 1) /\ Upto(v)[k] = Upto(v)[k - 1] + v[k] * Weight(k - 1)
    BY <1>3, <1>4, <2>3 DEF IsUpto
  <2>5. PICK m \in Nat \ {0} : m = Weight(k - 1) /\ Weight(k) = W * m
    <3>1. (k - 1) + 1 = k
      BY <2>3
    <3> QED BY <2>3, <3>1, Weights
  <2>6. v[k] = (x \div m) % W
    BY <1>1, <2>3, <2>5
  <2>7. x % (W * m) = (x % m) + ((x \div m) % W) * m
    <3>1. W \in Nat \ {0}
      BY WordSizes
    <3> QED BY <3>1, OneMoreDigit
  <2>8. Upto(v)[k] = x % Weight(k)
    BY <2>4, <2>5, <2>6, <2>7
  <2> QED BY <2>1, <2>8
<1>6. Val(v) = x % Weight(len)
  BY <1>4, <1>5
<1>7. Weight(len) \in Nat \ {0}
  BY Weights
<1>8. x < Weight(len) => x % Weight(len) = x
  BY <1>7
<1> QED BY <1>3, <1>6, <1>8 DEF v

------------------------------------------------------------------------------
(* Addition and subtraction: one word *)

\* One word: nothing is lost of the sum, and the carry is 0 or 1.
LEMMA CarryRight ==
    ASSUME NEW l \in Word, NEW r \in Word, NEW c \in {0, 1}
    PROVE  /\ AddWord(l, r, c) \in Word /\ Carry(l, r, c) \in {0, 1}
           /\ l + r + c = AddWord(l, r, c) + W * Carry(l, r, c)
<1>1. PICK w \in Nat : w = W /\ w >= 2 /\ l \in 0..(w - 1) /\ r \in 0..(w - 1)
  BY WordSizes DEF Word
<1>2. CASE l + r + c < w
  <2>1. (l + r + c) % w = l + r + c
    BY <1>1, <1>2
  <2>2. AddWord(l, r, c) = l + r + c
    BY <1>1, <2>1 DEF AddWord
  <2>3. Carry(l, r, c) = 0
    BY <1>1, <2>2 DEF Carry
  <2> QED BY <1>1, <1>2, <2>2, <2>3 DEF Word
<1>3. CASE ~(l + r + c < w)
  <2>1. (l + r + c) % w = l + r + c - w
    BY <1>1, <1>3
  <2>2. AddWord(l, r, c) = l + r + c - w
    BY <1>1, <2>1 DEF AddWord
  <2>3. Carry(l, r, c) = 1
    BY <1>1, <1>3, <2>2 DEF Carry
  <2> QED BY <1>1, <1>3, <2>2, <2>3 DEF Word
<1> QED BY <1>2, <1>3

\* One word: nothing is lost of the difference, and the borrow is 0 or 1.
LEMMA BorrowRight ==
    ASSUME NEW l \in Word, NEW r \in Word, NEW c \in {0, 1}
    PROVE  /\ SubWord(l, r, c) \in Word /\ Borrow(l, r, c) \in {0, 1}
           /\ l + W * Borrow(l, r, c) = SubWord(l, r, c) + r + c
<1>1. PICK w \in Nat : w = W /\ w >= 2 /\ l \in 0..(w - 1) /\ r \in 0..(w - 1)
  BY WordSizes DEF Word
<1>2. CASE l - r - c >= 0
  <2>1. (l - r - c) % w = l - r - c
    BY <1>1, <1>2
  <2>2. SubWord(l, r, c) = l - r - c
    BY <1>1, <2>1 DEF SubWord
  <2>3. Borrow(l, r, c) = 0
    BY <1>1, <2>2 DEF Borrow
  <2> QED BY <1>1, <1>2, <2>2, <2>3 DEF Word
<1>3. CASE ~(l - r - c >= 0)
  <2>1. (l - r - c) % w = l - r - c + w
    BY <1>1, <1>3
  <2>2. SubWord(l, r, c) = l - r - c + w
    BY <1>1, <2>1 DEF SubWord
  <2>3. Borrow(l, r, c) = 1
    BY <1>1, <1>3, <2>2 DEF Borrow
  <2> QED BY <1>1, <1>3, <2>2, <2>3 DEF Word
<1> QED BY <1>2, <1>3

------------------------------------------------------------------------------
(* Addition and subtraction: all words *)

\* The words and carries of VliAdd, from the least significant word up.
LEMMA AddSteps ==
    ASSUME NEW left \in Seq(Word), NEW right \in Seq(Word), Len(left) = Len(right)
    PROVE  \E c \in [0..Len(left) -> {0, 1}], h \in Seq(Word) :
              /\ c[0] = 0 /\ Len(h) = Len(left)
              /\ \A i \in 1..Len(left) : /\ c[i] = Carry(left[i], right[i], c[i - 1])
                                         /\ h[i] = AddWord(left[i], right[i], c[i - 1])
              /\ VliAdd(left, right) = [words |-> h, carry |-> c[Len(left)]]
<1> DEFINE len == Len(left)
           step == [a \in (1..len) \X {0, 1} |-> Carry(left[a[1]], right[a[1]], a[2])]
<1>1. len \in Nat /\ \A i \in 1..len : left[i] \in Word /\ right[i] \in Word
  BY LenProperties, ElementOfSeq
<1>2. PICK c : Follows(c, {0, 1}, 0, step, len)
  <2>1. ASSUME NEW a \in (1..len) \X {0, 1} PROVE Carry(left[a[1]], right[a[1]], a[2]) \in {0, 1}
    <3>1. left[a[1]] \in Word /\ right[a[1]] \in Word /\ a[2] \in {0, 1}
      BY <1>1
    <3> QED BY <3>1, CarryRight
  <2>2. step \in [(1..len) \X {0, 1} -> {0, 1}] /\ 0 \in {0, 1}
    BY <2>1
  <2> HIDE DEF step, len
  <2> QED BY <1>1, <2>2, RecursionUpTo
<1>3. c \in [0..len -> {0, 1}] /\ c[0] = 0
  BY <1>2 DEF Follows
<1>4. ASSUME NEW i \in 1..len
      PROVE  c[i - 1] \in {0, 1} /\ c[i] = Carry(left[i], right[i], c[i - 1])
  <2>1. i - 1 \in 0..len
    BY <1>1
  <2>2. c[i - 1] \in {0, 1}
    BY <1>3, <2>1
  <2>3. c[i] = step[<<i, c[i - 1]>>]
    BY <1>2 DEF Follows
  <2> QED BY <2>2, <2>3
<1> DEFINE h == [i \in 1..len |-> AddWord(left[i], right[i], c[i - 1])]
<1>5. h \in Seq(Word) /\ Len(h) = len
  <2>1. \A i \in 1..len : AddWord(left[i], right[i], c[i - 1]) \in Word
    BY <1>1, <1>4, CarryRight
  <2>2. h \in [1..len -> Word]
    BY <2>1
  <2> HIDE DEF h
  <2> QED BY <1>1, <2>2, SeqDef, LenProperties
<1>6. \A i \in 1..len : h[i] = AddWord(left[i], right[i], c[i - 1])
  OBVIOUS
<1> HIDE DEF h, step
<1> DEFINE sum(i) == [words |-> SubSeq(h, 1, i), carry |-> c[i]]
           Next1(acc, i) == [words |-> Append(acc.words, AddWord(left[i], right[i], acc.carry)),
                             carry |-> Carry(left[i], right[i], acc.carry)]
           Eqn(f) == f = [i \in 0..Len(left) |->
                            IF i = 0 THEN [words |-> <<>>, carry |-> 0]
                            ELSE [words |-> Append(f[i - 1].words, AddWord(left[i], right[i], f[i - 1].carry)),
                                  carry |-> Carry(left[i], right[i], f[i - 1].carry)]]
<1>7. sum(0) = [words |-> <<>>, carry |-> 0]
  BY <1>3, <1>5, GrowByAppend
<1>8. ASSUME NEW i \in 1..len PROVE sum(i) = Next1(sum(i - 1), i)
  <2>1. Append(SubSeq(h, 1, i - 1), h[i]) = SubSeq(h, 1, i)
    BY <1>5, GrowByAppend
  <2> QED BY <1>4, <1>6, <2>1
<1> HIDE DEF sum
<1>9. ASSUME NEW g, Eqn(g) PROVE g[len] = sum(len)
  <2>1. /\ g[0] = [words |-> <<>>, carry |-> 0]
        /\ \A i \in 1..len : g[i] = Next1(g[i - 1], i)
    <3>1. 0 \in 0..len /\ \A i \in 1..len : i \in 0..len /\ i # 0
      BY <1>1
    <3> QED BY <1>9, <3>1
  <2> DEFINE T == {i \in 0..len : g[i] # sum(i)}
  <2>2. T = {}
    <3> SUFFICES ASSUME T # {} PROVE FALSE
      OBVIOUS
    <3>1. PICK k \in T : \A j \in T : k <= j
      <4>1. T \in SUBSET Nat
        BY <1>1
      <4> HIDE DEF T
      <4> QED BY <4>1, LeastOf
    <3>2. k # 0
      BY <1>7, <2>1
    <3>3. k \in 1..len /\ k - 1 \in 0..len /\ k - 1 \notin T
      BY <1>1, <3>1, <3>2
    <3>4. g[k - 1] = sum(k - 1)
      BY <3>3
    <3>5. g[k] = Next1(g[k - 1], k) /\ sum(k) = Next1(sum(k - 1), k)
      BY <1>8, <2>1, <3>3
    <3> QED BY <3>4, <3>5
  <2> QED BY <1>1, <2>2
<1>10. \E g : Eqn(g)
  <2> DEFINE g == [i \in 0..len |-> sum(i)]
  <2>1. \A i \in 0..len : g[i] = IF i = 0 THEN [words |-> <<>>, carry |-> 0] ELSE Next1(g[i - 1], i)
    <3>1. \A i \in 0..len : i = 0 \/ (i \in 1..len /\ i - 1 \in 0..len)
      BY <1>1
    <3>2. \A i \in 0..len : g[i] = sum(i)
      OBVIOUS
    <3> HIDE DEF g, Next1
    <3> QED BY <1>7, <1>8, <3>1, <3>2
  <2>2. g = [i \in 0..len |-> g[i]]
    OBVIOUS
  <2> HIDE DEF g
  <2>3. Eqn(g)
    BY <2>1, <2>2
  <2> HIDE DEF Eqn
  <2> QED BY <2>3
<1>11. VliAdd(left, right) = (CHOOSE g : Eqn(g))[Len(left)]
  BY Zenon DEF VliAdd
<1>12. VliAdd(left, right) = sum(len)
  <2> HIDE DEF Eqn
  <2>1. Eqn(CHOOSE g : Eqn(g))
    BY <1>10
  <2> QED BY <1>9, <1>11, <2>1
<1>13. sum(len) = [words |-> h, carry |-> c[len]]
  BY <1>5, GrowByAppend DEF sum
<1> QED BY <1>3, <1>4, <1>5, <1>6, <1>12, <1>13

\* The sum of two numbers of as many words, with the carry above them.
LEMMA AddExact ==
    ASSUME NEW left \in Seq(Word), NEW right \in Seq(Word), Len(left) = Len(right)
    PROVE  /\ VliAdd(left, right).words \in Seq(Word)
           /\ Len(VliAdd(left, right).words) = Len(left)
           /\ VliAdd(left, right).carry \in {0, 1}
           /\ Val(left) + Val(right) = Val(VliAdd(left, right).words)
                                         + VliAdd(left, right).carry * Weight(Len(left))
<1>1. PICK c \in [0..Len(left) -> {0, 1}], h \in Seq(Word) :
         /\ c[0] = 0 /\ Len(h) = Len(left)
         /\ \A i \in 1..Len(left) : /\ c[i] = Carry(left[i], right[i], c[i - 1])
                                    /\ h[i] = AddWord(left[i], right[i], c[i - 1])
         /\ VliAdd(left, right) = [words |-> h, carry |-> c[Len(left)]]
  BY AddSteps
<1>2. /\ Len(left) \in Nat
      /\ \A i \in 1..Len(left) : left[i] \in Word /\ right[i] \in Word /\ h[i] \in Word
  BY <1>1, LenProperties, ElementOfSeq
<1>3. /\ IsUpto(Upto(left), left) /\ Val(left) = Upto(left)[Len(left)]
      /\ IsUpto(Upto(right), right) /\ Val(right) = Upto(right)[Len(left)]
      /\ IsUpto(Upto(h), h) /\ Val(h) = Upto(h)[Len(left)]
  BY <1>1, UptoBound, ValueUpto
<1> DEFINE Holds(i) == Upto(left)[i] + Upto(right)[i] = Upto(h)[i] + c[i] * Weight(i)
           T == {i \in 0..Len(left) : ~Holds(i)}
<1>4. T = {}
  <2> SUFFICES ASSUME T # {} PROVE FALSE
    OBVIOUS
  <2>1. PICK k \in T : \A j \in T : k <= j
    <3>1. T \in SUBSET Nat
      BY <1>2
    <3> HIDE DEF T
    <3> QED BY <3>1, LeastOf
  <2>2. k # 0
    <3>1. Upto(left)[0] = 0 /\ Upto(right)[0] = 0 /\ Upto(h)[0] = 0
      BY <1>3 DEF IsUpto
    <3>2. Holds(0)
      BY <1>1, <3>1, Weights
    <3> QED BY <3>2
  <2>3. k \in 1..Len(left) /\ k - 1 \in 0..Len(left) /\ k - 1 \notin T /\ k - 1 \in Nat
    BY <1>2, <2>1, <2>2
  <2>4. PICK m \in Nat : m = Weight(k - 1) /\ Weight(k) = W * m
    <3>1. (k - 1) + 1 = k
      BY <2>3
    <3> QED BY <2>3, <3>1, Weights
  <2>5. PICK x \in Nat, y \in Nat, z \in Nat :
           /\ x = Upto(left)[k - 1] /\ y = Upto(right)[k - 1] /\ z = Upto(h)[k - 1]
           /\ Upto(left)[k] = x + left[k] * m /\ Upto(right)[k] = y + right[k] * m
           /\ Upto(h)[k] = z + h[k] * m
    BY <1>1, <2>3, <2>4, UptoStep, ZenonT(40)
  <2>6. x + y = z + c[k - 1] * m
    BY <2>3, <2>4, <2>5
  <2>7. c[k - 1] \in {0, 1}
    BY <1>1, <2>3
  <2>8. PICK cin \in Nat, cout \in Nat, l \in Nat, r \in Nat, d \in Nat, w \in Nat :
           /\ cin = c[k - 1] /\ cout = c[k] /\ l = left[k] /\ r = right[k] /\ d = h[k] /\ w = W
           /\ l + r + cin = d + w * cout
    <3>1. /\ left[k] \in Word /\ right[k] \in Word /\ h[k] \in Word
          /\ c[k] = Carry(left[k], right[k], c[k - 1]) /\ h[k] = AddWord(left[k], right[k], c[k - 1])
      BY <1>1, <1>2, <2>3
    <3>2. left[k] + right[k] + c[k - 1] = h[k] + W * c[k] /\ c[k] \in {0, 1}
      BY <2>7, <3>1, CarryRight
    <3>3. W \in Nat /\ Word \subseteq Nat
      BY WordSizes DEF Word
    <3> QED BY <2>7, <3>1, <3>2, <3>3, ZenonT(40)
  <2>9. (l + r + cin) * m = (d + w * cout) * m
    BY <2>8
  <2>10. l * m + r * m + cin * m = d * m + cout * (w * m)
    <3>1. (l + r + cin) * m = l * m + r * m + cin * m
      OBVIOUS
    <3>2. (d + w * cout) * m = d * m + cout * (w * m)
      OBVIOUS
    <3> QED BY <2>9, <3>1, <3>2
  <2>11. (x + l * m) + (y + r * m) = (z + d * m) + cout * (w * m)
    <3>1. l * m \in Nat /\ r * m \in Nat /\ d * m \in Nat /\ cin * m \in Nat /\ cout * (w * m) \in Nat
      OBVIOUS
    <3>2. x + y = z + cin * m
      BY <2>6, <2>8
    <3> HIDE DEF T
    <3> QED BY <2>10, <3>1, <3>2, SMTT(30)
  <2>12. Holds(k)
    BY <2>4, <2>5, <2>8, <2>11
  <2> QED BY <2>1, <2>12
<1>5. Holds(Len(left))
  BY <1>2, <1>4
<1>6. c[Len(left)] \in {0, 1}
  BY <1>1, <1>2
<1> HIDE DEF T
<1> QED BY <1>1, <1>3, <1>5, <1>6

\* The words and borrows of VliSub, from the least significant word up.
LEMMA SubSteps ==
    ASSUME NEW left \in Seq(Word), NEW right \in Seq(Word), Len(left) = Len(right)
    PROVE  \E c \in [0..Len(left) -> {0, 1}], h \in Seq(Word) :
              /\ c[0] = 0 /\ Len(h) = Len(left)
              /\ \A i \in 1..Len(left) : /\ c[i] = Borrow(left[i], right[i], c[i - 1])
                                         /\ h[i] = SubWord(left[i], right[i], c[i - 1])
              /\ VliSub(left, right) = [words |-> h, borrow |-> c[Len(left)]]
<1> DEFINE len == Len(left)
           step == [a \in (1..len) \X {0, 1} |-> Borrow(left[a[1]], right[a[1]], a[2])]
<1>1. len \in Nat /\ \A i \in 1..len : left[i] \in Word /\ right[i] \in Word
  BY LenProperties, ElementOfSeq
<1>2. PICK c : Follows(c, {0, 1}, 0, step, len)
  <2>1. ASSUME NEW a \in (1..len) \X {0, 1} PROVE Borrow(left[a[1]], right[a[1]], a[2]) \in {0, 1}
    <3>1. left[a[1]] \in Word /\ right[a[1]] \in Word /\ a[2] \in {0, 1}
      BY <1>1
    <3> QED BY <3>1, BorrowRight
  <2>2. step \in [(1..len) \X {0, 1} -> {0, 1}] /\ 0 \in {0, 1}
    BY <2>1
  <2> HIDE DEF step, len
  <2> QED BY <1>1, <2>2, RecursionUpTo
<1>3. c \in [0..len -> {0, 1}] /\ c[0] = 0
  BY <1>2 DEF Follows
<1>4. ASSUME NEW i \in 1..len
      PROVE  c[i - 1] \in {0, 1} /\ c[i] = Borrow(left[i], right[i], c[i - 1])
  <2>1. i - 1 \in 0..len
    BY <1>1
  <2>2. c[i - 1] \in {0, 1}
    BY <1>3, <2>1
  <2>3. c[i] = step[<<i, c[i - 1]>>]
    BY <1>2 DEF Follows
  <2> QED BY <2>2, <2>3
<1> DEFINE h == [i \in 1..len |-> SubWord(left[i], right[i], c[i - 1])]
<1>5. h \in Seq(Word) /\ Len(h) = len
  <2>1. \A i \in 1..len : SubWord(left[i], right[i], c[i - 1]) \in Word
    BY <1>1, <1>4, BorrowRight
  <2>2. h \in [1..len -> Word]
    BY <2>1
  <2> HIDE DEF h
  <2> QED BY <1>1, <2>2, SeqDef, LenProperties
<1>6. \A i \in 1..len : h[i] = SubWord(left[i], right[i], c[i - 1])
  OBVIOUS
<1> HIDE DEF h, step
<1> DEFINE diff(i) == [words |-> SubSeq(h, 1, i), borrow |-> c[i]]
           Next1(acc, i) == [words |-> Append(acc.words, SubWord(left[i], right[i], acc.borrow)),
                             borrow |-> Borrow(left[i], right[i], acc.borrow)]
           Eqn(f) == f = [i \in 0..Len(left) |->
                            IF i = 0 THEN [words |-> <<>>, borrow |-> 0]
                            ELSE [words |-> Append(f[i - 1].words, SubWord(left[i], right[i], f[i - 1].borrow)),
                                  borrow |-> Borrow(left[i], right[i], f[i - 1].borrow)]]
<1>7. diff(0) = [words |-> <<>>, borrow |-> 0]
  BY <1>3, <1>5, GrowByAppend
<1>8. ASSUME NEW i \in 1..len PROVE diff(i) = Next1(diff(i - 1), i)
  <2>1. Append(SubSeq(h, 1, i - 1), h[i]) = SubSeq(h, 1, i)
    BY <1>5, GrowByAppend
  <2> QED BY <1>4, <1>6, <2>1
<1> HIDE DEF diff
<1>9. ASSUME NEW g, Eqn(g) PROVE g[len] = diff(len)
  <2>1. /\ g[0] = [words |-> <<>>, borrow |-> 0]
        /\ \A i \in 1..len : g[i] = Next1(g[i - 1], i)
    <3>1. 0 \in 0..len /\ \A i \in 1..len : i \in 0..len /\ i # 0
      BY <1>1
    <3> QED BY <1>9, <3>1
  <2> DEFINE T == {i \in 0..len : g[i] # diff(i)}
  <2>2. T = {}
    <3> SUFFICES ASSUME T # {} PROVE FALSE
      OBVIOUS
    <3>1. PICK k \in T : \A j \in T : k <= j
      <4>1. T \in SUBSET Nat
        BY <1>1
      <4> HIDE DEF T
      <4> QED BY <4>1, LeastOf
    <3>2. k # 0
      BY <1>7, <2>1
    <3>3. k \in 1..len /\ k - 1 \in 0..len /\ k - 1 \notin T
      BY <1>1, <3>1, <3>2
    <3>4. g[k - 1] = diff(k - 1)
      BY <3>3
    <3>5. g[k] = Next1(g[k - 1], k) /\ diff(k) = Next1(diff(k - 1), k)
      BY <1>8, <2>1, <3>3
    <3> QED BY <3>4, <3>5
  <2> QED BY <1>1, <2>2
<1>10. \E g : Eqn(g)
  <2> DEFINE g == [i \in 0..len |-> diff(i)]
  <2>1. \A i \in 0..len : g[i] = IF i = 0 THEN [words |-> <<>>, borrow |-> 0] ELSE Next1(g[i - 1], i)
    <3>1. \A i \in 0..len : i = 0 \/ (i \in 1..len /\ i - 1 \in 0..len)
      BY <1>1
    <3>2. \A i \in 0..len : g[i] = diff(i)
      OBVIOUS
    <3> HIDE DEF g, Next1
    <3> QED BY <1>7, <1>8, <3>1, <3>2
  <2>2. g = [i \in 0..len |-> g[i]]
    OBVIOUS
  <2> HIDE DEF g
  <2>3. Eqn(g)
    BY <2>1, <2>2
  <2> HIDE DEF Eqn
  <2> QED BY <2>3
<1>11. VliSub(left, right) = (CHOOSE g : Eqn(g))[Len(left)]
  BY Zenon DEF VliSub
<1>12. VliSub(left, right) = diff(len)
  <2> HIDE DEF Eqn
  <2>1. Eqn(CHOOSE g : Eqn(g))
    BY <1>10
  <2> QED BY <1>9, <1>11, <2>1
<1>13. diff(len) = [words |-> h, borrow |-> c[len]]
  BY <1>5, GrowByAppend DEF diff
<1> QED BY <1>3, <1>4, <1>5, <1>6, <1>12, <1>13

\* The difference of two numbers of as many words, with the borrow above them.
LEMMA SubExact ==
    ASSUME NEW left \in Seq(Word), NEW right \in Seq(Word), Len(left) = Len(right)
    PROVE  /\ VliSub(left, right).words \in Seq(Word)
           /\ Len(VliSub(left, right).words) = Len(left)
           /\ VliSub(left, right).borrow \in {0, 1}
           /\ Val(left) + VliSub(left, right).borrow * Weight(Len(left))
                = Val(VliSub(left, right).words) + Val(right)
<1>1. PICK c \in [0..Len(left) -> {0, 1}], h \in Seq(Word) :
         /\ c[0] = 0 /\ Len(h) = Len(left)
         /\ \A i \in 1..Len(left) : /\ c[i] = Borrow(left[i], right[i], c[i - 1])
                                    /\ h[i] = SubWord(left[i], right[i], c[i - 1])
         /\ VliSub(left, right) = [words |-> h, borrow |-> c[Len(left)]]
  BY SubSteps
<1>2. /\ Len(left) \in Nat
      /\ \A i \in 1..Len(left) : left[i] \in Word /\ right[i] \in Word /\ h[i] \in Word
  BY <1>1, LenProperties, ElementOfSeq
<1>3. /\ IsUpto(Upto(left), left) /\ Val(left) = Upto(left)[Len(left)]
      /\ IsUpto(Upto(right), right) /\ Val(right) = Upto(right)[Len(left)]
      /\ IsUpto(Upto(h), h) /\ Val(h) = Upto(h)[Len(left)]
  BY <1>1, UptoBound, ValueUpto
<1> DEFINE Holds(i) == Upto(left)[i] + c[i] * Weight(i) = Upto(h)[i] + Upto(right)[i]
           T == {i \in 0..Len(left) : ~Holds(i)}
<1>4. T = {}
  <2> SUFFICES ASSUME T # {} PROVE FALSE
    OBVIOUS
  <2>1. PICK k \in T : \A j \in T : k <= j
    <3>1. T \in SUBSET Nat
      BY <1>2
    <3> HIDE DEF T
    <3> QED BY <3>1, LeastOf
  <2>2. k # 0
    <3>1. Upto(left)[0] = 0 /\ Upto(right)[0] = 0 /\ Upto(h)[0] = 0
      BY <1>3 DEF IsUpto
    <3>2. Holds(0)
      BY <1>1, <3>1, Weights
    <3> QED BY <3>2
  <2>3. k \in 1..Len(left) /\ k - 1 \in 0..Len(left) /\ k - 1 \notin T /\ k - 1 \in Nat
    BY <1>2, <2>1, <2>2
  <2>4. PICK m \in Nat : m = Weight(k - 1) /\ Weight(k) = W * m
    <3>1. (k - 1) + 1 = k
      BY <2>3
    <3> QED BY <2>3, <3>1, Weights, ZenonT(40)
  <2>5. PICK x \in Nat, y \in Nat, z \in Nat :
           /\ x = Upto(left)[k - 1] /\ y = Upto(right)[k - 1] /\ z = Upto(h)[k - 1]
           /\ Upto(left)[k] = x + left[k] * m /\ Upto(right)[k] = y + right[k] * m
           /\ Upto(h)[k] = z + h[k] * m
    BY <1>1, <2>3, <2>4, UptoStep, ZenonT(40)
  <2>6. x + c[k - 1] * m = z + y
    BY <2>3, <2>4, <2>5
  <2>7. c[k - 1] \in {0, 1}
    BY <1>1, <2>3
  <2>8. PICK cin \in Nat, cout \in Nat, l \in Nat, r \in Nat, d \in Nat, w \in Nat :
           /\ cin = c[k - 1] /\ cout = c[k] /\ l = left[k] /\ r = right[k] /\ d = h[k] /\ w = W
           /\ l + w * cout = d + r + cin
    <3>1. /\ left[k] \in Word /\ right[k] \in Word /\ h[k] \in Word
          /\ c[k] = Borrow(left[k], right[k], c[k - 1]) /\ h[k] = SubWord(left[k], right[k], c[k - 1])
      BY <1>1, <1>2, <2>3
    <3>2. left[k] + W * c[k] = h[k] + right[k] + c[k - 1] /\ c[k] \in {0, 1}
      BY <2>7, <3>1, BorrowRight
    <3>3. W \in Nat /\ Word \subseteq Nat
      BY WordSizes DEF Word
    <3> QED BY <2>7, <3>1, <3>2, <3>3, ZenonT(40)
  <2>9. (l + w * cout) * m = (d + r + cin) * m
    BY <2>8
  <2>10. l * m + cout * (w * m) = d * m + r * m + cin * m
    <3>1. (d + r + cin) * m = d * m + r * m + cin * m
      OBVIOUS
    <3>2. (l + w * cout) * m = l * m + cout * (w * m)
      OBVIOUS
    <3> QED BY <2>9, <3>1, <3>2
  <2>11. (x + l * m) + cout * (w * m) = (z + d * m) + (y + r * m)
    <3>1. l * m \in Nat /\ r * m \in Nat /\ d * m \in Nat /\ cin * m \in Nat /\ cout * (w * m) \in Nat
      OBVIOUS
    <3>2. x + cin * m = z + y
      BY <2>6, <2>8
    <3> HIDE DEF T
    <3> QED BY <2>10, <3>1, <3>2, SMTT(40)
  <2>12. Holds(k)
    BY <2>4, <2>5, <2>8, <2>11
  <2> QED BY <2>1, <2>12
<1>5. Holds(Len(left))
  BY <1>2, <1>4
<1>6. c[Len(left)] \in {0, 1}
  BY <1>1, <1>2
<1> HIDE DEF T
<1> QED BY <1>1, <1>3, <1>5, <1>6

------------------------------------------------------------------------------
(* Comparison *)

\* The greatest of some indices is one of them.
LEMMA MaxOf ==
    ASSUME NEW len \in Nat, NEW T \in SUBSET (1..len), T # {}
    PROVE  Max(T) \in T /\ \A y \in T : y <= Max(T)
<1> DEFINE Down == {d \in 0..len : len - d \in T}
<1>1. PICK d \in Down : \A c \in Down : d <= c
  <2>1. Down \in SUBSET Nat
    OBVIOUS
  <2>2. Down # {}
    <3>1. PICK y \in T : TRUE
      OBVIOUS
    <3>2. len - y \in 0..len /\ len - (len - y) = y
      BY <3>1
    <3> QED BY <3>1, <3>2
  <2> HIDE DEF Down
  <2> QED BY <2>1, <2>2, LeastOf
<1>2. len - d \in T
  BY <1>1
<1>3. \A y \in T : y <= len - d
  <2> SUFFICES ASSUME NEW y \in T PROVE y <= len - d
    OBVIOUS
  <2>1. len - y \in 0..len /\ len - (len - y) = y
    OBVIOUS
  <2>2. len - y \in Down
    BY <2>1
  <2>3. d <= len - y
    BY <1>1, <2>2
  <2> QED BY <2>1, <2>3
<1>4. \E x \in T : \A y \in T : x >= y
  BY <1>2, <1>3
<1>5. Max(T) \in T /\ \A y \in T : Max(T) >= y
  BY <1>4, Zenon DEF Max
<1>6. \A y \in T : y \in Int
  OBVIOUS
<1> QED BY <1>5, <1>6

\* The highest word that differs decides.
LEMMA HighestWord ==
    ASSUME NEW x \in Seq(Word), NEW y \in Seq(Word), Len(x) = Len(y),
           NEW t \in 1..Len(x), y[t] < x[t], \A i \in (t + 1)..Len(x) : x[i] = y[i]
    PROVE  Val(y) < Val(x)
<1>1. Len(x) \in Nat /\ \A i \in 1..Len(x) : x[i] \in Word /\ y[i] \in Word
  BY LenProperties, ElementOfSeq
<1>2. Val(x) = Upto(x)[Len(x)] /\ Val(y) = Upto(y)[Len(x)]
  BY UptoBound, ValueUpto
<1> DEFINE T == {i \in t..Len(x) : ~(Upto(y)[i] < Upto(x)[i])}
<1>3. T = {}
  <2> SUFFICES ASSUME T # {} PROVE FALSE
    OBVIOUS
  <2>1. PICK k \in T : \A j \in T : k <= j
    <3>1. T \in SUBSET Nat
      BY <1>1
    <3> HIDE DEF T
    <3> QED BY <3>1, LeastOf
  <2>2. k \in 1..Len(x) /\ k \in 1..Len(y) /\ k - 1 \in Nat /\ k - 1 \in 0..Len(x)
    BY <1>1
  <2>3. PICK m \in Nat : m = Weight(k - 1)
    BY <2>2, Weights
  <2>4. PICK p1 \in Nat, q1 \in Nat, c \in Nat, d \in Nat :
          /\ p1 = Upto(x)[k - 1] /\ q1 = Upto(y)[k - 1] /\ c = x[k] /\ d = y[k]
          /\ Upto(x)[k] = p1 + c * m /\ Upto(y)[k] = q1 + d * m
    <3>1. x[k] \in Nat /\ y[k] \in Nat
      BY <1>1, <2>2, WordSizes DEF Word
    <3>2. /\ Upto(x)[k - 1] \in Nat /\ Upto(y)[k - 1] \in Nat
          /\ Upto(x)[k] = Upto(x)[k - 1] + x[k] * Weight(k - 1)
          /\ Upto(y)[k] = Upto(y)[k - 1] + y[k] * Weight(k - 1)
      BY <2>2, UptoStep
    <3> QED BY <2>3, <3>1, <3>2
  <2>5. CASE k = t
    <3>1. q1 < m
      BY <2>2, <2>3, <2>4, UptoBound
    <3>2. d + 1 <= c
      BY <2>4, <2>5, SMTT(30)
    <3>3. (d + 1) * m <= c * m /\ c * m \in Nat
      BY <3>2, ProductsGrow
    <3>4. (d + 1) * m = d * m + m /\ d * m \in Nat
      OBVIOUS
    <3>5. q1 + d * m < p1 + c * m
      BY <3>1, <3>3, <3>4
    <3> QED BY <2>4, <3>5
  <2>6. CASE k # t
    <3>1. k - 1 \in t..Len(x) /\ k \in (t + 1)..Len(x) /\ k - 1 \notin T
      BY <2>1, <2>6
    <3>2. q1 < p1 /\ c = d
      BY <2>4, <3>1
    <3>3. c * m \in Nat
      OBVIOUS
    <3>4. q1 + c * m < p1 + c * m
      BY <3>2, <3>3
    <3> QED BY <2>4, <3>2, <3>4
  <2> QED BY <2>5, <2>6
<1>4. Len(x) \in t..Len(x)
  BY <1>1
<1> QED BY <1>2, <1>3, <1>4

\* vli_cmp compares the numbers.
LEMMA CmpExact ==
    ASSUME NEW left \in Seq(Word), NEW right \in Seq(Word), Len(left) = Len(right)
    PROVE  /\ VliCmp(left, right) \in {-1, 0, 1}
           /\ VliCmp(left, right) = 1 <=> Val(right) < Val(left)
           /\ VliCmp(left, right) = -1 <=> Val(left) < Val(right)
<1> DEFINE differ == {i \in DOMAIN left : left[i] # right[i]}
<1>1. /\ Len(left) \in Nat /\ DOMAIN left = 1..Len(left)
      /\ \A i \in 1..Len(left) : left[i] \in Word /\ right[i] \in Word
      /\ \A i \in 1..Len(left) : left[i] \in Int /\ right[i] \in Int
  <2>1. Word \subseteq Int
    BY DEF Word
  <2> QED BY <2>1, LenProperties, ElementOfSeq
<1>2. Val(left) \in Nat /\ Val(right) \in Nat
  BY UptoBound
<1>3. CASE differ = {}
  <2>1. left = right
    BY <1>1, <1>3, SeqEqual
  <2>2. VliCmp(left, right) = 0
    BY <1>3 DEF VliCmp
  <2> QED BY <1>2, <2>1, <2>2
<1>4. CASE differ # {}
  <2>1. PICK t : t = Max(differ)
    OBVIOUS
  <2>2. t \in differ /\ \A i \in differ : i <= t
    <3>1. differ \in SUBSET (1..Len(left))
      BY <1>1
    <3> HIDE DEF differ
    <3> QED BY <1>1, <1>4, <2>1, <3>1, MaxOf
  <2>3. t \in 1..Len(left) /\ left[t] # right[t] /\ left[t] \in Int /\ right[t] \in Int
    BY <1>1, <2>2
  <2>4. \A i \in (t + 1)..Len(left) : left[i] = right[i] /\ right[i] = left[i]
    <3> SUFFICES ASSUME NEW i \in (t + 1)..Len(left) PROVE left[i] = right[i]
      OBVIOUS
    <3>1. i \in DOMAIN left /\ ~(i <= t)
      BY <1>1, <2>3
    <3> QED BY <2>2, <3>1
  <2>5. VliCmp(left, right) = IF left[t] > right[t] THEN 1 ELSE -1
    BY <1>4, <2>1, Zenon DEF VliCmp
  <2>6. CASE right[t] < left[t]
    <3>1. Val(right) < Val(left)
      BY <2>3, <2>4, <2>6, HighestWord
    <3> QED BY <1>2, <2>3, <2>5, <2>6, <3>1
  <2>7. CASE left[t] < right[t]
    <3>1. t \in 1..Len(right) /\ \A i \in (t + 1)..Len(right) : right[i] = left[i]
      BY <2>3, <2>4
    <3>2. Val(left) < Val(right)
      BY <2>7, <3>1, HighestWord
    <3>3. ~(left[t] > right[t])
      BY <2>3, <2>7
    <3> QED BY <1>2, <2>5, <3>2, <3>3
  <2> QED BY <2>3, <2>6, <2>7
<1> QED BY <1>3, <1>4

------------------------------------------------------------------------------
(* Addition, subtraction and halving modulo mod *)

\* vli_modAdd adds modulo mod, the carry included.
LEMMA ModAddExact ==
    ASSUME NEW left \in Seq(Word), NEW right \in Seq(Word), NEW mod \in Seq(Word),
           Len(left) = Len(mod), Len(right) = Len(mod),
           Val(left) < Val(mod), Val(right) < Val(mod)
    PROVE  Val(VliModAdd(left, right, mod)) = (Val(left) + Val(right)) % Val(mod)
<1>1. PICK x \in Nat, y \in Nat, m \in Nat, top \in Nat :
        /\ x = Val(left) /\ y = Val(right) /\ m = Val(mod) /\ top = Weight(Len(mod))
        /\ x < m /\ y < m /\ m < top
  <2>1. Len(mod) \in Nat
    BY LenProperties
  <2>2. Weight(Len(mod)) \in Nat
    BY <2>1, Weights
  <2> QED BY <2>2, UptoBound
<1>2. PICK sum : sum = VliAdd(left, right)
  OBVIOUS
<1>3. /\ sum.words \in Seq(Word) /\ Len(sum.words) = Len(mod) /\ sum.carry \in {0, 1}
      /\ Val(left) + Val(right) = Val(sum.words) + sum.carry * Weight(Len(left))
  BY <1>2, AddExact
<1>4. PICK s \in Nat, c \in {0, 1} :
        /\ s = Val(sum.words) /\ c = sum.carry /\ s < top
        /\ (c = 0 /\ x + y = s) \/ (c = 1 /\ x + y = s + top)
  <2>1. Val(sum.words) \in Nat /\ Val(sum.words) < Weight(Len(mod))
    BY <1>3, UptoBound
  <2> QED BY <1>1, <1>3, <2>1
<1>5. PICK less : less = VliSub(sum.words, mod)
  OBVIOUS
<1>6. /\ less.words \in Seq(Word) /\ Len(less.words) = Len(mod) /\ less.borrow \in {0, 1}
      /\ Val(sum.words) + less.borrow * Weight(Len(mod)) = Val(less.words) + Val(mod)
  BY <1>3, <1>5, SubExact
<1>7. PICK d \in Nat, o \in {0, 1} :
        /\ d = Val(less.words) /\ o = less.borrow /\ d < top
        /\ (o = 0 /\ s = d + m) \/ (o = 1 /\ s + top = d + m)
  <2>1. Val(less.words) \in Nat /\ Val(less.words) < Weight(Len(mod))
    BY <1>6, UptoBound
  <2> QED BY <1>1, <1>4, <1>6, <2>1
<1>8. VliCmp(mod, sum.words) = 1 <=> s < m
  BY <1>1, <1>3, <1>4, CmpExact
<1>9. VliModAdd(left, right, mod) =
         IF sum.carry = 1 \/ VliCmp(mod, sum.words) # 1 THEN less.words ELSE sum.words
  BY <1>2, <1>5, Zenon DEF VliModAdd
<1>10. CASE c = 1 \/ ~(s < m)
  <2>1. Val(VliModAdd(left, right, mod)) = d
    BY <1>4, <1>7, <1>8, <1>9, <1>10
  <2>2. d = x + y - m
    <3>1. CASE c = 1
      <4>1. x + y = s + top
        BY <1>4, <3>1
      <4>2. s < m
        BY <1>1, <4>1
      <4>3. o = 1
        BY <1>7, <4>2
      <4>4. s + top = d + m
        BY <1>7, <4>3
      <4> QED BY <4>1, <4>4
    <3>2. CASE c = 0
      <4>1. x + y = s /\ ~(s < m)
        BY <1>4, <1>10, <3>2
      <4>2. o = 0
        BY <1>1, <1>7, <4>1
      <4> QED BY <1>7, <4>1, <4>2
    <3> QED BY <3>1, <3>2
  <2>3. (x + y) % m = x + y - m
    <3>1. m <= x + y /\ x + y < m + m
      BY <1>1, <2>2
    <3> QED BY <1>1, <3>1, RemainderNear
  <2> QED BY <1>1, <2>1, <2>2, <2>3
<1>11. CASE ~(c = 1 \/ ~(s < m))
  <2>1. Val(VliModAdd(left, right, mod)) = s
    BY <1>4, <1>8, <1>9, <1>11
  <2>2. x + y = s /\ s < m
    BY <1>4, <1>11
  <2>3. s % m = s
    BY <2>2
  <2> QED BY <1>1, <2>1, <2>2, <2>3
<1> QED BY <1>10, <1>11

\* vli_modSub subtracts modulo mod.
LEMMA ModSubExact ==
    ASSUME NEW left \in Seq(Word), NEW right \in Seq(Word), NEW mod \in Seq(Word),
           Len(left) = Len(mod), Len(right) = Len(mod),
           Val(left) < Val(mod), Val(right) < Val(mod)
    PROVE  Val(VliModSub(left, right, mod)) = (Val(left) - Val(right)) % Val(mod)
<1>1. PICK x \in Nat, y \in Nat, m \in Nat, top \in Nat :
        /\ x = Val(left) /\ y = Val(right) /\ m = Val(mod) /\ top = Weight(Len(mod))
        /\ x < m /\ y < m /\ m < top
  <2>1. Len(mod) \in Nat
    BY LenProperties
  <2>2. Weight(Len(mod)) \in Nat
    BY <2>1, Weights
  <2> QED BY <2>2, UptoBound
<1>2. PICK diff : diff = VliSub(left, right)
  OBVIOUS
<1>3. /\ diff.words \in Seq(Word) /\ Len(diff.words) = Len(mod) /\ diff.borrow \in {0, 1}
      /\ Val(left) + diff.borrow * Weight(Len(left)) = Val(diff.words) + Val(right)
  BY <1>2, SubExact
<1>4. PICK d \in Nat, o \in {0, 1} :
        /\ d = Val(diff.words) /\ o = diff.borrow /\ d < top
        /\ (o = 0 /\ x = d + y) \/ (o = 1 /\ x + top = d + y)
  <2>1. Val(diff.words) \in Nat /\ Val(diff.words) < Weight(Len(mod))
    BY <1>3, UptoBound
  <2> QED BY <1>1, <1>3, <2>1
<1>5. PICK sum : sum = VliAdd(diff.words, mod)
  OBVIOUS
<1>6. /\ sum.words \in Seq(Word) /\ Len(sum.words) = Len(mod) /\ sum.carry \in {0, 1}
      /\ Val(diff.words) + Val(mod) = Val(sum.words) + sum.carry * Weight(Len(mod))
  BY <1>3, <1>5, AddExact
<1>7. PICK s \in Nat, c \in {0, 1} :
        /\ s = Val(sum.words) /\ c = sum.carry /\ s < top
        /\ (c = 0 /\ d + m = s) \/ (c = 1 /\ d + m = s + top)
  <2>1. Val(sum.words) \in Nat /\ Val(sum.words) < Weight(Len(mod))
    BY <1>6, UptoBound
  <2> QED BY <1>1, <1>4, <1>6, <2>1
<1>8. VliModSub(left, right, mod) = IF diff.borrow = 1 THEN sum.words ELSE diff.words
  BY <1>2, <1>5, Zenon DEF VliModSub
<1>9. CASE o = 1
  <2>1. Val(VliModSub(left, right, mod)) = s
    BY <1>4, <1>7, <1>8, <1>9
  <2>2. x + top = d + y
    BY <1>4, <1>9
  <2>3. c = 1
    BY <1>1, <1>7, <2>2
  <2>4. s = x - y + m
    BY <1>7, <2>2, <2>3
  <2>5. x - y < 0
    BY <1>4, <2>2
  <2>6. (x - y) % m = x - y + m
    <3>1. -m <= x - y /\ x - y \in Int
      BY <1>1
    <3> QED BY <1>1, <2>5, <3>1, RemainderNear
  <2> QED BY <1>1, <2>1, <2>4, <2>6
<1>10. CASE o = 0
  <2>1. Val(VliModSub(left, right, mod)) = d
    BY <1>4, <1>8, <1>10
  <2>2. d = x - y /\ d < m
    BY <1>1, <1>4, <1>10
  <2>3. d % m = d
    BY <2>2
  <2> QED BY <1>1, <2>1, <2>2, <2>3
<1> QED BY <1>9, <1>10

------------------------------------------------------------------------------
(* The shift and the halves of words *)

HalfWord == W \div 2

\* The halves of a word, and where its lowest bit goes.
LEMMA HalfWords ==
    /\ HalfWord \in Nat \ {0} /\ W = 2 * HalfWord /\ W \in Nat
    /\ \A x \in Word : /\ x \div 2 \in Nat /\ x % 2 \in {0, 1} /\ x = 2 * (x \div 2) + (x % 2)
                       /\ x \div 2 < HalfWord
                       /\ (x * (W \div 2)) % W = (x % 2) * HalfWord
<1>1. HalfWord \in Nat \ {0} /\ W = 2 * HalfWord /\ W \in Nat
  BY WordSizes DEF HalfWord
<1>2. ASSUME NEW x \in Word
      PROVE  /\ x \div 2 \in Nat /\ x % 2 \in {0, 1} /\ x = 2 * (x \div 2) + (x % 2)
             /\ x \div 2 < HalfWord
             /\ (x * (W \div 2)) % W = (x % 2) * HalfWord
  <2>1. x \in Nat /\ x < W
    BY <1>1 DEF Word
  <2>2. x \div 2 \in Nat /\ x % 2 \in {0, 1} /\ x = 2 * (x \div 2) + (x % 2)
    BY <2>1
  <2>3. PICK q \in Nat, t \in {0, 1}, k \in Nat \ {0} :
          q = x \div 2 /\ t = x % 2 /\ k = HalfWord /\ x = 2 * q + t
    BY <1>1, <2>2
  <2>4. q < k
    BY <1>1, <2>1, <2>3
  <2>5. (x * k) % (2 * k) = t * k
    <3>1. x * k = q * (2 * k) + t * k
      <4>1. x * k = (2 * q) * k + t * k
        BY <2>3
      <4> QED BY <4>1
    <3>2. t * k \in Nat /\ t * k < 2 * k
      <4>1. t = 0 \/ t = 1
        OBVIOUS
      <4> QED BY <4>1
    <3>3. PICK z \in Nat, y \in Nat : z = t * k /\ y = 2 * k /\ z < y
      BY <3>2
    <3>4. (q * y + z) % y = z
      BY <3>3, Division
    <3>5. x * k = q * y + z
      BY <3>1, <3>3
    <3> QED BY <3>3, <3>4, <3>5
  <2>6. (x * (W \div 2)) % W = t * k
    BY <1>1, <2>3, <2>5 DEF HalfWord
  <2> QED BY <2>2, <2>3, <2>4, <2>6
<1> QED BY <1>1, <1>2

\* A shift divides by two, and the lowest bit is what is lost.
LEMMA Rshift1Exact ==
    ASSUME NEW v \in Seq(Word), Len(v) >= 1
    PROVE  /\ VliRshift1(v) \in Seq(Word) /\ Len(VliRshift1(v)) = Len(v)
           /\ v[1] % 2 \in {0, 1} /\ Val(v) = 2 * Val(VliRshift1(v)) + (v[1] % 2)
           /\ VliRshift1(v)[Len(v)] < HalfWord
<1> DEFINE len == Len(v)
           Bit(i) == IF i <= len THEN v[i] % 2 ELSE 0
           h == VliRshift1(v)
<1>1. len \in Nat /\ len >= 1 /\ \A i \in 1..len : v[i] \in Word
  BY LenProperties, ElementOfSeq
<1>2. ASSUME NEW i \in 1..len
      PROVE  /\ Bit(i) \in {0, 1} /\ Bit(i + 1) \in {0, 1}
             /\ h[i] = (v[i] \div 2) + Bit(i + 1) * HalfWord
             /\ v[i] = 2 * (v[i] \div 2) + Bit(i) /\ v[i] \div 2 \in Nat /\ v[i] \div 2 < HalfWord
             /\ h[i] \in Word
  <2>1. /\ v[i] \div 2 \in Nat /\ v[i] % 2 \in {0, 1} /\ v[i] = 2 * (v[i] \div 2) + (v[i] % 2)
        /\ v[i] \div 2 < HalfWord
    BY <1>1, HalfWords
  <2>2. Bit(i) = v[i] % 2
    BY <1>1
  <2>3. h[i] = (v[i] \div 2) + (IF i < len THEN (v[i + 1] * (W \div 2)) % W ELSE 0)
    BY <1>1 DEF VliRshift1
  <2>4. /\ Bit(i + 1) \in {0, 1}
        /\ (IF i < len THEN (v[i + 1] * (W \div 2)) % W ELSE 0) = Bit(i + 1) * HalfWord
    <3>1. CASE i < len
      <4>1. i + 1 \in 1..len /\ i + 1 <= len
        BY <1>1, <3>1
      <4>2. Bit(i + 1) = v[i + 1] % 2
        BY <4>1
      <4>3. v[i + 1] % 2 \in {0, 1} /\ (v[i + 1] * (W \div 2)) % W = (v[i + 1] % 2) * HalfWord
        BY <1>1, <4>1, HalfWords
      <4> QED BY <3>1, <4>2, <4>3
    <3>2. CASE ~(i < len)
      <4>1. Bit(i + 1) = 0
        BY <1>1, <3>2
      <4>2. 0 * HalfWord = 0
        BY HalfWords
      <4> QED BY <3>2, <4>1, <4>2
    <3> QED BY <3>1, <3>2
  <2>5. h[i] = (v[i] \div 2) + Bit(i + 1) * HalfWord
    BY <2>3, <2>4
  <2>6. h[i] \in Word
    <3>1. PICK q \in Nat, k \in Nat : q = v[i] \div 2 /\ k = HalfWord /\ q < k /\ W = 2 * k
      BY <2>1, HalfWords
    <3>2. CASE Bit(i + 1) = 0
      <4>1. h[i] = q
        BY <2>5, <3>1, <3>2
      <4> QED BY <3>1, <4>1 DEF Word
    <3>3. CASE Bit(i + 1) = 1
      <4>1. h[i] = q + k
        BY <2>5, <3>1, <3>3
      <4> QED BY <3>1, <4>1 DEF Word
    <3> QED BY <2>4, <3>2, <3>3
  <2> QED BY <2>1, <2>2, <2>4, <2>5, <2>6
<1>3. h = [i \in 1..len |-> h[i]]
  BY DEF VliRshift1
<1>4. len + 1 \in Nat /\ Bit(len + 1) = 0 /\ Bit(1) = v[1] % 2
  BY <1>1
<1> HIDE DEF h, Bit
<1>5. h \in Seq(Word) /\ Len(h) = len
  <2>1. h \in [1..len -> Word]
    BY <1>2, <1>3
  <2> QED BY <1>1, <2>1, SeqDef, LenProperties
<1>6. /\ IsUpto(Upto(v), v) /\ Val(v) = Upto(v)[len]
      /\ IsUpto(Upto(h), h) /\ Val(h) = Upto(h)[len]
  BY <1>5, UptoBound, ValueUpto
<1> DEFINE Holds(i) == 2 * Upto(h)[i] + Bit(1) = Upto(v)[i] + Bit(i + 1) * Weight(i)
           T == {i \in 0..len : ~Holds(i)}
<1>7. Bit(1) \in {0, 1}
  <2>1. 1 \in 1..len
    BY <1>1
  <2> QED BY <1>2, <2>1
<1>8. T = {}
  <2> SUFFICES ASSUME T # {} PROVE FALSE
    OBVIOUS
  <2>1. PICK k \in T : \A j \in T : k <= j
    <3>1. T \in SUBSET Nat
      BY <1>1
    <3> HIDE DEF T
    <3> QED BY <3>1, LeastOf
  <2>2. k # 0
    <3>1. Upto(v)[0] = 0 /\ Upto(h)[0] = 0
      BY <1>6 DEF IsUpto
    <3>2. 0 + 1 = 1 /\ Bit(1) * 1 = Bit(1) /\ 2 * 0 + Bit(1) = 0 + Bit(1)
      BY <1>7
    <3>3. Holds(0)
      BY <3>1, <3>2, Weights
    <3> QED BY <3>3
  <2>3. k \in 1..len /\ k \in 1..Len(h) /\ k - 1 \in 0..len /\ k - 1 \notin T /\ k - 1 \in Nat /\ (k - 1) + 1 = k
    BY <1>1, <1>5, <2>1, <2>2
  <2>4. PICK m \in Nat : m = Weight(k - 1) /\ Weight(k) = W * m
    BY <2>3, Weights, ZenonT(40)
  <2>5. /\ Upto(v)[k - 1] \in Nat /\ Upto(v)[k] = Upto(v)[k - 1] + v[k] * m
        /\ Upto(h)[k - 1] \in Nat /\ Upto(h)[k] = Upto(h)[k - 1] + h[k] * m
    BY <1>5, <2>3, <2>4, UptoStep
  <2>6. PICK q \in Nat, t \in Nat, u \in Nat, half \in Nat, x \in Nat, y \in Nat, z \in Nat :
           /\ q = v[k] \div 2 /\ t = Bit(k) /\ u = Bit(k + 1) /\ half = HalfWord /\ z = Bit(1)
           /\ x = Upto(v)[k - 1] /\ y = Upto(h)[k - 1]
           /\ v[k] = 2 * q + t /\ h[k] = q + u * half
    <3>1. /\ v[k] \div 2 \in Nat /\ Bit(k) \in {0, 1} /\ Bit(k + 1) \in {0, 1}
          /\ v[k] = 2 * (v[k] \div 2) + Bit(k) /\ h[k] = (v[k] \div 2) + Bit(k + 1) * HalfWord
      BY <1>2, <2>3
    <3>2. HalfWord \in Nat
      BY HalfWords
    <3>3. Upto(v)[k - 1] \in Nat /\ Upto(h)[k - 1] \in Nat
      BY <2>5
    <3>4. Bit(k) \in Nat /\ Bit(k + 1) \in Nat /\ Bit(1) \in Nat
      <4>1. \A o \in {0, 1} : o \in Nat
        OBVIOUS
      <4> QED BY <1>7, <3>1, <4>1
    <3> DEFINE q == v[k] \div 2
    <3>5. q \in Nat /\ v[k] = 2 * q + Bit(k) /\ h[k] = q + Bit(k + 1) * HalfWord
      BY <3>1
    <3> HIDE DEF q
    <3> QED BY <3>2, <3>3, <3>4, <3>5 DEF q
  <2>7. 2 * y + z = x + t * m
    <3>1. Holds(k - 1)
      BY <2>3
    <3>2. 2 * Upto(h)[k - 1] + Bit(1) = Upto(v)[k - 1] + Bit(k) * Weight(k - 1)
      BY <2>3, <3>1
    <3> QED BY <2>4, <2>6, <3>2
  <2>8. 2 * (y + (q + u * half) * m) + z = x + (2 * q + t) * m + u * ((2 * half) * m)
    <3>1. (q + u * half) * m = q * m + (u * half) * m
      OBVIOUS
    <3>2. (2 * q + t) * m = 2 * (q * m) + t * m
      OBVIOUS
    <3>3. u * ((2 * half) * m) = 2 * ((u * half) * m)
      OBVIOUS
    <3>4. q * m \in Nat /\ (u * half) * m \in Nat /\ t * m \in Nat
      OBVIOUS
    <3> QED BY <2>7, <3>1, <3>2, <3>3, <3>4
  <2>9. W = 2 * half
    BY <2>6, HalfWords
  <2>10. Holds(k)
    BY <2>4, <2>5, <2>6, <2>8, <2>9
  <2> QED BY <2>1, <2>10
<1>9. 2 * Val(h) + Bit(1) = Val(v)
  <2>1. Holds(len)
    BY <1>1, <1>8
  <2>2. Weight(len) \in Nat /\ Val(v) \in Nat
    BY <1>1, Weights, UptoBound
  <2> QED BY <1>4, <1>6, <2>1, <2>2
<1>10. h[len] < HalfWord
  <2>1. len \in 1..len
    BY <1>1
  <2>2. h[len] = (v[len] \div 2) + 0 * HalfWord /\ v[len] \div 2 < HalfWord /\ v[len] \div 2 \in Nat
    BY <1>2, <1>4, <2>1
  <2>3. 0 * HalfWord = 0
    BY HalfWords
  <2> QED BY <2>2, <2>3
<1> QED BY <1>4, <1>5, <1>7, <1>9, <1>10 DEF h

------------------------------------------------------------------------------
(* Halving modulo mod *)

\* Sequences that agree on their first t words have the same value up to there.
LEMMA SamePrefix ==
    ASSUME NEW v \in Seq(Word), NEW u \in Seq(Word), NEW t \in Nat, t <= Len(v), t <= Len(u),
           \A i \in 1..t : v[i] = u[i]
    PROVE  Upto(v)[t] = Upto(u)[t]
<1> DEFINE T == {i \in 0..t : Upto(v)[i] # Upto(u)[i]}
<1>1. Len(v) \in Nat /\ Len(u) \in Nat
  BY LenProperties
<1>2. IsUpto(Upto(v), v) /\ IsUpto(Upto(u), u)
  BY UptoBound, ValueUpto
<1> SUFFICES ASSUME T # {} PROVE FALSE
  BY <1>1
<1>3. PICK k \in T : \A j \in T : k <= j
  <2>1. T \in SUBSET Nat
    OBVIOUS
  <2> HIDE DEF T
  <2> QED BY <2>1, LeastOf
<1>4. k # 0
  BY <1>2, <1>3 DEF IsUpto
<1>5. /\ k \in 1..t /\ k \in 1..Len(v) /\ k \in 1..Len(u) /\ k - 1 \in 0..t /\ k - 1 \notin T
  BY <1>1, <1>3, <1>4
<1>6. /\ Upto(v)[k] = Upto(v)[k - 1] + v[k] * Weight(k - 1)
      /\ Upto(u)[k] = Upto(u)[k - 1] + u[k] * Weight(k - 1)
  BY <1>5, UptoStep
<1>7. Upto(v)[k - 1] = Upto(u)[k - 1] /\ v[k] = u[k]
  BY <1>5
<1> QED BY <1>3, <1>6, <1>7

\* HIGH_BIT_SET adds half the weight of the last word, if the bit was clear.
LEMMA HighBitExact ==
    ASSUME NEW v \in Seq(Word), Len(v) >= 1, v[Len(v)] < HalfWord
    PROVE  /\ SetHighBit(v) \in Seq(Word) /\ Len(SetHighBit(v)) = Len(v)
           /\ Val(SetHighBit(v)) = Val(v) + HalfWord * Weight(Len(v) - 1)
<1> DEFINE len == Len(v)
           h == SetHighBit(v)
<1>1. len \in Nat /\ len >= 1 /\ len \in 1..len /\ \A i \in 1..len : v[i] \in Word
  BY LenProperties, ElementOfSeq
<1>2. v = [i \in 1..len |-> v[i]] /\ DOMAIN v = 1..len
  BY LenProperties
<1>3. h[len] = v[len] + HalfWord /\ h[len] \in Word
  <2>1. h[len] = (v[len] % (W \div 2)) + (W \div 2)
    BY <1>1, <1>2 DEF SetHighBit
  <2>2. PICK x \in Nat, k \in Nat \ {0} : x = v[len] /\ k = HalfWord /\ x < k /\ W = 2 * k
    BY <1>1, HalfWords DEF Word
  <2>3. x % k = x
    BY <2>2
  <2>4. h[len] = x + k
    BY <2>1, <2>2, <2>3 DEF HalfWord
  <2> QED BY <2>2, <2>4 DEF Word
<1>4. \A i \in 1..(len - 1) : h[i] = v[i]
  BY <1>1, <1>2 DEF SetHighBit
<1>5. h \in Seq(Word) /\ Len(h) = len
  <2>1. h = [i \in 1..len |-> h[i]]
    BY <1>2 DEF SetHighBit
  <2>2. \A i \in 1..len : h[i] \in Word
    BY <1>1, <1>3, <1>4
  <2> HIDE DEF h
  <2>3. h \in [1..len -> Word]
    BY <2>1, <2>2
  <2> QED BY <1>1, <2>3, SeqDef, LenProperties
<1> HIDE DEF h
<1>6. Upto(h)[len - 1] = Upto(v)[len - 1]
  <2>1. len - 1 \in Nat /\ len - 1 <= Len(v) /\ len - 1 <= Len(h)
    BY <1>1, <1>5
  <2> QED BY <1>4, <1>5, <2>1, SamePrefix
<1>7. /\ Val(h) = Upto(h)[len] /\ Val(v) = Upto(v)[len]
  BY <1>5, UptoBound, ValueUpto
<1>8. /\ Upto(h)[len] = Upto(h)[len - 1] + h[len] * Weight(len - 1)
      /\ Upto(v)[len] = Upto(v)[len - 1] + v[len] * Weight(len - 1)
      /\ Upto(v)[len - 1] \in Nat
  BY <1>1, <1>5, UptoStep
<1>9. PICK x \in Nat, k \in Nat, m \in Nat : x = v[len] /\ k = HalfWord /\ m = Weight(len - 1)
  <2>1. len - 1 \in Nat /\ v[len] \in Nat
    BY <1>1 DEF Word
  <2> QED BY <2>1, HalfWords, Weights
<1>10. (x + k) * m = x * m + k * m /\ x * m \in Nat /\ k * m \in Nat
  BY <1>9
<1>11. Val(h) = Val(v) + k * m
  <2>1. PICK a \in Nat : a = Upto(v)[len - 1]
    BY <1>8
  <2>2. Val(v) = a + x * m
    BY <1>7, <1>8, <1>9, <2>1
  <2>3. Val(h) = a + (x + k) * m
    BY <1>3, <1>6, <1>7, <1>8, <1>9, <2>1
  <2>4. Val(h) = a + (x * m + k * m)
    BY <1>10, <2>3
  <2> QED BY <1>10, <2>1, <2>2, <2>4
<1> QED BY <1>5, <1>9, <1>11 DEF h

\* vli_modInv_update halves a number modulo an odd one.
LEMMA HalvedExact ==
    ASSUME NEW uv \in Seq(Word), NEW mod \in Seq(Word), Len(uv) = Len(mod), Len(mod) >= 1,
           Val(mod) % 2 = 1
    PROVE  /\ Halved(uv, mod) \in Seq(Word) /\ Len(Halved(uv, mod)) = Len(uv)
           /\ Val(Halved(uv, mod)) = IF Val(uv) % 2 = 1 THEN (Val(uv) + Val(mod)) \div 2
                                     ELSE Val(uv) \div 2
<1>1. PICK x \in Nat, m \in Nat : x = Val(uv) /\ m = Val(mod) /\ (m % 2) = 1
  BY UptoBound
<1>2. /\ VliRshift1(uv) \in Seq(Word) /\ Len(VliRshift1(uv)) = Len(uv)
      /\ uv[1] % 2 \in {0, 1} /\ x = 2 * Val(VliRshift1(uv)) + (uv[1] % 2)
  BY <1>1, Rshift1Exact
<1>3. PICK q \in Nat : q = Val(VliRshift1(uv))
  BY <1>2, UptoBound
<1>4. CASE uv[1] % 2 = 0
  <2>1. Halved(uv, mod) = VliRshift1(uv)
    BY <1>4 DEF Halved, VliEven
  <2>2. x = 2 * q + 0
    BY <1>2, <1>3, <1>4
  <2>3. x % 2 = 0 /\ x \div 2 = q
    BY <2>2
  <2> QED BY <1>1, <1>2, <1>3, <2>1, <2>3
<1>5. CASE uv[1] % 2 = 1
  <2>1. x = 2 * q + 1
    BY <1>2, <1>3, <1>5
  <2>2. x % 2 = 1
    BY <2>1
  <2> DEFINE sum == VliAdd(uv, mod)
             half == VliRshift1(sum.words)
             len == Len(uv)
  <2>3. /\ sum.words \in Seq(Word) /\ Len(sum.words) = len /\ sum.carry \in {0, 1}
        /\ x + m = Val(sum.words) + sum.carry * Weight(len)
    BY <1>1, AddExact
  <2>4. Halved(uv, mod) = IF sum.carry = 1 THEN SetHighBit(half) ELSE half
    BY <1>5 DEF Halved, VliEven
  <2> HIDE DEF sum
  <2>5. /\ half \in Seq(Word) /\ Len(half) = len
        /\ sum.words[1] % 2 \in {0, 1} /\ Val(sum.words) = 2 * Val(half) + (sum.words[1] % 2)
        /\ half[len] < HalfWord
    BY <2>3, Rshift1Exact
  <2> HIDE DEF half
  <2>6. PICK t \in Nat, y \in Nat, z \in Nat : t = sum.words[1] % 2 /\ y = Val(half) /\ z = Val(sum.words)
          /\ (t = 0 \/ t = 1) /\ z = 2 * y + t
    <3>1. \A o \in {0, 1} : o \in Nat /\ (o = 0 \/ o = 1)
      OBVIOUS
    <3> QED BY <2>3, <2>5, <3>1, UptoBound
  <2>7. PICK r \in Nat : m = 2 * r + 1
    BY <1>1
  <2>8. CASE sum.carry = 0
    <3>1. 0 * Weight(len) = 0
      BY LenProperties, Weights
    <3>2. x + m = z
      BY <2>3, <2>6, <2>8, <3>1
    <3>3. (x + m) \div 2 = y
      BY <2>1, <2>6, <2>7, <3>2
    <3>4. Halved(uv, mod) = half
      BY <2>4, <2>8
    <3> QED BY <1>1, <2>2, <2>5, <2>6, <3>3, <3>4
  <2>9. CASE sum.carry = 1
    <3>1. PICK k \in Nat, w \in Nat : k = HalfWord /\ w = Weight(len - 1)
                                       /\ Weight(len) = (2 * k) * w
      <4>1. len - 1 \in Nat /\ (len - 1) + 1 = len
        BY LenProperties
      <4>2. Weight(len - 1) \in Nat /\ Weight(len) = W * Weight(len - 1)
        BY <4>1, Weights
      <4> QED BY <4>2, HalfWords
    <3>2. (2 * k) * w = 2 * (k * w) /\ k * w \in Nat /\ 1 * Weight(len) = Weight(len)
      BY <3>1
    <3>3. x + m = (2 * y + t) + 2 * (k * w)
      BY <2>3, <2>6, <2>9, <3>1, <3>2
    <3>4. PICK d \in Nat : d = k * w
      BY <3>2
    <3>5. (x + m) \div 2 = y + d
      <4>1. x + m = (2 * y + t) + 2 * d
        BY <3>3, <3>4
      <4>2. t = 0 \/ t = 1
        BY <2>6
      <4>3. x + m = 2 * (q + r + 1)
        BY <2>1, <2>7
      <4>4. t = 0
        BY <4>1, <4>2, <4>3
      <4>5. x + m = 2 * (y + d) /\ y + d \in Nat
        BY <4>1, <4>4
      <4>6. PICK o \in Nat : o = y + d /\ x + m = 2 * o
        BY <4>5
      <4> QED BY <4>6
    <3>6. /\ Halved(uv, mod) = SetHighBit(half) /\ Val(SetHighBit(half)) = y + d
          /\ SetHighBit(half) \in Seq(Word) /\ Len(SetHighBit(half)) = len
      BY <2>4, <2>5, <2>6, <2>9, <3>1, <3>4, HighBitExact
    <3> QED BY <1>1, <2>2, <3>5, <3>6
  <2> QED BY <2>3, <2>8, <2>9
<1> QED BY <1>2, <1>4, <1>5

------------------------------------------------------------------------------
(* Multiplication: one column *)

\* The accumulator of vli_mult: three words.
Triple   == Word \X Word \X Word
Total(r) == r[1] + W * r[2] + (W * W) * r[3]

\* muladd leaves three words.
LEMMA MulAddWords ==
    ASSUME NEW r \in Triple, NEW x \in Word, NEW y \in Word
    PROVE  MulAdd(r, x, y) \in Triple
<1> DEFINE r01 == (r[2] * W + r[1] + x * y) % (W * W)
<1>1. PICK w \in Nat \ {0}, s \in Nat, c \in Nat :
        /\ w = W /\ s = r[2] * W + r[1] + x * y /\ c = r[3]
  <2>1. r[1] \in Nat /\ r[2] \in Nat /\ r[3] \in Nat /\ x \in Nat /\ y \in Nat /\ W \in Nat /\ W # 0
    BY WordSizes DEF Triple, Word
  <2>2. r[2] * W \in Nat /\ x * y \in Nat
    BY <2>1
  <2> DEFINE s == r[2] * W + r[1] + x * y
  <2>3. s \in Nat
    BY <2>1, <2>2
  <2> HIDE DEF s
  <2> QED BY <2>1, <2>3 DEF s
<1>2. w * w \in Nat \ {0}
  BY <1>1
<1>3. r01 = s % (w * w) /\ r01 \in Nat /\ r01 < w * w
  <2>1. PICK m \in Nat \ {0} : m = w * w
    BY <1>2
  <2>2. r01 = s % m
    BY <1>1, <2>1
  <2> QED BY <2>1, <2>2, Divided
<1> DEFINE c1 == r[3] + (IF r01 < x * y THEN 1 ELSE 0)
<1>4. MulAdd(r, x, y) = <<r01 % W, r01 \div W, c1 % W>>
  BY DEF MulAdd
<1>5. c1 \in Nat
  BY <1>1
<1> HIDE DEF r01, c1
<1>6. r01 % W \in Word /\ c1 % W \in Word
  BY <1>1, <1>3, <1>5, Divided DEF Word
<1>7. r01 \div W \in Word
  <2>1. r01 \div w \in Nat /\ r01 % w \in Nat /\ r01 = (r01 \div w) * w + (r01 % w)
    BY <1>1, <1>3, Divided
  <2>2. PICK q \in Nat, z \in Nat : q = r01 \div w /\ z = r01 % w /\ q * w + z < w * w
    BY <1>3, <2>1
  <2>3. q < w
    <3> SUFFICES ASSUME w <= q PROVE FALSE
      BY <2>2
    <3>1. w * w <= q * w
      BY <1>1, <2>2, ProductsGrow
    <3>2. q * w \in Nat /\ w * w \in Nat
      BY <1>1, <2>2
    <3> QED BY <2>2, <3>1, <3>2
  <2> QED BY <1>1, <2>2, <2>3 DEF Word
<1> QED BY <1>4, <1>6, <1>7 DEF Triple

\* muladd loses nothing as long as the sum fits in three words.
LEMMA MulAddExact ==
    ASSUME NEW r \in Triple, NEW x \in Word, NEW y \in Word,
           Total(r) + x * y < W * (W * W)
    PROVE  Total(MulAdd(r, x, y)) = Total(r) + x * y
<1> DEFINE r01 == (r[2] * W + r[1] + x * y) % (W * W)
           c1 == r[3] + (IF r01 < x * y THEN 1 ELSE 0)
<1>1. PICK w \in Nat \ {0}, lo \in Nat, mid \in Nat, hi \in Nat, l \in Nat, u \in Nat :
        /\ w = W /\ lo = r[1] /\ mid = r[2] /\ hi = r[3] /\ l = x /\ u = y
        /\ lo < w /\ mid < w /\ hi < w /\ l < w /\ u < w
  BY WordSizes DEF Triple, Word
<1>2. PICK z \in Nat, m \in Nat \ {0}, s \in Nat :
        z = l * u /\ m = w * w /\ s = mid * w + lo /\ z < m /\ s < m
  <2>1. l * u \in Nat /\ w * w \in Nat \ {0} /\ mid * w + lo \in Nat
    BY <1>1
  <2>2. l * u < w * w
    <3>1. l * u <= w * u
      BY <1>1, ProductsGrow
    <3>2. w * u = u * w /\ (u + 1) * w = u * w + w
      BY <1>1
    <3>3. (u + 1) * w <= w * w
      <4>1. u + 1 \in Nat /\ u + 1 <= w
        BY <1>1
      <4> QED BY <1>1, <4>1, ProductsGrow
    <3>4. PICK v1 \in Nat, v2 \in Nat, v3 \in Nat : v1 = l * u /\ v2 = u * w /\ v3 = w * w
      BY <1>1
    <3>5. v1 <= v2 /\ v2 + w <= v3
      BY <3>1, <3>2, <3>3, <3>4
    <3> QED BY <1>1, <3>4, <3>5
  <2>3. mid * w + lo < w * w
    <3>1. (mid + 1) * w <= w * w
      <4>1. mid + 1 \in Nat /\ mid + 1 <= w
        BY <1>1
      <4> QED BY <1>1, <4>1, ProductsGrow
    <3>2. (mid + 1) * w = mid * w + w
      BY <1>1
    <3>3. PICK v1 \in Nat, v2 \in Nat : v1 = mid * w /\ v2 = w * w
      BY <1>1
    <3> QED BY <1>1, <3>1, <3>2, <3>3
  <2> QED BY <2>1, <2>2, <2>3
<1>3. r01 = (s + z) % m /\ x * y = z
  BY <1>1, <1>2
<1>4. Total(r) = s + m * hi
  <2>1. Total(r) = lo + w * mid + m * hi
    BY <1>1, <1>2 DEF Total
  <2>2. w * mid = mid * w /\ mid * w \in Nat /\ m * hi \in Nat
    BY <1>1, <1>2
  <2> QED BY <1>1, <1>2, <2>1, <2>2
<1>5. PICK d \in {0, 1} : /\ s + z = r01 + m * d /\ r01 \in Nat /\ r01 < m
                          /\ d = IF r01 < z THEN 1 ELSE 0
  <2> HIDE DEF r01
  <2>0. PICK o \in Nat : o = s + z /\ r01 = o % m
    BY <1>2, <1>3
  <2>1. CASE s + z < m
    <3>1. r01 = s + z
      BY <2>0, <2>1
    <3>2. s + z = r01 + m * 0 /\ ~(r01 < z)
      BY <1>2, <3>1
    <3> QED BY <1>2, <2>1, <3>1, <3>2
  <2>2. CASE ~(s + z < m)
    <3>1. r01 = s + z - m
      <4>1. m <= o /\ o < m + m
        BY <1>2, <2>0, <2>2
      <4>2. PICK v \in Nat : v = o - m /\ v < m
        BY <4>1
      <4>3. (1 * m + v) % m = v /\ 1 * m + v = o
        BY <4>2, Division
      <4>4. o % m = o - m
        BY <4>2, <4>3
      <4> QED BY <2>0, <4>4
    <3>2. s + z = r01 + m * 1 /\ r01 < z /\ r01 \in Nat /\ r01 < m
      BY <1>2, <2>2, <3>1
    <3> QED BY <3>2
  <2> QED BY <2>1, <2>2
<1>6. c1 = hi + d
  BY <1>1, <1>3, <1>5
<1>7. MulAdd(r, x, y) = <<r01 % W, r01 \div W, c1 % W>>
  BY DEF MulAdd
<1> HIDE DEF r01, c1
<1>8. m * (hi + d) = m * hi + m * d /\ m * hi \in Nat /\ m * d \in Nat /\ hi + d \in Nat
  <2>1. d \in Nat
    BY <1>5
  <2> QED BY <1>1, <1>2, <2>1, SMTT(30)
<1>9. Total(r) + x * y = r01 + m * (hi + d)
  BY <1>2, <1>3, <1>4, <1>5, <1>8
<1>10. hi + d < w
  <2> SUFFICES ASSUME w <= hi + d PROVE FALSE
    BY <1>1, <1>8
  <2>1. w * m <= (hi + d) * m
    BY <1>1, <1>2, <1>8, ProductsGrow
  <2>2. (hi + d) * m = m * (hi + d) /\ w * m = W * (W * W) /\ w * m \in Nat
    BY <1>1, <1>2, <1>8
  <2>3. r01 + m * (hi + d) < W * (W * W)
    BY <1>9
  <2> QED BY <1>5, <1>8, <2>1, <2>2, <2>3
<1>11. c1 % W = hi + d
  <2>1. PICK o \in Nat : o = hi + d /\ o < w
    BY <1>8, <1>10
  <2>2. (0 * w + o) % w = o /\ 0 * w + o = o
    BY <2>1, Division
  <2> QED BY <1>1, <1>6, <2>1, <2>2
<1>12. r01 \div w \in Nat /\ r01 % w \in Nat /\ r01 = (r01 \div w) * w + (r01 % w)
  BY <1>1, <1>5, Divided
<1>13. Total(MulAdd(r, x, y)) = (r01 % w) + w * (r01 \div w) + m * (hi + d)
  BY <1>1, <1>2, <1>7, <1>11 DEF Total
<1>14. w * (r01 \div w) = (r01 \div w) * w
  BY <1>1, <1>12
<1>15. PICK q \in Nat, o \in Nat, e1 \in Nat : q = (r01 \div w) * w /\ o = r01 % w /\ e1 = m * (hi + d)
  <2>1. (r01 \div w) * w \in Nat /\ m * (hi + d) \in Nat
    BY <1>1, <1>2, <1>8, <1>12
  <2> QED BY <1>12, <2>1
<1> QED BY <1>9, <1>12, <1>13, <1>14, <1>15

\* The rows of a column, one for each word of left.
IsRows(f, left, right, k, r) ==
    /\ f \in [0..Len(left) -> Triple] /\ f[0] = r
    /\ \A i \in 1..Len(left) :
          f[i] = IF k - (i - 1) \in 0..(Len(left) - 1)
                 THEN MulAdd(f[i - 1], left[i], right[k - i + 2]) ELSE f[i - 1]

\* Column ends where its rows do.
LEMMA ColumnRows ==
    ASSUME NEW left \in Seq(Word), NEW right \in Seq(Word), Len(left) = Len(right),
           NEW k \in Nat, NEW r \in Triple
    PROVE  \E f : IsRows(f, left, right, k, r) /\ Column(left, right, k, r) = f[Len(left)]
<1> DEFINE len == Len(left)
           Row(i, t) == IF k - (i - 1) \in 0..(len - 1) THEN MulAdd(t, left[i], right[k - i + 2]) ELSE t
           step == [a \in (1..len) \X Triple |-> Row(a[1], a[2])]
           Eqn(f) == f = [i \in 0..Len(left) |->
                            IF i = 0 THEN r
                            ELSE IF k - (i - 1) \in 0..(Len(left) - 1)
                            THEN MulAdd(f[i - 1], left[i], right[k - i + 2])
                            ELSE f[i - 1]]
<1>1. len \in Nat /\ \A i \in 1..len : left[i] \in Word /\ right[i] \in Word
  BY LenProperties, ElementOfSeq
<1>2. ASSUME NEW i \in 1..len, NEW t \in Triple PROVE Row(i, t) \in Triple
  <2>1. CASE k - (i - 1) \in 0..(len - 1)
    <3>1. k - i + 2 \in 1..len
      BY <1>1, <2>1
    <3> QED BY <1>1, <2>1, <3>1, MulAddWords
  <2> QED BY <2>1
<1>3. PICK f : Follows(f, Triple, r, step, len)
  <2>1. \A a \in (1..len) \X Triple : Row(a[1], a[2]) \in Triple
    BY <1>2
  <2>2. step \in [(1..len) \X Triple -> Triple]
    BY <2>1
  <2> HIDE DEF step, len
  <2> QED BY <1>1, <2>2, RecursionUpTo
<1>4. f \in [0..len -> Triple] /\ f[0] = r
  BY <1>3 DEF Follows
<1>5. ASSUME NEW i \in 1..len PROVE f[i] = Row(i, f[i - 1])
  <2>1. i - 1 \in 0..len
    BY <1>1
  <2>2. f[i - 1] \in Triple
    BY <1>4, <2>1
  <2>3. f[i] = step[<<i, f[i - 1]>>]
    BY <1>3 DEF Follows
  <2> QED BY <2>2, <2>3
<1>6. Eqn(f)
  <2>1. \A i \in 0..len : f[i] = IF i = 0 THEN r ELSE Row(i, f[i - 1])
    <3>1. \A i \in 0..len : i = 0 \/ i \in 1..len
      BY <1>1
    <3> HIDE DEF Row
    <3> QED BY <1>4, <1>5, <3>1
  <2>2. f = [i \in 0..len |-> f[i]]
    BY <1>4
  <2> QED BY <2>1, <2>2
<1>7. ASSUME NEW g, Eqn(g) PROVE IsRows(g, left, right, k, r)
  <2>1. g[0] = r /\ \A i \in 1..len : g[i] = Row(i, g[i - 1])
    <3>1. 0 \in 0..len /\ \A i \in 1..len : i \in 0..len /\ i # 0
      BY <1>1
    <3> QED BY <1>7, <3>1
  <2> HIDE DEF Row
  <2> DEFINE T == {i \in 0..len : g[i] \notin Triple}
  <2>2. T = {}
    <3> SUFFICES ASSUME T # {} PROVE FALSE
      OBVIOUS
    <3>1. PICK j \in T : \A i \in T : j <= i
      <4>1. T \in SUBSET Nat
        BY <1>1
      <4> HIDE DEF T
      <4> QED BY <4>1, LeastOf
    <3>2. j # 0
      BY <2>1
    <3>3. j \in 1..len /\ j - 1 \in 0..len /\ j - 1 \notin T
      BY <1>1, <3>1, <3>2
    <3>4. g[j - 1] \in Triple
      BY <3>3
    <3> QED BY <1>2, <2>1, <3>1, <3>3, <3>4
  <2>3. g = [i \in 0..len |-> g[i]]
    BY <1>7
  <2>4. \A i \in 0..len : g[i] \in Triple
    BY <2>2
  <2>5. g \in [0..len -> Triple]
    <3> HIDE DEF T, Eqn
    <3> QED BY <2>3, <2>4
  <2> QED BY <2>1, <2>5 DEF IsRows, Row
<1>8. Column(left, right, k, r) = (CHOOSE g : Eqn(g))[Len(left)]
  BY Zenon DEF Column
<1> HIDE DEF Eqn
<1>9. Eqn(CHOOSE g : Eqn(g))
  BY <1>6
<1> QED BY <1>7, <1>8, <1>9

------------------------------------------------------------------------------
(* Multiplication: the columns as parts of the product *)

Clipped(i, len) == IF i < 0 THEN 0 ELSE IF len < i THEN len ELSE i

\* What the columns below the k-th hold of the product: of each word of left,
\* its products with the words of right that fall into them.
IsParts(f, left, right, k) ==
    /\ f \in [0..Len(left) -> Nat] /\ f[0] = 0
    /\ \A i \in 1..Len(left) :
          f[i] = f[i - 1] + (left[i] * Weight(i - 1)) * Upto(right)[Clipped(k - (i - 1), Len(left))]

Parts(left, right, k) == CHOOSE f : IsParts(f, left, right, k)

\* There are such parts.
LEMMA PartsExist ==
    ASSUME NEW left \in Seq(Word), NEW right \in Seq(Word), Len(left) = Len(right), NEW k \in Nat
    PROVE  IsParts(Parts(left, right, k), left, right, k)
<1> DEFINE len == Len(left)
           More(i) == (left[i] * Weight(i - 1)) * Upto(right)[Clipped(k - (i - 1), len)]
           step == [a \in (1..len) \X Nat |-> a[2] + More(a[1])]
<1>1. len \in Nat /\ \A i \in 1..len : left[i] \in Word
  BY LenProperties, ElementOfSeq
<1>2. ASSUME NEW i \in 1..len PROVE More(i) \in Nat
  <2>1. i - 1 \in Nat /\ Clipped(k - (i - 1), len) \in 0..len
    BY <1>1 DEF Clipped
  <2>2. Upto(right)[Clipped(k - (i - 1), len)] \in Nat
    BY <2>1, UptoBound, ValueUpto DEF IsUpto
  <2>3. left[i] * Weight(i - 1) \in Nat
    <3>1. left[i] \in Nat
      BY <1>1 DEF Word
    <3> QED BY <2>1, <3>1, WordProduct
  <2> QED BY <2>2, <2>3
<1>3. PICK f : Follows(f, Nat, 0, step, len)
  <2>1. \A a \in (1..len) \X Nat : a[2] + More(a[1]) \in Nat
    <3> HIDE DEF More
    <3> QED BY <1>2
  <2>2. step \in [(1..len) \X Nat -> Nat] /\ 0 \in Nat
    BY <2>1
  <2> HIDE DEF step, len
  <2> QED BY <1>1, <2>2, RecursionUpTo
<1>4. f \in [0..len -> Nat] /\ f[0] = 0
  BY <1>3 DEF Follows
<1>5. ASSUME NEW i \in 1..len PROVE f[i] = f[i - 1] + More(i)
  <2>1. i - 1 \in 0..len
    BY <1>1
  <2>2. f[i - 1] \in Nat
    BY <1>4, <2>1
  <2>3. f[i] = step[<<i, f[i - 1]>>]
    BY <1>3 DEF Follows
  <2> HIDE DEF More
  <2> QED BY <2>2, <2>3
<1>6. IsParts(f, left, right, k)
  BY <1>4, <1>5 DEF IsParts
<1> QED BY <1>6 DEF Parts

\* One step of Parts, on numbers.
LEMMA PartsStep ==
    ASSUME NEW left \in Seq(Word), NEW right \in Seq(Word), Len(left) = Len(right), NEW k \in Nat,
           NEW i \in 1..Len(left), NEW c \in 0..Len(left), c = Clipped(k - (i - 1), Len(left))
    PROVE  /\ Parts(left, right, k)[i - 1] \in Nat /\ Parts(left, right, k)[i] \in Nat
           /\ left[i] * Weight(i - 1) \in Nat /\ Upto(right)[c] \in Nat
           /\ Parts(left, right, k)[i] = Parts(left, right, k)[i - 1]
                                           + (left[i] * Weight(i - 1)) * Upto(right)[c]
<1>1. IsParts(Parts(left, right, k), left, right, k)
  BY PartsExist
<1>2. Len(left) \in Nat /\ i \in 0..Len(left) /\ i - 1 \in 0..Len(left) /\ i - 1 \in Nat
      /\ left[i] \in Word
  BY LenProperties, ElementOfSeq
<1>3. left[i] * Weight(i - 1) \in Nat
  <2>1. left[i] \in Nat
    BY <1>2 DEF Word
  <2> QED BY <1>2, <2>1, WordProduct
<1>4. Upto(right)[c] \in Nat
  BY UptoBound, ValueUpto DEF IsUpto
<1> QED BY <1>1, <1>2, <1>3, <1>4 DEF IsParts

\* No column, no product.
LEMMA PartsStart ==
    ASSUME NEW left \in Seq(Word), NEW right \in Seq(Word), Len(left) = Len(right)
    PROVE  Parts(left, right, 0)[Len(left)] = 0
<1> DEFINE F == Parts(left, right, 0)
           T == {i \in 0..Len(left) : F[i] # 0}
<1>1. Len(left) \in Nat
  BY LenProperties
<1>2. T = {}
  <2> SUFFICES ASSUME T # {} PROVE FALSE
    OBVIOUS
  <2>1. PICK i \in T : \A j \in T : i <= j
    <3>1. T \in SUBSET Nat
      BY <1>1
    <3> HIDE DEF T
    <3> QED BY <3>1, LeastOf
  <2>2. i # 0
    <3>1. 0 \in Nat /\ F[0] = 0
      BY PartsExist DEF IsParts
    <3> QED BY <2>1, <3>1
  <2>3. i \in 1..Len(left) /\ i - 1 \in 0..Len(left) /\ i - 1 \notin T
    BY <1>1, <2>1, <2>2
  <2>4. 0 = Clipped(0 - (i - 1), Len(left)) /\ 0 \in 0..Len(left)
    BY <1>1, <2>3 DEF Clipped
  <2>5. Upto(right)[0] = 0
    BY UptoBound, ValueUpto DEF IsUpto
  <2>6. /\ F[i] = F[i - 1] + (left[i] * Weight(i - 1)) * Upto(right)[0]
        /\ left[i] * Weight(i - 1) \in Nat
    <3> HIDE DEF F, T
    <3> QED BY <2>3, <2>4, PartsStep DEF F
  <2>7. F[i - 1] = 0
    BY <2>3
  <2> HIDE DEF F
  <2>8. (left[i] * Weight(i - 1)) * 0 = 0
    BY <2>6
  <2> QED BY <2>1, <2>5, <2>6, <2>7, <2>8
<1> QED BY <1>1, <1>2

\* All columns hold the product.
LEMMA PartsEnd ==
    ASSUME NEW left \in Seq(Word), NEW right \in Seq(Word), Len(left) = Len(right),
           NEW k \in Nat, k >= 2 * Len(left) - 1
    PROVE  Parts(left, right, k)[Len(left)] = Val(left) * Val(right)
<1> DEFINE len == Len(left)
           F == Parts(left, right, k)
           T == {i \in 0..len : F[i] # Upto(left)[i] * Val(right)}
<1>1. len \in Nat
  BY LenProperties
<1>2. Val(right) = Upto(right)[len] /\ Val(right) \in Nat /\ Val(left) = Upto(left)[len]
  BY UptoBound, ValueUpto
<1>3. T = {}
  <2> SUFFICES ASSUME T # {} PROVE FALSE
    OBVIOUS
  <2>1. PICK i \in T : \A j \in T : i <= j
    <3>1. T \in SUBSET Nat
      BY <1>1
    <3> HIDE DEF T
    <3> QED BY <3>1, LeastOf
  <2>2. i # 0
    <3>1. F[0] = 0
      BY PartsExist DEF IsParts
    <3>2. Upto(left)[0] = 0
      BY UptoBound, ValueUpto DEF IsUpto
    <3>3. 0 * Val(right) = 0
      BY <1>2
    <3> QED BY <2>1, <3>1, <3>2, <3>3
  <2>3. i \in 1..len /\ i - 1 \in 0..len /\ i - 1 \notin T
    BY <1>1, <2>1, <2>2
  <2>4. len = Clipped(k - (i - 1), len) /\ len \in 0..len
    BY <1>1, <2>3 DEF Clipped
  <2> HIDE DEF T
  <2>5. /\ F[i] = F[i - 1] + (left[i] * Weight(i - 1)) * Upto(right)[len]
        /\ left[i] * Weight(i - 1) \in Nat
    <3>1. i \in 1..Len(left) /\ len = Clipped(k - (i - 1), Len(left)) /\ len \in 0..Len(left)
      BY <2>3, <2>4
    <3>2. /\ Parts(left, right, k)[i] = Parts(left, right, k)[i - 1]
                                          + (left[i] * Weight(i - 1)) * Upto(right)[len]
          /\ left[i] * Weight(i - 1) \in Nat
      <4> HIDE DEF F, len
      <4> QED BY <3>1, PartsStep, SMTT(60)
    <3> QED BY <3>2
  <2>6. Upto(left)[i] = Upto(left)[i - 1] + left[i] * Weight(i - 1) /\ Upto(left)[i - 1] \in Nat
    BY <2>3, UptoStep
  <2>7. F[i - 1] = Upto(left)[i - 1] * Val(right)
    BY <2>3 DEF T
  <2>8. PICK x \in Nat, y \in Nat, z \in Nat :
          x = Upto(left)[i - 1] /\ y = left[i] * Weight(i - 1) /\ z = Val(right)
    BY <1>2, <2>5, <2>6
  <2>9. (x + y) * z = x * z + y * z
    OBVIOUS
  <2> HIDE DEF F
  <2>10. F[i] = Upto(left)[i] * Val(right)
    BY <1>2, <2>5, <2>6, <2>7, <2>8, <2>9
  <2> QED BY <2>1, <2>10 DEF T
<1> QED BY <1>1, <1>2, <1>3

\* The largest product of two words.
Sq == (W - 1) * (W - 1)

\* No product of words is larger than Sq.
LEMMA WordsProduct ==
    ASSUME NEW x \in Word, NEW y \in Word
    PROVE  x * y \in Nat /\ x * y <= Sq /\ Sq \in Nat
<1>1. PICK w \in Nat, l \in Nat, u \in Nat : w = W - 1 /\ l = x /\ u = y /\ l <= w /\ u <= w
  BY WordSizes DEF Word
<1>2. l * u <= w * u /\ u * w <= w * w /\ w * u = u * w /\ l * u \in Nat /\ w * u \in Nat /\ w * w \in Nat
  BY <1>1, ProductsGrow
<1>3. PICK x1 \in Nat, x2 \in Nat, x3 \in Nat : x1 = l * u /\ x2 = u * w /\ x3 = w * w
  BY <1>2
<1>4. x1 <= x3
  BY <1>2, <1>3
<1>5. Sq = w * w /\ x * y = l * u
  BY <1>1 DEF Sq
<1> QED BY <1>2, <1>3, <1>4, <1>5

\* The accumulator stands for a number.
LEMMA TotalNat ==
    ASSUME NEW r \in Triple
    PROVE  Total(r) \in Nat
<1>1. r[1] \in Nat /\ r[2] \in Nat /\ r[3] \in Nat /\ W \in Nat
  BY WordSizes DEF Triple, Word
<1>2. W * r[2] \in Nat /\ (W * W) * r[3] \in Nat
  BY <1>1
<1> QED BY <1>1, <1>2 DEF Total

\* A column whose products fit in the accumulator adds to it what the parts
\* below it gain.
LEMMA ColumnExact ==
    ASSUME NEW left \in Seq(Word), NEW right \in Seq(Word), Len(left) = Len(right),
           NEW k \in Nat, NEW r \in Triple,
           Total(r) + Len(left) * Sq < W * (W * W)
    PROVE  /\ Column(left, right, k, r) \in Triple
           /\ Total(Column(left, right, k, r)) <= Total(r) + Len(left) * Sq
           /\ Total(Column(left, right, k, r)) * Weight(k) + Parts(left, right, k)[Len(left)]
                = Total(r) * Weight(k) + Parts(left, right, k + 1)[Len(left)]
<1> DEFINE len == Len(left)
           F == Parts(left, right, k)
           F1 == Parts(left, right, k + 1)
<1>1. len \in Nat /\ k + 1 \in Nat /\ \A i \in 1..len : left[i] \in Word /\ right[i] \in Word
  BY LenProperties, ElementOfSeq
<1>2. PICK g : IsRows(g, left, right, k, r) /\ Column(left, right, k, r) = g[len]
  BY ColumnRows
<1>3. PICK m \in Nat : m = Weight(k)
  BY Weights
<1>4. Total(r) \in Nat /\ Sq \in Nat
  <2>1. 0 \in Word
    BY WordSizes DEF Word
  <2> QED BY <2>1, TotalNat, WordsProduct
<1> DEFINE Holds(i) == /\ Total(g[i]) <= Total(r) + i * Sq
                       /\ Total(g[i]) * m + F[i] = Total(r) * m + F1[i]
           T == {i \in 0..len : ~Holds(i)}
<1> SUFFICES ASSUME T # {} PROVE FALSE
  <2>1. len \in 0..len
    BY <1>1
  <2>2. Holds(len)
    BY <2>1
  <2> QED BY <1>2, <1>3, <2>1, <2>2 DEF IsRows
<1>5. PICK i \in T : \A j \in T : i <= j
  <2>1. T \in SUBSET Nat
    BY <1>1
  <2> HIDE DEF T
  <2> QED BY <2>1, LeastOf
<1>6. F[0] = 0 /\ F1[0] = 0
  <2>1. F[0] = 0
    BY PartsExist DEF IsParts
  <2>2. IsParts(Parts(left, right, k + 1), left, right, k + 1)
    BY <1>1, PartsExist
  <2> QED BY <2>1, <2>2 DEF IsParts
<1>7. i # 0
  <2>1. g[0] = r /\ 0 * Sq = 0
    BY <1>2, <1>4 DEF IsRows
  <2>2. Holds(0)
    <3> HIDE DEF F, F1
    <3> QED BY <1>3, <1>4, <1>6, <2>1
  <2> QED BY <1>5, <2>2
<1>8. i \in 1..len /\ i - 1 \in 0..len /\ i - 1 \notin T /\ i - 1 \in Nat
  BY <1>1, <1>5, <1>7
<1>9. Holds(i - 1)
  BY <1>8
<1>10. /\ g[i - 1] \in Triple /\ g[i] \in Triple
       /\ g[i] = IF k - (i - 1) \in 0..(len - 1)
                 THEN MulAdd(g[i - 1], left[i], right[k - i + 2]) ELSE g[i - 1]
  BY <1>2, <1>8 DEF IsRows
<1>11. PICK lw \in Nat, wi \in Nat, lp \in Nat :
         lw = left[i] /\ wi = Weight(i - 1) /\ lp = lw * wi
  <2>1. left[i] \in Nat /\ Weight(i - 1) \in Nat
    BY <1>1, <1>8, Weights DEF Word
  <2>2. left[i] * Weight(i - 1) \in Nat
    BY <2>1
  <2> QED BY <2>1, <2>2
<1> DEFINE c == Clipped(k - (i - 1), len)
           d == Clipped((k + 1) - (i - 1), len)
<1>12. c \in 0..len /\ d \in 0..len
  BY <1>1, <1>8 DEF Clipped
<1>13. /\ F[i] = F[i - 1] + lp * Upto(right)[c] /\ F[i - 1] \in Nat /\ F[i] \in Nat
       /\ Upto(right)[c] \in Nat
  <2>1. i \in 1..Len(left) /\ c \in 0..Len(left) /\ c = Clipped(k - (i - 1), Len(left))
    BY <1>8, <1>12
  <2> HIDE DEF c, d, len, F, F1, T
  <2>2. /\ F[i] = F[i - 1] + (left[i] * Weight(i - 1)) * Upto(right)[c] /\ F[i - 1] \in Nat
        /\ F[i] \in Nat /\ Upto(right)[c] \in Nat
    BY <2>1, PartsStep DEF F
  <2> QED BY <1>11, <2>2
<1>14. /\ F1[i] = F1[i - 1] + lp * Upto(right)[d] /\ F1[i - 1] \in Nat /\ F1[i] \in Nat
       /\ Upto(right)[d] \in Nat
  <2>0. PICK o \in Nat : o = k + 1
    BY <1>1
  <2>1. i \in 1..Len(left) /\ d \in 0..Len(left) /\ d = Clipped(o - (i - 1), Len(left))
    BY <1>8, <1>12, <2>0
  <2>2. F1 = Parts(left, right, o)
    BY <2>0
  <2> HIDE DEF c, d, len, F, F1, T
  <2>3. /\ F1[i] = F1[i - 1] + (left[i] * Weight(i - 1)) * Upto(right)[d] /\ F1[i - 1] \in Nat
        /\ F1[i] \in Nat /\ Upto(right)[d] \in Nat
    BY <2>1, <2>2, PartsStep
  <2> QED BY <1>11, <2>3
<1>15. i * Sq = (i - 1) * Sq + Sq /\ (i - 1) * Sq \in Nat /\ i * Sq \in Nat
  <2>1. PICK o \in Nat : o = i - 1 /\ i = o + 1
    BY <1>8
  <2>2. (o + 1) * Sq = o * Sq + Sq /\ o * Sq \in Nat
    BY <1>4, <2>1
  <2> QED BY <1>4, <2>1, <2>2
<1> HIDE DEF F, F1
<1>16. PICK t \in Nat, t0 \in Nat, f0 \in Nat, g0 \in Nat :
         /\ t = Total(g[i - 1]) /\ t0 = Total(r) /\ f0 = F[i - 1] /\ g0 = F1[i - 1]
         /\ t <= t0 + (i - 1) * Sq /\ t * m + f0 = t0 * m + g0
  BY <1>4, <1>9, <1>10, <1>13, <1>14, TotalNat
<1> DEFINE b0 == (i - 1) * Sq
           b1 == i * Sq
           tm == t * m
           t0m == t0 * m
<1>0. /\ b0 \in Nat /\ b1 \in Nat /\ b1 = b0 + Sq /\ t <= t0 + b0
      /\ tm \in Nat /\ t0m \in Nat /\ tm + f0 = t0m + g0
  <2>1. b0 \in Nat /\ b1 \in Nat /\ b1 = b0 + Sq
    BY <1>15
  <2>2. t <= t0 + b0
    <3> HIDE DEF T, c, d
    <3> QED BY <1>16
  <2>3. tm \in Nat /\ t0m \in Nat
    OBVIOUS
  <2>4. tm + f0 = t0m + g0
    <3> HIDE DEF T, c, d
    <3> QED BY <1>16
  <2> QED BY <2>1, <2>2, <2>3, <2>4
<1> HIDE DEF b0, b1, tm, t0m
<1>17. CASE k - (i - 1) \in 0..(len - 1)
  <2>1. c = k - (i - 1) /\ d = c + 1 /\ d \in 1..len /\ k - i + 2 = d /\ c \in Nat
    BY <1>1, <1>8, <1>17 DEF Clipped
  <2> HIDE DEF c, d, T
  <2>2. /\ Upto(right)[d - 1] \in Nat /\ Upto(right)[d] \in Nat
        /\ Upto(right)[d] = Upto(right)[d - 1] + right[d] * Weight(d - 1)
    <3>1. d \in 1..Len(right)
      BY <2>1
    <3> QED BY <3>1, UptoStep
  <2>3. d - 1 = c
    BY <2>1
  <2>4. PICK rw \in Nat, wc \in Nat, rc \in Nat :
          rw = right[d] /\ wc = Weight(c) /\ rc = Upto(right)[c] /\ Upto(right)[d] = rc + rw * wc
    <3>1. right[d] \in Nat /\ Weight(c) \in Nat
      BY <1>1, <2>1, Weights DEF Word
    <3> QED BY <2>2, <2>3, <3>1
  <2>5. m = wi * wc
    <3>1. (i - 1) + c = k
      BY <1>8, <2>1
    <3>2. Weight((i - 1) + c) = Weight(i - 1) * Weight(c)
      BY <1>8, <2>1, Weights
    <3> QED BY <1>3, <1>11, <2>4, <3>1, <3>2
  <2>6. lw * rw \in Nat /\ lw * rw <= Sq
    <3>1. left[i] \in Word /\ right[d] \in Word
      BY <1>1, <1>8, <2>1
    <3>2. left[i] * right[d] \in Nat /\ left[i] * right[d] <= Sq
      BY <3>1, WordsProduct
    <3> QED BY <1>11, <2>4, <3>2
  <2>7. PICK prod \in Nat : prod = lw * rw /\ prod <= Sq /\ prod = left[i] * right[d]
    BY <1>11, <2>4, <2>6
  <2>8. t + prod <= t0 + i * Sq
    <3>1. t + prod <= t0 + b1
      BY <1>4, <1>0, <2>7
    <3> QED BY <3>1 DEF b1
  <2>9. t0 + i * Sq <= t0 + len * Sq
    <3>1. i \in Nat /\ i <= len
      BY <1>1, <1>8
    <3>2. i * Sq <= len * Sq /\ i * Sq \in Nat /\ len * Sq \in Nat
      <4> HIDE DEF len
      <4> QED BY <1>1, <1>4, <3>1, ProductsGrow
    <3> QED BY <3>2
  <2>10. t + prod < W * (W * W)
    <3>1. PICK v1 \in Nat, v2 \in Nat, v3 \in Nat : v1 = i * Sq /\ v2 = len * Sq /\ v3 = W * (W * W)
      <4>1. len * Sq \in Nat /\ W * (W * W) \in Nat
        BY <1>1, <1>4, WordSizes
      <4> QED BY <1>15, <4>1
    <3>2. t0 + v2 < v3
      BY <1>16, <3>1
    <3>3. t + prod <= t0 + v1
      BY <2>8, <3>1
    <3>4. t0 + v1 <= t0 + v2
      BY <2>9, <3>1
    <3>5. t + prod < v3
      BY <3>2, <3>3, <3>4
    <3> QED BY <3>1, <3>5
  <2>11. Total(g[i]) = t + prod
    <3>1. g[i] = MulAdd(g[i - 1], left[i], right[d]) /\ left[i] \in Word /\ right[d] \in Word
      BY <1>1, <1>8, <1>10, <1>17, <2>1
    <3> QED BY <1>10, <1>16, <2>7, <2>10, <3>1, MulAddExact
  <2>12. (t + prod) * m + (f0 + lp * rc) = t0 * m + (g0 + lp * (rc + rw * wc))
    <3>1. (t + prod) * m = t * m + prod * m
      OBVIOUS
    <3>2. lp * (rc + rw * wc) = lp * rc + lp * (rw * wc)
      OBVIOUS
    <3>3. lp * (rw * wc) = prod * m
      <4>1. (lw * wi) * (rw * wc) = (lw * rw) * (wi * wc)
        OBVIOUS
      <4> QED BY <1>11, <2>5, <2>7, <4>1
    <3>4. PICK v1 \in Nat, v2 \in Nat, v3 \in Nat, v4 \in Nat :
            v1 = t * m /\ v2 = prod * m /\ v3 = lp * rc /\ v4 = t0 * m
      OBVIOUS
    <3>5. v1 + f0 = v4 + g0
      BY <1>16, <3>4
    <3> QED BY <3>1, <3>2, <3>3, <3>4, <3>5
  <2>13. Total(g[i]) * m + F[i] = Total(r) * m + F1[i]
    BY <1>13, <1>14, <1>16, <2>4, <2>11, <2>12
  <2>14. Holds(i)
    BY <1>16, <2>8, <2>11, <2>13
  <2> QED BY <1>5, <2>14 DEF T
<1>18. CASE ~(k - (i - 1) \in 0..(len - 1))
  <2>1. Upto(right)[c] = Upto(right)[d]
    <3>1. PICK o \in Int : o = k - (i - 1) /\ o + 1 = (k + 1) - (i - 1)
      BY <1>8
    <3>2. Clipped(o, len) = Clipped(o + 1, len)
      BY <1>1, <1>18, <3>1 DEF Clipped
    <3>3. c = Clipped(o, len) /\ d = Clipped(o + 1, len)
      BY <3>1
    <3> QED BY <3>2, <3>3
  <2> HIDE DEF c, d, T
  <2>2. Total(g[i]) = t
    BY <1>10, <1>16, <1>18
  <2>3. PICK v \in Nat : v = lp * Upto(right)[c] /\ F[i] = f0 + v /\ F1[i] = g0 + v
    <3>1. lp * Upto(right)[c] \in Nat
      BY <1>13
    <3> QED BY <1>13, <1>14, <1>16, <2>1, <3>1
  <2>4. Total(g[i]) * m + F[i] = Total(r) * m + F1[i]
    <3>1. tm + (f0 + v) = t0m + (g0 + v)
      BY <1>0
    <3>2. Total(g[i]) * m = tm /\ Total(r) * m = t0m
      BY <1>16, <2>2 DEF tm, t0m
    <3> QED BY <2>3, <3>1, <3>2
  <2>5. Holds(i)
    <3>1. t <= t0 + b1
      BY <1>4, <1>0
    <3>2. Total(g[i]) <= Total(r) + i * Sq
      BY <1>16, <2>2, <3>1 DEF b1
    <3> QED BY <2>4, <3>2
  <2> QED BY <1>5, <2>5 DEF T
<1> QED BY <1>17, <1>18

------------------------------------------------------------------------------
(* Multiplication: all columns *)

\* A word more, at the top.
LEMMA AppendValue ==
    ASSUME NEW v \in Seq(Word), NEW x \in Word
    PROVE  /\ Append(v, x) \in Seq(Word) /\ Len(Append(v, x)) = Len(v) + 1
           /\ Val(Append(v, x)) = Val(v) + x * Weight(Len(v))
<1> DEFINE u == Append(v, x)
<1>1. u \in Seq(Word) /\ Len(u) = Len(v) + 1 /\ Len(v) \in Nat
      /\ u[Len(v) + 1] = x /\ \A i \in 1..Len(v) : u[i] = v[i]
  BY AppendProperties, LenProperties
<1> HIDE DEF u
<1>2. Upto(u)[Len(v)] = Upto(v)[Len(v)]
  <2>1. Len(v) <= Len(u) /\ Len(v) <= Len(v)
    BY <1>1
  <2> QED BY <1>1, <2>1, SamePrefix
<1>3. Len(u) \in 1..Len(u) /\ Len(u) - 1 = Len(v)
  BY <1>1
<1>4. Upto(u)[Len(u)] = Upto(u)[Len(v)] + x * Weight(Len(v))
  BY <1>1, <1>3, UptoStep
<1>5. Val(u) = Upto(u)[Len(u)] /\ Val(v) = Upto(v)[Len(v)]
  BY <1>1, UptoBound, ValueUpto
<1> QED BY <1>1, <1>2, <1>4, <1>5 DEF u

\* As many products as there are words fit in three words, with what the
\* column before them leaves over.
LEMMA Room ==
    ASSUME NEW m \in Nat, m <= W, NEW t \in Nat, t <= m * W
    PROVE  t + m * Sq < W * (W * W) /\ t + m * Sq <= m * (W * W)
BY WordSizes, RoomFor DEF Sq

\* The columns of a product.
ColumnState == [words : Seq(Word), r : Triple]

NextColumn(left, right, k, acc) ==
    [words |-> Append(acc.words, Column(left, right, k, acc.r)[1]),
     r     |-> <<Column(left, right, k, acc.r)[2], Column(left, right, k, acc.r)[3], 0>>]

IsColumns(f, left, right, top) ==
    /\ f \in [0..top -> ColumnState] /\ f[0] = [words |-> <<>>, r |-> <<0, 0, 0>>]
    /\ \A k \in 1..top : f[k] = NextColumn(left, right, k - 1, f[k - 1])

\* What a column leaves behind are words.
LEMMA ColumnStates ==
    ASSUME NEW left \in Seq(Word), NEW right \in Seq(Word), Len(left) = Len(right),
           NEW k \in Nat, NEW acc \in ColumnState
    PROVE  /\ Column(left, right, k, acc.r) \in Triple
           /\ NextColumn(left, right, k, acc) \in ColumnState
<1>1. acc.words \in Seq(Word) /\ acc.r \in Triple
  BY DEF ColumnState
<1>2. Column(left, right, k, acc.r) \in Triple
  <2>1. PICK f : IsRows(f, left, right, k, acc.r) /\ Column(left, right, k, acc.r) = f[Len(left)]
    BY <1>1, ColumnRows
  <2>2. Len(left) \in 0..Len(left)
    BY LenProperties
  <2> QED BY <2>1, <2>2 DEF IsRows
<1>3. PICK t \in Triple : t = Column(left, right, k, acc.r)
  BY <1>2
<1>4. t[1] \in Word /\ t[2] \in Word /\ t[3] \in Word /\ 0 \in Word
  BY WordSizes DEF Triple, Word
<1>5. Append(acc.words, t[1]) \in Seq(Word) /\ <<t[2], t[3], 0>> \in Triple
  BY <1>1, <1>4, AppendProperties DEF Triple
<1> QED BY <1>2, <1>3, <1>5 DEF NextColumn, ColumnState

\* VliMult ends where its columns do.
LEMMA MultColumns ==
    ASSUME NEW left \in Seq(Word), NEW right \in Seq(Word), Len(left) = Len(right), Len(left) >= 1
    PROVE  \E f : /\ IsColumns(f, left, right, 2 * Len(left) - 1)
                  /\ VliMult(left, right) = Append(f[2 * Len(left) - 1].words,
                                                   f[2 * Len(left) - 1].r[1])
<1> DEFINE top == 2 * Len(left) - 1
           base == [words |-> <<>>, r |-> <<0, 0, 0>>]
           step == [a \in (1..top) \X ColumnState |-> NextColumn(left, right, a[1] - 1, a[2])]
           Eqn(f) == f = [k \in 0..(2 * Len(left) - 1) |->
                            IF k = 0 THEN [words |-> <<>>, r |-> <<0, 0, 0>>]
                            ELSE [words |-> Append(f[k - 1].words,
                                                   Column(left, right, k - 1, f[k - 1].r)[1]),
                                  r |-> <<Column(left, right, k - 1, f[k - 1].r)[2],
                                          Column(left, right, k - 1, f[k - 1].r)[3], 0>>]]
<1>1. top \in Nat
  BY LenProperties
<1>2. base \in ColumnState
  <2>1. 0 \in Word /\ <<>> \in Seq(Word)
    BY WordSizes, EmptySeq DEF Word
  <2> QED BY <2>1 DEF ColumnState, Triple
<1> HIDE DEF base
<1>3. PICK f : Follows(f, ColumnState, base, step, top)
  <2>1. ASSUME NEW a \in (1..top) \X ColumnState
        PROVE  NextColumn(left, right, a[1] - 1, a[2]) \in ColumnState
    <3>1. a[1] - 1 \in Nat /\ a[2] \in ColumnState
      BY <1>1
    <3> QED BY <3>1, ColumnStates
  <2>2. step \in [(1..top) \X ColumnState -> ColumnState]
    BY <2>1
  <2> HIDE DEF step, top
  <2> QED BY <1>1, <1>2, <2>2, RecursionUpTo
<1>4. f \in [0..top -> ColumnState] /\ f[0] = base
  BY <1>3 DEF Follows
<1>5. ASSUME NEW k \in 1..top PROVE f[k] = NextColumn(left, right, k - 1, f[k - 1])
  <2>1. k - 1 \in 0..top
    BY <1>1
  <2>2. f[k - 1] \in ColumnState
    BY <1>4, <2>1
  <2>3. f[k] = step[<<k, f[k - 1]>>]
    BY <1>3 DEF Follows
  <2> QED BY <2>2, <2>3
<1> HIDE DEF step
<1>6. Eqn(f)
  <2>1. \A k \in 0..top : f[k] = IF k = 0 THEN base ELSE NextColumn(left, right, k - 1, f[k - 1])
    <3>1. \A k \in 0..top : k = 0 \/ k \in 1..top
      BY <1>1
    <3> QED BY <1>4, <1>5, <3>1
  <2>2. f = [k \in 0..top |-> f[k]]
    BY <1>4
  <2> QED BY <2>1, <2>2 DEF NextColumn, base
<1>7. ASSUME NEW g, Eqn(g) PROVE IsColumns(g, left, right, top)
  <2>1. g[0] = base /\ \A k \in 1..top : g[k] = NextColumn(left, right, k - 1, g[k - 1])
    <3>1. 0 \in 0..top /\ \A k \in 1..top : k \in 0..top /\ k # 0
      BY <1>1
    <3> QED BY <1>7, <3>1 DEF NextColumn, base
  <2> DEFINE T == {k \in 0..top : g[k] \notin ColumnState}
  <2>2. T = {}
    <3> SUFFICES ASSUME T # {} PROVE FALSE
      OBVIOUS
    <3>1. PICK j \in T : \A k \in T : j <= k
      <4>1. T \in SUBSET Nat
        BY <1>1
      <4> HIDE DEF T
      <4> QED BY <4>1, LeastOf
    <3>2. j # 0
      BY <1>2, <2>1
    <3>3. j \in 1..top /\ j - 1 \in 0..top /\ j - 1 \notin T /\ j - 1 \in Nat
      BY <1>1, <3>1, <3>2
    <3>4. g[j - 1] \in ColumnState
      BY <3>3
    <3>5. g[j] = NextColumn(left, right, j - 1, g[j - 1])
      BY <2>1, <3>3
    <3>6. g[j] \in ColumnState
      <4> HIDE DEF T, Eqn, top
      <4> QED BY <3>3, <3>4, <3>5, ColumnStates
    <3> QED BY <3>1, <3>6
  <2>3. g = [k \in 0..top |-> g[k]]
    BY <1>7
  <2>4. \A k \in 0..top : g[k] \in ColumnState
    BY <2>2
  <2>5. g \in [0..top -> ColumnState]
    <3> HIDE DEF T, Eqn
    <3> QED BY <2>3, <2>4
  <2> QED BY <2>1, <2>5 DEF IsColumns, base
<1>8. VliMult(left, right) = Append((CHOOSE g : Eqn(g))[top].words, (CHOOSE g : Eqn(g))[top].r[1])
  BY Zenon DEF VliMult
<1> HIDE DEF Eqn
<1>9. Eqn(CHOOSE g : Eqn(g))
  BY <1>6
<1> QED BY <1>7, <1>8, <1>9

\* What is above the lowest word of the accumulator.
Above(r) == r[2] + W * r[3]

\* Taking the lowest word off the accumulator.
LEMMA TotalSplit ==
    ASSUME NEW r \in Triple
    PROVE  /\ r[1] \in Word /\ Above(r) \in Nat /\ Total(r) = r[1] + W * Above(r)
           /\ Total(<<r[2], r[3], 0>>) = Above(r)
<1>1. PICK w \in Nat, x \in Nat, y \in Nat, z \in Nat :
        w = W /\ x = r[1] /\ y = r[2] /\ z = r[3]
  BY WordSizes DEF Triple, Word
<1>2. w * (y + w * z) = w * y + (w * w) * z /\ (w * w) * 0 = 0
  OBVIOUS
<1>3. w * y \in Nat /\ w * z \in Nat /\ (w * w) * z \in Nat
  OBVIOUS
<1>4. PICK s \in Nat, t \in Nat, o \in Nat : s = w * y /\ t = (w * w) * z /\ o = w * z
  BY <1>3
<1>5. Total(r) = x + s + t /\ Above(r) = y + o
  BY <1>1, <1>4 DEF Total, Above
<1>6. W * Above(r) = s + t
  BY <1>1, <1>2, <1>4, <1>5
<1>7. Total(<<r[2], r[3], 0>>) = y + o + (w * w) * 0
  BY <1>1, <1>4 DEF Total
<1>8. Total(<<r[2], r[3], 0>>) = y + o
  BY <1>2, <1>7
<1>9. r[1] \in Word
  BY DEF Triple
<1> QED BY <1>1, <1>5, <1>6, <1>8, <1>9

\* vli_mult is exact, for numbers of at most as many words as a word can hold.
LEMMA MultExact ==
    ASSUME NEW left \in Seq(Word), NEW right \in Seq(Word), Len(left) = Len(right),
           Len(left) >= 1, Len(left) <= W
    PROVE  /\ VliMult(left, right) \in Seq(Word) /\ Len(VliMult(left, right)) = 2 * Len(left)
           /\ Val(VliMult(left, right)) = Val(left) * Val(right)
<1> DEFINE len == Len(left)
           top == 2 * Len(left) - 1
           Part(k) == Parts(left, right, k)[len]
<1>1. len \in Nat /\ top \in Nat /\ top + 1 = 2 * len
  BY LenProperties
<1>2. PICK f : /\ IsColumns(f, left, right, top)
               /\ VliMult(left, right) = Append(f[top].words, f[top].r[1])
  BY MultColumns
<1>3. ASSUME NEW k \in 0..top
      PROVE  f[k].words \in Seq(Word) /\ f[k].r \in Triple /\ Total(f[k].r) \in Nat
             /\ Part(k) \in Nat
  <2>1. f[k] \in ColumnState
    BY <1>2 DEF IsColumns
  <2>2. f[k].words \in Seq(Word) /\ f[k].r \in Triple
    BY <2>1 DEF ColumnState
  <2>3. k \in Nat /\ len \in 0..len
    BY <1>1
  <2>4. IsParts(Parts(left, right, k), left, right, k)
    BY <2>3, PartsExist
  <2> QED BY <2>2, <2>3, <2>4, TotalNat DEF IsParts
<1> HIDE DEF top, Part
<1> DEFINE Holds(k) == /\ Len(f[k].words) = k
                       /\ Total(f[k].r) <= len * W
                       /\ Val(f[k].words) + Total(f[k].r) * Weight(k) = Part(k)
           T == {k \in 0..top : ~Holds(k)}
<1>4. Holds(0)
  <2>1. f[0].words = <<>> /\ f[0].r = <<0, 0, 0>>
    BY <1>2 DEF IsColumns
  <2>2. Total(<<0, 0, 0>>) = 0
    BY WordSizes DEF Total
  <2>3. Part(0) = 0
    BY PartsStart DEF Part
  <2>4. Val(f[0].words) = 0
    <3>1. <<>> \in Seq(Nat) /\ Len(<<>>) = 0
      BY EmptySeq
    <3>2. Val(<<>>) = Upto(<<>>)[0] /\ Upto(<<>>)[0] = 0
      BY <3>1, ValueUpto DEF IsUpto
    <3> QED BY <2>1, <3>2
  <2>5. len * W \in Nat /\ 0 * Weight(0) = 0 /\ Len(<<>>) = 0
    <3>1. len * W \in Nat
      BY <1>1, WordSizes
    <3>2. 0 * Weight(0) = 0
      BY Weights
    <3> QED BY <3>1, <3>2
  <2> QED BY <2>1, <2>2, <2>3, <2>4, <2>5
<1>5. ASSUME NEW k \in 1..top, Holds(k - 1) PROVE Holds(k)
  <2>1. k - 1 \in Nat /\ k - 1 \in 0..top /\ (k - 1) + 1 = k /\ k \in 0..top
    BY <1>1
  <2> DEFINE acc == f[k - 1]
             R == Column(left, right, k - 1, acc.r)
  <2>2. f[k] = NextColumn(left, right, k - 1, acc)
    BY <1>2 DEF IsColumns
  <2>3. acc.words \in Seq(Word) /\ acc.r \in Triple /\ Total(acc.r) \in Nat
    BY <1>3, <2>1
  <2>4. f[k].words = Append(acc.words, R[1]) /\ f[k].r = <<R[2], R[3], 0>>
    BY <2>2 DEF NextColumn
  <2>5. Len(acc.words) = k - 1 /\ Total(acc.r) <= len * W
        /\ Val(acc.words) + Total(acc.r) * Weight(k - 1) = Part(k - 1)
    BY <1>5
  <2>6. Total(acc.r) + len * Sq < W * (W * W) /\ Total(acc.r) + len * Sq <= len * (W * W)
    <3> HIDE DEF acc, len
    <3>1. len <= W
      BY DEF len
    <3> QED BY <1>1, <2>3, <2>5, <3>1, Room
  <2>7. /\ R \in Triple /\ Total(R) <= Total(acc.r) + len * Sq
        /\ Total(R) * Weight(k - 1) + Part(k - 1) = Total(acc.r) * Weight(k - 1) + Part(k)
    <3>1. PICK o \in Nat : o = k - 1 /\ o + 1 = k
      BY <2>1
    <3>2. PICK t \in Triple : t = acc.r /\ Total(t) + Len(left) * Sq < W * (W * W)
      BY <2>3, <2>6
    <3>3. /\ Column(left, right, o, t) \in Triple
          /\ Total(Column(left, right, o, t)) <= Total(t) + Len(left) * Sq
          /\ Total(Column(left, right, o, t)) * Weight(o) + Parts(left, right, o)[Len(left)]
               = Total(t) * Weight(o) + Parts(left, right, o + 1)[Len(left)]
      BY <3>1, <3>2, ColumnExact
    <3> QED BY <3>1, <3>2, <3>3 DEF Part
  <2> HIDE DEF acc, R, T
  <2>8. R[1] \in Word /\ Total(R) \in Nat
    BY <2>7, TotalNat DEF Triple
  <2>9. /\ Len(f[k].words) = k
        /\ Val(f[k].words) = Val(acc.words) + R[1] * Weight(k - 1)
    <3>1. /\ Len(Append(acc.words, R[1])) = Len(acc.words) + 1
          /\ Val(Append(acc.words, R[1])) = Val(acc.words) + R[1] * Weight(Len(acc.words))
      BY <2>3, <2>8, AppendValue
    <3> QED BY <2>1, <2>4, <2>5, <3>1
  <2>10. PICK m \in Nat, w \in Nat \ {0}, x \in Nat, up \in Nat :
           /\ m = Weight(k - 1) /\ w = W /\ x = R[1] /\ up = Above(R) /\ Weight(k) = w * m
    <3>1. Weight(k - 1) \in Nat /\ Weight(k) = W * Weight(k - 1)
      BY <2>1, Weights
    <3>2. R[1] \in Nat /\ Above(R) \in Nat /\ W \in Nat \ {0}
      <4>1. R[1] \in Word /\ Above(R) \in Nat
        BY <2>7, TotalSplit
      <4>2. W \in Nat \ {0}
        BY WordSizes
      <4> QED BY <4>1, <4>2 DEF Word
    <3> QED BY <3>1, <3>2
  <2>11. Total(f[k].r) = up /\ Total(R) = x + w * up
    BY <2>4, <2>7, <2>10, TotalSplit
  <2>12. up <= len * W
    <3>1. w * up <= len * (W * W)
      <4>1. w * up \in Nat /\ len * (W * W) \in Nat
        BY <1>1, <2>10
      <4>2. Total(R) <= len * (W * W)
        <5>1. PICK v1 \in Nat, v2 \in Nat : v1 = len * Sq /\ v2 = len * (W * W)
          <6>1. Sq \in Nat
            BY WordSizes DEF Sq
          <6> QED BY <1>1, <4>1, <6>1
        <5> QED BY <2>3, <2>6, <2>7, <2>8, <5>1
      <4>3. PICK v1 \in Nat, v2 \in Nat : v1 = w * up /\ v2 = len * (W * W)
        BY <4>1
      <4>4. x + v1 <= v2
        BY <2>11, <4>2, <4>3
      <4>5. v1 <= v2
        BY <4>4
      <4> QED BY <4>3, <4>5
    <3>2. PICK b1 \in Nat : b1 = len * w
      BY <1>1
    <3>3. len * (W * W) = w * b1
      BY <1>1, <2>10, <3>2
    <3> SUFFICES ASSUME b1 + 1 <= up PROVE FALSE
      BY <2>10, <3>2
    <3>4. (b1 + 1) * w <= up * w
      <4>1. PICK o \in Nat : o = b1 + 1 /\ o <= up
        OBVIOUS
      <4>2. o * w <= up * w
        BY <4>1, ProductsGrow
      <4> QED BY <4>1, <4>2
    <3>5. (b1 + 1) * w = w * b1 + w /\ up * w = w * up /\ w * b1 \in Nat
      BY <2>10
    <3>6. PICK v1 \in Nat, v2 \in Nat : v1 = w * b1 /\ v2 = w * up
      OBVIOUS
    <3> QED BY <2>10, <3>1, <3>3, <3>4, <3>5, <3>6
  <2>13. Val(f[k].words) + Total(f[k].r) * Weight(k) = Part(k)
    <3>1. PICK a0 \in Nat, t \in Nat, b0 \in Nat, b1 \in Nat :
            a0 = Val(acc.words) /\ t = Total(acc.r) /\ b0 = Part(k - 1) /\ b1 = Part(k)
      BY <1>3, <2>1, <2>3, UptoBound
    <3>2. a0 + t * m = b0 /\ (x + w * up) * m + b0 = t * m + b1
      BY <2>5, <2>7, <2>10, <2>11, <3>1
    <3>3. (x + w * up) * m = x * m + up * (w * m)
      OBVIOUS
    <3>4. PICK v1 \in Nat, v2 \in Nat, v3 \in Nat : v1 = t * m /\ v2 = x * m /\ v3 = up * (w * m)
      OBVIOUS
    <3>5. (a0 + v2) + v3 = b1
      BY <3>2, <3>3, <3>4
    <3> QED BY <2>9, <2>10, <2>11, <3>1, <3>4, <3>5
  <2> QED BY <2>9, <2>11, <2>12, <2>13
<1>6. T = {}
  <2> SUFFICES ASSUME T # {} PROVE FALSE
    OBVIOUS
  <2>1. PICK k \in T : \A j \in T : k <= j
    <3>1. T \in SUBSET Nat
      BY <1>1
    <3> HIDE DEF T
    <3> QED BY <3>1, LeastOf
  <2>2. k # 0
    BY <1>4
  <2>3. k \in 1..top /\ k - 1 \in 0..top /\ k - 1 \notin T
    BY <1>1, <2>1, <2>2
  <2>4. Holds(k - 1)
    BY <2>3
  <2>5. Holds(k)
    <3> HIDE DEF Holds
    <3> QED BY <1>5, <2>3, <2>4
  <2> QED BY <2>1, <2>5
<1>7. Holds(top) /\ top \in 0..top
  BY <1>1, <1>6
<1>8. f[top].words \in Seq(Word) /\ f[top].r \in Triple /\ Len(f[top].words) = top
      /\ Val(f[top].words) + Total(f[top].r) * Weight(top) = Val(left) * Val(right)
  <2>1. Part(top) = Val(left) * Val(right)
    <3>1. top >= 2 * Len(left) - 1
      BY DEF top
    <3> QED BY <1>1, <3>1, PartsEnd DEF Part
  <2> QED BY <1>3, <1>7, <2>1
<1>9. PICK w \in Nat \ {0}, x \in Nat, up \in Nat, m \in Nat \ {0}, v \in Nat, t \in Nat :
        /\ w = W /\ x = f[top].r[1] /\ up = Above(f[top].r) /\ m = Weight(top)
        /\ v = Val(f[top].words) /\ t = Total(f[top].r) /\ t = x + w * up
  <2>1. /\ f[top].r[1] \in Word /\ Above(f[top].r) \in Nat
        /\ Total(f[top].r) = f[top].r[1] + W * Above(f[top].r)
    <3>1. f[top].r \in Triple
      BY <1>8
    <3> HIDE DEF T, len
    <3> QED BY <3>1, TotalSplit
  <2>2. W \in Nat \ {0} /\ f[top].r[1] \in Nat
    BY <2>1, WordSizes DEF Word
  <2>3. Weight(top) \in Nat \ {0}
    BY <1>1, Weights
  <2>4. Val(f[top].words) \in Nat
    BY <1>8, UptoBound
  <2>5. Total(f[top].r) \in Nat
    BY <1>3, <1>7
  <2> QED BY <2>1, <2>2, <2>3, <2>4, <2>5
<1>10. t < w
  <2>1. Val(left) * Val(right) < Weight(2 * len)
    <3>1. PICK a0 \in Nat, b0 \in Nat, d \in Nat \ {0} :
            /\ a0 = Val(left) /\ b0 = Val(right) /\ d = Weight(len) /\ a0 < d /\ b0 < d
      BY <1>1, UptoBound, Weights
    <3>2. Weight(2 * len) = d * d
      <4>1. Weight(len + len) = Weight(len) * Weight(len) /\ len + len = 2 * len
        <5> HIDE DEF len
        <5> QED BY <1>1, Weights
      <4> QED BY <3>1, <4>1
    <3>3. a0 * b0 <= d * b0 /\ (b0 + 1) * d <= d * d
      <4>1. b0 + 1 \in Nat /\ b0 + 1 <= d /\ a0 <= d
        BY <3>1
      <4> QED BY <3>1, <4>1, ProductsGrow
    <3>4. (b0 + 1) * d = d * b0 + d
      BY <3>1
    <3>5. PICK v1 \in Nat, v2 \in Nat, v3 \in Nat : v1 = a0 * b0 /\ v2 = d * b0 /\ v3 = d * d
      BY <3>1
    <3>6. v1 <= v2 /\ v2 + d <= v3
      BY <3>3, <3>4, <3>5
    <3>7. v1 < v3
      BY <3>6
    <3> QED BY <3>1, <3>2, <3>5, <3>7
  <2>2. Weight(2 * len) = w * m
    <3>1. Weight(top + 1) = W * Weight(top)
      BY <1>1, Weights
    <3> QED BY <1>1, <1>9, <3>1
  <2>3. v + t * m < w * m
    BY <1>8, <1>9, <2>1, <2>2
  <2> SUFFICES ASSUME w <= t PROVE FALSE
    BY <1>9
  <2>4. PICK v1 \in Nat, v2 \in Nat : v1 = w * m /\ v2 = t * m /\ v1 <= v2
    <3>1. w * m <= t * m /\ w * m \in Nat /\ t * m \in Nat
      BY <1>9, ProductsGrow
    <3> QED BY <3>1
  <2>5. v + v2 < v1
    BY <2>3, <2>4
  <2> QED BY <2>4, <2>5
<1>11. t = x
  <2>1. up = 0
    <3> SUFFICES ASSUME 1 <= up PROVE FALSE
      OBVIOUS
    <3>1. 1 * w <= up * w /\ 1 * w = w /\ up * w = w * up
      BY ProductsGrow
    <3>2. PICK o \in Nat : o = w * up
      OBVIOUS
    <3>3. t = x + o /\ w <= o
      BY <1>9, <3>1, <3>2
    <3> QED BY <1>10, <3>3
  <2>2. w * 0 = 0
    OBVIOUS
  <2> QED BY <1>9, <2>1, <2>2
<1>12. /\ VliMult(left, right) \in Seq(Word) /\ Len(VliMult(left, right)) = top + 1
       /\ Val(VliMult(left, right)) = v + x * m
  <2>1. f[top].r[1] \in Word
    BY <1>8 DEF Triple
  <2> QED BY <1>2, <1>8, <1>9, <2>1, AppendValue
<1> QED BY <1>1, <1>8, <1>9, <1>11, <1>12

------------------------------------------------------------------------------
(* Numbers put together and taken apart *)

\* A VLI of one word stands for that word.
LEMMA OneWord ==
    ASSUME NEW v \in Seq(Word), Len(v) = 1
    PROVE  Val(v) = v[1]
<1>1. 1 \in 1..Len(v) /\ 1 - 1 = 0
  OBVIOUS
<1>2. Val(v) = Upto(v)[1] /\ Upto(v)[0] = 0
  <2>1. 1 \in 0..Len(v) /\ 0 \in 0..Len(v)
    OBVIOUS
  <2> QED BY UptoBound, ValueUpto DEF IsUpto
<1>3. Upto(v)[1] = Upto(v)[0] + v[1] * Weight(0)
  BY <1>1, UptoStep
<1>4. v[1] \in Nat
  <2>1. v[1] \in Word
    BY <1>1, ElementOfSeq
  <2> QED BY <2>1 DEF Word
<1> QED BY <1>2, <1>3, <1>4, Weights

\* Zeros stand for zero.
LEMMA ZerosValue ==
    ASSUME NEW len \in Nat
    PROVE  Zeros(len) \in Seq(Word) /\ Len(Zeros(len)) = len /\ Val(Zeros(len)) = 0
<1>1. \A i \in 1..len : (0 \div Weight(i - 1)) % W = 0
  <2> SUFFICES ASSUME NEW i \in 1..len PROVE (0 \div Weight(i - 1)) % W = 0
    OBVIOUS
  <2>1. PICK m \in Nat \ {0}, w \in Nat \ {0} : m = Weight(i - 1) /\ w = W
    <3>1. i - 1 \in Nat
      OBVIOUS
    <3>2. Weight(i - 1) \in Nat \ {0}
      BY <3>1, Weights
    <3>3. W \in Nat \ {0}
      BY WordSizes
    <3> QED BY <3>2, <3>3
  <2>2. (0 \div m) % w = 0
    OBVIOUS
  <2> QED BY <2>1, <2>2
<1>2. Zeros(len) = Digits(len, 0)
  BY <1>1 DEF Zeros, Digits
<1>3. 0 < Weight(len)
  BY Weights
<1> QED BY <1>2, <1>3, DigitsValue

\* The upper part counts with the weight of its place.
LEMMA ConcatValue ==
    ASSUME NEW u \in Seq(Word), NEW v \in Seq(Word)
    PROVE  /\ u \o v \in Seq(Word) /\ Len(u \o v) = Len(u) + Len(v)
           /\ Val(u \o v) = Val(u) + Weight(Len(u)) * Val(v)
<1> DEFINE s == u \o v
           m == Weight(Len(u))
           Holds(i) == Upto(s)[Len(u) + i] = Val(u) + m * Upto(v)[i]
           T == {i \in 0..Len(v) : ~Holds(i)}
<1>1. /\ s \in Seq(Word) /\ Len(s) = Len(u) + Len(v) /\ Len(u) \in Nat /\ Len(v) \in Nat
      /\ \A i \in 1..Len(u) : s[i] = u[i]
      /\ \A i \in 1..Len(v) : s[Len(u) + i] = v[i] /\ v[i] \in Nat
  <2>1. /\ s \in Seq(Word) /\ Len(s) = Len(u) + Len(v)
        /\ \A i \in 1 .. Len(u) + Len(v) : s[i] = IF i <= Len(u) THEN u[i] ELSE v[i - Len(u)]
    BY ConcatProperties
  <2>2. Len(u) \in Nat /\ Len(v) \in Nat
    BY LenProperties
  <2>3. \A i \in 1..Len(u) : s[i] = u[i]
    BY <2>1, <2>2
  <2>4. ASSUME NEW i \in 1..Len(v) PROVE s[Len(u) + i] = v[i] /\ v[i] \in Nat
    <3>1. Len(u) + i \in 1 .. Len(u) + Len(v) /\ ~(Len(u) + i <= Len(u)) /\ (Len(u) + i) - Len(u) = i
      BY <2>2
    <3>2. v[i] \in Nat
      <4>1. v[i] \in Word
        BY ElementOfSeq
      <4> QED BY <4>1 DEF Word
    <3> QED BY <2>1, <3>1, <3>2
  <2> QED BY <2>1, <2>2, <2>3, <2>4
<1> HIDE DEF s
<1>2. m \in Nat
  BY <1>1, Weights
<1> HIDE DEF m
<1>3. Holds(0)
  <2>1. Upto(s)[Len(u)] = Upto(u)[Len(u)]
    <3>1. Len(u) <= Len(s) /\ Len(u) <= Len(u)
      BY <1>1
    <3> QED BY <1>1, <3>1, SamePrefix
  <2>2. Val(u) = Upto(u)[Len(u)] /\ Upto(v)[0] = 0 /\ Val(u) \in Nat
    BY UptoBound, ValueUpto DEF IsUpto
  <2>3. m * 0 = 0 /\ Len(u) + 0 = Len(u)
    BY <1>1, <1>2
  <2> QED BY <2>1, <2>2, <2>3
<1>4. T = {}
  <2> SUFFICES ASSUME T # {} PROVE FALSE
    OBVIOUS
  <2>1. PICK i \in T : \A j \in T : i <= j
    <3>1. T \in SUBSET Nat
      BY <1>1
    <3> HIDE DEF T
    <3> QED BY <3>1, LeastOf
  <2>2. i # 0
    BY <1>3
  <2>3. /\ i \in 1..Len(v) /\ i - 1 \in 0..Len(v) /\ i - 1 \notin T /\ i - 1 \in Nat
    BY <1>1, <2>1, <2>2
  <2>4. Holds(i - 1)
    BY <2>3
  <2> HIDE DEF T
  <2>5. PICK k \in 1..Len(s) : k = Len(u) + i /\ k - 1 = Len(u) + (i - 1)
    BY <1>1, <2>3
  <2>6. Upto(s)[k] = Upto(s)[k - 1] + s[k] * Weight(k - 1)
    BY <1>1, UptoStep
  <2>7. /\ Upto(v)[i] = Upto(v)[i - 1] + v[i] * Weight(i - 1) /\ Upto(v)[i - 1] \in Nat
    BY <2>3, UptoStep
  <2>8. Weight(k - 1) = m * Weight(i - 1) /\ Weight(i - 1) \in Nat
    <3>1. Weight(Len(u) + (i - 1)) = Weight(Len(u)) * Weight(i - 1)
      BY <1>1, <2>3, Weights
    <3>2. Weight(i - 1) \in Nat
      BY <2>3, Weights
    <3> QED BY <2>5, <3>1, <3>2 DEF m
  <2>9. PICK x \in Nat, y \in Nat, z \in Nat, a0 \in Nat :
          x = v[i] /\ y = Weight(i - 1) /\ z = Upto(v)[i - 1] /\ a0 = Val(u)
    BY <1>1, <2>3, <2>7, <2>8, UptoBound
  <2>10. m * (z + x * y) = m * z + x * (m * y)
    BY <1>2
  <2>11. m * z \in Nat /\ x * (m * y) \in Nat
    BY <1>2
  <2>12. Upto(s)[k] = (a0 + m * z) + x * (m * y)
    <3>1. Upto(s)[k - 1] = a0 + m * z
      BY <2>4, <2>5, <2>9
    <3>2. s[k] = x
      BY <1>1, <2>3, <2>5, <2>9
    <3> QED BY <2>6, <2>8, <2>9, <3>1, <3>2
  <2>13. Upto(s)[k] = a0 + m * (z + x * y)
    BY <2>10, <2>11, <2>12
  <2>14. Holds(i)
    BY <2>5, <2>7, <2>9, <2>13
  <2> QED BY <2>1, <2>14 DEF T
<1>5. Holds(Len(v))
  BY <1>1, <1>4
<1>6. Val(s) = Upto(s)[Len(s)] /\ Val(v) = Upto(v)[Len(v)]
  BY <1>1, UptoBound, ValueUpto
<1> QED BY <1>1, <1>5, <1>6 DEF s, m

\* A number is its low words and the weighted rest.
LEMMA SplitValue ==
    ASSUME NEW v \in Seq(Word), NEW k \in 0..Len(v)
    PROVE  /\ SubSeq(v, 1, k) \in Seq(Word) /\ Len(SubSeq(v, 1, k)) = k
           /\ SubSeq(v, k + 1, Len(v)) \in Seq(Word) /\ Len(SubSeq(v, k + 1, Len(v))) = Len(v) - k
           /\ Val(v) = Val(SubSeq(v, 1, k)) + Weight(k) * Val(SubSeq(v, k + 1, Len(v)))
<1>1. Len(v) \in Nat /\ \A i \in 1..Len(v) : v[i] \in Word
  BY LenProperties, ElementOfSeq
<1>2. SubSeq(v, 1, k) \in Seq(Word) /\ Len(SubSeq(v, 1, k)) = k
  <2>1. \A i \in 1..k : v[i] \in Word
    BY <1>1
  <2>2. 1 \in Int /\ k \in Int
    BY <1>1
  <2>3. /\ SubSeq(v, 1, k) \in Seq(Word)
        /\ Len(SubSeq(v, 1, k)) = IF 1 <= k THEN k - 1 + 1 ELSE 0
    BY <2>1, <2>2, SubSeqProperties
  <2> QED BY <1>1, <2>3
<1>3. SubSeq(v, k + 1, Len(v)) \in Seq(Word) /\ Len(SubSeq(v, k + 1, Len(v))) = Len(v) - k
  <2>1. PICK o \in Int, l \in Int : o = k + 1 /\ l = Len(v) /\ \A i \in o..l : v[i] \in Word
    BY <1>1
  <2>2. /\ SubSeq(v, o, l) \in Seq(Word)
        /\ Len(SubSeq(v, o, l)) = IF o <= l THEN l - o + 1 ELSE 0
    BY <2>1, SubSeqProperties
  <2> QED BY <1>1, <2>1, <2>2
<1>4. SubSeq(v, 1, k) \o SubSeq(v, k + 1, Len(v)) = v
  <2>1. /\ 1 \in 1 .. Len(v) + 1 /\ k \in 1 - 1 .. Len(v) /\ Len(v) \in k .. Len(v)
    BY <1>1
  <2>2. SubSeq(v, 1, k) \o SubSeq(v, k + 1, Len(v)) = SubSeq(v, 1, Len(v))
    BY <2>1, ConcatAdjacentSubSeq
  <2>3. SubSeq(v, 1, Len(v)) = v
    BY GrowByAppend
  <2> QED BY <2>2, <2>3
<1> QED BY <1>2, <1>3, <1>4, ConcatValue, ZenonT(60)

------------------------------------------------------------------------------
(* The fast reduction *)

\* The same, for a word.
LEMMA SingleWord ==
    ASSUME NEW x \in Word
    PROVE  <<x>> \in Seq(Word) /\ Len(<<x>>) = 1 /\ Val(<<x>>) = x
<1>1. <<x>> \in Seq(Word) /\ Len(<<x>>) = 1 /\ <<x>>[1] = x
  OBVIOUS
<1> QED BY <1>1, OneWord

\* omega_mult multiplies by half the size of a word plus one.
LEMMA OmegaExact ==
    ASSUME NEW right \in Seq(Word), Len(right) = NumWords
    PROVE  /\ OmegaMult(right) \in Seq(Word) /\ Len(OmegaMult(right)) = 2 * NumWords
           /\ Val(OmegaMult(right)) = Val(right) * (HalfWord + 1)
<1>1. NumWords \in Nat /\ NumWords >= 2 /\ right[1] \in Word
  <2>1. NumWords \in Nat /\ NumWords >= 2
    BY WordSizes
  <2>2. 1 \in 1..Len(right)
    BY <2>1
  <2> QED BY <2>1, <2>2, ElementOfSeq
<1> DEFINE rsh == VliRshift1(right)
           low == (right[1] * (W \div 2)) % W
           shifted == <<low>> \o rsh
<1>2. PICK half \in Nat \ {0}, w \in Nat, t \in Nat, v \in Nat, y \in Nat :
        /\ half = HalfWord /\ w = W /\ w = 2 * half /\ t = right[1] % 2 /\ (t = 0 \/ t = 1)
        /\ v = Val(right) /\ y = Val(rsh) /\ v = 2 * y + t
        /\ rsh \in Seq(Word) /\ Len(rsh) = NumWords
  <2>1. /\ rsh \in Seq(Word) /\ Len(rsh) = NumWords
        /\ right[1] % 2 \in {0, 1} /\ Val(right) = 2 * Val(rsh) + (right[1] % 2)
    BY <1>1, Rshift1Exact
  <2>2. HalfWord \in Nat \ {0} /\ W = 2 * HalfWord /\ W \in Nat
    BY HalfWords
  <2>3. Val(right) \in Nat
    BY UptoBound
  <2>4. Val(rsh) \in Nat
    BY <2>1, UptoBound
  <2>5. PICK t \in Nat : t = right[1] % 2 /\ (t = 0 \/ t = 1)
    BY <2>1
  <2> HIDE DEF rsh
  <2> QED BY <2>1, <2>2, <2>3, <2>4, <2>5
<1>3. low = t * half /\ low \in Word
  <2>1. low = t * half
    BY <1>1, <1>2, HalfWords
  <2>2. t * half = 0 \/ t * half = half
    BY <1>2
  <2> HIDE DEF low, shifted, rsh
  <2>3. 0 \in Word /\ half \in Word
    BY <1>2 DEF Word
  <2> QED BY <2>1, <2>2, <2>3
<1> HIDE DEF rsh, low
<1>4. /\ shifted \in Seq(Word) /\ Len(shifted) = NumWords + 1
      /\ Val(shifted) = v * half
  <2>1. <<low>> \in Seq(Word) /\ Len(<<low>>) = 1 /\ Val(<<low>>) = low
    BY <1>3, SingleWord
  <2>2. /\ shifted \in Seq(Word) /\ Len(shifted) = 1 + NumWords
        /\ Val(shifted) = low + Weight(1) * y
    BY <1>2, <2>1, ConcatValue, ZenonT(40)
  <2>3. Weight(1) = w
    <3>1. Weight(0) = 1 /\ Weight(0 + 1) = W * Weight(0) /\ 0 + 1 = 1
      BY Weights
    <3>2. w * 1 = w
      BY <1>2
    <3> QED BY <1>2, <3>1, <3>2
  <2>4. t * half + (2 * half) * y = (2 * y + t) * half
    OBVIOUS
  <2> QED BY <1>1, <1>2, <1>3, <2>2, <2>3, <2>4
<1> HIDE DEF shifted
<1> DEFINE lo == Low(shifted)
           sum == VliAdd(lo, right)
           top == shifted[NumWords + 1] + sum.carry
           zeros == Zeros(NumWords - 2)
<1>5. PICK m \in Nat \ {0} : m = Weight(NumWords)
  BY <1>1, Weights
<1>6. /\ lo \in Seq(Word) /\ Len(lo) = NumWords /\ shifted[NumWords + 1] \in Word
      /\ v * half = Val(lo) + m * shifted[NumWords + 1]
  <2>1. NumWords \in 0..Len(shifted) /\ NumWords + 1 \in 1..Len(shifted)
    BY <1>1, <1>4
  <2> DEFINE hi == SubSeq(shifted, NumWords + 1, Len(shifted))
  <2>2. /\ lo \in Seq(Word) /\ Len(lo) = NumWords /\ hi \in Seq(Word)
        /\ Len(hi) = Len(shifted) - NumWords
        /\ Val(shifted) = Val(lo) + Weight(NumWords) * Val(hi)
    BY <1>4, <2>1, SplitValue DEF Low
  <2>3. hi[1] = shifted[NumWords + 1]
    <3>1. PICK o \in Int : o = NumWords + 1
      BY <1>1
    <3>2. \A i \in o..o : shifted[i] \in Word
      BY <1>4, <2>1, <3>1, ElementOfSeq
    <3>3. \A i \in 1 .. o - o + 1 : SubSeq(shifted, o, o)[i] = shifted[o + i - 1]
      BY <3>2, SubSeqProperties
    <3>4. 1 \in 1 .. o - o + 1 /\ o + 1 - 1 = o
      BY <3>1
    <3> QED BY <1>4, <3>1, <3>3, <3>4
  <2>4. Val(hi) = hi[1]
    <3>1. Len(hi) = 1
      BY <1>1, <1>4, <2>2
    <3> QED BY <2>2, <3>1, OneWord
  <2>5. shifted[NumWords + 1] \in Word
    BY <1>4, <2>1, ElementOfSeq
  <2> QED BY <1>4, <1>5, <2>2, <2>3, <2>4, <2>5
<1> HIDE DEF lo
<1>7. PICK c \in Nat, s \in Nat, x \in Nat, u \in Nat :
        /\ c = sum.carry /\ (c = 0 \/ c = 1) /\ s = Val(sum.words) /\ x = Val(lo)
        /\ u = shifted[NumWords + 1] /\ u < w /\ x + v = s + c * m
        /\ sum.words \in Seq(Word) /\ Len(sum.words) = NumWords
  <2>1. /\ sum.words \in Seq(Word) /\ Len(sum.words) = NumWords /\ sum.carry \in {0, 1}
        /\ Val(lo) + Val(right) = Val(sum.words) + sum.carry * Weight(NumWords)
    BY <1>6, AddExact
  <2> HIDE DEF sum
  <2>2. PICK c \in Nat : c = sum.carry /\ (c = 0 \/ c = 1)
    BY <2>1
  <2>3. Val(sum.words) \in Nat
    BY <2>1, UptoBound
  <2>4. Val(lo) \in Nat
    BY <1>6, UptoBound
  <2>5. shifted[NumWords + 1] \in Nat /\ shifted[NumWords + 1] < w
    <3>1. shifted[NumWords + 1] \in 0..(w - 1)
      BY <1>2, <1>6 DEF Word
    <3> QED BY <3>1
  <2> QED BY <1>2, <1>5, <2>1, <2>2, <2>3, <2>4, <2>5
<1> HIDE DEF sum
<1>8. PICK z \in Nat, q \in Word, d \in Word : z = top /\ z = u + c /\ q = top \div W /\ d = top % W /\ z = q * w + d
  <2>0. top = u + c
    BY <1>7
  <2>1. PICK z \in Nat : z = top /\ z = u + c /\ z < w + w
    <3> HIDE DEF top
    <3>1. u + c \in Nat /\ u + c < w + w
      <4>1. (c = 0 \/ c = 1) /\ u < w
        BY <1>7
      <4> QED BY <4>1
    <3> QED BY <2>0, <3>1
  <2> HIDE DEF top
  <2>2. z \div w \in Nat /\ z % w \in Nat /\ z % w < w /\ z = (z \div w) * w + (z % w)
    <3>1. w \in Nat \ {0}
      BY <1>2
    <3> QED BY <3>1, Divided
  <2>3. z \div w < w
    <3>1. PICK o \in Nat, d \in Nat : o = z \div w /\ d = z % w /\ z = o * w + d
      BY <2>2
    <3> SUFFICES ASSUME 2 <= o PROVE FALSE
      BY <1>2, <3>1
    <3>2. 2 * w <= o * w
      BY <1>2, ProductsGrow
    <3>3. PICK a0 \in Nat : a0 = o * w
      BY <1>2
    <3> QED BY <2>1, <3>1, <3>2, <3>3
  <2>4. z \div w \in Word /\ z % w \in Word
    <3>1. PICK o \in Nat, d \in Nat : o = z \div w /\ d = z % w /\ o < w /\ d < w
      BY <2>2, <2>3
    <3>2. o \in 0..(w - 1) /\ d \in 0..(w - 1)
      BY <3>1
    <3> QED BY <1>2, <3>1, <3>2 DEF Word
  <2> QED BY <1>2, <2>1, <2>2, <2>4
<1>9. /\ zeros \in Seq(Word) /\ Len(zeros) = NumWords - 2 /\ Val(zeros) = 0
  <2>1. NumWords - 2 \in Nat
    BY <1>1
  <2> QED BY <2>1, ZerosValue
<1> HIDE DEF zeros, top
<1>10. OmegaMult(right) = ((sum.words \o <<d>>) \o <<q>>) \o zeros
  BY <1>8 DEF OmegaMult, zeros, top, sum, lo, shifted, rsh, low
<1>11. /\ sum.words \o <<d>> \in Seq(Word) /\ Len(sum.words \o <<d>>) = NumWords + 1
       /\ Val(sum.words \o <<d>>) = s + m * d
  <2>1. <<d>> \in Seq(Word) /\ Len(<<d>>) = 1 /\ Val(<<d>>) = d
    BY SingleWord
  <2>2. sum.words \in Seq(Word) /\ Len(sum.words) = NumWords
    BY <1>7
  <2>3. /\ sum.words \o <<d>> \in Seq(Word)
        /\ Len(sum.words \o <<d>>) = Len(sum.words) + Len(<<d>>)
        /\ Val(sum.words \o <<d>>) = Val(sum.words) + Weight(Len(sum.words)) * Val(<<d>>)
    BY <2>1, <2>2, ConcatValue
  <2> QED BY <1>5, <1>7, <2>1, <2>3
<1>12. /\ (sum.words \o <<d>>) \o <<q>> \in Seq(Word)
       /\ Len((sum.words \o <<d>>) \o <<q>>) = NumWords + 2
       /\ Val((sum.words \o <<d>>) \o <<q>>) = (s + m * d) + (w * m) * q
  <2>1. Weight(NumWords + 1) = w * m
    BY <1>1, <1>2, <1>5, Weights
  <2>2. (NumWords + 1) + 1 = NumWords + 2
    BY <1>1
  <2>3. <<q>> \in Seq(Word) /\ Len(<<q>>) = 1 /\ Val(<<q>>) = q
    BY SingleWord
  <2> DEFINE lower == sum.words \o <<d>>
  <2>4. lower \in Seq(Word) /\ Len(lower) = NumWords + 1 /\ Val(lower) = s + m * d
    BY <1>11
  <2> HIDE DEF lower
  <2>5. /\ lower \o <<q>> \in Seq(Word)
        /\ Len(lower \o <<q>>) = Len(lower) + Len(<<q>>)
        /\ Val(lower \o <<q>>) = Val(lower) + Weight(Len(lower)) * Val(<<q>>)
    BY <2>3, <2>4, ConcatValue
  <2>6. Weight(Len(lower)) = w * m
    BY <2>1, <2>4
  <2> QED BY <2>2, <2>3, <2>4, <2>5, <2>6 DEF lower
<1>13. /\ OmegaMult(right) \in Seq(Word) /\ Len(OmegaMult(right)) = 2 * NumWords
       /\ Val(OmegaMult(right)) = (s + m * d) + (w * m) * q
  <2>1. /\ OmegaMult(right) \in Seq(Word)
        /\ Len(OmegaMult(right)) = (NumWords + 2) + (NumWords - 2)
        /\ Val(OmegaMult(right)) = ((s + m * d) + (w * m) * q) + Weight(NumWords + 2) * 0
    BY <1>9, <1>10, <1>12, ConcatValue
  <2>2. (NumWords + 2) + (NumWords - 2) = 2 * NumWords
    BY <1>1
  <2>3. Weight(NumWords + 2) * 0 = 0
    <3>1. NumWords + 2 \in Nat
      BY <1>1
    <3>2. Weight(NumWords + 2) \in Nat
      BY <3>1, Weights
    <3> QED BY <3>2
  <2>4. (s + m * d) + (w * m) * q \in Nat
    <3>1. d \in Nat /\ q \in Nat
      BY DEF Word
    <3> QED BY <3>1
  <2> QED BY <2>1, <2>2, <2>3, <2>4
<1>14. (s + m * d) + (w * m) * q = v * (half + 1)
  <2>1. PICK d1 \in Nat, q1 \in Nat : d1 = d /\ q1 = q
    BY DEF Word
  <2>2. m * (q1 * w + d1) = m * d1 + (w * m) * q1
    OBVIOUS
  <2>3. m * (u + c) = m * u + c * m /\ v * (half + 1) = v * half + v
    OBVIOUS
  <2>4. PICK a0 \in Nat, b0 \in Nat, c0 \in Nat, d0 \in Nat, e0 \in Nat :
          a0 = m * d1 /\ b0 = (w * m) * q1 /\ c0 = m * u /\ d0 = c * m /\ e0 = v * half
    OBVIOUS
  <2>5. u + c = q1 * w + d1
    BY <1>8, <2>1
  <2>6. a0 + b0 = c0 + d0
    BY <2>2, <2>3, <2>4, <2>5
  <2>7. e0 = x + c0 /\ x + v = s + d0
    BY <1>6, <1>7, <2>4
  <2>8. (s + a0) + b0 = e0 + v
    BY <2>6, <2>7
  <2> QED BY <2>1, <2>3, <2>4, <2>8
<1> QED BY <1>2, <1>13, <1>14

\* The loop over the carry, for the carries that occur.
LEMMA SubTimesUpToOnce ==
    ASSUME NEW v, NEW mod, NEW times \in {0, 1}
    PROVE  SubTimes(v, mod, times) = IF times = 0 THEN v ELSE VliSub(v, mod).words
<1> DEFINE Eqn(f) == f = [i \in 0..times |-> IF i = 0 THEN v ELSE VliSub(f[i - 1], mod).words]
           g == [i \in 0..times |-> IF i = 0 THEN v ELSE VliSub(v, mod).words]
<1>1. Eqn(g)
  <2>1. \A i \in 0..times : i # 0 => i - 1 = 0 /\ 0 \in 0..times
    OBVIOUS
  <2>2. \A i \in 0..times : g[i] = IF i = 0 THEN v ELSE VliSub(g[i - 1], mod).words
    BY <2>1
  <2>3. g = [i \in 0..times |-> g[i]]
    OBVIOUS
  <2> HIDE DEF g
  <2> QED BY <2>2, <2>3
<1>2. SubTimes(v, mod, times) = (CHOOSE f : Eqn(f))[times]
  BY Zenon DEF SubTimes
<1> HIDE DEF Eqn
<1>3. PICK f : Eqn(f) /\ SubTimes(v, mod, times) = f[times]
  BY <1>1, <1>2
<1> USE DEF Eqn
<1>4. f[0] = v
  <2>1. 0 \in 0..times
    OBVIOUS
  <2> QED BY <1>3, <2>1
<1>5. CASE times = 0
  BY <1>3, <1>4, <1>5
<1>6. CASE times = 1
  <2>1. 1 \in 0..times /\ 1 - 1 = 0 /\ 1 # 0
    BY <1>6
  <2>2. f[1] = VliSub(f[0], mod).words
    BY <1>3, <2>1
  <2> QED BY <1>3, <1>4, <1>6, <2>2
<1> QED BY <1>5, <1>6

\* Half the size of a word plus one is small against the numbers of NumWords words.
LEMMA OmegaSmall ==
    ASSUME NEW m \in Nat, m = Weight(NumWords), NEW om \in Nat, om = HalfWord + 1
    PROVE  om >= 2 /\ om * om <= m /\ 2 * om <= m
<1>1. PICK half \in Nat \ {0}, w \in Nat : half = HalfWord /\ w = W /\ w = 2 * half
  BY HalfWords
<1>2. w * w <= m
  <2>1. NumWords \in Nat /\ NumWords >= 2
    BY WordSizes
  <2>2. PICK k \in Nat : NumWords = 2 + k
    <3>1. NumWords - 2 \in Nat /\ NumWords = 2 + (NumWords - 2)
      BY <2>1
    <3> QED BY <3>1
  <2>3. Weight(2) = w * w
    <3>1. Weight(0) = 1 /\ Weight(0 + 1) = W * Weight(0) /\ Weight(1 + 1) = W * Weight(1)
      BY Weights
    <3>2. 0 + 1 = 1 /\ 1 + 1 = 2 /\ w * 1 = w
      OBVIOUS
    <3> QED BY <1>1, <3>1, <3>2
  <2>4. PICK o \in Nat \ {0} : o = Weight(k) /\ m = (w * w) * o
    <3>1. Weight(2 + k) = Weight(2) * Weight(k) /\ Weight(k) \in Nat \ {0}
      BY Weights
    <3> QED BY <2>2, <2>3, <3>1
  <2>5. PICK s \in Nat : s = w * w
    OBVIOUS
  <2>6. 1 * s <= o * s /\ o * s = s * o
    BY ProductsGrow
  <2> QED BY <2>4, <2>5, <2>6
<1>3. om <= w /\ om >= 2 /\ w >= 2
  BY <1>1
<1>4. om * om <= w * w
  <2>1. om * om <= w * om /\ om * w <= w * w /\ w * om = om * w
    BY <1>3, ProductsGrow
  <2>2. PICK x1 \in Nat, x2 \in Nat, x3 \in Nat : x1 = om * om /\ x2 = om * w /\ x3 = w * w
    OBVIOUS
  <2> QED BY <2>1, <2>2
<1>5. 2 * om <= om * om
  BY <1>3, ProductsGrow
<1>6. PICK x1 \in Nat, x2 \in Nat : x1 = om * om /\ x2 = w * w
  OBVIOUS
<1> QED BY <1>2, <1>3, <1>4, <1>5, <1>6

\* What vli_mmod_fast_secp160r1 has folded together before it subtracts.
Folded(x) ==
    LET size  == Weight(NumWords)
        omega == HalfWord + 1
        q     == (x \div size) * omega
    IN  (x % size) + (q % size) + (q \div size) * omega

\* If the foldings fit, the result is congruent to the product and at most p.
LEMMA MmodFastNear ==
    ASSUME NEW product \in Seq(Word), Len(product) = 2 * NumWords,
           NEW mod \in Seq(Word), Len(mod) = NumWords,
           Val(mod) = Weight(NumWords) - (HalfWord + 1),
           Folded(Val(product)) < Weight(NumWords) + Val(mod)
    PROVE  /\ Val(MmodFast(product, mod)) \in 0..Val(mod)
           /\ \E k \in Nat : Val(product) = Val(MmodFast(product, mod)) + k * Val(mod)
<1>1. NumWords \in Nat /\ NumWords >= 1 /\ NumWords \in 0..Len(product)
      /\ Len(product) - NumWords = NumWords
  BY WordSizes
<1>2. PICK m \in Nat \ {0}, om \in Nat, top \in Nat :
        m = Weight(NumWords) /\ om = HalfWord + 1 /\ top = Val(mod) /\ m = top + om
  <2>1. HalfWord + 1 \in Nat
    BY HalfWords
  <2>2. Weight(NumWords) \in Nat \ {0}
    BY <1>1, Weights
  <2>3. Val(mod) \in Nat
    BY UptoBound
  <2>4. PICK om \in Nat : om = HalfWord + 1
    BY <2>1
  <2> QED BY <2>2, <2>3, <2>4
<1>3. om >= 2 /\ om * om <= m /\ 2 * om <= m
  BY <1>2, OmegaSmall
<1> DEFINE lo == Low(product)
           hi == High(product)
<1>4. /\ lo \in Seq(Word) /\ Len(lo) = NumWords /\ hi \in Seq(Word) /\ Len(hi) = NumWords
      /\ Val(product) = Val(lo) + m * Val(hi)
  BY <1>1, <1>2, SplitValue, ZenonT(40) DEF Low, High
<1> HIDE DEF lo, hi
<1>5. PICK a0 \in Nat, b0 \in Nat, x \in Nat :
        a0 = Val(lo) /\ b0 = Val(hi) /\ x = Val(product) /\ a0 < m /\ x = b0 * m + a0
  <2>1. Val(lo) \in Nat /\ Val(lo) < m
    BY <1>2, <1>4, UptoBound
  <2>2. Val(hi) \in Nat
    BY <1>4, UptoBound
  <2>3. Val(product) \in Nat
    BY UptoBound
  <2> QED BY <1>4, <2>1, <2>2, <2>3
<1>6. x % m = a0 /\ x \div m = b0
  <2>1. a0 < m /\ x = b0 * m + a0
    BY <1>5
  <2>2. (b0 * m + a0) % m = a0 /\ (b0 * m + a0) \div m = b0
    BY <2>1, Division
  <2> QED BY <2>1, <2>2
<1> DEFINE q == OmegaMult(hi)
           qlo == Low(q)
           qhi == High(q)
<1>7. /\ q \in Seq(Word) /\ Len(q) = 2 * NumWords /\ Val(q) = b0 * om
  BY <1>2, <1>4, <1>5, OmegaExact
<1> HIDE DEF q
<1>8. /\ qlo \in Seq(Word) /\ Len(qlo) = NumWords /\ qhi \in Seq(Word) /\ Len(qhi) = NumWords
      /\ Val(q) = Val(qlo) + m * Val(qhi)
  <2>1. NumWords \in 0..Len(q) /\ Len(q) - NumWords = NumWords
    BY <1>1, <1>7
  <2>2. PICK l \in Nat : l = Len(q) /\ l = 2 * NumWords
    BY <1>1, <1>7
  <2>3. /\ SubSeq(q, 1, NumWords) \in Seq(Word) /\ Len(SubSeq(q, 1, NumWords)) = NumWords
        /\ SubSeq(q, NumWords + 1, Len(q)) \in Seq(Word)
        /\ Len(SubSeq(q, NumWords + 1, Len(q))) = Len(q) - NumWords
        /\ Val(q) = Val(SubSeq(q, 1, NumWords))
                      + Weight(NumWords) * Val(SubSeq(q, NumWords + 1, Len(q)))
    BY <1>7, <2>1, SplitValue
  <2>4. qlo = SubSeq(q, 1, NumWords) /\ qhi = SubSeq(q, NumWords + 1, Len(q))
    BY <2>2 DEF Low, High
  <2> HIDE DEF qlo, qhi
  <2> QED BY <1>2, <2>1, <2>3, <2>4
<1> HIDE DEF qlo, qhi
<1>9. PICK q0 \in Nat, q1 \in Nat :
        q0 = Val(qlo) /\ q1 = Val(qhi) /\ q0 < m /\ b0 * om = q1 * m + q0
  <2>1. Val(qlo) \in Nat /\ Val(qlo) < m
    BY <1>2, <1>8, UptoBound
  <2>2. Val(qhi) \in Nat
    BY <1>8, UptoBound
  <2> QED BY <1>7, <1>8, <2>1, <2>2
<1>10. (b0 * om) % m = q0 /\ (b0 * om) \div m = q1
  <2>1. q0 < m /\ b0 * om = q1 * m + q0
    BY <1>9
  <2>2. (q1 * m + q0) % m = q0 /\ (q1 * m + q0) \div m = q1
    BY <2>1, Division
  <2> QED BY <2>1, <2>2
<1>11. PICK sum \in Nat : sum = a0 + q0 + q1 * om /\ sum < m + top
  <2>1. Folded(x) = a0 + q0 + q1 * om
    BY <1>2, <1>6, <1>10 DEF Folded
  <2>2. a0 + q0 + q1 * om \in Nat
    OBVIOUS
  <2>3. PICK o \in Nat : o = a0 + q0 + q1 * om
    BY <2>2
  <2> QED BY <1>2, <1>5, <2>1, <2>3
<1>12. q1 * om < m
  <2>1. q1 < om
    <3> SUFFICES ASSUME om <= q1 PROVE FALSE
      OBVIOUS
    <3>1. b0 < m
      BY <1>2, <1>4, <1>5, UptoBound
    <3>2. om * m <= q1 * m /\ b0 * om <= m * om /\ (b0 + 1) * om <= m * om /\ m * om = om * m
      <4>1. b0 + 1 \in Nat /\ b0 + 1 <= m /\ b0 <= m
        BY <3>1
      <4>2. PICK o \in Nat : o = b0 + 1 /\ o <= m
        BY <4>1
      <4>3. om * m <= q1 * m
        BY ProductsGrow
      <4>4. b0 * om <= m * om /\ o * om <= m * om
        BY <4>1, <4>2, ProductsGrow
      <4> QED BY <4>2, <4>3, <4>4
    <3>3. (b0 + 1) * om = b0 * om + om
      OBVIOUS
    <3>4. PICK v1 \in Nat, v2 \in Nat, v3 \in Nat : v1 = b0 * om /\ v2 = q1 * m /\ v3 = om * m
      OBVIOUS
    <3>5. v1 = v2 + q0 /\ v3 <= v2 /\ v1 + om <= v3
      BY <1>9, <3>2, <3>3, <3>4
    <3> QED BY <1>3, <3>5
  <2>2. PICK o \in Nat : o = q1 + 1 /\ o <= om
    BY <2>1
  <2>3. o * om <= om * om /\ o * om = q1 * om + om
    BY <2>2, ProductsGrow
  <2>4. PICK v1 \in Nat, v2 \in Nat : v1 = q1 * om /\ v2 = om * om
    OBVIOUS
  <2> QED BY <1>3, <2>3, <2>4
<1> DEFINE fold == OmegaMult(qhi)
           flo == Low(fold)
<1>13. flo \in Seq(Word) /\ Len(flo) = NumWords /\ Val(flo) = q1 * om
  <2>1. /\ fold \in Seq(Word) /\ Len(fold) = 2 * NumWords /\ Val(fold) = q1 * om
    BY <1>2, <1>8, <1>9, OmegaExact
  <2> HIDE DEF fold
  <2> DEFINE fhi == SubSeq(fold, NumWords + 1, Len(fold))
  <2>2. NumWords \in 0..Len(fold)
    BY <1>1, <2>1
  <2>3. /\ flo \in Seq(Word) /\ Len(flo) = NumWords /\ fhi \in Seq(Word)
        /\ Val(fold) = Val(flo) + m * Val(fhi)
    BY <1>2, <2>1, <2>2, SplitValue DEF Low
  <2> HIDE DEF flo, fhi
  <2>4. PICK v1 \in Nat, v2 \in Nat, v3 \in Nat : v1 = Val(flo) /\ v2 = Val(fhi) /\ v3 = q1 * om
    BY <2>3, UptoBound
  <2>5. v3 = v1 + m * v2 /\ v3 < m
    BY <1>12, <2>1, <2>3, <2>4
  <2>6. v2 = 0
    <3> SUFFICES ASSUME 1 <= v2 PROVE FALSE
      OBVIOUS
    <3>1. 1 * m <= v2 * m /\ v2 * m = m * v2
      BY ProductsGrow
    <3>2. PICK o \in Nat : o = m * v2
      OBVIOUS
    <3> QED BY <2>5, <3>1, <3>2
  <2>7. m * 0 = 0
    OBVIOUS
  <2> QED BY <2>3, <2>4, <2>5, <2>6, <2>7
<1> HIDE DEF fold, flo
<1> DEFINE once == VliAdd(lo, qlo)
           twice == VliAdd(once.words, flo)
<1>14. PICK o1 \in Nat, c1 \in Nat :
         /\ o1 = Val(once.words) /\ c1 = once.carry /\ (c1 = 0 \/ c1 = 1)
         /\ a0 + q0 = o1 + c1 * m /\ once.words \in Seq(Word) /\ Len(once.words) = NumWords
  <2>1. /\ once.words \in Seq(Word) /\ Len(once.words) = NumWords /\ once.carry \in {0, 1}
        /\ Val(lo) + Val(qlo) = Val(once.words) + once.carry * Weight(NumWords)
    BY <1>4, <1>8, AddExact
  <2> HIDE DEF once
  <2>2. Val(once.words) \in Nat
    BY <2>1, UptoBound
  <2>3. PICK c \in Nat : c = once.carry /\ (c = 0 \/ c = 1)
    BY <2>1
  <2> QED BY <1>2, <1>5, <1>9, <2>1, <2>2, <2>3
<1> HIDE DEF once
<1>15. PICK t \in Nat, c2 \in Nat :
         /\ t = Val(twice.words) /\ c2 = twice.carry /\ (c2 = 0 \/ c2 = 1) /\ t < m
         /\ o1 + q1 * om = t + c2 * m /\ twice.words \in Seq(Word) /\ Len(twice.words) = NumWords
  <2>1. /\ twice.words \in Seq(Word) /\ Len(twice.words) = NumWords /\ twice.carry \in {0, 1}
        /\ Val(once.words) + Val(flo) = Val(twice.words) + twice.carry * Weight(NumWords)
    <3>1. /\ once.words \in Seq(Word) /\ Len(once.words) = NumWords
          /\ flo \in Seq(Word) /\ Len(flo) = NumWords
      BY <1>13, <1>14
    <3> QED BY <3>1, AddExact
  <2> HIDE DEF twice
  <2>2. Val(twice.words) \in Nat /\ Val(twice.words) < m
    BY <1>2, <2>1, UptoBound
  <2>3. PICK c \in Nat : c = twice.carry /\ (c = 0 \/ c = 1)
    BY <2>1
  <2> QED BY <1>2, <1>13, <1>14, <2>1, <2>2, <2>3
<1> HIDE DEF twice
<1>16. PICK c \in {0, 1} : c = c1 + c2 /\ sum = t + c * m
  <2>1. PICK v \in Nat : v = q1 * om
    OBVIOUS
  <2> DEFINE d1 == c1 * m
             d2 == c2 * m
  <2>2. d1 \in Nat /\ ((c1 = 0 /\ d1 = 0) \/ (c1 = 1 /\ d1 = m))
    <3>1. c1 = 0 \/ c1 = 1
      BY <1>14
    <3> QED BY <3>1
  <2>3. d2 \in Nat /\ ((c2 = 0 /\ d2 = 0) \/ (c2 = 1 /\ d2 = m))
    <3>1. c2 = 0 \/ c2 = 1
      BY <1>15
    <3> QED BY <3>1
  <2>8. a0 + q0 = o1 + d1 /\ o1 + v = t + d2
    BY <1>14, <1>15, <2>1
  <2> HIDE DEF d1, d2
  <2>4. sum = t + d1 + d2 /\ sum < m + top /\ top < m
    <3>1. sum = a0 + q0 + v /\ sum < m + top
      BY <1>11, <2>1
    <3>4. top < m
      BY <1>2, <1>3
    <3> QED BY <2>2, <2>3, <2>8, <3>1, <3>4
  <2>6. \/ c1 = 0 /\ c2 = 0 /\ sum = t
        \/ c1 + c2 = 1 /\ sum = t + m
    BY <2>2, <2>3, <2>4
  <2>5. 0 * m = 0 /\ 1 * m = m
    OBVIOUS
  <2>7. 0 \in {0, 1} /\ 1 \in {0, 1} /\ 0 + 0 = 0
    OBVIOUS
  <2> QED BY <2>5, <2>6, <2>7
<1> DEFINE rest == SubTimes(twice.words, mod, once.carry + twice.carry)
<1>17. PICK r \in Nat : /\ r = Val(rest) /\ rest \in Seq(Word) /\ Len(rest) = NumWords /\ r < m
                        /\ sum = r + c * top
  <2>1. rest = IF c = 0 THEN twice.words ELSE VliSub(twice.words, mod).words
    BY <1>14, <1>15, <1>16, SubTimesUpToOnce
  <2> HIDE DEF rest
  <2>2. CASE c = 0
    <3>1. 0 * m = 0 /\ 0 * top = 0
      OBVIOUS
    <3>2. sum = t + 0 * top
      BY <1>16, <2>2, <3>1
    <3>3. rest = twice.words
      BY <2>1, <2>2
    <3> QED BY <1>15, <2>2, <3>2, <3>3
  <2>3. CASE c = 1
    <3>1. 1 * m = m /\ 1 * top = top /\ 0 * m = 0
      OBVIOUS
    <3>2. sum = t + m /\ t < top
      BY <1>11, <1>16, <2>3, <3>1
    <3> DEFINE diff == VliSub(twice.words, mod)
    <3>3. /\ diff.words \in Seq(Word) /\ Len(diff.words) = NumWords /\ diff.borrow \in {0, 1}
          /\ t + diff.borrow * m = Val(diff.words) + top
      <4>1. twice.words \in Seq(Word) /\ Len(twice.words) = NumWords /\ t = Val(twice.words)
        BY <1>15
      <4>2. /\ diff.words \in Seq(Word) /\ Len(diff.words) = Len(twice.words)
            /\ diff.borrow \in {0, 1}
            /\ Val(twice.words) + diff.borrow * Weight(Len(twice.words)) = Val(diff.words) + Val(mod)
        BY <4>1, SubExact
      <4> HIDE DEF diff
      <4> QED BY <1>2, <4>1, <4>2
    <3> HIDE DEF diff
    <3>4. Val(diff.words) \in Nat /\ Val(diff.words) < m
      BY <1>2, <3>3, UptoBound
    <3>5. diff.borrow = 1
      BY <3>1, <3>2, <3>3, <3>4
    <3>6. sum = Val(diff.words) + 1 * top
      BY <3>1, <3>2, <3>3, <3>4, <3>5
    <3>7. rest = diff.words
      BY <2>1, <2>3 DEF diff
    <3> QED BY <2>3, <3>3, <3>4, <3>6, <3>7
  <2> QED BY <2>2, <2>3
<1>18. MmodFast(product, mod) = IF VliCmp(rest, mod) > 0 THEN VliSub(rest, mod).words ELSE rest
  BY DEF MmodFast, lo, hi, q, qlo, qhi, fold, flo, once, twice
<1> HIDE DEF rest
<1>19. PICK z \in Nat, d \in {0, 1} : z = Val(MmodFast(product, mod)) /\ z <= top /\ r = z + d * top
  <2>1. VliCmp(rest, mod) \in {-1, 0, 1} /\ (VliCmp(rest, mod) = 1 <=> top < r)
    BY <1>2, <1>17, CmpExact
  <2>2. CASE top < r
    <3>1. MmodFast(product, mod) = VliSub(rest, mod).words
      BY <1>18, <2>1, <2>2
    <3> DEFINE diff == VliSub(rest, mod)
    <3>2. /\ diff.words \in Seq(Word) /\ Len(diff.words) = NumWords /\ diff.borrow \in {0, 1}
          /\ r + diff.borrow * m = Val(diff.words) + top
      <4>1. rest \in Seq(Word) /\ Len(rest) = NumWords /\ r = Val(rest)
        BY <1>17
      <4>2. /\ diff.words \in Seq(Word) /\ Len(diff.words) = Len(rest) /\ diff.borrow \in {0, 1}
            /\ Val(rest) + diff.borrow * Weight(Len(rest)) = Val(diff.words) + Val(mod)
        BY <4>1, SubExact
      <4> HIDE DEF diff
      <4> QED BY <1>2, <4>1, <4>2
    <3> HIDE DEF diff
    <3>3. Val(diff.words) \in Nat /\ Val(diff.words) < m
      BY <1>2, <3>2, UptoBound
    <3>4. 0 * m = 0 /\ 1 * m = m /\ 1 * top = top
      OBVIOUS
    <3>5. diff.borrow = 0
      BY <2>2, <3>2, <3>3, <3>4
    <3>6. r = Val(diff.words) + 1 * top
      BY <3>2, <3>3, <3>4, <3>5
    <3>7. Val(diff.words) <= top
      <4>1. m = top + om /\ 2 * om <= m /\ r < m
        BY <1>2, <1>3, <1>17
      <4> QED BY <3>3, <3>4, <3>6, <4>1
    <3> QED BY <3>1, <3>3, <3>6, <3>7 DEF diff
  <2>3. CASE ~(top < r)
    <3>1. MmodFast(product, mod) = rest
      BY <1>18, <2>1, <2>3
    <3>2. r = r + 0 * top /\ r <= top
      BY <2>3
    <3> QED BY <1>17, <3>1, <3>2
  <2> QED BY <2>2, <2>3
<1>20. PICK k \in Nat : x = z + k * top
  <2>1. c \in Nat /\ d \in Nat
    OBVIOUS
  <2>2. c + d + q1 + b0 \in Nat
    BY <2>1
  <2>3. x = z + (c + d + q1 + b0) * top
    <3>1. b0 * m = b0 * top + b0 * om /\ q1 * m = q1 * top + q1 * om
      <4>1. b0 * (top + om) = b0 * top + b0 * om /\ q1 * (top + om) = q1 * top + q1 * om
        OBVIOUS
      <4>2. m = top + om
        BY <1>2
      <4> QED BY <4>1, <4>2
    <3>2. (c + d + q1 + b0) * top = c * top + d * top + q1 * top + b0 * top
      BY <2>1
    <3>3. PICK v1 \in Nat, v2 \in Nat, v3 \in Nat, v4 \in Nat, v5 \in Nat, v6 \in Nat :
            /\ v1 = b0 * top /\ v2 = b0 * om /\ v3 = q1 * top /\ v4 = q1 * om
            /\ v5 = c * top /\ v6 = d * top
      BY <2>1
    <3>4. x = (v1 + v2) + a0 /\ v2 = (v3 + v4) + q0
      BY <1>5, <1>9, <3>1, <3>3
    <3>5. sum = a0 + q0 + v4 /\ sum = r + v5 /\ r = z + v6
      BY <1>11, <1>17, <1>19, <3>3
    <3>6. x = z + (v5 + v6 + v3 + v1)
      BY <3>4, <3>5
    <3> QED BY <3>2, <3>3, <3>6
  <2> QED BY <2>2, <2>3
<1>21. z \in 0..top
  BY <1>19
<1> QED BY <1>2, <1>5, <1>19, <1>20, <1>21

------------------------------------------------------------------------------
(* The field of p elements *)

\* The field elements fit in their words, with the bit to spare that the foldings need.
LEMMA FieldSize ==
    /\ p \in Nat /\ p >= 2 /\ (p % 2) = 1 /\ p < Weight(NumWords)
    /\ p = Weight(NumWords) - (HalfWord + 1)
    /\ \A x, y \in 1..(p - 1) : (x * y) % p # 0
    /\ P0 \in Seq(Word) /\ Len(P0) = NumWords /\ Val(P0) = p
    /\ \A x \in 0..(p - 1) : D(x) \in Seq(Word) /\ Len(D(x)) = NumWords /\ Val(D(x)) = x
<1>1. PICK m \in Nat, half \in Nat : m = Weight(NumWords) /\ half = HalfWord
  BY HalfWords, WordSizes, Weights
<1>2. 2 * (half + 1) <= m /\ half + 1 >= 2
  <2>1. PICK om \in Nat : om = half + 1
    OBVIOUS
  <2> QED BY <1>1, <2>1, OmegaSmall
<1>3. p = m - half - 1
  BY <1>1, MicroEccAssumption DEF HalfWord
<1>4. p \in Nat /\ p >= 2 /\ p < m /\ p = m - (half + 1)
  BY <1>2, <1>3
<1>5. NumWords \in Nat
  BY WordSizes
<1>6. ASSUME NEW x \in 0..p
      PROVE  D(x) \in Seq(Word) /\ Len(D(x)) = NumWords /\ Val(D(x)) = x
  <2>1. x \in Nat /\ x < Weight(NumWords)
    BY <1>1, <1>4
  <2> QED BY <1>5, <2>1, DigitsValue DEF D
<1>7. P0 \in Seq(Word) /\ Len(P0) = NumWords /\ Val(P0) = p
  BY <1>4, <1>6 DEF P0
<1>8. \A x \in 0..(p - 1) : x \in 0..p
  BY <1>4
<1> QED BY <1>1, <1>4, <1>6, <1>7, <1>8, MicroEccAssumption

\* The operations that do not multiply, on words.
THEOREM SumsAreExact ==
    ASSUME NEW x \in 0..(p - 1), NEW y \in 0..(p - 1)
    PROVE  /\ Val(VliModAdd(D(x), D(y), P0)) = Plus(x, y)
           /\ Val(VliModSub(D(x), D(y), P0)) = Minus(x, y)
           /\ Val(Halved(D(x), P0)) = Half(x)
<1>1. /\ D(x) \in Seq(Word) /\ Len(D(x)) = NumWords /\ Val(D(x)) = x
      /\ D(y) \in Seq(Word) /\ Len(D(y)) = NumWords /\ Val(D(y)) = y
      /\ P0 \in Seq(Word) /\ Len(P0) = NumWords /\ Val(P0) = p
      /\ x < p /\ y < p /\ (Val(P0) % 2) = 1 /\ NumWords >= 1
  BY FieldSize, WordSizes
<1>2. Val(VliModAdd(D(x), D(y), P0)) = (Val(D(x)) + Val(D(y))) % Val(P0)
  <2>1. Len(D(x)) = Len(P0) /\ Len(D(y)) = Len(P0) /\ Val(D(x)) < Val(P0) /\ Val(D(y)) < Val(P0)
    BY <1>1
  <2> QED BY <1>1, <2>1, ModAddExact
<1>3. Val(VliModSub(D(x), D(y), P0)) = (Val(D(x)) - Val(D(y))) % Val(P0)
  <2>1. Len(D(x)) = Len(P0) /\ Len(D(y)) = Len(P0) /\ Val(D(x)) < Val(P0) /\ Val(D(y)) < Val(P0)
    BY <1>1
  <2> QED BY <1>1, <2>1, ModSubExact
<1>4. Val(Halved(D(x), P0)) = IF Val(D(x)) % 2 = 1 THEN (Val(D(x)) + Val(P0)) \div 2
                              ELSE Val(D(x)) \div 2
  BY <1>1, HalvedExact
<1> QED BY <1>1, <1>2, <1>3, <1>4 DEF Plus, Minus, Half

\* Unless the foldings exceed what is taken away again, the fast product is
\* the product in the field.
THEOREM FastProductExact ==
    ASSUME NEW x \in 0..(p - 1), NEW y \in 0..(p - 1), ~CarryLost(x, y)
    PROVE  Val(VliModMultFast(D(x), D(y), P0)) = Mult(x, y)
<1> DEFINE product == VliMult(D(x), D(y))
           z == Val(VliModMultFast(D(x), D(y), P0))
<1>1. /\ D(x) \in Seq(Word) /\ Len(D(x)) = NumWords /\ Val(D(x)) = x
      /\ D(y) \in Seq(Word) /\ Len(D(y)) = NumWords /\ Val(D(y)) = y
      /\ P0 \in Seq(Word) /\ Len(P0) = NumWords /\ Val(P0) = p
      /\ Val(P0) = Weight(NumWords) - (HalfWord + 1)
      /\ NumWords >= 1 /\ NumWords <= W
  BY FieldSize, WordSizes, VliAssumption
<1>2. product \in Seq(Word) /\ Len(product) = 2 * NumWords /\ Val(product) = x * y
  BY <1>1, MultExact
<1> HIDE DEF product
<1>3. PICK t \in Nat, m \in Nat, f \in Nat : t = x * y /\ m = Weight(NumWords) /\ f = Folded(t)
  <2>1. x * y \in Nat /\ x \in Nat /\ y \in Nat
    <3>1. p \in Nat
      BY FieldSize
    <3> QED BY <3>1
  <2>2. PICK t \in Nat : t = x * y
    BY <2>1
  <2>3. PICK m \in Nat \ {0}, om \in Nat : m = Weight(NumWords) /\ om = HalfWord + 1
    <3>1. HalfWord + 1 \in Nat
      BY HalfWords
    <3>2. Weight(NumWords) \in Nat \ {0}
      BY WordSizes, Weights
    <3> QED BY <3>1, <3>2
  <2>4. t % m \in Nat /\ t \div m \in Nat
    BY Divided
  <2>5. PICK q \in Nat : q = (t \div m) * om
    BY <2>4
  <2>6. q % m \in Nat /\ q \div m \in Nat
    BY Divided
  <2>7. (q \div m) * om \in Nat
    BY <2>6
  <2>8. Folded(t) = (t % m) + (q % m) + (q \div m) * om
    BY <2>3, <2>5 DEF Folded
  <2>9. Folded(t) \in Nat
    BY <2>4, <2>6, <2>7, <2>8
  <2> QED BY <2>2, <2>3, <2>9
<1>4. Folded(Val(product)) < Weight(NumWords) + Val(P0)
  <2>1. ~(f >= m + p)
    <3>1. CarryLost(x, y) <=> Folded(x * y) >= Weight(NumWords) + p
      BY DEF CarryLost, Folded, HalfWord
    <3> QED BY <1>3, <3>1
  <2>2. f < m + p
    BY <2>1, FieldSize
  <2> QED BY <1>1, <1>2, <1>3, <2>2
<1>5. z = Val(MmodFast(product, P0))
  BY DEF VliModMultFast, product
<1>6. z \in 0..p /\ \E k \in Nat : t = z + k * p
  BY <1>1, <1>2, <1>3, <1>4, <1>5, MmodFastNear
<1> HIDE DEF z
<1>7. PICK k \in Nat : t = z + k * p
  BY <1>6
<1>8. p \in Nat \ {0} /\ z \in Nat /\ z <= p /\ x \in Nat /\ y \in Nat
  BY <1>6, FieldSize
<1>9. z # p
  <2> SUFFICES ASSUME z = p PROVE FALSE
    OBVIOUS
  <2>1. t = (k + 1) * p + 0 /\ k + 1 \in Nat
    BY <1>7, <1>8
  <2>2. t % p = 0
    <3>1. PICK o \in Nat : o = k + 1 /\ t = o * p + 0
      BY <2>1
    <3>2. (o * p + 0) % p = 0
      BY <1>8, Division
    <3> QED BY <3>1, <3>2
  <2>3. t # 0
    <3>1. k * p \in Nat
      BY <1>8
    <3> QED BY <1>7, <1>8, <3>1
  <2>4. x # 0 /\ y # 0
    <3>1. 0 * y = 0 /\ x * 0 = 0
      BY <1>8
    <3> QED BY <1>3, <2>3, <3>1
  <2>5. x \in 1..(p - 1) /\ y \in 1..(p - 1)
    BY <1>8, <2>4
  <2> QED BY <1>3, <2>2, <2>5, FieldSize
<1>10. t % p = z
  <2>1. z < p
    BY <1>8, <1>9
  <2>2. (k * p + z) % p = z
    BY <1>8, <2>1, Division
  <2>3. k * p + z = t
    <3>1. k * p \in Nat
      BY <1>8
    <3> QED BY <1>7, <1>8, <3>1
  <2> QED BY <2>2, <2>3
<1> QED BY <1>3, <1>10 DEF Mult, z

------------------------------------------------------------------------------
(* The inverse, on words *)

\* The carry that adding mod may lose is borrowed back by the subtraction.
LEMMA DifferenceExact ==
    ASSUME NEW u \in Seq(Word), NEW v \in Seq(Word), NEW mod \in Seq(Word),
           Len(u) = Len(mod), Len(v) = Len(mod), Val(u) < Val(mod), Val(v) < Val(mod)
    PROVE  /\ Difference(u, v, mod) \in Seq(Word) /\ Len(Difference(u, v, mod)) = Len(mod)
           /\ Val(Difference(u, v, mod)) = IF Val(u) < Val(v) THEN (Val(u) + Val(mod)) - Val(v)
                                           ELSE Val(u) - Val(v)
<1>1. PICK x \in Nat, y \in Nat, m \in Nat, top \in Nat :
        /\ x = Val(u) /\ y = Val(v) /\ m = Val(mod) /\ top = Weight(Len(mod))
        /\ x < m /\ y < m /\ m < top
  <2>1. Len(mod) \in Nat
    BY LenProperties
  <2>2. Val(u) \in Nat /\ Val(v) \in Nat /\ Val(mod) \in Nat /\ Val(mod) < Weight(Len(mod))
    BY UptoBound
  <2>3. Weight(Len(mod)) \in Nat
    BY <2>1, Weights
  <2> QED BY <2>2, <2>3
<1>2. VliCmp(u, v) \in {-1, 0, 1} /\ (VliCmp(u, v) = -1 <=> x < y)
  <2>1. Len(u) = Len(v)
    OBVIOUS
  <2> QED BY <1>1, <2>1, CmpExact
<1>3. VliCmp(u, v) < 0 <=> x < y
  BY <1>2
<1> DEFINE sum == VliAdd(u, mod)
           first == IF VliCmp(u, v) < 0 THEN sum.words ELSE u
           diff == VliSub(first, v)
<1>4. Difference(u, v, mod) = diff.words
  BY Zenon DEF Difference
<1>5. PICK c \in Nat, s \in Nat :
        /\ first \in Seq(Word) /\ Len(first) = Len(mod) /\ s = Val(first)
        /\ (x < y => (c = 0 \/ c = 1) /\ x + m = s + c * top)
        /\ (~(x < y) => s = x)
  <2>1. CASE x < y
    <3>1. /\ sum.words \in Seq(Word) /\ Len(sum.words) = Len(u) /\ sum.carry \in {0, 1}
          /\ Val(u) + Val(mod) = Val(sum.words) + sum.carry * Weight(Len(u))
      BY AddExact
    <3> HIDE DEF sum
    <3>2. Val(sum.words) \in Nat
      BY <3>1, UptoBound
    <3>3. sum.carry \in Nat /\ (sum.carry = 0 \/ sum.carry = 1)
      BY <3>1
    <3>4. first = sum.words
      BY <1>3, <2>1
    <3> HIDE DEF first
    <3> QED BY <1>1, <2>1, <3>1, <3>2, <3>3, <3>4
  <2>2. CASE ~(x < y)
    BY <1>1, <1>3, <2>2
  <2> QED BY <2>1, <2>2
<1> HIDE DEF first
<1>6. PICK br \in Nat, z \in Nat :
        /\ diff.words \in Seq(Word) /\ Len(diff.words) = Len(mod) /\ z = Val(diff.words)
        /\ z < top /\ (br = 0 \/ br = 1) /\ s + br * top = z + y
  <2>1. Len(first) = Len(v)
    BY <1>5
  <2>2. first \in Seq(Word)
    BY <1>5
  <2>3. /\ diff.words \in Seq(Word) /\ Len(diff.words) = Len(first) /\ diff.borrow \in {0, 1}
        /\ Val(first) + diff.borrow * Weight(Len(first)) = Val(diff.words) + Val(v)
    BY <2>1, <2>2, SubExact
  <2> HIDE DEF diff
  <2>4. Val(diff.words) \in Nat /\ Val(diff.words) < Weight(Len(diff.words))
    BY <2>3, UptoBound
  <2>5. diff.borrow \in Nat /\ (diff.borrow = 0 \/ diff.borrow = 1)
    BY <2>3
  <2> QED BY <1>1, <1>5, <2>3, <2>4, <2>5
<1> HIDE DEF diff
<1>7. 0 * top = 0 /\ 1 * top = top
  OBVIOUS
<1>8. z = IF x < y THEN (x + m) - y ELSE x - y
  <2>1. CASE x < y
    <3>1. PICK d1 \in Nat, d2 \in Nat :
            /\ d1 = c * top /\ d2 = br * top /\ (d1 = 0 \/ d1 = top) /\ (d2 = 0 \/ d2 = top)
      BY <1>5, <1>6, <1>7, <2>1
    <3>2. x + m = s + d1 /\ s + d2 = z + y
      BY <1>5, <1>6, <2>1, <3>1
    <3>3. x < m /\ y < m /\ m < top /\ z < top /\ (d1 = 0 \/ d1 = top) /\ (d2 = 0 \/ d2 = top)
      BY <1>1, <1>6, <3>1
    <3>4. z = (x + m) - y
      BY <2>1, <3>2, <3>3
    <3> QED BY <2>1, <3>4
  <2>2. CASE ~(x < y)
    <3>1. PICK d2 \in Nat : d2 = br * top /\ (d2 = 0 \/ d2 = top)
      BY <1>6, <1>7
    <3>2. s + d2 = z + y
      BY <1>6, <3>1
    <3>3. x < m /\ y < m /\ m < top /\ z < top /\ (d2 = 0 \/ d2 = top) /\ s = x
      BY <1>1, <1>5, <1>6, <2>2, <3>1
    <3>4. z = x - y
      BY <2>2, <3>2, <3>3
    <3> QED BY <2>2, <3>4
  <2> QED BY <2>1, <2>2
<1> QED BY <1>1, <1>4, <1>6, <1>8

------------------------------------------------------------------------------
(* The inverse: one round *)

\* y is u times x modulo mod, and not zero.
IsSide(y, u, x, mod) ==
    /\ y \in Seq(Word) /\ Len(y) = Len(mod) /\ Val(y) >= 1
    /\ u \in Seq(Word) /\ Len(u) = Len(mod)
    /\ Related(Val(y), Val(u), x, Val(mod))

Sides(a, u, c, v, x, mod) ==
    /\ IsSide(a, u, x, mod) /\ IsSide(c, v, x, mod)
    /\ CommonOnly(Val(a), Val(c), x, Val(mod))

\* Nor have the sides of the search.
LEMMA SidesSwapped ==
    ASSUME NEW a, NEW u, NEW c, NEW v, NEW x, NEW mod, Sides(a, u, c, v, x, mod)
    PROVE  Sides(c, v, a, u, x, mod)
BY CommonSwapped DEF Sides

\* The lowest bit tells whether a number is even.
LEMMA EvenValue ==
    ASSUME NEW v \in Seq(Word), Len(v) >= 1
    PROVE  VliEven(v) <=> (Val(v) % 2) = 0
<1>1. /\ VliRshift1(v) \in Seq(Word)
      /\ v[1] % 2 \in {0, 1} /\ Val(v) = 2 * Val(VliRshift1(v)) + (v[1] % 2)
  BY Rshift1Exact
<1>2. PICK h \in Nat, r \in Nat : h = Val(VliRshift1(v)) /\ r = v[1] % 2 /\ (r = 0 \/ r = 1)
  <2>1. Val(VliRshift1(v)) \in Nat
    BY <1>1, UptoBound
  <2> QED BY <1>1, <2>1
<1>3. Val(v) = 2 * h + r
  BY <1>1, <1>2
<1>4. (2 * h + r) % 2 = r
  BY <1>2
<1> QED BY <1>2, <1>3, <1>4 DEF VliEven

\* A number on a side that is even is halved.
LEMMA EvenSide ==
    ASSUME NEW x \in Nat, NEW mod \in Seq(Word), Len(mod) >= 1, (Val(mod) % 2) = 1,
           NEW a, NEW u, NEW c, NEW v, Sides(a, u, c, v, x, mod), VliEven(a)
    PROVE  /\ Sides(VliRshift1(a), Halved(u, mod), c, v, x, mod)
           /\ 2 * Val(VliRshift1(a)) <= Val(a)
<1>1. /\ a \in Seq(Word) /\ Len(a) = Len(mod) /\ Val(a) >= 1
      /\ u \in Seq(Word) /\ Len(u) = Len(mod) /\ Related(Val(a), Val(u), x, Val(mod))
      /\ c \in Seq(Word) /\ CommonOnly(Val(a), Val(c), x, Val(mod)) /\ IsSide(c, v, x, mod)
  BY DEF Sides, IsSide
<1> DEFINE h == VliRshift1(a)
<1>2. h \in Seq(Word) /\ Len(h) = Len(a) /\ Val(a) = 2 * Val(h) + (a[1] % 2)
  <2>1. Len(a) >= 1
    BY <1>1
  <2> QED BY <1>1, <2>1, Rshift1Exact
<1>3. a[1] % 2 = 0
  BY DEF VliEven
<1> HIDE DEF h
<1>4. PICK y \in Nat, z \in Nat, m \in Nat, w \in Nat :
         y = Val(h) /\ z = Val(c) /\ m = Val(mod) /\ w = Val(u) /\ (m % 2) = 1
  <2>1. Val(h) \in Nat /\ Val(c) \in Nat /\ Val(mod) \in Nat /\ Val(u) \in Nat
    BY <1>1, <1>2, UptoBound
  <2> QED BY <2>1
<1>5. Val(a) = 2 * y /\ y >= 1
  BY <1>1, <1>2, <1>3, <1>4
<1>6. /\ Halved(u, mod) \in Seq(Word) /\ Len(Halved(u, mod)) = Len(u)
      /\ Val(Halved(u, mod)) = IF (w % 2) = 1 THEN (w + m) \div 2 ELSE w \div 2
  BY <1>1, <1>4, HalvedExact
<1>7. Related(y, Val(Halved(u, mod)), x, m)
  <2>1. Related(2 * y, w, x, m)
    BY <1>1, <1>4, <1>5
  <2> QED BY <1>4, <1>6, <2>1, HalvedRelated
<1>8. CommonOnly(y, z, x, m)
  <2>1. CommonOnly(2 * y, z, x, m)
    BY <1>1, <1>4, <1>5
  <2> QED BY <2>1, HalvedCommon
<1>9. IsSide(h, Halved(u, mod), x, mod)
  BY <1>1, <1>2, <1>4, <1>5, <1>6, <1>7 DEF IsSide
<1>10. Sides(h, Halved(u, mod), c, v, x, mod)
  BY <1>1, <1>4, <1>8, <1>9 DEF Sides
<1>11. 2 * Val(h) <= Val(a)
  BY <1>4, <1>5
<1> QED BY <1>10, <1>11 DEF h

\* Of two that are odd, the greater one is replaced by half their difference.
LEMMA OddSide ==
    ASSUME NEW x \in Nat, NEW mod \in Seq(Word), Len(mod) >= 1, (Val(mod) % 2) = 1,
           NEW a, NEW u, NEW c, NEW v, Sides(a, u, c, v, x, mod),
           ~VliEven(a), ~VliEven(c), Val(c) < Val(a)
    PROVE  /\ Sides(VliRshift1(VliSub(a, c).words), Halved(Difference(u, v, mod), mod), c, v, x, mod)
           /\ 2 * Val(VliRshift1(VliSub(a, c).words)) <= Val(a)
<1>1. /\ a \in Seq(Word) /\ Len(a) = Len(mod) /\ Val(a) >= 1
      /\ u \in Seq(Word) /\ Len(u) = Len(mod) /\ Related(Val(a), Val(u), x, Val(mod))
      /\ c \in Seq(Word) /\ Len(c) = Len(mod) /\ Val(c) >= 1
      /\ v \in Seq(Word) /\ Len(v) = Len(mod) /\ Related(Val(c), Val(v), x, Val(mod))
      /\ CommonOnly(Val(a), Val(c), x, Val(mod)) /\ IsSide(c, v, x, mod)
  BY DEF Sides, IsSide
<1>2. PICK y \in Nat, z \in Nat, m \in Nat, w \in Nat, t \in Nat :
         /\ y = Val(a) /\ z = Val(c) /\ m = Val(mod) /\ w = Val(u) /\ t = Val(v) /\ (m % 2) = 1
         /\ z < y /\ z >= 1
  <2>1. Val(a) \in Nat /\ Val(c) \in Nat /\ Val(mod) \in Nat /\ Val(u) \in Nat /\ Val(v) \in Nat
    BY <1>1, UptoBound
  <2> QED BY <1>1, <2>1
<1>3. (y % 2) # 0 /\ (z % 2) # 0
  <2>1. Len(a) >= 1 /\ Len(c) >= 1
    BY <1>1
  <2> QED BY <1>1, <1>2, <2>1, EvenValue
<1> DEFINE d == VliSub(a, c)
           h == VliRshift1(d.words)
<1>4. d.words \in Seq(Word) /\ Len(d.words) = Len(mod) /\ Val(d.words) = y - z
  <2>1. Len(a) = Len(c)
    BY <1>1
  <2>2. /\ d.words \in Seq(Word) /\ Len(d.words) = Len(a) /\ d.borrow \in {0, 1}
        /\ Val(a) + d.borrow * Weight(Len(a)) = Val(d.words) + Val(c)
    BY <1>1, <2>1, SubExact
  <2> HIDE DEF d
  <2>3. PICK o \in Nat : o = Val(d.words) /\ o < Weight(Len(a))
    BY <1>1, <2>2, UptoBound
  <2>4. Weight(Len(a)) \in Nat
    BY <2>2, LenProperties, Weights
  <2>5. PICK top \in Nat : top = Weight(Len(a))
    BY <2>4
  <2>6. 0 * top = 0 /\ 1 * top = top
    OBVIOUS
  <2>7. PICK k \in Nat : k = d.borrow * top /\ (k = 0 \/ k = top)
    BY <2>2, <2>6
  <2>8. y + k = o + z /\ o < top
    BY <1>2, <2>2, <2>3, <2>5, <2>7
  <2>9. o = y - z
    <3>1. z < y /\ (k = 0 \/ k = top)
      BY <1>2, <2>7
    <3> QED BY <2>8, <3>1
  <2> QED BY <1>1, <2>2, <2>3, <2>9
<1> HIDE DEF d
<1>5. PICK o \in Nat : /\ o = Val(h) /\ h \in Seq(Word) /\ Len(h) = Len(mod) /\ y - z = 2 * o
  <2>1. /\ h \in Seq(Word) /\ Len(h) = Len(d.words)
        /\ d.words[1] % 2 \in {0, 1} /\ Val(d.words) = 2 * Val(h) + (d.words[1] % 2)
    <3>1. Len(d.words) >= 1
      BY <1>4
    <3> QED BY <1>4, <3>1, Rshift1Exact
  <2> HIDE DEF h
  <2>2. PICK o \in Nat, r \in Nat : o = Val(h) /\ r = d.words[1] % 2
    BY <2>1, UptoBound
  <2>3. y - z = 2 * o + r /\ (r = 0 \/ r = 1)
    BY <1>4, <2>1, <2>2
  <2>4. r = 0
    BY <1>3, <2>3
  <2> QED BY <1>4, <2>1, <2>2, <2>3, <2>4
<1> HIDE DEF h
<1>6. o >= 1 /\ y = 2 * o + z /\ 2 * o <= y
  BY <1>2, <1>5, SMTT(30)
<1> DEFINE f == Difference(u, v, mod)
<1>7. w < m /\ t < m
  <2>1. w \in 0..(m - 1) /\ t \in 0..(m - 1)
    BY <1>1, <1>2 DEF Related
  <2> QED BY <2>1
<1>8. /\ f \in Seq(Word) /\ Len(f) = Len(mod) /\ Val(f) \in Nat
      /\ Val(f) = IF w < t THEN (w + m) - t ELSE w - t
  <2>1. /\ f \in Seq(Word) /\ Len(f) = Len(mod)
        /\ Val(f) = IF w < t THEN (w + m) - t ELSE w - t
    BY <1>1, <1>2, <1>7, DifferenceExact
  <2> HIDE DEF f
  <2> QED BY <2>1, UptoBound
<1> HIDE DEF f
<1>9. PICK g \in Nat : g = Val(f)
  BY <1>8
<1>10. Related(2 * o, g, x, m)
  <2>1. Related(y, w, x, m) /\ Related(z, t, x, m)
    BY <1>1, <1>2
  <2>2. Related(y - z, IF w < t THEN (w + m) - t ELSE w - t, x, m)
    BY <2>1, DifferenceRelated
  <2> QED BY <1>5, <1>8, <1>9, <2>2
<1>11. /\ Halved(f, mod) \in Seq(Word) /\ Len(Halved(f, mod)) = Len(f)
       /\ Val(Halved(f, mod)) = IF (g % 2) = 1 THEN (g + m) \div 2 ELSE g \div 2
  BY <1>2, <1>8, <1>9, HalvedExact
<1>12. Related(o, Val(Halved(f, mod)), x, m)
  BY <1>2, <1>10, <1>11, HalvedRelated, ZenonT(40)
<1>13. CommonOnly(o, z, x, m)
  <2>1. CommonOnly(2 * o + z, z, x, m)
    BY <1>1, <1>2, <1>6
  <2> QED BY <2>1, DifferenceCommon
<1>14. IsSide(h, Halved(f, mod), x, mod)
  BY <1>2, <1>5, <1>6, <1>8, <1>11, <1>12 DEF IsSide
<1>15. Sides(h, Halved(f, mod), c, v, x, mod)
  BY <1>1, <1>2, <1>5, <1>13, <1>14 DEF Sides
<1>16. 2 * Val(h) <= Val(a)
  BY <1>2, <1>5, <1>6
<1> QED BY <1>15, <1>16 DEF h, d, f

\* The states of the search for the inverse of x.
Searches(x, mod) ==
    {s \in [a : Seq(Word), b : Seq(Word), u : Seq(Word), v : Seq(Word)] :
        Sides(s.a, s.u, s.b, s.v, x, mod)}

\* What the search has left to do.
Left(s) == Val(s.a) * Val(s.b)

\* A round on the first side.
LEMMA FirstSide ==
    ASSUME NEW x \in Nat, NEW mod \in Seq(Word), NEW s \in Searches(x, mod), NEW t, NEW h, NEW w,
           t = [s EXCEPT !.a = h, !.u = w], Sides(h, w, s.b, s.v, x, mod), 2 * Val(h) <= Val(s.a)
    PROVE  t \in Searches(x, mod) /\ 2 * Left(t) <= Left(s)
<1>1. /\ s \in [a : Seq(Word), b : Seq(Word), u : Seq(Word), v : Seq(Word)]
      /\ s.a \in Seq(Word) /\ s.b \in Seq(Word)
  BY DEF Searches
<1>2. h \in Seq(Word) /\ w \in Seq(Word)
  BY DEF Sides, IsSide
<1>3. /\ t \in [a : Seq(Word), b : Seq(Word), u : Seq(Word), v : Seq(Word)]
      /\ t.a = h /\ t.u = w /\ t.b = s.b /\ t.v = s.v
  BY <1>1, <1>2
<1>4. t \in Searches(x, mod)
  BY <1>3 DEF Searches
<1>5. PICK y \in Nat, z \in Nat, k \in Nat : y = Val(s.a) /\ z = Val(s.b) /\ k = Val(h) /\ 2 * k <= y
  <2>1. Val(s.a) \in Nat /\ Val(s.b) \in Nat /\ Val(h) \in Nat
    BY <1>1, <1>2, UptoBound
  <2> QED BY <2>1
<1>6. 2 * (k * z) <= y * z
  BY <1>5, SideShrinks
<1> QED BY <1>3, <1>4, <1>5, <1>6 DEF Left

\* A round on the second side.
LEMMA SecondSide ==
    ASSUME NEW x \in Nat, NEW mod \in Seq(Word), NEW s \in Searches(x, mod), NEW t, NEW h, NEW w,
           t = [s EXCEPT !.b = h, !.v = w], Sides(h, w, s.a, s.u, x, mod), 2 * Val(h) <= Val(s.b)
    PROVE  t \in Searches(x, mod) /\ 2 * Left(t) <= Left(s)
<1>1. /\ s \in [a : Seq(Word), b : Seq(Word), u : Seq(Word), v : Seq(Word)]
      /\ s.a \in Seq(Word) /\ s.b \in Seq(Word)
  BY DEF Searches
<1>2. h \in Seq(Word) /\ w \in Seq(Word)
  BY DEF Sides, IsSide
<1>3. /\ t \in [a : Seq(Word), b : Seq(Word), u : Seq(Word), v : Seq(Word)]
      /\ t.b = h /\ t.v = w /\ t.a = s.a /\ t.u = s.u
  BY <1>1, <1>2
<1>4. t \in Searches(x, mod)
  <2>1. Sides(s.a, s.u, h, w, x, mod)
    BY SidesSwapped
  <2> QED BY <1>3, <2>1 DEF Searches
<1>5. PICK y \in Nat, z \in Nat, k \in Nat : y = Val(s.b) /\ z = Val(s.a) /\ k = Val(h) /\ 2 * k <= y
  <2>1. Val(s.a) \in Nat /\ Val(s.b) \in Nat /\ Val(h) \in Nat
    BY <1>1, <1>2, UptoBound
  <2> QED BY <2>1
<1>6. 2 * (k * z) <= y * z
  BY <1>5, SideShrinks
<1>7. k * z = z * k /\ y * z = z * y
  OBVIOUS
<1> QED BY <1>3, <1>4, <1>5, <1>6, <1>7 DEF Left

\* A round keeps the search on course and halves what is left, until both
\* sides are equal.
LEMMA RoundCorrect ==
    ASSUME NEW x \in Nat, NEW mod \in Seq(Word), Len(mod) >= 1, (Val(mod) % 2) = 1,
           NEW s \in Searches(x, mod)
    PROVE  /\ InvRound(s, mod) \in Searches(x, mod)
           /\ Val(s.a) # Val(s.b) => 2 * Left(InvRound(s, mod)) <= Left(s)
           /\ Val(s.a) = Val(s.b) => InvRound(s, mod) = s
<1>1. Sides(s.a, s.u, s.b, s.v, x, mod)
  BY DEF Searches
<1>2. Sides(s.b, s.v, s.a, s.u, x, mod)
  BY <1>1, SidesSwapped
<1>3. /\ s.a \in Seq(Word) /\ s.b \in Seq(Word) /\ Len(s.a) = Len(s.b)
      /\ Val(s.a) \in Nat /\ Val(s.b) \in Nat
  <2>1. s.a \in Seq(Word) /\ s.b \in Seq(Word) /\ Len(s.a) = Len(s.b)
    BY <1>1 DEF Sides, IsSide
  <2> QED BY <2>1, UptoBound
<1>4. /\ VliCmp(s.a, s.b) \in {-1, 0, 1}
      /\ VliCmp(s.a, s.b) = 1 <=> Val(s.b) < Val(s.a)
      /\ VliCmp(s.a, s.b) = -1 <=> Val(s.a) < Val(s.b)
  BY <1>3, CmpExact
<1>5. PICK y \in Nat, z \in Nat, c \in {-1, 0, 1} :
        /\ y = Val(s.a) /\ z = Val(s.b) /\ c = VliCmp(s.a, s.b)
        /\ (c = 1 <=> z < y) /\ (c = -1 <=> y < z)
  BY <1>3, <1>4
<1>6. (c = 0 <=> y = z) /\ (c > 0 <=> z < y) /\ (c # 0 /\ ~(c > 0) => y < z)
  BY <1>5
<1> DEFINE t == InvRound(s, mod)
<1>7. CASE c = 0
  <2>1. t = s
    BY <1>5, <1>7, Zenon DEF InvRound
  <2> QED BY <1>5, <1>6, <1>7, <2>1
<1>8. CASE c # 0 /\ VliEven(s.a)
  <2>1. t = [s EXCEPT !.a = VliRshift1(@), !.u = Halved(@, mod)]
    BY <1>5, <1>8, Zenon DEF InvRound
  <2>2. t = [s EXCEPT !.a = VliRshift1(s.a), !.u = Halved(s.u, mod)]
    BY <2>1
  <2>3. /\ Sides(VliRshift1(s.a), Halved(s.u, mod), s.b, s.v, x, mod)
        /\ 2 * Val(VliRshift1(s.a)) <= Val(s.a)
    BY <1>1, <1>8, EvenSide
  <2>4. t \in Searches(x, mod) /\ 2 * Left(t) <= Left(s)
    BY <2>2, <2>3, FirstSide
  <2> QED BY <1>5, <1>6, <1>8, <2>4
<1>9. CASE c # 0 /\ ~VliEven(s.a) /\ VliEven(s.b)
  <2>1. t = [s EXCEPT !.b = VliRshift1(@), !.v = Halved(@, mod)]
    BY <1>5, <1>9, Zenon DEF InvRound
  <2>2. t = [s EXCEPT !.b = VliRshift1(s.b), !.v = Halved(s.v, mod)]
    BY <2>1
  <2>3. /\ Sides(VliRshift1(s.b), Halved(s.v, mod), s.a, s.u, x, mod)
        /\ 2 * Val(VliRshift1(s.b)) <= Val(s.b)
    BY <1>2, <1>9, EvenSide
  <2>4. t \in Searches(x, mod) /\ 2 * Left(t) <= Left(s)
    BY <2>2, <2>3, SecondSide
  <2> QED BY <1>5, <1>6, <1>9, <2>4
<1>10. CASE c # 0 /\ ~VliEven(s.a) /\ ~VliEven(s.b) /\ c > 0
  <2>1. t = [s EXCEPT !.a = VliRshift1(VliSub(@, s.b).words),
                      !.u = Halved(Difference(@, s.v, mod), mod)]
    BY <1>5, <1>10, Zenon DEF InvRound
  <2>2. t = [s EXCEPT !.a = VliRshift1(VliSub(s.a, s.b).words),
                      !.u = Halved(Difference(s.u, s.v, mod), mod)]
    BY <2>1
  <2>3. /\ Sides(VliRshift1(VliSub(s.a, s.b).words), Halved(Difference(s.u, s.v, mod), mod),
                 s.b, s.v, x, mod)
        /\ 2 * Val(VliRshift1(VliSub(s.a, s.b).words)) <= Val(s.a)
    <3>1. Val(s.b) < Val(s.a)
      BY <1>5, <1>6, <1>10
    <3> QED BY <1>1, <1>10, <3>1, OddSide
  <2>4. t \in Searches(x, mod) /\ 2 * Left(t) <= Left(s)
    BY <2>2, <2>3, FirstSide
  <2> QED BY <1>5, <1>6, <1>10, <2>4
<1>11. CASE c # 0 /\ ~VliEven(s.a) /\ ~VliEven(s.b) /\ ~(c > 0)
  <2>1. t = [s EXCEPT !.b = VliRshift1(VliSub(@, s.a).words),
                      !.v = Halved(Difference(@, s.u, mod), mod)]
    BY <1>5, <1>11, Zenon DEF InvRound
  <2>2. t = [s EXCEPT !.b = VliRshift1(VliSub(s.b, s.a).words),
                      !.v = Halved(Difference(s.v, s.u, mod), mod)]
    BY <2>1
  <2>3. /\ Sides(VliRshift1(VliSub(s.b, s.a).words), Halved(Difference(s.v, s.u, mod), mod),
                 s.a, s.u, x, mod)
        /\ 2 * Val(VliRshift1(VliSub(s.b, s.a).words)) <= Val(s.b)
    <3>1. Val(s.a) < Val(s.b)
      BY <1>5, <1>6, <1>11
    <3> QED BY <1>2, <1>11, <3>1, OddSide
  <2>4. t \in Searches(x, mod) /\ 2 * Left(t) <= Left(s)
    BY <2>2, <2>3, SecondSide
  <2> QED BY <1>5, <1>6, <1>11, <2>4
<1> QED BY <1>7, <1>8, <1>9, <1>10, <1>11

------------------------------------------------------------------------------
(* The inverse: all rounds *)

\* The search is on course after i rounds, and done or nearer its end.
OnCourse(s, i, last, x, mod) ==
    /\ s \in Searches(x, mod)
    /\ Val(s.a) = Val(s.b) \/ Left(s) * Pow2[i] < Pow2[last]

\* Neither side ever reaches zero.
LEMMA LeftPositive ==
    ASSUME NEW x \in Nat, NEW mod \in Seq(Word), NEW s \in Searches(x, mod)
    PROVE  Left(s) \in Nat /\ Left(s) >= 1 /\ Val(s.a) \in Nat /\ Val(s.b) \in Nat
<1>1. s.a \in Seq(Word) /\ s.b \in Seq(Word) /\ Val(s.a) >= 1 /\ Val(s.b) >= 1
  BY DEF Searches, Sides, IsSide
<1>2. PICK y \in Nat, z \in Nat : y = Val(s.a) /\ z = Val(s.b) /\ y >= 1 /\ z >= 1
  <2>1. Val(s.a) \in Nat /\ Val(s.b) \in Nat
    BY <1>1, UptoBound
  <2> QED BY <1>1, <2>1
<1>3. y * z \in Nat /\ y * z >= 1
  <2>1. 1 * z <= y * z /\ 1 * z = z /\ y * z \in Nat
    BY <1>2, ProductsGrow
  <2> QED BY <1>2, <2>1
<1> QED BY <1>2, <1>3 DEF Left

\* One round keeps the count.
LEMMA OneMoreRound ==
    ASSUME NEW x \in Nat, NEW mod \in Seq(Word), Len(mod) >= 1, (Val(mod) % 2) = 1,
           NEW last \in Nat, NEW i \in Nat \ {0}, NEW s, OnCourse(s, i - 1, last, x, mod)
    PROVE  OnCourse(InvRound(s, mod), i, last, x, mod)
<1> DEFINE t == InvRound(s, mod)
<1>1. s \in Searches(x, mod)
  BY DEF OnCourse
<1>2. /\ t \in Searches(x, mod)
      /\ Val(s.a) # Val(s.b) => 2 * Left(t) <= Left(s)
      /\ Val(s.a) = Val(s.b) => t = s
  BY <1>1, RoundCorrect
<1> HIDE DEF t
<1>3. CASE Val(s.a) = Val(s.b)
  BY <1>2, <1>3 DEF OnCourse, t
<1>4. CASE Val(s.a) # Val(s.b)
  <2>1. Left(s) * Pow2[i - 1] < Pow2[last] /\ 2 * Left(t) <= Left(s)
    BY <1>2, <1>4 DEF OnCourse
  <2>2. Left(s) \in Nat /\ Left(t) \in Nat
    BY <1>1, <1>2, LeftPositive
  <2>3. Pow2[i - 1] \in Nat /\ Pow2[i] = 2 * Pow2[i - 1] /\ Pow2[last] \in Nat
    BY PowersOfTwo
  <2>4. PICK l \in Nat, r \in Nat, w \in Nat, top \in Nat :
          l = Left(s) /\ r = Left(t) /\ w = Pow2[i - 1] /\ top = Pow2[last]
    BY <2>2, <2>3
  <2>5. 2 * r <= l /\ l * w < top
    BY <2>1, <2>4
  <2>6. r * (2 * w) < top
    <3>1. PICK o \in Nat : o = 2 * r /\ o <= l
      BY <2>5
    <3>2. o * w <= l * w /\ o * w \in Nat
      BY <3>1, ProductsGrow
    <3>3. r * (2 * w) = o * w
      BY <3>1
    <3>4. PICK v1 \in Nat, v2 \in Nat : v1 = o * w /\ v2 = l * w
      OBVIOUS
    <3> QED BY <2>5, <3>2, <3>3, <3>4
  <2>7. Left(t) * Pow2[i] < Pow2[last]
    BY <2>3, <2>4, <2>6
  <2> QED BY <1>2, <2>7 DEF OnCourse, t
<1> QED BY <1>3, <1>4

Rounds(f, start, mod, last) ==
    f = [i \in 0..last |-> IF i = 0 THEN start ELSE InvRound(f[i - 1], mod)]

\* The rounds of VliModInv can be counted off.
LEMMA RoundsExist ==
    ASSUME NEW x \in Nat, NEW mod \in Seq(Word), Len(mod) >= 1, (Val(mod) % 2) = 1,
           NEW last \in Nat, NEW start \in Searches(x, mod)
    PROVE  \E f : Rounds(f, start, mod, last)
<1> DEFINE S == Searches(x, mod)
           step == [a \in (1..last) \X S |-> InvRound(a[2], mod)]
<1>1. step \in [(1..last) \X S -> S]
  <2>1. \A s \in S : InvRound(s, mod) \in S
    BY RoundCorrect
  <2>2. \A a \in (1..last) \X S : InvRound(a[2], mod) \in S
    <3> HIDE DEF S
    <3> QED BY <2>1
  <2> HIDE DEF S
  <2> QED BY <2>2
<1>2. PICK f : Follows(f, S, start, step, last)
  <2> HIDE DEF step
  <2> QED BY <1>1, RecursionUpTo
<1>3. f \in [0..last -> S] /\ f[0] = start
  BY <1>2 DEF Follows
<1>4. ASSUME NEW i \in 1..last PROVE f[i] = InvRound(f[i - 1], mod)
  <2>1. i - 1 \in 0..last
    OBVIOUS
  <2>2. f[i - 1] \in S
    BY <1>3, <2>1
  <2>3. f[i] = step[<<i, f[i - 1]>>]
    BY <1>2 DEF Follows
  <2> HIDE DEF S
  <2> QED BY <2>2, <2>3
<1>5. Rounds(f, start, mod, last)
  <2>1. \A i \in 0..last : f[i] = IF i = 0 THEN start ELSE InvRound(f[i - 1], mod)
    <3>1. \A i \in 0..last : i = 0 \/ i \in 1..last
      OBVIOUS
    <3> HIDE DEF S, step
    <3> QED BY <1>3, <1>4, <3>1
  <2>2. f = [i \in 0..last |-> f[i]]
    BY <1>3
  <2> QED BY <2>1, <2>2 DEF Rounds
<1> QED BY <1>5

\* All rounds together bring both sides to one number.
LEMMA SearchEnds ==
    ASSUME NEW x \in Nat, NEW mod \in Seq(Word), Len(mod) >= 1, (Val(mod) % 2) = 1,
           NEW last \in Nat, NEW start \in Searches(x, mod), Left(start) < Pow2[last],
           NEW f, Rounds(f, start, mod, last)
    PROVE  f[last] \in Searches(x, mod) /\ Val(f[last].a) = Val(f[last].b)
<1>1. f[0] = start /\ \A i \in 1..last : f[i] = InvRound(f[i - 1], mod)
  <2>1. 0 \in 0..last /\ \A i \in 1..last : i \in 0..last /\ i # 0
    OBVIOUS
  <2> QED BY <2>1 DEF Rounds
<1> DEFINE T == {i \in 0..last : ~OnCourse(f[i], i, last, x, mod)}
<1>2. OnCourse(f[0], 0, last, x, mod)
  <2>1. Left(start) \in Nat /\ Pow2[0] = 1
    BY LeftPositive, PowersOfTwo
  <2>2. Left(start) * Pow2[0] = Left(start)
    BY <2>1
  <2> QED BY <1>1, <2>2 DEF OnCourse
<1>3. T = {}
  <2> SUFFICES ASSUME T # {} PROVE FALSE
    OBVIOUS
  <2>1. PICK j \in T : \A i \in T : j <= i
    <3>1. T \in SUBSET Nat
      OBVIOUS
    <3> HIDE DEF T
    <3> QED BY <3>1, LeastOf
  <2>2. j # 0
    BY <1>2
  <2>3. j \in 1..last /\ j - 1 \in 0..last /\ j - 1 \notin T /\ j \in Nat \ {0}
    BY <2>1, <2>2
  <2>4. OnCourse(f[j - 1], j - 1, last, x, mod)
    BY <2>3
  <2>5. OnCourse(InvRound(f[j - 1], mod), j, last, x, mod)
    BY <2>3, <2>4, OneMoreRound
  <2>6. ~OnCourse(f[j], j, last, x, mod)
    OBVIOUS
  <2> HIDE DEF T
  <2> QED BY <1>1, <2>3, <2>5, <2>6
<1>4. OnCourse(f[last], last, last, x, mod)
  <2>1. last \in 0..last
    OBVIOUS
  <2> QED BY <1>3, <2>1
<1> HIDE DEF T
<1>5. f[last] \in Searches(x, mod)
  BY <1>4 DEF OnCourse
<1>6. ~(Left(f[last]) * Pow2[last] < Pow2[last])
  <2>1. PICK l \in Nat, w \in Nat : l = Left(f[last]) /\ w = Pow2[last] /\ l >= 1
    <3>1. Left(f[last]) \in Nat /\ Left(f[last]) >= 1
      BY <1>5, LeftPositive
    <3>2. Pow2[last] \in Nat
      BY PowersOfTwo
    <3> QED BY <3>1, <3>2
  <2>2. 1 * w <= l * w /\ 1 * w = w /\ l * w \in Nat
    BY <2>1, ProductsGrow
  <2>3. ~(l * w < w)
    BY <2>2
  <2> QED BY <2>1, <2>3
<1> QED BY <1>4, <1>5, <1>6 DEF OnCourse

\* What the search starts from.
LEMMA SearchStarts ==
    ASSUME NEW input \in Seq(Word), NEW mod \in Seq(Word), Len(input) = Len(mod), Len(mod) >= 1,
           (Val(mod) % 2) = 1, Val(mod) >= 2, Val(input) >= 1,
           NEW start, start = [a |-> input, b |-> mod, u |-> Digits(Len(mod), 1), v |-> Zeros(Len(mod))]
    PROVE  start \in Searches(Val(input), mod) /\ Left(start) < Pow2[2 * (WordBits * Len(mod))]
<1> DEFINE len == Len(mod)
           one == Digits(len, 1)
           none == Zeros(len)
<1>1. PICK x \in Nat, m \in Nat, top \in Nat :
        /\ x = Val(input) /\ m = Val(mod) /\ top = Weight(len) /\ x < top /\ m < top
        /\ x >= 1 /\ m >= 2 /\ len \in Nat
  <2>1. len \in Nat
    BY LenProperties
  <2>2. /\ Val(input) \in Nat /\ Val(mod) \in Nat
        /\ Val(input) < Weight(len) /\ Val(mod) < Weight(len)
    BY UptoBound
  <2>3. Weight(len) \in Nat
    BY <2>1, Weights
  <2> QED BY <2>1, <2>2, <2>3
<1>2. one \in Seq(Word) /\ Len(one) = len /\ Val(one) = 1
  <2>1. 1 \in Nat /\ 1 < Weight(len)
    BY <1>1
  <2> QED BY <1>1, <2>1, DigitsValue
<1>3. none \in Seq(Word) /\ Len(none) = len /\ Val(none) = 0
  BY <1>1, ZerosValue
<1> HIDE DEF one, none
<1>4. IsSide(input, one, x, mod)
  <2>1. 1 * x = x + 0 * m /\ 1 \in 0..(m - 1) /\ 0 \in Int
    BY <1>1
  <2>2. Related(x, 1, x, m)
    BY <2>1 DEF Related
  <2> QED BY <1>1, <1>2, <2>2 DEF IsSide
<1>5. IsSide(mod, none, x, mod)
  <2>1. 0 * x = m + (-1) * m /\ 0 \in 0..(m - 1) /\ -1 \in Int
    BY <1>1
  <2>2. Related(m, 0, x, m)
    BY <2>1 DEF Related
  <2>3. Val(mod) >= 1
    BY <1>1
  <2> QED BY <1>1, <1>3, <2>2, <2>3 DEF IsSide
<1>6. CommonOnly(Val(input), Val(mod), x, Val(mod))
  BY <1>1 DEF CommonOnly
<1>7. Sides(input, one, mod, none, x, mod)
  BY <1>4, <1>5, <1>6 DEF Sides
<1>8. /\ start.a = input /\ start.b = mod /\ start.u = one /\ start.v = none
      /\ start \in [a : Seq(Word), b : Seq(Word), u : Seq(Word), v : Seq(Word)]
  <2>1. start = [a |-> input, b |-> mod, u |-> one, v |-> none]
    BY DEF one, none
  <2> QED BY <1>2, <1>3, <2>1
<1>9. start \in Searches(x, mod)
  BY <1>7, <1>8 DEF Searches
<1>10. x * m < Pow2[2 * (WordBits * len)]
  <2>1. PICK i \in Nat : i = WordBits * len
    BY <1>1, VliAssumption
  <2>2. Pow2[i + i] = top * top
    BY <1>1, <2>1, PowersAdd DEF Weight
  <2>3. x * m < top * top
    <3>1. x * m <= top * m
      BY <1>1, ProductsGrow
    <3>2. m * top < top * top
      <4>1. PICK o \in Nat : o = m + 1 /\ o <= top
        BY <1>1
      <4>2. o * top <= top * top /\ o * top = m * top + top /\ m * top \in Nat
        BY <4>1, ProductsGrow
      <4>3. PICK v1 \in Nat, v2 \in Nat : v1 = m * top /\ v2 = top * top
        OBVIOUS
      <4> QED BY <1>1, <4>2, <4>3, SMTT(30)
    <3>3. top * m = m * top
      OBVIOUS
    <3>4. PICK v1 \in Nat, v2 \in Nat, v3 \in Nat : v1 = m * top /\ v2 = top * top /\ v3 = x * m
      OBVIOUS
    <3> QED BY <3>1, <3>2, <3>3, <3>4
  <2>4. 2 * (WordBits * len) = i + i
    BY <2>1
  <2> QED BY <2>2, <2>3, <2>4
<1> QED BY <1>1, <1>8, <1>9, <1>10 DEF Left

------------------------------------------------------------------------------
(* The inverse: what the search ends with *)

\* uECC_vli_modInv returns what the search ends with.
LEMMA InverseSearched ==
    ASSUME NEW input \in Seq(Word), NEW mod \in Seq(Word), Len(input) = Len(mod), Len(mod) >= 1,
           (Val(mod) % 2) = 1, Val(mod) >= 2, Val(input) >= 1
    PROVE  \E s \in Searches(Val(input), mod) : Val(s.a) = Val(s.b) /\ VliModInv(input, mod) = s.u
<1> DEFINE last == 2 * (WordBits * Len(mod))
           start == [a |-> input, b |-> mod, u |-> Digits(Len(mod), 1), v |-> Zeros(Len(mod))]
           Eqn(f) == f = [i \in 0..last |-> IF i = 0 THEN start ELSE InvRound(f[i - 1], mod)]
           f == CHOOSE f : Eqn(f)
<1>1. VliModInv(input, mod) = IF VliIsZero(input) THEN input ELSE f[last].u
  BY Zenon DEF VliModInv
<1>2. PICK x \in Nat : x = Val(input)
  BY UptoBound
<1>3. last \in Nat
  <2>1. Len(mod) \in Nat
    BY LenProperties
  <2> QED BY <2>1, VliAssumption
<1>4. start \in Searches(x, mod) /\ Left(start) < Pow2[last]
  BY <1>2, SearchStarts
<1>5. ~VliIsZero(input)
  <2> SUFFICES ASSUME VliIsZero(input) PROVE FALSE
    OBVIOUS
  <2>1. Len(input) \in Nat /\ input \in [1..Len(input) -> Word]
    BY LenProperties, SeqDef
  <2>2. input = Zeros(Len(input))
    <3>1. \A i \in 1..Len(input) : input[i] = 0
      BY <2>1 DEF VliIsZero
    <3>2. input = [i \in 1..Len(input) |-> input[i]]
      BY <2>1
    <3> QED BY <3>1, <3>2 DEF Zeros
  <2>3. Val(input) = 0
    BY <2>1, <2>2, ZerosValue
  <2> QED BY <2>3
<1> HIDE DEF start, last
<1>6. Eqn(f)
  <2>1. PICK g : Rounds(g, start, mod, last)
    <3> HIDE DEF Eqn, f
    <3> QED BY <1>3, <1>4, RoundsExist
  <2>2. Eqn(g)
    BY <2>1, Zenon DEF Rounds
  <2> HIDE DEF Eqn
  <2> QED BY <2>2
<1> HIDE DEF f
<1>7. Rounds(f, start, mod, last)
  BY <1>6 DEF Rounds
<1>8. f[last] \in Searches(x, mod) /\ Val(f[last].a) = Val(f[last].b)
  BY <1>3, <1>4, <1>7, SearchEnds, ZenonT(60)
<1> QED BY <1>1, <1>2, <1>5, <1>8

\* The search for it finds an inverse,
LEMMA InverseFound ==
    ASSUME NEW x \in 1..(p - 1)
    PROVE  \E z \in 1..(p - 1) : Val(VliModInv(D(x), P0)) = z /\ (x * z) % p = 1
<1>1. /\ D(x) \in Seq(Word) /\ Len(D(x)) = NumWords /\ Val(D(x)) = x /\ x \in Nat
      /\ P0 \in Seq(Word) /\ Len(P0) = NumWords /\ Val(P0) = p
      /\ p \in Nat /\ p >= 2 /\ (p % 2) = 1 /\ NumWords \in Nat /\ NumWords >= 1
  BY FieldSize, WordSizes
<1>2. \A y, z \in 1..(p - 1) : (y * z) % p # 0
  BY FieldSize
<1>3. PICK s \in Searches(x, P0) : Val(s.a) = Val(s.b) /\ VliModInv(D(x), P0) = s.u
  <2>1. /\ Len(D(x)) = Len(P0) /\ Len(P0) >= 1 /\ (Val(P0) % 2) = 1 /\ Val(P0) >= 2
        /\ Val(D(x)) >= 1
    BY <1>1
  <2>2. \E s \in Searches(Val(D(x)), P0) :
           Val(s.a) = Val(s.b) /\ VliModInv(D(x), P0) = s.u
    BY <1>1, <2>1, InverseSearched
  <2> QED BY <1>1, <2>2
<1>4. PICK g \in Nat \ {0}, z \in Nat :
        /\ g = Val(s.a) /\ g = Val(s.b) /\ z = Val(s.u)
        /\ Related(g, z, x, p) /\ CommonOnly(g, g, x, p)
  <2>1. Val(s.a) \in Nat \ {0}
    <3>1. s.a \in Seq(Word) /\ Val(s.a) >= 1
      BY DEF Searches, Sides, IsSide
    <3> QED BY <3>1, UptoBound
  <2>2. Val(s.u) \in Nat
    <3>1. s.u \in Seq(Word)
      BY DEF Searches, Sides, IsSide
    <3> QED BY <3>1, UptoBound
  <2>3. Related(Val(s.a), Val(s.u), x, p) /\ CommonOnly(Val(s.a), Val(s.b), x, p)
    BY <1>1 DEF Searches, Sides, IsSide
  <2> QED BY <1>3, <2>1, <2>2, <2>3
<1>5. g = 1
  <2>1. g = 1 * g /\ 1 \in Nat
    OBVIOUS
  <2>2. Dividing(g, g, g)
    BY <2>1 DEF Dividing
  <2>3. Dividing(g, x, p)
    BY <1>4, <2>2 DEF CommonOnly
  <2> QED BY <1>1, <1>2, <2>3, OnlyCommonFactor
<1>6. PICK k \in Int : z * x = 1 + k * p
  BY <1>4, <1>5 DEF Related
<1>7. z < p
  <2>1. z \in 0..(p - 1)
    BY <1>4 DEF Related
  <2> QED BY <1>1, <2>1
<1>8. k >= 0
  <2> SUFFICES ASSUME k < 0 PROVE FALSE
    OBVIOUS
  <2>1. PICK o \in Nat : k = -1 - o
    <3>1. -1 - k \in Nat /\ k = -1 - (-1 - k)
      OBVIOUS
    <3> QED BY <3>1
  <2>2. k * p = 0 - p - o * p /\ o * p \in Nat /\ z * x \in Nat
    BY <1>1, <2>1
  <2>3. PICK v1 \in Nat, v2 \in Nat : v1 = o * p /\ v2 = z * x
    BY <2>2
  <2>4. v2 = 1 - p - v1
    BY <1>1, <1>6, <2>2, <2>3
  <2> QED BY <1>1, <2>4
<1>9. (x * z) % p = 1
  <2>1. k \in Nat /\ 1 < p /\ 1 \in Nat
    BY <1>1, <1>8
  <2>2. (k * p + 1) % p = 1
    BY <1>1, <2>1, Division, ZenonT(40)
  <2>3. x * z = k * p + 1
    BY <1>1, <1>6
  <2> QED BY <2>2, <2>3
<1>10. z \in 1..(p - 1)
  <2>1. z # 0
    <3> SUFFICES ASSUME z = 0 PROVE FALSE
      OBVIOUS
    <3>1. x * 0 = 0
      OBVIOUS
    <3>2. (0 * p + 0) % p = 0 /\ 0 * p + 0 = 0
      BY <1>1, Division
    <3> QED BY <1>9, <3>1, <3>2
  <2> QED BY <1>1, <1>7, <2>1
<1> QED BY <1>3, <1>4, <1>9, <1>10

\* which is the one that ModInv chooses.
LEMMA InverseChosen ==
    ASSUME NEW x \in 1..(p - 1)
    PROVE  /\ ModInv(x) \in 1..(p - 1) /\ (x * ModInv(x)) % p = 1
           /\ ModInv(x) = CHOOSE y \in 1..(p - 1) : (x * y) % p = 1
<1>1. PICK z \in 1..(p - 1) : (x * z) % p = 1
  BY InverseFound
<1>2. x # 0
  OBVIOUS
<1>3. ModInv(x) = CHOOSE y \in 1..(p - 1) : (x * y) % p = 1
  BY <1>2 DEF ModInv, Inverses, Mult
<1> QED BY <1>1, <1>3

\* uECC_vli_modInv returns the inverse that ModInv stands for.
THEOREM InverseExact ==
    ASSUME NEW x \in 0..(p - 1)
    PROVE  Val(VliModInv(D(x), P0)) = ModInv(x)
<1>1. /\ Val(D(x)) = x /\ x \in Nat /\ p \in Nat /\ p >= 2
      /\ NumWords \in Nat /\ NumWords >= 1
  BY FieldSize, WordSizes
<1>2. CASE x = 0
  <2>1. \A i \in 1..NumWords : (0 \div Weight(i - 1)) % W = 0
    <3>1. ASSUME NEW i \in 1..NumWords PROVE (0 \div Weight(i - 1)) % W = 0
      <4>1. i - 1 \in Nat
        BY <1>1
      <4>2. Weight(i - 1) \in Nat \ {0} /\ W \in Nat \ {0}
        <5>1. W \in Nat /\ W >= 2
          BY WordSizes
        <5>2. W \in Nat \ {0}
          BY <5>1
        <5> QED BY <4>1, <5>2, Weights
      <4>3. PICK w \in Nat \ {0} : w = Weight(i - 1)
        BY <4>2
      <4>4. (0 * w + 0) \div w = 0 /\ 0 * w + 0 = 0
        BY Division
      <4>5. (0 * W + 0) % W = 0 /\ 0 * W + 0 = 0
        BY <4>2, Division
      <4> QED BY <4>3, <4>4, <4>5
    <3> QED BY <3>1
  <2>2. VliIsZero(D(x))
    BY <1>2, <2>1 DEF VliIsZero, D, Digits
  <2>3. VliModInv(D(x), P0) = D(x)
    BY <2>2, Zenon DEF VliModInv
  <2> QED BY <1>1, <1>2, <2>3 DEF ModInv
<1>3. CASE x # 0
  <2>1. x \in 1..(p - 1)
    BY <1>1, <1>3
  <2>2. PICK z \in 1..(p - 1) : Val(VliModInv(D(x), P0)) = z /\ (x * z) % p = 1
    BY <2>1, InverseFound
  <2>3. PICK y \in 1..(p - 1) : y = ModInv(x) /\ (x * y) % p = 1
    BY <2>1, InverseChosen
  <2>4. \A u, v \in 1..(p - 1) : (u * v) % p # 0
    BY FieldSize
  <2>5. y = z
    <3>1. y <= z \/ z <= y
      OBVIOUS
    <3> QED BY <1>1, <2>1, <2>2, <2>3, <2>4, <3>1, OneInverse
  <2> QED BY <2>2, <2>3, <2>5
<1> QED BY <1>2, <1>3

\* All that the arithmetic of points takes for granted, in every state.
THEOREM FieldOnWords == Spec => []WordsComputeField
<1>1. WordsComputeField
  BY SumsAreExact, FastProductExact, InverseExact DEF WordsComputeField
<1> QED BY <1>1, PTL

------------------------------------------------------------------------------
(* Numbers modulo the prime *)

\* The field's elements.
Field == 0..(p - 1)

\* Its size is a prime, and only 0 is a multiple of that.
LEMMA FieldPrime ==
    /\ Prime(p) /\ p \in Nat \ {0} /\ p \in Nat /\ p >= 2 /\ 0 \in Field /\ 1 \in Field
    /\ \A x \in Field : x \in Int /\ (Cong(x, 0, p) <=> x = 0)
    /\ ~Cong(1, 0, p)
<1>1. Prime(p) /\ p \in Nat \ {0} /\ p \in Nat /\ p >= 2 /\ 0 \in Field /\ 1 \in Field
  BY FieldSize DEF Prime, Field
<1>2. ASSUME NEW x \in Field PROVE x \in Int /\ (Cong(x, 0, p) <=> x = 0)
  <2>1. x \in Int /\ x \in 0..(p - 1) /\ 0 \in 0..(p - 1)
    BY <1>1, <1>2 DEF Field
  <2>2. Cong(0, 0, p)
    BY <1>1, CongRefl
  <2> QED BY <1>1, <2>1, <2>2, CongNear
<1> QED BY <1>1, <1>2

\* The operations carry congruences along.
LEMMA PlusIs ==
    ASSUME NEW x \in Int, NEW y \in Int, NEW a \in Int, NEW c \in Int, Cong(x, a, p), Cong(y, c, p)
    PROVE  Plus(x, y) \in Field /\ Cong(Plus(x, y), a + c, p)
<1>1. Cong(x + y, a + c, p) /\ x + y \in Int /\ a + c \in Int
  BY CongOps, FieldPrime
<1>2. ((x + y) % p) \in 0..(p - 1) /\ Cong((x + y) % p, x + y, p)
  BY <1>1, CongMod, FieldPrime
<1>3. ((x + y) % p) \in Int
  BY <1>2
<1>4. Cong((x + y) % p, a + c, p)
  BY <1>1, <1>2, <1>3, CongTrans, FieldPrime
<1> QED BY <1>2, <1>4 DEF Plus, Field

\* The same of differences,
LEMMA MinusIs ==
    ASSUME NEW x \in Int, NEW y \in Int, NEW a \in Int, NEW c \in Int, Cong(x, a, p), Cong(y, c, p)
    PROVE  Minus(x, y) \in Field /\ Cong(Minus(x, y), a - c, p)
<1>1. Cong(x - y, a - c, p) /\ x - y \in Int /\ a - c \in Int
  BY CongOps, FieldPrime
<1>2. ((x - y) % p) \in 0..(p - 1) /\ Cong((x - y) % p, x - y, p)
  BY <1>1, CongMod, FieldPrime
<1>3. ((x - y) % p) \in Int
  BY <1>2
<1>4. Cong((x - y) % p, a - c, p)
  BY <1>1, <1>2, <1>3, CongTrans, FieldPrime
<1> QED BY <1>2, <1>4 DEF Minus, Field

\* ... of products,
LEMMA MultIs ==
    ASSUME NEW x \in Int, NEW y \in Int, NEW a \in Int, NEW c \in Int, Cong(x, a, p), Cong(y, c, p)
    PROVE  Mult(x, y) \in Field /\ Cong(Mult(x, y), a * c, p)
<1>1. Cong(x * y, a * c, p) /\ x * y \in Int /\ a * c \in Int
  BY CongOps, FieldPrime
<1>2. ((x * y) % p) \in 0..(p - 1) /\ Cong((x * y) % p, x * y, p)
  BY <1>1, CongMod, FieldPrime
<1>3. ((x * y) % p) \in Int
  BY <1>2
<1>4. Cong((x * y) % p, a * c, p)
  BY <1>1, <1>2, <1>3, CongTrans, FieldPrime
<1> QED BY <1>2, <1>4 DEF Mult, Field

\* ... and of squares.
LEMMA SquareIs ==
    ASSUME NEW x \in Int, NEW a \in Int, Cong(x, a, p)
    PROVE  Square(x) \in Field /\ Cong(Square(x), a * a, p)
BY MultIs DEF Square

\* Of a number that is e modulo p, and of results like it.
Is(x, a) == x \in Field /\ x \in Int /\ a \in Int /\ Cong(x, a, p)

\* Of results, the sum,
LEMMA SumTo ==
    ASSUME NEW x, NEW y, NEW a, NEW c, Is(x, a), Is(y, c)
    PROVE  Is(Plus(x, y), a + c)
<1>1. /\ x \in Int /\ a \in Int /\ Cong(x, a, p)
      /\ y \in Int /\ c \in Int /\ Cong(y, c, p)
  BY DEF Is
<1>2. Plus(x, y) \in Field /\ Cong(Plus(x, y), a + c, p)
  BY <1>1, PlusIs
<1>3. a + c \in Int
  BY <1>1
<1>4. Plus(x, y) \in Int
  BY <1>2, FieldPrime
<1> QED BY <1>2, <1>3, <1>4 DEF Is

\* ... the difference,
LEMMA DifferenceTo ==
    ASSUME NEW x, NEW y, NEW a, NEW c, Is(x, a), Is(y, c)
    PROVE  Is(Minus(x, y), a - c)
<1>1. /\ x \in Int /\ a \in Int /\ Cong(x, a, p)
      /\ y \in Int /\ c \in Int /\ Cong(y, c, p)
  BY DEF Is
<1>2. Minus(x, y) \in Field /\ Cong(Minus(x, y), a - c, p)
  BY <1>1, MinusIs
<1>3. a - c \in Int
  BY <1>1
<1>4. Minus(x, y) \in Int
  BY <1>2, FieldPrime
<1> QED BY <1>2, <1>3, <1>4 DEF Is

\* ... the product
LEMMA ProductTo ==
    ASSUME NEW x, NEW y, NEW a, NEW c, Is(x, a), Is(y, c)
    PROVE  Is(Mult(x, y), a * c)
<1>1. /\ x \in Int /\ a \in Int /\ Cong(x, a, p)
      /\ y \in Int /\ c \in Int /\ Cong(y, c, p)
  BY DEF Is
<1>2. Mult(x, y) \in Field /\ Cong(Mult(x, y), a * c, p)
  BY <1>1, MultIs
<1>3. a * c \in Int
  BY <1>1
<1>4. Mult(x, y) \in Int
  BY <1>2, FieldPrime
<1> QED BY <1>2, <1>3, <1>4 DEF Is

\* ... and the square.
LEMMA SquareTo ==
    ASSUME NEW x, NEW a, Is(x, a)
    PROVE  Is(Square(x), a * a)
BY ProductTo DEF Square

\* Half is half.
LEMMA HalfIs ==
    ASSUME NEW x \in Field
    PROVE  Half(x) \in Field /\ Cong(2 * Half(x), x, p)
<1>1. x \in 0..(p - 1) /\ p \in Nat /\ (p % 2) = 1
  BY FieldSize DEF Field
<1>2. CASE (x % 2) = 1
  <2>1. (x + p) \div 2 \in 0..(p - 1) /\ 2 * ((x + p) \div 2) = x + p
    BY <1>1, <1>2
  <2>2. 2 * Half(x) = x + 1 * p
    BY <1>1, <1>2, <2>1 DEF Half
  <2> QED BY <1>2, <2>1, <2>2 DEF Half, Field, Cong
<1>3. CASE (x % 2) # 1
  <2>1. x \div 2 \in 0..(p - 1) /\ 2 * (x \div 2) = x
    BY <1>1, <1>3
  <2>2. 2 * Half(x) = x + 0 * p
    BY <1>1, <1>3, <2>1 DEF Half
  <2> QED BY <1>3, <2>1, <2>2 DEF Half, Field, Cong
<1> QED BY <1>2, <1>3

\* An inverse is one, ours and the reference's.
LEMMA InverseIs ==
    ASSUME NEW x \in Field, x # 0
    PROVE  /\ ModInv(x) \in Field /\ Ref!InverseOf[x] = ModInv(x)
           /\ Cong(x * ModInv(x), 1, p)
<1>1. x \in 1..(p - 1)
  BY FieldPrime DEF Field
<1>2. /\ ModInv(x) \in 1..(p - 1) /\ (x * ModInv(x)) % p = 1
      /\ ModInv(x) = CHOOSE y \in 1..(p - 1) : (x * y) % p = 1
  BY <1>1, InverseChosen
<1>3. Ref!InverseOf[x] = ModInv(x)
  BY <1>1, <1>2 DEF Ref!InverseOf
<1>4. PICK y \in 1..(p - 1) : y = ModInv(x)
  BY <1>2
<1>5. Cong(x * y, 1, p)
  <2>1. x * y \in Int /\ 1 % p = 1 /\ (x * y) % p = 1
    <3>1. x \in Int /\ y \in Int
      BY FieldPrime
    <3>2. x * y \in Int
      BY <3>1
    <3>3. 1 % p = 1
      BY FieldPrime, RemainderNear
    <3> QED BY <1>2, <1>4, <3>2, <3>3
  <2> QED BY <2>1, FieldPrime, CongIsMod
<1> QED BY <1>2, <1>3, <1>4, <1>5 DEF Field

\* The points (x1, y1) and (x2, y2), with z in the denominator, and their sum by
\* the chord of slope l.
LEMMA AddNumbers ==
    ASSUME NEW x1 \in Int, NEW y1 \in Int, NEW x2 \in Int, NEW z \in Int, NEW l \in Int,
           NEW X1 \in Field, NEW Y1 \in Field, NEW X2 \in Field, NEW Y2 \in Field, NEW dd \in Int,
           Is(X1, x1 * (z * z)), Is(Y1, y1 * (z * z * z)), Is(X2, x2 * (z * z)),
           X2 = X1 + dd, Is(Minus(Y2, Y1), l * (z * dd)),
           NEW r, r = XYcZ_add([x |-> X1, y |-> Y1], [x |-> X2, y |-> Y2])
    PROVE  /\ Is(r.p.x, x1 * ((z * dd) * (z * dd)))
           /\ Is(r.p.y, y1 * ((z * dd) * (z * dd) * (z * dd)))
           /\ Is(r.q.x, (l * l - x1 - x2) * ((z * dd) * (z * dd)))
           /\ Is(r.q.y, (l * (x1 - (l * l - x1 - x2)) - y1) * ((z * dd) * (z * dd) * (z * dd)))
<1> DEFINE d   == Minus(X2, X1)
           A   == Square(d)
           B   == Mult(X1, A)
           C   == Mult(X2, A)
           dy  == Minus(Y2, Y1)
           dy2 == Square(dy)
           s   == Minus(dy2, B)
           x3  == Minus(s, C)
           cb  == Minus(C, B)
           y1p == Mult(Y1, cb)
           sub == Minus(B, x3)
           m   == Mult(dy, sub)
           y3  == Minus(m, y1p)
<1>1. r = [p |-> [x |-> B, y |-> y1p], q |-> [x |-> x3, y |-> y3], sub |-> sub]
  BY DEF XYcZ_add
<1>2. Is(X1, X1) /\ Is(X2, X1 + dd)
  <2>1. X1 \in Int /\ X2 \in Int
    BY FieldPrime
  <2> QED BY <2>1, FieldPrime, CongRefl DEF Is
<1> X1 \in Int
  BY FieldPrime
<1>3. Is(d, dd)
  <2>1. (X1 + dd) - (X1) = dd
    OBVIOUS
  <2>2. Is(d, (X1 + dd) - (X1))
    BY <1>2, DifferenceTo, Zenon DEF d
  <2> QED BY <2>1, <2>2, Zenon
<1> HIDE DEF d
<1>4. Is(A, (dd * dd))
  <2>1. (dd) * (dd) = (dd * dd)
    OBVIOUS
  <2>2. Is(A, (dd) * (dd))
    BY <1>3, SquareTo, Zenon DEF A
  <2> QED BY <2>1, <2>2, Zenon
<1> HIDE DEF A
<1>5. Is(B, x1 * ((z * dd) * (z * dd)))
  <2>1. (x1 * (z * z)) * (dd * dd) = x1 * ((z * dd) * (z * dd))
    OBVIOUS
  <2>2. Is(B, (x1 * (z * z)) * (dd * dd))
    BY <1>4, ProductTo, Zenon DEF B
  <2> QED BY <2>1, <2>2, Zenon
<1>6. Is(C, x2 * ((z * dd) * (z * dd)))
  <2>1. (x2 * (z * z)) * (dd * dd) = x2 * ((z * dd) * (z * dd))
    OBVIOUS
  <2>2. Is(C, (x2 * (z * z)) * (dd * dd))
    BY <1>4, ProductTo, Zenon DEF C
  <2> QED BY <2>1, <2>2, Zenon
<1>7. Is(B, X1 * (dd * dd))
  <2>1. (X1) * (dd * dd) = X1 * (dd * dd)
    OBVIOUS
  <2>2. Is(B, (X1) * (dd * dd))
    BY <1>2, <1>4, ProductTo, Zenon DEF B
  <2> QED BY <2>1, <2>2, Zenon
<1>8. Is(C, (X1 + dd) * (dd * dd))
  <2>1. (X1 + dd) * (dd * dd) = (X1 + dd) * (dd * dd)
    OBVIOUS
  <2>2. Is(C, (X1 + dd) * (dd * dd))
    BY <1>2, <1>4, ProductTo, Zenon DEF C
  <2> QED BY <2>1, <2>2, Zenon
<1> HIDE DEF B, C
<1>9. Is(cb, dd * (dd * dd))
  <2>1. ((X1 + dd) * (dd * dd)) - (X1 * (dd * dd)) = dd * (dd * dd)
    OBVIOUS
  <2>2. Is(cb, ((X1 + dd) * (dd * dd)) - (X1 * (dd * dd)))
    BY <1>8, <1>7, DifferenceTo, Zenon DEF cb
  <2> QED BY <2>1, <2>2, Zenon
<1> HIDE DEF cb
<1>10. Is(y1p, y1 * ((z * dd) * (z * dd) * (z * dd)))
  <2>1. (y1 * (z * z * z)) * (dd * (dd * dd)) = y1 * ((z * dd) * (z * dd) * (z * dd))
    OBVIOUS
  <2>2. Is(y1p, (y1 * (z * z * z)) * (dd * (dd * dd)))
    BY <1>9, ProductTo, Zenon DEF y1p
  <2> QED BY <2>1, <2>2, Zenon
<1> HIDE DEF y1p
<1>11. Is(dy, l * (z * dd))
  OBVIOUS
<1> HIDE DEF dy
<1>12. Is(dy2, (l * l) * ((z * dd) * (z * dd)))
  <2>1. (l * (z * dd)) * (l * (z * dd)) = (l * l) * ((z * dd) * (z * dd))
    OBVIOUS
  <2>2. Is(dy2, (l * (z * dd)) * (l * (z * dd)))
    BY <1>11, SquareTo, Zenon DEF dy2
  <2> QED BY <2>1, <2>2, Zenon
<1> HIDE DEF dy2
<1>13. Is(s, (l * l - x1) * ((z * dd) * (z * dd)))
  <2>1. ((l * l) * ((z * dd) * (z * dd))) - (x1 * ((z * dd) * (z * dd))) = (l * l - x1) * ((z * dd) * (z * dd))
    OBVIOUS
  <2>2. Is(s, ((l * l) * ((z * dd) * (z * dd))) - (x1 * ((z * dd) * (z * dd))))
    BY <1>12, <1>5, DifferenceTo, Zenon DEF s
  <2> QED BY <2>1, <2>2, Zenon
<1> HIDE DEF s
<1>14. Is(x3, (l * l - x1 - x2) * ((z * dd) * (z * dd)))
  <2>1. ((l * l - x1) * ((z * dd) * (z * dd))) - (x2 * ((z * dd) * (z * dd))) = (l * l - x1 - x2) * ((z * dd) * (z * dd))
    OBVIOUS
  <2>2. Is(x3, ((l * l - x1) * ((z * dd) * (z * dd))) - (x2 * ((z * dd) * (z * dd))))
    BY <1>13, <1>6, DifferenceTo, Zenon DEF x3
  <2> QED BY <2>1, <2>2, Zenon
<1> HIDE DEF x3
<1>15. Is(sub, (x1 - (l * l - x1 - x2)) * ((z * dd) * (z * dd)))
  <2>1. (x1 * ((z * dd) * (z * dd))) - ((l * l - x1 - x2) * ((z * dd) * (z * dd))) = (x1 - (l * l - x1 - x2)) * ((z * dd) * (z * dd))
    OBVIOUS
  <2>2. Is(sub, (x1 * ((z * dd) * (z * dd))) - ((l * l - x1 - x2) * ((z * dd) * (z * dd))))
    BY <1>5, <1>14, DifferenceTo, Zenon DEF sub
  <2> QED BY <2>1, <2>2, Zenon
<1> HIDE DEF sub
<1>17. Is(m, (l * (x1 - (l * l - x1 - x2))) * ((z * dd) * (z * dd) * (z * dd)))
  <2>1. (l * (z * dd)) * ((x1 - (l * l - x1 - x2)) * ((z * dd) * (z * dd))) = (l * (x1 - (l * l - x1 - x2))) * ((z * dd) * (z * dd) * (z * dd))
    OBVIOUS
  <2>2. Is(m, (l * (z * dd)) * ((x1 - (l * l - x1 - x2)) * ((z * dd) * (z * dd))))
    BY <1>11, <1>15, ProductTo, Zenon DEF m
  <2> QED BY <2>1, <2>2, Zenon
<1> HIDE DEF m
<1>18. Is(y3, (l * (x1 - (l * l - x1 - x2)) - y1) * ((z * dd) * (z * dd) * (z * dd)))
  <2>1. ((l * (x1 - (l * l - x1 - x2))) * ((z * dd) * (z * dd) * (z * dd))) - (y1 * ((z * dd) * (z * dd) * (z * dd))) = (l * (x1 - (l * l - x1 - x2)) - y1) * ((z * dd) * (z * dd) * (z * dd))
    OBVIOUS
  <2>2. Is(y3, ((l * (x1 - (l * l - x1 - x2))) * ((z * dd) * (z * dd) * (z * dd))) - (y1 * ((z * dd) * (z * dd) * (z * dd))))
    BY <1>17, <1>10, DifferenceTo, Zenon DEF y3
  <2> QED BY <2>1, <2>2, Zenon
<1> HIDE DEF y3
<1>19. r.p.x = B /\ r.p.y = y1p /\ r.q.x = x3 /\ r.q.y = y3
  BY <1>1
<1> QED BY <1>5, <1>10, <1>14, <1>18, <1>19, Zenon

\* Of two such points, the difference by the chord of slope m to the mirror image,
\* and the sum; sub enters by its square only.
LEMMA AddCNumbers ==
    ASSUME NEW x1 \in Int, NEW y1 \in Int, NEW x2 \in Int, NEW y2 \in Int, NEW z \in Int,
           NEW l \in Int, NEW m \in Int,
           NEW X1 \in Field, NEW Y1 \in Field, NEW X2 \in Field, NEW Y2 \in Field, NEW dd \in Int,
           NEW sub,
           Is(X1, x1 * (z * z)), Is(Y1, y1 * (z * z * z)), Is(X2, x2 * (z * z)),
           X2 = X1 + dd, Is(Square(sub), dd * dd),
           Is(Minus(Y2, Y1), l * (z * dd)), Is(Plus(Y2, Y1), -m * (z * dd)),
           NEW r, r = XYcZ_addC([x |-> X1, y |-> Y1], [x |-> X2, y |-> Y2], sub)
    PROVE  /\ Is(r.p.x, (m * m - x1 - x2) * ((z * dd) * (z * dd)))
           /\ Is(r.p.y, (m * (x1 - (m * m - x1 - x2)) - y1) * ((z * dd) * (z * dd) * (z * dd)))
           /\ Is(r.q.x, (l * l - x1 - x2) * ((z * dd) * (z * dd)))
           /\ Is(r.q.y, (l * (x1 - (l * l - x1 - x2)) - y1) * ((z * dd) * (z * dd) * (z * dd)))
<1> DEFINE A   == Square(sub)
           B   == Mult(X1, A)
           C   == Mult(X2, A)
           sy  == Plus(Y2, Y1)
           dy  == Minus(Y2, Y1)
           cb  == Minus(C, B)
           E   == Mult(Y1, cb)
           bc  == Plus(B, C)
           dy2 == Square(dy)
           sy2 == Square(sy)
           x3  == Minus(dy2, bc)
           x3a == Minus(sy2, bc)
           ua  == Minus(x3a, B)
           ub  == Minus(B, x3)
           va  == Mult(sy, ua)
           vb  == Mult(dy, ub)
           ya  == Minus(va, E)
           yb  == Minus(vb, E)
<1>1. r = [p |-> [x |-> x3a, y |-> ya], q |-> [x |-> x3, y |-> yb]]
  BY DEF XYcZ_addC
<1>2. Is(X1, X1) /\ Is(X2, X1 + dd)
  <2>1. X1 \in Int /\ X2 \in Int
    BY FieldPrime
  <2> QED BY <2>1, FieldPrime, CongRefl DEF Is
<1>3. r.p.x = x3a /\ r.p.y = ya /\ r.q.x = x3 /\ r.q.y = yb
  BY <1>1
<1>4. Is(A, dd * dd) /\ Is(dy, l * (z * dd)) /\ Is(sy, -m * (z * dd))
  OBVIOUS
<1> X1 \in Int
  BY FieldPrime
<1> HIDE DEF A, sy, dy
<1>5. Is(B, x1 * ((z * dd) * (z * dd)))
  <2>1. (x1 * (z * z)) * (dd * dd) = x1 * ((z * dd) * (z * dd))
    OBVIOUS
  <2>2. Is(B, (x1 * (z * z)) * (dd * dd))
    BY <1>4, ProductTo, Zenon DEF B
  <2> QED BY <2>1, <2>2, Zenon
<1>6. Is(C, x2 * ((z * dd) * (z * dd)))
  <2>1. (x2 * (z * z)) * (dd * dd) = x2 * ((z * dd) * (z * dd))
    OBVIOUS
  <2>2. Is(C, (x2 * (z * z)) * (dd * dd))
    BY <1>4, ProductTo, Zenon DEF C
  <2> QED BY <2>1, <2>2, Zenon
<1>7. Is(B, X1 * (dd * dd))
  <2>1. (X1) * (dd * dd) = X1 * (dd * dd)
    OBVIOUS
  <2>2. Is(B, (X1) * (dd * dd))
    BY <1>2, <1>4, ProductTo, Zenon DEF B
  <2> QED BY <2>1, <2>2, Zenon
<1>8. Is(C, (X1 + dd) * (dd * dd))
  <2>1. (X1 + dd) * (dd * dd) = (X1 + dd) * (dd * dd)
    OBVIOUS
  <2>2. Is(C, (X1 + dd) * (dd * dd))
    BY <1>2, <1>4, ProductTo, Zenon DEF C
  <2> QED BY <2>1, <2>2, Zenon
<1> HIDE DEF B, C
<1>9. Is(cb, dd * (dd * dd))
  <2>1. ((X1 + dd) * (dd * dd)) - (X1 * (dd * dd)) = dd * (dd * dd)
    OBVIOUS
  <2>2. Is(cb, ((X1 + dd) * (dd * dd)) - (X1 * (dd * dd)))
    BY <1>8, <1>7, DifferenceTo, Zenon DEF cb
  <2> QED BY <2>1, <2>2, Zenon
<1> HIDE DEF cb
<1>10. Is(E, y1 * ((z * dd) * (z * dd) * (z * dd)))
  <2>1. (y1 * (z * z * z)) * (dd * (dd * dd)) = y1 * ((z * dd) * (z * dd) * (z * dd))
    OBVIOUS
  <2>2. Is(E, (y1 * (z * z * z)) * (dd * (dd * dd)))
    BY <1>9, ProductTo, Zenon DEF E
  <2> QED BY <2>1, <2>2, Zenon
<1> HIDE DEF E
<1>11. Is(bc, (x1 + x2) * ((z * dd) * (z * dd)))
  <2>1. (x1 * ((z * dd) * (z * dd))) + (x2 * ((z * dd) * (z * dd))) = (x1 + x2) * ((z * dd) * (z * dd))
    OBVIOUS
  <2>2. Is(bc, (x1 * ((z * dd) * (z * dd))) + (x2 * ((z * dd) * (z * dd))))
    BY <1>5, <1>6, SumTo, Zenon DEF bc
  <2> QED BY <2>1, <2>2, Zenon
<1> HIDE DEF bc
<1>12. Is(dy2, (l * l) * ((z * dd) * (z * dd)))
  <2>1. (l * (z * dd)) * (l * (z * dd)) = (l * l) * ((z * dd) * (z * dd))
    OBVIOUS
  <2>2. Is(dy2, (l * (z * dd)) * (l * (z * dd)))
    BY <1>4, SquareTo, Zenon DEF dy2
  <2> QED BY <2>1, <2>2, Zenon
<1> HIDE DEF dy2
<1>13. Is(sy2, (m * m) * ((z * dd) * (z * dd)))
  <2>1. (-m * (z * dd)) * (-m * (z * dd)) = (m * m) * ((z * dd) * (z * dd))
    OBVIOUS
  <2>2. Is(sy2, (-m * (z * dd)) * (-m * (z * dd)))
    BY <1>4, SquareTo, Zenon DEF sy2
  <2> QED BY <2>1, <2>2, Zenon
<1> HIDE DEF sy2
<1>14. Is(x3, (l * l - x1 - x2) * ((z * dd) * (z * dd)))
  <2>1. ((l * l) * ((z * dd) * (z * dd))) - ((x1 + x2) * ((z * dd) * (z * dd))) = (l * l - x1 - x2) * ((z * dd) * (z * dd))
    OBVIOUS
  <2>2. Is(x3, ((l * l) * ((z * dd) * (z * dd))) - ((x1 + x2) * ((z * dd) * (z * dd))))
    BY <1>12, <1>11, DifferenceTo, Zenon DEF x3
  <2> QED BY <2>1, <2>2, Zenon
<1> HIDE DEF x3
<1>15. Is(x3a, (m * m - x1 - x2) * ((z * dd) * (z * dd)))
  <2>1. ((m * m) * ((z * dd) * (z * dd))) - ((x1 + x2) * ((z * dd) * (z * dd))) = (m * m - x1 - x2) * ((z * dd) * (z * dd))
    OBVIOUS
  <2>2. Is(x3a, ((m * m) * ((z * dd) * (z * dd))) - ((x1 + x2) * ((z * dd) * (z * dd))))
    BY <1>13, <1>11, DifferenceTo, Zenon DEF x3a
  <2> QED BY <2>1, <2>2, Zenon
<1> HIDE DEF x3a
<1>16. Is(ua, ((m * m - x1 - x2) - x1) * ((z * dd) * (z * dd)))
  <2>1. ((m * m - x1 - x2) * ((z * dd) * (z * dd))) - (x1 * ((z * dd) * (z * dd))) = ((m * m - x1 - x2) - x1) * ((z * dd) * (z * dd))
    OBVIOUS
  <2>2. Is(ua, ((m * m - x1 - x2) * ((z * dd) * (z * dd))) - (x1 * ((z * dd) * (z * dd))))
    BY <1>15, <1>5, DifferenceTo, Zenon DEF ua
  <2> QED BY <2>1, <2>2, Zenon
<1> HIDE DEF ua
<1>17. Is(ub, (x1 - (l * l - x1 - x2)) * ((z * dd) * (z * dd)))
  <2>1. (x1 * ((z * dd) * (z * dd))) - ((l * l - x1 - x2) * ((z * dd) * (z * dd))) = (x1 - (l * l - x1 - x2)) * ((z * dd) * (z * dd))
    OBVIOUS
  <2>2. Is(ub, (x1 * ((z * dd) * (z * dd))) - ((l * l - x1 - x2) * ((z * dd) * (z * dd))))
    BY <1>5, <1>14, DifferenceTo, Zenon DEF ub
  <2> QED BY <2>1, <2>2, Zenon
<1> HIDE DEF ub
<1>18. Is(va, (m * (x1 - (m * m - x1 - x2))) * ((z * dd) * (z * dd) * (z * dd)))
  <2>1. (-m * (z * dd)) * (((m * m - x1 - x2) - x1) * ((z * dd) * (z * dd))) = (m * (x1 - (m * m - x1 - x2))) * ((z * dd) * (z * dd) * (z * dd))
    OBVIOUS
  <2>2. Is(va, (-m * (z * dd)) * (((m * m - x1 - x2) - x1) * ((z * dd) * (z * dd))))
    BY <1>4, <1>16, ProductTo, Zenon DEF va
  <2> QED BY <2>1, <2>2, Zenon
<1> HIDE DEF va
<1>19. Is(vb, (l * (x1 - (l * l - x1 - x2))) * ((z * dd) * (z * dd) * (z * dd)))
  <2>1. (l * (z * dd)) * ((x1 - (l * l - x1 - x2)) * ((z * dd) * (z * dd))) = (l * (x1 - (l * l - x1 - x2))) * ((z * dd) * (z * dd) * (z * dd))
    OBVIOUS
  <2>2. Is(vb, (l * (z * dd)) * ((x1 - (l * l - x1 - x2)) * ((z * dd) * (z * dd))))
    BY <1>4, <1>17, ProductTo, Zenon DEF vb
  <2> QED BY <2>1, <2>2, Zenon
<1> HIDE DEF vb
<1>20. Is(ya, (m * (x1 - (m * m - x1 - x2)) - y1) * ((z * dd) * (z * dd) * (z * dd)))
  <2>1. ((m * (x1 - (m * m - x1 - x2))) * ((z * dd) * (z * dd) * (z * dd))) - (y1 * ((z * dd) * (z * dd) * (z * dd))) = (m * (x1 - (m * m - x1 - x2)) - y1) * ((z * dd) * (z * dd) * (z * dd))
    OBVIOUS
  <2>2. Is(ya, ((m * (x1 - (m * m - x1 - x2))) * ((z * dd) * (z * dd) * (z * dd))) - (y1 * ((z * dd) * (z * dd) * (z * dd))))
    BY <1>18, <1>10, DifferenceTo, Zenon DEF ya
  <2> QED BY <2>1, <2>2, Zenon
<1> HIDE DEF ya
<1>21. Is(yb, (l * (x1 - (l * l - x1 - x2)) - y1) * ((z * dd) * (z * dd) * (z * dd)))
  <2>1. ((l * (x1 - (l * l - x1 - x2))) * ((z * dd) * (z * dd) * (z * dd))) - (y1 * ((z * dd) * (z * dd) * (z * dd))) = (l * (x1 - (l * l - x1 - x2)) - y1) * ((z * dd) * (z * dd) * (z * dd))
    OBVIOUS
  <2>2. Is(yb, ((l * (x1 - (l * l - x1 - x2))) * ((z * dd) * (z * dd) * (z * dd))) - (y1 * ((z * dd) * (z * dd) * (z * dd))))
    BY <1>19, <1>10, DifferenceTo, Zenon DEF yb
  <2> QED BY <2>1, <2>2, Zenon
<1> HIDE DEF yb
<1> QED BY <1>3, <1>14, <1>15, <1>20, <1>21, Zenon

\* Two is not zero.
LEMMA OddPrime ==
    p > 2 /\ ~Cong(2, 0, p)
<1>1. p > 2
  <2>1. p \in Nat /\ p >= 2 /\ (p % 2) = 1
    BY FieldSize
  <2> QED BY <2>1
<1>2. 2 \in Field
  BY <1>1, FieldPrime DEF Field
<1> QED BY <1>1, <1>2, FieldPrime

\* A field element is itself.
LEMMA IsNumber ==
    ASSUME NEW x \in Field
    PROVE  Is(x, x)
<1>1. x \in Int
  BY FieldPrime
<1> QED BY <1>1, FieldPrime, CongRefl DEF Is

\* What is a is whatever a is congruent to.
LEMMA IsSame ==
    ASSUME NEW x, NEW a, NEW c \in Int, Is(x, a), Cong(a, c, p)
    PROVE  Is(x, c)
<1>1. x \in Field /\ x \in Int /\ a \in Int /\ Cong(x, a, p)
  BY DEF Is
<1>2. Cong(x, c, p)
  BY <1>1, FieldPrime, CongTrans
<1> QED BY <1>1, <1>2 DEF Is

\* ApplyZ multiplies x by the square and y by the cube of z.
LEMMA ApplyZNumbers ==
    ASSUME NEW P, NEW x, NEW y, NEW z, NEW w, Is(P.x, x), Is(P.y, y), Is(z, w)
    PROVE  /\ Is(ApplyZ(P, z).x, x * (w * w))
           /\ Is(ApplyZ(P, z).y, y * (w * w * w))
<1> DEFINE z2 == Square(z)
           z3 == Mult(z2, z)
           X  == Mult(P.x, z2)
           Y  == Mult(P.y, z3)
<1> x \in Int /\ y \in Int /\ w \in Int
  BY DEF Is
<1>1. ApplyZ(P, z).x = X /\ ApplyZ(P, z).y = Y
  BY DEF ApplyZ
<1>2. Is(z2, w * w)
  <2>1. (w) * (w) = w * w
    OBVIOUS
  <2>2. Is(z2, (w) * (w))
    BY SquareTo, Zenon DEF z2
  <2> QED BY <2>1, <2>2, Zenon
<1> HIDE DEF z2
<1>3. Is(z3, w * w * w)
  <2>1. (w * w) * (w) = w * w * w
    OBVIOUS
  <2>2. Is(z3, (w * w) * (w))
    BY <1>2, ProductTo, Zenon DEF z3
  <2> QED BY <2>1, <2>2, Zenon
<1> HIDE DEF z3
<1>4. Is(X, x * (w * w))
  <2>1. (x) * (w * w) = x * (w * w)
    OBVIOUS
  <2>2. Is(X, (x) * (w * w))
    BY <1>2, ProductTo, Zenon DEF X
  <2> QED BY <2>1, <2>2, Zenon
<1>5. Is(Y, y * (w * w * w))
  <2>1. (y) * (w * w * w) = y * (w * w * w)
    OBVIOUS
  <2>2. Is(Y, (y) * (w * w * w))
    BY <1>3, ProductTo, Zenon DEF Y
  <2> QED BY <2>1, <2>2, Zenon
<1> HIDE DEF X, Y
<1> QED BY <1>1, <1>4, <1>5, Zenon

\* Twice a point, by the tangent of slope l, with w in the denominator.
LEMMA DoubleNumbers ==
    ASSUME NEW x \in Int, NEW y \in Int, NEW c \in Int, NEW l \in Int,
           NEW X, NEW Y, NEW z, Is(X, x * (c * c)), Is(Y, y * (c * c * c)), Is(z, c),
           Cong(2 * (l * y), 3 * (x * x - 1), p),
           NEW w, w = y * (c * c * c * c),
           NEW d, d = DoubleJacobian([x |-> X, y |-> Y], z)
    PROVE  /\ Is(d.z, w)
           /\ Is(d.point.x, (l * l - x - x) * (w * w))
           /\ Is(d.point.y, (l * (x - (l * l - x - x)) - y) * (w * w * w))
<1> DEFINE y2 == Square(Y)
           A  == Mult(X, y2)
           z2 == Square(z)
           up == Plus(X, z2)
           dn == Minus(X, z2)
           ud == Mult(up, dn)
           t  == Mult(3, ud)
           B  == Half(t)
           B2 == Square(B)
           u  == Minus(B2, A)
           x3 == Minus(u, A)
           v  == Minus(A, x3)
           bv == Mult(B, v)
           y4 == Square(y2)
           y3 == Minus(bv, y4)
           zz == Mult(Y, z)
<1>1. d.point.x = x3 /\ d.point.y = y3 /\ d.z = zz
  BY DEF DoubleJacobian
<1> w \in Int
  OBVIOUS
<1>2. Is(y2, (y * y) * (c * c * c * c * c * c))
  <2>1. (y * (c * c * c)) * (y * (c * c * c)) = (y * y) * (c * c * c * c * c * c)
    OBVIOUS
  <2>2. Is(y2, (y * (c * c * c)) * (y * (c * c * c)))
    BY SquareTo, Zenon DEF y2
  <2> QED BY <2>1, <2>2, Zenon
<1>3. Is(z2, c * c)
  <2>1. (c) * (c) = c * c
    OBVIOUS
  <2>2. Is(z2, (c) * (c))
    BY SquareTo, Zenon DEF z2
  <2> QED BY <2>1, <2>2, Zenon
<1> HIDE DEF y2, z2
<1>4. Is(A, x * (w * w))
  <2>1. (x * (c * c)) * ((y * y) * (c * c * c * c * c * c)) = x * (w * w)
    OBVIOUS
  <2>2. Is(A, (x * (c * c)) * ((y * y) * (c * c * c * c * c * c)))
    BY <1>2, ProductTo, Zenon DEF A
  <2> QED BY <2>1, <2>2, Zenon
<1>5. Is(up, (x + 1) * (c * c))
  <2>1. (x * (c * c)) + (c * c) = (x + 1) * (c * c)
    OBVIOUS
  <2>2. Is(up, (x * (c * c)) + (c * c))
    BY <1>3, SumTo, Zenon DEF up
  <2> QED BY <2>1, <2>2, Zenon
<1>6. Is(dn, (x - 1) * (c * c))
  <2>1. (x * (c * c)) - (c * c) = (x - 1) * (c * c)
    OBVIOUS
  <2>2. Is(dn, (x * (c * c)) - (c * c))
    BY <1>3, DifferenceTo, Zenon DEF dn
  <2> QED BY <2>1, <2>2, Zenon
<1> HIDE DEF A, up, dn
<1>7. Is(ud, (x * x - 1) * (c * c * c * c))
  <2>1. ((x + 1) * (c * c)) * ((x - 1) * (c * c)) = (x * x - 1) * (c * c * c * c)
    OBVIOUS
  <2>2. Is(ud, ((x + 1) * (c * c)) * ((x - 1) * (c * c)))
    BY <1>5, <1>6, ProductTo, Zenon DEF ud
  <2> QED BY <2>1, <2>2, Zenon
<1> HIDE DEF ud
<1>8. Is(t, 3 * ((x * x - 1) * (c * c * c * c)))
  <2>1. ud \in Int /\ Cong(ud, (x * x - 1) * (c * c * c * c), p) /\ (x * x - 1) * (c * c * c * c) \in Int
    BY <1>7, Zenon DEF Is
  <2>2. PICK g \in Int : g = (x * x - 1) * (c * c * c * c)
    BY <2>1
  <2>3. Cong(3, 3, p)
    BY FieldPrime, CongRefl
  <2>4. Mult(3, ud) \in Field /\ Cong(Mult(3, ud), 3 * g, p)
    BY <2>1, <2>2, <2>3, MultIs
  <2>5. Mult(3, ud) \in Int /\ 3 * g \in Int
    BY <2>4, FieldPrime
  <2>6. Is(t, 3 * g)
    BY <2>4, <2>5 DEF Is
  <2> QED BY <2>2, <2>6
<1> HIDE DEF t
<1>9. Is(B, l * w)
  <2>1. t \in Field /\ t \in Int /\ Cong(t, 3 * ((x * x - 1) * (c * c * c * c)), p)
    BY <1>8, Zenon DEF Is
  <2>2. Half(t) \in Field /\ Half(t) \in Int /\ Cong(2 * Half(t), t, p)
    BY <2>1, HalfIs, FieldPrime
  <2>3. PICK h \in Int : h = Half(t)
    BY <2>2
  <2>4. Cong(2 * (l * y) * (c * c * c * c), 3 * (x * x - 1) * (c * c * c * c), p)
    <3>1. PICK i \in Int, j \in Int, k \in Int : i = 2 * (l * y) /\ j = 3 * (x * x - 1) /\ k = c * c * c * c
      OBVIOUS
    <3>2. Cong(i, j, p) /\ Cong(k, k, p)
      BY <3>1, FieldPrime, CongRefl
    <3>3. Cong(i * k, j * k, p)
      BY <3>2, FieldPrime, CongOps
    <3> QED BY <3>1, <3>3, Zenon
  <2>5. 2 * (l * y) * (c * c * c * c) = 2 * (l * w)
    OBVIOUS
  <2>6. 3 * (x * x - 1) * (c * c * c * c) = 3 * ((x * x - 1) * (c * c * c * c))
    OBVIOUS
  <2>7. PICK i \in Int, j \in Int : i = l * w /\ j = 3 * ((x * x - 1) * (c * c * c * c))
    OBVIOUS
  <2>8. Cong(2 * i, j, p) /\ Cong(2 * h, t, p) /\ Cong(t, j, p)
    BY <2>1, <2>2, <2>3, <2>4, <2>5, <2>6, <2>7, Zenon
  <2>9. Cong(2 * h, 2 * i, p)
    <3>1. 2 * i \in Int /\ 2 * h \in Int /\ t \in Int /\ p \in Nat
      BY <2>1, FieldPrime
    <3>2. Cong(2 * h, j, p) /\ Cong(j, 2 * i, p)
      BY <2>8, <3>1, CongTrans, CongSym
    <3> QED BY <3>1, <3>2, CongTrans
  <2>10. Cong(h, i, p)
    BY <2>9, OddPrime, FieldPrime, CongCancel
  <2> QED BY <2>2, <2>3, <2>7, <2>10 DEF Is
<1> HIDE DEF B
<1>10. Is(B2, (l * l) * (w * w))
  <2>1. (l * w) * (l * w) = (l * l) * (w * w)
    OBVIOUS
  <2>2. Is(B2, (l * w) * (l * w))
    BY <1>9, SquareTo, Zenon DEF B2
  <2> QED BY <2>1, <2>2, Zenon
<1> HIDE DEF B2
<1>11. Is(u, (l * l - x) * (w * w))
  <2>1. ((l * l) * (w * w)) - (x * (w * w)) = (l * l - x) * (w * w)
    OBVIOUS
  <2>2. Is(u, ((l * l) * (w * w)) - (x * (w * w)))
    BY <1>10, <1>4, DifferenceTo, Zenon DEF u
  <2> QED BY <2>1, <2>2, Zenon
<1> HIDE DEF u
<1>12. Is(x3, (l * l - x - x) * (w * w))
  <2>1. ((l * l - x) * (w * w)) - (x * (w * w)) = (l * l - x - x) * (w * w)
    OBVIOUS
  <2>2. Is(x3, ((l * l - x) * (w * w)) - (x * (w * w)))
    BY <1>11, <1>4, DifferenceTo, Zenon DEF x3
  <2> QED BY <2>1, <2>2, Zenon
<1> HIDE DEF x3
<1>13. Is(v, (x - (l * l - x - x)) * (w * w))
  <2>1. (x * (w * w)) - ((l * l - x - x) * (w * w)) = (x - (l * l - x - x)) * (w * w)
    OBVIOUS
  <2>2. Is(v, (x * (w * w)) - ((l * l - x - x) * (w * w)))
    BY <1>4, <1>12, DifferenceTo, Zenon DEF v
  <2> QED BY <2>1, <2>2, Zenon
<1> HIDE DEF v
<1>14. Is(bv, (l * (x - (l * l - x - x))) * (w * w * w))
  <2>1. (l * w) * ((x - (l * l - x - x)) * (w * w)) = (l * (x - (l * l - x - x))) * (w * w * w)
    OBVIOUS
  <2>2. Is(bv, (l * w) * ((x - (l * l - x - x)) * (w * w)))
    BY <1>9, <1>13, ProductTo, Zenon DEF bv
  <2> QED BY <2>1, <2>2, Zenon
<1> HIDE DEF bv
<1>15. Is(y4, y * (w * w * w))
  <2>1. ((y * y) * (c * c * c * c * c * c)) * ((y * y) * (c * c * c * c * c * c)) = y * (w * w * w)
    OBVIOUS
  <2>2. Is(y4, ((y * y) * (c * c * c * c * c * c)) * ((y * y) * (c * c * c * c * c * c)))
    BY <1>2, SquareTo, Zenon DEF y4
  <2> QED BY <2>1, <2>2, Zenon
<1> HIDE DEF y4
<1>16. Is(y3, (l * (x - (l * l - x - x)) - y) * (w * w * w))
  <2>1. ((l * (x - (l * l - x - x))) * (w * w * w)) - (y * (w * w * w)) = (l * (x - (l * l - x - x)) - y) * (w * w * w)
    OBVIOUS
  <2>2. Is(y3, ((l * (x - (l * l - x - x))) * (w * w * w)) - (y * (w * w * w)))
    BY <1>14, <1>15, DifferenceTo, Zenon DEF y3
  <2> QED BY <2>1, <2>2, Zenon
<1> HIDE DEF y3
<1>17. Is(zz, w)
  <2>1. (y * (c * c * c)) * (c) = w
    OBVIOUS
  <2>2. Is(zz, (y * (c * c * c)) * (c))
    BY ProductTo, Zenon DEF zz
  <2> QED BY <2>1, <2>2, Zenon
<1> HIDE DEF zz
<1> QED BY <1>1, <1>12, <1>16, <1>17, Zenon

------------------------------------------------------------------------------
(* Points with a denominator *)

\* The pair R stands for P, with z in the denominator.
At(R, z, P) == Is(R.x, P.x * (z * z)) /\ Is(R.y, P.y * (z * z * z))

\* S is the third point, mirrored, of the line of slope l through P and Q.
Third(l, P, Q, S) ==
    /\ S.x \in Field /\ S.y \in Field
    /\ Cong(S.x, l * l - P.x - Q.x, p)
    /\ Cong(S.y, l * (P.x - (l * l - P.x - Q.x)) - P.y, p)

\* Two numbers that are those of the third point, with w in the denominator.
LEMMA ThirdAt ==
    ASSUME NEW l \in Int, NEW P, P.x \in Field, P.y \in Field, NEW Q, Q.x \in Field, Q.y \in Field,
           NEW S, Third(l, P, Q, S), NEW w \in Int, NEW R,
           Is(R.x, (l * l - P.x - Q.x) * (w * w)),
           Is(R.y, (l * (P.x - (l * l - P.x - Q.x)) - P.y) * (w * w * w))
    PROVE  At(R, w, S)
<1>1. P.x \in Int /\ P.y \in Int /\ Q.x \in Int /\ Q.y \in Int /\ S.x \in Int /\ S.y \in Int
  BY FieldPrime DEF Third
<1>2. PICK s \in Int, t \in Int : s = l * l - P.x - Q.x /\ t = l * (P.x - (l * l - P.x - Q.x)) - P.y
  BY <1>1
<1>3. Cong(s, S.x, p) /\ Cong(t, S.y, p)
  BY <1>1, <1>2, CongSym, FieldPrime, Zenon DEF Third
<1>4. PICK w2 \in Int, w3 \in Int : w2 = w * w /\ w3 = w * w * w
  OBVIOUS
<1>5. Cong(s * w2, S.x * w2, p) /\ Cong(t * w3, S.y * w3, p)
  BY <1>1, <1>3, CongRefl, CongOps, FieldPrime
<1>6. Is(R.x, s * w2) /\ Is(R.y, t * w3)
  BY <1>2, <1>4, Zenon
<1>7. S.x * w2 \in Int /\ S.y * w3 \in Int
  BY <1>1
<1>8. Is(R.x, S.x * w2) /\ Is(R.y, S.y * w3)
  BY <1>5, <1>6, <1>7, IsSame
<1> QED BY <1>4, <1>8, Zenon DEF At

\* Products of what is not zero are not.
LEMMA NotZeroTimes ==
    ASSUME NEW x \in Int, NEW y \in Int, ~Cong(x, 0, p), ~Cong(y, 0, p)
    PROVE  ~Cong(x * y, 0, p)
BY CongPrime, FieldPrime

\* Whichever way sub was taken, its square is that of the difference.
LEMMA SubSquare ==
    ASSUME NEW X \in Field, NEW Y \in Field, NEW sub, sub \in {Minus(X, Y), Minus(Y, X)}
    PROVE  Is(Square(sub), (Y - X) * (Y - X))
<1>1. X \in Int /\ Y \in Int /\ Is(X, X) /\ Is(Y, Y)
  BY FieldPrime, IsNumber
<1>2. CASE sub = Minus(X, Y)
  <2>1. Is(sub, X - Y)
    BY <1>1, <1>2, DifferenceTo
  <2>2. Is(Square(sub), (X - Y) * (X - Y))
    BY <2>1, SquareTo
  <2>3. (X - Y) * (X - Y) = (Y - X) * (Y - X)
    BY <1>1
  <2> QED BY <2>2, <2>3, Zenon
<1>3. CASE sub = Minus(Y, X)
  <2>1. Is(sub, Y - X)
    BY <1>1, <1>3, DifferenceTo
  <2> QED BY <2>1, SquareTo
<1> QED BY <1>2, <1>3

\* What the differences of two pairs at z are.
LEMMA Apart ==
    ASSUME NEW P, P.x \in Field, P.y \in Field, NEW Q, Q.x \in Field, Q.y \in Field,
           NEW X, NEW Y, NEW z \in Int, At(X, z, P), At(Y, z, Q), NEW l \in Int,
           Cong(l * (Q.x - P.x), Q.y - P.y, p)
    PROVE  /\ Y.x - X.x \in Int
           /\ Is(Minus(Y.y, X.y), l * (z * (Y.x - X.x)))
           /\ P.x # Q.x /\ ~Cong(z, 0, p) => ~Cong(z * (Y.x - X.x), 0, p)
<1>1. /\ P.x \in Int /\ P.y \in Int /\ Q.x \in Int /\ Q.y \in Int
      /\ X.x \in Int /\ X.y \in Int /\ Y.x \in Int /\ Y.y \in Int
  BY FieldPrime, Zenon DEF At, Is
<1>2. PICK dd \in Int, dx \in Int, dy \in Int : dd = Y.x - X.x /\ dx = Q.x - P.x /\ dy = Q.y - P.y
  BY <1>1
<1>3. PICK z2 \in Int, z3 \in Int : z2 = z * z /\ z3 = z * z * z
  OBVIOUS
<1>4. Cong(dd, dx * z2, p)
  <2>1. Cong(X.x, P.x * z2, p) /\ Cong(Y.x, Q.x * z2, p)
    BY <1>3, Zenon DEF At, Is
  <2>2. P.x * z2 \in Int /\ Q.x * z2 \in Int
    BY <1>1
  <2>3. Cong(Y.x - X.x, Q.x * z2 - P.x * z2, p)
    BY <1>1, <2>1, <2>2, CongOps, FieldPrime
  <2>4. Q.x * z2 - P.x * z2 = (Q.x - P.x) * z2
    BY <1>1
  <2> QED BY <1>2, <2>3, <2>4, Zenon
<1>5. Is(Minus(Y.y, X.y), dy * z3)
  <2>1. Is(X.y, P.y * z3) /\ Is(Y.y, Q.y * z3)
    BY <1>3, Zenon DEF At
  <2>2. Is(Minus(Y.y, X.y), Q.y * z3 - P.y * z3)
    BY <2>1, DifferenceTo
  <2>3. Q.y * z3 - P.y * z3 = (Q.y - P.y) * z3
    BY <1>1
  <2> QED BY <1>2, <2>2, <2>3, Zenon
<1>6. Cong(dy * z3, l * (z * dd), p)
  <2>1. Cong(dy * z3, (l * dx) * z3, p)
    <3>1. l * dx \in Int
      OBVIOUS
    <3>0. Cong(l * dx, dy, p)
      BY <1>2, Zenon
    <3>2. Cong(dy, l * dx, p)
      BY <3>0, <3>1, CongSym, FieldPrime
    <3> QED BY <3>1, <3>2, CongRefl, CongOps, FieldPrime
  <2>2. Cong(l * z, l * z, p) /\ l * z \in Int /\ dx * z2 \in Int
    BY CongRefl, FieldPrime
  <2>3. Cong(dx * z2, dd, p)
    BY <1>4, <2>2, CongSym, FieldPrime
  <2>4. Cong((l * z) * (dx * z2), (l * z) * dd, p)
    BY <2>2, <2>3, CongOps, FieldPrime
  <2>5. (l * z) * (dx * z2) = (l * dx) * (z * z2)
    OBVIOUS
  <2>6. z * z2 = z3 /\ (l * z) * dd = l * (z * dd)
    BY <1>3
  <2>7. Cong((l * dx) * z3, l * (z * dd), p)
    BY <2>4, <2>5, <2>6, Zenon
  <2>8. dy * z3 \in Int /\ (l * dx) * z3 \in Int /\ l * (z * dd) \in Int
    OBVIOUS
  <2> QED BY <2>1, <2>7, <2>8, CongTrans, FieldPrime
<1>7. Is(Minus(Y.y, X.y), l * (z * dd))
  <2>1. l * (z * dd) \in Int
    OBVIOUS
  <2> QED BY <1>5, <1>6, <2>1, IsSame
<1>8. ASSUME P.x # Q.x, ~Cong(z, 0, p) PROVE ~Cong(z * dd, 0, p)
  <2>1. ~Cong(dx, 0, p)
    <3>1. SUFFICES ASSUME Cong(dx, 0, p) PROVE FALSE
      OBVIOUS
    <3>2. Cong(dx + P.x, 0 + P.x, p)
      BY <1>1, <3>1, CongRefl, CongOps, FieldPrime
    <3>3. dx + P.x = Q.x /\ 0 + P.x = P.x
      BY <1>1, <1>2
    <3>4. Cong(Q.x, P.x, p)
      BY <3>2, <3>3
    <3> QED BY <1>8, <3>4, CongNear, FieldPrime DEF Field
  <2>2. ~Cong(dx * z2, 0, p)
    BY <1>3, <1>8, <2>1, NotZeroTimes
  <2>3. ~Cong(dd, 0, p)
    <3>1. dx * z2 \in Int
      OBVIOUS
    <3>2. Cong(dx * z2, dd, p)
      BY <1>4, <3>1, CongSym, FieldPrime
    <3> QED BY <2>2, <3>1, <3>2, CongTrans, FieldPrime
  <2> QED BY <1>8, <2>3, NotZeroTimes
<1> QED BY <1>2, <1>7, <1>8, Zenon

------------------------------------------------------------------------------
(* The points of the curve and their indices *)

\* The order is an odd prime.
LEMMA OrderPrime ==
    Prime(n) /\ n \in Nat /\ n \in Nat \ {0} /\ n > 3 /\ (n % 2) = 1
<1>1. n \in Nat /\ n > 3
  <2>1. num_n_bits \in Nat \ {0} /\ n \in Pow2[num_n_bits - 1]..(Pow2[num_n_bits] - 1) /\ n > 3
    BY MicroEccAssumption
  <2>2. num_n_bits \in Nat /\ num_n_bits - 1 \in Nat
    BY <2>1
  <2>3. Pow2[num_n_bits - 1] \in Nat /\ Pow2[num_n_bits] \in Nat
    BY <2>2, PowersOfTwo
  <2> QED BY <2>1, <2>3
<1>2. Prime(n)
  BY <1>1, MicroEccAssumption DEF Prime
<1>3. (n % 2) = 1
  <2>1. SUFFICES ASSUME (n % 2) # 1 PROVE FALSE
    OBVIOUS
  <2>2. PICK h \in Nat : n = 2 * h
    <3>1. n = 2 * (n \div 2) /\ n \div 2 \in Nat
      BY <1>1, <2>1
    <3> QED BY <3>1
  <2>3. 2 \in 1..(n - 1) /\ h \in 1..(n - 1)
    BY <1>1, <2>2
  <2>4. (2 * h) % n = 0
    <3>1. (n % n) = 0
      BY <1>1
    <3> QED BY <2>2, <3>1
  <2> QED BY <1>2, <2>3, <2>4 DEF Prime
<1> QED BY <1>1, <1>2, <1>3

\* x_side_default computes the curve's right side,
LEMMA CurveEquation ==
    ASSUME NEW x \in Field, NEW y \in Field
    PROVE  Square(y) = XSide(x) <=> (y * y) % p = (x * x * x - 3 * x + b) % p
<1>1. PICK b1 \in Field : b1 = b
  BY CurveAssumption DEF Field
<1>2. Is(x, x) /\ Is(b1, b1) /\ x \in Int /\ b1 \in Int
  BY IsNumber, FieldPrime
<1>3. Is(Square(x), x * x)
  BY <1>2, SquareTo
<1>4. Square(x) \in Int /\ Cong(Square(x), x * x, p) /\ x * x \in Int
  BY <1>3 DEF Is
<1>5. Minus(Square(x), 3) \in Field /\ Cong(Minus(Square(x), 3), x * x - 3, p)
  BY <1>4, CongRefl, MinusIs, FieldPrime
<1>6. Is(Minus(Square(x), 3), x * x - 3)
  <2>1. x * x - 3 \in Int
    BY <1>4
  <2> QED BY <1>5, <2>1, FieldPrime DEF Is
<1>7. Is(XSide(x), (x * x - 3) * x + b1)
  BY <1>1, <1>2, <1>6, ProductTo, SumTo DEF XSide
<1>8. (x * x - 3) * x + b1 = x * x * x - 3 * x + b1
  BY <1>2
<1>9. PICK c \in Int : c = x * x * x - 3 * x + b1
  BY <1>2
<1>10. XSide(x) \in Field /\ XSide(x) \in Int /\ Cong(XSide(x), c, p)
  BY <1>7, <1>8, <1>9 DEF Is
<1>11. XSide(x) = (c % p)
  <2>1. (XSide(x) % p) = (c % p)
    BY <1>10, CongIsMod, FieldPrime, ZenonT(60)
  <2>2. (XSide(x) % p) = XSide(x)
    BY <1>10, RemainderNear, FieldPrime DEF Field
  <2> QED BY <2>1, <2>2
<1> QED BY <1>1, <1>9, <1>11 DEF Square, Mult

\* ... so that the comparison with it tells the points.
LEMMA OnTheCurve ==
    ASSUME NEW P \in [x : 0..(p - 1), y : 0..(p - 1)]
    PROVE  P \in Points <=> Square(P.y) = XSide(P.x)
<1>1. PICK u \in Field, v \in Field : u = P.x /\ v = P.y
  BY DEF Field
<1>2. Square(v) = XSide(u) <=> (v * v) % p = (u * u * u - 3 * u + b) % p
  BY CurveEquation
<1> QED BY <1>1, <1>2, Zenon DEF Points

\* A multiple of the base point is a point of the curve.
LEMMA PointFields ==
    ASSUME NEW k \in 1..(n - 1)
    PROVE  /\ Multiples[k] \in Points
           /\ Multiples[k].x \in Field /\ Multiples[k].y \in Field
           /\ Multiples[k].x \in Int /\ Multiples[k].y \in Int
           /\ Multiples[k] = [x |-> Multiples[k].x, y |-> Multiples[k].y]
           /\ Multiples[k] # Ref!Infinity
           /\ Square(Multiples[k].y) = XSide(Multiples[k].x)
<1>1. Multiples[k] \in Points
  BY CurveAssumption
<1>2. Multiples[k] \in [x : 0..(p - 1), y : 0..(p - 1)]
  BY <1>1 DEF Points
<1>6. Square(Multiples[k].y) = XSide(Multiples[k].x)
  BY <1>1, <1>2, OnTheCurve
<1>3. Multiples[k].x \in 0..(p - 1) /\ Multiples[k].y \in 0..(p - 1)
  BY <1>2
<1>4. Multiples[k] # Ref!Infinity
  <2>1. Multiples[k].x # -1
    BY <1>3, FieldPrime
  <2> QED BY <2>1 DEF Ref!Infinity
<1>5. Multiples[k] = [x |-> Multiples[k].x, y |-> Multiples[k].y]
  BY <1>2
<1> QED BY <1>1, <1>2, <1>3, <1>4, <1>5, <1>6, FieldPrime DEF Field

\* The group law of the curve, on the indices of its points.
LEMMA SumOfMultiples ==
    ASSUME NEW i \in 1..(n - 1), NEW j \in 1..(n - 1)
    PROVE  /\ i + j = n <=> Ref!Sum(Multiples[i], Multiples[j]) = Ref!Infinity
           /\ i + j # n => /\ (i + j) % n \in 1..(n - 1)
                           /\ Ref!Sum(Multiples[i], Multiples[j]) = Multiples[(i + j) % n]
<1>1. Ref!Sum(Multiples[i], Multiples[j])
        = IF i + j = n THEN Ref!Infinity ELSE Multiples[(i + j) % n]
  BY CurveAssumption
<1>2. ASSUME i + j # n PROVE (i + j) % n \in 1..(n - 1)
  <2>1. n \in Nat /\ n > 3
    BY OrderPrime
  <2>2. CASE i + j < n
    <3>1. (i + j) % n = i + j
      BY <2>1, <2>2, RemainderNear
    <3> QED BY <2>1, <2>2, <3>1
  <2>3. CASE i + j > n
    <3>1. PICK g \in 1..(n - 1) : i + j = g + 1 * n
      <4>1. i + j - n \in 1..(n - 1) /\ i + j = (i + j - n) + 1 * n
        BY <2>1, <2>3
      <4> QED BY <4>1
    <3>2. Cong(i + j, g, n)
      BY <3>1 DEF Cong
    <3>3. (i + j) % n = (g % n)
      BY <2>1, <3>2, CongIsMod
    <3>4. (g % n) = g
      BY <2>1, RemainderNear
    <3> QED BY <3>3, <3>4
  <2> QED BY <1>2, <2>1, <2>2, <2>3
<1>3. ASSUME i + j # n PROVE Ref!Sum(Multiples[i], Multiples[j]) # Ref!Infinity
  <2>1. PICK g \in 1..(n - 1) : g = (i + j) % n
    BY <1>2, <1>3
  <2> QED BY <1>1, <1>3, <2>1, PointFields
<1> QED BY <1>1, <1>2, <1>3

\* Two points with the same x.
LEMMA SumVanishes ==
    ASSUME NEW P, NEW Q, P.x \in Field, P.y \in Field, Q.x \in Field, Q.y \in Field
    PROVE  /\ P # Ref!Infinity /\ Q # Ref!Infinity
           /\ P.x = Q.x /\ (P.y + Q.y) % p = 0 => Ref!Sum(P, Q) = Ref!Infinity
<1>1. P.x # -1 /\ Q.x # -1
  BY FieldPrime DEF Field
<1>2. P # Ref!Infinity /\ Q # Ref!Infinity
  BY <1>1 DEF Ref!Infinity
<1> QED BY <1>2 DEF Ref!Sum

\* No point has y = 0: it would be its own inverse, and the order is odd.
LEMMA Ordinate ==
    ASSUME NEW k \in 1..(n - 1)
    PROVE  Multiples[k].y # 0
<1>1. SUFFICES ASSUME Multiples[k].y = 0 PROVE FALSE
  OBVIOUS
<1>2. Multiples[k].x \in Field /\ Multiples[k].y \in Field
  BY PointFields
<1>3. (Multiples[k].y + Multiples[k].y) % p = 0
  <2>1. (0 % p) = 0
    BY FieldPrime, RemainderNear
  <2> QED BY <1>1, <2>1
<1>4. Ref!Sum(Multiples[k], Multiples[k]) = Ref!Infinity
  BY <1>2, <1>3, SumVanishes
<1>5. k + k = n
  BY <1>4, SumOfMultiples
<1> QED BY <1>5, OrderPrime

\* The inverse of a point has the same x and the opposite y.
LEMMA MirrorImage ==
    ASSUME NEW k \in 1..(n - 1)
    PROVE  /\ n - k \in 1..(n - 1)
           /\ Multiples[n - k] = [x |-> Multiples[k].x, y |-> p - Multiples[k].y]
<1> DEFINE Q == [x |-> Multiples[k].x, y |-> p - Multiples[k].y]
<1>1. PICK u \in Field, v \in Field : u = Multiples[k].x /\ v = Multiples[k].y
  BY PointFields
<1>2. v # 0 /\ v \in Int /\ p - v \in Field /\ p - v \in Int
  <2>1. v # 0
    BY <1>1, Ordinate
  <2> QED BY <2>1, FieldPrime DEF Field
<1>3. Square(p - v) = Square(v)
  <2>1. (p - v) * (p - v) = v * v + (p - 2 * v) * p /\ p - 2 * v \in Int
    BY <1>2, FieldPrime
  <2>2. Cong((p - v) * (p - v), v * v, p)
    BY <2>1 DEF Cong
  <2>3. (p - v) * (p - v) \in Int /\ v * v \in Int
    BY <1>2
  <2> QED BY <2>2, <2>3, CongIsMod, FieldPrime DEF Square, Mult
<1>4. Q = [x |-> u, y |-> p - v]
  BY <1>1
<1>5. Q \in Points
  <2>1. Square(v) = XSide(u)
    BY <1>1, PointFields
  <2>2. Q \in [x : 0..(p - 1), y : 0..(p - 1)]
    BY <1>2, <1>4 DEF Field
  <2>3. Square(Q.y) = XSide(Q.x)
    BY <1>3, <1>4, <2>1
  <2> HIDE DEF Q
  <2> QED BY <2>2, <2>3, OnTheCurve
<1>6. PICK j \in 1..(n - 1) : Q = Multiples[j]
  BY <1>5, CurveAssumption
<1>7. (Multiples[k].y + Q.y) % p = 0
  <2>1. Multiples[k].y + Q.y = p
    BY <1>1, <1>2, FieldPrime
  <2>2. (p % p) = 0
    BY FieldPrime
  <2> QED BY <2>1, <2>2
<1>8. Ref!Sum(Multiples[k], Q) = Ref!Infinity
  <2>1. Multiples[k].x \in Field /\ Multiples[k].y \in Field
    BY PointFields
  <2>2. Q.x = Multiples[k].x /\ Q.x \in Field /\ Q.y \in Field
    BY <1>1, <1>2, <2>1
  <2> QED BY <1>7, <2>1, <2>2, SumVanishes
<1>9. k + j = n
  BY <1>6, <1>8, SumOfMultiples
<1>10. n - k = j
  BY <1>9, OrderPrime
<1> QED BY <1>6, <1>10

\* Different indices, different points.
LEMMA Distinct ==
    ASSUME NEW i \in 1..(n - 1), NEW j \in 1..(n - 1), Multiples[i] = Multiples[j]
    PROVE  i = j
<1>1. n - j \in 1..(n - 1) /\ j + (n - j) = n
  BY OrderPrime
<1>2. Ref!Sum(Multiples[j], Multiples[n - j]) = Ref!Infinity
  BY <1>1, SumOfMultiples
<1>3. i + (n - j) = n
  BY <1>1, <1>2, SumOfMultiples
<1> QED BY <1>3, OrderPrime

\* Only a point and its inverse have the same x.
LEMMA SameAbscissa ==
    ASSUME NEW i \in 1..(n - 1), NEW j \in 1..(n - 1), Multiples[i].x = Multiples[j].x
    PROVE  i = j \/ i + j = n
<1>1. PICK u \in Field, v \in Field : u = Multiples[i].y /\ v = Multiples[j].y
  BY PointFields
<1>2. u \in Int /\ v \in Int
  BY FieldPrime
<1>3. Cong(u * u, v * v, p)
  <2>1. Square(u) = Square(v)
    BY <1>1, PointFields
  <2>2. (u * u) % p = (v * v) % p
    BY <2>1 DEF Square, Mult
  <2>3. u * u \in Int /\ v * v \in Int
    BY <1>2
  <2> QED BY <2>2, <2>3, CongIsMod, FieldPrime
<1>4. Cong((u - v) * (u + v), 0, p)
  <2>1. PICK k \in Int : u * u = v * v + k * p
    BY <1>3 DEF Cong
  <2>2. (u - v) * (u + v) = u * u - v * v
    BY <1>2
  <2>3. PICK g \in Int : g = k * p
    BY FieldPrime
  <2>4. PICK a \in Int, c \in Int : a = u * u /\ c = v * v
    BY <1>2
  <2>5. (u - v) * (u + v) = 0 + k * p
    BY <2>1, <2>2, <2>3, <2>4
  <2> QED BY <2>5 DEF Cong
<1>5. Cong(u - v, 0, p) \/ Cong(u + v, 0, p)
  BY <1>2, <1>4, CongPrime, FieldPrime
<1>6. CASE Cong(u - v, 0, p)
  <2>1. Cong((u - v) + v, 0 + v, p)
    BY <1>2, <1>6, CongRefl, CongOps, FieldPrime
  <2>2. (u - v) + v = u /\ 0 + v = v
    BY <1>2
  <2>3. Cong(u, v, p)
    BY <2>1, <2>2
  <2>4. u = v
    BY <2>3, CongNear, FieldPrime DEF Field
  <2>5. Multiples[i] = Multiples[j]
    <3>1. Multiples[i] = [x |-> Multiples[i].x, y |-> Multiples[i].y]
      BY PointFields
    <3>2. Multiples[j] = [x |-> Multiples[j].x, y |-> Multiples[j].y]
      BY PointFields
    <3> QED BY <1>1, <2>4, <3>1, <3>2
  <2> QED BY <2>5, Distinct
<1>7. CASE Cong(u + v, 0, p)
  <2>1. (u + v) % p = 0
    <3>1. u + v \in Int /\ (u + v) % p = (0 % p)
      BY <1>2, <1>7, CongIsMod, FieldPrime
    <3>2. (0 % p) = 0
      BY FieldPrime, RemainderNear
    <3> QED BY <3>1, <3>2
  <2>2. Ref!Sum(Multiples[i], Multiples[j]) = Ref!Infinity
    <3>1. /\ Multiples[i].x \in Field /\ Multiples[i].y \in Field
          /\ Multiples[j].x \in Field /\ Multiples[j].y \in Field
      BY PointFields
    <3> QED BY <1>1, <2>1, <3>1, SumVanishes
  <2> QED BY <2>2, SumOfMultiples
<1> QED BY <1>5, <1>6, <1>7

------------------------------------------------------------------------------
(* The reference's sum as chord and tangent *)

\* The reference's sum from its slope.
LEMMA SumBySlope ==
    ASSUME NEW P, NEW Q, P.x \in Field, P.y \in Field, Q.x \in Field, Q.y \in Field,
           P.x = Q.x => (P.y + Q.y) % p # 0,
           NEW l \in Int, l = Ref!Slope(P, Q)
    PROVE  Third(l, P, Q, Ref!Sum(P, Q))
<1>1. P # Ref!Infinity /\ Q # Ref!Infinity
  BY SumVanishes
<1> DEFINE u == l * l - P.x - Q.x
           X == u % p
           v == l * (P.x - X) - P.y
           Y == v % p
<1>2. Ref!Sum(P, Q) = [x |-> X, y |-> Y]
  BY <1>1 DEF Ref!Sum
<1>3. P.x \in Int /\ P.y \in Int /\ Q.x \in Int /\ Q.y \in Int
  BY FieldPrime
<1>4. u \in Int
  BY <1>3
<1> HIDE DEF u
<1>5. X \in 0..(p - 1) /\ Cong(X, u, p)
  BY <1>4, CongMod, FieldPrime
<1>6. X \in Int
  BY <1>5
<1> HIDE DEF X
<1>7. v \in Int
  BY <1>3, <1>6
<1>8. Cong(v, l * (P.x - u) - P.y, p)
  <2>0. Cong(P.x, P.x, p)
    BY <1>3, CongRefl, FieldPrime
  <2>1. Cong(P.x - X, P.x - u, p) /\ P.x - X \in Int /\ P.x - u \in Int
    <3>1. Cong(P.x - X, P.x - u, p)
      BY <1>3, <1>4, <1>5, <1>6, <2>0, CongOps, FieldPrime
    <3> QED BY <1>3, <1>4, <1>6, <3>1
  <2>2. Cong(l * (P.x - X), l * (P.x - u), p)
    BY <2>1, CongRefl, CongOps, FieldPrime
  <2>3. l * (P.x - X) \in Int /\ l * (P.x - u) \in Int
    BY <2>1
  <2> QED BY <1>3, <2>2, <2>3, CongRefl, CongOps, FieldPrime
<1> HIDE DEF v
<1>9. Y \in 0..(p - 1) /\ Cong(Y, v, p)
  BY <1>7, CongMod, FieldPrime
<1>10. Y \in Int /\ l * (P.x - u) - P.y \in Int
  BY <1>3, <1>4, <1>9
<1>11. Cong(Y, l * (P.x - u) - P.y, p)
  BY <1>7, <1>8, <1>9, <1>10, CongTrans, FieldPrime
<1>12. Ref!Sum(P, Q).x = X /\ Ref!Sum(P, Q).y = Y
  BY <1>2
<1> QED BY <1>5, <1>9, <1>11, <1>12, Zenon DEF Third, Field, u

\* The sum of two points is the third point of their chord,
LEMMA ChordThird ==
    ASSUME NEW P, NEW Q, P.x \in Field, P.y \in Field, Q.x \in Field, Q.y \in Field, P.x # Q.x
    PROVE  \E l \in Int : Cong(l * (Q.x - P.x), Q.y - P.y, p) /\ Third(l, P, Q, Ref!Sum(P, Q))
<1>1. P.x \in Int /\ P.y \in Int /\ Q.x \in Int /\ Q.y \in Int
  BY FieldPrime
<1>2. PICK dx \in Int, dy \in Int : dx = Q.x - P.x /\ dy = Q.y - P.y
  BY <1>1
<1>3. PICK h \in Int : h = dx % p
  BY FieldPrime
<1>4. h \in Field /\ Cong(h, dx, p) /\ h # 0
  <2>1. h \in Field /\ Cong(h, dx, p)
    BY <1>3, CongMod, FieldPrime DEF Field
  <2>2. ASSUME h = 0 PROVE FALSE
    <3>1. Cong(dx, 0, p)
      BY <2>1, <2>2, CongSym, FieldPrime
    <3>2. Cong(dx + P.x, 0 + P.x, p)
      BY <1>1, <3>1, CongRefl, CongOps, FieldPrime
    <3>3. dx + P.x = Q.x /\ 0 + P.x = P.x
      BY <1>1, <1>2
    <3>4. Cong(Q.x, P.x, p)
      BY <3>2, <3>3
    <3> QED BY <3>4, CongNear, FieldPrime DEF Field
  <2> QED BY <2>1, <2>2
<1>5. PICK v \in Int : v = Ref!InverseOf[h] /\ Cong(h * v, 1, p)
  <2>1. ModInv(h) \in Int
    BY <1>4, InverseIs, FieldPrime
  <2> QED BY <1>4, <2>1, InverseIs
<1>6. PICK l \in Int : l = (dy * v) % p /\ Cong(l, dy * v, p)
  <2>1. dy * v \in Int
    OBVIOUS
  <2>2. (dy * v) % p \in 0..(p - 1) /\ Cong((dy * v) % p, dy * v, p)
    BY <2>1, CongMod, FieldPrime
  <2>3. (dy * v) % p \in Int
    BY <2>2
  <2> QED BY <2>2, <2>3
<1>7. l = Ref!Slope(P, Q)
  BY <1>2, <1>3, <1>5, <1>6 DEF Ref!Slope
<1>8. Cong(l * dx, dy, p)
  <2>1. Cong(l * h, (dy * v) * h, p) /\ Cong(l * h, l * dx, p)
    <3>1. dy * v \in Int
      OBVIOUS
    <3> QED BY <1>4, <1>6, <3>1, CongRefl, CongOps, FieldPrime
  <2>2. (dy * v) * h = dy * (h * v)
    OBVIOUS
  <2>3. Cong(dy * (h * v), dy * 1, p)
    <3>1. h * v \in Int
      OBVIOUS
    <3> QED BY <1>5, <3>1, CongRefl, CongOps, FieldPrime
  <2>4. dy * 1 = dy
    OBVIOUS
  <2>5. Cong(l * h, dy * (h * v), p) /\ Cong(dy * (h * v), dy, p)
    BY <2>1, <2>2, <2>3, <2>4, Zenon
  <2>6. l * h \in Int /\ l * dx \in Int /\ dy * (h * v) \in Int
    OBVIOUS
  <2>7. Cong(l * h, dy, p) /\ Cong(l * dx, l * h, p)
    BY <2>1, <2>5, <2>6, CongTrans, CongSym, FieldPrime
  <2> QED BY <2>6, <2>7, CongTrans, FieldPrime
<1>9. Third(l, P, Q, Ref!Sum(P, Q))
  BY <1>7, SumBySlope
<1> QED BY <1>2, <1>8, <1>9, Zenon

\* ... that of a point with itself the third point of its tangent.
LEMMA TangentThird ==
    ASSUME NEW P, P.x \in Field, P.y \in Field, P.y # 0
    PROVE  \E l \in Int : Cong(2 * (l * P.y), 3 * (P.x * P.x - 1), p) /\ Third(l, P, P, Ref!Sum(P, P))
<1>1. PICK x \in Int, y \in Int : x = P.x /\ y = P.y
  BY FieldPrime
<1>2. PICK c \in Int : c = 2 * y
  OBVIOUS
<1>3. PICK h \in Int : h = c % p
  BY FieldPrime
<1>4. h \in Field /\ Cong(h, c, p) /\ h # 0
  <2>1. h \in Field /\ Cong(h, c, p)
    BY <1>3, CongMod, FieldPrime DEF Field
  <2>2. ASSUME h = 0 PROVE FALSE
    <3>1. Cong(2 * y, 0, p)
      BY <1>2, <2>1, <2>2, CongSym, FieldPrime
    <3>2. ~Cong(y, 0, p)
      BY <1>1, FieldPrime
    <3> QED BY <3>1, <3>2, OddPrime, NotZeroTimes
  <2> QED BY <2>1, <2>2
<1>5. PICK v \in Int : v = Ref!InverseOf[h] /\ Cong(h * v, 1, p)
  <2>1. ModInv(h) \in Int
    BY <1>4, InverseIs, FieldPrime
  <2> QED BY <1>4, <2>1, InverseIs
<1>6. PICK a \in Int : a = 3 * x * x - 3
  OBVIOUS
<1>7. PICK l \in Int : l = (a * v) % p /\ Cong(l, a * v, p)
  <2>1. a * v \in Int
    OBVIOUS
  <2>2. (a * v) % p \in 0..(p - 1) /\ Cong((a * v) % p, a * v, p)
    BY <2>1, CongMod, FieldPrime
  <2>3. (a * v) % p \in Int
    BY <2>2
  <2> QED BY <2>2, <2>3
<1>8. l = Ref!Slope(P, P)
  <2>1. Ref!Slope(P, P) = ((3 * P.x * P.x - 3) * Ref!InverseOf[(2 * P.y) % p]) % p
    BY Zenon DEF Ref!Slope
  <2> QED BY <1>1, <1>2, <1>3, <1>5, <1>6, <1>7, <2>1, Zenon
<1>9. Cong(l * c, a, p)
  <2>1. Cong(l * h, (a * v) * h, p) /\ Cong(l * h, l * c, p)
    <3>1. a * v \in Int
      OBVIOUS
    <3> QED BY <1>4, <1>7, <3>1, CongRefl, CongOps, FieldPrime
  <2>2. (a * v) * h = a * (h * v)
    OBVIOUS
  <2>3. Cong(a * (h * v), a * 1, p)
    <3>1. h * v \in Int
      OBVIOUS
    <3> QED BY <1>5, <3>1, CongRefl, CongOps, FieldPrime
  <2>4. a * 1 = a
    OBVIOUS
  <2>5. Cong(l * h, a * (h * v), p) /\ Cong(a * (h * v), a, p)
    BY <2>1, <2>2, <2>3, <2>4, Zenon
  <2>6. l * h \in Int /\ l * c \in Int /\ a * (h * v) \in Int
    OBVIOUS
  <2>7. Cong(l * h, a, p) /\ Cong(l * c, l * h, p)
    BY <2>1, <2>5, <2>6, CongTrans, CongSym, FieldPrime
  <2> QED BY <2>6, <2>7, CongTrans, FieldPrime
<1>10. Cong(2 * (l * y), 3 * (x * x - 1), p)
  <2>1. l * (2 * y) = 2 * (l * y) /\ 3 * x * x - 3 = 3 * (x * x - 1)
    OBVIOUS
  <2> QED BY <1>2, <1>6, <1>9, <2>1, Zenon
<1>11. Third(l, P, P, Ref!Sum(P, P))
  <2>1. (P.y + P.y) % p # 0
    <3>1. P.y + P.y = c
      BY <1>1, <1>2
    <3> QED BY <1>3, <1>4, <3>1
  <2> QED BY <1>8, <2>1, SumBySlope
<1> QED BY <1>1, <1>10, <1>11, Zenon

------------------------------------------------------------------------------
(* Multiples of a point *)

\* a times the m-th multiple of the base point, when that is a point.
Index(a, m) == (a * m) % n
\* The point there.
M(a, m)     == Multiples[Index(a, m)]

\* The index is congruent to a * m, and a point's unless a is a multiple of n.
LEMMA IndexIn ==
    ASSUME NEW a \in Int, NEW m \in 1..(n - 1)
    PROVE  /\ Index(a, m) \in 0..(n - 1) /\ Index(a, m) \in Int
           /\ Cong(Index(a, m), a * m, n) /\ Cong(a * m, Index(a, m), n)
           /\ a * m \in Int /\ m \in Int
           /\ ~Cong(a, 0, n) => Index(a, m) \in 1..(n - 1)
BY OrderPrime, RemainderOfPrime DEF Index

\* Indices that are equal, and indices of mirror images.
LEMMA IndexEqual ==
    ASSUME NEW a \in Int, NEW c \in Int, NEW m \in 1..(n - 1)
    PROVE  /\ Index(a, m) = Index(c, m) => Cong(a - c, 0, n)
           /\ Index(a, m) + Index(c, m) = n => Cong(a + c, 0, n)
           /\ Cong(Index(a, m) + Index(c, m), (a + c) * m, n)
           /\ Cong(Index(a, m) - Index(c, m), (a - c) * m, n)
BY OrderPrime, RemaindersOfPrime DEF Index

\* M gives points, none with y = 0.
LEMMA MPoint ==
    ASSUME NEW a \in Int, NEW m \in 1..(n - 1), ~Cong(a, 0, n)
    PROVE  /\ M(a, m).x \in Field /\ M(a, m).y \in Field /\ M(a, m).y # 0
           /\ M(a, m) = [x |-> M(a, m).x, y |-> M(a, m).y]
<1>1. Index(a, m) \in 1..(n - 1)
  BY IndexIn
<1> QED BY <1>1, PointFields, Ordinate DEF M

\* Congruent numbers give the same multiple.
LEMMA MSame ==
    ASSUME NEW a \in Int, NEW c \in Int, NEW m \in 1..(n - 1), Cong(a, c, n)
    PROVE  M(a, m) = M(c, m) /\ Index(a, m) = Index(c, m)
<1>1. a * m \in Int /\ c * m \in Int /\ m \in Int
  OBVIOUS
<1>2. Cong(a * m, c * m, n)
  BY <1>1, CongRefl, CongOps, OrderPrime
<1>3. (a * m) % n = (c * m) % n
  BY <1>1, <1>2, CongIsMod, OrderPrime
<1> QED BY <1>3 DEF M, Index

\* Multiples add up as their numbers do.
LEMMA MSum ==
    ASSUME NEW a \in Int, NEW c \in Int, NEW m \in 1..(n - 1),
           ~Cong(a, 0, n), ~Cong(c, 0, n), ~Cong(a + c, 0, n)
    PROVE  Ref!Sum(M(a, m), M(c, m)) = M(a + c, m)
<1>1. /\ Index(a, m) \in 1..(n - 1) /\ Index(c, m) \in 1..(n - 1)
      /\ (a + c) * m \in Int
  BY IndexIn
<1>2. Index(a, m) + Index(c, m) # n
  BY IndexEqual
<1>3. Ref!Sum(M(a, m), M(c, m)) = Multiples[(Index(a, m) + Index(c, m)) % n]
  BY <1>1, <1>2, SumOfMultiples DEF M
<1>4. PICK i \in Int, g \in Int : i = Index(a, m) + Index(c, m) /\ g = (a + c) * m
  BY <1>1
<1>5. (i % n) = (g % n)
  <2>1. Cong(i, g, n)
    BY <1>4, IndexEqual, Zenon
  <2> QED BY <2>1, CongIsMod, OrderPrime
<1> QED BY <1>3, <1>4, <1>5, Zenon DEF M, Index

\* The multiple for -a is the inverse of that for a.
LEMMA MMirror ==
    ASSUME NEW a \in Int, NEW m \in 1..(n - 1), ~Cong(a, 0, n)
    PROVE  /\ ~Cong(-a, 0, n)
           /\ M(-a, m) = [x |-> M(a, m).x, y |-> p - M(a, m).y]
<1>1. Index(a, m) \in 1..(n - 1)
  BY IndexIn
<1>2. ~Cong(-a, 0, n)
  <2>1. SUFFICES ASSUME Cong(-a, 0, n) PROVE FALSE
    OBVIOUS
  <2>2. -a \in Int /\ Cong(0 - (-a), 0 - 0, n)
    BY <2>1, CongRefl, CongOps, OrderPrime
  <2>3. 0 - (-a) = a /\ 0 - 0 = 0
    OBVIOUS
  <2> QED BY <2>2, <2>3
<1>3. n - Index(a, m) = Index(-a, m)
  <2>1. n - Index(a, m) \in 0..(n - 1) /\ n - Index(a, m) \in Int
    BY <1>1, OrderPrime
  <2>2. Cong(n - Index(a, m), (-a) * m, n)
    <3>1. Cong(n, 0, n)
      <4>1. n = 0 + 1 * n
        BY OrderPrime
      <4> QED BY <4>1 DEF Cong
    <3>2. a * m \in Int /\ Index(a, m) \in Int /\ Cong(Index(a, m), a * m, n)
      BY IndexIn
    <3>3. Cong(n - Index(a, m), 0 - a * m, n)
      BY <3>1, <3>2, CongOps, OrderPrime
    <3>4. 0 - a * m = (-a) * m
      OBVIOUS
    <3> QED BY <3>3, <3>4
  <2>3. -a \in Int /\ (-a) * m \in Int
    OBVIOUS
  <2>4. Cong((-a) * m, Index(-a, m), n) /\ Index(-a, m) \in 0..(n - 1) /\ Index(-a, m) \in Int
    BY <2>3, IndexIn
  <2>5. Cong(n - Index(a, m), Index(-a, m), n)
    BY <2>1, <2>2, <2>3, <2>4, CongTrans, OrderPrime
  <2> QED BY <2>1, <2>4, <2>5, CongNear, OrderPrime
<1> QED BY <1>1, <1>2, <1>3, MirrorImage DEF M

\* The points a and c times P have different x, unless a and c or -c agree.
LEMMA MApart ==
    ASSUME NEW a \in Int, NEW c \in Int, NEW m \in 1..(n - 1),
           ~Cong(a, 0, n), ~Cong(c, 0, n), ~Cong(a + c, 0, n), ~Cong(a - c, 0, n)
    PROVE  M(a, m).x # M(c, m).x
<1>1. /\ Index(a, m) \in 1..(n - 1) /\ Index(c, m) \in 1..(n - 1)
  BY IndexIn
<1>2. Index(a, m) # Index(c, m) /\ Index(a, m) + Index(c, m) # n
  BY IndexEqual
<1> QED BY <1>1, <1>2, SameAbscissa DEF M

\* Their sum by the chord, and their difference.
LEMMA MChord ==
    ASSUME NEW a \in Int, NEW c \in Int, NEW m \in 1..(n - 1),
           ~Cong(a, 0, n), ~Cong(c, 0, n), ~Cong(a + c, 0, n), ~Cong(a - c, 0, n)
    PROVE  \E l \in Int :
             /\ Cong(l * (M(c, m).x - M(a, m).x), M(c, m).y - M(a, m).y, p)
             /\ Third(l, M(a, m), M(c, m), M(a + c, m))
<1>1. /\ M(a, m).x \in Field /\ M(a, m).y \in Field
      /\ M(c, m).x \in Field /\ M(c, m).y \in Field
  BY MPoint
<1>2. M(a, m).x # M(c, m).x
  BY MApart
<1>3. Ref!Sum(M(a, m), M(c, m)) = M(a + c, m)
  BY MSum
<1> QED BY <1>1, <1>2, <1>3, ChordThird

\* The difference of two multiples, by the chord to the mirror image.
LEMMA MChordBack ==
    ASSUME NEW a \in Int, NEW c \in Int, NEW m \in 1..(n - 1),
           ~Cong(a, 0, n), ~Cong(c, 0, n), ~Cong(a + c, 0, n), ~Cong(a - c, 0, n)
    PROVE  \E l \in Int :
             /\ Cong(l * (M(c, m).x - M(a, m).x), -M(c, m).y - M(a, m).y, p)
             /\ Third(l, M(a, m), M(c, m), M(a - c, m))
<1>1. -c \in Int /\ ~Cong(-c, 0, n) /\ M(-c, m) = [x |-> M(c, m).x, y |-> p - M(c, m).y]
  BY MMirror
<1>2. a + (-c) = a - c /\ a - (-c) = a + c
  OBVIOUS
<1>3. PICK l \in Int :
        /\ Cong(l * (M(-c, m).x - M(a, m).x), M(-c, m).y - M(a, m).y, p)
        /\ Third(l, M(a, m), M(-c, m), M(a + (-c), m))
  <2>1. ~Cong(a + (-c), 0, n) /\ ~Cong(a - (-c), 0, n)
    BY <1>2
  <2> QED BY <1>1, <2>1, MChord
<1>4. M(-c, m).x = M(c, m).x /\ M(-c, m).y = p - M(c, m).y
  BY <1>1
<1>5. Third(l, M(a, m), M(c, m), M(a - c, m))
  BY <1>2, <1>3, <1>4, Zenon DEF Third
<1>6. /\ M(a, m).x \in Int /\ M(a, m).y \in Int /\ M(c, m).x \in Int /\ M(c, m).y \in Int
  BY MPoint, FieldPrime
<1>7. Cong(l * (M(c, m).x - M(a, m).x), (p - M(c, m).y) - M(a, m).y, p)
  BY <1>3, <1>4, Zenon
<1>8. Cong((p - M(c, m).y) - M(a, m).y, -M(c, m).y - M(a, m).y, p)
  <2>1. (p - M(c, m).y) - M(a, m).y = (-M(c, m).y - M(a, m).y) + 1 * p
    BY <1>6, FieldPrime
  <2> QED BY <2>1 DEF Cong
<1>9. /\ l * (M(c, m).x - M(a, m).x) \in Int
      /\ (p - M(c, m).y) - M(a, m).y \in Int
      /\ -M(c, m).y - M(a, m).y \in Int
  BY <1>6, FieldPrime
<1>10. Cong(l * (M(c, m).x - M(a, m).x), -M(c, m).y - M(a, m).y, p)
  BY <1>7, <1>8, <1>9, CongTrans, FieldPrime
<1> QED BY <1>5, <1>10

\* Twice a point, by the tangent.
LEMMA MTangent ==
    ASSUME NEW a \in Int, NEW m \in 1..(n - 1), ~Cong(a, 0, n)
    PROVE  /\ ~Cong(a + a, 0, n)
           /\ \E l \in Int :
                /\ Cong(2 * (l * M(a, m).y), 3 * (M(a, m).x * M(a, m).x - 1), p)
                /\ Third(l, M(a, m), M(a, m), M(a + a, m))
<1>1. ~Cong(a + a, 0, n)
  <2>1. SUFFICES ASSUME Cong(a + a, 0, n) PROVE FALSE
    OBVIOUS
  <2>2. a + a = 2 * a
    OBVIOUS
  <2>3. Cong(2, 0, n)
    BY <2>1, <2>2, CongPrime, OrderPrime
  <2>4. 2 \in 0..(n - 1) /\ 0 \in 0..(n - 1)
    BY OrderPrime
  <2> QED BY <2>3, <2>4, CongNear, OrderPrime
<1>2. M(a, m).x \in Field /\ M(a, m).y \in Field /\ M(a, m).y # 0
  BY MPoint
<1>3. Ref!Sum(M(a, m), M(a, m)) = M(a + a, m)
  BY <1>1, MSum
<1> QED BY <1>1, <1>2, <1>3, TangentThird

------------------------------------------------------------------------------
(* The additions of the ladder *)

\* a and c times P can be added and subtracted by the chord.
Apt(a, c) ==
    /\ a \in Int /\ c \in Int
    /\ ~Cong(a, 0, n) /\ ~Cong(c, 0, n) /\ ~Cong(a + c, 0, n) /\ ~Cong(a - c, 0, n)

\* XYcZ_add leaves the first point and the sum, over a new z that both share.
LEMMA AddPoints ==
    ASSUME NEW m \in 1..(n - 1), NEW a, NEW c, Apt(a, c),
           NEW X, NEW Y, NEW z \in Int, ~Cong(z, 0, p), At(X, z, M(a, m)), At(Y, z, M(c, m)),
           NEW r, r = XYcZ_add(X, Y), NEW w, w = z * (Y.x - X.x)
    PROVE  /\ w \in Int /\ ~Cong(w, 0, p) /\ Y.x - X.x \in Int
           /\ At(r.p, w, M(a, m)) /\ At(r.q, w, M(a + c, m))
           /\ r.sub = Minus(r.p.x, r.q.x)
<1>1. PICK P, Q, S : P = M(a, m) /\ Q = M(c, m) /\ S = M(a + c, m)
  OBVIOUS
<1>2. P.x \in Field /\ P.y \in Field /\ Q.x \in Field /\ Q.y \in Field /\ P.x # Q.x
  BY <1>1, MPoint, MApart DEF Apt
<1>3. PICK l \in Int : Cong(l * (Q.x - P.x), Q.y - P.y, p) /\ Third(l, P, Q, S)
  BY <1>1, MChord DEF Apt
<1>4. At(X, z, P) /\ At(Y, z, Q)
  BY <1>1
<1>5. /\ Y.x - X.x \in Int
      /\ Is(Minus(Y.y, X.y), l * (z * (Y.x - X.x)))
      /\ ~Cong(z * (Y.x - X.x), 0, p)
  BY <1>2, <1>3, <1>4, Apart
<1>6. PICK dd \in Int : dd = Y.x - X.x
  BY <1>5
<1>7. X.x \in Field /\ X.y \in Field /\ Y.x \in Field /\ Y.y \in Field /\ Y.x = X.x + dd
  <2>1. X.x \in Field /\ X.y \in Field /\ Y.x \in Field /\ Y.y \in Field
    BY <1>4, Zenon DEF At, Is
  <2> QED BY <1>6, <2>1, FieldPrime
<1>8. w = z * dd /\ w \in Int /\ ~Cong(w, 0, p)
  <2>1. w = z * dd
    BY <1>6
  <2>2. z * dd \in Int
    OBVIOUS
  <2> QED BY <1>5, <2>1, <2>2
<1>9. r = XYcZ_add([x |-> X.x, y |-> X.y], [x |-> Y.x, y |-> Y.y])
  BY DEF XYcZ_add
<1>10. P.x \in Int /\ P.y \in Int /\ Q.x \in Int /\ Q.y \in Int
  BY <1>2, FieldPrime
<1>11. /\ Is(X.x, P.x * (z * z)) /\ Is(X.y, P.y * (z * z * z)) /\ Is(Y.x, Q.x * (z * z))
       /\ Is(Minus(Y.y, X.y), l * (z * dd))
  BY <1>4, <1>5, <1>6, Zenon DEF At
<1>12. /\ Is(r.p.x, P.x * ((z * dd) * (z * dd)))
       /\ Is(r.p.y, P.y * ((z * dd) * (z * dd) * (z * dd)))
       /\ Is(r.q.x, (l * l - P.x - Q.x) * ((z * dd) * (z * dd)))
       /\ Is(r.q.y, (l * (P.x - (l * l - P.x - Q.x)) - P.y) * ((z * dd) * (z * dd) * (z * dd)))
       /\ r.sub = Minus(r.p.x, r.q.x)
  <2>1. PICK X1 \in Field, Y1 \in Field, X2 \in Field, Y2 \in Field :
          X1 = X.x /\ Y1 = X.y /\ X2 = Y.x /\ Y2 = Y.y
    BY <1>7, Zenon
  <2>2. PICK px \in Int, py \in Int, qx \in Int : px = P.x /\ py = P.y /\ qx = Q.x
    BY <1>10, Zenon
  <2>3. X2 = X1 + dd
    BY <1>7, <2>1
  <2>0. PICK r2 : r2 = XYcZ_add([x |-> X1, y |-> Y1], [x |-> X2, y |-> Y2])
    OBVIOUS
  <2>4. /\ Is(X1, px * (z * z)) /\ Is(Y1, py * (z * z * z)) /\ Is(X2, qx * (z * z))
        /\ Is(Minus(Y2, Y1), l * (z * dd))
    BY <1>11, <2>1, <2>2, Zenon
  <2>5. /\ Is(r2.p.x, px * ((z * dd) * (z * dd)))
        /\ Is(r2.p.y, py * ((z * dd) * (z * dd) * (z * dd)))
        /\ Is(r2.q.x, (l * l - px - qx) * ((z * dd) * (z * dd)))
        /\ Is(r2.q.y, (l * (px - (l * l - px - qx)) - py) * ((z * dd) * (z * dd) * (z * dd)))
    BY <2>0, <2>3, <2>4, AddNumbers, ZenonT(60)
  <2>6. r2 = r
    BY <1>9, <2>0, <2>1
  <2>7. r.sub = Minus(r.p.x, r.q.x)
    BY DEF XYcZ_add
  <2> QED BY <2>2, <2>5, <2>6, <2>7, Zenon
<1>13. At(r.p, w, P)
  BY <1>8, <1>12, Zenon DEF At
<1>14. At(r.q, w, S)
  <2>1. /\ Is(r.q.x, (l * l - P.x - Q.x) * (w * w))
        /\ Is(r.q.y, (l * (P.x - (l * l - P.x - Q.x)) - P.y) * (w * w * w))
    BY <1>8, <1>12, Zenon
  <2> QED BY <1>2, <1>3, <1>8, <2>1, ThirdAt, Zenon
<1> QED BY <1>1, <1>5, <1>8, <1>12, <1>13, <1>14, Zenon

\* XYcZ_addC leaves the difference and the sum, over a new z that both share.
LEMMA AddCPoints ==
    ASSUME NEW m \in 1..(n - 1), NEW a, NEW c, Apt(a, c),
           NEW X, NEW Y, NEW z \in Int, ~Cong(z, 0, p), At(X, z, M(a, m)), At(Y, z, M(c, m)),
           NEW sub, sub \in {Minus(X.x, Y.x), Minus(Y.x, X.x)},
           NEW r, r = XYcZ_addC(X, Y, sub)
    PROVE  \E w \in Int : /\ ~Cong(w, 0, p)
                          /\ At(r.p, w, M(a - c, m)) /\ At(r.q, w, M(a + c, m))
<1>1. PICK P, Q, S, T : P = M(a, m) /\ Q = M(c, m) /\ S = M(a + c, m) /\ T = M(a - c, m)
  OBVIOUS
<1>2. P.x \in Field /\ P.y \in Field /\ Q.x \in Field /\ Q.y \in Field /\ P.x # Q.x
  BY <1>1, MPoint, MApart DEF Apt
<1>3. PICK l \in Int : Cong(l * (Q.x - P.x), Q.y - P.y, p) /\ Third(l, P, Q, S)
  BY <1>1, MChord DEF Apt
<1>4. PICK k \in Int : Cong(k * (Q.x - P.x), -Q.y - P.y, p) /\ Third(k, P, Q, T)
  BY <1>1, MChordBack DEF Apt
<1>5. At(X, z, P) /\ At(Y, z, Q)
  BY <1>1
<1>6. /\ Y.x - X.x \in Int
      /\ Is(Minus(Y.y, X.y), l * (z * (Y.x - X.x)))
      /\ ~Cong(z * (Y.x - X.x), 0, p)
  BY <1>2, <1>3, <1>5, Apart
<1>7. PICK dd \in Int : dd = Y.x - X.x
  BY <1>6
<1>8. X.x \in Field /\ X.y \in Field /\ Y.x \in Field /\ Y.y \in Field /\ Y.x = X.x + dd
  <2>1. X.x \in Field /\ X.y \in Field /\ Y.x \in Field /\ Y.y \in Field
    BY <1>5, Zenon DEF At, Is
  <2> QED BY <1>7, <2>1, FieldPrime
<1>9. PICK w \in Int : w = z * dd /\ ~Cong(w, 0, p)
  <2>1. z * dd \in Int
    OBVIOUS
  <2> QED BY <1>6, <1>7, <2>1
<1>10. r = XYcZ_addC([x |-> X.x, y |-> X.y], [x |-> Y.x, y |-> Y.y], sub)
  BY DEF XYcZ_addC
<1>11. P.x \in Int /\ P.y \in Int /\ Q.x \in Int /\ Q.y \in Int
  BY <1>2, FieldPrime
<1>12. /\ Is(X.x, P.x * (z * z)) /\ Is(X.y, P.y * (z * z * z)) /\ Is(Y.x, Q.x * (z * z))
       /\ Is(Y.y, Q.y * (z * z * z))
       /\ Is(Minus(Y.y, X.y), l * (z * dd))
  BY <1>5, <1>6, <1>7, Zenon DEF At
<1>13. Is(Square(sub), dd * dd)
  <2>1. Is(Square(sub), (Y.x - X.x) * (Y.x - X.x))
    BY <1>8, SubSquare
  <2> QED BY <1>7, <2>1, Zenon
<1>14. Is(Plus(Y.y, X.y), -k * (z * dd))
  <2>1. PICK mir : mir = [x |-> Q.x, y |-> p - Q.y]
    OBVIOUS
  <2>2. PICK g \in Int : g = z * z * z
    OBVIOUS
  <2>3. Is(Plus(Y.y, X.y), (Q.y + P.y) * g)
    <3>1. Is(Plus(Y.y, X.y), Q.y * g + P.y * g)
      BY <1>12, <2>2, SumTo, Zenon
    <3>2. Q.y * g + P.y * g = (Q.y + P.y) * g
      BY <1>11
    <3> QED BY <3>1, <3>2, Zenon
  <2>4. PICK dx \in Int, s \in Int : dx = Q.x - P.x /\ s = Q.y + P.y
    BY <1>11
  <2>5. Cong(dd, dx * (z * z), p)
    <3>1. Is(Y.x, Y.x) /\ Is(X.x, X.x)
      BY <1>8, IsNumber
    <3>2. PICK z2 \in Int : z2 = z * z
      OBVIOUS
    <3>3. Cong(X.x, P.x * z2, p) /\ Cong(Y.x, Q.x * z2, p) /\ X.x \in Int /\ Y.x \in Int
      BY <1>12, <3>2, Zenon DEF Is
    <3>4. P.x * z2 \in Int /\ Q.x * z2 \in Int
      BY <1>11
    <3>5. Cong(Y.x - X.x, Q.x * z2 - P.x * z2, p)
      BY <3>3, <3>4, CongOps, FieldPrime
    <3>6. Q.x * z2 - P.x * z2 = (Q.x - P.x) * z2
      BY <1>11
    <3> QED BY <1>7, <2>4, <3>2, <3>5, <3>6, Zenon
  <2>6. Cong(-s, k * dx, p)
    <3>1. -Q.y - P.y = -s
      BY <1>11, <2>4
    <3>2. Cong(k * dx, -s, p)
      BY <1>4, <2>4, <3>1, Zenon
    <3>3. k * dx \in Int /\ -s \in Int
      OBVIOUS
    <3> QED BY <3>2, <3>3, CongSym, FieldPrime
  <2>7. Cong(s, -(k * dx), p)
    <3>1. -s \in Int /\ k * dx \in Int
      OBVIOUS
    <3>2. Cong(0 - (-s), 0 - k * dx, p)
      BY <2>6, <3>1, CongRefl, CongOps, FieldPrime
    <3>3. 0 - (-s) = s /\ 0 - k * dx = -(k * dx)
      OBVIOUS
    <3> QED BY <3>2, <3>3, Zenon
  <2>8. Cong(s * g, -k * (z * dd), p)
    <3>1. -(k * dx) \in Int /\ Cong(g, g, p)
      <4>1. -(k * dx) \in Int
        OBVIOUS
      <4> QED BY <4>1, CongRefl, FieldPrime
    <3>2. Cong(s * g, -(k * dx) * g, p)
      BY <2>7, <3>1, CongOps, FieldPrime
    <3>3. -(k * dx) * g = (-k * z) * (dx * (z * z))
      <4>1. -(k * dx) * (z * z * z) = (-k * z) * (dx * (z * z))
        OBVIOUS
      <4> QED BY <2>2, <4>1, Zenon
    <3>4. PICK h \in Int, j \in Int : h = -k * z /\ j = dx * (z * z)
      OBVIOUS
    <3>5. Cong(j, dd, p)
      BY <2>5, <3>4, CongSym, FieldPrime
    <3>6. Cong(h * j, h * dd, p)
      BY <3>5, CongRefl, CongOps, FieldPrime
    <3>7. h * dd = -k * (z * dd)
      BY <3>4
    <3>8. Cong(s * g, h * j, p)
      BY <3>2, <3>3, <3>4, Zenon
    <3>9. s * g \in Int /\ h * j \in Int /\ h * dd \in Int
      OBVIOUS
    <3>10. Cong(s * g, h * dd, p)
      BY <3>6, <3>8, <3>9, CongTrans, FieldPrime
    <3> QED BY <3>7, <3>10, Zenon
  <2>9. Is(Plus(Y.y, X.y), s * g)
    BY <2>3, <2>4, Zenon
  <2>10. -k * (z * dd) \in Int
    OBVIOUS
  <2> QED BY <2>8, <2>9, <2>10, IsSame
<1>15. /\ Is(r.p.x, (k * k - P.x - Q.x) * ((z * dd) * (z * dd)))
       /\ Is(r.p.y, (k * (P.x - (k * k - P.x - Q.x)) - P.y) * ((z * dd) * (z * dd) * (z * dd)))
       /\ Is(r.q.x, (l * l - P.x - Q.x) * ((z * dd) * (z * dd)))
       /\ Is(r.q.y, (l * (P.x - (l * l - P.x - Q.x)) - P.y) * ((z * dd) * (z * dd) * (z * dd)))
  BY <1>8, <1>10, <1>11, <1>12, <1>13, <1>14, AddCNumbers, Zenon
<1>16. At(r.q, w, S)
  <2>1. /\ Is(r.q.x, (l * l - P.x - Q.x) * (w * w))
        /\ Is(r.q.y, (l * (P.x - (l * l - P.x - Q.x)) - P.y) * (w * w * w))
    BY <1>9, <1>15, Zenon
  <2> QED BY <1>2, <1>3, <1>9, <2>1, ThirdAt, Zenon
<1>17. At(r.p, w, T)
  <2>1. /\ Is(r.p.x, (k * k - P.x - Q.x) * (w * w))
        /\ Is(r.p.y, (k * (P.x - (k * k - P.x - Q.x)) - P.y) * (w * w * w))
    BY <1>9, <1>15, Zenon
  <2> QED BY <1>2, <1>4, <1>9, <2>1, ThirdAt, Zenon
<1> QED BY <1>1, <1>9, <1>16, <1>17, Zenon

------------------------------------------------------------------------------
(* Rounds of the ladder *)

\* The ladder's two registers hold a and a + 1 times P.
LadderAt(acc, a, m) ==
    /\ a \in Int /\ ~Cong(a, 0, n) /\ ~Cong(a + 1, 0, n)
    /\ acc.sub \in {Minus(acc.R[0].x, acc.R[1].x), Minus(acc.R[1].x, acc.R[0].x)}
    /\ \E z \in Int : /\ ~Cong(z, 0, p)
                      /\ At(acc.R[0], z, M(a, m)) /\ At(acc.R[1], z, M(a + 1, m))

\* One, minus one and two are not zero modulo the order, and two cancels.
LEMMA SmallNumbers ==
    /\ ~Cong(1, 0, n) /\ ~Cong(-1, 0, n) /\ ~Cong(2, 0, n)
    /\ \A x \in Int : Cong(2 * x, 0, n) => Cong(x, 0, n)
<1>1. 0 \in 0..(n - 1) /\ 1 \in 0..(n - 1) /\ 2 \in 0..(n - 1) /\ n \in Nat
  BY OrderPrime
<1>2. ~Cong(1, 0, n) /\ ~Cong(2, 0, n)
  BY <1>1, CongNear
<1>3. ~Cong(-1, 0, n)
  <2>1. SUFFICES ASSUME Cong(-1, 0, n) PROVE FALSE
    OBVIOUS
  <2>2. Cong(0 - (-1), 0 - 0, n)
    BY <1>1, <2>1, CongRefl, CongOps
  <2>3. 0 - (-1) = 1 /\ 0 - 0 = 0
    OBVIOUS
  <2> QED BY <1>2, <2>2, <2>3
<1> QED BY <1>2, <1>3, CongPrime, OrderPrime

\* What both additions of a round leave, h and s times P being added.
Added(r, r2, h, s, m) ==
    \E v \in Int, w \in Int :
        /\ ~Cong(v, 0, p) /\ ~Cong(w, 0, p)
        /\ At(r.p, v, M(s, m)) /\ At(r.q, v, M(h, m))
        /\ w = v * (r.p.x - r.q.x) /\ r.p.x - r.q.x \in Int
        /\ At(r2.p, w, M(h, m)) /\ At(r2.q, w, M(h + s, m))
        /\ r2.sub = Minus(r2.p.x, r2.q.x)

\* Both additions of a round, for points that are apt for them.
LEMMA TwoAdditions ==
    ASSUME NEW m \in 1..(n - 1), NEW a, NEW c, NEW s, Apt(a, c), Apt(a + c, s), a - c = s,
           NEW X, NEW Y, NEW z \in Int, ~Cong(z, 0, p), At(X, z, M(a, m)), At(Y, z, M(c, m)),
           NEW sub, sub \in {Minus(X.x, Y.x), Minus(Y.x, X.x)},
           NEW r, r = XYcZ_addC(X, Y, sub), NEW r2, r2 = XYcZ_add(r.q, r.p)
    PROVE  Added(r, r2, a + c, s, m)
<1>1. PICK v \in Int : ~Cong(v, 0, p) /\ At(r.p, v, M(a - c, m)) /\ At(r.q, v, M(a + c, m))
  BY AddCPoints, Zenon
<1>2. At(r.p, v, M(s, m)) /\ At(r.q, v, M(a + c, m))
  BY <1>1, Zenon
<1>3. PICK w : w = v * (r.p.x - r.q.x)
  OBVIOUS
<1>4. /\ w \in Int /\ ~Cong(w, 0, p) /\ r.p.x - r.q.x \in Int
      /\ At(r2.p, w, M(a + c, m)) /\ At(r2.q, w, M(a + c + s, m))
      /\ r2.sub = Minus(r2.p.x, r2.q.x)
  <2>1. PICK f, g, h : f = r.q /\ g = r.p /\ h = a + c
    OBVIOUS
  <2>2. Apt(h, s) /\ At(f, v, M(h, m)) /\ At(g, v, M(s, m)) /\ w = v * (g.x - f.x)
    BY <1>2, <1>3, <2>1, Zenon
  <2>3. PICK u : u = XYcZ_add(f, g)
    OBVIOUS
  <2>4. /\ w \in Int /\ ~Cong(w, 0, p) /\ g.x - f.x \in Int
        /\ At(u.p, w, M(h, m)) /\ At(u.q, w, M(h + s, m))
        /\ u.sub = Minus(u.p.x, u.q.x)
    BY <1>1, <2>2, <2>3, AddPoints
  <2> QED BY <2>1, <2>3, <2>4, Zenon
<1> QED BY <1>1, <1>2, <1>3, <1>4, Zenon DEF Added

\* They are, unless the registers are inverse to each other.
LEMMA RoundNumbers ==
    ASSUME NEW a \in Int, ~Cong(a, 0, n), ~Cong(a + 1, 0, n), ~Cong(2 * a + 1, 0, n)
    PROVE  /\ Apt(a, a + 1) /\ Apt(a + 1, a)
           /\ Apt(2 * a + 1, 1) /\ Apt(2 * a + 1, -1)
           /\ ~Cong(2 * a, 0, n) /\ ~Cong(2 * a + 2, 0, n)
           /\ a + (a + 1) = 2 * a + 1 /\ (a + 1) + a = 2 * a + 1
           /\ a - (a + 1) = -1 /\ (a + 1) - a = 1
           /\ (2 * a + 1) + 1 = 2 * a + 2 /\ (2 * a + 1) - 1 = 2 * a
           /\ (2 * a + 1) + (-1) = 2 * a /\ (2 * a + 1) - (-1) = 2 * a + 2
<1>1. /\ a + (a + 1) = 2 * a + 1 /\ (a + 1) + a = 2 * a + 1
      /\ a - (a + 1) = -1 /\ (a + 1) - a = 1
      /\ (2 * a + 1) + 1 = 2 * a + 2 /\ (2 * a + 1) - 1 = 2 * a
      /\ (2 * a + 1) + (-1) = 2 * a /\ (2 * a + 1) - (-1) = 2 * a + 2
  OBVIOUS
<1>2. ~Cong(2 * a, 0, n) /\ ~Cong(2 * a + 2, 0, n)
  <2>1. 2 * a + 2 = 2 * (a + 1) /\ a + 1 \in Int
    OBVIOUS
  <2> QED BY <2>1, SmallNumbers
<1>3. a + 1 \in Int /\ 2 * a + 1 \in Int /\ 1 \in Int /\ -1 \in Int
  OBVIOUS
<1>4. Apt(a, a + 1) /\ Apt(a + 1, a)
  BY <1>1, <1>3, SmallNumbers, Zenon DEF Apt
<1>5. Apt(2 * a + 1, 1) /\ Apt(2 * a + 1, -1)
  BY <1>1, <1>2, <1>3, SmallNumbers, Zenon DEF Apt
<1> QED BY <1>1, <1>2, <1>4, <1>5

\* What a round leaves, in terms of the registers R between its two additions.
Turned(R, next, nb, a, m) ==
    \E v \in Int, w \in Int :
        /\ ~Cong(v, 0, p) /\ ~Cong(w, 0, p)
        /\ R[0].x \in Field /\ R[1].x \in Field
        /\ At(R[1 - nb], v, M(1 - 2 * nb, m)) /\ w = v * (R[1 - nb].x - R[nb].x)
        /\ At(next.R[0], w, M(2 * a + 1 - nb, m))

\* A round takes a to 2a or 2a + 1, and leaves behind what the last one's
\* division needs: v, w and the difference of the abscissas.
LEMMA LadderRoundAt ==
    ASSUME NEW m \in 1..(n - 1), NEW acc, NEW a, LadderAt(acc, a, m), ~Cong(2 * a + 1, 0, n),
           NEW nb, nb \in {0, 1},
           NEW R, R = AddC(acc.R, nb, acc.sub), NEW next, next = Add(R, nb)
    PROVE  LadderAt(next, 2 * a + 1 - nb, m) /\ Turned(R, next, nb, a, m)
<1>1. PICK z \in Int : /\ ~Cong(z, 0, p)
                       /\ At(acc.R[0], z, M(a, m)) /\ At(acc.R[1], z, M(a + 1, m))
  BY DEF LadderAt
<1>2. a \in Int /\ ~Cong(a, 0, n) /\ ~Cong(a + 1, 0, n)
  BY DEF LadderAt
<1>3. PICK X, Y, sub : X = acc.R[1 - nb] /\ Y = acc.R[nb] /\ sub = acc.sub
  OBVIOUS
<1>4. sub \in {Minus(X.x, Y.x), Minus(Y.x, X.x)}
  <2>1. CASE nb = 0
    <3>1. X = acc.R[1] /\ Y = acc.R[0]
      BY <1>3, <2>1
    <3> QED BY <1>3, <3>1 DEF LadderAt
  <2>2. CASE nb = 1
    <3>1. X = acc.R[0] /\ Y = acc.R[1]
      BY <1>3, <2>2
    <3> QED BY <1>3, <3>1 DEF LadderAt
  <2> QED BY <2>1, <2>2
<1>5. PICK r : r = XYcZ_addC(X, Y, sub)
  OBVIOUS
<1>6. PICK r2 : r2 = XYcZ_add(r.q, r.p)
  OBVIOUS
<1>7. R = [i \in {0, 1} |-> IF i = nb THEN r.q ELSE r.p]
  BY <1>3, <1>5 DEF AddC
<1>8. R[nb] = r.q /\ R[1 - nb] = r.p /\ nb # 1 - nb /\ 1 - nb \in {0, 1}
  BY <1>7
<1>9. next = [R |-> [i \in {0, 1} |-> IF i = nb THEN r2.p ELSE r2.q], sub |-> r2.sub]
  BY <1>6, <1>8 DEF Add
<1>10. next.R[nb] = r2.p /\ next.R[1 - nb] = r2.q /\ next.sub = r2.sub
  BY <1>8, <1>9
<1>11. CASE nb = 0
  <2>1. At(X, z, M(a + 1, m)) /\ At(Y, z, M(a, m))
    BY <1>1, <1>3, <1>11
  <2>2. Apt(a + 1, a) /\ Apt((a + 1) + a, 1) /\ (a + 1) - a = 1
    BY <1>2, RoundNumbers
  <2>3. PICK v \in Int, w \in Int :
             /\ ~Cong(v, 0, p) /\ ~Cong(w, 0, p)
             /\ At(r.p, v, M(1, m)) /\ At(r.q, v, M((a + 1) + a, m))
             /\ w = v * (r.p.x - r.q.x) /\ r.p.x - r.q.x \in Int
             /\ At(r2.p, w, M((a + 1) + a, m)) /\ At(r2.q, w, M((a + 1) + a + 1, m))
             /\ r2.sub = Minus(r2.p.x, r2.q.x)
    <3>1. PICK f, g, s : f = a + 1 /\ g = a /\ s = 1
      OBVIOUS
    <3>2. Apt(f, g) /\ Apt(f + g, s) /\ f - g = s
      BY <2>2, <3>1
    <3>3. At(X, z, M(f, m)) /\ At(Y, z, M(g, m))
      BY <2>1, <3>1
    <3>4. Added(r, r2, f + g, s, m)
      BY <1>1, <1>4, <1>5, <1>6, <3>2, <3>3, TwoAdditions
    <3> QED BY <3>1, <3>4, Zenon DEF Added
  <2>4. (a + 1) + a = 2 * a + 1 - nb /\ (a + 1) + a + 1 = (2 * a + 1 - nb) + 1 /\ 1 = 1 - 2 * nb
    BY <1>2, <1>11
  <2>5. /\ At(next.R[0], w, M(2 * a + 1 - nb, m)) /\ At(next.R[1], w, M((2 * a + 1 - nb) + 1, m))
        /\ At(R[1 - nb], v, M(1 - 2 * nb, m)) /\ w = v * (R[1 - nb].x - R[nb].x)
    BY <1>8, <1>10, <1>11, <2>3, <2>4
  <2>6. R[0].x \in Field /\ R[1].x \in Field
    BY <1>8, <1>11, <2>3 DEF At, Is
  <2>7. next.sub = Minus(next.R[0].x, next.R[1].x)
    BY <1>10, <1>11, <2>3
  <2>8. 2 * a + 1 - nb \in Int /\ 2 * a + 1 - nb = 2 * a + 1 /\ (2 * a + 1 - nb) + 1 = 2 * a + 2
    BY <1>2, <1>11
  <2>9. ~Cong(2 * a + 1 - nb, 0, n) /\ ~Cong((2 * a + 1 - nb) + 1, 0, n)
    BY <1>2, <2>8, RoundNumbers
  <2>10. LadderAt(next, 2 * a + 1 - nb, m)
    BY <2>3, <2>5, <2>7, <2>8, <2>9 DEF LadderAt
  <2> QED BY <2>3, <2>5, <2>6, <2>10 DEF Turned
<1>12. CASE nb = 1
  <2>1. At(X, z, M(a, m)) /\ At(Y, z, M(a + 1, m))
    BY <1>1, <1>3, <1>12
  <2>2. Apt(a, a + 1) /\ Apt(a + (a + 1), -1) /\ a - (a + 1) = -1
    BY <1>2, RoundNumbers
  <2>3. PICK v \in Int, w \in Int :
             /\ ~Cong(v, 0, p) /\ ~Cong(w, 0, p)
             /\ At(r.p, v, M(-1, m)) /\ At(r.q, v, M(a + (a + 1), m))
             /\ w = v * (r.p.x - r.q.x) /\ r.p.x - r.q.x \in Int
             /\ At(r2.p, w, M(a + (a + 1), m)) /\ At(r2.q, w, M(a + (a + 1) + (-1), m))
             /\ r2.sub = Minus(r2.p.x, r2.q.x)
    <3>1. PICK f, g, s : f = a /\ g = a + 1 /\ s = -1
      OBVIOUS
    <3>2. Apt(f, g) /\ Apt(f + g, s) /\ f - g = s
      BY <2>2, <3>1
    <3>3. At(X, z, M(f, m)) /\ At(Y, z, M(g, m))
      BY <2>1, <3>1
    <3>4. Added(r, r2, f + g, s, m)
      BY <1>1, <1>4, <1>5, <1>6, <3>2, <3>3, TwoAdditions
    <3> QED BY <3>1, <3>4, Zenon DEF Added
  <2>4. a + (a + 1) + (-1) = 2 * a + 1 - nb /\ a + (a + 1) = (2 * a + 1 - nb) + 1 /\ -1 = 1 - 2 * nb
    BY <1>2, <1>12
  <2>5. /\ At(next.R[0], w, M(2 * a + 1 - nb, m)) /\ At(next.R[1], w, M((2 * a + 1 - nb) + 1, m))
        /\ At(R[1 - nb], v, M(1 - 2 * nb, m)) /\ w = v * (R[1 - nb].x - R[nb].x)
    BY <1>8, <1>10, <1>12, <2>3, <2>4
  <2>6. R[0].x \in Field /\ R[1].x \in Field
    BY <1>8, <1>12, <2>3 DEF At, Is
  <2>7. next.sub = Minus(next.R[1].x, next.R[0].x)
    BY <1>10, <1>12, <2>3
  <2>8. 2 * a + 1 - nb \in Int /\ 2 * a + 1 - nb = 2 * a /\ (2 * a + 1 - nb) + 1 = 2 * a + 1
    BY <1>2, <1>12
  <2>9. ~Cong(2 * a + 1 - nb, 0, n) /\ ~Cong((2 * a + 1 - nb) + 1, 0, n)
    BY <1>2, <2>8, RoundNumbers
  <2>10. LadderAt(next, 2 * a + 1 - nb, m)
    BY <2>3, <2>5, <2>7, <2>8, <2>9 DEF LadderAt
  <2> QED BY <2>3, <2>5, <2>6, <2>10 DEF Turned
<1> QED BY <1>11, <1>12

------------------------------------------------------------------------------
(* The start of the multiplication, and its end *)

\* The initial doubling starts the ladder with one and two times P.
LEMMA LadderStart ==
    ASSUME NEW m \in 1..(n - 1), NEW P, P = M(1, m), NEW z \in Field, z # 0,
           NEW start, start = XYcZ_initial_double(P, z)
    PROVE  LadderAt([R |-> start, sub |-> Minus(start[0].x, start[1].x)], 1, m)
<1>1. 1 \in Int /\ ~Cong(1, 0, n) /\ 1 + 1 = 2 /\ ~Cong(1 + 1, 0, n)
  <2>1. 1 + 1 = 2
    OBVIOUS
  <2> QED BY <2>1, SmallNumbers
<1>2. P.x \in Field /\ P.y \in Field /\ P.y # 0
  BY <1>1, MPoint
<1>3. PICK l \in Int :
         /\ Cong(2 * (l * P.y), 3 * (P.x * P.x - 1), p)
         /\ Third(l, P, P, M(1 + 1, m))
  BY <1>1, MTangent
<1>4. PICK x \in Int, y \in Int, c \in Int : x = P.x /\ y = P.y /\ c = z
  BY <1>2, FieldPrime
<1>5. PICK A : A = ApplyZ(P, z)
  OBVIOUS
<1>6. Is(P.x, x) /\ Is(P.y, y) /\ Is(z, c)
  BY <1>2, <1>4, IsNumber
<1>7. Is(A.x, x * (c * c)) /\ Is(A.y, y * (c * c * c))
  BY <1>5, <1>6, ApplyZNumbers
<1>0. PICK X, Y : X = A.x /\ Y = A.y
  OBVIOUS
<1>8. PICK d : d = DoubleJacobian([x |-> X, y |-> Y], z)
  OBVIOUS
<1>9. PICK w \in Int : w = y * (c * c * c * c)
  OBVIOUS
<1>10. /\ Is(d.z, w)
       /\ Is(d.point.x, (l * l - x - x) * (w * w))
       /\ Is(d.point.y, (l * (x - (l * l - x - x)) - y) * (w * w * w))
  <2>1. Cong(2 * (l * y), 3 * (x * x - 1), p)
    BY <1>3, <1>4
  <2>2. Is(X, x * (c * c)) /\ Is(Y, y * (c * c * c)) /\ Is(z, c)
    BY <1>0, <1>6, <1>7
  <2> QED BY <1>8, <1>9, <2>1, <2>2, DoubleNumbers, ZenonT(60)
<1>11. At(d.point, w, M(1 + 1, m))
  <2>1. /\ Is(d.point.x, (l * l - P.x - P.x) * (w * w))
        /\ Is(d.point.y, (l * (P.x - (l * l - P.x - P.x)) - P.y) * (w * w * w))
    BY <1>4, <1>10, Zenon
  <2> QED BY <1>2, <1>3, <2>1, ThirdAt, Zenon
<1>12. ~Cong(w, 0, p)
  <2>1. ~Cong(y, 0, p) /\ ~Cong(c, 0, p)
    BY <1>2, <1>4, FieldPrime
  <2>2. c * c \in Int /\ c * c * c \in Int /\ c * c * c * c \in Int
    OBVIOUS
  <2>3. ~Cong(c * c, 0, p)
    BY <2>1, NotZeroTimes
  <2>4. ~Cong(c * c * c, 0, p)
    BY <2>1, <2>2, <2>3, NotZeroTimes
  <2>5. ~Cong(c * c * c * c, 0, p)
    BY <2>1, <2>2, <2>4, NotZeroTimes
  <2> QED BY <1>9, <2>1, <2>2, <2>5, NotZeroTimes
<1>13. start[1] = d.point /\ start[0] = ApplyZ(P, d.z)
  <2>1. DoubleJacobian(A, z) = d
    BY <1>0, <1>8 DEF DoubleJacobian
  <2> QED BY <1>5, <2>1 DEF XYcZ_initial_double
<1>14. At(start[0], w, M(1, m))
  <2>1. /\ Is(ApplyZ(P, d.z).x, x * (w * w))
        /\ Is(ApplyZ(P, d.z).y, y * (w * w * w))
    BY <1>6, <1>10, ApplyZNumbers
  <2>2. At(start[0], w, P)
    BY <1>4, <1>13, <2>1, Zenon DEF At
  <2> QED BY <2>2, Zenon
<1> DEFINE acc == [R |-> start, sub |-> Minus(start[0].x, start[1].x)]
<1>15. acc.R = start /\ acc.sub = Minus(start[0].x, start[1].x)
  OBVIOUS
<1>16. At(acc.R[0], w, M(1, m)) /\ At(acc.R[1], w, M(1 + 1, m))
  BY <1>11, <1>13, <1>14, <1>15
<1>17. acc.sub \in {Minus(acc.R[0].x, acc.R[1].x), Minus(acc.R[1].x, acc.R[0].x)}
  BY <1>15
<1> HIDE DEF acc
<1>18. LadderAt(acc, 1, m)
  BY <1>1, <1>12, <1>16, <1>17 DEF LadderAt
<1> QED BY <1>18 DEF acc

\* Nothing times zero is anything.
LEMMA TimesZero ==
    ASSUME NEW x \in Int
    PROVE  Mult(x, 0) = 0 /\ Mult(0, x) = 0
<1>1. x * 0 = 0 /\ 0 * x = 0
  OBVIOUS
<1>2. (0 % p) = 0
  BY FieldPrime, RemainderNear
<1> QED BY <1>1, <1>2 DEF Mult

\* With z = 0, every pair becomes Zero.
LEMMA ApplyZero ==
    ASSUME NEW Q, Q.x \in Field, Q.y \in Field
    PROVE  ApplyZ(Q, 0) = Zero
<1>1. Q.x \in Int /\ Q.y \in Int /\ 0 \in Int
  BY FieldPrime
<1>2. Square(0) = 0 /\ Mult(0, 0) = 0 /\ Mult(Q.x, 0) = 0 /\ Mult(Q.y, 0) = 0
  BY <1>1, TimesZero DEF Square
<1> QED BY <1>2 DEF ApplyZ, Zero

\* M(1, m) and M(-1, m) are P and its mirror image.
LEMMA Unit ==
    ASSUME NEW m \in 1..(n - 1), NEW s, s \in {1, -1}, NEW P, P = Multiples[m]
    PROVE  /\ M(1, m) = P /\ P.x \in Field /\ P.y \in Field /\ P.y # 0
           /\ M(s, m).x = P.x /\ M(s, m).y \in Int /\ Cong(M(s, m).y, s * P.y, p)
<1>1. M(1, m) = P
  <2>1. (m % n) = m
    BY OrderPrime, RemainderNear
  <2>2. 1 * m = m
    OBVIOUS
  <2> QED BY <2>1, <2>2 DEF M, Index
<1>2. P.x \in Field /\ P.y \in Field /\ P.y # 0 /\ P.y \in Int
  BY PointFields, Ordinate
<1>3. CASE s = 1
  <2>1. 1 * P.y = P.y
    BY <1>2
  <2>2. Cong(P.y, P.y, p)
    BY <1>2, CongRefl, FieldPrime
  <2> QED BY <1>1, <1>2, <1>3, <2>1, <2>2
<1>4. CASE s = -1
  <2>1. 1 \in Int /\ ~Cong(1, 0, n)
    BY SmallNumbers
  <2>2. M(-1, m) = [x |-> M(1, m).x, y |-> p - M(1, m).y]
    BY <2>1, MMirror
  <2>3. M(-1, m).x = P.x /\ M(-1, m).y = p - P.y
    BY <1>1, <2>2
  <2>4. p - P.y = (-1) * P.y + 1 * p /\ p - P.y \in Int
    BY <1>2, FieldPrime
  <2>5. Cong(p - P.y, (-1) * P.y, p)
    BY <2>4 DEF Cong
  <2> QED BY <1>1, <1>2, <1>4, <2>3, <2>4, <2>5
<1> QED BY <1>1, <1>2, <1>3, <1>4

\* What the last division computes: the inverse of w.
LEMMA LastZ ==
    ASSUME NEW x \in Int, NEW y \in Int, NEW v \in Int, NEW s \in Int, NEW dd \in Int,
           ~Cong(x, 0, p), ~Cong(y, 0, p), ~Cong(v, 0, p),
           NEW w, w = v * (s * dd), ~Cong(w, 0, p),
           NEW px, NEW py, NEW bx, NEW by, NEW diff,
           Is(px, x), Is(py, y), Is(bx, x * (v * v)), Is(by, (s * y) * (v * v * v)), Is(diff, dd),
           NEW z, z = Mult(Mult(ModInv(Mult(Mult(diff, by), px)), py), bx)
    PROVE  z \in Field /\ z \in Int /\ Cong(z * w, 1, p)
<1> w \in Int
  OBVIOUS
<1> DEFINE t1 == Mult(diff, by)
           t  == Mult(t1, px)
           k  == dd * (s * y) * (v * v * v) * x
<1>1. Is(t, k)
  <2>1. Is(t1, dd * ((s * y) * (v * v * v)))
    BY ProductTo, Zenon
  <2> HIDE DEF t1
  <2>2. Is(t, (dd * ((s * y) * (v * v * v))) * x)
    BY <2>1, ProductTo, Zenon
  <2>3. (dd * ((s * y) * (v * v * v))) * x = k
    OBVIOUS
  <2> QED BY <2>2, <2>3, Zenon
<1>2. k = w * (v * v) * (x * y)
  OBVIOUS
<1> HIDE DEF t, k
<1>3. t \in Field /\ t # 0 /\ t \in Int /\ k \in Int /\ Cong(t, k, p)
  <2>1. t \in Field /\ t \in Int /\ k \in Int /\ Cong(t, k, p)
    BY <1>1 DEF Is
  <2>2. v * v \in Int /\ x * y \in Int /\ w * (v * v) \in Int
    OBVIOUS
  <2>3. ~Cong(v * v, 0, p) /\ ~Cong(x * y, 0, p)
    BY NotZeroTimes
  <2>4. ~Cong(w * (v * v), 0, p)
    BY <2>2, <2>3, NotZeroTimes
  <2>5. ~Cong(k, 0, p)
    BY <1>2, <2>2, <2>3, <2>4, NotZeroTimes
  <2>6. Cong(k, t, p)
    BY <2>1, CongSym, FieldPrime
  <2> QED BY <2>1, <2>5, <2>6
<1>4. PICK i : i = ModInv(t)
  OBVIOUS
<1>5. i \in Field /\ i \in Int /\ Cong(t * i, 1, p) /\ Is(i, i)
  BY <1>3, <1>4, InverseIs, IsNumber, FieldPrime
<1>6. Is(z, (i * y) * (x * (v * v)))
  <2>1. z = Mult(Mult(i, py), bx)
    BY <1>4 DEF t
  <2>2. PICK u : u = Mult(i, py)
    OBVIOUS
  <2>3. Is(u, i * y)
    BY <1>5, <2>2, ProductTo, Zenon
  <2>4. Is(Mult(u, bx), (i * y) * (x * (v * v)))
    BY <2>3, ProductTo, Zenon
  <2> QED BY <2>1, <2>2, <2>4, Zenon
<1>7. z \in Field /\ z \in Int /\ Cong(z, (i * y) * (x * (v * v)), p)
  BY <1>6, Zenon DEF Is
<1>8. Cong(z * w, 1, p)
  <2>1. PICK h \in Int : h = (i * y) * (x * (v * v))
    BY <1>5
  <2>2. Cong(z * w, h * w, p)
    BY <1>7, <2>1, CongRefl, CongOps, FieldPrime
  <2>3. h * w = i * k
    <3>1. ((i * y) * (x * (v * v))) * w = i * (w * (v * v) * (x * y))
      BY <1>5
    <3> QED BY <1>2, <2>1, <3>1, Zenon
  <2>4. Cong(i * t, i * k, p)
    BY <1>3, <1>5, CongRefl, CongOps, FieldPrime
  <2>5. i * t = t * i /\ i * t \in Int /\ i * k \in Int /\ z * w \in Int
    BY <1>3, <1>5, <1>7
  <2>6. Cong(i * k, i * t, p)
    BY <2>4, <2>5, CongSym, FieldPrime
  <2>7. Cong(z * w, i * k, p) /\ Cong(i * t, 1, p)
    BY <1>5, <2>2, <2>3, <2>5, Zenon
  <2>8. Cong(z * w, i * t, p)
    BY <2>5, <2>6, <2>7, CongTrans, FieldPrime
  <2> QED BY <2>5, <2>7, <2>8, CongTrans, FieldPrime
<1> QED BY <1>7, <1>8

\* A number that is a modulo p, for an a below p, is a.
LEMMA IsExactly ==
    ASSUME NEW x, NEW a \in Field, NEW k, Is(x, k), Cong(k, a, p)
    PROVE  x = a
<1>1. x \in Field /\ x \in Int /\ k \in Int /\ a \in Int /\ Cong(x, k, p)
  BY FieldPrime DEF Is
<1>2. Cong(x, a, p)
  BY <1>1, CongTrans, FieldPrime
<1> QED BY <1>2, <1>1, CongNear, FieldPrime DEF Field

\* Where z is the inverse of w, ApplyZ takes a pair with w in the denominator
\* to the point it stands for.
LEMMA Affine ==
    ASSUME NEW Q, NEW w \in Int, NEW P \in [x : Field, y : Field],
           At(Q, w, P), NEW z, z \in Field, z \in Int, Cong(z * w, 1, p)
    PROVE  ApplyZ(Q, z) = P
<1>1. PICK x \in Field, y \in Field : x = P.x /\ y = P.y
  OBVIOUS
<1>2. x \in Int /\ y \in Int
  BY FieldPrime
<1>3. PICK A : A = ApplyZ(Q, z)
  OBVIOUS
<1>4. Is(Q.x, x * (w * w)) /\ Is(Q.y, y * (w * w * w)) /\ Is(z, z)
  BY <1>1, IsNumber, Zenon DEF At
<1>5. Is(A.x, (x * (w * w)) * (z * z)) /\ Is(A.y, (y * (w * w * w)) * (z * z * z))
  BY <1>3, <1>4, ApplyZNumbers, Zenon
<1>6. PICK k \in Int : k = z * w /\ Cong(k, 1, p)
  OBVIOUS
<1>7. Cong(k * k, 1, p) /\ Cong(k * k * k, 1, p)
  <2>1. 1 * 1 = 1 /\ k * k \in Int
    OBVIOUS
  <2>2. Cong(k * k, 1 * 1, p)
    BY <1>6, CongOps, FieldPrime
  <2>3. Cong(k * k, 1, p)
    BY <2>1, <2>2
  <2>4. Cong((k * k) * k, 1 * 1, p)
    BY <1>6, <2>1, <2>3, CongOps, FieldPrime
  <2> QED BY <2>1, <2>3, <2>4
<1>8. Cong((x * (w * w)) * (z * z), x, p)
  <2>1. (x * (w * w)) * (z * z) = x * ((z * w) * (z * w))
    BY <1>2
  <2>2. k * k \in Int /\ x * 1 = x /\ Cong(x, x, p)
    BY <1>2, CongRefl, FieldPrime
  <2>3. Cong(x * (k * k), x * 1, p)
    BY <1>2, <1>7, <2>2, CongOps, FieldPrime
  <2> QED BY <1>6, <2>1, <2>2, <2>3, Zenon
<1>9. Cong((y * (w * w * w)) * (z * z * z), y, p)
  <2>1. (y * (w * w * w)) * (z * z * z) = y * ((z * w) * (z * w) * (z * w))
    BY <1>2
  <2>2. k * k * k \in Int /\ y * 1 = y /\ Cong(y, y, p)
    BY <1>2, CongRefl, FieldPrime
  <2>3. Cong(y * (k * k * k), y * 1, p)
    BY <1>2, <1>7, <2>2, CongOps, FieldPrime
  <2> QED BY <1>6, <2>1, <2>2, <2>3, Zenon
<1>10. A.x = x
  BY <1>5, <1>8, IsExactly, Zenon
<1>11. A.y = y
  BY <1>5, <1>9, IsExactly, Zenon
<1>12. A = [x |-> A.x, y |-> A.y] /\ P = [x |-> P.x, y |-> P.y]
  BY <1>3 DEF ApplyZ
<1> QED BY <1>1, <1>3, <1>10, <1>11, <1>12

\* The inverse of the last denominator, as the code computes it.
LastInverse(R, nb, P) ==
    Mult(Mult(ModInv(Mult(Mult(Minus(R[1].x, R[0].x), R[1 - nb].y), P.x)), P.y), R[1 - nb].x)

\* What the multiplication makes of the ladder's last state.
Finish(last, nb, P) ==
    LET R == AddC(last.R, nb, last.sub) IN ApplyZ(Add(R, nb).R[0], LastInverse(R, nb, P))

\* The end of the multiplication.
LEMMA LadderEnd ==
    ASSUME NEW m \in 1..(n - 1), NEW acc, NEW a, LadderAt(acc, a, m), ~Cong(2 * a + 1, 0, n),
           NEW nb, nb \in {0, 1}
    PROVE  Finish(acc, nb, Multiples[m])
             = IF Multiples[m].x = 0 THEN Zero ELSE M(2 * a + 1 - nb, m)
<1>r. PICK R, P : R = AddC(acc.R, nb, acc.sub) /\ P = Multiples[m]
  OBVIOUS
<1>z. PICK z : z = LastInverse(R, nb, P)
  OBVIOUS
<1>1. PICK next : next = Add(R, nb)
  OBVIOUS
<1>2. LadderAt(next, 2 * a + 1 - nb, m)
  BY <1>1, <1>r, LadderRoundAt
<1>3. PICK v \in Int, w \in Int :
         /\ ~Cong(v, 0, p) /\ ~Cong(w, 0, p)
         /\ R[0].x \in Field /\ R[1].x \in Field
         /\ At(R[1 - nb], v, M(1 - 2 * nb, m)) /\ w = v * (R[1 - nb].x - R[nb].x)
         /\ At(next.R[0], w, M(2 * a + 1 - nb, m))
  <2>1. Turned(R, next, nb, a, m)
    BY <1>1, <1>r, LadderRoundAt
  <2> QED BY <2>1 DEF Turned
<1>4. P.x \in Field /\ P.y \in Field /\ P.y # 0 /\ P.x \in Int /\ P.y \in Int
  BY <1>r, PointFields, Ordinate
<1>5. PICK bx, by : bx = R[1 - nb].x /\ by = R[1 - nb].y /\ bx \in Field /\ by \in Field
  BY <1>3 DEF At, Is
<1>6. PICK diff : diff = Minus(R[1].x, R[0].x) /\ diff \in Int
  <2>1. Is(R[1].x, R[1].x) /\ Is(R[0].x, R[0].x)
    BY <1>3, IsNumber
  <2>2. Is(Minus(R[1].x, R[0].x), R[1].x - R[0].x)
    BY <2>1, DifferenceTo
  <2> QED BY <2>2 DEF Is
<1>7. z = Mult(Mult(ModInv(Mult(Mult(diff, by), P.x)), P.y), bx)
  BY <1>z, <1>5, <1>6 DEF LastInverse
<1>10. Finish(acc, nb, P) = ApplyZ(Add(R, nb).R[0], z)
  BY <1>r, <1>z, Zenon DEF Finish
<1>8. CASE P.x = 0
  <2>1. Mult(diff, by) \in Int
    <3>1. diff * by \in Int
      BY <1>5, <1>6, FieldPrime
    <3> QED BY <3>1, FieldPrime DEF Mult
  <2>2. Mult(Mult(diff, by), P.x) = 0
    BY <1>8, <2>1, TimesZero
  <2>3. ModInv(0) = 0
    BY DEF ModInv
  <2>4. z = 0
    BY <1>4, <1>5, <1>7, <2>2, <2>3, TimesZero, FieldPrime
  <2>5. next.R[0].x \in Field /\ next.R[0].y \in Field
    BY <1>3 DEF At, Is
  <2>6. ApplyZ(next.R[0], z) = Zero
    BY <2>4, <2>5, ApplyZero
  <2> QED BY <1>r, <1>1, <1>8, <1>10, <2>6
<1>9. CASE P.x # 0
  <2>1. PICK s \in Int : s = 1 - 2 * nb /\ s \in {1, -1}
    <3>1. 1 - 2 * nb \in {1, -1}
      OBVIOUS
    <3> QED BY <3>1
  <2>2. M(s, m).x = P.x /\ M(s, m).y \in Int /\ Cong(M(s, m).y, s * P.y, p)
    BY <1>r, <2>1, Unit
  <2>3. PICK x \in Int, y \in Int, my \in Int : x = P.x /\ y = P.y /\ my = M(s, m).y
    BY <1>4, <2>2
  <2>4. Is(bx, x * (v * v)) /\ Is(by, my * (v * v * v))
    BY <1>3, <1>5, <2>1, <2>2, <2>3, Zenon DEF At
  <2>5. Is(by, (s * y) * (v * v * v))
    <3>1. PICK v3 \in Int, sy \in Int : v3 = v * v * v /\ sy = s * y
      OBVIOUS
    <3>2. Cong(my, sy, p)
      BY <2>2, <2>3, <3>1, Zenon
    <3>3. Cong(my * v3, sy * v3, p)
      BY <3>2, CongRefl, CongOps, FieldPrime
    <3>4. Is(by, my * v3) /\ sy * v3 \in Int
      BY <2>4, <3>1
    <3>5. Is(by, sy * v3)
      BY <3>3, <3>4, IsSame
    <3> QED BY <3>1, <3>5, Zenon
  <2>6. PICK dd \in Int : dd = R[1].x - R[0].x
    BY <1>3, FieldPrime
  <2>7. Is(diff, dd)
    <3>1. Is(R[1].x, R[1].x) /\ Is(R[0].x, R[0].x)
      BY <1>3, IsNumber
    <3>2. Is(Minus(R[1].x, R[0].x), R[1].x - R[0].x)
      BY <3>1, DifferenceTo
    <3> QED BY <1>6, <2>6, <3>2
  <2>8. w = v * (s * dd)
    <3>1. R[1 - nb].x - R[nb].x = s * dd
      <4>1. R[0].x \in Int /\ R[1].x \in Int
        BY <1>3, FieldPrime
      <4>2. CASE nb = 0
        BY <2>1, <2>6, <4>1, <4>2
      <4>3. CASE nb = 1
        BY <2>1, <2>6, <4>1, <4>3
      <4> QED BY <4>2, <4>3
    <3> QED BY <1>3, <3>1, Zenon
  <2>9. ~Cong(x, 0, p) /\ ~Cong(y, 0, p)
    BY <1>4, <1>9, <2>3, FieldPrime
  <2>10. Is(P.x, x) /\ Is(P.y, y)
    BY <1>4, <2>3, IsNumber
  <2>11. z \in Field /\ z \in Int /\ Cong(z * w, 1, p)
    <3>1. PICK px, py, z0, w0 : px = P.x /\ py = P.y /\ z0 = z /\ w0 = w
      OBVIOUS
    <3>2. /\ Is(px, x) /\ Is(py, y) /\ Is(bx, x * (v * v)) /\ ~Cong(v, 0, p)
          /\ z0 = Mult(Mult(ModInv(Mult(Mult(diff, by), px)), py), bx)
      BY <1>3, <1>7, <2>4, <2>10, <3>1, Zenon
    <3>3. w0 = v * (s * dd) /\ ~Cong(w0, 0, p)
      BY <1>3, <2>8, <3>1
    <3>4. z0 \in Field /\ z0 \in Int /\ Cong(z0 * w0, 1, p)
      BY <2>5, <2>7, <2>9, <3>2, <3>3, LastZ, Zenon
    <3> QED BY <3>1, <3>4
  <2>12. PICK Q : Q = M(2 * a + 1 - nb, m)
    OBVIOUS
  <2>13. Q \in [x : Field, y : Field]
    <3>1. 2 * a + 1 - nb \in Int /\ ~Cong(2 * a + 1 - nb, 0, n)
      BY <1>2 DEF LadderAt
    <3>2. Q.x \in Field /\ Q.y \in Field /\ Q = [x |-> Q.x, y |-> Q.y]
      BY <2>12, <3>1, MPoint
    <3>3. PICK qx \in Field, qy \in Field : Q = [x |-> qx, y |-> qy]
      BY <3>2
    <3> QED BY <3>3
  <2>14. At(next.R[0], w, Q)
    BY <1>3, <2>12
  <2>15. ApplyZ(next.R[0], z) = Q
    BY <2>11, <2>13, <2>14, Affine
  <2> QED BY <1>r, <1>1, <1>9, <1>10, <2>12, <2>15
<1> QED BY <1>8, <1>9

------------------------------------------------------------------------------
(* The exception: inverse registers *)

\* P and its mirror image cannot be added by the chord: the difference of the
\* abscissas is 0, and P - Q comes out as the pair of zeros.
LEMMA MirrorAddC ==
    ASSUME NEW X, NEW Y, NEW x \in Int, NEW y \in Int,
           Is(X.x, x), Is(X.y, y), Is(Y.x, x), Is(Y.y, -y), NEW sub, Is(sub, 0),
           NEW r, r = XYcZ_addC(X, Y, sub)
    PROVE  /\ Is(r.p.x, 0) /\ Is(r.p.y, 0)
           /\ \E d \in Int : Is(r.q.x, d * d) /\ Is(r.q.y, -(d * d * d))
<1> DEFINE A   == Square(sub)
           B   == Mult(X.x, A)
           C   == Mult(Y.x, A)
           sy  == Plus(Y.y, X.y)
           dy  == Minus(Y.y, X.y)
           cb  == Minus(C, B)
           E   == Mult(X.y, cb)
           bc  == Plus(B, C)
           dy2 == Square(dy)
           sy2 == Square(sy)
           x3  == Minus(dy2, bc)
           x3a == Minus(sy2, bc)
           ua  == Minus(x3a, B)
           ub  == Minus(B, x3)
           va  == Mult(sy, ua)
           vb  == Mult(dy, ub)
           ya  == Minus(va, E)
           yb  == Minus(vb, E)
<1>1. r.p.x = x3a /\ r.p.y = ya /\ r.q.x = x3 /\ r.q.y = yb
  BY DEF XYcZ_addC
<1>2. Is(A, 0)
  <2>1. (0) * (0) = 0
    OBVIOUS
  <2>2. Is(A, (0) * (0))
    BY SquareTo, Zenon DEF A
  <2> QED BY <2>1, <2>2, Zenon
<1> HIDE DEF A
<1>3. Is(B, 0)
  <2>1. (x) * (0) = 0
    OBVIOUS
  <2>2. Is(B, (x) * (0))
    BY <1>2, ProductTo, Zenon DEF B
  <2> QED BY <2>1, <2>2, Zenon
<1>4. Is(C, 0)
  <2>1. (x) * (0) = 0
    OBVIOUS
  <2>2. Is(C, (x) * (0))
    BY <1>2, ProductTo, Zenon DEF C
  <2> QED BY <2>1, <2>2, Zenon
<1> HIDE DEF B, C
<1>5. Is(sy, 0)
  <2>1. (-y) + (y) = 0
    OBVIOUS
  <2>2. Is(sy, (-y) + (y))
    BY SumTo, Zenon DEF sy
  <2> QED BY <2>1, <2>2, Zenon
<1>6. Is(dy, (-(2 * y)))
  <2>1. (-y) - (y) = (-(2 * y))
    OBVIOUS
  <2>2. Is(dy, (-y) - (y))
    BY DifferenceTo, Zenon DEF dy
  <2> QED BY <2>1, <2>2, Zenon
<1> HIDE DEF sy, dy
<1>7. Is(cb, 0)
  <2>1. (0) - (0) = 0
    OBVIOUS
  <2>2. Is(cb, (0) - (0))
    BY <1>4, <1>3, DifferenceTo, Zenon DEF cb
  <2> QED BY <2>1, <2>2, Zenon
<1> HIDE DEF cb
<1>8. Is(E, 0)
  <2>1. (y) * (0) = 0
    OBVIOUS
  <2>2. Is(E, (y) * (0))
    BY <1>7, ProductTo, Zenon DEF E
  <2> QED BY <2>1, <2>2, Zenon
<1> HIDE DEF E
<1>9. Is(bc, 0)
  <2>1. (0) + (0) = 0
    OBVIOUS
  <2>2. Is(bc, (0) + (0))
    BY <1>3, <1>4, SumTo, Zenon DEF bc
  <2> QED BY <2>1, <2>2, Zenon
<1> HIDE DEF bc
<1>10. Is(dy2, (-(2 * y)) * (-(2 * y)))
  <2>1. ((-(2 * y))) * ((-(2 * y))) = (-(2 * y)) * (-(2 * y))
    OBVIOUS
  <2>2. Is(dy2, ((-(2 * y))) * ((-(2 * y))))
    BY <1>6, SquareTo, Zenon DEF dy2
  <2> QED BY <2>1, <2>2, Zenon
<1>11. Is(sy2, 0)
  <2>1. (0) * (0) = 0
    OBVIOUS
  <2>2. Is(sy2, (0) * (0))
    BY <1>5, SquareTo, Zenon DEF sy2
  <2> QED BY <2>1, <2>2, Zenon
<1> HIDE DEF dy2, sy2
<1>12. Is(x3, (-(2 * y)) * (-(2 * y)))
  <2>1. ((-(2 * y)) * (-(2 * y))) - (0) = (-(2 * y)) * (-(2 * y))
    OBVIOUS
  <2>2. Is(x3, ((-(2 * y)) * (-(2 * y))) - (0))
    BY <1>10, <1>9, DifferenceTo, Zenon DEF x3
  <2> QED BY <2>1, <2>2, Zenon
<1>13. Is(x3a, 0)
  <2>1. (0) - (0) = 0
    OBVIOUS
  <2>2. Is(x3a, (0) - (0))
    BY <1>11, <1>9, DifferenceTo, Zenon DEF x3a
  <2> QED BY <2>1, <2>2, Zenon
<1> HIDE DEF x3, x3a
<1>14. Is(ua, 0)
  <2>1. (0) - (0) = 0
    OBVIOUS
  <2>2. Is(ua, (0) - (0))
    BY <1>13, <1>3, DifferenceTo, Zenon DEF ua
  <2> QED BY <2>1, <2>2, Zenon
<1>15. Is(ub, -((-(2 * y)) * (-(2 * y))))
  <2>1. (0) - ((-(2 * y)) * (-(2 * y))) = -((-(2 * y)) * (-(2 * y)))
    OBVIOUS
  <2>2. Is(ub, (0) - ((-(2 * y)) * (-(2 * y))))
    BY <1>3, <1>12, DifferenceTo, Zenon DEF ub
  <2> QED BY <2>1, <2>2, Zenon
<1> HIDE DEF ua, ub
<1>16. Is(va, 0)
  <2>1. (0) * (0) = 0
    OBVIOUS
  <2>2. Is(va, (0) * (0))
    BY <1>5, <1>14, ProductTo, Zenon DEF va
  <2> QED BY <2>1, <2>2, Zenon
<1>17. Is(vb, -((-(2 * y)) * (-(2 * y)) * (-(2 * y))))
  <2>1. ((-(2 * y))) * (-((-(2 * y)) * (-(2 * y)))) = -((-(2 * y)) * (-(2 * y)) * (-(2 * y)))
    OBVIOUS
  <2>2. Is(vb, ((-(2 * y))) * (-((-(2 * y)) * (-(2 * y)))))
    BY <1>6, <1>15, ProductTo, Zenon DEF vb
  <2> QED BY <2>1, <2>2, Zenon
<1> HIDE DEF va, vb
<1>18. Is(ya, 0)
  <2>1. (0) - (0) = 0
    OBVIOUS
  <2>2. Is(ya, (0) - (0))
    BY <1>16, <1>8, DifferenceTo, Zenon DEF ya
  <2> QED BY <2>1, <2>2, Zenon
<1>19. Is(yb, -((-(2 * y)) * (-(2 * y)) * (-(2 * y))))
  <2>1. (-((-(2 * y)) * (-(2 * y)) * (-(2 * y)))) - (0) = -((-(2 * y)) * (-(2 * y)) * (-(2 * y)))
    OBVIOUS
  <2>2. Is(yb, (-((-(2 * y)) * (-(2 * y)) * (-(2 * y)))) - (0))
    BY <1>17, <1>8, DifferenceTo, Zenon DEF yb
  <2> QED BY <2>1, <2>2, Zenon
<1> HIDE DEF ya, yb
<1>20. PICK d \in Int : d = -(2 * y)
  OBVIOUS
<1>21. Is(r.q.x, d * d) /\ Is(r.q.y, -(d * d * d))
  BY <1>1, <1>12, <1>19, <1>20, Zenon
<1> QED BY <1>1, <1>13, <1>18, <1>21, Zenon

\* From there on the pair of zeros stays.
LEMMA ZeroAdd ==
    ASSUME NEW X, NEW Y, NEW d \in Int, Is(X.x, d * d), Is(X.y, -(d * d * d)), Is(Y.x, 0), Is(Y.y, 0),
           NEW r, r = XYcZ_add(X, Y)
    PROVE  /\ Is(r.q.x, 0) /\ Is(r.q.y, 0)
           /\ \E c \in Int : Is(r.p.x, c * c) /\ Is(r.p.y, c * c * c) /\ Is(r.sub, c * c)
<1> DEFINE d0  == Minus(Y.x, X.x)
           A   == Square(d0)
           B   == Mult(X.x, A)
           C   == Mult(Y.x, A)
           dy  == Minus(Y.y, X.y)
           dy2 == Square(dy)
           s   == Minus(dy2, B)
           x3  == Minus(s, C)
           cb  == Minus(C, B)
           y1p == Mult(X.y, cb)
           sub == Minus(B, x3)
           m   == Mult(dy, sub)
           y3  == Minus(m, y1p)
<1>1. r.p.x = B /\ r.p.y = y1p /\ r.q.x = x3 /\ r.q.y = y3 /\ r.sub = sub
  BY DEF XYcZ_add
<1>2. Is(d0, -(d * d))
  <2>1. (0) - (d * d) = -(d * d)
    OBVIOUS
  <2>2. Is(d0, (0) - (d * d))
    BY DifferenceTo, Zenon DEF d0
  <2> QED BY <2>1, <2>2, Zenon
<1> HIDE DEF d0
<1>3. Is(A, (d * d) * (d * d))
  <2>1. (-(d * d)) * (-(d * d)) = (d * d) * (d * d)
    OBVIOUS
  <2>2. Is(A, (-(d * d)) * (-(d * d)))
    BY <1>2, SquareTo, Zenon DEF A
  <2> QED BY <2>1, <2>2, Zenon
<1> HIDE DEF A
<1>4. Is(B, (d * d * d) * (d * d * d))
  <2>1. (d * d) * ((d * d) * (d * d)) = (d * d * d) * (d * d * d)
    OBVIOUS
  <2>2. Is(B, (d * d) * ((d * d) * (d * d)))
    BY <1>3, ProductTo, Zenon DEF B
  <2> QED BY <2>1, <2>2, Zenon
<1>5. Is(C, 0)
  <2>1. (0) * ((d * d) * (d * d)) = 0
    OBVIOUS
  <2>2. Is(C, (0) * ((d * d) * (d * d)))
    BY <1>3, ProductTo, Zenon DEF C
  <2> QED BY <2>1, <2>2, Zenon
<1> HIDE DEF B, C
<1>6. Is(dy, (d * d * d))
  <2>1. (0) - (-(d * d * d)) = (d * d * d)
    OBVIOUS
  <2>2. Is(dy, (0) - (-(d * d * d)))
    BY DifferenceTo, Zenon DEF dy
  <2> QED BY <2>1, <2>2, Zenon
<1> HIDE DEF dy
<1>7. Is(dy2, (d * d * d) * (d * d * d))
  <2>1. ((d * d * d)) * ((d * d * d)) = (d * d * d) * (d * d * d)
    OBVIOUS
  <2>2. Is(dy2, ((d * d * d)) * ((d * d * d)))
    BY <1>6, SquareTo, Zenon DEF dy2
  <2> QED BY <2>1, <2>2, Zenon
<1> HIDE DEF dy2
<1>8. Is(s, 0)
  <2>1. ((d * d * d) * (d * d * d)) - ((d * d * d) * (d * d * d)) = 0
    OBVIOUS
  <2>2. Is(s, ((d * d * d) * (d * d * d)) - ((d * d * d) * (d * d * d)))
    BY <1>7, <1>4, DifferenceTo, Zenon DEF s
  <2> QED BY <2>1, <2>2, Zenon
<1> HIDE DEF s
<1>9. Is(x3, 0)
  <2>1. (0) - (0) = 0
    OBVIOUS
  <2>2. Is(x3, (0) - (0))
    BY <1>8, <1>5, DifferenceTo, Zenon DEF x3
  <2> QED BY <2>1, <2>2, Zenon
<1> HIDE DEF x3
<1>10. Is(cb, -((d * d * d) * (d * d * d)))
  <2>1. (0) - ((d * d * d) * (d * d * d)) = -((d * d * d) * (d * d * d))
    OBVIOUS
  <2>2. Is(cb, (0) - ((d * d * d) * (d * d * d)))
    BY <1>5, <1>4, DifferenceTo, Zenon DEF cb
  <2> QED BY <2>1, <2>2, Zenon
<1> HIDE DEF cb
<1>11. Is(y1p, (d * d * d) * (d * d * d) * (d * d * d))
  <2>1. (-(d * d * d)) * (-((d * d * d) * (d * d * d))) = (d * d * d) * (d * d * d) * (d * d * d)
    OBVIOUS
  <2>2. Is(y1p, (-(d * d * d)) * (-((d * d * d) * (d * d * d))))
    BY <1>10, ProductTo, Zenon DEF y1p
  <2> QED BY <2>1, <2>2, Zenon
<1> HIDE DEF y1p
<1>12. Is(sub, (d * d * d) * (d * d * d))
  <2>1. ((d * d * d) * (d * d * d)) - (0) = (d * d * d) * (d * d * d)
    OBVIOUS
  <2>2. Is(sub, ((d * d * d) * (d * d * d)) - (0))
    BY <1>4, <1>9, DifferenceTo, Zenon DEF sub
  <2> QED BY <2>1, <2>2, Zenon
<1> HIDE DEF sub
<1>13. Is(m, (d * d * d) * (d * d * d) * (d * d * d))
  <2>1. ((d * d * d)) * ((d * d * d) * (d * d * d)) = (d * d * d) * (d * d * d) * (d * d * d)
    OBVIOUS
  <2>2. Is(m, ((d * d * d)) * ((d * d * d) * (d * d * d)))
    BY <1>6, <1>12, ProductTo, Zenon DEF m
  <2> QED BY <2>1, <2>2, Zenon
<1> HIDE DEF m
<1>14. Is(y3, 0)
  <2>1. ((d * d * d) * (d * d * d) * (d * d * d)) - ((d * d * d) * (d * d * d) * (d * d * d)) = 0
    OBVIOUS
  <2>2. Is(y3, ((d * d * d) * (d * d * d) * (d * d * d)) - ((d * d * d) * (d * d * d) * (d * d * d)))
    BY <1>13, <1>11, DifferenceTo, Zenon DEF y3
  <2> QED BY <2>1, <2>2, Zenon
<1> HIDE DEF y3
<1>15. PICK c \in Int : c = d * d * d
  OBVIOUS
<1>16. Is(r.p.x, c * c) /\ Is(r.p.y, c * c * c) /\ Is(r.sub, c * c)
  BY <1>1, <1>4, <1>11, <1>12, <1>15, Zenon
<1> QED BY <1>1, <1>9, <1>14, <1>16, Zenon

\* In the last round, on either side, it takes the other register along.
LEMMA ZeroFirstAddC ==
    ASSUME NEW X, NEW Y, NEW c \in Int, Is(X.x, 0), Is(X.y, 0), Is(Y.x, c * c), Is(Y.y, c * c * c),
           NEW sub, Is(sub, c * c), NEW r, r = XYcZ_addC(X, Y, sub)
    PROVE  Is(r.p.x, 0) /\ Is(r.p.y, 0) /\ Is(r.q.x, 0) /\ Is(r.q.y, 0)
<1> DEFINE A   == Square(sub)
           B   == Mult(X.x, A)
           C   == Mult(Y.x, A)
           sy  == Plus(Y.y, X.y)
           dy  == Minus(Y.y, X.y)
           cb  == Minus(C, B)
           E   == Mult(X.y, cb)
           bc  == Plus(B, C)
           dy2 == Square(dy)
           sy2 == Square(sy)
           x3  == Minus(dy2, bc)
           x3a == Minus(sy2, bc)
           ua  == Minus(x3a, B)
           ub  == Minus(B, x3)
           va  == Mult(sy, ua)
           vb  == Mult(dy, ub)
           ya  == Minus(va, E)
           yb  == Minus(vb, E)
<1>1. r.p.x = x3a /\ r.p.y = ya /\ r.q.x = x3 /\ r.q.y = yb
  BY DEF XYcZ_addC
<1>2. Is(A, (c * c) * (c * c))
  <2>1. (c * c) * (c * c) = (c * c) * (c * c)
    OBVIOUS
  <2>2. Is(A, (c * c) * (c * c))
    BY SquareTo, Zenon DEF A
  <2> QED BY <2>1, <2>2, Zenon
<1> HIDE DEF A
<1>3. Is(B, 0)
  <2>1. (0) * ((c * c) * (c * c)) = 0
    OBVIOUS
  <2>2. Is(B, (0) * ((c * c) * (c * c)))
    BY <1>2, ProductTo, Zenon DEF B
  <2> QED BY <2>1, <2>2, Zenon
<1>4. Is(C, (c * c * c) * (c * c * c))
  <2>1. (c * c) * ((c * c) * (c * c)) = (c * c * c) * (c * c * c)
    OBVIOUS
  <2>2. Is(C, (c * c) * ((c * c) * (c * c)))
    BY <1>2, ProductTo, Zenon DEF C
  <2> QED BY <2>1, <2>2, Zenon
<1> HIDE DEF B, C
<1>5. Is(sy, (c * c * c))
  <2>1. (c * c * c) + (0) = (c * c * c)
    OBVIOUS
  <2>2. Is(sy, (c * c * c) + (0))
    BY SumTo, Zenon DEF sy
  <2> QED BY <2>1, <2>2, Zenon
<1>6. Is(dy, (c * c * c))
  <2>1. (c * c * c) - (0) = (c * c * c)
    OBVIOUS
  <2>2. Is(dy, (c * c * c) - (0))
    BY DifferenceTo, Zenon DEF dy
  <2> QED BY <2>1, <2>2, Zenon
<1> HIDE DEF sy, dy
<1>7. Is(cb, (c * c * c) * (c * c * c))
  <2>1. ((c * c * c) * (c * c * c)) - (0) = (c * c * c) * (c * c * c)
    OBVIOUS
  <2>2. Is(cb, ((c * c * c) * (c * c * c)) - (0))
    BY <1>4, <1>3, DifferenceTo, Zenon DEF cb
  <2> QED BY <2>1, <2>2, Zenon
<1> HIDE DEF cb
<1>8. Is(E, 0)
  <2>1. (0) * ((c * c * c) * (c * c * c)) = 0
    OBVIOUS
  <2>2. Is(E, (0) * ((c * c * c) * (c * c * c)))
    BY <1>7, ProductTo, Zenon DEF E
  <2> QED BY <2>1, <2>2, Zenon
<1> HIDE DEF E
<1>9. Is(bc, (c * c * c) * (c * c * c))
  <2>1. (0) + ((c * c * c) * (c * c * c)) = (c * c * c) * (c * c * c)
    OBVIOUS
  <2>2. Is(bc, (0) + ((c * c * c) * (c * c * c)))
    BY <1>3, <1>4, SumTo, Zenon DEF bc
  <2> QED BY <2>1, <2>2, Zenon
<1> HIDE DEF bc
<1>10. Is(dy2, (c * c * c) * (c * c * c))
  <2>1. ((c * c * c)) * ((c * c * c)) = (c * c * c) * (c * c * c)
    OBVIOUS
  <2>2. Is(dy2, ((c * c * c)) * ((c * c * c)))
    BY <1>6, SquareTo, Zenon DEF dy2
  <2> QED BY <2>1, <2>2, Zenon
<1>11. Is(sy2, (c * c * c) * (c * c * c))
  <2>1. ((c * c * c)) * ((c * c * c)) = (c * c * c) * (c * c * c)
    OBVIOUS
  <2>2. Is(sy2, ((c * c * c)) * ((c * c * c)))
    BY <1>5, SquareTo, Zenon DEF sy2
  <2> QED BY <2>1, <2>2, Zenon
<1> HIDE DEF dy2, sy2
<1>12. Is(x3, 0)
  <2>1. ((c * c * c) * (c * c * c)) - ((c * c * c) * (c * c * c)) = 0
    OBVIOUS
  <2>2. Is(x3, ((c * c * c) * (c * c * c)) - ((c * c * c) * (c * c * c)))
    BY <1>10, <1>9, DifferenceTo, Zenon DEF x3
  <2> QED BY <2>1, <2>2, Zenon
<1>13. Is(x3a, 0)
  <2>1. ((c * c * c) * (c * c * c)) - ((c * c * c) * (c * c * c)) = 0
    OBVIOUS
  <2>2. Is(x3a, ((c * c * c) * (c * c * c)) - ((c * c * c) * (c * c * c)))
    BY <1>11, <1>9, DifferenceTo, Zenon DEF x3a
  <2> QED BY <2>1, <2>2, Zenon
<1> HIDE DEF x3, x3a
<1>14. Is(ua, 0)
  <2>1. (0) - (0) = 0
    OBVIOUS
  <2>2. Is(ua, (0) - (0))
    BY <1>13, <1>3, DifferenceTo, Zenon DEF ua
  <2> QED BY <2>1, <2>2, Zenon
<1>15. Is(ub, 0)
  <2>1. (0) - (0) = 0
    OBVIOUS
  <2>2. Is(ub, (0) - (0))
    BY <1>3, <1>12, DifferenceTo, Zenon DEF ub
  <2> QED BY <2>1, <2>2, Zenon
<1> HIDE DEF ua, ub
<1>16. Is(va, 0)
  <2>1. ((c * c * c)) * (0) = 0
    OBVIOUS
  <2>2. Is(va, ((c * c * c)) * (0))
    BY <1>5, <1>14, ProductTo, Zenon DEF va
  <2> QED BY <2>1, <2>2, Zenon
<1>17. Is(vb, 0)
  <2>1. ((c * c * c)) * (0) = 0
    OBVIOUS
  <2>2. Is(vb, ((c * c * c)) * (0))
    BY <1>6, <1>15, ProductTo, Zenon DEF vb
  <2> QED BY <2>1, <2>2, Zenon
<1> HIDE DEF va, vb
<1>18. Is(ya, 0)
  <2>1. (0) - (0) = 0
    OBVIOUS
  <2>2. Is(ya, (0) - (0))
    BY <1>16, <1>8, DifferenceTo, Zenon DEF ya
  <2> QED BY <2>1, <2>2, Zenon
<1>19. Is(yb, 0)
  <2>1. (0) - (0) = 0
    OBVIOUS
  <2>2. Is(yb, (0) - (0))
    BY <1>17, <1>8, DifferenceTo, Zenon DEF yb
  <2> QED BY <2>1, <2>2, Zenon
<1> HIDE DEF ya, yb
<1> QED BY <1>1, <1>12, <1>13, <1>18, <1>19, Zenon

\* The same with the two the other way round,
LEMMA ZeroSecondAddC ==
    ASSUME NEW X, NEW Y, NEW c \in Int, Is(X.x, c * c), Is(X.y, c * c * c), Is(Y.x, 0), Is(Y.y, 0),
           NEW sub, Is(sub, c * c), NEW r, r = XYcZ_addC(X, Y, sub)
    PROVE  Is(r.p.x, 0) /\ Is(r.p.y, 0) /\ Is(r.q.x, 0) /\ Is(r.q.y, 0)
<1> DEFINE A   == Square(sub)
           B   == Mult(X.x, A)
           C   == Mult(Y.x, A)
           sy  == Plus(Y.y, X.y)
           dy  == Minus(Y.y, X.y)
           cb  == Minus(C, B)
           E   == Mult(X.y, cb)
           bc  == Plus(B, C)
           dy2 == Square(dy)
           sy2 == Square(sy)
           x3  == Minus(dy2, bc)
           x3a == Minus(sy2, bc)
           ua  == Minus(x3a, B)
           ub  == Minus(B, x3)
           va  == Mult(sy, ua)
           vb  == Mult(dy, ub)
           ya  == Minus(va, E)
           yb  == Minus(vb, E)
<1>1. r.p.x = x3a /\ r.p.y = ya /\ r.q.x = x3 /\ r.q.y = yb
  BY DEF XYcZ_addC
<1>2. Is(A, (c * c) * (c * c))
  <2>1. (c * c) * (c * c) = (c * c) * (c * c)
    OBVIOUS
  <2>2. Is(A, (c * c) * (c * c))
    BY SquareTo, Zenon DEF A
  <2> QED BY <2>1, <2>2, Zenon
<1> HIDE DEF A
<1>3. Is(B, (c * c * c) * (c * c * c))
  <2>1. (c * c) * ((c * c) * (c * c)) = (c * c * c) * (c * c * c)
    OBVIOUS
  <2>2. Is(B, (c * c) * ((c * c) * (c * c)))
    BY <1>2, ProductTo, Zenon DEF B
  <2> QED BY <2>1, <2>2, Zenon
<1>4. Is(C, 0)
  <2>1. (0) * ((c * c) * (c * c)) = 0
    OBVIOUS
  <2>2. Is(C, (0) * ((c * c) * (c * c)))
    BY <1>2, ProductTo, Zenon DEF C
  <2> QED BY <2>1, <2>2, Zenon
<1> HIDE DEF B, C
<1>5. Is(sy, (c * c * c))
  <2>1. (0) + (c * c * c) = (c * c * c)
    OBVIOUS
  <2>2. Is(sy, (0) + (c * c * c))
    BY SumTo, Zenon DEF sy
  <2> QED BY <2>1, <2>2, Zenon
<1>6. Is(dy, (-(c * c * c)))
  <2>1. (0) - (c * c * c) = (-(c * c * c))
    OBVIOUS
  <2>2. Is(dy, (0) - (c * c * c))
    BY DifferenceTo, Zenon DEF dy
  <2> QED BY <2>1, <2>2, Zenon
<1> HIDE DEF sy, dy
<1>7. Is(cb, -((c * c * c) * (c * c * c)))
  <2>1. (0) - ((c * c * c) * (c * c * c)) = -((c * c * c) * (c * c * c))
    OBVIOUS
  <2>2. Is(cb, (0) - ((c * c * c) * (c * c * c)))
    BY <1>4, <1>3, DifferenceTo, Zenon DEF cb
  <2> QED BY <2>1, <2>2, Zenon
<1> HIDE DEF cb
<1>8. Is(E, -((c * c * c) * (c * c * c) * (c * c * c)))
  <2>1. (c * c * c) * (-((c * c * c) * (c * c * c))) = -((c * c * c) * (c * c * c) * (c * c * c))
    OBVIOUS
  <2>2. Is(E, (c * c * c) * (-((c * c * c) * (c * c * c))))
    BY <1>7, ProductTo, Zenon DEF E
  <2> QED BY <2>1, <2>2, Zenon
<1> HIDE DEF E
<1>9. Is(bc, (c * c * c) * (c * c * c))
  <2>1. ((c * c * c) * (c * c * c)) + (0) = (c * c * c) * (c * c * c)
    OBVIOUS
  <2>2. Is(bc, ((c * c * c) * (c * c * c)) + (0))
    BY <1>3, <1>4, SumTo, Zenon DEF bc
  <2> QED BY <2>1, <2>2, Zenon
<1> HIDE DEF bc
<1>10. Is(dy2, (c * c * c) * (c * c * c))
  <2>1. ((-(c * c * c))) * ((-(c * c * c))) = (c * c * c) * (c * c * c)
    OBVIOUS
  <2>2. Is(dy2, ((-(c * c * c))) * ((-(c * c * c))))
    BY <1>6, SquareTo, Zenon DEF dy2
  <2> QED BY <2>1, <2>2, Zenon
<1>11. Is(sy2, (c * c * c) * (c * c * c))
  <2>1. ((c * c * c)) * ((c * c * c)) = (c * c * c) * (c * c * c)
    OBVIOUS
  <2>2. Is(sy2, ((c * c * c)) * ((c * c * c)))
    BY <1>5, SquareTo, Zenon DEF sy2
  <2> QED BY <2>1, <2>2, Zenon
<1> HIDE DEF dy2, sy2
<1>12. Is(x3, 0)
  <2>1. ((c * c * c) * (c * c * c)) - ((c * c * c) * (c * c * c)) = 0
    OBVIOUS
  <2>2. Is(x3, ((c * c * c) * (c * c * c)) - ((c * c * c) * (c * c * c)))
    BY <1>10, <1>9, DifferenceTo, Zenon DEF x3
  <2> QED BY <2>1, <2>2, Zenon
<1>13. Is(x3a, 0)
  <2>1. ((c * c * c) * (c * c * c)) - ((c * c * c) * (c * c * c)) = 0
    OBVIOUS
  <2>2. Is(x3a, ((c * c * c) * (c * c * c)) - ((c * c * c) * (c * c * c)))
    BY <1>11, <1>9, DifferenceTo, Zenon DEF x3a
  <2> QED BY <2>1, <2>2, Zenon
<1> HIDE DEF x3, x3a
<1>14. Is(ua, -((c * c * c) * (c * c * c)))
  <2>1. (0) - ((c * c * c) * (c * c * c)) = -((c * c * c) * (c * c * c))
    OBVIOUS
  <2>2. Is(ua, (0) - ((c * c * c) * (c * c * c)))
    BY <1>13, <1>3, DifferenceTo, Zenon DEF ua
  <2> QED BY <2>1, <2>2, Zenon
<1>15. Is(ub, (c * c * c) * (c * c * c))
  <2>1. ((c * c * c) * (c * c * c)) - (0) = (c * c * c) * (c * c * c)
    OBVIOUS
  <2>2. Is(ub, ((c * c * c) * (c * c * c)) - (0))
    BY <1>3, <1>12, DifferenceTo, Zenon DEF ub
  <2> QED BY <2>1, <2>2, Zenon
<1> HIDE DEF ua, ub
<1>16. Is(va, -((c * c * c) * (c * c * c) * (c * c * c)))
  <2>1. ((c * c * c)) * (-((c * c * c) * (c * c * c))) = -((c * c * c) * (c * c * c) * (c * c * c))
    OBVIOUS
  <2>2. Is(va, ((c * c * c)) * (-((c * c * c) * (c * c * c))))
    BY <1>5, <1>14, ProductTo, Zenon DEF va
  <2> QED BY <2>1, <2>2, Zenon
<1>17. Is(vb, -((c * c * c) * (c * c * c) * (c * c * c)))
  <2>1. ((-(c * c * c))) * ((c * c * c) * (c * c * c)) = -((c * c * c) * (c * c * c) * (c * c * c))
    OBVIOUS
  <2>2. Is(vb, ((-(c * c * c))) * ((c * c * c) * (c * c * c)))
    BY <1>6, <1>15, ProductTo, Zenon DEF vb
  <2> QED BY <2>1, <2>2, Zenon
<1> HIDE DEF va, vb
<1>18. Is(ya, 0)
  <2>1. (-((c * c * c) * (c * c * c) * (c * c * c))) - (-((c * c * c) * (c * c * c) * (c * c * c))) = 0
    OBVIOUS
  <2>2. Is(ya, (-((c * c * c) * (c * c * c) * (c * c * c))) - (-((c * c * c) * (c * c * c) * (c * c * c))))
    BY <1>16, <1>8, DifferenceTo, Zenon DEF ya
  <2> QED BY <2>1, <2>2, Zenon
<1>19. Is(yb, 0)
  <2>1. (-((c * c * c) * (c * c * c) * (c * c * c))) - (-((c * c * c) * (c * c * c) * (c * c * c))) = 0
    OBVIOUS
  <2>2. Is(yb, (-((c * c * c) * (c * c * c) * (c * c * c))) - (-((c * c * c) * (c * c * c) * (c * c * c))))
    BY <1>17, <1>8, DifferenceTo, Zenon DEF yb
  <2> QED BY <2>1, <2>2, Zenon
<1> HIDE DEF ya, yb
<1> QED BY <1>1, <1>12, <1>13, <1>18, <1>19, Zenon

\* ... and then both registers are the pair of zeros.
LEMMA ZerosAdd ==
    ASSUME NEW X, NEW Y, Is(X.x, 0), Is(X.y, 0), Is(Y.x, 0), Is(Y.y, 0),
           NEW r, r = XYcZ_add(X, Y)
    PROVE  Is(r.p.x, 0) /\ Is(r.p.y, 0) /\ Is(r.q.x, 0) /\ Is(r.q.y, 0)
<1>1. \A x : Is(x, 0) <=> x = 0
  <2>1. Is(0, 0)
    BY IsNumber, FieldPrime
  <2>2. ASSUME NEW x, Is(x, 0) PROVE x = 0
    <3>1. Cong(0, 0, p) /\ 0 \in Field
      BY CongRefl, FieldPrime
    <3> QED BY <2>2, <3>1, IsExactly
  <2> QED BY <2>1, <2>2
<1>2. X.x = 0 /\ X.y = 0 /\ Y.x = 0 /\ Y.y = 0
  BY <1>1
<1>3. Minus(0, 0) = 0 /\ Square(0) = 0 /\ Mult(0, 0) = 0
  <2>1. (0 % p) = 0
    BY FieldPrime, RemainderNear
  <2> QED BY <2>1, TimesZero DEF Minus, Square
<1>4. r.p.x = 0 /\ r.p.y = 0 /\ r.q.x = 0 /\ r.q.y = 0
  BY <1>2, <1>3 DEF XYcZ_add
<1> QED BY <1>1, <1>4

\* One register is the pair of zeros, and the other one in step with sub.
LadderLost(acc) ==
    \E k \in {0, 1}, c \in Int :
        /\ Is(acc.R[k].x, c * c) /\ Is(acc.R[k].y, c * c * c) /\ Is(acc.sub, c * c)
        /\ Is(acc.R[1 - k].x, 0) /\ Is(acc.R[1 - k].y, 0)

\* Opposite registers: what the code computes there is no sum.
LEMMA Opposite ==
    ASSUME NEW m \in 1..(n - 1), NEW acc, NEW a, LadderAt(acc, a, m), Cong(2 * a + 1, 0, n)
    PROVE  \E x \in Int, y \in Int : /\ Is(acc.R[0].x, x) /\ Is(acc.R[0].y, y)
                                     /\ Is(acc.R[1].x, x) /\ Is(acc.R[1].y, -y)
<1>1. a \in Int /\ ~Cong(a, 0, n)
  BY DEF LadderAt
<1>2. M(a + 1, m) = M(-a, m)
  <2>1. a + 1 = -a + (2 * a + 1) /\ -a + 0 = -a /\ -a \in Int /\ 2 * a + 1 \in Int /\ a + 1 \in Int
    BY <1>1
  <2>2. Cong(-a, -a, n)
    BY <2>1, CongRefl, OrderPrime
  <2>3. Cong(-a + (2 * a + 1), -a + 0, n)
    BY <2>1, <2>2, CongOps, OrderPrime
  <2>4. Cong(a + 1, -a, n)
    BY <2>1, <2>3
  <2> QED BY <2>1, <2>4, MSame
<1>3. M(-a, m) = [x |-> M(a, m).x, y |-> p - M(a, m).y]
  BY <1>1, MMirror
<1>4. PICK z \in Int : At(acc.R[0], z, M(a, m)) /\ At(acc.R[1], z, M(a + 1, m))
  BY DEF LadderAt
<1>5. PICK px \in Int, py \in Int, z2 \in Int, z3 \in Int :
         px = M(a, m).x /\ py = M(a, m).y /\ z2 = z * z /\ z3 = z * z * z
  BY <1>1, MPoint, FieldPrime
<1>6. M(a + 1, m).x = px /\ M(a + 1, m).y = p - py
  BY <1>2, <1>3, <1>5
<1>7. /\ Is(acc.R[0].x, px * z2) /\ Is(acc.R[0].y, py * z3)
      /\ Is(acc.R[1].x, px * z2) /\ Is(acc.R[1].y, (p - py) * z3)
  BY <1>4, <1>5, <1>6, Zenon DEF At
<1>8. Is(acc.R[1].y, -(py * z3))
  <2>1. (p - py) * z3 = -(py * z3) + z3 * p
    BY FieldPrime
  <2>2. Cong((p - py) * z3, -(py * z3), p)
    BY <2>1 DEF Cong
  <2>3. -(py * z3) \in Int
    OBVIOUS
  <2> QED BY <1>7, <2>2, <2>3, IsSame
<1>9. PICK x \in Int, y \in Int : x = px * z2 /\ y = py * z3
  OBVIOUS
<1> QED BY <1>7, <1>8, <1>9, Zenon

\* A round on inverse registers loses the point.
LEMMA StuckRound ==
    ASSUME NEW m \in 1..(n - 1), NEW acc, NEW a, LadderAt(acc, a, m), Cong(2 * a + 1, 0, n),
           NEW nb, nb \in {0, 1}, NEW next, next = Add(AddC(acc.R, nb, acc.sub), nb)
    PROVE  LadderLost(next)
<1>1. PICK x \in Int, y \in Int : /\ Is(acc.R[0].x, x) /\ Is(acc.R[0].y, y)
                                  /\ Is(acc.R[1].x, x) /\ Is(acc.R[1].y, -y)
  BY Opposite
<1>2. Is(acc.sub, 0)
  <2>1. Is(Minus(acc.R[0].x, acc.R[1].x), x - x) /\ Is(Minus(acc.R[1].x, acc.R[0].x), x - x)
    BY <1>1, DifferenceTo
  <2>2. x - x = 0
    OBVIOUS
  <2> QED BY <2>1, <2>2 DEF LadderAt
<1>3. PICK X, Y, sub : X = acc.R[1 - nb] /\ Y = acc.R[nb] /\ sub = acc.sub
  OBVIOUS
<1>4. \E z \in Int : Is(X.x, x) /\ Is(X.y, z) /\ Is(Y.x, x) /\ Is(Y.y, -z)
  <2>1. CASE nb = 0
    <3>1. X = acc.R[1] /\ Y = acc.R[0]
      BY <1>3, <2>1
    <3>2. -(-y) = y /\ -y \in Int
      OBVIOUS
    <3> QED BY <1>1, <3>1, <3>2
  <2>2. CASE nb = 1
    <3>1. X = acc.R[0] /\ Y = acc.R[1]
      BY <1>3, <2>2
    <3> QED BY <1>1, <3>1
  <2> QED BY <2>1, <2>2
<1>5. PICK z \in Int : Is(X.x, x) /\ Is(X.y, z) /\ Is(Y.x, x) /\ Is(Y.y, -z)
  BY <1>4
<1>6. PICK r : r = XYcZ_addC(X, Y, sub)
  OBVIOUS
<1>7. Is(r.p.x, 0) /\ Is(r.p.y, 0) /\ \E d \in Int : Is(r.q.x, d * d) /\ Is(r.q.y, -(d * d * d))
  BY <1>2, <1>3, <1>5, <1>6, MirrorAddC
<1>8. PICK d \in Int : Is(r.q.x, d * d) /\ Is(r.q.y, -(d * d * d))
  BY <1>7
<1>9. PICK r2 : r2 = XYcZ_add(r.q, r.p)
  OBVIOUS
<1>10. /\ Is(r2.q.x, 0) /\ Is(r2.q.y, 0)
       /\ \E c \in Int : Is(r2.p.x, c * c) /\ Is(r2.p.y, c * c * c) /\ Is(r2.sub, c * c)
  <2>1. PICK f, g : f = r.q /\ g = r.p
    OBVIOUS
  <2>2. Is(f.x, d * d) /\ Is(f.y, -(d * d * d)) /\ Is(g.x, 0) /\ Is(g.y, 0) /\ r2 = XYcZ_add(f, g)
    BY <1>7, <1>8, <1>9, <2>1
  <2> QED BY <2>2, ZeroAdd
<1>11. AddC(acc.R, nb, acc.sub) = [i \in {0, 1} |-> IF i = nb THEN r.q ELSE r.p]
  BY <1>3, <1>6 DEF AddC
<1>12. nb # 1 - nb /\ 1 - nb \in {0, 1}
  OBVIOUS
<1>13. next = [R |-> [i \in {0, 1} |-> IF i = nb THEN r2.p ELSE r2.q], sub |-> r2.sub]
  BY <1>9, <1>11, <1>12 DEF Add
<1>14. next.R[nb] = r2.p /\ next.R[1 - nb] = r2.q /\ next.sub = r2.sub
  BY <1>12, <1>13
<1>15. PICK c \in Int : Is(r2.p.x, c * c) /\ Is(r2.p.y, c * c * c) /\ Is(r2.sub, c * c)
  BY <1>10
<1>16. /\ Is(next.R[nb].x, c * c) /\ Is(next.R[nb].y, c * c * c) /\ Is(next.sub, c * c)
       /\ Is(next.R[1 - nb].x, 0) /\ Is(next.R[1 - nb].y, 0)
  BY <1>10, <1>14, <1>15
<1> QED BY <1>16, Zenon DEF LadderLost

\* Only 0 is 0 modulo p.
LEMMA IsZero ==
    ASSUME NEW x
    PROVE  Is(x, 0) <=> x = 0
<1>1. Is(0, 0) /\ Cong(0, 0, p) /\ 0 \in Field
  BY IsNumber, CongRefl, FieldPrime
<1> QED BY <1>1, IsExactly

\* What is lost comes out as Zero, whichever bit is last.
LEMMA LostEnd ==
    ASSUME NEW acc, LadderLost(acc), NEW nb, nb \in {0, 1}, NEW P, P.x \in Field, P.y \in Field
    PROVE  Finish(acc, nb, P) = Zero
<1>r. PICK R : R = AddC(acc.R, nb, acc.sub)
  OBVIOUS
<1>z. PICK z : z = LastInverse(R, nb, P)
  OBVIOUS
<1>1. PICK k \in {0, 1}, c \in Int :
        /\ Is(acc.R[k].x, c * c) /\ Is(acc.R[k].y, c * c * c) /\ Is(acc.sub, c * c)
        /\ Is(acc.R[1 - k].x, 0) /\ Is(acc.R[1 - k].y, 0)
  BY DEF LadderLost
<1>2. PICK X, Y, sub : X = acc.R[1 - nb] /\ Y = acc.R[nb] /\ sub = acc.sub
  OBVIOUS
<1>3. PICK r : r = XYcZ_addC(X, Y, sub)
  OBVIOUS
<1>4. Is(r.p.x, 0) /\ Is(r.p.y, 0) /\ Is(r.q.x, 0) /\ Is(r.q.y, 0)
  <2>1. CASE k = nb
    <3>1. /\ Is(X.x, 0) /\ Is(X.y, 0) /\ Is(Y.x, c * c) /\ Is(Y.y, c * c * c)
          /\ Is(sub, c * c)
      BY <1>1, <1>2, <2>1, Zenon
    <3> QED BY <1>3, <3>1, ZeroFirstAddC
  <2>2. CASE k # nb
    <3>1. k = 1 - nb /\ 1 - k = nb
      BY <1>1, <2>2
    <3>2. /\ Is(X.x, c * c) /\ Is(X.y, c * c * c) /\ Is(Y.x, 0) /\ Is(Y.y, 0)
          /\ Is(sub, c * c)
      BY <1>1, <1>2, <3>1, Zenon
    <3> QED BY <1>3, <3>2, ZeroSecondAddC
  <2> QED BY <2>1, <2>2
<1>5. R = [i \in {0, 1} |-> IF i = nb THEN r.q ELSE r.p]
  BY <1>r, <1>2, <1>3 DEF AddC
<1>6. R[nb] = r.q /\ R[1 - nb] = r.p /\ nb # 1 - nb /\ 1 - nb \in {0, 1}
  BY <1>5
<1>7. R[0].x = 0 /\ R[1].x = 0 /\ R[1 - nb].x = 0 /\ R[1 - nb].y = 0
  <2>1. r.p.x = 0 /\ r.p.y = 0 /\ r.q.x = 0 /\ r.q.y = 0
    BY <1>4, IsZero
  <2> QED BY <1>5, <1>6, <2>1
<1>8. PICK r2 : r2 = XYcZ_add(r.q, r.p)
  OBVIOUS
<1>9. Is(r2.p.x, 0) /\ Is(r2.p.y, 0) /\ Is(r2.q.x, 0) /\ Is(r2.q.y, 0)
  <2>1. PICK f, g : f = r.q /\ g = r.p
    OBVIOUS
  <2>2. Is(f.x, 0) /\ Is(f.y, 0) /\ Is(g.x, 0) /\ Is(g.y, 0) /\ r2 = XYcZ_add(f, g)
    BY <1>4, <1>8, <2>1
  <2> QED BY <2>2, ZerosAdd
<1>10. Add(R, nb) = [R |-> [i \in {0, 1} |-> IF i = nb THEN r2.p ELSE r2.q], sub |-> r2.sub]
  BY <1>6, <1>8 DEF Add
<1>11. Add(R, nb).R[0].x \in Field /\ Add(R, nb).R[0].y \in Field
  <2>1. r2.p.x = 0 /\ r2.p.y = 0 /\ r2.q.x = 0 /\ r2.q.y = 0
    BY <1>9, IsZero
  <2>2. Add(R, nb).R[0] = r2.p \/ Add(R, nb).R[0] = r2.q
    BY <1>10
  <2> QED BY <2>1, <2>2, FieldPrime
<1>12. z = 0
  <2>1. Minus(0, 0) = 0
    <3>1. (0 % p) = 0
      BY FieldPrime, RemainderNear
    <3> QED BY <3>1 DEF Minus
  <2>2. Mult(0, 0) = 0 /\ Mult(0, P.x) = 0 /\ Mult(0, P.y) = 0 /\ ModInv(0) = 0
    BY TimesZero, FieldPrime DEF ModInv
  <2> QED BY <1>z, <1>7, <2>1, <2>2 DEF LastInverse
<1>13. ApplyZ(Add(R, nb).R[0], z) = Zero
  BY <1>11, <1>12, ApplyZero
<1> QED BY <1>r, <1>z, <1>13, Zenon DEF Finish

------------------------------------------------------------------------------
(* The ladder as a recursive function *)

\* Pairs of field elements, points or not.
Pairs == [x : Field, y : Field]

\* What the ladder's rounds work on.
Ladders == [R : [{0, 1} -> Pairs], sub : Field]

\* The operations stay in the field.
LEMMA FieldClosed ==
    ASSUME NEW x \in Field, NEW y \in Field
    PROVE  Plus(x, y) \in Field /\ Minus(x, y) \in Field /\ Mult(x, y) \in Field /\ Square(x) \in Field
<1>1. Is(x, x) /\ Is(y, y)
  BY IsNumber
<1>2. Is(Plus(x, y), x + y)
  BY <1>1, SumTo
<1>3. Is(Minus(x, y), x - y)
  BY <1>1, DifferenceTo
<1>4. Is(Mult(x, y), x * y)
  BY <1>1, ProductTo
<1>5. Is(Square(x), x * x)
  BY <1>1, SquareTo
<1> QED BY <1>2, <1>3, <1>4, <1>5, Zenon DEF Is

\* So do the additions,
LEMMA AddCTyped ==
    ASSUME NEW P \in Pairs, NEW Q \in Pairs, NEW sub \in Field
    PROVE  XYcZ_addC(P, Q, sub).p \in Pairs /\ XYcZ_addC(P, Q, sub).q \in Pairs
<1>1. PICK A \in Field : A = Square(sub)
  BY FieldClosed
<1>2. P.x \in Field /\ P.y \in Field /\ Q.x \in Field /\ Q.y \in Field
  BY DEF Pairs
<1>3. PICK B \in Field, C \in Field : B = Mult(P.x, A) /\ C = Mult(Q.x, A)
  BY <1>2, FieldClosed
<1>4. PICK sy \in Field, dy \in Field : sy = Plus(Q.y, P.y) /\ dy = Minus(Q.y, P.y)
  BY <1>2, FieldClosed
<1>5. PICK cb \in Field, bc \in Field : cb = Minus(C, B) /\ bc = Plus(B, C)
  BY FieldClosed
<1>6. PICK E \in Field, dy2 \in Field, sy2 \in Field :
        E = Mult(P.y, cb) /\ dy2 = Square(dy) /\ sy2 = Square(sy)
  BY <1>2, FieldClosed
<1>7. PICK x3 \in Field, x3a \in Field : x3 = Minus(dy2, bc) /\ x3a = Minus(sy2, bc)
  BY FieldClosed
<1>8. PICK ua \in Field, ub \in Field : ua = Minus(x3a, B) /\ ub = Minus(B, x3)
  BY FieldClosed
<1>9. PICK va \in Field, vb \in Field : va = Mult(sy, ua) /\ vb = Mult(dy, ub)
  BY FieldClosed
<1>10. PICK ya \in Field, yb \in Field : ya = Minus(va, E) /\ yb = Minus(vb, E)
  BY FieldClosed
<1>11. XYcZ_addC(P, Q, sub) = [p |-> [x |-> x3a, y |-> ya], q |-> [x |-> x3, y |-> yb]]
  BY <1>1, <1>3, <1>4, <1>5, <1>6, <1>7, <1>8, <1>9, <1>10, Zenon DEF XYcZ_addC
<1> QED BY <1>11 DEF Pairs

\* ... both of them,
LEMMA AddTyped ==
    ASSUME NEW P \in Pairs, NEW Q \in Pairs
    PROVE  /\ XYcZ_add(P, Q).p \in Pairs /\ XYcZ_add(P, Q).q \in Pairs
           /\ XYcZ_add(P, Q).sub \in Field
<1>1. P.x \in Field /\ P.y \in Field /\ Q.x \in Field /\ Q.y \in Field
  BY DEF Pairs
<1>2. PICK d \in Field, dy \in Field : d = Minus(Q.x, P.x) /\ dy = Minus(Q.y, P.y)
  BY <1>1, FieldClosed
<1>3. PICK A \in Field, dy2 \in Field : A = Square(d) /\ dy2 = Square(dy)
  BY FieldClosed
<1>4. PICK B \in Field, C \in Field : B = Mult(P.x, A) /\ C = Mult(Q.x, A)
  BY <1>1, FieldClosed
<1>5. PICK s \in Field, cb \in Field : s = Minus(dy2, B) /\ cb = Minus(C, B)
  BY FieldClosed
<1>6. PICK x3 \in Field, y1 \in Field : x3 = Minus(s, C) /\ y1 = Mult(P.y, cb)
  BY <1>1, FieldClosed
<1>7. PICK sub \in Field : sub = Minus(B, x3)
  BY FieldClosed
<1>8. PICK m \in Field : m = Mult(dy, sub)
  BY FieldClosed
<1>9. PICK y3 \in Field : y3 = Minus(m, y1)
  BY FieldClosed
<1>10. XYcZ_add(P, Q) = [p |-> [x |-> B, y |-> y1], q |-> [x |-> x3, y |-> y3], sub |-> sub]
  BY <1>2, <1>3, <1>4, <1>5, <1>6, <1>7, <1>8, <1>9, Zenon DEF XYcZ_add
<1> QED BY <1>10 DEF Pairs

\* ... the rounds
LEMMA RoundTyped ==
    ASSUME NEW acc \in Ladders, NEW scalar, NEW i
    PROVE  LadderRound(acc, scalar, i) \in Ladders
<1>1. PICK nb : nb = NotBit(scalar, i) /\ nb \in {0, 1} /\ 1 - nb \in {0, 1} /\ nb # 1 - nb
  BY DEF NotBit
<1>2. acc.R[nb] \in Pairs /\ acc.R[1 - nb] \in Pairs /\ acc.sub \in Field
  BY <1>1 DEF Ladders
<1>3. PICK r : r = XYcZ_addC(acc.R[1 - nb], acc.R[nb], acc.sub)
  OBVIOUS
<1>4. r.p \in Pairs /\ r.q \in Pairs
  BY <1>2, <1>3, AddCTyped
<1>5. PICK r2 : r2 = XYcZ_add(r.q, r.p)
  OBVIOUS
<1>6. r2.p \in Pairs /\ r2.q \in Pairs /\ r2.sub \in Field
  BY <1>4, <1>5, AddTyped
<1>7. AddC(acc.R, nb, acc.sub) = [j \in {0, 1} |-> IF j = nb THEN r.q ELSE r.p]
  BY <1>3 DEF AddC
<1>8. Add(AddC(acc.R, nb, acc.sub), nb)
        = [R |-> [j \in {0, 1} |-> IF j = nb THEN r2.p ELSE r2.q], sub |-> r2.sub]
  BY <1>1, <1>5, <1>7 DEF Add
<1>9. LadderRound(acc, scalar, i) = [R |-> [j \in {0, 1} |-> IF j = nb THEN r2.p ELSE r2.q], sub |-> r2.sub]
  BY <1>1, <1>8 DEF LadderRound
<1> QED BY <1>6, <1>9 DEF Ladders

\* ... and the initial doubling.
LEMMA StartTyped ==
    ASSUME NEW P \in Pairs, NEW z \in Field
    PROVE  [R |-> XYcZ_initial_double(P, z),
            sub |-> Minus(XYcZ_initial_double(P, z)[0].x, XYcZ_initial_double(P, z)[1].x)] \in Ladders
<1>1. ASSUME NEW Q \in Pairs, NEW w \in Field PROVE ApplyZ(Q, w) \in Pairs
  <2>1. Q.x \in Field /\ Q.y \in Field
    BY DEF Pairs
  <2>2. Square(w) \in Field
    BY FieldClosed
  <2>3. Mult(Square(w), w) \in Field
    BY <2>2, FieldClosed
  <2>4. Mult(Q.x, Square(w)) \in Field /\ Mult(Q.y, Mult(Square(w), w)) \in Field
    BY <2>1, <2>2, <2>3, FieldClosed
  <2> QED BY <2>4 DEF ApplyZ, Pairs
<1>2. PICK A \in Pairs : A = ApplyZ(P, z)
  BY <1>1
<1>3. DoubleJacobian(A, z).point \in Pairs /\ DoubleJacobian(A, z).z \in Field
  <2>1. A.x \in Field /\ A.y \in Field
    BY DEF Pairs
  <2>2. PICK y2 \in Field, z2 \in Field : y2 = Square(A.y) /\ z2 = Square(z)
    BY <2>1, FieldClosed
  <2>3. PICK k \in Field, up \in Field, dn \in Field, y4 \in Field, zz \in Field :
          /\ k = Mult(A.x, y2) /\ up = Plus(A.x, z2) /\ dn = Minus(A.x, z2)
          /\ y4 = Square(y2) /\ zz = Mult(A.y, z)
    BY <2>1, FieldClosed
  <2>4. PICK ud \in Field : ud = Mult(up, dn)
    BY FieldClosed
  <2>5. PICK t \in Field : t = Mult(3, ud)
    <3>1. 3 * ud \in Int
      BY FieldPrime
    <3>2. (3 * ud) % p \in 0..(p - 1)
      BY <3>1, CongMod, FieldPrime
    <3> QED BY <3>2 DEF Mult, Field
  <2>6. PICK B \in Field : B = Half(t)
    BY HalfIs
  <2>7. PICK B2 \in Field : B2 = Square(B)
    BY FieldClosed
  <2>8. PICK u \in Field : u = Minus(B2, k)
    BY FieldClosed
  <2>9. PICK x3 \in Field : x3 = Minus(u, k)
    BY FieldClosed
  <2>10. PICK v \in Field : v = Minus(k, x3)
    BY FieldClosed
  <2>11. PICK bv \in Field : bv = Mult(B, v)
    BY FieldClosed
  <2>12. PICK y3 \in Field : y3 = Minus(bv, y4)
    BY FieldClosed
  <2>13. DoubleJacobian(A, z) = [point |-> [x |-> x3, y |-> y3], z |-> zz]
    BY <2>2, <2>3, <2>4, <2>5, <2>6, <2>7, <2>8, <2>9, <2>10, <2>11, <2>12, Zenon DEF DoubleJacobian
  <2> QED BY <2>13 DEF Pairs
<1>4. PICK d : d = DoubleJacobian(A, z)
  OBVIOUS
<1>5. ApplyZ(P, d.z) \in Pairs
  BY <1>1, <1>3, <1>4
<1>6. XYcZ_initial_double(P, z) = [i \in {0, 1} |-> IF i = 1 THEN d.point ELSE ApplyZ(P, d.z)]
  BY <1>2, <1>4 DEF XYcZ_initial_double
<1>7. XYcZ_initial_double(P, z) \in [{0, 1} -> Pairs]
  BY <1>3, <1>4, <1>5, <1>6
<1>8. PICK h \in [{0, 1} -> Pairs] : h = XYcZ_initial_double(P, z)
  BY <1>7
<1>9. h[0].x \in Field /\ h[1].x \in Field
  <2>1. h[0] \in Pairs /\ h[1] \in Pairs
    OBVIOUS
  <2> QED BY <2>1 DEF Pairs
<1>10. Minus(h[0].x, h[1].x) \in Field
  BY <1>9, FieldClosed
<1> QED BY <1>8, <1>10 DEF Ladders

\* The states of the ladder from start on, one for each bit done.
Climbs(f, start, scalar, num_bits) ==
    /\ f \in [0..(num_bits - 2) -> Ladders] /\ f[0] = start
    /\ \A k \in 1..(num_bits - 2) : f[k] = LadderRound(f[k - 1], scalar, num_bits - 1 - k)

\* EccPoint_mult goes through such states, and finishes with the last one.
LEMMA MultSteps ==
    ASSUME NEW P \in Pairs, NEW z \in Field, NEW scalar, NEW num_bits \in Nat, num_bits >= 2,
           NEW pair, pair = XYcZ_initial_double(P, z),
           NEW start, start = [R |-> pair, sub |-> Minus(pair[0].x, pair[1].x)]
    PROVE  \E f : /\ Climbs(f, start, scalar, num_bits)
                  /\ EccPoint_mult(P, scalar, z, num_bits)
                       = Finish(f[num_bits - 2], NotBit(scalar, 0), P)
<1> DEFINE len == num_bits - 2
           step == [c \in (1..len) \X Ladders |-> LadderRound(c[2], scalar, num_bits - 1 - c[1])]
           first == [R |-> XYcZ_initial_double(P, z),
                     sub |-> Minus(XYcZ_initial_double(P, z)[0].x, XYcZ_initial_double(P, z)[1].x)]
           Eqn(f) == f = [k \in 0..(num_bits - 2) |->
                            IF k = 0 THEN first ELSE LadderRound(f[k - 1], scalar, num_bits - 1 - k)]
<1>0. first = start
  OBVIOUS
<1>1. len \in Nat /\ start \in Ladders
  BY StartTyped
<1>2. step \in [(1..len) \X Ladders -> Ladders]
  <2>1. \A c \in (1..len) \X Ladders : LadderRound(c[2], scalar, num_bits - 1 - c[1]) \in Ladders
    BY RoundTyped
  <2> QED BY <2>1
<1>3. PICK f : Follows(f, Ladders, start, step, len)
  <2> HIDE DEF step, len
  <2> QED BY <1>1, <1>2, RecursionUpTo
<1>4. ASSUME NEW k \in 1..len PROVE f[k] = LadderRound(f[k - 1], scalar, num_bits - 1 - k)
  <2>1. f[k] = step[<<k, f[k - 1]>>]
    BY <1>3 DEF Follows
  <2>2. f[k - 1] \in Ladders
    <3>1. f \in [0..len -> Ladders] /\ k - 1 \in 0..len
      BY <1>1, <1>3 DEF Follows
    <3> HIDE DEF len
    <3> QED BY <3>1
  <2>3. <<k, f[k - 1]>> \in (1..len) \X Ladders
    BY <2>2
  <2>4. step[<<k, f[k - 1]>>] = LadderRound(f[k - 1], scalar, num_bits - 1 - k)
    BY <2>3
  <2> QED BY <2>1, <2>4
<1>5. Climbs(f, start, scalar, num_bits)
  BY <1>3, <1>4 DEF Climbs, Follows
<1> HIDE DEF step, first
<1>6. Eqn(f)
  <2>1. \A k \in 0..len : f[k] = IF k = 0 THEN start ELSE LadderRound(f[k - 1], scalar, num_bits - 1 - k)
    <3>1. \A k \in 0..len : k = 0 \/ k \in 1..len
      BY <1>1
    <3> QED BY <1>0, <1>4, <1>3, <3>1 DEF Follows
  <2>2. f = [k \in 0..len |-> f[k]]
    BY <1>3 DEF Follows
  <2> QED BY <1>0, <2>1, <2>2
<1>7. ASSUME NEW g, Eqn(g) PROVE \A k \in 0..len : g[k] = f[k]
  <2>1. /\ g[0] = start
        /\ \A k \in 1..len : g[k] = LadderRound(g[k - 1], scalar, num_bits - 1 - k)
    <3>1. 0 \in 0..len /\ \A k \in 1..len : k \in 0..len /\ k # 0
      BY <1>1
    <3> QED BY <1>0, <1>7, <3>1
  <2> DEFINE T == {k \in 0..len : g[k] # f[k]}
  <2> SUFFICES ASSUME T # {} PROVE FALSE
    OBVIOUS
  <2>2. PICK k \in T : \A j \in T : k <= j
    <3>1. T \in SUBSET Nat
      BY <1>1
    <3> HIDE DEF T
    <3> QED BY <3>1, LeastOf
  <2>3. k # 0
    BY <1>3, <2>1 DEF Follows
  <2>4. k \in 1..len /\ k - 1 \in 0..len /\ k - 1 \notin T
    BY <1>1, <2>2, <2>3
  <2>5. g[k - 1] = f[k - 1]
    BY <2>4
  <2>6. g[k] = LadderRound(g[k - 1], scalar, num_bits - 1 - k) /\ f[k] = LadderRound(f[k - 1], scalar, num_bits - 1 - k)
    BY <1>4, <2>1, <2>4
  <2> QED BY <2>5, <2>6
<1>8. PICK g : Eqn(g) /\ g = CHOOSE h : Eqn(h)
  <2> HIDE DEF Eqn
  <2> QED BY <1>6, Zenon
<1> USE DEF first
<1>9. EccPoint_mult(P, scalar, z, num_bits)
        = Finish((CHOOSE h : Eqn(h))[num_bits - 2], NotBit(scalar, 0), P)
  BY Zenon DEF EccPoint_mult, Finish, LastInverse
<1> HIDE DEF first
<1>10. g[num_bits - 2] = f[num_bits - 2]
  <2>1. len \in 0..len
    BY <1>1
  <2>2. \A k \in 0..len : g[k] = f[k]
    <3>1. Eqn(g)
      BY <1>8
    <3> HIDE DEF Eqn
    <3> QED BY <1>7, <3>1
  <2> QED BY <2>1, <2>2
<1>11. EccPoint_mult(P, scalar, z, num_bits) = Finish(f[num_bits - 2], NotBit(scalar, 0), P)
  <2> HIDE DEF Eqn
  <2> QED BY <1>8, <1>9, <1>10, Zenon
<1> QED BY <1>5, <1>11

------------------------------------------------------------------------------
(* The bits of the scalar *)

\* The words have the bits of s, up to bit len.
HasBits(scalar, s, len) ==
    \A i \in 0..len : VliTestBit(scalar, i) <=> ((s \div Pow2[i]) % 2) = 1

\* One more bit of the scalar.
LEMMA NextBit ==
    ASSUME NEW scalar, NEW s \in Nat, NEW len \in Nat, HasBits(scalar, s, len), NEW i \in 0..len
    PROVE  /\ NotBit(scalar, i) \in {0, 1} /\ s \div Pow2[i + 1] \in Nat
           /\ s \div Pow2[i] = 2 * (s \div Pow2[i + 1]) + 1 - NotBit(scalar, i)
<1>1. PICK q \in Nat, h \in Nat, d \in {0, 1} :
         q = s \div Pow2[i] /\ h = s \div Pow2[i + 1] /\ d = (q % 2) /\ q = 2 * h + d
  <2>1. i \in Nat
    OBVIOUS
  <2>2. /\ s \div Pow2[i] \in Nat /\ s \div Pow2[i + 1] \in Nat
        /\ s \div Pow2[i] = 2 * (s \div Pow2[i + 1]) + ((s \div Pow2[i]) % 2)
        /\ ((s \div Pow2[i]) % 2) \in {0, 1}
    BY <2>1, Shifted, Zenon
  <2>3. PICK q, h : q = s \div Pow2[i] /\ h = s \div Pow2[i + 1]
    OBVIOUS
  <2> QED BY <2>2, <2>3
<1>2. VliTestBit(scalar, i) <=> d = 1
  BY <1>1 DEF HasBits
<1>3. NotBit(scalar, i) = 1 - d
  BY <1>2 DEF NotBit
<1> QED BY <1>1, <1>3

\* What lies between multiples of n is none.
LEMMA BetweenMultiples ==
    ASSUME NEW x \in Int
    PROVE  /\ 0 < x /\ x < n => ~Cong(x, 0, n)
           /\ n < x /\ x < 2 * n => ~Cong(x, 0, n)
           /\ 2 * n < x /\ x < 3 * n => ~Cong(x, 0, n)
           /\ Cong(n, 0, n) /\ Cong(x + n, x, n) /\ Cong(x + 2 * n, x, n)
BY OrderPrime, NotMultiples

\* The length of the order.
LEMMA OrderBits ==
    /\ num_n_bits \in Nat /\ num_n_bits >= 3
    /\ Pow2[num_n_bits] = 2 * Pow2[num_n_bits - 1] /\ Pow2[num_n_bits - 1] \in Nat \ {0}
    /\ Pow2[num_n_bits] \in Nat \ {0} /\ Pow2[num_n_bits - 1] <= n /\ n < Pow2[num_n_bits]
<1>1. /\ num_n_bits \in Nat \ {0} /\ n \in Pow2[num_n_bits - 1]..(Pow2[num_n_bits] - 1)
      /\ n \in Nat /\ n > 3
  BY MicroEccAssumption, OrderPrime
<1>2. /\ Pow2[num_n_bits] = 2 * Pow2[num_n_bits - 1] /\ Pow2[num_n_bits - 1] \in Nat \ {0}
      /\ Pow2[num_n_bits] \in Nat \ {0}
  <2>1. num_n_bits - 1 \in Nat
    BY <1>1
  <2> QED BY <1>1, <2>1, PowersOfTwo
<1>3. num_n_bits >= 3
  <2> SUFFICES ASSUME num_n_bits \in {1, 2} PROVE FALSE
    BY <1>1
  <2>1. Pow2[1] = 2 * Pow2[1 - 1] /\ Pow2[2] = 2 * Pow2[2 - 1]
    BY PowersOfTwo
  <2>2. 1 - 1 = 0 /\ 2 - 1 = 1 /\ Pow2[0] = 1
    BY PowersOfTwo
  <2>3. Pow2[1] = 2 /\ Pow2[2] = 4
    BY <2>1, <2>2
  <2> QED BY <1>1, <2>3
<1> QED BY <1>1, <1>2, <1>3

\* The bits above bit i, for a number that begins like Pow2[len].
HighPart(s, len, k) == s \div Pow2[len - k]

\* Before its last two rounds, the ladder is at the bits done.
LEMMA ClimbsAt ==
    ASSUME NEW m \in 1..(n - 1), NEW scalar, NEW s \in Nat, HasBits(scalar, s, num_n_bits - 1),
           Pow2[num_n_bits] <= s, s < 2 * Pow2[num_n_bits],
           NEW f, NEW start, Climbs(f, start, scalar, num_n_bits + 1), LadderAt(start, 1, m)
    PROVE  \A k \in 0..(num_n_bits - 2) : LadderAt(f[k], HighPart(s, num_n_bits, k), m)
<1> DEFINE N == num_n_bits
           T == {k \in 0..(N - 2) : ~LadderAt(f[k], HighPart(s, N, k), m)}
<1> SUFFICES ASSUME T # {} PROVE FALSE
  OBVIOUS
<1>1. N \in Nat /\ N >= 3 /\ Pow2[N - 1] <= n
  BY OrderBits
<1>2. PICK k \in T : \A j \in T : k <= j
  <2>1. T \in SUBSET Nat
    BY <1>1
  <2> HIDE DEF T
  <2> QED BY <2>1, LeastOf
<1>3. k # 0
  <2>1. f[0] = start
    BY DEF Climbs
  <2>2. HighPart(s, N, 0) = 1
    <3>1. N \in 0..N /\ N - 0 = N /\ N - N = 0
      BY <1>1
    <3>2. Pow2[0] <= s \div Pow2[N] /\ s \div Pow2[N] < 2 * Pow2[0] /\ s \div Pow2[N] \in Nat
      BY <1>1, <3>1, TopBits
    <3>3. Pow2[0] = 1
      BY PowersOfTwo
    <3>4. s \div Pow2[N] = 1
      BY <3>2, <3>3
    <3> QED BY <3>1, <3>4 DEF HighPart
  <2>3. LadderAt(f[0], HighPart(s, N, 0), m)
    BY <2>1, <2>2
  <2> QED BY <1>2, <2>3
<1>4. k \in 1..(N - 2) /\ k - 1 \in 0..(N - 2) /\ k - 1 \notin T
  BY <1>1, <1>2, <1>3
<1>5. PICK a, c : a = HighPart(s, N, k - 1) /\ c = HighPart(s, N, k)
  OBVIOUS
<1>6. LadderAt(f[k - 1], a, m)
  BY <1>4, <1>5
<1>7. PICK nb \in {0, 1} : nb = NotBit(scalar, N - k) /\ c = 2 * a + 1 - nb /\ a \in Nat
  <2>1. N - 1 \in Nat /\ N - k \in 0..(N - 1) /\ (N - k) + 1 = N - (k - 1)
    BY <1>1, <1>4
  <2>2. /\ NotBit(scalar, N - k) \in {0, 1} /\ s \div Pow2[(N - k) + 1] \in Nat
        /\ s \div Pow2[N - k] = 2 * (s \div Pow2[(N - k) + 1]) + 1 - NotBit(scalar, N - k)
    BY <1>1, <2>1, NextBit
  <2>3. a = s \div Pow2[(N - k) + 1] /\ c = s \div Pow2[N - k]
    BY <1>5, <2>1 DEF HighPart
  <2> QED BY <2>2, <2>3
<1>8. ~Cong(2 * a + 1, 0, n)
  <2>1. N - (k - 1) \in 0..N /\ N - (N - (k - 1)) = k - 1
    BY <1>1, <1>4
  <2>2. s \div Pow2[N - (k - 1)] < 2 * Pow2[k - 1] /\ Pow2[k - 1] \in Nat
    BY <1>1, <2>1, TopBits
  <2>3. a < 2 * Pow2[k - 1]
    BY <1>5, <2>2 DEF HighPart
  <2>4. Pow2[k] = 2 * Pow2[k - 1] /\ Pow2[k + 1] = 2 * Pow2[k] /\ Pow2[k + 1] \in Nat
    <3>1. k \in Nat \ {0} /\ k + 1 \in Nat \ {0} /\ (k + 1) - 1 = k
      BY <1>1, <1>4
    <3> QED BY <3>1, PowersOfTwo
  <2>5. Pow2[k + 1] <= Pow2[N - 1]
    <3>1. PICK j \in Nat : j = (N - 1) - (k + 1) /\ (k + 1) + j = N - 1
      BY <1>1, <1>4
    <3>2. k + 1 \in Nat
      BY <1>1, <1>4
    <3>3. PICK x \in Nat \ {0}, y \in Nat \ {0} : x = Pow2[k + 1] /\ y = Pow2[j]
      BY <3>2, PowersOfTwo
    <3>4. Pow2[(k + 1) + j] = x * y
      BY <3>2, <3>3, PowersAdd
    <3>5. x * 1 <= x * y
      <4>1. 1 * x <= y * x
        BY ProductsGrow
      <4> QED BY <4>1
    <3> QED BY <3>1, <3>3, <3>4, <3>5
  <2>6. 2 * a + 1 \in Int /\ 0 < 2 * a + 1 /\ 2 * a + 1 < n
    <3>1. n \in Nat /\ Pow2[N - 1] \in Nat
      BY OrderPrime, OrderBits
    <3> HIDE DEF N
    <3> QED BY <1>1, <1>7, <2>2, <2>3, <2>4, <2>5, <3>1
  <2> QED BY <2>6, BetweenMultiples
<1>9. f[k] = Add(AddC(f[k - 1].R, nb, f[k - 1].sub), nb)
  <2>1. k \in 1..((N + 1) - 2) /\ (N + 1) - 1 - k = N - k
    BY <1>1, <1>4
  <2>2. f[k] = LadderRound(f[k - 1], scalar, N - k)
    BY <2>1 DEF Climbs
  <2> QED BY <1>7, <2>2 DEF LadderRound
<1>10. LadderAt(f[k], 2 * a + 1 - nb, m)
  BY <1>6, <1>8, <1>9, LadderRoundAt
<1> QED BY <1>2, <1>5, <1>7, <1>10

\* The ladder meets its exception where the sum of its registers, without the
\* scalar's last two bits, is infinity.
Exceptional(s) == 2 * (s \div 4) + 1 = n

\* The whole multiplication, from the bits of the scalar: the rounds keep
\* LadderAt, up to the exception if there is one, and LadderLost from there on.
LEMMA LadderValue ==
    ASSUME NEW m \in 1..(n - 1), NEW P, P = Multiples[m], NEW z \in Field, z # 0,
           NEW scalar, NEW s \in Nat, HasBits(scalar, s, num_n_bits - 1),
           Pow2[num_n_bits] <= s, s < 2 * Pow2[num_n_bits], s <= 3 * n - 2
    PROVE  EccPoint_mult(P, scalar, z, num_n_bits + 1)
             = IF Exceptional(s) \/ P.x = 0 THEN Zero ELSE M(s, m)
<1> DEFINE N == num_n_bits
<1>1. N \in Nat /\ N >= 3 /\ Pow2[N - 1] <= n /\ n < Pow2[N] /\ Pow2[N] = 2 * Pow2[N - 1]
  BY OrderBits
<1>2. P \in Pairs /\ P.x \in Field /\ P.y \in Field
  <2>1. P.x \in Field /\ P.y \in Field /\ P = [x |-> P.x, y |-> P.y]
    BY PointFields
  <2> QED BY <2>1 DEF Pairs
<1>3. PICK pair, start : pair = XYcZ_initial_double(P, z)
                          /\ start = [R |-> pair, sub |-> Minus(pair[0].x, pair[1].x)]
  OBVIOUS
<1>4. PICK f : /\ Climbs(f, start, scalar, N + 1)
               /\ EccPoint_mult(P, scalar, z, N + 1) = Finish(f[(N + 1) - 2], NotBit(scalar, 0), P)
  <2>1. N + 1 \in Nat /\ N + 1 >= 2
    BY <1>1
  <2> HIDE DEF N
  <2> QED BY <1>2, <1>3, <2>1, MultSteps
<1>5. LadderAt(start, 1, m)
  <2>1. P = M(1, m)
    BY Unit
  <2> QED BY <1>3, <2>1, LadderStart
<1>6. \A k \in 0..(N - 2) : LadderAt(f[k], HighPart(s, N, k), m)
  BY <1>4, <1>5, ClimbsAt
<1>7. Pow2[0] = 1 /\ Pow2[1] = 2 /\ Pow2[2] = 4
  <2>1. Pow2[1] = 2 * Pow2[1 - 1] /\ Pow2[2] = 2 * Pow2[2 - 1] /\ Pow2[0] = 1
    BY PowersOfTwo
  <2>2. 1 - 1 = 0 /\ 2 - 1 = 1
    OBVIOUS
  <2> QED BY <2>1, <2>2
<1>8. PICK q \in Nat, h \in Nat, n1 \in {0, 1}, n0 \in {0, 1} :
         /\ q = s \div 4 /\ h = 2 * q + 1 - n1 /\ s = 2 * h + 1 - n0
         /\ n1 = NotBit(scalar, 1) /\ n0 = NotBit(scalar, 0)
  <2>1. N - 1 \in Nat /\ 0 \in 0..(N - 1) /\ 1 \in 0..(N - 1) /\ 0 + 1 = 1 /\ 1 + 1 = 2
    BY <1>1
  <2>2. /\ NotBit(scalar, 1) \in {0, 1} /\ s \div Pow2[1 + 1] \in Nat
        /\ s \div Pow2[1] = 2 * (s \div Pow2[1 + 1]) + 1 - NotBit(scalar, 1)
    BY <1>1, <2>1, NextBit
  <2>3. /\ NotBit(scalar, 0) \in {0, 1} /\ s \div Pow2[0 + 1] \in Nat
        /\ s \div Pow2[0] = 2 * (s \div Pow2[0 + 1]) + 1 - NotBit(scalar, 0)
    BY <1>1, <2>1, NextBit
  <2>4. s \div 1 = s
    OBVIOUS
  <2>5. PICK q, h : q = s \div 4 /\ h = s \div 2
    OBVIOUS
  <2>6. q \in Nat /\ h = 2 * q + 1 - NotBit(scalar, 1)
    BY <1>7, <2>1, <2>2, <2>5
  <2>7. h \in Nat /\ s = 2 * h + 1 - NotBit(scalar, 0)
    BY <1>7, <2>1, <2>3, <2>4, <2>5
  <2> QED BY <2>2, <2>3, <2>5, <2>6, <2>7
<1>9. LadderAt(f[N - 2], q, m)
  <2>1. N - 2 \in 0..(N - 2) /\ N - (N - 2) = 2
    BY <1>1
  <2>2. HighPart(s, N, N - 2) = q
    BY <1>7, <1>8, <2>1 DEF HighPart
  <2> QED BY <1>6, <2>1, <2>2
<1>10. f[N - 1] = Add(AddC(f[N - 2].R, n1, f[N - 2].sub), n1)
  <2>1. N - 1 \in 1..((N + 1) - 2) /\ (N + 1) - 1 - (N - 1) = 1 /\ (N - 1) - 1 = N - 2
    BY <1>1
  <2>2. f[N - 1] = LadderRound(f[(N - 1) - 1], scalar, (N + 1) - 1 - (N - 1))
    BY <1>4, <2>1 DEF Climbs
  <2>3. f[N - 1] = LadderRound(f[N - 2], scalar, 1)
    BY <2>1, <2>2
  <2> QED BY <1>8, <2>3 DEF LadderRound
<1>11. PICK last : last = f[N - 1]
  OBVIOUS
<1>14. EccPoint_mult(P, scalar, z, N + 1) = Finish(last, n0, P)
  <2>1. (N + 1) - 2 = N - 1
    BY <1>1
  <2> QED BY <1>4, <1>8, <1>11, <2>1
<1>15. n \in Nat /\ n > 3
  BY OrderPrime
<1>16. 2 * q + 1 < 2 * n /\ 2 * q + 1 > 0
  <2>1. s < 4 * Pow2[N - 1] /\ Pow2[N - 1] \in Nat
    BY <1>1, OrderBits
  <2>2. 4 * q <= s
    BY <1>8
  <2> QED BY <1>1, <1>15, <2>1, <2>2
<1>17. CASE Exceptional(s)
  <2>1. 2 * q + 1 = n /\ Cong(2 * q + 1, 0, n)
    <3>1. 2 * q + 1 = n
      BY <1>8, <1>17 DEF Exceptional
    <3>2. Cong(n, 0, n)
      BY <1>15, BetweenMultiples
    <3> QED BY <3>1, <3>2
  <2>2. LadderLost(last)
    BY <1>9, <1>10, <1>11, <2>1, StuckRound
  <2>3. Finish(last, n0, P) = Zero
    BY <1>2, <2>2, LostEnd
  <2> QED BY <1>14, <1>17, <2>3
<1>18. CASE ~Exceptional(s)
  <2>1. ~Cong(2 * q + 1, 0, n)
    <3>1. 2 * q + 1 # n /\ 2 * q + 1 \in Int
      BY <1>8, <1>18 DEF Exceptional
    <3>2. 2 * q + 1 < n \/ (n < 2 * q + 1 /\ 2 * q + 1 < 2 * n)
      BY <1>15, <1>16, <3>1
    <3> QED BY <1>16, <3>1, <3>2, BetweenMultiples
  <2>2. PICK next : next = Add(AddC(f[N - 2].R, n1, f[N - 2].sub), n1)
    OBVIOUS
  <2>3. LadderAt(next, 2 * q + 1 - n1, m)
    BY <1>9, <2>1, <2>2, LadderRoundAt
  <2>4. LadderAt(last, h, m)
    BY <1>8, <1>10, <1>11, <2>2, <2>3
  <2>5. ~Cong(2 * h + 1, 0, n)
    <3>1. n < 2 * h + 1
      BY <1>1, <1>8, <1>15, OrderBits
    <3>2. 2 * h + 1 < 3 * n /\ 2 * h + 1 # 2 * n /\ 2 * h + 1 \in Int
      BY <1>8, <1>15
    <3>3. (2 * h + 1 < 2 * n) \/ (2 * n < 2 * h + 1)
      BY <1>15, <3>2
    <3> QED BY <3>1, <3>2, <3>3, BetweenMultiples
  <2>6. Finish(last, n0, P) = IF P.x = 0 THEN Zero ELSE M(2 * h + 1 - n0, m)
    BY <2>4, <2>5, LadderEnd
  <2> QED BY <1>8, <1>14, <1>18, <2>6
<1> QED BY <1>17, <1>18

------------------------------------------------------------------------------
(* Words, numbers and bits *)

\* A word of a VLI is a digit of the number.
LEMMA WordOf ==
    ASSUME NEW v \in Seq(Word), NEW k \in 1..Len(v)
    PROVE  v[k] \in Word /\ ((Val(v) \div Weight(k - 1)) % W) = v[k]
<1>1. Len(v) \in Nat /\ k - 1 \in 0..Len(v) /\ (k - 1) + 1 = k /\ k - 1 \in Nat /\ v[k] \in Word
  <2>1. Len(v) \in Nat
    BY LenProperties
  <2> QED BY <2>1, ElementOfSeq
<1>2. PICK lo, hi : lo = SubSeq(v, 1, k - 1) /\ hi = SubSeq(v, k, Len(v))
  OBVIOUS
<1>3. /\ lo \in Seq(Word) /\ Len(lo) = k - 1 /\ hi \in Seq(Word) /\ Len(hi) = Len(v) - (k - 1)
      /\ Val(v) = Val(lo) + Weight(k - 1) * Val(hi)
  BY <1>1, <1>2, SplitValue
<1>4. PICK first, rest : first = SubSeq(hi, 1, 1) /\ rest = SubSeq(hi, 2, Len(hi))
  OBVIOUS
<1>5. /\ first \in Seq(Word) /\ Len(first) = 1 /\ rest \in Seq(Word)
      /\ Val(hi) = Val(first) + Weight(1) * Val(rest)
  <2>1. 1 \in 0..Len(hi) /\ 1 + 1 = 2
    BY <1>1, <1>3
  <2> QED BY <1>3, <1>4, <2>1, SplitValue
<1>6. Val(first) = v[k]
  <2>1. hi[1] = v[k]
    <3>1. k \in 1..(Len(v) + 1) /\ Len(v) \in (k - 1)..Len(v) /\ 1 \in 1..(Len(v) - k + 1) /\ k + 1 - 1 = k
      BY <1>1
    <3>2. \A i \in 1..(Len(v) - k + 1) : SubSeq(v, k, Len(v))[i] = v[k + i - 1]
      BY <3>1, PartOf
    <3> QED BY <1>2, <3>1, <3>2
  <2>2. first[1] = hi[1]
    <3>1. 1 \in 1..(Len(hi) + 1) /\ 1 \in (1 - 1)..Len(hi) /\ 1 \in 1..(1 - 1 + 1) /\ 1 + 1 - 1 = 1
      BY <1>1, <1>3
    <3>2. \A i \in 1..(1 - 1 + 1) : SubSeq(hi, 1, 1)[i] = hi[1 + i - 1]
      BY <1>3, <3>1, PartOf
    <3> QED BY <1>4, <3>1, <3>2
  <2> QED BY <1>5, <2>1, <2>2, OneWord
<1>7. PICK m \in Nat \ {0}, l \in Nat, h \in Nat, d \in Nat, r \in Nat :
         /\ m = Weight(k - 1) /\ l = Val(lo) /\ h = Val(hi) /\ d = v[k] /\ r = Val(rest)
         /\ l < m /\ d < W /\ h = d + W * r /\ Val(v) = l + m * h
  <2>1. Weight(k - 1) \in Nat \ {0} /\ Weight(0 + 1) = W * Weight(0) /\ Weight(0) = 1
    BY <1>1, Weights
  <2>2. Weight(1) = W /\ W \in Nat
    BY <2>1, WordSizes
  <2>3. Val(lo) \in Nat /\ Val(lo) < Weight(k - 1) /\ Val(hi) \in Nat /\ Val(rest) \in Nat
    BY <1>3, <1>5, UptoBound
  <2>4. v[k] \in Nat /\ v[k] < W
    BY <1>1, <2>2 DEF Word
  <2> QED BY <1>3, <1>5, <1>6, <2>1, <2>2, <2>3, <2>4
<1>8. Val(v) \div m = h
  <2>1. (h * m + l) \div m = h
    BY <1>7, Division, ZenonT(60)
  <2>2. l + m * h = h * m + l
    BY <1>7
  <2> QED BY <1>7, <2>1, <2>2
<1>9. (h % W) = d
  <2>1. PICK w \in Nat : w = W /\ d < w /\ h = d + w * r
    BY <1>7, WordSizes
  <2>2. ((r * w + d) % w) = d
    BY <2>1, Division
  <2>3. d + w * r = r * w + d
    BY <1>7, SMTT(40)
  <2> QED BY <2>1, <2>2, <2>3
<1> QED BY <1>1, <1>7, <1>8, <1>9

\* The digits of the number are the words.
LEMMA DigitsOf ==
    ASSUME NEW v \in Seq(Word)
    PROVE  Digits(Len(v), Val(v)) = v
<1>1. Digits(Len(v), Val(v)) = [i \in 1..Len(v) |-> v[i]]
  BY WordOf DEF Digits
<1>2. v = [i \in 1..Len(v) |-> v[i]]
  <2>1. Len(v) \in Nat /\ v \in [1..Len(v) -> Word]
    BY LenProperties
  <2> QED BY <2>1
<1> QED BY <1>1, <1>2

\* Bits of the words are bits of the number.
LEMMA BitsOf ==
    ASSUME NEW v \in Seq(Word), NEW i \in Nat, i < WordBits * Len(v)
    PROVE  VliTestBit(v, i) <=> ((Val(v) \div Pow2[i]) % 2) = 1
<1>1. WordBits \in Nat \ {0} /\ Len(v) \in Nat
  BY VliAssumption, LenProperties
<1>2. PICK w \in Nat, t \in Nat : w = i \div WordBits /\ t = (i % WordBits) /\ t < WordBits /\ i = w * WordBits + t
  BY <1>1, Divided
<1>3. w + 1 \in 1..Len(v)
  <2> SUFFICES ASSUME Len(v) <= w PROVE FALSE
    BY <1>1
  <2>1. Len(v) * WordBits <= w * WordBits
    BY <1>1, ProductsGrow
  <2>2. Len(v) * WordBits = WordBits * Len(v) /\ Len(v) * WordBits \in Nat /\ w * WordBits \in Nat
    BY <1>1
  <2> QED BY <1>2, <2>1, <2>2
<1>4. PICK Q \in Nat, x \in Nat : Q = Val(v) \div Weight(w) /\ x = v[w + 1] /\ x = (Q % W)
  <2>1. (w + 1) - 1 = w
    BY <1>2
  <2>2. v[w + 1] \in Word /\ ((Val(v) \div Weight(w)) % W) = v[w + 1]
    BY <1>3, <2>1, WordOf
  <2>3. Val(v) \in Nat /\ Weight(w) \in Nat \ {0}
    BY UptoBound, Weights
  <2>4. Val(v) \div Weight(w) \in Nat
    BY <2>3, Divided
  <2>5. v[w + 1] \in Nat
    BY <2>2, WordSizes DEF Word
  <2> QED BY <2>2, <2>4, <2>5
<1>5. PICK c \in Nat : Q = x + c * W
  <2>1. W \in Nat \ {0}
    BY WordSizes
  <2>2. Q \div W \in Nat /\ Q = (Q \div W) * W + (Q % W)
    BY <2>1, Divided
  <2>3. PICK c \in Nat : c = Q \div W /\ Q = c * W + x
    BY <1>4, <2>2
  <2>4. c * W \in Nat
    BY <2>1
  <2> QED BY <2>3, <2>4
<1>6. ((Q \div Pow2[t]) % 2) = ((x \div Pow2[t]) % 2)
  <2>1. PICK bits \in Nat : bits = WordBits /\ t < bits
    BY <1>1, <1>2
  <2>2. (((x + c * Pow2[bits]) \div Pow2[t]) % 2) = ((x \div Pow2[t]) % 2)
    BY <2>1, SameLowBits
  <2> QED BY <1>5, <2>1, <2>2 DEF W
<1>7. Val(v) \div Pow2[i] = Q \div Pow2[t]
  <2>1. PICK y \in Nat, m \in Nat \ {0}, d \in Nat \ {0} : y = Val(v) /\ m = Weight(w) /\ d = Pow2[t]
    BY <1>2, UptoBound, Weights, PowersOfTwo
  <2>2. y \div (d * m) = (y \div m) \div d
    BY OneMoreDigit
  <2>3. Pow2[i] = d * m
    <3>1. PICK j \in Nat : j = WordBits * w /\ i = t + j
      <4>1. WordBits * w \in Nat /\ WordBits * w = w * WordBits
        BY <1>1
      <4> QED BY <1>2, <4>1
    <3>2. Pow2[t + j] = Pow2[t] * Pow2[j]
      BY PowersAdd
    <3> QED BY <2>1, <3>1, <3>2 DEF Weight
  <2> QED BY <1>4, <2>1, <2>2, <2>3
<1>8. VliTestBit(v, i) <=> ((x \div Pow2[t]) % 2) = 1
  BY <1>2, <1>4 DEF VliTestBit, BitOf
<1> QED BY <1>6, <1>7, <1>8

------------------------------------------------------------------------------
(* The private key as a scalar *)

\* The words of a scalar hold all bits of the order.
LEMMA OrderRoom ==
    /\ num_n_words \in Nat /\ num_n_bits <= WordBits * num_n_words /\ WordBits * num_n_words \in Nat
    /\ n < Weight(num_n_words) /\ Pow2[num_n_bits] <= Weight(num_n_words)
    /\ num_n_words * WordBits = WordBits * num_n_words
    /\ num_n_bits = WordBits * num_n_words => Weight(num_n_words) = Pow2[num_n_bits]
    /\ num_n_bits < WordBits * num_n_words => 2 * Pow2[num_n_bits] <= Weight(num_n_words)
<1>1. PICK wb \in Nat \ {0}, bits \in Nat : wb = WordBits /\ bits = num_n_bits
  BY VliAssumption, OrderBits
<1>2. PICK len \in Nat, r \in Nat : len = (bits + wb - 1) \div wb /\ r < wb /\ bits + wb - 1 = len * wb + r
  <2>1. PICK x \in Nat : x = bits + wb - 1
    BY <1>1
  <2>2. x \div wb \in Nat /\ (x % wb) \in Nat /\ (x % wb) < wb /\ x = (x \div wb) * wb + (x % wb)
    BY Divided
  <2> QED BY <2>1, <2>2
<1>3. len = num_n_words
  BY <1>1, <1>2 DEF num_n_words
<1>4. PICK top \in Nat : top = wb * len /\ top = len * wb /\ bits <= top
  <2>1. wb * len \in Nat /\ wb * len = len * wb
    OBVIOUS
  <2>2. PICK top \in Nat : top = len * wb
    OBVIOUS
  <2>3. bits <= top
    BY <1>1, <1>2, <2>2
  <2> QED BY <2>1, <2>2, <2>3
<1>5. PICK j \in Nat : bits + j = top
  BY <1>4
<1>6. PICK x \in Nat \ {0}, y \in Nat \ {0} : x = Pow2[bits] /\ y = Pow2[j] /\ Pow2[top] = y * x
  <2>1. Pow2[bits] \in Nat \ {0} /\ Pow2[j] \in Nat \ {0}
    BY PowersOfTwo
  <2>2. PICK x \in Nat \ {0}, y \in Nat \ {0} : x = Pow2[bits] /\ y = Pow2[j]
    BY <2>1
  <2>3. Pow2[bits + j] = x * y
    BY <2>2, PowersAdd
  <2>4. x * y = y * x
    OBVIOUS
  <2> QED BY <1>5, <2>2, <2>3, <2>4
<1>7. 1 * x <= y * x /\ 1 * x = x /\ y * x \in Nat
  BY ProductsGrow
<1>8. Weight(num_n_words) = Pow2[top]
  BY <1>1, <1>3, <1>4 DEF Weight
<1>9. ASSUME bits < top PROVE 2 * x <= y * x
  <2>1. y >= 2
    <3>1. j \in Nat \ {0} /\ j - 1 \in Nat
      BY <1>5, <1>9
    <3>2. Pow2[j] = 2 * Pow2[j - 1] /\ Pow2[j - 1] \in Nat \ {0}
      BY <3>1, PowersOfTwo
    <3> QED BY <1>6, <3>2
  <2> QED BY <2>1, ProductsGrow
<1>10. n < x /\ n \in Nat
  BY <1>1, <1>6, OrderBits, OrderPrime
<1> QED BY <1>1, <1>3, <1>4, <1>6, <1>7, <1>8, <1>9, <1>10

\* The number regularize_k makes of a key: the sum that has one bit more than
\* the order.
Regular(k) == IF k + n >= Pow2[num_n_bits] THEN k + n ELSE k + 2 * n

\* It is congruent to the key.
LEMMA RegularNumber ==
    ASSUME NEW k \in 1..(n - 1)
    PROVE  /\ Regular(k) \in Nat /\ Pow2[num_n_bits] <= Regular(k)
           /\ Regular(k) < 2 * Pow2[num_n_bits] /\ Regular(k) <= 3 * n - 2
           /\ Cong(Regular(k), k, n)
<1>1. PICK top \in Nat, half \in Nat : top = Pow2[num_n_bits] /\ half = Pow2[num_n_bits - 1]
                                       /\ top = 2 * half /\ half <= n /\ n < top
  BY OrderBits
<1>2. n \in Nat /\ n > 3 /\ (n % 2) = 1
  BY OrderPrime
<1>3. k \in Nat /\ k < n /\ k >= 1 /\ k \in Int
  BY <1>2
<1>4. Cong(k + n, k, n) /\ Cong(k + 2 * n, k, n)
  BY <1>3, BetweenMultiples
<1>5. CASE k + n >= top
  BY <1>1, <1>2, <1>3, <1>4, <1>5 DEF Regular
<1>6. CASE ~(k + n >= top)
  <2>1. Regular(k) = k + 2 * n
    BY <1>1, <1>6 DEF Regular
  <2>2. k + 2 * n <= 3 * n - 2
    <3>1. k # n - 1
      <4> SUFFICES ASSUME k = n - 1 PROVE FALSE
        OBVIOUS
      <4>1. 2 * n <= top
        BY <1>1, <1>2, <1>6
      <4>2. n = half
        BY <1>1, <1>2, <4>1
      <4>3. PICK bits \in Nat : bits = num_n_bits /\ bits >= 3
        BY OrderBits
      <4>4. bits - 1 \in Nat \ {0} /\ (bits - 1) - 1 \in Nat
        BY <4>3
      <4>5. PICK quarter \in Nat : half = 2 * quarter
        BY <1>1, <4>3, <4>4, PowersOfTwo
      <4> QED BY <1>2, <4>2, <4>5
    <3> QED BY <1>2, <1>3, <3>1
  <2> QED BY <1>1, <1>2, <1>3, <1>4, <1>6, <2>1, <2>2
<1> QED BY <1>1, <1>5, <1>6

\* Words that leave out multiples of their weight have the low bits.
LEMMA LowBits ==
    ASSUME NEW v \in Seq(Word), NEW s \in Nat, NEW c \in Nat, s = Val(v) + c * Weight(Len(v)),
           NEW len \in Nat, len < WordBits * Len(v)
    PROVE  HasBits(v, s, len)
<1> SUFFICES ASSUME NEW i \in 0..len
             PROVE  VliTestBit(v, i) <=> ((s \div Pow2[i]) % 2) = 1
  BY DEF HasBits
<1>1. PICK top \in Nat : top = WordBits * Len(v) /\ i < top
  <2>1. WordBits \in Nat /\ Len(v) \in Nat
    BY VliAssumption, LenProperties
  <2>2. WordBits * Len(v) \in Nat
    BY <2>1
  <2> QED BY <2>2
<1>2. PICK x \in Nat : x = Val(v) /\ s = x + c * Pow2[top]
  BY <1>1, UptoBound DEF Weight
<1>3. i \in Nat
  OBVIOUS
<1>4. (((x + c * Pow2[top]) \div Pow2[i]) % 2) = ((x \div Pow2[i]) % 2)
  BY <1>1, <1>3, SameLowBits
<1>5. VliTestBit(v, i) <=> ((x \div Pow2[i]) % 2) = 1
  BY <1>1, <1>2, <1>3, BitsOf
<1> QED BY <1>2, <1>4, <1>5

\* What regularize_k leaves in the words.
LEMMA RegularWords ==
    ASSUME NEW v \in Seq(Word), Len(v) = num_n_words, NEW k \in 1..(n - 1), Val(v) = k
    PROVE  HasBits(Regularize(v), Regular(k), num_n_bits - 1)
<1>1. PICK len \in Nat, full \in Nat \ {0}, top \in Nat \ {0} :
         len = num_n_words /\ full = Weight(len) /\ top = Pow2[num_n_bits]
  BY OrderRoom, OrderBits, Weights
<1>2. n \in Nat /\ n > 3 /\ n < full /\ n < top /\ top <= full /\ k \in Nat /\ k < n
  BY <1>1, OrderRoom, OrderBits, OrderPrime
<1>3. PICK order : order = Digits(num_n_words, n) /\ order \in Seq(Word) /\ Len(order) = len /\ Val(order) = n
  BY <1>1, <1>2, DigitsValue
<1>4. PICK k0 : k0 = VliAdd(v, order)
  OBVIOUS
<1>5. /\ k0.words \in Seq(Word) /\ Len(k0.words) = len /\ k0.carry \in {0, 1}
      /\ Val(v) + Val(order) = Val(k0.words) + k0.carry * Weight(Len(v))
  BY <1>1, <1>3, <1>4, AddExact
<1>w. PICK words : words = k0.words
  OBVIOUS
<1>6. PICK x \in Nat, c \in {0, 1} :
         words = k0.words /\ x = Val(words) /\ c = k0.carry /\ x < full
  <2>1. Val(k0.words) \in Nat /\ Val(k0.words) < Weight(Len(k0.words))
    BY <1>5, UptoBound
  <2>2. k0.carry \in {0, 1} /\ Len(k0.words) = len
    BY <1>5
  <2> QED BY <1>1, <1>w, <2>1, <2>2
<1>s. k + n = x + c * full
  <2>1. Val(v) + Val(order) = Val(k0.words) + k0.carry * Weight(Len(v))
    BY <1>5
  <2> QED BY <1>1, <1>3, <1>6, <2>1, Zenon
<1> DEFINE carry == \/ k0.carry = 1
                    \/ num_n_bits < num_n_words * WordBits /\ VliTestBit(k0.words, num_n_bits)
<1>7. PICK bits \in Nat, all \in Nat :
         /\ bits = num_n_bits /\ all = WordBits * len /\ all = num_n_words * WordBits
         /\ bits <= all /\ bits >= 3
         /\ bits = all => full = top
         /\ bits < all => 2 * top <= full
  BY <1>1, OrderRoom, OrderBits
<1>8. carry <=> k + n >= top
  <2>1. CASE bits = all
    <3>1. full = top /\ ~(num_n_bits < num_n_words * WordBits)
      BY <1>7, <2>1
    <3>2. c = 1 <=> k + n >= top
      BY <1>2, <1>6, <1>s, <3>1
    <3> QED BY <1>6, <3>1, <3>2
  <2>2. CASE bits < all
    <3>1. 2 * top <= full /\ num_n_bits < num_n_words * WordBits
      BY <1>7, <2>2
    <3>2. c = 0 /\ x = k + n
      BY <1>2, <1>6, <1>s, <3>1
    <3>3. VliTestBit(words, bits) <=> ((x \div top) % 2) = 1
      <4>1. bits < WordBits * Len(words)
        BY <1>5, <1>6, <1>7, <2>2
      <4>2. words \in Seq(Word)
        BY <1>5, <1>6
      <4>3. VliTestBit(words, bits) <=> ((Val(words) \div Pow2[bits]) % 2) = 1
        BY <4>1, <4>2, BitsOf
      <4> QED BY <1>1, <1>6, <1>7, <4>3
    <3>4. x < 2 * top
      BY <1>2, <3>2
    <3>5. PICK q \in Nat, r \in Nat : q = x \div top /\ r < top /\ x = q * top + r
      BY Divided
    <3>6. q = IF x >= top THEN 1 ELSE 0
      <4>1. q < 2
        <5> SUFFICES ASSUME 2 <= q PROVE FALSE
          OBVIOUS
        <5>1. 2 * top <= q * top /\ q * top \in Nat
          BY ProductsGrow
        <5> QED BY <3>4, <3>5, <5>1
      <4>2. CASE q = 0
        BY <3>5, <4>2
      <4>3. CASE q = 1
        BY <3>5, <4>3
      <4> QED BY <4>1, <4>2, <4>3
    <3>7. (q % 2) = 1 <=> x >= top
      BY <3>6
    <3>8. VliTestBit(k0.words, num_n_bits) <=> k + n >= top
      <4>1. x \div top = q /\ x = k + n /\ words = k0.words /\ bits = num_n_bits
        BY <1>6, <1>7, <3>2, <3>5
      <4> QED BY <3>3, <3>7, <4>1
    <3> QED BY <1>6, <3>1, <3>2, <3>8
  <2> QED BY <1>7, <2>1, <2>2
<1>9. Regularize(v) = IF carry THEN k0.words ELSE VliAdd(k0.words, order).words
  BY <1>3, <1>4, Zenon DEF Regularize
<1> HIDE DEF carry
<1>10. CASE carry
  <2>1. Regularize(v) = words /\ Regular(k) = k + n
    BY <1>1, <1>6, <1>8, <1>9, <1>10 DEF Regular
  <2>2. bits - 1 \in Nat /\ bits - 1 < WordBits * Len(words) /\ words \in Seq(Word) /\ k + n \in Nat /\ c \in Nat
    <3>1. Len(words) = len /\ words \in Seq(Word)
      BY <1>5, <1>6
    <3> QED BY <1>2, <1>7, <3>1
  <2>3. k + n = Val(words) + c * Weight(Len(words))
    <3>1. Len(words) = len
      BY <1>5, <1>6
    <3> QED BY <1>1, <1>6, <1>s, <3>1, Zenon
  <2>4. HasBits(words, k + n, bits - 1)
    BY <2>2, <2>3, LowBits
  <2> QED BY <1>7, <2>1, <2>4
<1>11. CASE ~carry
  <2>1. PICK k1 : k1 = VliAdd(words, order)
    OBVIOUS
  <2>2. Regularize(v) = k1.words /\ Regular(k) = k + 2 * n
    BY <1>1, <1>6, <1>8, <1>9, <1>11, <2>1 DEF Regular
  <2>3. /\ k1.words \in Seq(Word) /\ Len(k1.words) = len /\ k1.carry \in {0, 1}
        /\ Val(words) + Val(order) = Val(k1.words) + k1.carry * Weight(Len(words))
    <3>1. words \in Seq(Word) /\ Len(words) = Len(order) /\ Len(words) = len
      BY <1>3, <1>5, <1>6
    <3> QED BY <1>3, <2>1, <3>1, AddExact
  <2>4. PICK c1 \in Nat, y \in Nat : c1 = k1.carry /\ y = Val(k1.words)
    BY <2>3, UptoBound
  <2>5. c = 0
    BY <1>2, <1>6, <1>s, <1>8, <1>11
  <2>6. k + 2 * n = y + c1 * full
    <3>1. x + n = y + c1 * full
      BY <1>1, <1>3, <1>5, <1>6, <2>3, <2>4
    <3>2. x = k + n /\ c1 * full \in Nat
      BY <1>2, <1>6, <1>s, <2>5
    <3> QED BY <1>2, <3>1, <3>2
  <2>7. bits - 1 \in Nat /\ bits - 1 < WordBits * Len(k1.words) /\ k + 2 * n \in Nat
    BY <1>2, <1>7, <2>3
  <2>8. k + 2 * n = Val(k1.words) + c1 * Weight(Len(k1.words))
    BY <1>1, <2>3, <2>4, <2>6
  <2>9. HasBits(k1.words, k + 2 * n, bits - 1)
    BY <2>3, <2>7, <2>8, LowBits
  <2> QED BY <1>7, <2>2, <2>9
<1> QED BY <1>10, <1>11

\* EccPoint_mult, on a scalar that regularize_k has lengthened, returns the
\* key's multiple of a point; Zero instead for a point with x = 0, where its
\* final division fails, and for the keys that lead to its exception.
THEOREM LadderMultiplies ==
    ASSUME NEW m \in 1..(n - 1), NEW v \in Seq(Word), Len(v) = num_n_words,
           NEW k \in 1..(n - 1), Val(v) = k, NEW z \in Field, z # 0
    PROVE  EccPoint_mult(Multiples[m], Regularize(v), z, num_n_bits + 1)
             = IF Exceptional(Regular(k)) \/ Multiples[m].x = 0 THEN Zero
               ELSE Multiples[(k * m) % n]
<1>1. PICK s, scalar : s = Regular(k) /\ scalar = Regularize(v)
  OBVIOUS
<1>2. /\ s \in Nat /\ Pow2[num_n_bits] <= s /\ s < 2 * Pow2[num_n_bits] /\ s <= 3 * n - 2
      /\ Cong(s, k, n)
  BY <1>1, RegularNumber
<1>3. HasBits(scalar, s, num_n_bits - 1)
  BY <1>1, RegularWords
<1>4. PICK P : P = Multiples[m]
  OBVIOUS
<1>5. EccPoint_mult(P, scalar, z, num_n_bits + 1)
        = IF Exceptional(s) \/ P.x = 0 THEN Zero ELSE M(s, m)
  BY <1>2, <1>3, <1>4, LadderValue
<1>6. M(s, m) = Multiples[(k * m) % n]
  <2>1. s \in Int /\ k \in Int
    BY <1>2, OrderPrime
  <2>2. M(s, m) = M(k, m)
    BY <1>2, <2>1, MSame
  <2> QED BY <2>2 DEF M, Index
<1> QED BY <1>1, <1>4, <1>5, <1>6

\* The weight of a byte's place, and the number of values of a byte.
Place(k) == Pow2[ByteBits * k]

\* Values of a byte.
Base == Pow2[ByteBits]

\* What the weights of bytes and words have to do with each other.
LEMMA Places ==
    /\ WordSize \in Nat \ {0} /\ ByteBits \in Nat \ {0} /\ ByteBits * WordSize = WordBits
    /\ Base \in Nat \ {0} /\ Octets = 0..(Base - 1)
    /\ Place(0) = 1 /\ Place(WordSize) = W
    /\ \A k \in Nat : Place(k) \in Nat \ {0} /\ Place(k + 1) = Base * Place(k)
    /\ \A i, j \in Nat : Place(i + j) = Place(i) * Place(j)
<1>1. PICK bb \in Nat \ {0}, wb \in Nat \ {0} : bb = ByteBits /\ wb = WordBits /\ (wb % bb) = 0
  BY VliAssumption
<1>2. PICK ws \in Nat : ws = wb \div bb /\ wb = ws * bb /\ ws # 0
  <2>1. PICK q \in Nat, r \in Nat : q = wb \div bb /\ r = (wb % bb) /\ wb = q * bb + r
    BY <1>1, Divided
  <2>2. q * bb \in Nat /\ r = 0
    BY <1>1, <2>1
  <2>3. wb = q * bb
    BY <2>1, <2>2
  <2>4. q # 0
    <3> SUFFICES ASSUME q = 0 PROVE FALSE
      OBVIOUS
    <3>1. 0 * bb = 0
      OBVIOUS
    <3> QED BY <2>3, <3>1
  <2> QED BY <2>1, <2>3, <2>4
<1>3. ws = WordSize /\ ByteBits * WordSize = WordBits
  <2>1. ws = WordSize
    BY <1>1, <1>2 DEF WordSize
  <2>2. ws * bb = bb * ws
    OBVIOUS
  <2> QED BY <1>1, <1>2, <2>1, <2>2
<1>4. Base \in Nat \ {0}
  BY <1>1, PowersOfTwo DEF Base
<1>5. \A k \in Nat : bb * k \in Nat
  OBVIOUS
<1>6. Place(0) = 1
  <2>1. bb * 0 = 0
    OBVIOUS
  <2> QED BY <1>1, <2>1, PowersOfTwo DEF Place
<1>7. ASSUME NEW i \in Nat, NEW j \in Nat PROVE Place(i + j) = Place(i) * Place(j)
  <2>1. bb * (i + j) = bb * i + bb * j
    OBVIOUS
  <2>2. Pow2[bb * i + bb * j] = Pow2[bb * i] * Pow2[bb * j]
    BY <1>5, PowersAdd
  <2> QED BY <1>1, <2>1, <2>2 DEF Place
<1>8. ASSUME NEW k \in Nat PROVE Place(k) \in Nat \ {0} /\ Place(k + 1) = Base * Place(k)
  <2>1. Place(k) \in Nat \ {0}
    BY <1>1, <1>5, PowersOfTwo DEF Place
  <2>2. Place(1) = Base
    <3>1. bb * 1 = bb
      OBVIOUS
    <3> QED BY <1>1, <3>1 DEF Place, Base
  <2>3. Place(k + 1) = Place(k) * Place(1)
    BY <1>7
  <2>4. PICK x \in Nat, y \in Nat : x = Place(k) /\ y = Base
    BY <1>4, <2>1
  <2>5. x * y = y * x
    OBVIOUS
  <2> QED BY <2>1, <2>2, <2>3, <2>4, <2>5
<1>9. Place(WordSize) = W
  BY <1>3 DEF Place, W
<1> QED BY <1>1, <1>2, <1>3, <1>4, <1>6, <1>7, <1>8, <1>9 DEF Octets, Base

------------------------------------------------------------------------------
(* The bytes of a word *)

\* The numbers that the bytes up to each place make up.
IsBytes(f, g, len) ==
    /\ f \in [0..len -> Nat] /\ f[0] = 0
    /\ \A k \in 1..len : f[k] = f[k - 1] + g[k - 1] * Place(k - 1)

\* A digit.
DigitAt(x, k) == (x \div Place(k)) % Base

\* Byte d comes on top of lo.
ByteAdded(f, g, k) ==
    \E lo \in Nat, d \in Nat, m \in Nat \ {0}, base \in Nat \ {0} :
        /\ lo = f[k - 1] /\ d = g[k - 1] /\ m = Place(k - 1)
        /\ base = Base /\ d < base /\ f[k] = lo + d * m /\ Place(k) = base * m

\* One more byte.
LEMMA ByteStep ==
    ASSUME NEW len \in Nat, NEW g \in [0..(len - 1) -> Octets], NEW f, IsBytes(f, g, len),
           NEW k \in 1..len
    PROVE  ByteAdded(f, g, k)
<1>1. k - 1 \in 0..len /\ k - 1 \in 0..(len - 1) /\ k - 1 \in Nat /\ (k - 1) + 1 = k
  OBVIOUS
<1>2. f[k - 1] \in Nat /\ f[k] = f[k - 1] + g[k - 1] * Place(k - 1)
  BY <1>1 DEF IsBytes
<1>3. g[k - 1] \in Octets
  BY <1>1
<1>4. Base \in Nat \ {0} /\ Octets = 0..(Base - 1)
  BY Places
<1>5. g[k - 1] \in Nat /\ g[k - 1] < Base
  BY <1>3, <1>4
<1>6. Place(k - 1) \in Nat \ {0} /\ Place((k - 1) + 1) = Base * Place(k - 1)
  BY <1>1, Places
<1>7. Place(k) = Base * Place(k - 1)
  BY <1>1, <1>6
<1>8. PICK lo, d, m, base : lo = f[k - 1] /\ d = g[k - 1] /\ m = Place(k - 1) /\ base = Base
  OBVIOUS
<1> QED BY <1>1, <1>2, <1>4, <1>5, <1>6, <1>7, <1>8, Zenon DEF ByteAdded

\* Bytes make up less than the weight of the next place.
LEMMA BytesBound ==
    ASSUME NEW len \in Nat, NEW g \in [0..(len - 1) -> Octets], NEW f, IsBytes(f, g, len)
    PROVE  \A k \in 0..len : f[k] \in Nat /\ f[k] < Place(k)
<1> DEFINE T == {k \in 0..len : ~(f[k] < Place(k))}
<1>1. T = {}
  <2> SUFFICES ASSUME T # {} PROVE FALSE
    OBVIOUS
  <2>1. PICK k \in T : \A j \in T : k <= j
    <3>1. T \in SUBSET Nat
      OBVIOUS
    <3> HIDE DEF T
    <3> QED BY <3>1, LeastOf
  <2>2. k # 0
    BY Places DEF IsBytes
  <2>3. k \in 1..len /\ k - 1 \in 0..len /\ k - 1 \notin T
    BY <2>1, <2>2
  <2>4. PICK lo \in Nat, d \in Nat, m \in Nat \ {0}, base \in Nat \ {0} :
           /\ lo = f[k - 1] /\ d = g[k - 1] /\ m = Place(k - 1)
           /\ base = Base /\ d < base /\ f[k] = lo + d * m /\ Place(k) = base * m
    <3>1. ByteAdded(f, g, k)
      BY <2>3, ByteStep
    <3> QED BY <3>1 DEF ByteAdded
  <2>5. lo < m
    BY <2>3, <2>4
  <2>6. (d + 1) * m <= base * m /\ (d + 1) * m = d * m + m /\ d * m \in Nat /\ base * m \in Nat
    <3>1. d + 1 <= base
      BY <2>4
    <3> QED BY <3>1, ProductsGrow
  <2>7. f[k] < Place(k)
    <3>1. PICK u \in Nat, v \in Nat, w \in Nat : u = d * m /\ v = base * m /\ w = (d + 1) * m
      BY <2>6
    <3>2. w <= v /\ w = u + m /\ f[k] = lo + u /\ Place(k) = v
      BY <2>4, <2>6, <3>1, Zenon
    <3> QED BY <2>5, <3>2
  <2> QED BY <2>1, <2>7
<1> QED BY <1>1 DEF IsBytes

\* Bytes that are the digits of x make up x, as far as they go.
LEMMA BytesOfNumber ==
    ASSUME NEW len \in Nat, NEW g \in [0..(len - 1) -> Octets], NEW f, IsBytes(f, g, len),
           NEW x \in Nat, \A k \in 0..(len - 1) : g[k] = DigitAt(x, k)
    PROVE  f[len] = (x % Place(len))
<1> DEFINE T == {k \in 0..len : f[k] # (x % Place(k))}
<1>1. T = {}
  <2> SUFFICES ASSUME T # {} PROVE FALSE
    OBVIOUS
  <2>1. PICK k \in T : \A j \in T : k <= j
    <3>1. T \in SUBSET Nat
      OBVIOUS
    <3> HIDE DEF T
    <3> QED BY <3>1, LeastOf
  <2>2. k # 0
    <3>1. (x % 1) = 0
      OBVIOUS
    <3>2. f[0] = (x % Place(0))
      BY <3>1, Places DEF IsBytes
    <3> QED BY <2>1, <3>2
  <2>3. k \in 1..len /\ k - 1 \in 0..len /\ k - 1 \in 0..(len - 1) /\ k - 1 \notin T
    BY <2>1, <2>2
  <2>4. PICK lo \in Nat, d \in Nat, m \in Nat \ {0}, base \in Nat \ {0} :
           /\ lo = f[k - 1] /\ d = g[k - 1] /\ m = Place(k - 1)
           /\ base = Base /\ d < base /\ f[k] = lo + d * m /\ Place(k) = base * m
    <3>1. ByteAdded(f, g, k)
      BY <2>3, ByteStep
    <3> QED BY <3>1 DEF ByteAdded
  <2>5. lo = (x % m)
    BY <2>3, <2>4
  <2>6. d = ((x \div m) % base)
    BY <2>3, <2>4 DEF DigitAt
  <2>7. (x % (base * m)) = (x % m) + ((x \div m) % base) * m
    BY OneMoreDigit
  <2>8. f[k] = (x % Place(k))
    BY <2>4, <2>5, <2>6, <2>7, Zenon
  <2> QED BY <2>1, <2>8
<1> QED BY <1>1

\* A digit does not see multiples of higher places.
LEMMA LowDigit ==
    ASSUME NEW x \in Nat, NEW c \in Nat, NEW t \in Nat, NEW i \in Nat, i < t
    PROVE  DigitAt(x + c * Place(t), i) = DigitAt(x, i)
<1>1. PICK low \in Nat \ {0}, base \in Nat \ {0}, up \in Nat \ {0} :
         low = Place(i) /\ base = Base /\ up = Place(t - i - 1) /\ Place(t) = up * (base * low)
  <2>1. i + 1 \in Nat /\ t - i - 1 \in Nat /\ (t - i - 1) + (i + 1) = t
    OBVIOUS
  <2>2. Place(t) = Place(t - i - 1) * Place(i + 1) /\ Place(i + 1) = Base * Place(i)
    BY <2>1, Places, ZenonT(60)
  <2>3. Place(i) \in Nat \ {0} /\ Base \in Nat \ {0} /\ Place(t - i - 1) \in Nat \ {0}
    BY <2>1, Places
  <2> QED BY <2>2, <2>3, Zenon
<1> QED BY <1>1, DigitKept DEF DigitAt

\* The bytes are the digits of what they make up.
LEMMA DigitsOfBytes ==
    ASSUME NEW len \in Nat, NEW g \in [0..(len - 1) -> Octets], NEW f, IsBytes(f, g, len)
    PROVE  \A i \in 0..(len - 1) : DigitAt(f[len], i) = g[i]
<1> DEFINE T == {k \in 0..len : \E i \in 0..(k - 1) : DigitAt(f[k], i) # g[i]}
<1>1. T = {}
  <2> SUFFICES ASSUME T # {} PROVE FALSE
    OBVIOUS
  <2>1. PICK k \in T : \A j \in T : k <= j
    <3>1. T \in SUBSET Nat
      OBVIOUS
    <3> HIDE DEF T
    <3> QED BY <3>1, LeastOf
  <2>2. k # 0
    BY <2>1
  <2>3. k \in 1..len /\ k - 1 \in 0..len /\ k - 1 \notin T /\ k - 1 \in Nat
    BY <2>1, <2>2
  <2>4. PICK lo \in Nat, d \in Nat, m \in Nat \ {0}, base \in Nat \ {0} :
           /\ lo = f[k - 1] /\ d = g[k - 1] /\ m = Place(k - 1)
           /\ base = Base /\ d < base /\ f[k] = lo + d * m /\ Place(k) = base * m
    <3>1. ByteAdded(f, g, k)
      BY <2>3, ByteStep
    <3> QED BY <3>1 DEF ByteAdded
  <2>5. PICK i \in 0..(k - 1) : DigitAt(f[k], i) # g[i]
    BY <2>1
  <2>6. CASE i = k - 1
    <3>1. lo < m
      BY <2>3, <2>4, BytesBound
    <3>2. (d * m + lo) \div m = d
      BY <3>1, Division
    <3>3. PICK u \in Nat : u = d * m
      OBVIOUS
    <3>4. f[k] \div m = d
      BY <2>4, <3>2, <3>3, SMTT(40)
    <3>5. (d % base) = d
      <4>1. d < base
        BY <2>4
      <4>2. PICK y \in Int : y = d
        OBVIOUS
      <4>3. 0 <= y /\ y < base
        BY <4>1, <4>2
      <4>4. (y % base) = y
        BY <4>3, RemainderNear
      <4> QED BY <4>2, <4>4
    <3>6. DigitAt(f[k], i) = g[i]
      BY <2>4, <2>6, <3>4, <3>5 DEF DigitAt
    <3> QED BY <2>5, <3>6
  <2>7. CASE i # k - 1
    <3>1. i \in Nat /\ i \in 0..((k - 1) - 1) /\ i < k - 1
      BY <2>3, <2>5, <2>7
    <3>2. DigitAt(lo, i) = g[i]
      BY <2>3, <2>4, <3>1
    <3>3. PICK t \in Nat : t = k - 1 /\ i < t /\ m = Place(t)
      BY <2>3, <2>4, <3>1
    <3>4. DigitAt(lo + d * Place(t), i) = DigitAt(lo, i)
      BY <3>1, <3>3, LowDigit
    <3>5. DigitAt(f[k], i) = g[i]
      BY <2>4, <3>2, <3>3, <3>4
    <3> QED BY <2>5, <3>5
  <2> QED BY <2>6, <2>7
<1>2. len \notin T
  BY <1>1
<1> QED BY <1>2

------------------------------------------------------------------------------
(* Bytes and words *)

\* The byte at a place, counted from the lowest; none beyond the last.
ByteAt(bytes, place) == IF place < Len(bytes) THEN bytes[Len(bytes) - place] ELSE 0

\* The bytes of word w.
WordBytes(bytes, w) == [k \in 0..(WordSize - 1) |-> ByteAt(bytes, (w - 1) * WordSize + k)]

\* The words that len bytes fill.
WordsFor(len) == (len + WordSize - 1) \div WordSize

\* It is a byte.
LEMMA ByteAtIn ==
    ASSUME NEW bytes \in Seq(Octets), NEW place \in Nat
    PROVE  ByteAt(bytes, place) \in Octets
<1>1. Len(bytes) \in Nat
  BY LenProperties
<1>2. CASE place < Len(bytes)
  <2>1. Len(bytes) - place \in 1..Len(bytes)
    BY <1>1, <1>2
  <2> QED BY <1>2, <2>1, ElementOfSeq DEF ByteAt
<1>3. CASE ~(place < Len(bytes))
  BY <1>3, Places DEF ByteAt
<1> QED BY <1>2, <1>3

\* So are those of a word.
LEMMA WordBytesIn ==
    ASSUME NEW bytes \in Seq(Octets), NEW w \in Nat \ {0}
    PROVE  WordBytes(bytes, w) \in [0..(WordSize - 1) -> Octets]
<1>1. \A k \in 0..(WordSize - 1) : (w - 1) * WordSize + k \in Nat
  <2>1. (w - 1) * WordSize \in Nat
    BY Places
  <2> QED BY <2>1
<1>2. \A k \in 0..(WordSize - 1) : ByteAt(bytes, (w - 1) * WordSize + k) \in Octets
  BY <1>1, ByteAtIn
<1> QED BY <1>2 DEF WordBytes

\* What BytesToNative makes of the bytes of word w.
LEMMA BytesExist ==
    ASSUME NEW g \in [0..(WordSize - 1) -> Octets]
    PROVE  \E f : IsBytes(f, g, WordSize)
<1> DEFINE step == [c \in (1..WordSize) \X Nat |-> c[2] + g[c[1] - 1] * Place(c[1] - 1)]
<1>0. WordSize \in Nat /\ \A k \in 1..WordSize : k - 1 \in 0..(WordSize - 1) /\ k - 1 \in 0..WordSize /\ k - 1 \in Nat
  <2>1. WordSize \in Nat
    BY Places
  <2> QED BY <2>1
<1>b. ASSUME NEW k \in 1..WordSize, NEW x \in Nat PROVE x + g[k - 1] * Place(k - 1) \in Nat
  <2>1. Octets \subseteq Nat
    <3>1. Octets = 0..(Base - 1) /\ Base \in Nat
      BY Places
    <3> QED BY <3>1
  <2>2. g[k - 1] \in Nat /\ Place(k - 1) \in Nat
    <3>1. g[k - 1] \in Octets
      BY <1>0
    <3>2. \A i \in Nat : Place(i) \in Nat
      BY Places
    <3> QED BY <1>0, <2>1, <3>1, <3>2
  <2>3. PICK d \in Nat, m \in Nat : d = g[k - 1] /\ m = Place(k - 1)
    BY <2>2
  <2>4. x + d * m \in Nat
    OBVIOUS
  <2> QED BY <2>3, <2>4
<1>1. step \in [(1..WordSize) \X Nat -> Nat]
  <2>1. ASSUME NEW c \in (1..WordSize) \X Nat PROVE c[2] + g[c[1] - 1] * Place(c[1] - 1) \in Nat
    <3>1. c[1] \in 1..WordSize /\ c[2] \in Nat
      OBVIOUS
    <3> QED BY <1>b, <3>1
  <2> QED BY <2>1
<1>2. PICK f : Follows(f, Nat, 0, step, WordSize)
  <2> HIDE DEF step
  <2>1. WordSize \in Nat /\ 0 \in Nat
    BY <1>0
  <2> QED BY <1>1, <2>1, RecursionUpTo
<1>3. ASSUME NEW k \in 1..WordSize PROVE f[k] = f[k - 1] + g[k - 1] * Place(k - 1)
  <2>1. f[k] = step[<<k, f[k - 1]>>]
    BY <1>2 DEF Follows
  <2>2. k - 1 \in 0..WordSize /\ f \in [0..WordSize -> Nat]
    <3> HIDE DEF step
    <3> QED BY <1>0, <1>2 DEF Follows
  <2>3. <<k, f[k - 1]>> \in (1..WordSize) \X Nat
    BY <2>2
  <2> QED BY <2>1, <2>3
<1>4. IsBytes(f, g, WordSize)
  BY <1>2, <1>3 DEF IsBytes, Follows
<1> QED BY <1>4

\* Only one function has the numbers that the bytes make up.
LEMMA BytesUnique ==
    ASSUME NEW g, NEW f, IsBytes(f, g, WordSize), NEW h, h[0] = 0,
           \A k \in 1..WordSize : h[k] = h[k - 1] + g[k - 1] * Place(k - 1)
    PROVE  h[WordSize] = f[WordSize]
<1> DEFINE T == {k \in 0..WordSize : h[k] # f[k]}
<1>0. WordSize \in Nat
  BY Places
<1>1. T = {}
  <2> SUFFICES ASSUME T # {} PROVE FALSE
    OBVIOUS
  <2>1. PICK k \in T : \A j \in T : k <= j
    <3>1. T \in SUBSET Nat
      OBVIOUS
    <3> HIDE DEF T
    <3> QED BY <3>1, LeastOf
  <2>2. k # 0
    BY DEF IsBytes
  <2>3. k \in 1..WordSize /\ k - 1 \in 0..WordSize /\ k - 1 \notin T
    BY <1>0, <2>1, <2>2
  <2>4. h[k - 1] = f[k - 1]
    BY <2>3
  <2>5. h[k] = h[k - 1] + g[k - 1] * Place(k - 1) /\ f[k] = f[k - 1] + g[k - 1] * Place(k - 1)
    BY <2>3 DEF IsBytes
  <2> QED BY <2>1, <2>4, <2>5, Zenon
<1>2. WordSize \notin T
  BY <1>1
<1> QED BY <1>0, <1>2

\* A word of the native form, as its definition computes it.
NativeWord(bytes, w) ==
    LET word[k \in 0..WordSize] ==
            IF k = 0 THEN 0
            ELSE word[k - 1]
                 + (IF (w - 1) * WordSize + k - 1 < Len(bytes)
                    THEN bytes[Len(bytes) - ((w - 1) * WordSize + k - 1)] ELSE 0)
                   * Pow2[ByteBits * (k - 1)]
    IN  word[WordSize]

\* It is the number that the bytes of the word make up.
LEMMA NativeWordValue ==
    ASSUME NEW bytes \in Seq(Octets), NEW w \in Nat \ {0}
    PROVE  \E f : /\ IsBytes(f, WordBytes(bytes, w), WordSize)
                  /\ NativeWord(bytes, w) = f[WordSize]
<1> DEFINE g == WordBytes(bytes, w)
           At1(k) == (IF (w - 1) * WordSize + k - 1 < Len(bytes)
                      THEN bytes[Len(bytes) - ((w - 1) * WordSize + k - 1)] ELSE 0)
           Eqn(h) == h = [k \in 0..WordSize |-> IF k = 0 THEN 0
                                                ELSE h[k - 1] + At1(k) * Pow2[ByteBits * (k - 1)]]
<1>1. g \in [0..(WordSize - 1) -> Octets]
  BY WordBytesIn
<1>2. PICK f : IsBytes(f, g, WordSize)
  <2> HIDE DEF g
  <2> QED BY <1>1, BytesExist
<1>3. ASSUME NEW k \in 1..WordSize PROVE At1(k) = g[k - 1]
  <2>1. PICK x \in Nat : x = (w - 1) * WordSize
    BY Places
  <2>2. k - 1 \in 0..(WordSize - 1) /\ x + k - 1 = x + (k - 1)
    BY Places
  <2>3. g[k - 1] = ByteAt(bytes, x + (k - 1))
    BY <2>1, <2>2 DEF WordBytes
  <2> QED BY <2>1, <2>2, <2>3 DEF ByteAt
<1> HIDE DEF g, At1
<1>4. Eqn(f)
  <2>1. \A k \in 0..WordSize : f[k] = IF k = 0 THEN 0 ELSE f[k - 1] + At1(k) * Pow2[ByteBits * (k - 1)]
    <3>1. \A k \in 0..WordSize : k = 0 \/ k \in 1..WordSize
      BY Places
    <3>2. \A k \in 1..WordSize : f[k] = f[k - 1] + At1(k) * Pow2[ByteBits * (k - 1)]
      BY <1>2, <1>3, Zenon DEF IsBytes, Place
    <3>3. f[0] = 0 /\ \A k \in 1..WordSize : k # 0
      BY <1>2, Places DEF IsBytes
    <3> QED BY <3>1, <3>2, <3>3, Zenon
  <2>2. f = [k \in 0..WordSize |-> f[k]]
    BY <1>2 DEF IsBytes
  <2> QED BY <2>1, <2>2, Zenon
<1>5. PICK h : Eqn(h) /\ h = CHOOSE h1 : Eqn(h1)
  <2> HIDE DEF Eqn
  <2> QED BY <1>4, Zenon
<1>6. h[WordSize] = f[WordSize]
  <2>1. 0 \in 0..WordSize /\ \A k \in 1..WordSize : k \in 0..WordSize /\ k # 0
    BY Places
  <2>2. h[0] = 0
    BY <1>5, <2>1
  <2>3. \A k \in 1..WordSize : h[k] = h[k - 1] + At1(k) * Pow2[ByteBits * (k - 1)]
    BY <1>5, <2>1
  <2>4. \A k \in 1..WordSize : h[k] = h[k - 1] + g[k - 1] * Place(k - 1)
    BY <1>3, <2>3, Zenon DEF Place
  <2> QED BY <1>2, <2>2, <2>4, BytesUnique
<1>7. NativeWord(bytes, w) = (CHOOSE h1 : Eqn(h1))[WordSize]
  BY Zenon DEF NativeWord, At1
<1>8. NativeWord(bytes, w) = f[WordSize]
  <2> HIDE DEF Eqn
  <2> QED BY <1>5, <1>6, <1>7
<1> QED BY <1>2, <1>8 DEF g

\* The native form, word by word.
LEMMA NativeWords ==
    ASSUME NEW bytes \in Seq(Octets)
    PROVE  BytesToNative(bytes) = [w \in 1..WordsFor(Len(bytes)) |-> NativeWord(bytes, w)]
BY Zenon DEF BytesToNative, WordsFor, NativeWord

\* The len bytes of x, the highest first.
BigEndian(len, x) == [i \in 1..len |-> DigitAt(x, len - i)]

\* Words and bytes divide a number at the same places.
LEMMA WordPlaces ==
    /\ \A w \in Nat : Weight(w) = Place(w * WordSize) /\ w * WordSize \in Nat
    /\ \A len \in Nat : /\ WordsFor(len) \in Nat /\ WordsFor(len) * WordSize \in Nat
                        /\ len <= WordsFor(len) * WordSize
                        /\ WordsFor(len) * WordSize < len + WordSize
<1>1. PICK ws \in Nat \ {0}, bb \in Nat, wb \in Nat :
         ws = WordSize /\ bb = ByteBits /\ wb = WordBits /\ bb * ws = wb
  <2>1. WordSize \in Nat \ {0} /\ ByteBits \in Nat /\ ByteBits * WordSize = WordBits /\ WordBits \in Nat
    BY Places, VliAssumption
  <2> QED BY <2>1
<1>2. ASSUME NEW w \in Nat PROVE Weight(w) = Place(w * WordSize) /\ w * WordSize \in Nat
  <2>1. (bb * ws) * w = bb * (w * ws) /\ w * ws \in Nat
    OBVIOUS
  <2> QED BY <1>1, <2>1, Zenon DEF Weight, Place
<1>3. ASSUME NEW len \in Nat
      PROVE  /\ WordsFor(len) \in Nat /\ WordsFor(len) * WordSize \in Nat
             /\ len <= WordsFor(len) * WordSize
             /\ WordsFor(len) * WordSize < len + WordSize
  <2>1. PICK x \in Nat : x = len + ws - 1
    OBVIOUS
  <2>2. PICK q \in Nat, r \in Nat : q = x \div ws /\ r < ws /\ x = q * ws + r
    BY Divided
  <2>3. PICK u \in Nat : u = q * ws
    OBVIOUS
  <2>4. len <= u /\ u < len + ws
    BY <2>1, <2>2, <2>3
  <2>5. WordsFor(len) = q
    BY <1>1, <2>1, <2>2 DEF WordsFor
  <2> QED BY <1>1, <2>3, <2>4, <2>5
<1> QED BY <1>2, <1>3

\* A byte of a word is a byte of the number.
LEMMA DigitOfWord ==
    ASSUME NEW v \in Seq(Word), NEW w \in Nat, w < Len(v), NEW k \in Nat, k < WordSize
    PROVE  DigitAt(v[w + 1], k) = DigitAt(Val(v), w * WordSize + k)
<1>1. PICK x \in Nat, m \in Nat \ {0}, ww \in Nat \ {0} : x = Val(v) /\ m = Weight(w) /\ ww = W
  <2>1. Val(v) \in Nat
    BY UptoBound
  <2>2. Weight(w) \in Nat \ {0}
    BY Weights
  <2>3. W \in Nat \ {0}
    BY Places
  <2> QED BY <2>1, <2>2, <2>3
<1>2. PICK q \in Nat, d \in Nat, c \in Nat : q = x \div m /\ d = (q % ww) /\ c = q \div ww /\ q = c * ww + d
  <2>1. PICK q \in Nat : q = x \div m
    BY Divided
  <2>2. q \div ww \in Nat /\ (q % ww) \in Nat /\ q = (q \div ww) * ww + (q % ww)
    BY Divided
  <2> QED BY <2>1, <2>2
<1>3. v[w + 1] = d
  <2>1. w + 1 \in 1..Len(v) /\ (w + 1) - 1 = w
    <3>1. Len(v) \in Nat
      BY LenProperties
    <3> QED BY <3>1
  <2>2. ((Val(v) \div Weight((w + 1) - 1)) % W) = v[w + 1]
    BY <2>1, WordOf
  <2>3. ((x \div m) % ww) = v[w + 1]
    BY <1>1, <2>1, <2>2
  <2> QED BY <1>2, <2>3
<1>4. DigitAt(q, k) = DigitAt(d, k)
  <2>1. PICK t \in Nat : t = WordSize /\ k < t /\ ww = Place(t)
    BY <1>1, Places
  <2>2. DigitAt(d + c * Place(t), k) = DigitAt(d, k)
    BY <2>1, LowDigit
  <2>3. q = d + c * Place(t)
    <3>1. PICK u \in Nat : u = c * ww
      OBVIOUS
    <3>2. u + d = d + u
      OBVIOUS
    <3>3. q = u + d
      BY <1>2, <3>1, Zenon
    <3>4. q = d + u
      BY <3>2, <3>3, Zenon
    <3> QED BY <2>1, <3>1, <3>4, Zenon
  <2> QED BY <2>2, <2>3
<1>5. DigitAt(q, k) = DigitAt(x, w * WordSize + k)
  <2>1. PICK low \in Nat \ {0} : low = Place(k)
    BY Places
  <2>2. x \div (low * m) = (x \div m) \div low
    BY OneMoreDigit
  <2>3. Place(w * WordSize + k) = low * m
    <3>1. w * WordSize \in Nat /\ Weight(w) = Place(w * WordSize)
      BY WordPlaces
    <3>2. Place(w * WordSize + k) = Place(w * WordSize) * Place(k)
      BY <3>1, Places
    <3>3. m * low = low * m
      OBVIOUS
    <3> QED BY <1>1, <2>1, <3>1, <3>2, <3>3
  <2> QED BY <1>2, <2>1, <2>2, <2>3 DEF DigitAt
<1> QED BY <1>1, <1>3, <1>4, <1>5

\* Digits are bytes.
LEMMA DigitIn ==
    ASSUME NEW x \in Nat, NEW k \in Nat
    PROVE  DigitAt(x, k) \in Octets /\ (x < Place(k) => DigitAt(x, k) = 0)
<1>1. PICK m \in Nat \ {0}, base \in Nat \ {0} : m = Place(k) /\ base = Base /\ Octets = 0..(base - 1)
  BY Places
<1>2. PICK q \in Nat : q = x \div m
  BY Divided
<1>3. (q % base) \in Nat /\ (q % base) < base
  BY Divided
<1>4. DigitAt(x, k) = (q % base)
  BY <1>1, <1>2 DEF DigitAt
<1>5. ASSUME x < m PROVE (q % base) = 0
  <2>1. (0 * m + x) \div m = 0
    BY <1>5, Division
  <2>2. 0 * m = 0
    OBVIOUS
  <2>3. q = 0
    BY <1>2, <2>1, <2>2
  <2>4. (0 % base) = 0
    OBVIOUS
  <2> QED BY <2>3, <2>4
<1> QED BY <1>1, <1>3, <1>4, <1>5

\* Places further up weigh more.
LEMMA PlacesGrow ==
    ASSUME NEW i \in Nat, NEW j \in Nat, i <= j
    PROVE  Place(i) <= Place(j) /\ Place(i) \in Nat /\ Place(j) \in Nat
<1>1. PICK d \in Nat : j = i + d
  <2>1. j - i \in Nat /\ j = i + (j - i)
    OBVIOUS
  <2> QED BY <2>1
<1>2. PICK x \in Nat \ {0}, y \in Nat \ {0} : x = Place(i) /\ y = Place(d)
  BY Places
<1>3. Place(j) = x * y
  BY <1>1, <1>2, Places
<1>4. 1 * x <= y * x /\ 1 * x = x /\ y * x = x * y /\ x * y \in Nat
  BY ProductsGrow
<1> QED BY <1>2, <1>3, <1>4

\* NativeToBytes writes the bytes of the number.
LEMMA BytesOut ==
    ASSUME NEW v \in Seq(Word), NEW len \in Nat, len <= Len(v) * WordSize
    PROVE  /\ NativeToBytes(len, v) = BigEndian(len, Val(v))
           /\ BigEndian(len, Val(v)) \in Seq(Octets) /\ Len(BigEndian(len, Val(v))) = len
<1>1. Val(v) \in Nat /\ Len(v) \in Nat
  BY UptoBound, LenProperties
<1>2. ASSUME NEW i \in 1..len
      PROVE  (v[(len - i) \div WordSize + 1] \div Pow2[ByteBits * ((len - i) % WordSize)]) % Pow2[ByteBits]
               = DigitAt(Val(v), len - i)
  <2>1. PICK place \in Nat, ws \in Nat \ {0} : place = len - i /\ ws = WordSize
    BY Places
  <2>2. PICK w \in Nat, k \in Nat : w = place \div ws /\ k = (place % ws) /\ k < ws /\ place = w * ws + k
    BY Divided
  <2>3. w < Len(v)
    <3> SUFFICES ASSUME Len(v) <= w PROVE FALSE
      BY <1>1
    <3>1. Len(v) * ws <= w * ws
      BY <1>1, ProductsGrow
    <3>2. PICK u \in Nat, t \in Nat : u = Len(v) * ws /\ t = w * ws
      BY <1>1
    <3>3. place < u /\ u <= t /\ place = t + k
      BY <2>1, <2>2, <3>1, <3>2
    <3> QED BY <3>3
  <2>4. DigitAt(v[w + 1], k) = DigitAt(Val(v), w * WordSize + k)
    BY <2>1, <2>2, <2>3, DigitOfWord, ZenonT(60)
  <2>5. DigitAt(v[w + 1], k) = DigitAt(Val(v), len - i)
    BY <2>1, <2>2, <2>4
  <2> QED BY <2>1, <2>2, <2>5 DEF DigitAt, Place, Base
<1>3. NativeToBytes(len, v) = BigEndian(len, Val(v))
  BY <1>2 DEF NativeToBytes, BigEndian
<1>4. BigEndian(len, Val(v)) \in Seq(Octets) /\ Len(BigEndian(len, Val(v))) = len
  <2>1. \A i \in 1..len : len - i \in Nat
    OBVIOUS
  <2>2. \A i \in 1..len : DigitAt(Val(v), len - i) \in Octets
    BY <1>1, <2>1, DigitIn
  <2>3. BigEndian(len, Val(v)) \in [1..len -> Octets]
    BY <2>2 DEF BigEndian
  <2> QED BY <2>3, SeqDef, LenProperties
<1> QED BY <1>3, <1>4

\* The words that bytes make up.
LEMMA NativeIn ==
    ASSUME NEW bytes \in Seq(Octets)
    PROVE  /\ BytesToNative(bytes) \in Seq(Word)
           /\ Len(BytesToNative(bytes)) = WordsFor(Len(bytes))
           /\ WordsFor(Len(bytes)) \in Nat
<1>1. Len(bytes) \in Nat
  BY LenProperties
<1>2. WordsFor(Len(bytes)) \in Nat
  BY <1>1, WordPlaces
<1>3. ASSUME NEW w \in 1..WordsFor(Len(bytes)) PROVE NativeWord(bytes, w) \in Word
  <2>1. w \in Nat \ {0}
    BY <1>2
  <2>2. PICK f : IsBytes(f, WordBytes(bytes, w), WordSize) /\ NativeWord(bytes, w) = f[WordSize]
    BY <2>1, NativeWordValue
  <2>3. WordBytes(bytes, w) \in [0..(WordSize - 1) -> Octets]
    BY <2>1, WordBytesIn
  <2>4. WordSize \in Nat /\ WordSize \in 0..WordSize /\ Place(WordSize) = W /\ W \in Nat
    <3>1. WordSize \in Nat /\ Place(WordSize) = W
      BY Places
    <3>2. W \in Nat
      BY WordSizes
    <3> QED BY <3>1, <3>2
  <2>5. f[WordSize] \in Nat /\ f[WordSize] < Place(WordSize)
    BY <2>2, <2>3, <2>4, BytesBound
  <2> QED BY <2>2, <2>4, <2>5 DEF Word
<1>4. BytesToNative(bytes) \in [1..WordsFor(Len(bytes)) -> Word]
  BY <1>3, NativeWords
<1> QED BY <1>2, <1>4, SeqDef, LenProperties

\* Word by word, the bytes of a word are those of the number.
LEMMA ByteOfNative ==
    ASSUME NEW bytes \in Seq(Octets), NEW place \in Nat, place < Len(bytes)
    PROVE  DigitAt(Val(BytesToNative(bytes)), place) = ByteAt(bytes, place)
<1>1. PICK v \in Seq(Word) : v = BytesToNative(bytes) /\ Len(v) = WordsFor(Len(bytes))
  BY NativeIn
<1>2. Len(bytes) \in Nat /\ Len(v) \in Nat
  BY LenProperties
<1>3. PICK ws \in Nat \ {0} : ws = WordSize
  BY Places
<1>4. PICK w \in Nat, k \in Nat : k < ws /\ place = w * ws + k
  <2>1. place \div ws \in Nat /\ (place % ws) \in Nat /\ (place % ws) < ws
        /\ place = (place \div ws) * ws + (place % ws)
    BY Divided
  <2> QED BY <2>1
<1>5. w < Len(v)
  <2> SUFFICES ASSUME Len(v) <= w PROVE FALSE
    BY <1>2
  <2>1. Len(v) * ws <= w * ws
    BY <1>2, ProductsGrow
  <2>2. PICK u \in Nat, t \in Nat : u = Len(v) * ws /\ t = w * ws
    BY <1>2
  <2>3. Len(bytes) <= u
    BY <1>1, <1>2, <1>3, <2>2, WordPlaces
  <2>4. u <= t /\ place = t + k
    BY <1>4, <2>1, <2>2
  <2> QED BY <1>2, <2>3, <2>4
<1>6. DigitAt(v[w + 1], k) = DigitAt(Val(v), place)
  BY <1>3, <1>4, <1>5, DigitOfWord
<1>7. v[w + 1] = NativeWord(bytes, w + 1) /\ w + 1 \in Nat \ {0}
  <2>1. w + 1 \in 1..WordsFor(Len(bytes))
    BY <1>1, <1>2, <1>5
  <2> QED BY <1>1, <2>1, NativeWords
<1>8. PICK f : IsBytes(f, WordBytes(bytes, w + 1), WordSize) /\ NativeWord(bytes, w + 1) = f[WordSize]
  BY <1>7, NativeWordValue
<1>9. PICK g \in [0..(WordSize - 1) -> Octets] : g = WordBytes(bytes, w + 1)
  BY <1>7, WordBytesIn
<1>10. k \in 0..(WordSize - 1) /\ WordSize \in Nat
  BY <1>3, <1>4
<1>11. DigitAt(f[WordSize], k) = g[k]
  BY <1>8, <1>9, <1>10, DigitsOfBytes
<1>12. g[k] = ByteAt(bytes, place)
  <2>1. g[k] = ByteAt(bytes, ((w + 1) - 1) * WordSize + k)
    BY <1>9, <1>10 DEF WordBytes
  <2>2. (w + 1) - 1 = w
    OBVIOUS
  <2> QED BY <1>3, <1>4, <2>1, <2>2, Zenon
<1> QED BY <1>1, <1>6, <1>7, <1>8, <1>11, <1>12

\* Read as a number and written again, bytes come out as they were.
LEMMA BytesInOut ==
    ASSUME NEW bytes \in Seq(Octets)
    PROVE  BigEndian(Len(bytes), Val(BytesToNative(bytes))) = bytes
<1>1. PICK len \in Nat : len = Len(bytes)
  BY LenProperties
<1>2. ASSUME NEW i \in 1..len PROVE DigitAt(Val(BytesToNative(bytes)), len - i) = bytes[i]
  <2>1. len - i \in Nat /\ len - i < len /\ len - (len - i) = i
    OBVIOUS
  <2>2. DigitAt(Val(BytesToNative(bytes)), len - i) = ByteAt(bytes, len - i)
    BY <1>1, <2>1, ByteOfNative
  <2> QED BY <1>1, <2>1, <2>2 DEF ByteAt
<1>3. bytes = [i \in 1..len |-> bytes[i]]
  BY <1>1, LenProperties
<1> QED BY <1>1, <1>2, <1>3 DEF BigEndian

\* Written as bytes and read again, a number comes out as it was.
LEMMA BytesOutIn ==
    ASSUME NEW len \in Nat, NEW x \in Nat, x < Place(len)
    PROVE  /\ BytesToNative(BigEndian(len, x)) = Digits(WordsFor(len), x)
           /\ Val(Digits(WordsFor(len), x)) = x
           /\ BigEndian(len, x) \in Seq(Octets) /\ Len(BigEndian(len, x)) = len
<1>1. PICK count \in Nat : count = WordsFor(len) /\ len <= count * WordSize /\ count * WordSize \in Nat
  BY WordPlaces
<1>2. PICK v \in Seq(Word) : v = Digits(count, x) /\ Len(v) = count /\ Val(v) = x
  <2>1. Place(len) <= Place(count * WordSize) /\ Place(len) \in Nat /\ Place(count * WordSize) \in Nat
    BY <1>1, PlacesGrow
  <2>2. Weight(count) = Place(count * WordSize)
    BY WordPlaces
  <2>3. x < Weight(count)
    BY <2>1, <2>2
  <2> QED BY <2>3, DigitsValue
<1>3. PICK bytes \in Seq(Octets) : bytes = BigEndian(len, x) /\ Len(bytes) = len
  BY <1>1, <1>2, BytesOut
<1>4. ASSUME NEW place \in Nat PROVE ByteAt(bytes, place) = DigitAt(x, place)
  <2>1. CASE place < len
    <3>1. len - place \in 1..len /\ len - (len - place) = place
      BY <2>1
    <3> QED BY <1>3, <2>1, <3>1 DEF ByteAt, BigEndian
  <2>2. CASE len <= place
    <3>1. Place(len) <= Place(place) /\ Place(len) \in Nat /\ Place(place) \in Nat
      BY <2>2, PlacesGrow
    <3>2. x < Place(place)
      BY <3>1
    <3>3. DigitAt(x, place) = 0
      BY <3>2, DigitIn
    <3>4. ~(place < Len(bytes))
      BY <1>3, <2>2
    <3> QED BY <3>3, <3>4 DEF ByteAt
  <2> QED BY <2>1, <2>2
<1>5. ASSUME NEW w \in 1..count PROVE NativeWord(bytes, w) = v[w]
  <2>1. w \in Nat \ {0} /\ w - 1 \in Nat /\ w - 1 < Len(v) /\ (w - 1) + 1 = w /\ w \in 1..Len(v)
    BY <1>2
  <2>2. PICK f : IsBytes(f, WordBytes(bytes, w), WordSize) /\ NativeWord(bytes, w) = f[WordSize]
    BY <2>1, NativeWordValue
  <2>3. PICK g \in [0..(WordSize - 1) -> Octets] : g = WordBytes(bytes, w)
    BY <2>1, WordBytesIn
  <2>4. WordSize \in Nat /\ Place(WordSize) = W /\ W \in Nat \ {0}
    BY Places, WordSizes
  <2>5. v[w] \in Nat /\ v[w] < W
    <3>1. v[w] \in Word
      BY <2>1, ElementOfSeq
    <3> QED BY <2>4, <3>1 DEF Word
  <2>6. ASSUME NEW k \in 0..(WordSize - 1) PROVE g[k] = DigitAt(v[w], k)
    <3>1. k \in Nat /\ k < WordSize
      BY <2>4
    <3>2. DigitAt(v[w], k) = DigitAt(x, (w - 1) * WordSize + k)
      BY <1>2, <2>1, <3>1, DigitOfWord
    <3>3. (w - 1) * WordSize + k \in Nat
      <4>1. (w - 1) * WordSize \in Nat
        BY <2>1, WordPlaces
      <4> QED BY <3>1, <4>1
    <3>4. g[k] = ByteAt(bytes, (w - 1) * WordSize + k)
      BY <2>3 DEF WordBytes
    <3> QED BY <1>4, <3>2, <3>3, <3>4
  <2>7. f[WordSize] = (v[w] % Place(WordSize))
    BY <2>2, <2>3, <2>4, <2>5, <2>6, BytesOfNumber
  <2>8. (v[w] % W) = v[w]
    <3>1. PICK t \in Nat, ww \in Nat \ {0} : t = v[w] /\ ww = W /\ t < ww
      BY <2>4, <2>5
    <3>2. (t % ww) = t
      BY <3>1, RemainderNear
    <3> QED BY <3>1, <3>2
  <2> QED BY <2>2, <2>4, <2>7, <2>8
<1>6. BytesToNative(bytes) = [w \in 1..count |-> v[w]]
  BY <1>1, <1>3, <1>5, NativeWords
<1>7. v = [w \in 1..count |-> v[w]]
  BY <1>2, LenProperties
<1> QED BY <1>1, <1>2, <1>3, <1>6, <1>7

------------------------------------------------------------------------------
(* Keys on the wire *)

\* A coordinate on the wire.
CoordinateBytes(x) == NativeToBytes(num_bytes, Digits(NumWords, x))

\* A field element fills its words.
LEMMA FieldRoom ==
    /\ num_bytes \in Nat /\ num_bytes = NumWords * WordSize /\ WordsFor(num_bytes) = NumWords
    /\ NumWords \in Nat
    /\ p < Place(num_bytes) /\ p \in Nat /\ Place(num_bytes) \in Nat
<1>1. PICK words \in Nat, ws \in Nat \ {0} : words = NumWords /\ ws = WordSize
  <2>1. NumWords \in Nat /\ WordSize \in Nat \ {0}
    BY WordSizes, Places
  <2> QED BY <2>1
<1>2. num_bytes = words * ws
  BY <1>1 DEF num_bytes
<1>3. words * ws \in Nat
  OBVIOUS
<1>4. (words * ws + ws - 1) \div ws = words
  <2>1. PICK r \in Nat : r = ws - 1 /\ r < ws
    OBVIOUS
  <2>2. (words * ws + r) \div ws = words
    BY <2>1, Division
  <2>3. words * ws + ws - 1 = words * ws + r
    BY <1>3, <2>1
  <2> QED BY <2>2, <2>3
<1>5. WordsFor(num_bytes) = NumWords
  BY <1>1, <1>2, <1>4 DEF WordsFor
<1>6. Weight(NumWords) = Place(num_bytes)
  BY <1>1, <1>2, WordPlaces
<1>7. p < Weight(NumWords) /\ p \in Nat
  BY FieldSize
<1>8. Place(num_bytes) \in Nat
  BY <1>2, <1>3, Places
<1> QED BY <1>1, <1>2, <1>3, <1>5, <1>6, <1>7, <1>8

\* A coordinate is written in num_bytes bytes, and read back as it was.
LEMMA CoordinateRead ==
    ASSUME NEW x \in Field
    PROVE  /\ CoordinateBytes(x) \in Seq(Octets) /\ Len(CoordinateBytes(x)) = num_bytes
           /\ CoordinateBytes(x) = BigEndian(num_bytes, x)
           /\ Val(BytesToNative(CoordinateBytes(x))) = x
<1>1. PICK v \in Seq(Word) : v = Digits(NumWords, x) /\ Len(v) = NumWords /\ Val(v) = x
  BY FieldSize DEF Field, D
<1>2. x \in Nat /\ x < Place(num_bytes)
  BY FieldRoom DEF Field
<1>3. num_bytes <= Len(v) * WordSize
  <2>1. Len(v) * WordSize = num_bytes
    BY <1>1, FieldRoom
  <2> QED BY <2>1, FieldRoom
<1>4. CoordinateBytes(x) = BigEndian(num_bytes, x)
  BY <1>1, <1>3, BytesOut, FieldRoom DEF CoordinateBytes
<1>5. /\ BytesToNative(BigEndian(num_bytes, x)) = Digits(WordsFor(num_bytes), x)
      /\ Val(Digits(WordsFor(num_bytes), x)) = x
      /\ BigEndian(num_bytes, x) \in Seq(Octets) /\ Len(BigEndian(num_bytes, x)) = num_bytes
  BY <1>2, FieldRoom, BytesOutIn
<1> QED BY <1>4, <1>5

\* Bytes that are read as a reduced coordinate are those it is written in.
LEMMA CoordinateWritten ==
    ASSUME NEW bytes \in Seq(Octets), Len(bytes) = num_bytes, Val(BytesToNative(bytes)) < p
    PROVE  /\ Val(BytesToNative(bytes)) \in Field
           /\ CoordinateBytes(Val(BytesToNative(bytes))) = bytes
<1>1. PICK x : x = Val(BytesToNative(bytes))
  OBVIOUS
<1>2. x \in Nat
  <2>1. BytesToNative(bytes) \in Seq(Word)
    BY NativeIn
  <2> QED BY <1>1, <2>1, UptoBound
<1>3. x \in Field
  BY <1>1, <1>2, FieldRoom DEF Field
<1>4. CoordinateBytes(x) = BigEndian(num_bytes, x)
  BY <1>3, CoordinateRead
<1>5. BigEndian(num_bytes, x) = bytes
  BY <1>1, BytesInOut
<1> QED BY <1>1, <1>3, <1>4, <1>5

\* Two halves of num_bytes bytes each.
LEMMA Halves ==
    ASSUME NEW bytes \in Seq(Octets), Len(bytes) = 2 * num_bytes
    PROVE  /\ SubSeq(bytes, 1, num_bytes) \in Seq(Octets)
           /\ Len(SubSeq(bytes, 1, num_bytes)) = num_bytes
           /\ SubSeq(bytes, num_bytes + 1, 2 * num_bytes) \in Seq(Octets)
           /\ Len(SubSeq(bytes, num_bytes + 1, 2 * num_bytes)) = num_bytes
           /\ SubSeq(bytes, 1, num_bytes) \o SubSeq(bytes, num_bytes + 1, 2 * num_bytes) = bytes
<1>1. PICK len \in Nat : len = num_bytes
  BY FieldRoom
<1>2. PICK lo : lo = SubSeq(bytes, 1, len)
  OBVIOUS
<1>3. PICK hi : hi = SubSeq(bytes, len + 1, 2 * len)
  OBVIOUS
<1>4. lo \in Seq(Octets) /\ Len(lo) = len /\ \A i \in 1..len : lo[i] = bytes[1 + i - 1]
  <2>1. 1 \in 1..(Len(bytes) + 1) /\ len \in (1 - 1)..Len(bytes) /\ len - 1 + 1 = len
    BY <1>1
  <2> QED BY <1>2, <2>1, PartOf
<1>5. hi \in Seq(Octets) /\ Len(hi) = len /\ \A i \in 1..len : hi[i] = bytes[(len + 1) + i - 1]
  <2>1. len + 1 \in 1..(Len(bytes) + 1) /\ 2 * len \in ((len + 1) - 1)..Len(bytes)
        /\ 2 * len - (len + 1) + 1 = len
    BY <1>1
  <2> QED BY <1>3, <2>1, PartOf
<1>6. PICK whole : whole = lo \o hi
  OBVIOUS
<1>7. /\ whole \in Seq(Octets) /\ Len(whole) = len + len
      /\ \A i \in 1..len : whole[i] = lo[i]
      /\ \A i \in 1..len : whole[len + i] = hi[i]
  <2>1. /\ whole \in Seq(Octets) /\ Len(whole) = Len(lo) + Len(hi)
        /\ \A i \in 1..Len(lo) : whole[i] = lo[i]
        /\ \A i \in 1..Len(hi) : whole[Len(lo) + i] = hi[i]
    <3>1. lo \in Seq(Octets) /\ hi \in Seq(Octets)
      BY <1>4, <1>5
    <3> QED BY <1>6, <3>1, ConcatParts
  <2> QED BY <1>4, <1>5, <2>1
<1>8. ASSUME NEW i \in 1..Len(bytes) PROVE whole[i] = bytes[i]
  <2>1. CASE i <= len
    <3>1. i \in 1..len /\ 1 + i - 1 = i
      BY <2>1
    <3> QED BY <1>4, <1>7, <3>1
  <2>2. CASE len < i
    <3>1. i - len \in 1..len /\ len + (i - len) = i /\ (len + 1) + (i - len) - 1 = i
      BY <1>1, <2>2
    <3>2. whole[len + (i - len)] = hi[i - len]
      BY <1>7, <3>1
    <3>3. hi[i - len] = bytes[(len + 1) + (i - len) - 1]
      BY <1>5, <3>1
    <3> QED BY <3>1, <3>2, <3>3
  <2> QED BY <2>1, <2>2
<1>9. Len(whole) = Len(bytes)
  BY <1>1, <1>7
<1>10. whole = bytes
  BY <1>7, <1>8, <1>9, SeqEqual
<1> QED BY <1>1, <1>2, <1>3, <1>4, <1>5, <1>6, <1>10

\* A point on the wire.
LEMMA PointRead ==
    ASSUME NEW P, P.x \in Field, P.y \in Field
    PROVE  /\ PointBytes(P) \in Seq(Octets) /\ Len(PointBytes(P)) = 2 * num_bytes
           /\ PointOf(PointBytes(P)) = [x |-> P.x, y |-> P.y]
<1>1. PICK lo \in Seq(Octets), hi \in Seq(Octets) : lo = CoordinateBytes(P.x) /\ hi = CoordinateBytes(P.y)
  BY CoordinateRead
<1>2. /\ Len(lo) = num_bytes /\ Len(hi) = num_bytes
      /\ Val(BytesToNative(lo)) = P.x /\ Val(BytesToNative(hi)) = P.y
  BY <1>1, CoordinateRead
<1>3. PICK whole : whole = lo \o hi
  OBVIOUS
<1>4. whole = PointBytes(P)
  BY <1>1, <1>3 DEF PointBytes, CoordinateBytes
<1>5. /\ whole \in Seq(Octets) /\ Len(whole) = Len(lo) + Len(hi)
      /\ SubSeq(whole, 1, Len(lo)) = lo /\ SubSeq(whole, Len(lo) + 1, Len(whole)) = hi
  BY <1>3, Joined
<1>6. Len(whole) = 2 * num_bytes
  BY <1>2, <1>5, FieldRoom
<1>7. SubSeq(whole, 1, num_bytes) = lo /\ SubSeq(whole, num_bytes + 1, 2 * num_bytes) = hi
  BY <1>2, <1>5, <1>6
<1>8. PointOf(whole) = [x |-> P.x, y |-> P.y]
  BY <1>2, <1>7 DEF PointOf
<1> QED BY <1>4, <1>5, <1>6, <1>8

\* Bytes read as a point.
LEMMA PointWritten ==
    ASSUME NEW bytes \in Seq(Octets), Len(bytes) = 2 * num_bytes
    PROVE  /\ PointOf(bytes).x \in Nat /\ PointOf(bytes).y \in Nat
           /\ PointOf(bytes) = [x |-> PointOf(bytes).x, y |-> PointOf(bytes).y]
           /\ PointOf(bytes).x < p /\ PointOf(bytes).y < p => PointBytes(PointOf(bytes)) = bytes
<1>1. PICK lo \in Seq(Octets), hi \in Seq(Octets) :
         /\ lo = SubSeq(bytes, 1, num_bytes) /\ hi = SubSeq(bytes, num_bytes + 1, 2 * num_bytes)
         /\ Len(lo) = num_bytes /\ Len(hi) = num_bytes /\ lo \o hi = bytes
  BY Halves
<1>2. PointOf(bytes) = [x |-> Val(BytesToNative(lo)), y |-> Val(BytesToNative(hi))]
  BY <1>1 DEF PointOf
<1>3. Val(BytesToNative(lo)) \in Nat /\ Val(BytesToNative(hi)) \in Nat
  <2>1. BytesToNative(lo) \in Seq(Word) /\ BytesToNative(hi) \in Seq(Word)
    BY NativeIn
  <2> QED BY <2>1, UptoBound
<1>4. PointOf(bytes).x = Val(BytesToNative(lo)) /\ PointOf(bytes).y = Val(BytesToNative(hi))
  BY <1>2
<1>5. ASSUME PointOf(bytes).x < p, PointOf(bytes).y < p PROVE PointBytes(PointOf(bytes)) = bytes
  <2>1. CoordinateBytes(PointOf(bytes).x) = lo /\ CoordinateBytes(PointOf(bytes).y) = hi
    BY <1>1, <1>4, <1>5, CoordinateWritten
  <2> QED BY <1>1, <2>1 DEF PointBytes, CoordinateBytes
<1> QED BY <1>2, <1>3, <1>4, <1>5

\* The bytes of a private key have room for the order, and fill its words.
LEMMA KeyRoom ==
    /\ num_n_bytes \in Nat /\ WordsFor(num_n_bytes) = num_n_words /\ num_n_words \in Nat
    /\ n < Place(num_n_bytes) /\ Place(num_n_bytes) \in Nat
<1>1. PICK wb \in Nat \ {0}, bb \in Nat \ {0}, ws \in Nat \ {0}, bits \in Nat :
         wb = WordBits /\ bb = ByteBits /\ ws = WordSize /\ bits = num_n_bits /\ bb * ws = wb
  <2>1. ByteBits \in Nat \ {0} /\ WordSize \in Nat \ {0} /\ ByteBits * WordSize = WordBits
    BY Places
  <2>2. WordBits \in Nat \ {0} /\ num_n_bits \in Nat
    BY VliAssumption, OrderBits
  <2> QED BY <2>1, <2>2
<1>2. PICK len \in Nat : len = num_n_bytes /\ bits <= len * bb /\ len * bb < bits + bb
  <2>1. PICK x \in Nat : x = bits + bb - 1
    OBVIOUS
  <2>2. PICK q \in Nat, r \in Nat : q = x \div bb /\ r < bb /\ x = q * bb + r
    BY Divided
  <2>3. PICK u \in Nat : u = q * bb
    OBVIOUS
  <2>4. bits <= u /\ u < bits + bb
    BY <2>1, <2>2, <2>3
  <2>5. q = num_n_bytes
    BY <1>1, <2>1, <2>2 DEF num_n_bytes
  <2> QED BY <2>3, <2>4, <2>5
<1>3. PICK full \in Nat : full = len * bb
  OBVIOUS
<1>4. PICK count \in Nat : count = WordsFor(len) /\ len <= count * ws /\ count * ws < len + ws
  BY <1>1, WordPlaces
<1>5. PICK top \in Nat : top = count * wb /\ full <= top /\ top < bits + wb
  <2>1. PICK u \in Nat : u = count * ws /\ len <= u /\ u <= len + ws - 1
    BY <1>4
  <2>2. PICK h \in Nat : h = ws - 1
    OBVIOUS
  <2>3. len * bb <= u * bb
    BY <2>1, ProductsGrow
  <2>4. u * bb <= (len + h) * bb
    <3>1. u <= len + h /\ len + h \in Nat
      BY <2>1, <2>2
    <3> QED BY <3>1, ProductsGrow
  <2>5. (len + h) * bb = len * bb + h * bb
    OBVIOUS
  <2>6. h * bb + bb = bb * (h + 1) /\ h + 1 = ws
    BY <2>2
  <2>7. PICK t \in Nat : t = h * bb /\ t + bb = wb
    <3>1. h * bb \in Nat
      OBVIOUS
    <3> QED BY <1>1, <2>6, <3>1
  <2>8. u * bb = count * wb /\ u * bb \in Nat
    <3>1. (count * ws) * bb = count * (bb * ws) /\ u * bb \in Nat
      OBVIOUS
    <3> QED BY <1>1, <2>1, <3>1, Zenon
  <2>9. PICK top \in Nat : top = u * bb
    BY <2>8
  <2>10. full <= top /\ top <= full + t
    BY <1>3, <2>3, <2>4, <2>5, <2>7, <2>9
  <2>11. top < bits + wb
    BY <1>2, <1>3, <2>7, <2>10
  <2> QED BY <2>8, <2>9, <2>10, <2>11
<1>6. count = num_n_words
  <2>1. PICK r \in Nat : bits + wb - 1 = top + r /\ r < wb
    <3>1. bits + wb - 1 - top \in Nat /\ bits + wb - 1 - top < wb
      BY <1>2, <1>3, <1>5
    <3>2. bits + wb - 1 = top + (bits + wb - 1 - top)
      OBVIOUS
    <3> QED BY <3>1, <3>2
  <2>2. (count * wb + r) \div wb = count
    BY <2>1, Division
  <2>3. (bits + wb - 1) \div wb = count
    BY <1>5, <2>1, <2>2
  <2> QED BY <1>1, <2>3 DEF num_n_words
<1>7. n < Place(len) /\ Place(len) \in Nat
  <2>1. bits <= full
    BY <1>2, <1>3
  <2>2. Pow2[bits] <= Pow2[full] /\ Pow2[bits] \in Nat /\ Pow2[full] \in Nat
    BY <2>1, PowersGrow
  <2>3. n < Pow2[bits] /\ n \in Nat
    BY <1>1, OrderBits, OrderPrime
  <2>4. Place(len) = Pow2[full]
    <3>1. bb * len = len * bb
      OBVIOUS
    <3> QED BY <1>1, <1>3, <3>1 DEF Place
  <2> QED BY <2>2, <2>3, <2>4
<1> QED BY <1>2, <1>4, <1>6, <1>7

\* A private key, from its bytes.
LEMMA PrivateRead ==
    ASSUME NEW k \in 1..(n - 1)
    PROVE  /\ BytesToNative(PrivateBytes(k)) = Digits(num_n_words, k)
           /\ Digits(num_n_words, k) \in Seq(Word) /\ Len(Digits(num_n_words, k)) = num_n_words
           /\ Val(Digits(num_n_words, k)) = k
<1>1. k \in Nat /\ k < Place(num_n_bytes) /\ k < Weight(num_n_words)
  <2>1. n \in Nat /\ n < Weight(num_n_words) /\ Weight(num_n_words) \in Nat
    BY OrderPrime, OrderRoom, Weights
  <2> QED BY <2>1, KeyRoom
<1>2. PICK v \in Seq(Word) : v = Digits(num_n_words, k) /\ Len(v) = num_n_words /\ Val(v) = k
  BY <1>1, KeyRoom, DigitsValue
<1>3. num_n_bytes <= Len(v) * WordSize
  BY <1>2, KeyRoom, WordPlaces
<1>4. PrivateBytes(k) = BigEndian(num_n_bytes, k)
  BY <1>2, <1>3, KeyRoom, BytesOut DEF PrivateBytes
<1>5. BytesToNative(BigEndian(num_n_bytes, k)) = Digits(num_n_words, k)
  BY <1>1, KeyRoom, BytesOutIn
<1> QED BY <1>2, <1>4, <1>5

------------------------------------------------------------------------------
(* Multiples of the reference *)

\* The sums of one, two, ... times the same point.
Sums(f, k, P) ==
    /\ f[0] = Ref!Infinity
    /\ \A i \in 1..k : f[i] = Ref!Sum(f[i - 1], P)

\* Multiple adds up; any other function that does gives the same.
LEMMA MultipleAdds ==
    ASSUME NEW k \in Nat, NEW P, NEW f, f = [i \in 0..k |-> f[i]], Sums(f, k, P)
    PROVE  Ref!Multiple(k, P) = f[k]
<1> DEFINE Eqn(h) == h = [i \in 0..k |-> IF i = 0 THEN Ref!Infinity ELSE Ref!Sum(h[i - 1], P)]
<1>1. Eqn(f)
  <2>1. \A i \in 0..k : i = 0 \/ i \in 1..k
    OBVIOUS
  <2>2. \A i \in 1..k : i # 0
    OBVIOUS
  <2>3. \A i \in 0..k : f[i] = IF i = 0 THEN Ref!Infinity ELSE Ref!Sum(f[i - 1], P)
    BY <2>1, <2>2, Zenon DEF Sums
  <2> QED BY <2>3, Zenon
<1>2. PICK h : Eqn(h) /\ h = CHOOSE h1 : Eqn(h1)
  <2> HIDE DEF Eqn
  <2> QED BY <1>1, Zenon
<1>3. h[0] = Ref!Infinity /\ \A i \in 1..k : h[i] = Ref!Sum(h[i - 1], P)
  <2>1. 0 \in 0..k /\ \A i \in 1..k : i \in 0..k /\ i # 0
    OBVIOUS
  <2> QED BY <1>2, <2>1, Zenon
<1>4. \A i \in 0..k : h[i] = f[i]
  <2> DEFINE T == {i \in 0..k : h[i] # f[i]}
  <2> SUFFICES ASSUME T # {} PROVE FALSE
    OBVIOUS
  <2>1. T \in SUBSET Nat
    OBVIOUS
  <2>2. PICK i \in T : \A j \in T : i <= j
    BY <2>1, LeastOf
  <2>3. h[0] = f[0]
    BY <1>3 DEF Sums
  <2>4. i \in 1..k /\ i - 1 \in 0..k /\ i - 1 \notin T
    BY <2>2, <2>3
  <2>5. h[i - 1] = f[i - 1]
    BY <2>4
  <2>6. h[i] = f[i]
    BY <1>3, <2>4, <2>5, Zenon DEF Sums
  <2> QED BY <2>2, <2>6
<1>5. Ref!Multiple(k, P) = (CHOOSE h1 : Eqn(h1))[k]
  BY Zenon DEF Ref!Multiple
<1>6. h[k] = f[k]
  BY <1>4
<1> QED
  <2> HIDE DEF Eqn
  <2> QED BY <1>2, <1>5, <1>6, Zenon

\* The base point is its own first multiple.
LEMMA BasePoint == Multiples[1] = G /\ 1 \in 1..(n - 1)
<1> DEFINE f == [i \in 0..1 |-> IF i = 0 THEN Ref!Infinity ELSE G]
<1>1. f[0] = Ref!Infinity /\ f[1] = G /\ f = [i \in 0..1 |-> f[i]]
  OBVIOUS
<1> HIDE DEF f
<1>2. Ref!Sum(Ref!Infinity, G) = G
  BY DEF Ref!Sum
<1>3. Sums(f, 1, G)
  <2>1. \A i \in 1..1 : i = 1 /\ i - 1 = 0
    OBVIOUS
  <2> QED BY <1>1, <1>2, <2>1, Zenon DEF Sums
<1>4. Ref!Multiple(1, G) = G
  BY <1>1, <1>3, MultipleAdds
<1>5. 1 \in 1..(n - 1)
  BY OrderPrime
<1> QED BY <1>4, <1>5 DEF Multiples

\* Multiples of multiples.
LEMMA MultipleOfPoint ==
    ASSUME NEW k \in 1..(n - 1), NEW m \in 1..(n - 1)
    PROVE  Ref!Multiple(k, Multiples[m]) = M(k, m)
<1>1. n \in Nat /\ k \in Nat /\ k < n /\ n > 3
  BY OrderPrime
<1> DEFINE f == [i \in 0..k |-> IF i = 0 THEN Ref!Infinity ELSE M(i, m)]
<1>2. f[0] = Ref!Infinity /\ (\A i \in 1..k : f[i] = M(i, m)) /\ f = [i \in 0..k |-> f[i]] /\ f[k] = M(k, m)
  BY <1>1
<1> HIDE DEF f
<1>3. ASSUME NEW c \in 1..(n - 1) PROVE ~Cong(c, 0, n)
  BY <1>1, BetweenMultiples
<1>4. M(1, m) = Multiples[m]
  <2>1. 1 * m = m /\ m \in Int /\ 0 <= m /\ m < n
    BY <1>1
  <2>2. (m % n) = m
    BY <1>1, <2>1, RemainderNear
  <2> QED BY <2>1, <2>2 DEF M, Index
<1>5. ASSUME NEW i \in 1..k PROVE f[i] = Ref!Sum(f[i - 1], Multiples[m])
  <2>1. CASE i = 1
    <3>1. i - 1 = 0
      BY <2>1
    <3>2. Ref!Sum(Ref!Infinity, Multiples[m]) = Multiples[m]
      BY DEF Ref!Sum
    <3> QED BY <1>2, <1>4, <2>1, <3>1, <3>2, Zenon
  <2>2. CASE i # 1
    <3>1. i - 1 \in 1..k /\ i - 1 \in 1..(n - 1) /\ i \in 1..(n - 1) /\ 1 \in 1..(n - 1)
          /\ i - 1 \in Int /\ 1 \in Int /\ (i - 1) + 1 = i
      BY <1>1, <2>2
    <3>2. ~Cong(i - 1, 0, n) /\ ~Cong(1, 0, n) /\ ~Cong((i - 1) + 1, 0, n)
      BY <1>3, <3>1
    <3>3. Ref!Sum(M(i - 1, m), M(1, m)) = M((i - 1) + 1, m)
      BY <3>1, <3>2, MSum
    <3> QED BY <1>2, <1>4, <3>1, <3>3, Zenon
  <2> QED BY <2>1, <2>2
<1>6. Sums(f, k, Multiples[m])
  BY <1>2, <1>5 DEF Sums
<1> QED BY <1>1, <1>2, <1>6, MultipleAdds

------------------------------------------------------------------------------
(* Key generation and key agreement *)

\* The product of a key and a point.
LEMMA KeyTimesPoint ==
    ASSUME NEW k \in 1..(n - 1), NEW m \in 1..(n - 1), NEW z \in Field, z # 0
    PROVE  EccPoint_mult(Multiples[m], Regularize(Digits(num_n_words, k)), z, num_n_bits + 1)
             = IF Exceptional(Regular(k)) \/ Multiples[m].x = 0 THEN Zero ELSE M(k, m)
<1>1. PICK v \in Seq(Word) : v = Digits(num_n_words, k) /\ Len(v) = num_n_words /\ Val(v) = k
  BY PrivateRead
<1>2. EccPoint_mult(Multiples[m], Regularize(v), z, num_n_bits + 1)
        = IF Exceptional(Regular(k)) \/ Multiples[m].x = 0 THEN Zero ELSE Multiples[(k * m) % n]
  BY <1>1, LadderMultiplies
<1> QED BY <1>1, <1>2, Zenon DEF M, Index

\* The exception of EccPoint_mult concerns at most three of the private keys
\* that uECC_make_key may draw: 1 and the two next to the order.
THEOREM ExceptionalKeys ==
    ASSUME NEW k \in 1..(n - 1), Exceptional(Regular(k))
    PROVE  k \in {1, n - 2, n - 1}
<1>1. PICK s \in Nat, q \in Nat : s = Regular(k) /\ q = s \div 4 /\ 2 * q + 1 = n
  <2>1. PICK s \in Nat : s = Regular(k)
    BY RegularNumber
  <2>2. s \div 4 \in Nat
    OBVIOUS
  <2> QED BY <2>1, <2>2 DEF Exceptional
<1>2. 4 * q <= s /\ s <= 4 * q + 3
  BY <1>1
<1>3. n \in Nat /\ n > 3 /\ k \in Nat
  BY OrderPrime
<1>4. s = k + n \/ s = k + 2 * n
  BY <1>1 DEF Regular
<1> QED BY <1>1, <1>2, <1>3, <1>4

\* A key that has a public key is none of the exceptional ones.
LEMMA OurKeys ==
    ASSUME NEW k \in 1..(n - 1), NEW z \in Field, z # 0,
           PublicKey(Digits(num_n_words, k), z) # Zero
    PROVE  /\ ~Exceptional(Regular(k))
           /\ PublicKey(Digits(num_n_words, k), z) = Multiples[k]
<1>1. PublicKey(Digits(num_n_words, k), z)
        = IF Exceptional(Regular(k)) \/ Multiples[1].x = 0 THEN Zero ELSE M(k, 1)
  BY BasePoint, KeyTimesPoint DEF PublicKey
<1>2. M(k, 1) = Multiples[k]
  <2>1. k * 1 = k /\ k \in Int /\ 0 <= k /\ k < n /\ n \in Nat \ {0}
    BY OrderPrime
  <2>2. (k % n) = k
    BY <2>1, RemainderNear
  <2> QED BY <2>1, <2>2 DEF M, Index
<1> QED BY <1>1, <1>2

\* The bytes of a point's multiple, read back.
LEMMA MultipleRead ==
    ASSUME NEW m \in 1..(n - 1)
    PROVE  /\ PointBytes(Multiples[m]) \in Seq(Octets) /\ Len(PointBytes(Multiples[m])) = 2 * num_bytes
           /\ PointOf(PointBytes(Multiples[m])) = Multiples[m]
<1>1. Multiples[m].x \in Field /\ Multiples[m].y \in Field
      /\ Multiples[m] = [x |-> Multiples[m].x, y |-> Multiples[m].y]
  BY PointFields
<1> QED BY <1>1, PointRead

\* What uECC_shared_secret computes from the bytes of a point.
LEMMA SharedProduct ==
    ASSUME NEW k \in 1..(n - 1), NEW m \in 1..(n - 1), NEW z \in Field, z # 0,
           ~Exceptional(Regular(k))
    PROVE  /\ SharedPoint(PointBytes(Multiples[m]), PrivateBytes(k), z)
                = IF Multiples[m].x = 0 THEN Zero ELSE M(k, m)
           /\ M(k, m).x \in Field
<1>1. SharedPoint(PointBytes(Multiples[m]), PrivateBytes(k), z)
        = EccPoint_mult(Multiples[m], Regularize(Digits(num_n_words, k)), z, num_n_bits + 1)
  BY MultipleRead, PrivateRead, Zenon DEF SharedPoint
<1>2. M(k, m).x \in Field
  <2>1. k \in Int /\ ~Cong(k, 0, n)
    BY OrderPrime, BetweenMultiples
  <2> QED BY <2>1, MPoint
<1> QED BY <1>1, <1>2, KeyTimesPoint

\* The public keys of the curve, and no others, are valid.
LEMMA ValidKeys ==
    /\ \A m \in 1..(n - 1) : ValidPublicKey(PointBytes(Multiples[m]))
    /\ \A bytes \in Seq(Octets) :
         Len(bytes) = 2 * num_bytes /\ ValidPublicKey(bytes)
           => \E m \in 1..(n - 1) : bytes = PointBytes(Multiples[m])
<1>1. ASSUME NEW m \in 1..(n - 1) PROVE ValidPublicKey(PointBytes(Multiples[m]))
  <2>1. PICK P : P = Multiples[m] /\ PointOf(PointBytes(Multiples[m])) = P
    BY MultipleRead
  <2>2. P.x \in Field /\ P.y \in Field /\ P.y # 0 /\ Square(P.y) = XSide(P.x)
    BY <2>1, PointFields, Ordinate
  <2>3. P.x < p /\ P.y < p
    BY <2>2, FieldPrime DEF Field
  <2>4. P # Zero
    BY <2>2 DEF Zero
  <2> QED BY <2>1, <2>2, <2>3, <2>4 DEF ValidPublicKey
<1>2. ASSUME NEW bytes \in Seq(Octets), Len(bytes) = 2 * num_bytes, ValidPublicKey(bytes)
      PROVE  \E m \in 1..(n - 1) : bytes = PointBytes(Multiples[m])
  <2>1. PICK P : P = PointOf(bytes)
    OBVIOUS
  <2>2. P.x < p /\ P.y < p /\ Square(P.y) = XSide(P.x)
    BY <1>2, <2>1 DEF ValidPublicKey
  <2>3. P.x \in Nat /\ P.y \in Nat /\ P = [x |-> P.x, y |-> P.y] /\ PointBytes(P) = bytes
    BY <1>2, <2>1, <2>2, PointWritten
  <2>4. P.x \in 0..(p - 1) /\ P.y \in 0..(p - 1)
    BY <2>2, <2>3, FieldPrime
  <2>5. P \in [x : 0..(p - 1), y : 0..(p - 1)]
    BY <2>3, <2>4
  <2>6. P \in Points
    BY <2>2, <2>5, OnTheCurve
  <2>7. PICK m \in 1..(n - 1) : P = Multiples[m]
    BY <2>6, CurveAssumption
  <2> QED BY <2>3, <2>7
<1> QED BY <1>1, <1>2

\* What the draws give.
LEMMA Drawn ==
    /\ \A k \in Ks \cap RandomInts(n) : k \in 1..(n - 1)
    /\ \A z \in Zs \cap RandomInts(p) : z \in Field /\ z # 0
<1>1. ASSUME NEW k \in Ks \cap RandomInts(n) PROVE k \in 1..(n - 1)
  <2>1. k \in Nat
    BY EcdhAssumption
  <2>2. k # 0 /\ n > k
    BY DEF RandomInts
  <2> QED BY <2>1, <2>2, OrderPrime
<1>2. ASSUME NEW z \in Zs \cap RandomInts(p) PROVE z \in Field /\ z # 0
  <2>1. z \in Nat
    BY EcdhAssumption
  <2>2. z # 0 /\ p > z
    BY DEF RandomInts
  <2> QED BY <2>1, <2>2, FieldPrime DEF Field
<1> QED BY <1>1, <1>2

------------------------------------------------------------------------------
(* The context *)

\* The context exists from the generation of the key to the shared secret, and
\* the pointer says so until the handshake has ended.
ContextInv ==
    /\ pc \in {"keygen", "later"} => ecdh = "NULL" /\ heap = 0
    /\ pc \in {"send", "wait", "secret"} => ecdh = "ctx" /\ heap = 1
    /\ pc = "done" => heap = 0
    /\ pc \in {"keygen", "send", "wait", "secret", "later", "done"}

\* Every exit leaves nothing allocated.
LEMMA DoneReleases ==
    ASSUME ContextInv, pc # "done", NEW code, Done(code)
    PROVE  ContextInv'
BY DEF ContextInv, Done

\* Every step keeps count of the context.
LEMMA StepReleases == ContextInv /\ [Next]_vars => ContextInv'
<1> SUFFICES ASSUME ContextInv, [Next]_vars PROVE ContextInv'
  OBVIOUS
<1>1. CASE \E d \in Ks, z \in Zs : GenKeypair(d, z)
  BY <1>1 DEF GenKeypair, ContextInv
<1>2. CASE GenKeypairFails \/ SendOrWaitFails \/ ReplyRejected \/ InvalidPoint
           \/ SharedSecretFails \/ RestOfHandshake
  <2>1. pc # "done" /\ \E code : Done(code)
    BY <1>2 DEF GenKeypairFails, SendOrWaitFails, ReplyRejected, InvalidPoint,
                SharedSecretFails, RestOfHandshake
  <2>2. QED BY <2>1, DoneReleases
<1>3. CASE SendPublicKey
  BY <1>3 DEF SendPublicKey, ContextInv
<1>4. CASE HonestReply \/ OtherReply
  BY <1>4 DEF HonestReply, OtherReply, Take, ContextInv
<1>5. CASE \E z \in Zs : SharedSecret(z)
  BY <1>5 DEF SharedSecret, ContextInv
<1>6. CASE UNCHANGED vars
  BY <1>6 DEF vars, ContextInv
<1>7. QED BY <1>1, <1>2, <1>3, <1>4, <1>5, <1>6 DEF Next

\* Whatever fails and whatever the station sends, the context is freed exactly
\* once and the pointer never dangles.
THEOREM ContextAlwaysReleased == Spec => []ContextReleased
<1>1. Init => ContextInv
  BY DEF Init, ContextInv
<1>2. ContextInv => ContextReleased
  BY DEF ContextInv, ContextReleased
<1>3. QED BY <1>1, <1>2, StepReleases, PTL DEF Spec

------------------------------------------------------------------------------
(* Replies *)

\* A reply whose key can be taken out of it.
Received(bytes) == bytes \in Seq(Nat) /\ \A i \in 4..Len(bytes) : bytes[i] \in Octets

\* The key in a reply.
KeyIn(bytes) == SubSeq(bytes, 4, 3 + 2 * num_bytes)

\* Whether the handshake looks at it.
Readable(bytes) ==
    /\ Len(bytes) >= 3 /\ bytes[1] = 1
    /\ SupportedCurve(bytes[3]) /\ Len(bytes) >= 3 + 2 * num_bytes

\* The key in a reply is a string of bytes.
LEMMA KeyInReply ==
    ASSUME NEW bytes, Received(bytes), Len(bytes) >= 3 + 2 * num_bytes
    PROVE  KeyIn(bytes) \in Seq(Octets) /\ Len(KeyIn(bytes)) = 2 * num_bytes
<1>1. PICK len \in Nat : len = 2 * num_bytes
  BY FieldRoom
<1>2. bytes \in Seq(Nat) /\ Len(bytes) \in Nat /\ Len(bytes) >= 3 + len
  BY <1>1, LenProperties DEF Received
<1>3. PICK part : part = SubSeq(bytes, 4, 3 + len)
  OBVIOUS
<1>4. part \in Seq(Nat) /\ Len(part) = len /\ \A i \in 1..len : part[i] = bytes[4 + i - 1]
  <2>1. 4 \in 1..(Len(bytes) + 1) /\ 3 + len \in (4 - 1)..Len(bytes) /\ (3 + len) - 4 + 1 = len
    BY <1>2
  <2> QED BY <1>2, <1>3, <2>1, PartOf
<1>5. ASSUME NEW i \in 1..len PROVE part[i] \in Octets
  <2>1. 4 + i - 1 \in 4..Len(bytes)
    BY <1>2
  <2> QED BY <1>4, <2>1 DEF Received
<1>6. part = [i \in 1..len |-> part[i]]
  BY <1>4, LenProperties
<1>7. part \in [1..len -> Octets]
  BY <1>5, <1>6
<1>8. part \in Seq(Octets)
  BY <1>7, SeqDef
<1> QED BY <1>1, <1>3, <1>4, <1>8 DEF KeyIn

\* What a station that follows the protocol sends.
LEMMA HonestBytes ==
    ASSUME NEW m \in 1..(n - 1), NEW rest \in Seq(Octets), NEW bytes,
           bytes = Header(0) \o PointBytes(Multiples[m]) \o rest
    PROVE  Received(bytes) /\ Readable(bytes) /\ KeyIn(bytes) = PointBytes(Multiples[m])
<1>1. PICK key \in Seq(Octets) : key = PointBytes(Multiples[m]) /\ Len(key) = 2 * num_bytes
  BY MultipleRead
<1>2. PICK len \in Nat : len = 2 * num_bytes
  BY FieldRoom
<1>3. Octets \subseteq Nat
  <2>1. Octets = 0..(Base - 1) /\ Base \in Nat
    BY Places
  <2> QED BY <2>1
<1>4. PICK k1 \in Seq(Nat), r1 \in Seq(Nat) : k1 = key /\ r1 = rest
  <2>1. key \in Seq(Nat)
    BY <1>3, SeqWider
  <2>2. rest \in Seq(Nat)
    BY <1>3, SeqWider
  <2> QED BY <2>1, <2>2
<1>5. PICK head \in Seq(Nat) : head = Header(0) /\ Len(head) = 3 /\ head[1] = 1 /\ head[3] = 0
  <2>1. <<1, 0, 0>> \in Seq(Nat) /\ Len(<<1, 0, 0>>) = 3
    OBVIOUS
  <2>2. <<1, 0, 0>>[1] = 1 /\ <<1, 0, 0>>[3] = 0
    OBVIOUS
  <2> QED BY <2>1, <2>2, Zenon DEF Header
<1>6. PICK begin \in Seq(Nat) : begin = head \o k1
  <2>1. head \o k1 \in Seq(Nat)
    BY ConcatParts
  <2> QED BY <2>1
<1>7. /\ Len(begin) = 3 + len
      /\ \A i \in 1..3 : begin[i] = head[i]
      /\ \A i \in 1..len : begin[3 + i] = key[i]
  <2>1. /\ Len(begin) = Len(head) + Len(k1)
        /\ \A i \in 1..Len(head) : begin[i] = head[i]
        /\ \A i \in 1..Len(k1) : begin[Len(head) + i] = k1[i]
    BY <1>6, ConcatParts
  <2> QED BY <1>1, <1>2, <1>4, <1>5, <2>1
<1>8. bytes = begin \o r1
  BY <1>1, <1>4, <1>5, <1>6
<1>b. PICK got \in Seq(Nat) : got = bytes
  <2>1. begin \o r1 \in Seq(Nat)
    BY ConcatParts
  <2> QED BY <1>8, <2>1
<1>9. /\ Len(rest) \in Nat /\ Len(got) = (3 + len) + Len(rest)
      /\ \A i \in 1..(3 + len) : got[i] = begin[i]
      /\ \A i \in 1..Len(rest) : got[(3 + len) + i] = rest[i]
  <2>1. /\ Len(r1) \in Nat /\ Len(begin \o r1) = Len(begin) + Len(r1)
        /\ \A i \in 1..Len(begin) : (begin \o r1)[i] = begin[i]
        /\ \A i \in 1..Len(r1) : (begin \o r1)[Len(begin) + i] = r1[i]
    BY ConcatParts
  <2>2. got = begin \o r1
    BY <1>8, <1>b
  <2> QED BY <1>4, <1>7, <2>1, <2>2, Zenon
<1>10. ASSUME NEW i \in 1..len PROVE got[3 + i] = key[i] /\ key[i] \in Octets
  <2>1. 3 + i \in 1..(3 + len)
    OBVIOUS
  <2>2. i \in 1..Len(key)
    BY <1>1, <1>2
  <2> QED BY <1>7, <1>9, <2>1, <2>2, ElementOfSeq
<1>11. ASSUME NEW i \in 4..Len(got) PROVE got[i] \in Octets
  <2>1. CASE i <= 3 + len
    <3>1. i - 3 \in 1..len /\ 3 + (i - 3) = i
      BY <2>1
    <3> QED BY <1>10, <3>1
  <2>2. CASE 3 + len < i
    <3>1. i - (3 + len) \in 1..Len(rest) /\ (3 + len) + (i - (3 + len)) = i
      BY <1>9, <2>2
    <3>2. rest[i - (3 + len)] \in Octets
      BY <3>1, ElementOfSeq
    <3> QED BY <1>9, <3>1, <3>2
  <2> QED BY <2>1, <2>2
<1>12. got[1] = 1 /\ got[3] = 0
  <2>1. 1 \in 1..3 /\ 3 \in 1..3 /\ 1 \in 1..(3 + len) /\ 3 \in 1..(3 + len)
    OBVIOUS
  <2> QED BY <1>5, <1>7, <1>9, <2>1
<1>13. Readable(got)
  <2>1. Len(got) >= 3 /\ Len(got) >= 3 + 2 * num_bytes
    <3>a. Len(rest) \in Nat /\ Len(got) = (3 + len) + Len(rest)
      BY <1>9, Zenon
    <3>b. PICK more \in Nat : more = Len(rest)
      BY <3>a, Zenon
    <3>1. PICK size \in Nat : size = Len(got) /\ size = (3 + len) + more
      <4>1. (3 + len) + more \in Nat
        OBVIOUS
      <4>2. Len(got) = (3 + len) + more
        BY <3>a, <3>b, Zenon
      <4> QED BY <4>1, <4>2, Zenon
    <3>2. size >= 3 /\ size >= 3 + len
      BY <3>1
    <3> QED BY <1>2, <3>1, <3>2, Zenon
  <2>2. SupportedCurve(0)
    BY DEF SupportedCurve
  <2> QED BY <1>12, <2>1, <2>2 DEF Readable
<1>14. Received(got)
  BY <1>9, <1>11 DEF Received
<1>15. PICK part \in Seq(Octets) : part = KeyIn(got) /\ Len(part) = len
  <2>1. Len(got) >= 3 + 2 * num_bytes
    BY <1>13 DEF Readable
  <2> QED BY <1>2, <1>14, <2>1, KeyInReply
<1>16. part = key
  <2>1. 4 \in 1..(Len(got) + 1) /\ 3 + len \in (4 - 1)..Len(got) /\ (3 + len) - 4 + 1 = len
    BY <1>9
  <2>2. \A i \in 1..len : SubSeq(got, 4, 3 + len)[i] = got[4 + i - 1]
    BY <1>9, <2>1, PartOf
  <2>3. part = SubSeq(got, 4, 3 + len)
    BY <1>2, <1>15 DEF KeyIn
  <2>4. \A i \in 1..len : 4 + i - 1 = 3 + i
    OBVIOUS
  <2>5. \A i \in 1..len : part[i] = key[i]
    BY <1>10, <2>2, <2>3, <2>4
  <2>6. Len(part) = Len(key)
    BY <1>1, <1>2, <1>15
  <2>7. \A i \in 1..Len(part) : part[i] = key[i]
    BY <1>15, <2>5
  <2> QED BY <2>6, <2>7, SeqEqual
<1> QED BY <1>1, <1>b, <1>13, <1>14, <1>15, <1>16

------------------------------------------------------------------------------
(* The two keys and the secret *)

\* Our key pair belongs to one number, which is no exception of the ladder.
OwnKey(k) ==
    /\ k \in 1..(n - 1) /\ ~Exceptional(Regular(k))
    /\ priv = PrivateBytes(k) /\ our_pub = PointBytes(Multiples[k])

\* The reply is that of a station that follows the protocol, if there is one.
HonestKey == e # 0 => e \in 1..(n - 1) /\ Readable(reply) /\ KeyIn(reply) = PointBytes(Multiples[e])

\* The secret is that of our key and the station's.
Agreed(k) == our_pub = PointBytes(Multiples[k]) /\ shared_secret = CoordinateBytes(M(k, e).x)

\* From the key pair to the secret, what is kept belongs together.
KeysInv ==
    /\ pc \in {"keygen", "send", "wait", "secret", "later", "done"}
    /\ pc \in {"keygen", "send", "wait"} => e = 0
    /\ pc \in {"send", "wait", "secret"} => \E k \in 1..(n - 1) : OwnKey(k)
    /\ pc = "secret" => Received(reply) /\ HonestKey
    /\ pc = "later" => \E m \in 1..(n - 1) : KeyIn(reply) = PointBytes(Multiples[m])
    /\ pc = "later" /\ e # 0 => e \in 1..(n - 1) /\ \E k \in 1..(n - 1) : Agreed(k)
    /\ HonestPeerAccepted

\* Where the handshake ends, with a code.
Refusals == {"INVALID_RESPONSE", "NOT_SUPPORTED", "INVALID_SIZE", "INVALID_ARG", "FAIL"}

\* An exit keeps the invariant if it is not a refusal, or one with a reason.
LEMMA DoneKeepsKeys ==
    ASSUME NEW code, Done(code),
           code \in Refusals /\ e # 0 => gaveup' \/ Multiples[e].x = 0
    PROVE  KeysInv'
<1>1. pc' = "done" /\ err' = code /\ e' = e
  BY DEF Done
<1>2. HonestPeerAccepted'
  BY <1>1 DEF HonestPeerAccepted, Refusals
<1> QED BY <1>1, <1>2 DEF KeysInv

\* What the handshake looks at.
LEMMA AcceptableIsReadable ==
    /\ Acceptable <=> Readable(reply)
    /\ ReplyKey = KeyIn(reply)
BY DEF Acceptable, IsKeyReply, Readable, ReplyKey, KeyIn

\* Every step keeps that.
LEMMA StepKeepsKeys == KeysInv /\ [Next]_vars => KeysInv'
<1> SUFFICES ASSUME KeysInv, [Next]_vars PROVE KeysInv'
  OBVIOUS
<1>1. CASE \E d \in Ks \cap RandomInts(n), z \in Zs \cap RandomInts(p) : GenKeypair(d, z)
  <2>1. PICK d \in Ks \cap RandomInts(n), z \in Zs \cap RandomInts(p) : GenKeypair(d, z)
    BY <1>1
  <2>2. d \in 1..(n - 1) /\ z \in Field /\ z # 0
    BY Drawn
  <2>3. PICK P : /\ P = PublicKey(Digits(num_n_words, d), z) /\ P # Zero
                 /\ our_pub' = PointBytes(P)
    BY <2>1 DEF GenKeypair
  <2>4. ~Exceptional(Regular(d)) /\ P = Multiples[d]
    BY <2>2, <2>3, OurKeys
  <2>5. pc = "keygen" /\ pc' = "send" /\ priv' = PrivateBytes(d) /\ e' = e
    BY <2>1 DEF GenKeypair
  <2>6. OwnKey(d)'
    BY <2>2, <2>3, <2>4, <2>5 DEF OwnKey
  <2> QED BY <2>2, <2>5, <2>6 DEF KeysInv, HonestPeerAccepted
<1>2. CASE GenKeypairFails
  <2>1. pc = "keygen" /\ \E code : Done(code)
    BY <1>2 DEF GenKeypairFails
  <2>2. e = 0
    BY <2>1 DEF KeysInv
  <2> QED BY <2>1, <2>2, DoneKeepsKeys
<1>3. CASE SendPublicKey
  BY <1>3 DEF SendPublicKey, KeysInv, OwnKey, HonestPeerAccepted
<1>4. CASE SendOrWaitFails
  <2>1. PICK code \in {"SEND", "TIMEOUT"} : Done(code)
    BY <1>4 DEF SendOrWaitFails
  <2>2. code \notin Refusals
    BY DEF Refusals
  <2> QED BY <2>1, <2>2, DoneKeepsKeys
<1>5. CASE HonestReply
  <2>1. PICK peer \in Peers : /\ Take(Header(0) \o PointBytes(peer.point) \o peer.rest)
                              /\ e' = peer.key
    BY <1>5 DEF HonestReply
  <2>2. peer.key \in 1..(n - 1) /\ peer.point = Multiples[peer.key] /\ peer.rest \in Seq(Octets)
    BY EcdhAssumption
  <2>3. PICK m \in 1..(n - 1), rest \in Seq(Octets) : m = peer.key /\ rest = peer.rest
    BY <2>2
  <2>4. reply' = Header(0) \o PointBytes(Multiples[m]) \o rest /\ e' = m
    BY <2>1, <2>2, <2>3 DEF Take
  <2>5. Received(reply') /\ Readable(reply') /\ KeyIn(reply') = PointBytes(Multiples[m])
    BY <2>4, HonestBytes
  <2>6. pc = "wait" /\ pc' = "secret" /\ UNCHANGED <<priv, our_pub>>
    BY <1>5, <2>1 DEF HonestReply, Take
  <2>7. \E k \in 1..(n - 1) : OwnKey(k)'
    BY <2>6 DEF KeysInv, OwnKey
  <2>8. HonestKey'
    BY <2>4, <2>5 DEF HonestKey
  <2> QED BY <2>5, <2>6, <2>7, <2>8 DEF KeysInv, HonestPeerAccepted
<1>6. CASE OtherReply
  <2>1. PICK bytes \in Replies : Take(bytes) /\ UNCHANGED e
    BY <1>6 DEF OtherReply
  <2>2. Received(bytes)
    BY EcdhAssumption DEF Received
  <2>3. pc = "wait" /\ pc' = "secret" /\ reply' = bytes /\ UNCHANGED <<priv, our_pub, e>>
    BY <1>6, <2>1 DEF OtherReply, Take
  <2>4. \E k \in 1..(n - 1) : OwnKey(k)'
    BY <2>3 DEF KeysInv, OwnKey
  <2>5. e' = 0
    BY <2>3 DEF KeysInv
  <2> QED BY <2>2, <2>3, <2>4, <2>5 DEF KeysInv, HonestKey, HonestPeerAccepted
<1>7. CASE ReplyRejected
  <2>1. pc = "secret" /\ ~Acceptable /\ \E code : Done(code)
    BY <1>7 DEF ReplyRejected
  <2>2. e = 0
    BY <2>1, AcceptableIsReadable DEF KeysInv, HonestKey
  <2> QED BY <2>1, <2>2, DoneKeepsKeys
<1>8. CASE InvalidPoint
  <2>1. pc = "secret" /\ ~ValidPublicKey(ReplyKey) /\ Done("INVALID_ARG")
    BY <1>8 DEF InvalidPoint
  <2>2. e = 0
    BY <2>1, AcceptableIsReadable, ValidKeys DEF KeysInv, HonestKey
  <2> QED BY <2>1, <2>2, DoneKeepsKeys
<1>9. CASE SharedSecretFails
  <2>1. /\ pc = "secret" /\ Done("FAIL")
        /\ gaveup' = TRUE \/ \E z \in Zs \cap RandomInts(p) : SharedPoint(ReplyKey, priv, z) = Zero
    BY <1>9 DEF SharedSecretFails
  <2>2. ASSUME e # 0, NEW z \in Zs \cap RandomInts(p), SharedPoint(ReplyKey, priv, z) = Zero
        PROVE  Multiples[e].x = 0
    <3>1. e \in 1..(n - 1) /\ ReplyKey = PointBytes(Multiples[e])
      BY <2>1, <2>2, AcceptableIsReadable DEF KeysInv, HonestKey
    <3>2. PICK k \in 1..(n - 1) : OwnKey(k)
      BY <2>1 DEF KeysInv
    <3>3. ~Exceptional(Regular(k)) /\ priv = PrivateBytes(k)
      BY <3>2 DEF OwnKey
    <3>4. z \in Field /\ z # 0
      BY Drawn
    <3>5. PICK m \in 1..(n - 1) : m = e
      BY <3>1
    <3>6. SharedPoint(PointBytes(Multiples[m]), PrivateBytes(k), z)
            = IF Multiples[m].x = 0 THEN Zero ELSE M(k, m)
      BY <3>3, <3>4, SharedProduct
    <3>7. M(k, m) # Zero
      <4>1. k \in Int /\ ~Cong(k, 0, n)
        BY OrderPrime, BetweenMultiples
      <4>2. M(k, m).y # 0
        BY <4>1, MPoint
      <4> QED BY <4>2 DEF Zero
    <3> QED BY <2>2, <3>1, <3>3, <3>5, <3>6, <3>7
  <2>3. e # 0 => gaveup' \/ Multiples[e].x = 0
    BY <2>1, <2>2
  <2> QED BY <2>1, <2>3, DoneKeepsKeys
<1>10. CASE \E z \in Zs \cap RandomInts(p) : SharedSecret(z)
  <2>1. PICK z \in Zs \cap RandomInts(p) : SharedSecret(z)
    BY <1>10
  <2>2. /\ pc = "secret" /\ pc' = "later" /\ Acceptable /\ ValidPublicKey(ReplyKey)
        /\ UNCHANGED <<our_pub, reply, e>>
    BY <2>1 DEF SharedSecret
  <2>3. PICK P : /\ P = SharedPoint(ReplyKey, priv, z) /\ P # Zero
                 /\ shared_secret' = CoordinateBytes(P.x)
    BY <2>1 DEF SharedSecret, CoordinateBytes
  <2>4. PICK m \in 1..(n - 1) : ReplyKey = PointBytes(Multiples[m])
    <3>1. Len(reply) >= 3 + 2 * num_bytes /\ Received(reply)
      BY <2>2 DEF KeysInv, Acceptable
    <3>2. KeyIn(reply) \in Seq(Octets) /\ Len(KeyIn(reply)) = 2 * num_bytes
      BY <3>1, KeyInReply
    <3> QED BY <2>2, <3>2, AcceptableIsReadable, ValidKeys
  <2>5. KeyIn(reply') = PointBytes(Multiples[m])
    BY <2>2, <2>4, AcceptableIsReadable
  <2>6. ASSUME e # 0 PROVE e' \in 1..(n - 1) /\ \E k \in 1..(n - 1) : Agreed(k)'
    <3>1. e \in 1..(n - 1) /\ ReplyKey = PointBytes(Multiples[e])
      BY <2>2, <2>6, AcceptableIsReadable DEF KeysInv, HonestKey
    <3>2. PICK k \in 1..(n - 1) : OwnKey(k)
      BY <2>2 DEF KeysInv
    <3>3. ~Exceptional(Regular(k)) /\ priv = PrivateBytes(k) /\ our_pub = PointBytes(Multiples[k])
      BY <3>2 DEF OwnKey
    <3>4. z \in Field /\ z # 0
      BY Drawn
    <3>5. PICK c \in 1..(n - 1) : c = e
      BY <3>1
    <3>6. SharedPoint(PointBytes(Multiples[c]), PrivateBytes(k), z)
            = IF Multiples[c].x = 0 THEN Zero ELSE M(k, c)
      BY <3>3, <3>4, SharedProduct
    <3>7. P = M(k, e)
      BY <2>3, <3>1, <3>3, <3>5, <3>6
    <3>8. Agreed(k)'
      BY <2>2, <2>3, <3>3, <3>7 DEF Agreed
    <3> QED BY <2>2, <3>1, <3>8
  <2> QED BY <2>2, <2>5, <2>6 DEF KeysInv, HonestPeerAccepted
<1>11. CASE RestOfHandshake
  <2>1. Done("OK") /\ "OK" \notin Refusals
    BY <1>11 DEF RestOfHandshake, Refusals
  <2> QED BY <2>1, DoneKeepsKeys
<1>12. CASE UNCHANGED vars
  BY <1>12 DEF vars, KeysInv, OwnKey, HonestKey, Agreed, HonestPeerAccepted
<1> QED BY <1>1, <1>2, <1>3, <1>4, <1>5, <1>6, <1>7, <1>8, <1>9, <1>10, <1>11, <1>12 DEF Next

\* At the start there are no keys.
LEMMA KeysStart == Init => KeysInv
BY DEF Init, KeysInv, HonestPeerAccepted

\* Whatever arrives, a key that uECC_valid_public_key lets through is one of
\* the curve's public keys: a multiple of the base point, written as bytes.
THEOREM PointsAlwaysChecked == Spec => []OnlyPointsAccepted
<1>1. KeysInv => OnlyPointsAccepted
  <2> SUFFICES ASSUME KeysInv, pc = "later"
               PROVE  ReplyKey \in {PointBytes(Multiples[k]) : k \in DOMAIN Multiples}
    BY DEF OnlyPointsAccepted
  <2>1. PICK m \in 1..(n - 1) : KeyIn(reply) = PointBytes(Multiples[m])
    BY DEF KeysInv
  <2>2. DOMAIN Multiples = 1..(n - 1)
    BY DEF Multiples
  <2> QED BY <2>1, <2>2, AcceptableIsReadable
<1> QED BY <1>1, KeysStart, StepKeepsKeys, PTL DEF Spec

\* With any station that follows the protocol, uECC_shared_secret leaves the
\* secret that the station computes from our public key.
THEOREM SecretsAlwaysAgree == Spec => []SecretsAgree
<1>1. KeysInv => SecretsAgree
  <2> SUFFICES ASSUME KeysInv, pc = "later", e # 0
               PROVE  PointOf(shared_secret \o shared_secret).x = Ref!Multiple(e, PointOf(our_pub)).x
    BY DEF SecretsAgree
  <2>1. PICK k \in 1..(n - 1), c \in 1..(n - 1) : Agreed(k) /\ c = e
    BY DEF KeysInv
  <2>2. our_pub = PointBytes(Multiples[k]) /\ shared_secret = CoordinateBytes(M(k, c).x)
    BY <2>1 DEF Agreed
  <2>3. PointOf(our_pub) = Multiples[k]
    BY <2>2, MultipleRead
  <2>4. Ref!Multiple(c, Multiples[k]) = M(c, k)
    BY MultipleOfPoint
  <2>5. M(c, k) = M(k, c)
    <3>1. c * k = k * c
      OBVIOUS
    <3> QED BY <3>1 DEF M, Index
  <2>6. PICK x \in Field : x = M(k, c).x
    <3>1. k \in Int /\ ~Cong(k, 0, n)
      BY OrderPrime, BetweenMultiples
    <3> QED BY <3>1, MPoint
  <2>7. PointOf(shared_secret \o shared_secret).x = x
    <3>1. PICK P : P = [x |-> x, y |-> x]
      OBVIOUS
    <3>2. P.x = x /\ P.y = x
      BY <3>1
    <3>3. PointBytes(P) = shared_secret \o shared_secret
      BY <2>2, <2>6, <3>2 DEF PointBytes, CoordinateBytes
    <3>4. PointOf(PointBytes(P)) = [x |-> P.x, y |-> P.y]
      BY <3>2, PointRead
    <3> QED BY <3>2, <3>3, <3>4
  <2> QED BY <2>1, <2>3, <2>4, <2>5, <2>6, <2>7
<1> QED BY <1>1, KeysStart, StepKeepsKeys, PTL DEF Spec

\* A station that follows the protocol is refused only if the generator gave
\* up or its public key has x = 0: never for a key of ours, since uECC_make_key
\* draws again when the ladder returns Zero.
THEOREM HonestPeersAlwaysAccepted == Spec => []HonestPeerAccepted
<1>1. KeysInv => HonestPeerAccepted
  BY DEF KeysInv
<1> QED BY <1>1, KeysStart, StepKeepsKeys, PTL DEF Spec
==============================================================================
