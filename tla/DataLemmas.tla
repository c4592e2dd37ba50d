------------------------------ MODULE DataLemmas ------------------------------
(***************************************************************************)
(* Facts about numbers and byte strings that the proofs share.             *)
(***************************************************************************)
EXTENDS Powers, FiniteSets, Sequences, FiniteSetTheorems, SequenceTheorems, TLAPS

(***************************************************************************)
(* Induction without an operator parameter: a set of numbers that is not   *)
(* empty has a least element.  A statement that fails for some number      *)
(* fails for a least one, and holds for every number below that.           *)
(***************************************************************************)

\* Were there none, "no number up to k is in T" would pass from k to k + 1, and
\* the numbers it holds of, which are finitely many, would be as many as their
\* successors, zero not among them.
LEMMA LeastOf ==
  ASSUME NEW T \in SUBSET Nat, T # {}
  PROVE  \E x \in T : \A y \in T : x <= y
<1> SUFFICES ASSUME \A x \in T : \E y \in T : y < x
             PROVE  FALSE
  OBVIOUS
<1> DEFINE Below == {k \in Nat : \A j \in 0..k : j \notin T}
           Succ == [k \in Below |-> k + 1]
<1>1. PICK m \in T : TRUE
  OBVIOUS
<1>2. 0 \in Below
  OBVIOUS
<1>3. ASSUME NEW k \in Below PROVE k + 1 \in Below
  <2>1. \A j \in 0..(k + 1) : j \in 0..k \/ j = k + 1
    OBVIOUS
  <2>2. k + 1 \notin T
    <3> SUFFICES ASSUME k + 1 \in T PROVE FALSE
      OBVIOUS
    <3>1. PICK y \in T : y < k + 1
      OBVIOUS
    <3>2. y \in 0..k
      BY <3>1
    <3> QED BY <3>2
  <2> QED BY <2>1, <2>2
<1>4. Below \in SUBSET (0..m)
  OBVIOUS
<1>5. IsFiniteSet(Below)
  <2>1. IsFiniteSet(0..m)
    BY FS_Interval
  <2> HIDE DEF Below
  <2> QED BY <1>4, <2>1, FS_Subset
<1>6. Succ \in Injection(Below, Below)
  <2>1. Succ \in [Below -> Below]
    BY <1>3
  <2>2. \A a, b \in Below : Succ[a] = Succ[b] => a = b
    OBVIOUS
  <2> HIDE DEF Succ, Below
  <2> QED BY <2>1, <2>2 DEF Injection, IsInjective
<1>7. Succ \in Surjection(Below, Below)
  <2> HIDE DEF Succ, Below
  <2> QED BY <1>5, <1>6, FS_Injection
<1>8. PICK k \in Below : Succ[k] = 0
  <2> HIDE DEF Succ, Below
  <2> QED BY <1>2, <1>7 DEF Surjection
<1> QED BY <1>8

------------------------------------------------------------------------------
(* Byte strings *)

\* The elements of a concatenation, those of each part counted from its own start.
LEMMA ConcatParts ==
    ASSUME NEW S, NEW s \in Seq(S), NEW t \in Seq(S)
    PROVE  /\ s \o t \in Seq(S)
           /\ Len(s) \in Nat /\ Len(t) \in Nat /\ Len(s \o t) = Len(s) + Len(t)
           /\ \A i \in 1..Len(s) : (s \o t)[i] = s[i]
           /\ \A i \in 1..Len(t) : (s \o t)[Len(s) + i] = t[i]
<1>1. Len(s) \in Nat /\ Len(t) \in Nat
  BY LenProperties
<1>2. /\ s \o t \in Seq(S) /\ Len(s \o t) = Len(s) + Len(t)
      /\ \A i \in 1..(Len(s) + Len(t)) :
            (s \o t)[i] = IF i <= Len(s) THEN s[i] ELSE t[i - Len(s)]
  BY ConcatProperties
<1>3. \A i \in 1..Len(s) : i \in 1..(Len(s) + Len(t)) /\ i <= Len(s)
  BY <1>1
<1>4. \A i \in 1..Len(t) : /\ Len(s) + i \in 1..(Len(s) + Len(t)) /\ ~(Len(s) + i <= Len(s))
                           /\ (Len(s) + i) - Len(s) = i
  BY <1>1
<1> QED BY <1>1, <1>2, <1>3, <1>4

\* A part of a byte string, by length and elements.
LEMMA PartOf ==
    ASSUME NEW S, NEW s \in Seq(S), NEW m \in 1..(Len(s) + 1), NEW n \in (m - 1)..Len(s)
    PROVE  /\ SubSeq(s, m, n) \in Seq(S)
           /\ Len(SubSeq(s, m, n)) = n - m + 1
           /\ \A i \in 1..(n - m + 1) : SubSeq(s, m, n)[i] = s[m + i - 1]
<1>1. Len(s) \in Nat
  BY LenProperties
<1>2. m \in Int /\ n \in Int /\ (IF m <= n THEN n - m + 1 ELSE 0) = n - m + 1
  BY <1>1
<1>3. \A i \in m..n : i \in 1..Len(s)
  BY <1>1
<1>4. \A i \in m..n : s[i] \in S
  BY <1>3, ElementOfSeq
<1> QED BY <1>2, <1>4, SubSeqProperties

\* A beginning of a beginning.
LEMMA BeginningOf ==
    ASSUME NEW S, NEW s \in Seq(S), NEW n \in 0..Len(s), NEW m \in 0..n
    PROVE  /\ SubSeq(s, 1, n) \in Seq(S) /\ Len(SubSeq(s, 1, n)) = n
           /\ \A i \in 1..n : SubSeq(s, 1, n)[i] = s[i]
           /\ SubSeq(SubSeq(s, 1, n), 1, m) = SubSeq(s, 1, m)
<1>1. Len(s) \in Nat
  BY LenProperties
<1>b. PICK whole : whole = SubSeq(s, 1, n)
  OBVIOUS
<1>2. whole \in Seq(S) /\ Len(whole) = n /\ \A i \in 1..n : whole[i] = s[i]
  <2>1. 1 \in 1..(Len(s) + 1) /\ n \in (1 - 1)..Len(s) /\ n - 1 + 1 = n
    BY <1>1
  <2>2. whole \in Seq(S) /\ Len(whole) = n /\ \A i \in 1..n : whole[i] = s[1 + i - 1]
    BY <1>b, <2>1, PartOf
  <2>3. \A i \in 1..n : 1 + i - 1 = i
    BY <1>1
  <2> QED BY <2>2, <2>3
<1>p. PICK part : part = SubSeq(whole, 1, m)
  OBVIOUS
<1>q. PICK same : same = SubSeq(s, 1, m)
  OBVIOUS
<1>3. part \in Seq(S) /\ Len(part) = m /\ \A i \in 1..m : part[i] = whole[1 + i - 1]
  <2>1. 1 \in 1..(Len(whole) + 1) /\ m \in (1 - 1)..Len(whole) /\ m - 1 + 1 = m
    BY <1>1, <1>2
  <2> QED BY <1>2, <1>p, <2>1, PartOf
<1>4. same \in Seq(S) /\ Len(same) = m /\ \A i \in 1..m : same[i] = s[1 + i - 1]
  <2>1. 1 \in 1..(Len(s) + 1) /\ m \in (1 - 1)..Len(s) /\ m - 1 + 1 = m
    BY <1>1
  <2> QED BY <1>q, <2>1, PartOf
<1>5. \A i \in 1..m : part[i] = same[i]
  <2>1. \A i \in 1..m : i \in 1..n /\ 1 + i - 1 = i
    BY <1>1
  <2> QED BY <1>2, <1>3, <1>4, <2>1
<1>6. part = same
  BY <1>3, <1>4, <1>5, SeqEqual
<1> QED BY <1>2, <1>6, <1>b, <1>p, <1>q

\* Both parts of a concatenation are found in it.
LEMMA PartsFound ==
    ASSUME NEW S, NEW s \in Seq(S), NEW t \in Seq(S)
    PROVE  /\ SubSeq(s \o t, 1, Len(s)) = s
           /\ SubSeq(s \o t, Len(s) + 1, Len(s) + Len(t)) = t
<1>1. /\ s \o t \in Seq(S)
      /\ Len(s) \in Nat /\ Len(t) \in Nat /\ Len(s \o t) = Len(s) + Len(t)
      /\ \A i \in 1..Len(s) : (s \o t)[i] = s[i]
      /\ \A i \in 1..Len(t) : (s \o t)[Len(s) + i] = t[i]
  BY ConcatParts
<1>2. SubSeq(s \o t, 1, Len(s)) = s
  <2>1. 1 \in 1..(Len(s \o t) + 1) /\ Len(s) \in (1 - 1)..Len(s \o t)
    BY <1>1
  <2>2. /\ SubSeq(s \o t, 1, Len(s)) \in Seq(S)
        /\ Len(SubSeq(s \o t, 1, Len(s))) = Len(s) - 1 + 1
        /\ \A i \in 1..(Len(s) - 1 + 1) : SubSeq(s \o t, 1, Len(s))[i] = (s \o t)[1 + i - 1]
    BY <1>1, <2>1, PartOf
  <2>3. /\ Len(SubSeq(s \o t, 1, Len(s))) = Len(s)
        /\ \A i \in 1..Len(s) : i \in 1..(Len(s) - 1 + 1) /\ 1 + i - 1 = i
    BY <1>1, <2>2
  <2>4. \A i \in 1..Len(s) : SubSeq(s \o t, 1, Len(s))[i] = s[i]
    BY <1>1, <2>2, <2>3
  <2> HIDE <1>1
  <2> QED BY <2>2, <2>3, <2>4, SeqEqual
<1>3. SubSeq(s \o t, Len(s) + 1, Len(s) + Len(t)) = t
  <2> DEFINE part == SubSeq(s \o t, Len(s) + 1, Len(s) + Len(t))
  <2>1. /\ Len(s) + 1 \in 1..(Len(s \o t) + 1)
        /\ Len(s) + Len(t) \in (Len(s) + 1 - 1)..Len(s \o t)
        /\ (Len(s) + Len(t)) - (Len(s) + 1) + 1 = Len(t)
    BY <1>1
  <2>2. /\ part \in Seq(S) /\ Len(part) = Len(t)
        /\ \A i \in 1..Len(t) : part[i] = (s \o t)[Len(s) + 1 + i - 1]
    BY <1>1, <2>1, PartOf
  <2>3. \A i \in 1..Len(t) : Len(s) + 1 + i - 1 = Len(s) + i
    BY <1>1
  <2>4. \A i \in 1..Len(t) : part[i] = t[i]
    BY <1>1, <2>2, <2>3
  <2> HIDE DEF part
  <2> QED BY <2>2, <2>4, SeqEqual DEF part
<1> QED BY <1>2, <1>3

\* The same of a byte string known to be joined of two.
LEMMA Joined ==
    ASSUME NEW S, NEW s \in Seq(S), NEW t \in Seq(S), NEW c, c = s \o t
    PROVE  /\ c \in Seq(S)
           /\ Len(s) \in Nat /\ Len(t) \in Nat /\ Len(c) = Len(s) + Len(t)
           /\ \A i \in 1..Len(s) : c[i] = s[i]
           /\ \A i \in 1..Len(t) : c[Len(s) + i] = t[i]
           /\ SubSeq(c, 1, Len(s)) = s
           /\ SubSeq(c, Len(s) + 1, Len(c)) = t
<1>1. /\ s \o t \in Seq(S)
      /\ Len(s) \in Nat /\ Len(t) \in Nat /\ Len(s \o t) = Len(s) + Len(t)
      /\ \A i \in 1..Len(s) : (s \o t)[i] = s[i]
      /\ \A i \in 1..Len(t) : (s \o t)[Len(s) + i] = t[i]
  BY ConcatParts
<1>2. /\ SubSeq(s \o t, 1, Len(s)) = s
      /\ SubSeq(s \o t, Len(s) + 1, Len(s) + Len(t)) = t
  BY PartsFound
<1> QED BY <1>1, <1>2, Zenon

\* The first of three sequences can be cut out again.
LEMMA FirstOfThree ==
    ASSUME NEW S, NEW a \in Seq(S), NEW b \in Seq(S), NEW c \in Seq(S)
    PROVE  SubSeq((a \o b) \o c, 1, Len(a)) = a
<1>1. (a \o b) \o c = a \o (b \o c)
  BY ConcatAssociative
<1>2. b \o c \in Seq(S)
  BY ConcatProperties
<1>3. SubSeq(a \o (b \o c), 1, Len(a)) = a
  BY <1>2, PartsFound
<1> QED BY <1>1, <1>3

\* A part of the first of two byte strings is a part of both joined.
LEMMA PartInJoined ==
    ASSUME NEW S, NEW s \in Seq(S), NEW t \in Seq(S), NEW c, c = s \o t,
           NEW m \in 1..(Len(s) + 1), NEW n \in (m - 1)..Len(s)
    PROVE  SubSeq(c, m, n) = SubSeq(s, m, n)
<1>1. /\ c \in Seq(S) /\ Len(s) \in Nat /\ Len(t) \in Nat /\ Len(c) = Len(s) + Len(t)
      /\ \A i \in 1..Len(s) : c[i] = s[i]
  BY Joined
<1>2. m \in 1..(Len(c) + 1) /\ n \in (m - 1)..Len(c)
  BY <1>1
<1>3. \A i \in 1..(n - m + 1) : m + i - 1 \in 1..Len(s)
  BY <1>1
<1> DEFINE p == SubSeq(s, m, n)
           q == SubSeq(c, m, n)
<1>4. p \in Seq(S) /\ Len(p) = n - m + 1 /\ \A i \in 1..(n - m + 1) : p[i] = s[m + i - 1]
  BY PartOf
<1>5. q \in Seq(S) /\ Len(q) = n - m + 1 /\ \A i \in 1..(n - m + 1) : q[i] = c[m + i - 1]
  BY <1>1, <1>2, PartOf
<1> HIDE DEF p, q
<1>6. Len(p) = Len(q) /\ \A i \in 1..Len(p) : p[i] = q[i]
  BY <1>1, <1>3, <1>4, <1>5
<1>7. p = q
  BY <1>4, <1>5, <1>6, SeqEqual
<1> QED BY <1>7 DEF p, q

\* Where four parts of a byte string are found.
LEMMA FourJoined ==
    ASSUME NEW S, NEW start \in Seq(S), NEW rest \in Seq(S), NEW load \in Seq(S),
           NEW check \in Seq(S), NEW covered, covered = (start \o rest) \o load,
           NEW all, all = covered \o check
    PROVE  /\ all \in Seq(S) /\ Len(start) \in Nat /\ Len(rest) \in Nat /\ Len(load) \in Nat
           /\ Len(check) \in Nat /\ Len(all) = Len(covered) + Len(check)
           /\ Len(covered) = (Len(start) + Len(rest)) + Len(load)
           /\ \A i \in 1..Len(start) : all[i] = start[i]
           /\ \A i \in 1..Len(rest) : all[Len(start) + i] = rest[i]
           /\ \A i \in 1..Len(check) : all[Len(covered) + i] = check[i]
           /\ SubSeq(all, 1, Len(covered)) = covered
           /\ SubSeq(covered, 1, Len(start)) = start /\ SubSeq(all, 1, Len(start)) = start
           /\ SubSeq(all, (Len(start) + Len(rest)) + 1, Len(covered)) = load
<1> PICK header : header = start \o rest
  OBVIOUS
<1>1. /\ header \in Seq(S) /\ Len(start) \in Nat /\ Len(rest) \in Nat
      /\ Len(header) = Len(start) + Len(rest)
      /\ \A i \in 1..Len(start) : header[i] = start[i]
      /\ \A i \in 1..Len(rest) : header[Len(start) + i] = rest[i]
  BY Joined
<1>2. covered = header \o load
  OBVIOUS
<1>3. /\ covered \in Seq(S) /\ Len(load) \in Nat /\ Len(covered) = Len(header) + Len(load)
      /\ \A i \in 1..Len(header) : covered[i] = header[i]
      /\ SubSeq(covered, Len(header) + 1, Len(covered)) = load
  <2>1. header \in Seq(S)
    BY <1>1
  <2> QED BY <1>2, <2>1, Joined
<1>4. /\ all \in Seq(S) /\ Len(check) \in Nat /\ Len(all) = Len(covered) + Len(check)
      /\ \A i \in 1..Len(covered) : all[i] = covered[i]
      /\ \A i \in 1..Len(check) : all[Len(covered) + i] = check[i]
      /\ SubSeq(all, 1, Len(covered)) = covered
  <2>1. covered \in Seq(S)
    BY <1>3
  <2> QED BY <2>1, Joined, SMTT(30)
<1>5. \A i \in 1..Len(header) : all[i] = header[i]
  <2>1. \A i \in 1..Len(header) : i \in 1..Len(covered)
    BY <1>1, <1>3
  <2> QED BY <1>3, <1>4, <2>1
<1>6. /\ \A i \in 1..Len(start) : all[i] = start[i]
      /\ \A i \in 1..Len(rest) : all[Len(start) + i] = rest[i]
  <2>1. /\ \A i \in 1..Len(start) : i \in 1..Len(header)
        /\ \A i \in 1..Len(rest) : Len(start) + i \in 1..Len(header)
    BY <1>1
  <2> QED BY <1>1, <1>5, <2>1
<1>7. SubSeq(covered, 1, Len(start)) = start /\ SubSeq(all, 1, Len(start)) = start
  <2>1. SubSeq(covered, 1, Len(start)) = start
    BY FirstOfThree
  <2>2. 1 \in 1..(Len(covered) + 1) /\ Len(start) \in (1 - 1)..Len(covered)
    BY <1>1, <1>3
  <2>3. SubSeq(all, 1, Len(start)) = SubSeq(covered, 1, Len(start))
    <3>1. covered \in Seq(S)
      BY <1>3
    <3> QED BY <2>2, <3>1, PartInJoined
  <2> QED BY <2>1, <2>3
<1>8. SubSeq(all, Len(header) + 1, Len(covered)) = load
  <2>1. Len(header) + 1 \in 1..(Len(covered) + 1) /\ Len(covered) \in ((Len(header) + 1) - 1)..Len(covered)
    BY <1>1, <1>3
  <2>2. SubSeq(all, Len(header) + 1, Len(covered)) = SubSeq(covered, Len(header) + 1, Len(covered))
    <3>1. covered \in Seq(S)
      BY <1>3
    <3> QED BY <2>1, <3>1, PartInJoined
  <2> QED BY <1>3, <2>2
<1> QED BY <1>1, <1>3, <1>4, <1>6, <1>7, <1>8

\* A number of 16 bits is made up of the two bytes it is written as.
LEMMA TwoBytes ==
    ASSUME NEW v \in Nat, v < 65536
    PROVE  /\ v % 256 \in 0..255 /\ (v \div 256) % 256 \in 0..255
           /\ (v % 256) + 256 * ((v \div 256) % 256) = v
<1> DEFINE lo == v % 256
           hi == v \div 256
<1>1. lo \in 0..255 /\ hi \in 0..255 /\ lo + 256 * hi = v
  OBVIOUS
<1>2. \A x \in 0..255 : x % 256 = x
  OBVIOUS
<1> HIDE DEF lo, hi
<1>3. hi % 256 = hi
  BY <1>1, <1>2
<1> QED BY <1>1, <1>3 DEF lo, hi

------------------------------------------------------------------------------
(* Products *)

\* Products grow with their factors.
LEMMA ProductsGrow ==
    ASSUME NEW a \in Nat, NEW b \in Nat, NEW m \in Nat, a <= b
    PROVE  a * m \in Nat /\ b * m \in Nat /\ a * m <= b * m
<1>1. PICK d \in Nat : b = a + d
  <2>1. b - a \in Nat /\ b = a + (b - a)
    OBVIOUS
  <2> QED BY <2>1
<1>2. b * m = a * m + d * m
  BY <1>1
<1>3. a * m \in Nat /\ d * m \in Nat
  OBVIOUS
<1> QED BY <1>2, <1>3

\* A quotient and a remainder, once found, are the quotient and the remainder.
LEMMA Division ==
    ASSUME NEW q \in Nat, NEW m \in Nat, NEW r \in Nat, r < m
    PROVE  (q * m + r) % m = r /\ (q * m + r) \div m = q
OBVIOUS

\* What division gives.
LEMMA Divided ==
    ASSUME NEW x \in Nat, NEW m \in Nat \ {0}
    PROVE  /\ x \div m \in Nat /\ x % m \in Nat /\ x % m < m
           /\ x = (x \div m) * m + (x % m)
OBVIOUS

\* Remainders of numbers less than one modulus away from the range.
LEMMA RemainderNear ==
    ASSUME NEW x \in Int, NEW m \in Nat \ {0}
    PROVE  /\ 0 <= x /\ x < m => x % m = x
           /\ m <= x /\ x < m + m => x % m = x - m
           /\ -m <= x /\ x < 0 => x % m = x + m
<1>1. CASE 0 <= x /\ x < m
  BY <1>1
<1>2. CASE m <= x /\ x < m + m
  <2>1. PICK r \in Nat : r = x - m /\ r < m /\ x = 1 * m + r
    BY <1>2
  <2>2. x % m = r
    BY <2>1, Division
  <2> QED BY <1>2, <2>1, <2>2
<1>3. CASE -m <= x /\ x < 0
  BY <1>3
<1> QED BY <1>1, <1>2, <1>3

------------------------------------------------------------------------------
(* A sequence built element by element *)

\* A sequence is its beginnings, each one element longer than the last.
LEMMA GrowByAppend ==
    ASSUME NEW S, NEW h \in Seq(S)
    PROVE  /\ SubSeq(h, 1, 0) = <<>> /\ SubSeq(h, 1, Len(h)) = h
           /\ \A i \in 1..Len(h) : Append(SubSeq(h, 1, i - 1), h[i]) = SubSeq(h, 1, i)
<1>1. Len(h) \in Nat /\ h \in [1..Len(h) -> S]
  BY LenProperties
<1>2. \A i \in 0..Len(h) : /\ SubSeq(h, 1, i) \in Seq(S) /\ Len(SubSeq(h, 1, i)) = i
                            /\ \A j \in 1..i : SubSeq(h, 1, i)[j] = h[j]
  <2> SUFFICES ASSUME NEW i \in 0..Len(h)
               PROVE  /\ SubSeq(h, 1, i) \in Seq(S) /\ Len(SubSeq(h, 1, i)) = i
                      /\ \A j \in 1..i : SubSeq(h, 1, i)[j] = h[j]
    OBVIOUS
  <2>1. 0 \in 0..i
    OBVIOUS
  <2> QED BY <2>1, BeginningOf
<1>3. SubSeq(h, 1, 0) = <<>>
  <2>1. 0 \in 0..Len(h)
    BY <1>1
  <2>2. SubSeq(h, 1, 0) \in Seq(S) /\ Len(SubSeq(h, 1, 0)) = 0
    BY <1>2, <2>1
  <2> QED BY <2>2, EmptySeq
<1>4. SubSeq(h, 1, Len(h)) = h
  <2>1. Len(h) \in 0..Len(h)
    BY <1>1
  <2> QED BY <1>1, <1>2, <2>1, SeqEqual
<1>5. ASSUME NEW i \in 1..Len(h)
      PROVE  Append(SubSeq(h, 1, i - 1), h[i]) = SubSeq(h, 1, i)
  <2>1. i - 1 \in 0..Len(h) /\ i \in 0..Len(h) /\ h[i] \in S
    BY <1>1
  <2>2. PICK short \in Seq(S) : /\ short = SubSeq(h, 1, i - 1) /\ Len(short) = i - 1
                                /\ \A j \in 1..(i - 1) : short[j] = h[j]
    BY <1>2, <2>1
  <2>3. PICK long \in Seq(S) : /\ long = SubSeq(h, 1, i) /\ Len(long) = i
                               /\ \A j \in 1..i : long[j] = h[j]
    BY <1>2, <2>1
  <2>4. /\ Append(short, h[i]) \in Seq(S) /\ Len(Append(short, h[i])) = i
        /\ \A j \in 1..(i - 1) : Append(short, h[i])[j] = short[j]
        /\ Append(short, h[i])[i] = h[i]
    <3>1. /\ Append(short, h[i]) \in Seq(S) /\ Len(Append(short, h[i])) = Len(short) + 1
          /\ \A j \in 1..Len(short) : Append(short, h[i])[j] = short[j]
          /\ Append(short, h[i])[Len(short) + 1] = h[i]
      BY <2>1, AppendProperties
    <3>2. Len(short) + 1 = i
      BY <2>2
    <3> QED BY <2>2, <3>1, <3>2
  <2>5. \A j \in 1..i : Append(short, h[i])[j] = long[j]
    <3>1. \A j \in 1..i : j = i \/ j \in 1..(i - 1)
      OBVIOUS
    <3>2. i \in 1..i
      OBVIOUS
    <3> QED BY <2>2, <2>3, <2>4, <3>1, <3>2
  <2>6. Append(short, h[i]) = long
    BY <2>3, <2>4, <2>5, SeqEqual
  <2> QED BY <2>2, <2>3, <2>6
<1> QED BY <1>3, <1>4, <1>5

------------------------------------------------------------------------------
(* Recursion.  The step of a recursive function is a function too, so that *)
(* one lemma serves all of them.                                           *)

\* f begins with base and goes on by step, at least up to len.
Follows(f, S, base, step, len) ==
    /\ f \in [0..len -> S] /\ f[0] = base
    /\ \A i \in 1..len : f[i] = step[<<i, f[i - 1]>>]

\* There is such a function: the longest beginning can always be continued.
LEMMA RecursionUpTo ==
    ASSUME NEW S, NEW base \in S, NEW len \in Nat, NEW step \in [(1..len) \X S -> S]
    PROVE  \E f : Follows(f, S, base, step, len)
<1> USE DEF Follows
<1> DEFINE Good(f, m) == Follows(f, S, base, step, m)
           T == {m \in 0..len : ~ \E f : Good(f, m)}
<1> SUFFICES T = {}
  <2>1. len \in 0..len
    OBVIOUS
  <2> QED BY <2>1
<1> SUFFICES ASSUME T # {} PROVE FALSE
  OBVIOUS
<1>1. PICK m \in T : \A k \in T : m <= k
  <2>1. T \in SUBSET Nat
    OBVIOUS
  <2> HIDE DEF T
  <2> QED BY <2>1, LeastOf
<1>2. CASE m = 0
  <2>1. Good([i \in 0..0 |-> base], 0)
    OBVIOUS
  <2> QED BY <1>2, <2>1
<1>3. CASE m # 0
  <2>1. m \in 1..len /\ m - 1 \in 0..len /\ m - 1 \notin T
    <3>1. m \in 0..len
      OBVIOUS
    <3> HIDE DEF T
    <3>2. m \in 1..len /\ m - 1 \in 0..len /\ ~(m <= m - 1)
      BY <1>3, <3>1
    <3> QED BY <1>1, <3>2
  <2>2. PICK g : Good(g, m - 1)
    BY <2>1
  <2> DEFINE f == [i \in 0..m |-> IF i = m THEN step[<<m, g[m - 1]>>] ELSE g[i]]
  <2>3. m - 1 \in 0..(m - 1) /\ g[m - 1] \in S
    BY <2>1, <2>2
  <2>4. step[<<m, g[m - 1]>>] \in S
    BY <2>1, <2>3
  <2>5. \A i \in 0..(m - 1) : i \in 0..m /\ i # m /\ f[i] = g[i]
    BY <2>1
  <2>6. m \in 0..m /\ f[m] = step[<<m, g[m - 1]>>]
    BY <2>1
  <2>7. f \in [0..m -> S]
    <3>1. \A i \in 0..m : i = m \/ i \in 0..(m - 1)
      BY <2>1
    <3> QED BY <2>2, <2>4, <3>1
  <2>8. f[0] = base
    <3>1. 0 \in 0..(m - 1)
      BY <2>1
    <3> QED BY <2>2, <2>5, <3>1
  <2> HIDE DEF f
  <2>9. ASSUME NEW i \in 1..m PROVE f[i] = step[<<i, f[i - 1]>>]
    <3>1. CASE i = m
      BY <2>3, <2>5, <2>6, <3>1
    <3>2. CASE i # m
      <4>1. i \in 1..(m - 1) /\ i \in 0..(m - 1) /\ i - 1 \in 0..(m - 1)
        BY <2>1, <3>2
      <4>2. g[i] = step[<<i, g[i - 1]>>]
        BY <2>2, <4>1
      <4> QED BY <2>5, <4>1, <4>2
    <3> QED BY <3>1, <3>2
  <2>10. Good(f, m)
    BY <2>7, <2>8, <2>9
  <2> HIDE DEF Good
  <2> QED BY <2>10
<1> QED BY <1>2, <1>3

FollowsForever(f, S, base, step) ==
    /\ f \in [Nat -> S] /\ f[0] = base
    /\ \A i \in Nat \ {0} : f[i] = step[<<i, f[i - 1]>>]

\* The same over all numbers, put together from what begins it.
LEMMA Recursion ==
    ASSUME NEW S, NEW base \in S, NEW step \in [(Nat \ {0}) \X S -> S]
    PROVE  \E f : FollowsForever(f, S, base, step)
<1> DEFINE Good(f, m) == Follows(f, S, base, step, m)
           Part(m) == CHOOSE f : Good(f, m)
           whole == [m \in Nat |-> Part(m)[m]]
<1>1. ASSUME NEW m \in Nat PROVE Good(Part(m), m)
  <2> DEFINE begin == [a \in (1..m) \X S |-> step[a]]
  <2>1. begin \in [(1..m) \X S -> S]
    <3>1. \A a \in (1..m) \X S : a \in (Nat \ {0}) \X S
      OBVIOUS
    <3> QED BY <3>1
  <2>2. PICK f : Follows(f, S, base, begin, m)
    <3> HIDE DEF begin, Good, Part, whole
    <3> QED BY <2>1, RecursionUpTo
  <2> USE DEF Follows
  <2>3. ASSUME NEW i \in 1..m PROVE f[i] = step[<<i, f[i - 1]>>]
    <3>1. f[i - 1] \in S
      <4>1. i - 1 \in 0..m
        OBVIOUS
      <4> QED BY <2>2, <4>1
    <3>2. <<i, f[i - 1]>> \in (1..m) \X S
      BY <3>1
    <3> QED BY <2>2, <3>2
  <2>4. Good(f, m)
    BY <2>2, <2>3
  <2> HIDE DEF Good
  <2> QED BY <2>4
<1> USE DEF Follows
<1>2. ASSUME NEW m \in Nat, NEW f, NEW g, Good(f, m), Good(g, m + 1)
      PROVE  f[m] = g[m]
  <2> DEFINE T == {i \in 0..m : f[i] # g[i]}
  <2> SUFFICES T = {}
    OBVIOUS
  <2> SUFFICES ASSUME T # {} PROVE FALSE
    OBVIOUS
  <2>1. PICK i \in T : \A j \in T : i <= j
    <3>1. T \in SUBSET Nat
      OBVIOUS
    <3> HIDE DEF T
    <3> QED BY <3>1, LeastOf
  <2>2. i # 0
    BY <1>2
  <2>3. i \in 1..m /\ i \in 1..(m + 1) /\ i - 1 \in 0..m /\ i - 1 \notin T
    BY <2>1, <2>2
  <2>4. f[i - 1] = g[i - 1]
    BY <2>3
  <2>5. f[i] = step[<<i, f[i - 1]>>] /\ g[i] = step[<<i, g[i - 1]>>]
    BY <1>2, <2>3
  <2> QED BY <2>4, <2>5
<1>3. ASSUME NEW m \in Nat PROVE Part(m)[m] = Part(m + 1)[m]
  <2>0. m + 1 \in Nat
    OBVIOUS
  <2> HIDE DEF Good, Part
  <2>1. Good(Part(m), m) /\ Good(Part(m + 1), m + 1)
    BY <1>1, <2>0
  <2> QED BY <1>2, <2>1
<1>4. whole \in [Nat -> S]
  <2>1. \A m \in Nat : m \in 0..m
    OBVIOUS
  <2> QED BY <1>1, <2>1
<1>5. whole[0] = base
  BY <1>1
<1>6. ASSUME NEW i \in Nat \ {0} PROVE whole[i] = step[<<i, whole[i - 1]>>]
  <2>1. i - 1 \in Nat /\ (i - 1) + 1 = i /\ i \in 1..i
    OBVIOUS
  <2>2. whole[i - 1] = Part(i)[i - 1]
    <3> HIDE DEF Part
    <3> QED BY <1>3, <2>1
  <2>3. Part(i)[i] = step[<<i, Part(i)[i - 1]>>]
    <3>1. Good(Part(i), i)
      BY <1>1
    <3> HIDE DEF Part
    <3> QED BY <2>1, <3>1
  <2>4. whole[i] = Part(i)[i]
    OBVIOUS
  <2> HIDE DEF whole, Part
  <2> QED BY <2>2, <2>3, <2>4
<1> HIDE DEF whole
<1> QED BY <1>4, <1>5, <1>6 DEF FollowsForever

------------------------------------------------------------------------------
(* Numbers modulo a number, and modulo a prime *)

\* Numbers that differ by a multiple of q.
Cong(x, y, q) == \E k \in Int : x = y + k * q

\* A prime: no product of smaller numbers is a multiple of it.
Prime(q) == q \in Nat /\ q >= 2 /\ \A x, y \in 1..(q - 1) : (x * y) % q # 0

\* Congruence is an equivalence,
LEMMA CongRefl ==
    ASSUME NEW x \in Int, NEW q \in Nat
    PROVE  Cong(x, x, q)
<1>1. x = x + 0 * q
  OBVIOUS
<1> QED BY <1>1 DEF Cong

\* ... symmetric
LEMMA CongSym ==
    ASSUME NEW x \in Int, NEW y \in Int, NEW q \in Nat, Cong(x, y, q)
    PROVE  Cong(y, x, q)
<1>1. PICK k \in Int : x = y + k * q
  BY DEF Cong
<1>2. y = x + (-k) * q /\ -k \in Int
  <2>1. (-k) * q = -(k * q) /\ k * q \in Int
    OBVIOUS
  <2> QED BY <1>1, <2>1
<1> QED BY <1>2 DEF Cong

\* ... and transitive,
LEMMA CongTrans ==
    ASSUME NEW x \in Int, NEW y \in Int, NEW z \in Int, NEW q \in Nat,
           Cong(x, y, q), Cong(y, z, q)
    PROVE  Cong(x, z, q)
<1>1. PICK k \in Int : x = y + k * q
  BY DEF Cong
<1>2. PICK l \in Int : y = z + l * q
  BY DEF Cong
<1>3. (k + l) * q = k * q + l * q
  OBVIOUS
<1>4. x = z + (k + l) * q /\ k + l \in Int
  BY <1>1, <1>2, <1>3
<1> QED BY <1>4 DEF Cong

\* ... that sums, differences and products respect.
LEMMA CongOps ==
    ASSUME NEW a \in Int, NEW b1 \in Int, NEW c \in Int, NEW d \in Int, NEW q \in Nat,
           Cong(a, b1, q), Cong(c, d, q)
    PROVE  Cong(a + c, b1 + d, q) /\ Cong(a - c, b1 - d, q) /\ Cong(a * c, b1 * d, q)
<1>1. PICK k \in Int : a = b1 + k * q
  BY DEF Cong
<1>2. PICK l \in Int : c = d + l * q
  BY DEF Cong
<1>3. a + c = (b1 + d) + (k + l) * q /\ k + l \in Int
  <2>1. (k + l) * q = k * q + l * q
    OBVIOUS
  <2> QED BY <1>1, <1>2, <2>1
<1>4. a - c = (b1 - d) + (k - l) * q /\ k - l \in Int
  <2>1. (k - l) * q = k * q - l * q
    OBVIOUS
  <2> QED BY <1>1, <1>2, <2>1
<1>5. a * c = b1 * d + (b1 * l + k * d + k * l * q) * q /\ b1 * l + k * d + k * l * q \in Int
  <2>1. (b1 + k * q) * (d + l * q) = b1 * d + (b1 * l + k * d + k * l * q) * q
    OBVIOUS
  <2> QED BY <1>1, <1>2, <2>1
<1> QED BY <1>3, <1>4, <1>5 DEF Cong

\* A remainder is congruent to its number.
LEMMA CongMod ==
    ASSUME NEW x \in Int, NEW q \in Nat \ {0}
    PROVE  (x % q) \in 0..(q - 1) /\ Cong(x % q, x, q)
<1>1. (x % q) \in 0..(q - 1) /\ x = (x \div q) * q + (x % q) /\ x \div q \in Int
  OBVIOUS
<1>2. PICK d \in Int, r \in Int : d = x \div q /\ r = x % q
  BY <1>1
<1>3. r = x + (-d) * q
  <2>1. (-d) * q = -(d * q) /\ d * q \in Int /\ x = d * q + r
    BY <1>1, <1>2
  <2> QED BY <2>1
<1>4. -d \in Int
  OBVIOUS
<1> QED BY <1>1, <1>2, <1>3, <1>4 DEF Cong

\* Congruent numbers of one range are the same.
LEMMA CongNear ==
    ASSUME NEW q \in Nat, NEW x \in 0..(q - 1), NEW y \in 0..(q - 1), Cong(x, y, q)
    PROVE  x = y
<1>1. PICK k \in Int : x = y + k * q
  BY DEF Cong
<1>2. CASE k = 0
  <2>1. 0 * q = 0
    OBVIOUS
  <2> QED BY <1>1, <1>2, <2>1
<1>3. CASE k > 0
  <2>1. PICK o \in Nat : k = o + 1
    <3>1. k - 1 \in Nat /\ k = (k - 1) + 1
      BY <1>3
    <3> QED BY <3>1
  <2>2. k * q = o * q + q /\ o * q \in Nat
    BY <2>1
  <2>3. PICK v \in Nat : v = o * q
    BY <2>2
  <2> QED BY <1>1, <2>2, <2>3
<1>4. CASE k < 0
  <2>1. PICK o \in Nat : k = -o - 1
    <3>1. -k - 1 \in Nat /\ k = -(-k - 1) - 1
      BY <1>4
    <3> QED BY <3>1
  <2>2. k * q = -(o * q) - q /\ o * q \in Nat
    BY <2>1
  <2>3. PICK v \in Nat : v = o * q
    BY <2>2
  <2> QED BY <1>1, <2>2, <2>3
<1> QED BY <1>2, <1>3, <1>4

\* Congruent numbers have the same remainder.
LEMMA CongIsMod ==
    ASSUME NEW x \in Int, NEW y \in Int, NEW q \in Nat \ {0}
    PROVE  Cong(x, y, q) <=> (x % q) = (y % q)
<1>1. /\ (x % q) \in 0..(q - 1) /\ Cong(x % q, x, q) /\ Cong(x, x % q, q)
      /\ (y % q) \in 0..(q - 1) /\ Cong(y % q, y, q) /\ Cong(y, y % q, q)
  <2>1. (x % q) \in 0..(q - 1) /\ Cong(x % q, x, q) /\ (y % q) \in 0..(q - 1) /\ Cong(y % q, y, q)
    BY CongMod
  <2>2. (x % q) \in Int /\ (y % q) \in Int
    BY <2>1
  <2> QED BY <2>1, <2>2, CongSym
<1>2. (x % q) \in Int /\ (y % q) \in Int
  BY <1>1
<1>3. ASSUME Cong(x, y, q) PROVE (x % q) = (y % q)
  <2>1. Cong(x % q, y % q, q)
    BY <1>1, <1>2, <1>3, CongTrans
  <2> QED BY <1>1, <2>1, CongNear
<1>4. ASSUME (x % q) = (y % q) PROVE Cong(x, y, q)
  BY <1>1, <1>2, <1>4, CongTrans
<1> QED BY <1>3, <1>4

\* A product is a multiple of a prime only if a factor is.
LEMMA CongPrime ==
    ASSUME NEW q, Prime(q), NEW x \in Int, NEW y \in Int, Cong(x * y, 0, q)
    PROVE  Cong(x, 0, q) \/ Cong(y, 0, q)
<1>1. q \in Nat \ {0} /\ q \in Nat /\ 0 \in 0..(q - 1)
  BY DEF Prime
<1>2. PICK u \in 0..(q - 1), v \in 0..(q - 1) : Cong(u, x, q) /\ Cong(v, y, q)
  BY <1>1, CongMod
<1>3. u \in Int /\ v \in Int /\ u * v \in Int /\ x * y \in Int
  OBVIOUS
<1>4. Cong(u * v, 0, q)
  BY <1>1, <1>2, <1>3, CongOps, CongTrans
<1>5. (u * v) % q = 0
  <2>1. (u * v) % q = 0 % q
    BY <1>1, <1>3, <1>4, CongIsMod
  <2>2. 0 % q = 0
    BY <1>1, RemainderNear
  <2> QED BY <2>1, <2>2
<1>6. u = 0 \/ v = 0
  BY <1>1, <1>5 DEF Prime
<1> QED BY <1>1, <1>2, <1>6, CongSym

\* A factor that is no multiple of the prime cancels.
LEMMA CongCancel ==
    ASSUME NEW q, Prime(q), NEW x \in Int, NEW y \in Int, NEW c \in Int,
           Cong(c * x, c * y, q), ~Cong(c, 0, q)
    PROVE  Cong(x, y, q)
<1>1. q \in Nat
  BY DEF Prime
<1>2. PICK k \in Int : c * x = c * y + k * q
  BY DEF Cong
<1>3. c * (x - y) = 0 + k * q
  <2>1. c * (x - y) = c * x - c * y
    OBVIOUS
  <2> QED BY <1>1, <1>2, <2>1
<1>4. Cong(c * (x - y), 0, q)
  BY <1>3 DEF Cong
<1>5. Cong(x - y, 0, q)
  BY <1>1, <1>4, CongPrime
<1>6. PICK l \in Int : x - y = 0 + l * q
  BY <1>5 DEF Cong
<1>7. x = y + l * q
  BY <1>1, <1>6
<1> QED BY <1>7 DEF Cong

------------------------------------------------------------------------------
(* Digits and sequences *)

\* Division by a product, one factor at a time.
LEMMA OneMoreDigit ==
    ASSUME NEW x \in Nat, NEW m \in Nat \ {0}, NEW w \in Nat \ {0}
    PROVE  /\ x % (w * m) = (x % m) + ((x \div m) % w) * m
           /\ x \div (w * m) = (x \div m) \div w
<1>1. PICK quo \in Nat, rem \in Nat : quo = x \div m /\ rem = x % m /\ rem < m /\ x = quo * m + rem
  BY Divided
<1>2. PICK top \in Nat, d \in Nat : top = quo \div w /\ d = quo % w /\ d < w /\ quo = top * w + d
  BY Divided
<1>3. x = top * (w * m) + (d * m + rem)
  <2>1. quo * m = (top * w) * m + d * m
    BY <1>2
  <2>2. (top * w) * m = top * (w * m)
    BY <1>2
  <2> QED BY <1>1, <2>1, <2>2
<1>4. d * m + rem < w * m /\ d * m + rem \in Nat /\ w * m \in Nat
  <2>1. d * m <= (w - 1) * m /\ d * m \in Nat /\ w - 1 \in Nat
    BY <1>2, ProductsGrow
  <2>2. (w - 1) * m = w * m - m /\ w * m \in Nat
    OBVIOUS
  <2> QED BY <1>1, <2>1, <2>2
<1>5. PICK all \in Nat, low \in Nat : all = w * m /\ low = d * m + rem /\ low < all
  BY <1>4
<1>6. x = top * all + low
  BY <1>3, <1>5
<1>7. x % all = low /\ x \div all = top
  BY <1>5, <1>6, Division
<1>8. x % (w * m) = low /\ x \div (w * m) = top
  BY <1>5, <1>7
<1>9. (x % m) + ((x \div m) % w) * m = rem + d * m /\ (x \div m) \div w = top
  BY <1>1, <1>2
<1>10. low = rem + d * m
  BY <1>4, <1>5
<1> QED BY <1>8, <1>9, <1>10

\* A sequence over a set is one over any larger set.
LEMMA SeqWider ==
    ASSUME NEW S, NEW T, S \subseteq T, NEW s \in Seq(S)
    PROVE  s \in Seq(T)
<1>1. Len(s) \in Nat /\ s \in [1..Len(s) -> S]
  BY LenProperties
<1>2. s \in [1..Len(s) -> T]
  BY <1>1
<1> QED BY <1>1, <1>2, SeqDef

------------------------------------------------------------------------------
(* Powers of two *)

\* Pow2 is what its definition says.
LEMMA PowersOfTwo ==
    /\ Pow2 \in [Nat -> Nat \ {0}] /\ Pow2[0] = 1
    /\ \A i \in Nat \ {0} : Pow2[i] = 2 * Pow2[i - 1]
<1> DEFINE Eqn(f) == f = [i \in Nat |-> IF i = 0 THEN 1 ELSE 2 * f[i - 1]]
           double == [a \in (Nat \ {0}) \X (Nat \ {0}) |-> 2 * a[2]]
<1>1. double \in [(Nat \ {0}) \X (Nat \ {0}) -> Nat \ {0}] /\ 1 \in Nat \ {0}
  OBVIOUS
<1>2. PICK f : FollowsForever(f, Nat \ {0}, 1, double)
  <2> HIDE DEF double
  <2> QED BY <1>1, Recursion
<1> USE DEF FollowsForever
<1>3. ASSUME NEW i \in Nat \ {0} PROVE f[i] = 2 * f[i - 1]
  <2>1. i - 1 \in Nat /\ f[i - 1] \in Nat \ {0}
    BY <1>2
  <2> QED BY <1>2, <2>1
<1>4. Eqn(f)
  <2> HIDE DEF double
  <2>1. \A i \in Nat : f[i] = IF i = 0 THEN 1 ELSE 2 * f[i - 1]
    BY <1>2, <1>3
  <2>2. f = [i \in Nat |-> f[i]]
    BY <1>2
  <2> QED BY <2>1, <2>2
<1>5. Eqn(Pow2)
  <2>1. Pow2 = CHOOSE g : Eqn(g)
    BY Zenon DEF Pow2
  <2> HIDE DEF Eqn
  <2> QED BY <1>4, <2>1
<1>6. \A i \in Nat : Pow2[i] = IF i = 0 THEN 1 ELSE 2 * Pow2[i - 1]
  BY <1>5
<1>7. DOMAIN Pow2 = Nat
  BY <1>5
<1>8. ASSUME NEW i \in Nat PROVE Pow2[i] \in Nat \ {0}
  <2> DEFINE T == {k \in Nat : Pow2[k] \notin Nat \ {0}}
  <2> SUFFICES ASSUME T # {} PROVE FALSE
    OBVIOUS
  <2>1. PICK k \in T : \A j \in T : k <= j
    <3>1. T \in SUBSET Nat
      OBVIOUS
    <3> HIDE DEF T
    <3> QED BY <3>1, LeastOf
  <2>2. k # 0
    BY <1>6
  <2>3. k - 1 \in Nat /\ k - 1 \notin T
    BY <2>1, <2>2
  <2>4. Pow2[k - 1] \in Nat \ {0}
    BY <2>3
  <2>5. Pow2[k] = 2 * Pow2[k - 1]
    BY <1>6, <2>2
  <2> QED BY <2>4, <2>5
<1>9. Pow2 = [i \in Nat |-> Pow2[i]]
  BY <1>5
<1> HIDE DEF Eqn
<1> QED BY <1>6, <1>8, <1>9

\* Powers multiply when exponents add.
LEMMA PowersAdd ==
    ASSUME NEW i \in Nat, NEW j \in Nat
    PROVE  Pow2[i + j] = Pow2[i] * Pow2[j]
<1> DEFINE T == {k \in Nat : Pow2[i + k] # Pow2[i] * Pow2[k]}
<1> SUFFICES ASSUME T # {} PROVE FALSE
  OBVIOUS
<1>1. PICK k \in T : \A m \in T : k <= m
  <2>1. T \in SUBSET Nat
    OBVIOUS
  <2> HIDE DEF T
  <2> QED BY <2>1, LeastOf
<1>2. Pow2[i] \in Nat
  BY PowersOfTwo
<1>3. k # 0
  BY <1>2, PowersOfTwo
<1>4. k - 1 \in Nat /\ k - 1 \notin T
  BY <1>1, <1>3
<1>5. Pow2[i + (k - 1)] = Pow2[i] * Pow2[k - 1] /\ Pow2[k - 1] \in Nat
  BY <1>4, PowersOfTwo
<1>6. /\ i + k \in Nat \ {0} /\ (i + k) - 1 = i + (k - 1)
      /\ Pow2[i + k] = 2 * Pow2[(i + k) - 1] /\ Pow2[k] = 2 * Pow2[k - 1]
  BY <1>3, PowersOfTwo
<1>7. 2 * (Pow2[i] * Pow2[k - 1]) = Pow2[i] * (2 * Pow2[k - 1])
  BY <1>2, <1>5
<1> QED BY <1>5, <1>6, <1>7

\* Powers of two grow.
LEMMA PowersGrow ==
    ASSUME NEW i \in Nat, NEW j \in Nat, i <= j
    PROVE  Pow2[i] <= Pow2[j] /\ Pow2[i] \in Nat /\ Pow2[j] \in Nat
<1>1. PICK d \in Nat : j = i + d
  <2>1. j - i \in Nat /\ j = i + (j - i)
    OBVIOUS
  <2> QED BY <2>1
<1>2. PICK x \in Nat \ {0}, y \in Nat \ {0} : x = Pow2[i] /\ y = Pow2[d]
  BY PowersOfTwo
<1>3. Pow2[j] = x * y
  BY <1>1, <1>2, PowersAdd
<1>4. 1 * x <= y * x /\ 1 * x = x /\ y * x = x * y /\ x * y \in Nat
  BY ProductsGrow
<1> QED BY <1>2, <1>3, <1>4

\* Binary numbers, shifted.
LEMMA Shifted ==
    ASSUME NEW s \in Nat, NEW i \in Nat
    PROVE  /\ s \div Pow2[i] \in Nat /\ s \div Pow2[i + 1] \in Nat
           /\ s \div Pow2[i] = 2 * (s \div Pow2[i + 1]) + ((s \div Pow2[i]) % 2)
           /\ ((s \div Pow2[i]) % 2) \in {0, 1}
<1>1. Pow2[i] \in Nat \ {0} /\ Pow2[i + 1] = 2 * Pow2[i]
  <2>1. (i + 1) - 1 = i /\ i + 1 \in Nat \ {0}
    OBVIOUS
  <2> QED BY <2>1, PowersOfTwo
<1>2. PICK q \in Nat : q = s \div Pow2[i]
  BY <1>1, Divided
<1>3. s \div Pow2[i + 1] = q \div 2
  <2>1. PICK w \in Nat \ {0} : w = 2
    OBVIOUS
  <2>2. PICK m \in Nat \ {0} : m = Pow2[i]
    BY <1>1
  <2>3. s \div (w * m) = (s \div m) \div w
    BY OneMoreDigit
  <2> QED BY <1>1, <1>2, <2>1, <2>2, <2>3
<1>4. q \div 2 \in Nat /\ q = 2 * (q \div 2) + (q % 2) /\ (q % 2) \in {0, 1}
  OBVIOUS
<1> QED BY <1>2, <1>3, <1>4

\* The top of a number keeps its length.
LEMMA TopBits ==
    ASSUME NEW len \in Nat, NEW s \in Nat, Pow2[len] <= s, s < 2 * Pow2[len], NEW i \in 0..len
    PROVE  /\ s \div Pow2[i] \in Nat /\ Pow2[len - i] \in Nat \ {0}
           /\ Pow2[len - i] <= s \div Pow2[i] /\ s \div Pow2[i] < 2 * Pow2[len - i]
<1>1. i \in Nat /\ len - i \in Nat /\ i + (len - i) = len
  OBVIOUS
<1>2. PICK lo \in Nat \ {0}, hi \in Nat \ {0} : lo = Pow2[i] /\ hi = Pow2[len - i] /\ Pow2[len] = lo * hi
  <2>1. Pow2[i] \in Nat \ {0} /\ Pow2[len - i] \in Nat \ {0}
    BY <1>1, PowersOfTwo
  <2>2. Pow2[i + (len - i)] = Pow2[i] * Pow2[len - i]
    BY <1>1, PowersAdd
  <2>3. Pow2[len] = Pow2[i] * Pow2[len - i]
    BY <1>1, <2>2
  <2> QED BY <2>1, <2>3
<1>3. PICK q \in Nat, r \in Nat : q = s \div lo /\ r < lo /\ s = q * lo + r
  BY Divided
<1>4. hi <= q
  <2> SUFFICES ASSUME q + 1 <= hi PROVE FALSE
    OBVIOUS
  <2>1. (q + 1) * lo <= hi * lo
    BY ProductsGrow
  <2>2. (q + 1) * lo = q * lo + lo /\ hi * lo = lo * hi
    OBVIOUS
  <2>3. q * lo \in Nat /\ lo * hi \in Nat /\ lo * hi <= s
    BY <1>2
  <2> QED BY <1>3, <2>1, <2>2, <2>3
<1>5. q < 2 * hi
  <2> SUFFICES ASSUME 2 * hi <= q PROVE FALSE
    OBVIOUS
  <2>1. (2 * hi) * lo <= q * lo
    BY ProductsGrow
  <2>2. (2 * hi) * lo = 2 * (lo * hi)
    OBVIOUS
  <2>3. q * lo \in Nat /\ lo * hi \in Nat /\ s < 2 * (lo * hi)
    BY <1>2
  <2> QED BY <1>3, <2>1, <2>2, <2>3
<1> QED BY <1>2, <1>3, <1>4, <1>5

\* Bits below a power of two do not see what is added in units of it.
LEMMA SameLowBits ==
    ASSUME NEW x \in Nat, NEW c \in Nat, NEW t \in Nat, NEW i \in Nat, i < t
    PROVE  x + c * Pow2[t] \in Nat /\ (((x + c * Pow2[t]) \div Pow2[i]) % 2) = ((x \div Pow2[i]) % 2)
<1>1. PICK low \in Nat \ {0}, up \in Nat \ {0} :
         low = Pow2[i] /\ up = Pow2[t - i - 1] /\ Pow2[t] = low * (2 * up)
  <2>1. i + 1 \in Nat \ {0} /\ (i + 1) - 1 = i /\ t - i - 1 \in Nat /\ (i + 1) + (t - i - 1) = t
    OBVIOUS
  <2>2. Pow2[i + 1] = 2 * Pow2[i] /\ Pow2[i] \in Nat \ {0} /\ Pow2[t - i - 1] \in Nat \ {0}
    BY <2>1, PowersOfTwo
  <2>3. Pow2[(i + 1) + (t - i - 1)] = Pow2[i + 1] * Pow2[t - i - 1]
    BY <2>1, PowersAdd
  <2>4. PICK low \in Nat \ {0}, up \in Nat \ {0} : low = Pow2[i] /\ up = Pow2[t - i - 1]
    BY <2>2
  <2>5. Pow2[t] = (2 * low) * up
    BY <2>1, <2>2, <2>3, <2>4
  <2>6. (2 * low) * up = low * (2 * up)
    OBVIOUS
  <2> QED BY <2>4, <2>5, <2>6
<1>2. PICK q \in Nat, r \in Nat : q = x \div low /\ r < low /\ x = q * low + r
  BY Divided
<1>3. PICK k \in Nat : k = c * up
  OBVIOUS
<1>4. x + c * Pow2[t] = (q + 2 * k) * low + r
  <2>1. c * (low * (2 * up)) = (2 * (c * up)) * low
    OBVIOUS
  <2>2. (q + 2 * k) * low = q * low + (2 * k) * low
    OBVIOUS
  <2>3. c * Pow2[t] = (2 * k) * low
    BY <1>1, <1>3, <2>1
  <2>4. q * low \in Nat /\ (2 * k) * low \in Nat
    OBVIOUS
  <2> QED BY <1>2, <2>2, <2>3, <2>4
<1>5. (x + c * Pow2[t]) \div low = q + 2 * k
  <2>1. q + 2 * k \in Nat
    OBVIOUS
  <2> QED BY <1>2, <1>4, <2>1, Division, SMTT(40)
<1>6. ((q + 2 * k) % 2) = (q % 2)
  OBVIOUS
<1>7. x + c * Pow2[t] \in Nat
  BY <1>1
<1> QED BY <1>1, <1>2, <1>5, <1>6, <1>7

------------------------------------------------------------------------------
(* The binary inversion, on numbers *)

\* val is u times x, modulo m.
Related(val, u, x, m) == u \in 0..(m - 1) /\ \E k \in Int : u * x = val + k * m

\* What divides both y and z divides x and m.
Dividing(d, y, z) == \E i \in Nat, j \in Nat : y = i * d /\ z = j * d

CommonOnly(y, z, x, m) == \A d \in Nat \ {0} : Dividing(d, y, z) => Dividing(d, x, m)

\* Halving modulo m what stands for an even number.
LEMMA HalvedRelated ==
    ASSUME NEW x \in Nat, NEW m \in Nat, NEW u \in Nat, NEW y \in Nat,
           (m % 2) = 1, Related(2 * y, u, x, m)
    PROVE  Related(y, IF (u % 2) = 1 THEN (u + m) \div 2 ELSE u \div 2, x, m)
<1>1. PICK k \in Int : u * x = 2 * y + k * m /\ u < m
  BY DEF Related
<1>2. PICK h \in Nat : m = 2 * h + 1
  OBVIOUS
<1>3. k * m = 2 * (k * h) + k
  BY <1>2
<1>4. k * h \in Int
  OBVIOUS
<1>5. CASE (u % 2) = 1
  <2>1. PICK q \in Nat : u = 2 * q + 1
    BY <1>5
  <2>2. PICK o \in Nat : o = q + h + 1 /\ u + m = 2 * o /\ (u + m) \div 2 = o /\ o < m
    <3>1. u + m = 2 * (q + h + 1)
      BY <1>2, <2>1
    <3>2. PICK o \in Nat : o = q + h + 1
      OBVIOUS
    <3>3. o < m
      BY <1>1, <1>2, <2>1, <3>2
    <3> QED BY <3>1, <3>2, <3>3
  <2>3. u * x = 2 * (q * x) + x /\ q * x \in Nat
    BY <2>1
  <2>4. PICK v1 \in Nat, v2 \in Int : v1 = q * x /\ v2 = k * h
    BY <1>4, <2>3
  <2>5. 2 * v1 + x = 2 * y + 2 * v2 + k
    BY <1>1, <1>3, <2>3, <2>4
  <2>6. PICK c \in Int : x + k = 2 * c
    <3>1. x + k = 2 * (y + v2 + k - v1)
      BY <2>5
    <3>2. y + v2 + k - v1 \in Int
      OBVIOUS
    <3> QED BY <3>1, <3>2
  <2>7. o * x = y + c * m
    <3>1. o * x = q * x + h * x + x
      BY <2>2
    <3>2. c * m = 2 * (c * h) + c
      BY <1>2
    <3>3. 2 * (c * h) = (x + k) * h
      BY <2>6
    <3>4. (x + k) * h = h * x + k * h
      OBVIOUS
    <3>5. PICK v3 \in Nat, v4 \in Int : v3 = h * x /\ v4 = c * h
      OBVIOUS
    <3>6. o * x = v1 + v3 + x /\ c * m = 2 * v4 + c /\ 2 * v4 = v3 + v2
      BY <2>4, <3>1, <3>2, <3>3, <3>4, <3>5
    <3>7. 2 * (v1 + v3 + x) = 2 * (y + (2 * v4 + c))
      BY <2>5, <2>6, <3>6
    <3> QED BY <3>6, <3>7
  <2>8. o \in 0..(m - 1)
    BY <2>2
  <2> QED BY <1>5, <2>2, <2>7, <2>8 DEF Related
<1>6. CASE (u % 2) # 1
  <2>1. PICK q \in Nat : u = 2 * q /\ u \div 2 = q
    BY <1>6
  <2>2. u * x = 2 * (q * x) /\ q * x \in Nat
    BY <2>1
  <2>3. PICK v1 \in Nat, v2 \in Int : v1 = q * x /\ v2 = k * h
    BY <1>4, <2>2
  <2>4. 2 * v1 = 2 * y + 2 * v2 + k
    BY <1>1, <1>3, <2>2, <2>3
  <2>5. PICK c \in Int : k = 2 * c
    <3>1. k = 2 * (v1 - y - v2)
      BY <2>4
    <3>2. v1 - y - v2 \in Int
      OBVIOUS
    <3> QED BY <3>1, <3>2
  <2>6. k * m = 2 * (c * m)
    BY <2>5
  <2>7. PICK v3 \in Int : v3 = c * m
    OBVIOUS
  <2>8. 2 * v1 = 2 * y + 2 * v3
    BY <1>1, <2>2, <2>3, <2>6, <2>7
  <2>9. q * x = y + c * m
    BY <2>3, <2>7, <2>8
  <2>10. q \in 0..(m - 1)
    BY <1>1, <2>1
  <2> QED BY <1>6, <2>1, <2>9, <2>10 DEF Related
<1> QED BY <1>5, <1>6

\* A difference, of the numbers and of their multipliers.
LEMMA DifferenceRelated ==
    ASSUME NEW x \in Nat, NEW m \in Nat, NEW u \in Nat, NEW v \in Nat, NEW y \in Nat, NEW z \in Nat,
           Related(y, u, x, m), Related(z, v, x, m)
    PROVE  Related(y - z, IF u < v THEN (u + m) - v ELSE u - v, x, m)
<1>7. u < m /\ v < m
  <2>1. u \in 0..(m - 1) /\ v \in 0..(m - 1)
    BY DEF Related
  <2> QED BY <2>1
<1>8. PICK k \in Int : u * x = y + k * m
  BY DEF Related
<1>1. u * x = y + k * m /\ u < m
  BY <1>7, <1>8
<1>9. PICK h \in Int : v * x = z + h * m
  BY DEF Related
<1>2. v * x = z + h * m /\ v < m
  BY <1>7, <1>9
<1>3. PICK v1 \in Nat, v2 \in Nat, v3 \in Int, v4 \in Int, v5 \in Nat :
        v1 = u * x /\ v2 = v * x /\ v3 = k * m /\ v4 = h * m /\ v5 = m * x
  OBVIOUS
<1>4. v1 = y + v3 /\ v2 = z + v4
  BY <1>1, <1>2, <1>3
<1>5. CASE u < v
  <2>1. PICK o \in Nat : o = (u + m) - v /\ o \in 0..(m - 1)
    BY <1>1, <1>2, <1>5
  <2>2. o * x = u * x + m * x - v * x
    BY <2>1
  <2>3. PICK c \in Int : c = k - h + x
    OBVIOUS
  <2>4. c * m = k * m - h * m + m * x
    BY <2>3
  <2>5. o * x = (y - z) + c * m
    BY <1>3, <1>4, <2>2, <2>4
  <2> QED BY <1>5, <2>1, <2>5 DEF Related
<1>6. CASE ~(u < v)
  <2>1. PICK o \in Nat : o = u - v /\ o \in 0..(m - 1)
    BY <1>1, <1>2, <1>6
  <2>2. o * x = u * x - v * x
    BY <2>1
  <2>3. PICK c \in Int : c = k - h
    OBVIOUS
  <2>4. c * m = k * m - h * m
    BY <2>3
  <2>5. o * x = (y - z) + c * m
    BY <1>3, <1>4, <2>2, <2>4
  <2> QED BY <1>6, <2>1, <2>5 DEF Related
<1> QED BY <1>5, <1>6

\* Common divisors have no order.
LEMMA CommonSwapped ==
    ASSUME NEW y, NEW z, NEW x, NEW m, CommonOnly(y, z, x, m)
    PROVE  CommonOnly(z, y, x, m)
BY DEF CommonOnly, Dividing

\* Halving one of two numbers adds no common divisor.
LEMMA HalvedCommon ==
    ASSUME NEW y \in Nat, NEW z \in Nat, NEW x \in Nat, NEW m \in Nat, CommonOnly(2 * y, z, x, m)
    PROVE  CommonOnly(y, z, x, m)
<1> SUFFICES ASSUME NEW d \in Nat \ {0}, Dividing(d, y, z) PROVE Dividing(d, x, m)
  BY DEF CommonOnly
<1>1. PICK i \in Nat, j \in Nat : y = i * d /\ z = j * d
  BY DEF Dividing
<1>2. 2 * y = (2 * i) * d
  BY <1>1
<1>3. PICK o \in Nat : o = 2 * i
  OBVIOUS
<1>4. Dividing(d, 2 * y, z)
  BY <1>1, <1>2, <1>3 DEF Dividing
<1> QED BY <1>4 DEF CommonOnly

\* Nor does half their difference.
LEMMA DifferenceCommon ==
    ASSUME NEW y \in Nat, NEW z \in Nat, NEW x \in Nat, NEW m \in Nat,
           CommonOnly(2 * y + z, z, x, m)
    PROVE  CommonOnly(y, z, x, m)
<1> SUFFICES ASSUME NEW d \in Nat \ {0}, Dividing(d, y, z) PROVE Dividing(d, x, m)
  BY DEF CommonOnly
<1>1. PICK i \in Nat, j \in Nat : y = i * d /\ z = j * d
  BY DEF Dividing
<1>2. (2 * i + j) * d = 2 * (i * d) + j * d
  OBVIOUS
<1>3. PICK o \in Nat : o = 2 * i + j
  OBVIOUS
<1>4. 2 * y + z = o * d
  BY <1>1, <1>2, <1>3
<1>5. Dividing(d, 2 * y + z, z)
  BY <1>1, <1>4 DEF Dividing
<1> QED BY <1>5 DEF CommonOnly

\* Half of one side makes half of the product.
LEMMA SideShrinks ==
    ASSUME NEW y \in Nat, NEW z \in Nat, NEW h \in Nat, 2 * h <= y
    PROVE  2 * (h * z) <= y * z
<1>1. PICK o \in Nat : o = 2 * h /\ o <= y
  OBVIOUS
<1>2. o * z <= y * z
  BY <1>1, ProductsGrow
<1>3. o * z = 2 * (h * z)
  BY <1>1
<1> QED BY <1>2, <1>3

\* A divisor of a number that is not zero and of a prime is 1.
LEMMA OnlyCommonFactor ==
    ASSUME NEW m \in Nat, m >= 2, \A y, z \in 1..(m - 1) : (y * z) % m # 0,
           NEW x \in 1..(m - 1), NEW d \in Nat \ {0}, Dividing(d, x, m)
    PROVE  d = 1
<1>1. PICK i \in Nat, j \in Nat : x = i * d /\ m = j * d
  BY DEF Dividing
<1>2. j * d = m /\ j # 0 /\ d # 0
  <2>1. 0 * d = 0
    OBVIOUS
  <2> QED BY <1>1, <2>1
<1>3. i # 0
  <2>1. 0 * d = 0
    OBVIOUS
  <2> QED BY <1>1, <2>1
<1>4. d < m
  <2>1. 1 * d <= i * d /\ 1 * d = d
    BY <1>3, ProductsGrow
  <2>2. PICK v1 \in Nat : v1 = i * d
    OBVIOUS
  <2> QED BY <1>1, <2>1, <2>2
<1>5. CASE d # 1
  <2>1. j < m
    <3>1. PICK o \in Nat : d = o + 2
      BY <1>5
    <3>2. j * d = j * o + 2 * j /\ j * o \in Nat
      BY <3>1
    <3>3. PICK v1 \in Nat : v1 = j * o
      BY <3>2
    <3> QED BY <1>2, <3>2, <3>3
  <2>2. j \in 1..(m - 1) /\ d \in 1..(m - 1)
    BY <1>2, <1>4, <2>1
  <2>3. m % m = 0
    <3>1. 1 * m + 0 = m
      OBVIOUS
    <3>2. (1 * m + 0) % m = 0
      BY Division
    <3> QED BY <3>1, <3>2
  <2> QED BY <1>2, <2>2, <2>3
<1> QED BY <1>5

\* There is one inverse modulo a prime.
LEMMA OneInverse ==
    ASSUME NEW m \in Nat, m >= 2, \A y, z \in 1..(m - 1) : (y * z) % m # 0,
           NEW x \in 1..(m - 1), NEW y \in 1..(m - 1), NEW z \in 1..(m - 1),
           (x * y) % m = 1, (x * z) % m = 1, y <= z
    PROVE  y = z
<1> SUFFICES ASSUME y # z PROVE FALSE
  OBVIOUS
<1>1. PICK o \in Nat : o = z - y /\ o \in 1..(m - 1)
  OBVIOUS
<1>2. x \in Nat /\ y \in Nat /\ z \in Nat
  OBVIOUS
<1>3. PICK v1 \in Nat, v2 \in Nat, v3 \in Nat : v1 = x * y /\ v2 = x * z /\ v3 = x * o
  BY <1>2
<1>4. x * o = x * z - x * y
  BY <1>1
<1>5. v2 = v1 + v3
  BY <1>3, <1>4
<1>6. PICK i \in Nat, j \in Nat : i = v1 \div m /\ j = v2 \div m
  BY Divided
<1>7. v1 = i * m + 1 /\ v2 = j * m + 1
  <2>1. v1 = (v1 \div m) * m + (v1 % m) /\ v2 = (v2 \div m) * m + (v2 % m)
    BY Divided
  <2> QED BY <1>3, <1>6, <2>1
<1>8. v3 = (j - i) * m
  <2>1. (j - i) * m = j * m - i * m
    OBVIOUS
  <2>2. PICK w1 \in Nat, w2 \in Nat : w1 = j * m /\ w2 = i * m
    OBVIOUS
  <2> QED BY <1>5, <1>7, <2>1, <2>2
<1>9. i <= j
  <2> SUFFICES ASSUME j < i PROVE FALSE
    OBVIOUS
  <2>1. PICK k \in Nat : i = j + k + 1
    <3>1. i - j - 1 \in Nat /\ i = j + (i - j - 1) + 1
      OBVIOUS
    <3> QED BY <3>1
  <2>2. (j - i) * m = 0 - (k * m) - m /\ k * m \in Nat
    BY <2>1
  <2>3. PICK w \in Nat : w = k * m
    BY <2>2
  <2> QED BY <1>8, <2>2, <2>3
<1>10. PICK k \in Nat : k = j - i
  BY <1>9
<1>11. (k * m + 0) % m = 0
  BY Division
<1>12. k * m + 0 = v3
  BY <1>8, <1>10
<1>13. (x * o) % m = 0
  BY <1>3, <1>11, <1>12
<1> QED BY <1>1, <1>13

------------------------------------------------------------------------------
(* Multiples, remainders and digits *)

\* What lies between multiples of q is none.
LEMMA NotMultiples ==
    ASSUME NEW q \in Nat \ {0}, NEW x \in Int
    PROVE  /\ 0 < x /\ x < q => ~Cong(x, 0, q)
           /\ q < x /\ x < 2 * q => ~Cong(x, 0, q)
           /\ 2 * q < x /\ x < 3 * q => ~Cong(x, 0, q)
           /\ Cong(q, 0, q) /\ Cong(x + q, x, q) /\ Cong(x + 2 * q, x, q)
<1>1. q \in Nat \ {0} /\ q \in Int
  OBVIOUS
<1>2. ASSUME NEW y \in Int, 0 < y, y < q PROVE ~Cong(y, 0, q)
  BY <1>1, <1>2, CongNear
<1>3. Cong(x + q, x, q) /\ Cong(x + 2 * q, x, q) /\ Cong(q, 0, q)
  <2>1. x + q = x + 1 * q /\ x + 2 * q = x + 2 * q /\ q = 0 + 1 * q
    BY <1>1
  <2>2. x + q \in Int /\ x + 2 * q \in Int
    BY <1>1
  <2> QED BY <1>1, <2>1, <2>2 DEF Cong
<1>4. ASSUME NEW k \in {1, 2}, k * q < x, x < (k + 1) * q, Cong(x, 0, q) PROVE FALSE
  <2>1. PICK j \in Int : x = 0 + j * q
    BY <1>4 DEF Cong
  <2>2. PICK y \in Int : y = x - k * q
    BY <1>1
  <2>3. y = 0 + (j - k) * q
    BY <1>1, <2>1, <2>2
  <2>4. Cong(y, 0, q)
    BY <2>3 DEF Cong
  <2>5. 0 < y /\ y < q
    BY <1>1, <1>4, <2>2
  <2> QED BY <1>2, <2>4, <2>5
<1>5. /\ q < x /\ x < 2 * q => ~Cong(x, 0, q)
      /\ 2 * q < x /\ x < 3 * q => ~Cong(x, 0, q)
  BY <1>1, <1>4
<1> QED BY <1>2, <1>3, <1>5

\* A product modulo a prime is congruent to the product, and 0 only if a factor is.
LEMMA RemainderOfPrime ==
    ASSUME NEW q \in Nat \ {0}, Prime(q), NEW a \in Int, NEW m \in 1..(q - 1)
    PROVE  /\ ((a * m) % q) \in 0..(q - 1) /\ ((a * m) % q) \in Int
           /\ Cong(((a * m) % q), a * m, q) /\ Cong(a * m, ((a * m) % q), q)
           /\ a * m \in Int /\ m \in Int
           /\ ~Cong(a, 0, q) => ((a * m) % q) \in 1..(q - 1)
<1>0. Prime(q) /\ q \in Nat /\ q >= 2
  BY DEF Prime
<1>1. m \in Int /\ a * m \in Int
  OBVIOUS
<1>2. ((a * m) % q) \in 0..(q - 1) /\ Cong(((a * m) % q), a * m, q)
  BY <1>1, CongMod, <1>0
<1>3. ((a * m) % q) \in Int
  BY <1>2
<1>4. Cong(a * m, ((a * m) % q), q)
  BY <1>1, <1>2, <1>3, CongSym, <1>0
<1>5. ASSUME ~Cong(a, 0, q) PROVE ((a * m) % q) \in 1..(q - 1)
  <2>1. SUFFICES ASSUME ((a * m) % q) = 0 PROVE FALSE
    BY <1>2
  <2>2. Cong(a * m, 0, q)
    BY <1>4, <2>1
  <2>3. Cong(m, 0, q)
    BY <1>1, <1>5, <2>2, CongPrime, <1>0
  <2>4. m \in 0..(q - 1) /\ 0 \in 0..(q - 1)
    BY <1>0
  <2>5. m = 0
    BY <2>3, <2>4, CongNear, <1>0
  <2> QED BY <2>5
<1> QED BY <1>1, <1>2, <1>3, <1>4, <1>5

\* Products with one factor in common, modulo a prime, that are equal or mirror images.
LEMMA RemaindersOfPrime ==
    ASSUME NEW q \in Nat \ {0}, Prime(q), NEW a \in Int, NEW c \in Int, NEW m \in 1..(q - 1)
    PROVE  /\ ((a * m) % q) = ((c * m) % q) => Cong(a - c, 0, q)
           /\ ((a * m) % q) + ((c * m) % q) = q => Cong(a + c, 0, q)
           /\ Cong(((a * m) % q) + ((c * m) % q), (a + c) * m, q)
           /\ Cong(((a * m) % q) - ((c * m) % q), (a - c) * m, q)
<1>0. Prime(q) /\ q \in Nat /\ q >= 2
  BY DEF Prime
<1> DEFINE i == ((a * m) % q)
           j == ((c * m) % q)
<1>1. /\ i \in Int /\ Cong(i, a * m, q) /\ j \in Int /\ Cong(j, c * m, q)
      /\ a * m \in Int /\ c * m \in Int /\ m \in Int
  BY RemainderOfPrime
<1> HIDE DEF i, j
<1>2. Cong(i + j, a * m + c * m, q) /\ Cong(i - j, a * m - c * m, q)
  BY <1>1, CongOps, <1>0
<1>3. a * m + c * m = (a + c) * m /\ a * m - c * m = (a - c) * m
  BY <1>1
<1>4. Cong(i + j, (a + c) * m, q) /\ Cong(i - j, (a - c) * m, q)
  BY <1>2, <1>3, Zenon
<1>5. ~Cong(m, 0, q)
  <2>1. m \in 0..(q - 1) /\ 0 \in 0..(q - 1) /\ m # 0
    BY <1>0
  <2> QED BY <2>1, CongNear, <1>0
<1>6. ASSUME i = j PROVE Cong(a - c, 0, q)
  <2>1. i - j = 0
    BY <1>1, <1>6
  <2>2. Cong(0, (a - c) * m, q)
    BY <1>4, <2>1
  <2>3. (a - c) * m \in Int /\ a - c \in Int
    BY <1>1
  <2>4. Cong((a - c) * m, 0, q)
    BY <2>2, <2>3, CongSym, <1>0
  <2> QED BY <1>1, <1>5, <2>3, <2>4, CongPrime, <1>0
<1>7. ASSUME i + j = q PROVE Cong(a + c, 0, q)
  <2>1. Cong(q, 0, q)
    <3>1. q = 0 + 1 * q
      BY <1>0
    <3> QED BY <3>1 DEF Cong
  <2>2. Cong(q, (a + c) * m, q)
    BY <1>4, <1>7
  <2>3. (a + c) * m \in Int /\ a + c \in Int
    BY <1>1
  <2>4. Cong((a + c) * m, q, q)
    BY <2>2, <2>3, CongSym, <1>0
  <2>5. Cong((a + c) * m, 0, q)
    BY <2>1, <2>3, <2>4, CongTrans, <1>0
  <2> QED BY <1>1, <1>5, <2>3, <2>5, CongPrime, <1>0
<1> QED BY <1>4, <1>6, <1>7 DEF i, j

\* What is added above a digit does not change it.
LEMMA DigitKept ==
    ASSUME NEW x \in Nat, NEW c \in Nat,
           NEW low \in Nat \ {0}, NEW base \in Nat \ {0}, NEW up \in Nat \ {0}
    PROVE  (((x + c * (up * (base * low))) \div low) % base) = ((x \div low) % base)
<1>2. PICK q \in Nat, r \in Nat : q = x \div low /\ r < low /\ x = q * low + r
  BY Divided
<1>3. PICK k \in Nat : k = c * up
  OBVIOUS
<1>4. x + c * (up * (base * low)) = (q + k * base) * low + r
  <2>1. c * (up * (base * low)) = ((c * up) * base) * low
    OBVIOUS
  <2>2. (q + k * base) * low = q * low + (k * base) * low
    OBVIOUS
  <2>3. c * (up * (base * low)) = (k * base) * low
    BY <1>3, <2>1, Zenon
  <2>4. PICK u \in Nat, v \in Nat, w \in Nat : u = q * low /\ v = (k * base) * low /\ w = (q + k * base) * low
    OBVIOUS
  <2>5. x = u + r /\ c * (up * (base * low)) = v /\ w = u + v
    BY <1>2, <2>2, <2>3, <2>4, Zenon
  <2>6. x + c * (up * (base * low)) = w + r
    BY <2>5
  <2> QED BY <2>4, <2>6
<1>5. (x + c * (up * (base * low))) \div low = q + k * base
  <2>1. q + k * base \in Nat
    OBVIOUS
  <2>2. PICK h \in Nat : h = q + k * base
    BY <2>1
  <2>3. (h * low + r) \div low = h
    BY <1>2, Division
  <2> QED BY <1>4, <2>2, <2>3
<1>6. ((q + k * base) % base) = (q % base)
  <2>1. PICK j \in Nat, e2 \in Nat : e2 = (q % base) /\ e2 < base /\ q = j * base + e2
    <3>1. q \div base \in Nat /\ (q % base) \in Nat /\ (q % base) < base /\ q = (q \div base) * base + (q % base)
      BY Divided
    <3> QED BY <3>1
  <2>2. (j + k) * base = j * base + k * base
    OBVIOUS
  <2>3. PICK u \in Nat, v \in Nat, w \in Nat : u = j * base /\ v = k * base /\ w = (j + k) * base
    OBVIOUS
  <2>4. q + v = w + e2
    BY <2>1, <2>2, <2>3
  <2>5. (((j + k) * base + e2) % base) = e2
    <3>1. PICK h \in Nat : h = j + k
      OBVIOUS
    <3>2. e2 < base
      BY <2>1
    <3>3. ((h * base + e2) % base) = e2
      BY <3>2, Division
    <3> QED BY <3>1, <3>3
  <2> QED BY <2>1, <2>3, <2>4, <2>5
<1> QED BY <1>2, <1>5, <1>6

\* As many products as there are words fit in three words, with what the
\* column before them leaves over.
LEMMA RoomFor ==
    ASSUME NEW w \in Nat, w >= 2, NEW m \in Nat, m <= w, NEW t \in Nat, t <= m * w
    PROVE  t + m * ((w - 1) * (w - 1)) < w * (w * w) /\ t + m * ((w - 1) * (w - 1)) <= m * (w * w)
<1>1. PICK v \in Nat : v >= 1 /\ w = v + 1
  <2>1. w - 1 \in Nat /\ w = (w - 1) + 1
    OBVIOUS
  <2> QED BY <2>1
<1>2. m * (w * w) = (m * (v * v) + m * v + m) + m * v /\ m * w = m * v + m /\ m * ((w - 1) * (w - 1)) = m * (v * v)
  BY <1>1
<1>3. PICK s \in Nat, o \in Nat : s = m * (v * v) /\ o = m * v
  BY <1>1
<1>4. t + m * ((w - 1) * (w - 1)) <= s + o + m
  <2>1. t <= o + m
    BY <1>2, <1>3
  <2> QED BY <1>2, <1>3, <2>1
<1>5. m * (w * w) = (s + o + m) + o
  BY <1>2, <1>3
<1>6. t + m * ((w - 1) * (w - 1)) <= m * (w * w)
  <2>1. PICK z \in Nat, y \in Nat : z = m * (w * w) /\ y = t + m * ((w - 1) * (w - 1)) /\ z = s + o + m + o /\ y <= s + o + m
    <3>1. m * ((w - 1) * (w - 1)) \in Nat
      BY <1>2, <1>3
    <3> QED BY <1>3, <1>4, <1>5, <3>1
  <2> QED BY <2>1
<1>7. m * (w * w) <= w * (w * w) /\ w * (w * w) \in Nat
  <2>1. w \in Nat /\ w * w \in Nat
    BY <1>1
  <2> QED BY <2>1, ProductsGrow
<1>8. CASE m = 0
  <2>1. t + m * ((w - 1) * (w - 1)) = 0
    <3>1. 0 * ((w - 1) * (w - 1)) = 0 /\ 0 * w = 0
      BY <1>1
    <3> QED BY <1>8, <3>1
  <2>2. 0 < w * (w * w)
    BY <1>1
  <2> QED BY <1>6, <2>1, <2>2
<1>9. CASE m # 0
  <2>1. o >= 1
    <3>1. 1 * v <= m * v
      BY <1>1, <1>9, ProductsGrow
    <3> QED BY <1>1, <1>3, <3>1
  <2>2. PICK z \in Nat, y \in Nat, x \in Nat :
          /\ z = m * (w * w) /\ y = t + m * ((w - 1) * (w - 1)) /\ x = w * (w * w)
          /\ z = s + o + m + o /\ y <= s + o + m /\ z <= x
    <3>1. m * ((w - 1) * (w - 1)) \in Nat
      BY <1>2, <1>3
    <3> QED BY <1>3, <1>4, <1>5, <1>7, <3>1
  <2>3. y < x
    BY <2>1, <2>2
  <2> QED BY <1>6, <2>2, <2>3
<1> QED BY <1>8, <1>9
==============================================================================
