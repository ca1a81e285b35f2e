----------------------------- MODULE FrameProofs -----------------------------
(***************************************************************************)
(* Theorems about Frame: for all messages, TLVs and trailers, and for      *)
(* every number of values of a byte, lengths and payloads stay in step,    *)
(* the reader stays in step with the sender, and Decode walks the TLVs     *)
(* behind a payload from one to the next.                                  *)
(***************************************************************************)
EXTENDS Frame, SequenceTheorems, FiniteSetTheorems, WellFoundedInduction, TLAPS

-----------------------------------------------------------------------------
(* Induction over numbers *)

\* A set of numbers that is not empty has a least element.
LEMMA LeastNumber ==
  ASSUME NEW T \in SUBSET Nat, T # {}
  PROVE  \E x \in T : \A y \in T : x <= y
<1> DEFINE Less == {ss \in Nat \X Nat : ss[1] < ss[2]}
<1>1. IsWellFoundedOn(Less, Nat)
  BY NatLessThanWellFounded DEF OpToRel
<1>2. PICK x \in T : \A y \in T : ~ (<<y, x>> \in Less)
  <2> HIDE DEF Less
  <2> QED
    BY <1>1, WFMin
<1>3. ASSUME NEW y \in T, y < x
      PROVE  FALSE
  <2>1. <<y, x>> \in Less
    BY <1>3
  <2> HIDE DEF Less
  <2> QED
    BY <1>2, <2>1
<1> QED
  BY <1>3

\* A set of numbers that holds 0 and every successor is the set of all
\* numbers: induction, for predicates that are given as sets.
LEMMA SetInduction ==
  ASSUME NEW S \in SUBSET Nat, 0 \in S, \A k \in S : k + 1 \in S
  PROVE  S = Nat
<1> SUFFICES ASSUME Nat \ S # {} PROVE FALSE
  OBVIOUS
<1>1. PICK x \in Nat \ S : \A y \in Nat \ S : x <= y
  BY LeastNumber
<1>2. x - 1 \in Nat /\ x - 1 \in S /\ x - 1 + 1 = x
  BY <1>1
<1> QED
  BY <1>1, <1>2

-----------------------------------------------------------------------------
(* Little-endian integers *)

\* The recursive definition of Weight has a solution.
LEMMA WeightEquation ==
  Weight = [k \in 0 .. 8 |-> IF k = 0 THEN 1 ELSE Base * Weight[k - 1]]
<1> DEFINE Solves(h, m) == h = [k \in 0 .. m |-> IF k = 0 THEN 1 ELSE Base * h[k - 1]]
           S == {m \in Nat : \E h : Solves(h, m)}
<1>1. 0 \in S
  <2>1. Solves([k \in 0 .. 0 |-> 1], 0)
    OBVIOUS
  <2> QED
    BY <2>1
<1>2. ASSUME NEW m \in S PROVE m + 1 \in S
  <2>1. PICK h : Solves(h, m)
    OBVIOUS
  <2> DEFINE j == [k \in 0 .. m + 1 |-> IF k = m + 1 THEN Base * h[m] ELSE h[k]]
  <2>2. ASSUME NEW k \in 0 .. m + 1
        PROVE  j[k] = IF k = 0 THEN 1 ELSE Base * j[k - 1]
    <3>1. CASE k = m + 1
      BY <3>1
    <3>2. CASE k \in 1 .. m
      <4>1. k \in 0 .. m /\ k - 1 \in 0 .. m /\ k # 0
        BY <3>2
      <4>2. h[k] = Base * h[k - 1]
        BY <2>1, <4>1
      <4> QED
        BY <4>1, <4>2
    <3>3. CASE k = 0
      BY <2>1, <3>3
    <3> QED
      BY <3>1, <3>2, <3>3
  <2>3. Solves(j, m + 1)
    BY <2>2
  <2> HIDE DEF j, Solves
  <2> QED
    BY <2>3
<1>3. 8 \in S
  <2>1. S \in SUBSET Nat
    OBVIOUS
  <2> HIDE DEF S
  <2> QED
    BY <1>1, <1>2, <2>1, SetInduction
<1>4. \E h : Solves(h, 8)
  BY <1>3
<1> QED
  BY <1>4 DEF Weight

LEMMA WeightStep ==
  /\ Weight[0] = 1
  /\ \A k \in 0 .. 7 : Weight[k + 1] = Base * Weight[k]
<1>1. Weight[0] = 1
  BY WeightEquation
<1>2. ASSUME NEW k \in 0 .. 7
      PROVE  Weight[k + 1] = Base * Weight[k]
  <2>1. k + 1 \in 0 .. 8 /\ k + 1 # 0 /\ (k + 1) - 1 = k
    OBVIOUS
  <2>2. Weight[k + 1] = Base * Weight[(k + 1) - 1]
    BY <2>1, WeightEquation
  <2> QED
    BY <2>1, <2>2
<1> QED
  BY <1>1, <1>2

LEMMA WeightPositive == \A k \in 0 .. 8 : Weight[k] \in Nat /\ Weight[k] > 0
<1> DEFINE S == {k \in Nat : k <= 8 => Weight[k] \in Nat /\ Weight[k] > 0}
<1>1. 0 \in S
  BY WeightStep
<1>2. ASSUME NEW k \in S PROVE k + 1 \in S
  <2> SUFFICES ASSUME k + 1 <= 8
               PROVE  Weight[k + 1] \in Nat /\ Weight[k + 1] > 0
    OBVIOUS
  <2>1. Weight[k] \in Nat /\ Weight[k] > 0
    OBVIOUS
  <2>2. Weight[k + 1] = Base * Weight[k]
    BY WeightStep
  <2> QED
    BY <2>1, <2>2, BaseAssumption
<1>3. S = Nat
  <2>1. S \in SUBSET Nat
    OBVIOUS
  <2> HIDE DEF S
  <2> QED
    BY <1>1, <1>2, <2>1, SetInduction
<1> QED
  BY <1>3

\* Division by two numbers, one after the other.
LEMMA DivideTwice ==
  ASSUME NEW v \in Nat, NEW m \in Nat, NEW d \in Nat, m > 0, d > 0
  PROVE  v % (d * m) = (v % m) + ((v \div m) % d) * m
<1> DEFINE q == v \div m
           r == v % m
           q1 == q \div d
           r1 == q % d
           w == d * m
           x == v \div w
           y == v % w
<1>1. q \in Nat /\ r \in 0 .. m - 1 /\ v = q * m + r
  OBVIOUS
<1>2. q1 \in Nat /\ r1 \in 0 .. d - 1 /\ q = q1 * d + r1
  BY <1>1
<1>3. w \in Nat /\ w > 0
  OBVIOUS
<1>4. x \in Nat /\ y \in 0 .. w - 1 /\ v = x * w + y
  BY <1>3
<1> DEFINE z == r + r1 * m
<1> HIDE DEF q, r, q1, r1, x, y
<1>5. v = q1 * w + z
  <2>1. q * m = (q1 * d) * m + r1 * m
    BY <1>1, <1>2
  <2>2. (q1 * d) * m = q1 * w
    BY <1>2
  <2> QED
    BY <1>1, <1>2, <2>1, <2>2
<1>6. z \in 0 .. w - 1
  <2>1. r1 * m \in Nat /\ r1 * m <= (d - 1) * m
    BY <1>2
  <2>2. (d - 1) * m = w - m
    OBVIOUS
  <2> QED
    BY <1>1, <2>1, <2>2, <1>3
<1> HIDE DEF z, w
<1>7. x = q1
  <2>1. ASSUME x > q1 PROVE FALSE
    <3>1. (x - q1) * w >= w
      BY <2>1, <1>2, <1>3, <1>4
    <3>2. (x - q1) * w = x * w - q1 * w
      BY <1>2, <1>3, <1>4
    <3> QED
      BY <3>1, <3>2, <1>2, <1>3, <1>4, <1>5, <1>6
  <2>2. ASSUME q1 > x PROVE FALSE
    <3>1. (q1 - x) * w >= w
      BY <2>2, <1>2, <1>3, <1>4
    <3>2. (q1 - x) * w = q1 * w - x * w
      BY <1>2, <1>3, <1>4
    <3> QED
      BY <3>1, <3>2, <1>2, <1>3, <1>4, <1>5, <1>6
  <2> QED
    BY <2>1, <2>2, <1>2, <1>4
<1>8. y = z
  BY <1>4, <1>5, <1>6, <1>7, <1>3
<1> QED
  BY <1>8 DEF y, z, w, r, r1, q

\* The recursive definition inside FromLittleEndian has a solution.
LEMMA LowEquation ==
  ASSUME NEW s, Len(s) \in Nat
  PROVE  \E low : /\ low[0] = 0
                  /\ \A i \in 0 .. Len(s) - 1 : low[i + 1] = low[i] + s[i + 1] * Weight[i]
                  /\ FromLittleEndian(s) = low[Len(s)]
<1> DEFINE Term(i) == s[i] * Weight[i - 1]
           Solves(h, m) == h = [i \in 0 .. m |-> IF i = 0 THEN 0 ELSE h[i - 1] + Term(i)]
           S == {m \in Nat : \E h : Solves(h, m)}
<1>1. 0 \in S
  <2>1. Solves([i \in 0 .. 0 |-> 0], 0)
    OBVIOUS
  <2> QED
    BY <2>1
<1>2. ASSUME NEW m \in S PROVE m + 1 \in S
  <2>1. PICK h : Solves(h, m)
    OBVIOUS
  <2> DEFINE j == [i \in 0 .. m + 1 |-> IF i = m + 1 THEN h[m] + Term(m + 1) ELSE h[i]]
  <2> HIDE DEF Term
  <2>2. ASSUME NEW i \in 0 .. m + 1
        PROVE  j[i] = IF i = 0 THEN 0 ELSE j[i - 1] + Term(i)
    <3>1. CASE i = m + 1
      BY <3>1
    <3>2. CASE i \in 1 .. m
      BY <2>1, <3>2
    <3>3. CASE i = 0
      BY <2>1, <3>3
    <3> QED
      BY <3>1, <3>2, <3>3
  <2>3. Solves(j, m + 1)
    BY <2>2
  <2> HIDE DEF j, Solves
  <2> QED
    BY <2>3
<1>3. Len(s) \in S
  <2>1. S \in SUBSET Nat
    OBVIOUS
  <2> HIDE DEF S
  <2> QED
    BY <1>1, <1>2, <2>1, SetInduction
<1> DEFINE low == CHOOSE h : Solves(h, Len(s))
<1>4. Solves(low, Len(s))
  BY <1>3
<1>5. FromLittleEndian(s) = low[Len(s)]
  BY DEF FromLittleEndian
<1> HIDE DEF low
<1>6. low[0] = 0
  BY <1>4
<1>7. ASSUME NEW i \in 0 .. Len(s) - 1
      PROVE  low[i + 1] = low[i] + s[i + 1] * Weight[i]
  <2>1. i + 1 \in 0 .. Len(s) /\ i + 1 # 0 /\ (i + 1) - 1 = i
    OBVIOUS
  <2>2. low[i + 1] = low[(i + 1) - 1] + Term(i + 1)
    <3> HIDE DEF Term
    <3> QED
      BY <1>4, <2>1
  <2> QED
    BY <2>1, <2>2
<1> QED
  BY <1>5, <1>6, <1>7

\* An encoded integer is that many bytes.
LEMMA LittleEndianType ==
  ASSUME NEW v \in Nat, NEW w \in 0 .. 8
  PROVE  LittleEndian(v, w) \in Seq(Bytes) /\ Len(LittleEndian(v, w)) = w
<1>1. ASSUME NEW i \in 1 .. w PROVE (v \div Weight[i - 1]) % Base \in Bytes
  <2>1. Weight[i - 1] \in Nat /\ Weight[i - 1] > 0
    BY WeightPositive
  <2>2. v \div Weight[i - 1] \in Nat
    BY <2>1
  <2> QED
    BY <2>2, BaseAssumption DEF Bytes
<1>2. LittleEndian(v, w) \in [1 .. w -> Bytes]
  BY <1>1 DEF LittleEndian
<1> QED
  BY <1>2

\* Decoding an encoded integer gives it back, as far as its width goes.
LEMMA DecodesLow ==
  ASSUME NEW v \in Nat, NEW w \in 0 .. 8
  PROVE  FromLittleEndian(LittleEndian(v, w)) = v % Weight[w]
<1> DEFINE s == LittleEndian(v, w)
<1>1. Len(s) = w /\ \A i \in 1 .. w : s[i] = (v \div Weight[i - 1]) % Base
  BY LittleEndianType DEF LittleEndian
<1> HIDE DEF s
<1>2. PICK low : /\ low[0] = 0
                 /\ \A i \in 0 .. w - 1 : low[i + 1] = low[i] + s[i + 1] * Weight[i]
                 /\ FromLittleEndian(s) = low[w]
  <2>1. Len(s) \in Nat
    BY <1>1
  <2>2. \E low : /\ low[0] = 0
                 /\ \A i \in 0 .. Len(s) - 1 : low[i + 1] = low[i] + s[i + 1] * Weight[i]
                 /\ FromLittleEndian(s) = low[Len(s)]
    BY <2>1, LowEquation
  <2> QED
    BY <1>1, <2>2
<1> DEFINE S == {i \in Nat : i <= w => low[i] = v % Weight[i]}
<1>3. 0 \in S
  BY <1>2, WeightStep
<1>4. ASSUME NEW i \in S PROVE i + 1 \in S
  <2> SUFFICES ASSUME i + 1 <= w PROVE low[i + 1] = v % Weight[i + 1]
    OBVIOUS
  <2>1. low[i] = v % Weight[i]
    OBVIOUS
  <2>2. i \in 0 .. w - 1 /\ i + 1 \in 1 .. w /\ (i + 1) - 1 = i /\ i \in 0 .. 7 /\ i \in 0 .. 8
    OBVIOUS
  <2>3. s[i + 1] = (v \div Weight[i]) % Base
    BY <1>1, <2>2
  <2>4. low[i + 1] = (v % Weight[i]) + ((v \div Weight[i]) % Base) * Weight[i]
    BY <1>2, <2>1, <2>2, <2>3
  <2>5. Weight[i] \in Nat /\ Weight[i] > 0
    BY WeightPositive, <2>2
  <2>6. v % (Base * Weight[i]) = (v % Weight[i]) + ((v \div Weight[i]) % Base) * Weight[i]
    <3> DEFINE m == Weight[i]
    <3> HIDE DEF m
    <3>1. m \in Nat /\ m > 0 /\ Base \in Nat /\ Base > 0
      BY <2>5, BaseAssumption DEF m
    <3>2. v % (Base * m) = (v % m) + ((v \div m) % Base) * m
      BY <3>1, DivideTwice
    <3> QED
      BY <3>2 DEF m
  <2> QED
    BY <2>2, <2>4, <2>6, WeightStep
<1>5. S = Nat
  <2>1. S \in SUBSET Nat
    OBVIOUS
  <2> HIDE DEF S
  <2> QED
    BY <1>3, <1>4, <2>1, SetInduction
<1> QED
  BY <1>2, <1>5 DEF s

\* Bytes stand for a number that their count can hold.
LEMMA FromType ==
  ASSUME NEW s \in Seq(Bytes), Len(s) <= 8
  PROVE  FromLittleEndian(s) \in 0 .. Weight[Len(s)] - 1
<1>1. PICK low : /\ low[0] = 0
                 /\ \A i \in 0 .. Len(s) - 1 : low[i + 1] = low[i] + s[i + 1] * Weight[i]
                 /\ FromLittleEndian(s) = low[Len(s)]
  BY LowEquation
<1> DEFINE S == {i \in Nat : i <= Len(s) => low[i] \in 0 .. Weight[i] - 1}
<1>2. 0 \in S
  BY <1>1, WeightStep
<1>3. ASSUME NEW i \in S PROVE i + 1 \in S
  <2> SUFFICES ASSUME i + 1 <= Len(s) PROVE low[i + 1] \in 0 .. Weight[i + 1] - 1
    OBVIOUS
  <2>1. low[i] \in 0 .. Weight[i] - 1
    OBVIOUS
  <2>2. i \in 0 .. Len(s) - 1 /\ i + 1 \in 1 .. Len(s) /\ i \in 0 .. 7 /\ i \in 0 .. 8
    OBVIOUS
  <2>3. s[i + 1] \in 0 .. Base - 1
    BY <2>2, ElementOfSeq DEF Bytes
  <2>4. Weight[i] \in Nat /\ Weight[i] > 0 /\ Weight[i + 1] = Base * Weight[i]
    BY WeightPositive, WeightStep, <2>2
  <2>5. low[i + 1] = low[i] + s[i + 1] * Weight[i]
    BY <1>1, <2>2
  <2> DEFINE m == Weight[i]
             x == s[i + 1]
  <2> HIDE DEF m, x
  <2>6. x * m \in Nat /\ x * m <= (Base - 1) * m
    <3>1. x \in Nat /\ m \in Nat /\ Base - 1 \in Nat /\ x <= Base - 1
      BY <2>3, <2>4, BaseAssumption DEF m, x
    <3>2. ASSUME NEW a \in Nat, NEW c \in Nat, NEW d \in Nat, a <= d
          PROVE  a * c \in Nat /\ a * c <= d * c
      <4>1. (d - a) * c \in Nat /\ (d - a) * c = d * c - a * c
        BY <3>2
      <4> QED
        BY <4>1
    <3> QED
      BY <3>1, <3>2
  <2>7. (Base - 1) * m = Base * m - m
    BY <2>4, BaseAssumption DEF m
  <2> QED
    BY <2>1, <2>4, <2>5, <2>6, <2>7, BaseAssumption, SMTT(30) DEF m, x
<1>4. S = Nat
  <2>1. S \in SUBSET Nat
    OBVIOUS
  <2> HIDE DEF S
  <2> QED
    BY <1>2, <1>3, <2>1, SetInduction
<1> QED
  BY <1>1, <1>4

-----------------------------------------------------------------------------
(* Sequences *)

\* FlattenSeq puts the sequences one behind the other.
LEMMA FlattenEquation ==
  ASSUME NEW S, NEW ss \in Seq(Seq(S))
  PROVE  \E fl : /\ fl[0] = <<>>
                 /\ \A i \in 0 .. Len(ss) - 1 : fl[i + 1] = fl[i] \o ss[i + 1]
                 /\ FlattenSeq(ss) = fl[Len(ss)]
<1>1. CASE Len(ss) = 0
  <2>1. ss = <<>> /\ FlattenSeq(ss) = ss
    BY <1>1 DEF FlattenSeq
  <2> DEFINE fl == [i \in 0 .. 0 |-> <<>>]
  <2>2. fl[0] = <<>> /\ FlattenSeq(ss) = fl[Len(ss)] /\ \A i \in 0 .. Len(ss) - 1 : FALSE
    BY <1>1, <2>1
  <2> HIDE DEF fl
  <2> QED
    BY <2>2
<1>2. CASE Len(ss) # 0
  <2> DEFINE Cat(x, y) == x \o y
             Solves(h, m) == h = [i \in 1 .. m |-> IF i = 1 THEN ss[i] ELSE Cat(h[i - 1], ss[i])]
             T == {m \in Nat : \E h : Solves(h, m + 1)}
             flatten == CHOOSE h : Solves(h, Len(ss))
             n0 == Len(ss)
  <2>5. FlattenSeq(ss) = flatten[n0]
    BY <1>2 DEF FlattenSeq
  <2>0. n0 \in Nat /\ n0 # 0
    BY <1>2
  <2> HIDE DEF Cat, n0
  <2>1. 0 \in T
    <3>1. Solves([i \in 1 .. 1 |-> ss[1]], 0 + 1)
      OBVIOUS
    <3> QED
      BY <3>1
  <2>2. ASSUME NEW m \in T PROVE m + 1 \in T
    <3>1. PICK h : Solves(h, m + 1)
      OBVIOUS
    <3> DEFINE j == [i \in 1 .. m + 2 |-> IF i = m + 2 THEN Cat(h[m + 1], ss[m + 2]) ELSE h[i]]
    <3>2. ASSUME NEW i \in 1 .. m + 2
          PROVE  j[i] = IF i = 1 THEN ss[i] ELSE Cat(j[i - 1], ss[i])
      <4>1. CASE i = m + 2
        <5>1. i - 1 = m + 1 /\ i # 1 /\ m + 1 \in 1 .. m + 2 /\ m + 1 # m + 2
          BY <4>1
        <5> QED
          BY <4>1, <5>1
      <4>2. CASE i \in 2 .. m + 1
        <5>1. i \in 1 .. m + 1 /\ i - 1 \in 1 .. m + 1 /\ i # 1 /\ i # m + 2 /\ i - 1 # m + 2
          BY <4>2
        <5>2. h[i] = Cat(h[i - 1], ss[i])
          BY <3>1, <5>1
        <5> QED
          BY <5>1, <5>2
      <4>3. CASE i = 1
        BY <3>1, <4>3
      <4> QED
        BY <4>1, <4>2, <4>3
    <3>3. j = [i \in 1 .. m + 2 |-> j[i]]
      OBVIOUS
    <3> HIDE DEF j
    <3>4. Solves(j, m + 2)
      BY <3>2, <3>3
    <3>5. m + 2 = (m + 1) + 1
      OBVIOUS
    <3> HIDE DEF Solves
    <3> QED
      BY <3>4, <3>5
  <2>3. n0 - 1 \in T
    <3>1. T \in SUBSET Nat
      OBVIOUS
    <3> HIDE DEF T
    <3>2. T = Nat
      BY <2>1, <2>2, <3>1, SetInduction
    <3> QED
      BY <2>0, <3>2
  <2>4. Solves(flatten, n0)
    <3>1. \E h : Solves(h, (n0 - 1) + 1)
      BY <2>3
    <3>2. (n0 - 1) + 1 = n0
      BY <2>0
    <3> HIDE DEF Solves
    <3> QED
      BY <3>1, <3>2 DEF n0
  <2> HIDE DEF flatten
  <2> DEFINE fl == [i \in 0 .. n0 |-> IF i = 0 THEN <<>> ELSE flatten[i]]
  <2>6. ASSUME NEW i \in 0 .. n0 - 1 PROVE fl[i + 1] = Cat(fl[i], ss[i + 1])
    <3>1. i + 1 \in 1 .. n0 /\ (i + 1) - 1 = i /\ i + 1 \in 0 .. n0 /\ i \in 0 .. n0
      BY <2>0
    <3>2. ss[i + 1] \in Seq(S)
      BY <3>1, ElementOfSeq DEF n0
    <3>3. flatten[i + 1] = IF i + 1 = 1 THEN ss[i + 1] ELSE Cat(flatten[(i + 1) - 1], ss[i + 1])
      BY <3>1, <2>4
    <3>4. CASE i = 0
      <4>1. Cat(<<>>, ss[i + 1]) = ss[i + 1]
        BY <3>2, ConcatEmptySeq DEF Cat
      <4> QED
        BY <3>1, <3>3, <3>4, <4>1
    <3>5. CASE i # 0
      BY <3>1, <3>3, <3>5
    <3> QED
      BY <3>4, <3>5
  <2>7. fl[0] = <<>> /\ fl[n0] = FlattenSeq(ss)
    BY <2>0, <2>5
  <2> HIDE DEF fl
  <2> QED
    BY <2>6, <2>7 DEF n0, Cat
<1> QED
  BY <1>1, <1>2

\* Cuts(t, ss, c): t is the sequences ss one behind the other, with the cut
\* before the first at c[0] = 0 and the one behind the j-th at c[j].
Cuts(t, ss, c) ==
  /\ c \in [0 .. Len(ss) -> Nat]
  /\ c[0] = 0 /\ c[Len(ss)] = Len(t)
  /\ \A j \in 1 .. Len(ss) :
       /\ c[j] = c[j - 1] + Len(ss[j]) /\ c[j] <= Len(t)
       /\ \A i \in 1 .. Len(ss[j]) : t[c[j - 1] + i] = ss[j][i]

LEMMA FlattenCuts ==
  ASSUME NEW S, NEW ss \in Seq(Seq(S))
  PROVE  FlattenSeq(ss) \in Seq(S) /\ \E c : Cuts(FlattenSeq(ss), ss, c)
<1> DEFINE n0 == Len(ss)
<1>0. n0 \in Nat /\ \A j \in 1 .. n0 : ss[j] \in Seq(S) /\ Len(ss[j]) \in Nat
  BY ElementOfSeq, LenProperties
<1> HIDE DEF n0
<1>1. PICK fl : /\ fl[0] = <<>>
                /\ \A i \in 0 .. n0 - 1 : fl[i + 1] = fl[i] \o ss[i + 1]
                /\ FlattenSeq(ss) = fl[n0]
  BY FlattenEquation DEF n0
<1> DEFINE Laid(t, c, m) ==
             /\ c \in [0 .. m -> Nat]
             /\ c[0] = 0 /\ c[m] = Len(t)
             /\ \A j \in 1 .. m :
                  /\ c[j] = c[j - 1] + Len(ss[j]) /\ c[j] <= Len(t)
                  /\ \A i \in 1 .. Len(ss[j]) : t[c[j - 1] + i] = ss[j][i]
           Good(m) == fl[m] \in Seq(S) /\ \E c : Laid(fl[m], c, m)
           T == {m \in Nat : m <= n0 => Good(m)}
<1>2. 0 \in T
  <2>1. Laid(<<>>, [j \in 0 .. 0 |-> 0], 0)
    OBVIOUS
  <2> HIDE DEF Laid
  <2>2. Good(0)
    BY <1>1, <2>1
  <2> HIDE DEF Good
  <2> QED
    BY <2>2
<1>3. ASSUME NEW m \in Nat, m + 1 <= n0, Good(m) PROVE Good(m + 1)
  <2> DEFINE t == fl[m]
             u == ss[m + 1]
  <2>1. fl[m + 1] = t \o u
    <3>1. m \in 0 .. n0 - 1
      BY <1>0, <1>3
    <3> QED
      BY <1>1, <3>1
  <2>2. u \in Seq(S) /\ t \in Seq(S) /\ Len(u) \in Nat /\ Len(t) \in Nat
    BY <1>0, <1>3
  <2>3. PICK c : Laid(t, c, m)
    <3> HIDE DEF Laid
    <3> QED
      BY <1>3
  <2> HIDE DEF t, u
  <2>4. /\ t \o u \in Seq(S) /\ Len(t \o u) = Len(t) + Len(u)
        /\ \A i \in 1 .. Len(t) : (t \o u)[i] = t[i]
        /\ \A i \in 1 .. Len(u) : (t \o u)[Len(t) + i] = u[i]
    BY <2>2, ConcatProperties
  <2> DEFINE tu == t \o u
             d == [j \in 0 .. m + 1 |-> IF j = m + 1 THEN c[m] + Len(u) ELSE c[j]]
  <2> HIDE DEF tu
  <2>5. d \in [0 .. m + 1 -> Nat] /\ d[0] = 0 /\ d[m + 1] = Len(tu)
    BY <2>2, <2>3, <2>4 DEF tu
  <2>6. ASSUME NEW j \in 1 .. m + 1
        PROVE  /\ d[j] = d[j - 1] + Len(ss[j]) /\ d[j] <= Len(tu)
               /\ \A i \in 1 .. Len(ss[j]) : tu[d[j - 1] + i] = ss[j][i]
    <3>1. CASE j = m + 1
      <4>1. d[j] = c[m] + Len(u) /\ d[j - 1] = c[m] /\ c[m] = Len(t) /\ ss[j] = u
        BY <3>1, <2>3 DEF u
      <4> HIDE DEF d
      <4> QED
        BY <4>1, <2>2, <2>4 DEF tu
    <3>2. CASE j \in 1 .. m
      <4>1. d[j] = c[j] /\ d[j - 1] = c[j - 1]
        BY <3>2
      <4>2. c[j - 1] \in Nat /\ c[j] \in Nat /\ Len(ss[j]) \in Nat
        BY <3>2, <2>3, <1>0, <1>3
      <4>3. /\ c[j] = c[j - 1] + Len(ss[j]) /\ c[j] <= Len(t)
            /\ \A i \in 1 .. Len(ss[j]) : t[c[j - 1] + i] = ss[j][i]
        BY <3>2, <2>3
      <4> HIDE DEF d, Laid
      <4>5. ASSUME NEW i \in 1 .. Len(ss[j])
            PROVE  tu[c[j - 1] + i] = ss[j][i]
        <5>1. c[j - 1] + i \in 1 .. Len(t)
          BY <2>2, <4>2, <4>3, SMTT(30)
        <5> QED
          BY <5>1, <2>4, <4>3 DEF tu
      <4>6. c[j] <= Len(tu)
        BY <4>2, <4>3, <2>2, <2>4 DEF tu
      <4> QED
        BY <4>1, <4>3, <4>5, <4>6
    <3> HIDE DEF d
    <3> QED
      BY <3>1, <3>2
  <2>7. Laid(tu, d, m + 1)
    BY <2>5, <2>6
  <2> HIDE DEF Laid, d
  <2> QED
    BY <2>1, <2>4, <2>7 DEF tu
<1>4. Good(n0)
  <2> HIDE DEF Good
  <2>1. T \in SUBSET Nat
    OBVIOUS
  <2>2. ASSUME NEW m \in T PROVE m + 1 \in T
    BY <1>0, <1>3
  <2>3. n0 \in T
    <3> HIDE DEF T
    <3> QED
      BY <1>0, <1>2, <2>1, <2>2, SetInduction
  <2> QED
    BY <1>0, <2>3
<1>5. \E c : Laid(fl[n0], c, n0)
  <2> HIDE DEF Laid
  <2> QED
    BY <1>4
<1> QED
  BY <1>1, <1>4, <1>5, SMTT(30) DEF Cuts, n0

\* SortStable returns elements of the sequence it is given.
LEMMA SortType ==
  ASSUME NEW S, NEW tlvs \in Seq(S)
  PROVE  SortStable(tlvs) \in Seq(S)
<1> DEFINE Put(s, t) == InsertAt(s, Cardinality({i \in DOMAIN s : s[i].ext <= t.ext}) + 1, t)
           n0 == Len(tlvs)
<1>1. ASSUME NEW s \in Seq(S), NEW t \in S PROVE Put(s, t) \in Seq(S)
  <2> DEFINE A == {i \in DOMAIN s : s[i].ext <= t.ext}
             k == Cardinality(A)
  <2>1. DOMAIN s = 1 .. Len(s) /\ Len(s) \in Nat
    BY LenProperties
  <2>2. IsFiniteSet(1 .. Len(s)) /\ Cardinality(1 .. Len(s)) = Len(s)
    <3>1. 1 \in Int /\ Len(s) \in Int /\ (IF 1 > Len(s) THEN 0 ELSE Len(s) - 1 + 1) = Len(s)
      BY <2>1
    <3>2. /\ IsFiniteSet(1 .. Len(s))
          /\ Cardinality(1 .. Len(s)) = IF 1 > Len(s) THEN 0 ELSE Len(s) - 1 + 1
      BY <3>1, FS_Interval
    <3> QED
      BY <3>1, <3>2
  <2>3. A \subseteq 1 .. Len(s)
    BY <2>1
  <2> HIDE DEF A
  <2>4. k \in Nat /\ k <= Len(s)
    BY <2>2, <2>3, FS_Subset, FS_CardinalityType
  <2> HIDE DEF k
  <2>5. SubSeq(s, 1, (k + 1) - 1) \in Seq(S) /\ SubSeq(s, k + 1, Len(s)) \in Seq(S)
    BY <2>1, <2>4
  <2>6. <<t>> \in Seq(S)
    OBVIOUS
  <2>7. Put(s, t) = SubSeq(s, 1, (k + 1) - 1) \o <<t>> \o SubSeq(s, k + 1, Len(s))
    BY DEF InsertAt, k, A
  <2> HIDE DEF Put
  <2> QED
    BY <2>5, <2>6, <2>7, ConcatProperties
<1> DEFINE Solves(h, m) == h = [i \in 0 .. m |-> IF i = 0 THEN <<>> ELSE Put(h[i - 1], tlvs[i])]
           T == {m \in Nat : \E h : Solves(h, m)}
           sorted == CHOOSE h : Solves(h, n0)
<1>2. SortStable(tlvs) = sorted[n0]
  BY DEF SortStable
<1>3. n0 \in Nat /\ \A i \in 1 .. n0 : tlvs[i] \in S
  BY ElementOfSeq
<1> HIDE DEF Put, n0
<1>4. 0 \in T
  <2>1. Solves([i \in 0 .. 0 |-> <<>>], 0)
    OBVIOUS
  <2> QED
    BY <2>1
<1>5. ASSUME NEW m \in T PROVE m + 1 \in T
  <2>1. PICK h : Solves(h, m)
    OBVIOUS
  <2> DEFINE j == [i \in 0 .. m + 1 |-> IF i = m + 1 THEN Put(h[m], tlvs[m + 1]) ELSE h[i]]
  <2>2. ASSUME NEW i \in 0 .. m + 1
        PROVE  j[i] = IF i = 0 THEN <<>> ELSE Put(j[i - 1], tlvs[i])
    <3>1. CASE i = m + 1
      BY <3>1
    <3>2. CASE i \in 1 .. m
      BY <2>1, <3>2
    <3>3. CASE i = 0
      BY <2>1, <3>3
    <3> QED
      BY <3>1, <3>2, <3>3
  <2>3. Solves(j, m + 1)
    BY <2>2
  <2> HIDE DEF j, Solves
  <2> QED
    BY <2>3
<1>6. \E h : Solves(h, n0)
  <2>1. T \in SUBSET Nat
    OBVIOUS
  <2> HIDE DEF T
  <2>2. T = Nat
    BY <1>4, <1>5, <2>1, SetInduction
  <2>3. n0 \in T
    BY <1>3, <2>2
  <2> QED
    BY <2>3 DEF T
<1>7. Solves(sorted, n0)
  <2> HIDE DEF Solves
  <2> QED
    BY <1>6
<1> HIDE DEF sorted
<1> DEFINE U == {m \in Nat : m <= n0 => sorted[m] \in Seq(S)}
<1>8. 0 \in U
  BY <1>3, <1>7
<1>9. ASSUME NEW m \in U PROVE m + 1 \in U
  <2> SUFFICES ASSUME m + 1 <= n0 PROVE sorted[m + 1] \in Seq(S)
    OBVIOUS
  <2>1. m + 1 \in 1 .. n0 /\ m + 1 \in 0 .. n0 /\ (m + 1) - 1 = m /\ m + 1 # 0
    BY <1>3
  <2>2. sorted[m + 1] = Put(sorted[(m + 1) - 1], tlvs[m + 1])
    BY <1>7, <2>1
  <2>3. sorted[m] \in Seq(S)
    BY <1>3
  <2> QED
    BY <1>1, <1>3, <2>1, <2>2, <2>3
<1>10. U = Nat
  <2>1. U \in SUBSET Nat
    OBVIOUS
  <2> HIDE DEF U
  <2> QED
    BY <1>8, <1>9, <2>1, SetInduction
<1> QED
  BY <1>2, <1>3, <1>10

-----------------------------------------------------------------------------
(* Headers *)

\* Three integers, one behind the other.
LEMMA ThreeIntegers ==
  ASSUME NEW a \in Seq(Bytes), NEW bb \in Seq(Bytes), NEW c \in Seq(Bytes)
  PROVE  /\ a \o bb \o c \in Seq(Bytes)
         /\ Len(a \o bb \o c) = Len(a) + Len(bb) + Len(c)
         /\ \A i \in 1 .. Len(a) : (a \o bb \o c)[i] = a[i]
         /\ \A i \in 1 .. Len(bb) : (a \o bb \o c)[Len(a) + i] = bb[i]
         /\ \A i \in 1 .. Len(c) : (a \o bb \o c)[Len(a) + Len(bb) + i] = c[i]
<1> DEFINE d == a \o bb
<1>1. /\ d \in Seq(Bytes) /\ Len(d) = Len(a) + Len(bb)
      /\ \A i \in 1 .. Len(a) + Len(bb) : d[i] = IF i <= Len(a) THEN a[i] ELSE bb[i - Len(a)]
  BY ConcatProperties
<1> HIDE DEF d
<1>2. /\ d \o c \in Seq(Bytes) /\ Len(d \o c) = Len(d) + Len(c)
      /\ \A i \in 1 .. Len(d) + Len(c) : (d \o c)[i] = IF i <= Len(d) THEN d[i] ELSE c[i - Len(d)]
  <2>1. d \in Seq(Bytes)
    BY <1>1
  <2> QED
    BY <2>1, ConcatProperties
<1> DEFINE e == d \o c
<1>3. Len(a) \in Nat /\ Len(bb) \in Nat /\ Len(c) \in Nat
  OBVIOUS
<1> HIDE DEF e
<1>4. ASSUME NEW i \in 1 .. Len(a) PROVE e[i] = a[i]
  BY <1>1, <1>2, <1>3 DEF e
<1>5. ASSUME NEW i \in 1 .. Len(bb) PROVE e[Len(a) + i] = bb[i]
  <2>1. /\ Len(a) + i \in 1 .. Len(d) + Len(c) /\ Len(a) + i \in 1 .. Len(a) + Len(bb)
        /\ Len(a) + i <= Len(d) /\ ~ (Len(a) + i <= Len(a)) /\ (Len(a) + i) - Len(a) = i
    BY <1>1, <1>3
  <2> QED
    BY <2>1, <1>1, <1>2 DEF e
<1>6. ASSUME NEW i \in 1 .. Len(c) PROVE e[Len(a) + Len(bb) + i] = c[i]
  <2>1. /\ Len(d) + i \in 1 .. Len(d) + Len(c) /\ ~ (Len(d) + i <= Len(d))
        /\ (Len(d) + i) - Len(d) = i
    BY <1>1, <1>3
  <2> QED
    BY <2>1, <1>1, <1>2 DEF e
<1> QED
  BY <1>1, <1>2, <1>4, <1>5, <1>6 DEF d, e

\* An integer that stands somewhere among bytes is read from there.
LEMMA ReadsInteger ==
  ASSUME NEW s, NEW o \in Nat, NEW v \in Nat, NEW w \in 0 .. 8, v < Weight[w],
         \A i \in 1 .. w : s[o + i] = LittleEndian(v, w)[i]
  PROVE  FromLittleEndian(SubSeq(s, o + 1, o + w)) = v
<1>1. /\ LittleEndian(v, w) \in Seq(Bytes) /\ Len(LittleEndian(v, w)) = w
  BY LittleEndianType
<1>2. SubSeq(s, o + 1, o + w) = LittleEndian(v, w)
  <2> DEFINE t == SubSeq(s, o + 1, o + w)
             u == LittleEndian(v, w)
  <2>1. \A i \in (o + 1) .. (o + w) : s[i] \in Bytes
    <3> SUFFICES ASSUME NEW i \in (o + 1) .. (o + w) PROVE s[i] \in Bytes
      OBVIOUS
    <3>1. i - o \in 1 .. w /\ o + (i - o) = i
      OBVIOUS
    <3>2. u[i - o] \in Bytes
      BY <1>1, <3>1, ElementOfSeq
    <3> QED
      BY <3>1, <3>2
  <2>2. t \in Seq(Bytes) /\ Len(t) = w /\ \A i \in 1 .. w : t[i] = s[o + i]
    <3>1. o + 1 \in Int /\ o + w \in Int /\ (o + w) - (o + 1) + 1 = w
      OBVIOUS
    <3>2. /\ SubSeq(s, o + 1, o + w) \in Seq(Bytes)
          /\ Len(SubSeq(s, o + 1, o + w)) = IF o + 1 <= o + w THEN (o + w) - (o + 1) + 1 ELSE 0
          /\ \A i \in 1 .. (o + w) - (o + 1) + 1 : SubSeq(s, o + 1, o + w)[i] = s[(o + 1) + i - 1]
      BY <2>1, <3>1, SubSeqProperties
    <3> HIDE DEF t
    <3>3. \A i \in 1 .. w : (o + 1) + i - 1 = o + i
      OBVIOUS
    <3> QED
      BY <3>1, <3>2, <3>3 DEF t
  <2> HIDE DEF t, u
  <2>3. u \in Seq(Bytes) /\ Len(u) = w /\ \A i \in 1 .. w : t[i] = u[i]
    BY <1>1, <2>2 DEF u
  <2>4. t = u
    BY <2>2, <2>3, SeqEqual
  <2> QED
    BY <2>4 DEF t, u
<1>3. FromLittleEndian(LittleEndian(v, w)) = v % Weight[w]
  BY DecodesLow
<1>4. v % Weight[w] = v
  <2> DEFINE m == Weight[w]
  <2>1. m \in Nat /\ v < m
    BY WeightPositive
  <2> HIDE DEF m
  <2>2. v % m = v
    BY <2>1
  <2> QED
    BY <2>2 DEF m
<1> QED
  BY <1>2, <1>3, <1>4

LEMMA Limits ==
  /\ Weight[1] = Base /\ Limit64K \in Nat /\ MaxU24 \in Nat
  /\ Limit64K = Weight[2] - 1 /\ MaxU24 = Weight[3] - 1
  /\ \A v \in Bytes : v \in Nat /\ v < Weight[1]
<1>1. /\ Weight[2] \in Nat /\ Weight[2] > 0 /\ Weight[3] \in Nat /\ Weight[3] > 0
  BY WeightPositive
<1>2. Weight[1] = Base
  <2>1. Weight[0 + 1] = Base * Weight[0]
    BY WeightStep
  <2> QED
    BY <2>1, WeightStep, BaseAssumption
<1> QED
  BY <1>1, <1>2, BaseAssumption DEF Limit64K, MaxU24, Bytes

\* Three integers, the first two of two bytes and of one, are read as they
\* were written.
Fields(x, y, z, w) == LittleEndian(x, 2) \o LittleEndian(y, 1) \o LittleEndian(z, w)

LEMMA ThreeFields ==
  ASSUME NEW x \in 0 .. Limit64K, NEW y \in Bytes, NEW z \in Nat, NEW w \in 2 .. 3
  PROVE  /\ Fields(x, y, z, w) \in Seq(Bytes)
         /\ Len(Fields(x, y, z, w)) = 3 + w
         /\ \A s : (\A i \in 1 .. 3 + w : s[i] = Fields(x, y, z, w)[i]) =>
              /\ FromLittleEndian(SubSeq(s, 1, 2)) = x /\ s[3] = y
              /\ z < Weight[w] => FromLittleEndian(SubSeq(s, 4, 3 + w)) = z
<1> DEFINE a == LittleEndian(x, 2)
           d == LittleEndian(y, 1)
           c == LittleEndian(z, w)
           h == Fields(x, y, z, w)
<1>1. x \in Nat /\ x < Weight[2] /\ y \in Nat /\ y < Weight[1] /\ w \in Nat /\ w \in 0 .. 8
  BY Limits, WeightPositive
<1>2. a \in Seq(Bytes) /\ Len(a) = 2
  BY <1>1, LittleEndianType
<1>3. d \in Seq(Bytes) /\ Len(d) = 1
  BY <1>1, LittleEndianType
<1>4. c \in Seq(Bytes) /\ Len(c) = w
  BY <1>1, LittleEndianType
<1>5. d[1] = y
  <2>1. d[1] = (y \div Weight[0]) % Base
    BY DEF LittleEndian
  <2>2. Weight[0] = 1 /\ y < Base
    BY <1>1, WeightStep, Limits
  <2>3. (y \div 1) % Base = y
    BY <1>1, <2>2, BaseAssumption
  <2> HIDE DEF d
  <2> QED
    BY <2>1, <2>2, <2>3
<1> HIDE DEF a, d, c
<1>6. /\ h \in Seq(Bytes) /\ Len(h) = 3 + w
      /\ \A i \in 1 .. 2 : h[i] = a[i]
      /\ h[3] = d[1]
      /\ \A i \in 1 .. w : h[3 + i] = c[i]
  <2>1. h = a \o d \o c
    BY DEF a, d, c, Fields
  <2> HIDE DEF h
  <2>2. /\ a \o d \o c \in Seq(Bytes)
        /\ Len(a \o d \o c) = Len(a) + Len(d) + Len(c)
        /\ \A i \in 1 .. Len(a) : (a \o d \o c)[i] = a[i]
        /\ \A i \in 1 .. Len(d) : (a \o d \o c)[Len(a) + i] = d[i]
        /\ \A i \in 1 .. Len(c) : (a \o d \o c)[Len(a) + Len(d) + i] = c[i]
    BY <1>2, <1>3, <1>4, ThreeIntegers
  <2>3. /\ h \in Seq(Bytes)
        /\ Len(h) = 2 + 1 + w
        /\ \A i \in 1 .. 2 : h[i] = a[i]
        /\ \A i \in 1 .. 1 : h[2 + i] = d[i]
        /\ \A i \in 1 .. w : h[2 + 1 + i] = c[i]
    BY <1>2, <1>3, <1>4, <2>1, <2>2, Zenon
  <2> QED
    BY <1>1, <2>3
<1> HIDE DEF h
<1>7. ASSUME NEW s, \A i \in 1 .. 3 + w : s[i] = h[i]
      PROVE  /\ FromLittleEndian(SubSeq(s, 1, 2)) = x /\ s[3] = y
             /\ z < Weight[w] => FromLittleEndian(SubSeq(s, 4, 3 + w)) = z
  <2>1. FromLittleEndian(SubSeq(s, 0 + 1, 0 + 2)) = x
    <3>1. \A i \in 1 .. 2 : s[0 + i] = a[i]
      BY <1>1, <1>6, <1>7
    <3>2. \A i \in 1 .. 2 : s[0 + i] = LittleEndian(x, 2)[i]
      BY <3>1 DEF a
    <3>3. 0 \in Nat /\ 2 \in 0 .. 8
      OBVIOUS
    <3> QED
      BY <1>1, <3>2, <3>3, ReadsInteger, ZenonT(40)
  <2>2. s[3] = y
    BY <1>1, <1>5, <1>6, <1>7
  <2>3. ASSUME z < Weight[w] PROVE FromLittleEndian(SubSeq(s, 3 + 1, 3 + w)) = z
    <3>1. \A i \in 1 .. w : s[3 + i] = LittleEndian(z, w)[i]
      BY <1>1, <1>6, <1>7 DEF c
    <3> DEFINE o == 3
    <3>2. o \in Nat /\ \A i \in 1 .. w : s[o + i] = LittleEndian(z, w)[i]
      BY <3>1
    <3> HIDE DEF o
    <3>3. FromLittleEndian(SubSeq(s, o + 1, o + w)) = z
      <4>1. w \in 0 .. 8
        BY <1>1
      <4>2. z < Weight[w]
        BY <2>3
      <4>3. z \in Nat
        OBVIOUS
      <4> QED
        BY <3>2, <4>1, <4>2, <4>3, ReadsInteger
    <3> QED
      BY <3>3 DEF o
  <2> QED
    BY <2>1, <2>2, <2>3
<1> QED
  BY <1>6, <1>7 DEF h

\* A frame's header has six bytes, from which DecodeHeader reads what was
\* written, the length if it has not outgrown three bytes.
LEMMA HeaderBytes ==
  ASSUME NEW ext \in 0 .. Limit64K, NEW type \in Bytes, NEW len \in Nat
  PROVE  /\ EncodeHeader(ext, type, len) \in Seq(Bytes)
         /\ Len(EncodeHeader(ext, type, len)) = FrameHeaderSize
         /\ \A s : (\A i \in 1 .. FrameHeaderSize : s[i] = EncodeHeader(ext, type, len)[i]) =>
              /\ FromLittleEndian(SubSeq(s, 1, 2)) = ext /\ s[3] = type
              /\ len <= MaxU24 => FromLittleEndian(SubSeq(s, 4, 6)) = len
<1> DEFINE h == EncodeHeader(ext, type, len)
<1>1. h = Fields(ext, type, len, 3) /\ 3 \in 2 .. 3
  BY DEF EncodeHeader, Fields
<1> HIDE DEF h
<1>2. /\ h \in Seq(Bytes)
      /\ Len(h) = 3 + 3
      /\ \A s : (\A i \in 1 .. 3 + 3 : s[i] = h[i]) =>
              /\ FromLittleEndian(SubSeq(s, 1, 2)) = ext /\ s[3] = type
              /\ len < Weight[3] => FromLittleEndian(SubSeq(s, 4, 3 + 3)) = len
  BY <1>1, ThreeFields
<1>3. len <= MaxU24 => len < Weight[3]
  BY Limits, WeightPositive
<1> QED
  BY <1>2, <1>3 DEF h, FrameHeaderSize

\* The same of a TLV's header of five bytes.
LEMMA TLVHeaderBytes ==
  ASSUME NEW t \in TLVs
  PROVE  /\ TLVHeader(t) \in Seq(Bytes)
         /\ Len(TLVHeader(t)) = TLVHeaderSize
         /\ \A s : (\A i \in 1 .. TLVHeaderSize : s[i] = TLVHeader(t)[i]) =>
              /\ FromLittleEndian(SubSeq(s, 1, 2)) = t.ext /\ s[3] = t.field
              /\ t.len <= Limit64K => FromLittleEndian(SubSeq(s, 4, 5)) = t.len
<1> DEFINE h == TLVHeader(t)
           ext == t.ext
           field == t.field
           len == t.len
<1>1. h = Fields(ext, field, len, 2) /\ 2 \in 2 .. 3
  BY DEF TLVHeader, Fields
<1>2. ext \in 0 .. Limit64K /\ field \in Bytes /\ len \in Nat
  BY DEF TLVs
<1> HIDE DEF h, ext, field, len
<1>3. /\ h \in Seq(Bytes)
      /\ Len(h) = 3 + 2
      /\ \A s : (\A i \in 1 .. 3 + 2 : s[i] = h[i]) =>
              /\ FromLittleEndian(SubSeq(s, 1, 2)) = ext /\ s[3] = field
              /\ len < Weight[2] => FromLittleEndian(SubSeq(s, 4, 3 + 2)) = len
  BY <1>1, <1>2, ThreeFields
<1>4. len <= Limit64K => len < Weight[2]
  BY <1>2, Limits, WeightPositive
<1> QED
  BY <1>3, <1>4 DEF h, ext, field, len, TLVHeaderSize

\* Whatever the bytes, what is read from a header is in range.
LEMMA HeaderRange ==
  ASSUME NEW s, NEW k \in {5, 6}, \A i \in 1 .. k : s[i] \in Bytes
  PROVE  /\ FromLittleEndian(SubSeq(s, 1, 2)) \in 0 .. Limit64K
         /\ s[3] \in Bytes
         /\ FromLittleEndian(SubSeq(s, 4, k)) \in Nat
         /\ FromLittleEndian(SubSeq(s, 4, k)) <= (IF k = 5 THEN Limit64K ELSE MaxU24)
<1>1. SubSeq(s, 1, 2) \in Seq(Bytes) /\ Len(SubSeq(s, 1, 2)) = 2
  <2>1. \A i \in 1 .. 2 : s[i] \in Bytes
    OBVIOUS
  <2> QED
    BY <2>1, SubSeqProperties
<1>2. SubSeq(s, 4, k) \in Seq(Bytes) /\ Len(SubSeq(s, 4, k)) = k - 3
  <2>1. \A i \in 4 .. k : s[i] \in Bytes
    OBVIOUS
  <2> QED
    BY <2>1, SubSeqProperties
<1>3. FromLittleEndian(SubSeq(s, 1, 2)) \in 0 .. Weight[2] - 1
  <2>1. Len(SubSeq(s, 1, 2)) <= 8
    BY <1>1
  <2> QED
    BY <1>1, <2>1, FromType
<1>4. FromLittleEndian(SubSeq(s, 4, k)) \in 0 .. Weight[k - 3] - 1
  <2>1. Len(SubSeq(s, 4, k)) <= 8
    BY <1>2
  <2> QED
    BY <1>2, <2>1, FromType
<1> QED
  BY <1>3, <1>4, Limits, WeightPositive

-----------------------------------------------------------------------------
(* Encoding *)

\* A frame whose length and payload are in step.
Frames == [ext : 0 .. Limit64K, type : Bytes, len : Nat, payload : Seq(Bytes), tlvs : Seq(TLVs)]
InStep(fr) == fr \in Frames /\ fr.len = Len(fr.payload)

\* What Encode may do to a frame: append to its payload.
Grown(fr, to) ==
  /\ InStep(to) /\ to.ext = fr.ext /\ to.type = fr.type
  /\ Len(fr.payload) <= Len(to.payload)
  /\ \A i \in 1 .. Len(fr.payload) : to.payload[i] = fr.payload[i]

LEMMA TLVEncodeType ==
  ASSUME NEW t \in TLVs
  PROVE  TLVEncode(t) \in Seq(Bytes)
<1>1. TLVHeader(t) \in Seq(Bytes)
  BY TLVHeaderBytes
<1>2. t.value \in Seq(Bytes) /\ Len(t.value) \in Nat /\ 2 \in 0 .. 8
  BY DEF TLVs
<1>3. LittleEndian(Len(t.value), 2) \in Seq(Bytes)
  BY <1>2, LittleEndianType
<1> DEFINE x == TLVHeader(t)
           y == LittleEndian(Len(t.value), 2)
           z == t.value
<1>4. TLVEncode(t) = x \o y \o z
  BY DEF TLVEncode
<1> HIDE DEF x, y, z
<1>5. x \in Seq(Bytes) /\ y \in Seq(Bytes) /\ z \in Seq(Bytes)
  BY <1>1, <1>2, <1>3 DEF x, y, z
<1> QED
  BY <1>4, <1>5, ThreeIntegers

LEMMA AppendTLVsGrows ==
  ASSUME NEW fr, InStep(fr)
  PROVE  Grown(fr, AppendTLVs(fr))
<1> DEFINE tlvs == SortStable(fr.tlvs)
           images == [i \in DOMAIN tlvs |-> TLVEncode(tlvs[i])]
           tlvOut == FlattenSeq(images)
           p == fr.payload
<1>1. fr \in Frames /\ p \in Seq(Bytes) /\ Len(p) \in Nat /\ fr.len = Len(p)
  BY DEF InStep, Frames
<1>2. tlvs \in Seq(TLVs)
  BY <1>1, SortType DEF Frames
<1>3. tlvOut \in Seq(Bytes)
  <2> HIDE DEF tlvs
  <2>1. DOMAIN tlvs = 1 .. Len(tlvs) /\ Len(tlvs) \in Nat
    BY <1>2, LenProperties
  <2>2. \A i \in 1 .. Len(tlvs) : TLVEncode(tlvs[i]) \in Seq(Bytes)
    BY <1>2, TLVEncodeType, ElementOfSeq
  <2>3. images \in [1 .. Len(tlvs) -> Seq(Bytes)]
    BY <2>1, <2>2
  <2>4. images \in Seq(Seq(Bytes))
    BY <2>1, <2>3, SeqDef
  <2> HIDE DEF images
  <2> QED
    BY <2>4, FlattenCuts
<1>4. AppendTLVs(fr) = [fr EXCEPT !.tlvs = tlvs, !.len = @ + Len(tlvOut), !.payload = @ \o tlvOut]
  BY DEF AppendTLVs
<1> HIDE DEF tlvs, images, tlvOut
<1> DEFINE q == p \o tlvOut
<1>5. /\ q \in Seq(Bytes) /\ Len(q) = Len(p) + Len(tlvOut) /\ Len(tlvOut) \in Nat
      /\ \A i \in 1 .. Len(p) : q[i] = p[i]
  BY <1>1, <1>3, ConcatProperties
<1>6. AppendTLVs(fr) = [fr EXCEPT !.tlvs = tlvs, !.len = fr.len + Len(tlvOut), !.payload = q]
  BY <1>4
<1> HIDE DEF q
<1> DEFINE to == AppendTLVs(fr)
<1>7. to.ext = fr.ext /\ to.type = fr.type /\ to.len = fr.len + Len(tlvOut) /\ to.payload = q
  BY <1>1, <1>6 DEF Frames
<1>8. to \in Frames
  <2>1. fr.len + Len(tlvOut) \in Nat
    BY <1>1, <1>5
  <2> HIDE DEF p
  <2> QED
    BY <1>1, <1>2, <1>5, <1>6, <2>1 DEF Frames
<1> HIDE DEF to, p
<1> QED
  BY <1>1, <1>5, <1>7, <1>8 DEF Grown, InStep, to, p

\* Encode does not meet an inconsistent length, and writes the header of the
\* frame it leaves behind and its payload.
LEMMA EncodeGrows ==
  ASSUME NEW fr, InStep(fr)
  PROVE  /\ Grown(fr, Encode(fr).frame)
         /\ Encode(fr).err \in {"none", "tlv"}
         /\ Encode(fr).err = "none" =>
              LET to == Encode(fr).frame
              IN  Encode(fr).bytes = EncodeHeader(to.ext, to.type, to.len) \o to.payload
<1> DEFINE full == AppendTLVs(fr)
<1>1. Grown(fr, full)
  BY AppendTLVsGrows
<1>2. full.tlvs \in Seq(TLVs) /\ fr \in Frames /\ fr.len = Len(fr.payload)
  BY <1>1 DEF Grown, InStep, Frames
<1>3. CASE TLVTooLong(fr.tlvs)
  <2> DEFINE to == [fr EXCEPT !.tlvs = full.tlvs]
  <2>1. Encode(fr) = [err |-> "tlv", frame |-> to, bytes |-> <<>>]
    BY <1>2, <1>3 DEF Encode
  <2>2. to \in Frames /\ to.len = fr.len /\ to.payload = fr.payload /\ to.ext = fr.ext /\ to.type = fr.type
    BY <1>2 DEF Frames
  <2>3. Len(fr.payload) \in Nat
    BY <1>2 DEF Frames
  <2> HIDE DEF to
  <2>4. Grown(fr, to)
    BY <1>2, <2>2, <2>3 DEF Grown, InStep
  <2>5. Encode(fr).err = "tlv" /\ Encode(fr).frame = to
    BY <2>1
  <2>6. Encode(fr).err # "none"
    BY <2>5
  <2> QED
    BY <2>4, <2>5, <2>6
<1>4. CASE ~ TLVTooLong(fr.tlvs)
  <2> DEFINE bytes == EncodeHeader(full.ext, full.type, full.len) \o full.payload
  <2>1. Encode(fr) = [err |-> "none", frame |-> full, bytes |-> bytes]
    BY <1>2, <1>4 DEF Encode
  <2> HIDE DEF full
  <2>2. /\ Encode(fr).err = "none" /\ Encode(fr).frame = full
        /\ Encode(fr).bytes = bytes
    <3> HIDE DEF bytes
    <3> QED
      BY <2>1
  <2> QED
    BY <1>1, <2>2, Zenon
<1> QED
  BY <1>3, <1>4

LEMMA GrownTransitive ==
  ASSUME NEW p, NEW q, NEW r, InStep(p), Grown(p, q), Grown(q, r)
  PROVE  Grown(p, r)
<1>1. Len(p.payload) \in Nat /\ Len(q.payload) \in Nat /\ Len(r.payload) \in Nat
  BY DEF Grown, InStep, Frames
<1> QED
  BY <1>1 DEF Grown

\* What the sender hands to Written.
Sending(e) ==
  /\ Grown(f, e.frame)
  /\ e.err \in {"none", "tlv"}
  /\ e.err = "none" => e.bytes = EncodeHeader(e.frame.ext, e.frame.type, e.frame.len) \o e.frame.payload

LEMMA SenderSends ==
  ASSUME InStep(f)
  PROVE  Sending(Encode(f)) /\ Sending(Encode(Encode(f).frame))
<1>1. Sending(Encode(f))
  BY EncodeGrows DEF Sending
<1> DEFINE to == Encode(f).frame
<1>2. InStep(to) /\ Grown(f, to)
  BY <1>1 DEF Sending, Grown
<1> HIDE DEF to
<1>3. /\ Grown(to, Encode(to).frame) /\ Encode(to).err \in {"none", "tlv"}
      /\ Encode(to).err = "none" =>
              LET fr == Encode(to).frame
              IN  Encode(to).bytes = EncodeHeader(fr.ext, fr.type, fr.len) \o fr.payload
  BY <1>2, EncodeGrows
<1>4. Sending(Encode(to))
  BY <1>2, <1>3, GrownTransitive DEF Sending
<1> QED
  BY <1>1, <1>4 DEF to

-----------------------------------------------------------------------------
(* Types, and lengths in step with payloads *)

\* The frame fr holds message m, and perhaps more behind it.
Carries(fr, m) ==
  /\ fr.ext = m.ext /\ fr.type = m.type /\ Len(m.params) <= Len(fr.payload)
  /\ \A i \in 1 .. Len(m.params) : fr.payload[i] = m.params[i]

Messages == Msgs \union {NoMsg}
Entries == [msg : Messages, wraps : BOOLEAN]

SenderInv ==
  /\ via \in {"reader", "slice"}
  /\ InStep(f) /\ msg \in Messages /\ Carries(f, msg)
  /\ ret \in {"none", "too long", "tlv"}
  /\ sent \in Seq(Entries)
  /\ out \in Seq(Bytes) /\ wire \in Seq(Bytes)

ReceiverInv ==
  /\ g \in Frames
  /\ rpc # "panicked" => g.len = Len(g.payload)
  /\ rpc \in (IF via = "reader" THEN {"header", "payload", "stopped"}
                                ELSE {"idle", "tlvs", "panicked"})
  /\ got \in Seq(Frames)
  /\ b \in Seq(Bytes) /\ n \in Nat /\ lastLen \in Nat
  /\ added \in [before : Seq(TLVs), peer : Seq(TLVs)]

TInv == SenderInv /\ ReceiverInv

LEMMA ZeroIsByte == 0 \in Bytes /\ 0 \in 0 .. Limit64K
  BY Limits, BaseAssumption DEF Bytes

LEMMA MessageType ==
  ASSUME NEW m \in Messages
  PROVE  /\ m.ext \in 0 .. Limit64K /\ m.type \in Bytes /\ m.params \in Seq(Bytes)
         /\ Len(m.params) \in Nat
<1>1. CASE m \in Msgs
  BY <1>1, SentAssumption
<1>2. CASE m = NoMsg
  BY <1>2, ZeroIsByte DEF NoMsg
<1> QED
  BY <1>1, <1>2 DEF Messages

LEMMA NoFrameInStep == InStep(NoFrame) /\ Carries(NoFrame, NoMsg) /\ NoFrame.tlvs = <<>>
<1>1. NoFrame \in Frames
  BY ZeroIsByte DEF NoFrame, Frames
<1> QED
  BY <1>1 DEF InStep, Carries, NoFrame, NoMsg

LEMMA InitTInv == Init => TInv
<1> SUFFICES ASSUME Init PROVE TInv
  OBVIOUS
<1>1. SenderInv
  BY NoFrameInStep DEF Init, SenderInv, Messages
<1>2. ReceiverInv
  <2>1. g \in Frames /\ g.len = Len(g.payload)
    BY NoFrameInStep DEF Init, InStep
  <2>2. added \in [before : Seq(TLVs), peer : Seq(TLVs)]
    BY DEF Init
  <2> QED
    BY <2>1, <2>2 DEF Init, ReceiverInv
<1> QED
  BY <1>1, <1>2 DEF TInv

\* What a frame carries is still there when the frame has grown.
LEMMA CarriesOn ==
  ASSUME NEW m \in Messages, NEW fr, NEW to, InStep(fr), Carries(fr, m), Grown(fr, to)
  PROVE  Carries(to, m)
<1>1. Len(m.params) \in Nat /\ Len(fr.payload) \in Nat /\ Len(to.payload) \in Nat
  BY MessageType DEF Grown, InStep, Frames
<1> QED
  BY <1>1 DEF Carries, Grown

LEMMA BytesSent ==
  ASSUME NEW e, Sending(e), e.err = "none"
  PROVE  e.bytes \in Seq(Bytes)
<1> DEFINE h == EncodeHeader(e.frame.ext, e.frame.type, e.frame.len)
           p == e.frame.payload
<1>1. e.frame \in Frames
  BY DEF Sending, Grown, InStep
<1>2. h \in Seq(Bytes)
  BY <1>1, HeaderBytes DEF Frames
<1>3. p \in Seq(Bytes)
  BY <1>1 DEF Frames
<1>4. e.bytes = h \o p
  BY DEF Sending
<1> HIDE DEF h, p
<1> QED
  BY <1>2, <1>3, <1>4, ConcatProperties

LEMMA WrittenTInv ==
  ASSUME TInv, NEW e, Sending(e), Written(e)
  PROVE  TInv'
<1>1. ReceiverInv'
  BY DEF TInv, ReceiverInv, Written, dvars
<1>2. InStep(f)' /\ (msg \in Messages)' /\ Carries(f, msg)'
  <2>1. f' = e.frame /\ msg' = msg /\ Grown(f, e.frame) /\ InStep(e.frame)
    BY DEF Written, Sending, Grown
  <2>2. Carries(e.frame, msg)
    BY <2>1, CarriesOn DEF TInv, SenderInv
  <2>3. Carries(f', msg')
    BY <2>1, <2>2
  <2> QED
    BY <2>1, <2>3 DEF TInv, SenderInv, Carries, InStep
<1>3. ret' \in {"none", "too long", "tlv"}
  BY DEF Written, Sending
<1>4. sent' \in Seq(Entries) /\ out' \in Seq(Bytes) /\ wire' \in Seq(Bytes)
  <2>0. sent \in Seq(Entries) /\ out \in Seq(Bytes) /\ wire \in Seq(Bytes)
    BY DEF TInv, SenderInv
  <2>1. CASE e.err # "none"
    BY <2>0, <2>1 DEF Written
  <2>2. CASE e.err = "none"
    <3>1. e.bytes \in Seq(Bytes)
      BY <2>2, BytesSent
    <3>2. [msg |-> msg, wraps |-> e.frame.len > MaxU24] \in Entries
      <4> DEFINE l == e.frame.len
                 u == MaxU24
      <4>1. l \in Nat /\ u \in Nat /\ msg \in Messages
        BY Limits DEF Sending, Grown, InStep, Frames, TInv, SenderInv
      <4> HIDE DEF l, u
      <4>2. [msg |-> msg, wraps |-> l > u] \in Entries
        BY <4>1 DEF Entries
      <4> QED
        BY <4>2 DEF l, u
    <3>3. sent' = Append(sent, [msg |-> msg, wraps |-> e.frame.len > MaxU24])
      BY <2>2 DEF Written
    <3>4. sent' \in Seq(Entries)
      BY <2>0, <3>2, <3>3, AppendProperties
    <3>5. wire \o e.bytes \in Seq(Bytes)
      BY <2>0, <3>1, ConcatProperties
    <3>6. (wire' = wire \o e.bytes /\ out' = out) \/ (out' = e.bytes /\ wire' = wire)
      BY <2>2 DEF Written
    <3> QED
      BY <2>0, <3>1, <3>4, <3>5, <3>6
  <2> QED
    BY <2>1, <2>2
<1> QED
  BY <1>1, <1>2, <1>3, <1>4 DEF TInv, SenderInv, Written

LEMMA SenderTInv ==
  ASSUME TInv, Sender
  PROVE  TInv'
<1>1. ASSUME NEW m \in Msgs, FromParams(m) PROVE TInv'
  <2>1. ReceiverInv'
    BY <1>1 DEF TInv, ReceiverInv, FromParams, dvars
  <2>2. m \in Messages /\ m.ext \in 0 .. Limit64K /\ m.type \in Bytes /\ m.params \in Seq(Bytes)
        /\ Len(m.params) \in Nat
    BY MessageType DEF Messages
  <2>3. f' = [ext |-> m.ext, type |-> m.type, len |-> Len(m.params), payload |-> m.params,
              tlvs |-> <<>>]
    BY <1>1 DEF FromParams
  <2>4. InStep(f') /\ Carries(f', m)
    BY <2>2, <2>3 DEF InStep, Frames, Carries
  <2>5. msg' = m /\ ret' = "none" /\ UNCHANGED <<via, sent, out, wire>>
    BY <1>1 DEF FromParams
  <2> QED
    BY <2>1, <2>2, <2>4, <2>5 DEF TInv, SenderInv, InStep, Carries
<1>2. ASSUME NEW m \in Msgs, FromParamsFails(m) PROVE TInv'
  <2>1. ReceiverInv'
    BY <1>2 DEF TInv, ReceiverInv, FromParamsFails, dvars
  <2> QED
    BY <1>2, <2>1 DEF TInv, SenderInv, FromParamsFails, InStep, Carries
<1>3. ASSUME NEW tlvs \in TLVLists, SetTLVs(tlvs) PROVE TInv'
  <2>1. ReceiverInv'
    BY <1>3 DEF TInv, ReceiverInv, SetTLVs, dvars
  <2>2. f \in Frames /\ tlvs \in Seq(TLVs) /\ f.len = Len(f.payload) /\ Carries(f, msg)
    BY TLVAssumption DEF TInv, SenderInv, InStep
  <2>3. f' = [f EXCEPT !.tlvs = tlvs] /\ UNCHANGED <<via, msg, ret, sent, out, wire>>
    BY <1>3 DEF SetTLVs
  <2>4. f' \in Frames /\ f'.len = f.len /\ f'.payload = f.payload /\ f'.ext = f.ext /\ f'.type = f.type
    BY <2>2, <2>3 DEF Frames
  <2>5. InStep(f') /\ Carries(f', msg')
    BY <2>2, <2>3, <2>4 DEF InStep, Carries
  <2> QED
    BY <2>1, <2>3, <2>5 DEF TInv, SenderInv, InStep, Carries
<1>4. InStep(f)
  BY DEF TInv, SenderInv
<1>5. CASE Send
  BY <1>4, <1>5, SenderSends, WrittenTInv DEF Send
<1>6. CASE WriteFrame
  BY <1>4, <1>6, SenderSends, WrittenTInv DEF WriteFrame
<1>7. CASE Close
  BY <1>7 DEF TInv, SenderInv, ReceiverInv, Close, svars, dvars, InStep, Carries
<1> QED
  BY <1>1, <1>2, <1>3, <1>5, <1>6, <1>7 DEF Sender

LEMMA DecodeHeaderType ==
  ASSUME NEW fr \in Frames, NEW s, \A i \in 1 .. 6 : s[i] \in Bytes
  PROVE  /\ DecodeHeader(fr, s) \in Frames
         /\ DecodeHeader(fr, s).ext = FromLittleEndian(SubSeq(s, 1, 2))
         /\ DecodeHeader(fr, s).type = s[3]
         /\ DecodeHeader(fr, s).len = FromLittleEndian(SubSeq(s, 4, 6))
         /\ DecodeHeader(fr, s).payload = fr.payload
         /\ DecodeHeader(fr, s).tlvs = fr.tlvs
<1> DEFINE x == FromLittleEndian(SubSeq(s, 1, 2))
           y == s[3]
           z == FromLittleEndian(SubSeq(s, 4, 6))
<1>1. x \in 0 .. Limit64K /\ y \in Bytes /\ z \in Nat
  <2>1. 6 \in {5, 6}
    OBVIOUS
  <2> QED
    BY <2>1, HeaderRange
<1>2. DecodeHeader(fr, s) = [fr EXCEPT !.ext = x, !.type = y, !.len = z]
  BY DEF DecodeHeader
<1> HIDE DEF x, y, z
<1> QED
  BY <1>1, <1>2 DEF Frames, x, y, z

\* A frame with a payload of the length in its header.
LEMMA WithPayload ==
  ASSUME NEW fr \in Frames, NEW p \in Seq(Bytes), Len(p) = fr.len
  PROVE  /\ [fr EXCEPT !.payload = p] \in Frames
         /\ LET to == [fr EXCEPT !.payload = p]
            IN  /\ to.len = Len(to.payload) /\ to.payload = p /\ to.tlvs = fr.tlvs
                /\ to.ext = fr.ext /\ to.type = fr.type /\ to.len = fr.len
  BY DEF Frames

LEMMA ReceiverTypes ==
  ASSUME TInv
  PROVE  /\ g \in Frames /\ g.ext \in 0 .. Limit64K /\ g.type \in Bytes /\ g.len \in Nat
         /\ g.payload \in Seq(Bytes) /\ Len(g.payload) \in Nat /\ g.tlvs \in Seq(TLVs)
         /\ wire \in Seq(Bytes) /\ Len(wire) \in Nat
         /\ out \in Seq(Bytes) /\ Len(out) \in Nat
         /\ b \in Seq(Bytes) /\ Len(b) \in Nat /\ n \in Nat /\ lastLen \in Nat
<1>1. g \in Frames
  BY DEF TInv, ReceiverInv
<1>2. /\ g.ext \in 0 .. Limit64K /\ g.type \in Bytes /\ g.len \in Nat
      /\ g.payload \in Seq(Bytes) /\ g.tlvs \in Seq(TLVs)
  BY <1>1 DEF Frames
<1>3. /\ wire \in Seq(Bytes) /\ out \in Seq(Bytes) /\ b \in Seq(Bytes)
      /\ n \in Nat /\ lastLen \in Nat
  BY DEF TInv, SenderInv, ReceiverInv
<1>4. /\ Len(g.payload) \in Nat /\ Len(wire) \in Nat /\ Len(out) \in Nat /\ Len(b) \in Nat
  BY <1>2, <1>3, LenProperties
<1> QED
  BY <1>1, <1>2, <1>3, <1>4

LEMMA ReadHeaderTInv ==
  ASSUME TInv, ReadHeader
  PROVE  TInv'
<1> DEFINE s == SubSeq(wire, 1, FrameHeaderSize)
           fr == DecodeHeader(g, s)
           p == [i \in 1 .. fr.len |-> 0]
<1>1. g \in Frames /\ wire \in Seq(Bytes) /\ Len(wire) \in Nat /\ Len(wire) >= 6
  BY ReceiverTypes DEF ReadHeader, FrameHeaderSize
<1>2. \A i \in 1 .. 6 : s[i] \in Bytes
  <2>1. \A i \in 1 .. 6 : wire[i] \in Bytes
    BY <1>1, ElementOfSeq
  <2> QED
    BY <2>1, SubSeqProperties DEF FrameHeaderSize
<1>3. fr \in Frames
  BY <1>1, <1>2, DecodeHeaderType
<1>4. g' = [fr EXCEPT !.payload = p]
  BY DEF ReadHeader
<1> HIDE DEF fr
<1>5. p \in Seq(Bytes) /\ Len(p) = fr.len
  <2>1. fr.len \in Nat
    BY <1>3 DEF Frames
  <2> QED
    BY <2>1, ZeroIsByte
<1> HIDE DEF p
<1>6. g' \in Frames /\ g'.len = Len(g'.payload)
  BY <1>3, <1>4, <1>5, WithPayload
<1>7. wire' \in Seq(Bytes)
  <2>1. wire' = SubSeq(wire, 7, Len(wire))
    BY DEF ReadHeader, FrameHeaderSize
  <2>2. \A i \in 7 .. Len(wire) : wire[i] \in Bytes
    BY <1>1, ElementOfSeq
  <2> QED
    BY <1>1, <2>1, <2>2, SubSeqProperties
<1>8. via = "reader" /\ rpc' = "payload" /\ UNCHANGED <<via, svars, closed, got, dvars>>
  BY DEF TInv, SenderInv, ReceiverInv, ReadHeader
<1> QED
  BY <1>6, <1>7, <1>8 DEF TInv, SenderInv, ReceiverInv, svars, dvars, InStep, Carries

LEMMA ReadPayloadTInv ==
  ASSUME TInv, ReadPayload
  PROVE  TInv'
<1>1. g \in Frames /\ wire \in Seq(Bytes) /\ Len(wire) \in Nat /\ g.len \in Nat /\ Len(wire) >= g.len
  BY ReceiverTypes DEF ReadPayload
<1>2. \A i \in 1 .. Len(wire) : wire[i] \in Bytes
  BY <1>1, ElementOfSeq
<1> DEFINE p == SubSeq(wire, 1, g.len)
<1>3. p \in Seq(Bytes) /\ Len(p) = g.len
  BY <1>1, <1>2, SubSeqProperties
<1>4. g' = [g EXCEPT !.payload = p]
  BY DEF ReadPayload
<1> HIDE DEF p
<1>5. g' \in Frames /\ g'.len = Len(g'.payload)
  BY <1>1, <1>3, <1>4, WithPayload
<1>6. wire' \in Seq(Bytes)
  <2>1. wire' = SubSeq(wire, g.len + 1, Len(wire))
    BY DEF ReadPayload
  <2> QED
    BY <1>1, <1>2, <2>1, SubSeqProperties
<1>7. got' \in Seq(Frames)
  <2>1. got' = Append(got, g') /\ got \in Seq(Frames)
    BY DEF ReadPayload, TInv, ReceiverInv
  <2> QED
    BY <1>5, <2>1, AppendProperties
<1>8. via = "reader" /\ rpc' = "header" /\ UNCHANGED <<via, svars, closed, dvars>>
  BY DEF TInv, SenderInv, ReceiverInv, ReadPayload
<1> QED
  BY <1>5, <1>6, <1>7, <1>8 DEF TInv, SenderInv, ReceiverInv, svars, dvars, InStep, Carries

LEMMA ReadEndsTInv ==
  ASSUME TInv, ReadEnds
  PROVE  TInv'
<1>1. /\ g \in Frames /\ wire \in Seq(Bytes) /\ Len(wire) \in Nat /\ g.len \in Nat
      /\ g.payload \in Seq(Bytes) /\ g.len = Len(g.payload)
  <2>1. rpc # "panicked"
    BY DEF ReadEnds
  <2>2. g.len = Len(g.payload)
    BY <2>1 DEF TInv, ReceiverInv
  <2> QED
    BY <2>2, ReceiverTypes
<1>2. g' \in Frames /\ g'.len = Len(g'.payload)
  <2>1. CASE rpc = "header"
    BY <1>1, <2>1 DEF ReadEnds
  <2>2. CASE rpc = "payload"
    <3> DEFINE q == SubSeq(g.payload, Len(wire) + 1, Len(g.payload))
               p == wire \o q
    <3>1. Len(wire) < g.len
      BY <2>2 DEF ReadEnds
    <3>2. q \in Seq(Bytes) /\ Len(q) = g.len - Len(wire)
      <4>1. \A i \in Len(wire) + 1 .. Len(g.payload) : g.payload[i] \in Bytes
        BY <1>1, ElementOfSeq
      <4>2. Len(wire) + 1 \in Int /\ Len(g.payload) \in Int
        BY <1>1
      <4>3. q \in Seq(Bytes) /\ Len(q) = IF Len(wire) + 1 <= Len(g.payload)
                                          THEN Len(g.payload) - (Len(wire) + 1) + 1 ELSE 0
        BY <4>1, <4>2, SubSeqProperties
      <4> HIDE DEF q
      <4> QED
        BY <1>1, <3>1, <4>3
    <3>3. g' = [g EXCEPT !.payload = p]
      BY <2>2 DEF ReadEnds
    <3> HIDE DEF q
    <3>4. p \in Seq(Bytes) /\ Len(p) = g.len
      <4>1. p \in Seq(Bytes) /\ Len(p) = Len(wire) + Len(q)
        BY <1>1, <3>2, ConcatProperties
      <4> HIDE DEF p
      <4> QED
        BY <1>1, <3>2, <4>1
    <3> HIDE DEF p
    <3> QED
      BY <1>1, <3>3, <3>4, WithPayload
  <2> QED
    BY <2>1, <2>2 DEF ReadEnds
<1>3. wire' = <<>> /\ via = "reader" /\ rpc' = "stopped" /\ UNCHANGED <<via, svars, closed, got, dvars>>
  BY DEF TInv, SenderInv, ReceiverInv, ReadEnds
<1>4. wire' \in Seq(Bytes)
  BY <1>3
<1> QED
  BY <1>2, <1>3, <1>4 DEF TInv, SenderInv, ReceiverInv, svars, dvars, InStep, Carries

\* A peer's TLV: its header and its value.
Image(t) == TLVHeader(t) \o t.value
Images(tlvs) == [i \in DOMAIN tlvs |-> Image(tlvs[i])]

LEMMA ImageBytes ==
  ASSUME NEW t \in TLVs
  PROVE  /\ Image(t) \in Seq(Bytes) /\ Len(Image(t)) = TLVHeaderSize + Len(t.value)
         /\ Len(t.value) \in Nat /\ t.value \in Seq(Bytes)
         /\ \A i \in 1 .. TLVHeaderSize : Image(t)[i] = TLVHeader(t)[i]
         /\ \A i \in 1 .. Len(t.value) : Image(t)[TLVHeaderSize + i] = t.value[i]
<1> DEFINE x == TLVHeader(t)
           y == t.value
<1>1. x \in Seq(Bytes) /\ Len(x) = TLVHeaderSize
  BY TLVHeaderBytes
<1>2. y \in Seq(Bytes) /\ Len(y) \in Nat
  BY DEF TLVs
<1>3. Image(t) = x \o y
  BY DEF Image
<1> HIDE DEF x, y
<1>4. /\ x \o y \in Seq(Bytes) /\ Len(x \o y) = Len(x) + Len(y)
      /\ \A i \in 1 .. Len(x) : (x \o y)[i] = x[i]
      /\ \A i \in 1 .. Len(y) : (x \o y)[Len(x) + i] = y[i]
  <2>1. x \in Seq(Bytes) /\ y \in Seq(Bytes) /\ Len(x) \in Nat /\ Len(y) \in Nat
    BY <1>1, <1>2 DEF TLVHeaderSize
  <2> QED
    BY <2>1, ConcatProperties
<1> QED
  BY <1>1, <1>2, <1>3, <1>4, Zenon DEF x, y

LEMMA PeerBytes ==
  ASSUME NEW tlvs \in Seq(TLVs)
  PROVE  /\ PeerTLVs(tlvs) \in Seq(Bytes)
         /\ Images(tlvs) \in Seq(Seq(Bytes)) /\ Len(Images(tlvs)) = Len(tlvs)
         /\ \A i \in 1 .. Len(tlvs) : Images(tlvs)[i] = Image(tlvs[i])
         /\ \E c : Cuts(PeerTLVs(tlvs), Images(tlvs), c)
<1>1. DOMAIN tlvs = 1 .. Len(tlvs) /\ Len(tlvs) \in Nat
  BY LenProperties
<1>2. \A i \in 1 .. Len(tlvs) : Image(tlvs[i]) \in Seq(Bytes)
  BY ImageBytes, ElementOfSeq
<1>3. Images(tlvs) \in [1 .. Len(tlvs) -> Seq(Bytes)]
  BY <1>1, <1>2 DEF Images
<1>4. Images(tlvs) \in Seq(Seq(Bytes)) /\ Len(Images(tlvs)) = Len(tlvs)
  BY <1>1, <1>3, SeqDef
<1>5. PeerTLVs(tlvs) = FlattenSeq(Images(tlvs))
  BY DEF PeerTLVs, Images, Image
<1>6. \A i \in 1 .. Len(tlvs) : Images(tlvs)[i] = Image(tlvs[i])
  BY <1>1 DEF Images
<1>7. FlattenSeq(Images(tlvs)) \in Seq(Bytes) /\ \E c : Cuts(FlattenSeq(Images(tlvs)), Images(tlvs), c)
  BY <1>4, FlattenCuts
<1> QED
  BY <1>4, <1>5, <1>6, <1>7

\* What Decode makes of a slice: the header it reads, if there is one, and
\* the payload, if it is there.
LEMMA SliceDecoded ==
  ASSUME TInv, NEW s \in Seq(Bytes), NEW spare \in Seq(Bytes), NEW tlvs \in Seq(TLVs),
         DecodeSlice(s, spare, tlvs)
  PROVE  LET whole == s \o spare
             len == FromLittleEndian(SubSeq(whole, 4, 6))
             end == FrameHeaderSize + len
             fits == Len(whole) >= FrameHeaderSize /\ Len(whole) >= end
         IN  /\ g' \in Frames
             /\ fits => /\ g'.len = Len(g'.payload) /\ g'.tlvs = g.tlvs
                        /\ n' = end /\ end \in Nat
                        /\ rpc' = IF Len(s) > end + TLVHeaderSize THEN "tlvs" ELSE "idle"
             /\ ~ fits => rpc' = "panicked" /\ n' = 0
<1> DEFINE whole == s \o spare
           h == SubSeq(whole, 1, FrameHeaderSize)
           fr == DecodeHeader(g, h)
           len == FromLittleEndian(SubSeq(whole, 4, 6))
           end == FrameHeaderSize + fr.len
           fits == Len(whole) >= FrameHeaderSize /\ Len(whole) >= end
           p == SubSeq(whole, FrameHeaderSize + 1, end)
<1>1. /\ whole \in Seq(Bytes) /\ Len(whole) \in Nat /\ g \in Frames
  BY ConcatProperties, ReceiverTypes
<1>2. /\ fits => /\ g' = [fr EXCEPT !.payload = p]
                 /\ n' = end
                 /\ rpc' = IF Len(s) > end + TLVHeaderSize THEN "tlvs" ELSE "idle"
      /\ ~ fits => /\ g' = IF Len(whole) >= FrameHeaderSize THEN fr ELSE g
                   /\ n' = 0 /\ rpc' = "panicked"
  BY DEF DecodeSlice
<1> HIDE DEF whole
<1>3. CASE Len(whole) < FrameHeaderSize
  BY <1>1, <1>2, <1>3 DEF FrameHeaderSize, whole
<1>4. CASE Len(whole) >= FrameHeaderSize
  <2>1. \A i \in 1 .. Len(whole) : whole[i] \in Bytes
    BY <1>1, ElementOfSeq
  <2>2. (\A i \in 1 .. 6 : h[i] = whole[i]) /\ h \in Seq(Bytes) /\ Len(h) = 6
    <3>1. \A i \in 1 .. 6 : whole[i] \in Bytes
      BY <1>1, <1>4, <2>1 DEF FrameHeaderSize
    <3> QED
      BY <3>1, SubSeqProperties DEF FrameHeaderSize
  <2>3. fr \in Frames /\ fr.len = FromLittleEndian(SubSeq(h, 4, 6)) /\ fr.tlvs = g.tlvs
    <3>1. \A i \in 1 .. 6 : h[i] \in Bytes
      BY <1>1, <1>4, <2>1, <2>2 DEF FrameHeaderSize
    <3> HIDE DEF h
    <3> QED
      BY <1>1, <3>1, DecodeHeaderType
  <2>4. SubSeq(h, 4, 6) = SubSeq(whole, 4, 6)
    <3> HIDE DEF h
    <3>1. \A i \in 4 .. 6 : h[i] \in Bytes /\ whole[i] \in Bytes /\ h[i] = whole[i]
      BY <1>1, <1>4, <2>1, <2>2 DEF FrameHeaderSize
    <3> DEFINE t == SubSeq(h, 4, 6)
               u == SubSeq(whole, 4, 6)
    <3>2. t \in Seq(Bytes) /\ Len(t) = 3 /\ \A i \in 1 .. 3 : t[i] = h[4 + i - 1]
      BY <3>1, SubSeqProperties
    <3>3. u \in Seq(Bytes) /\ Len(u) = 3 /\ \A i \in 1 .. 3 : u[i] = whole[4 + i - 1]
      BY <3>1, SubSeqProperties
    <3> HIDE DEF t, u
    <3>4. \A i \in 1 .. 3 : t[i] = u[i]
      BY <3>1, <3>2, <3>3
    <3>5. t = u
      BY <3>2, <3>3, <3>4, SeqEqual
    <3> QED
      BY <3>5 DEF t, u
  <2>5. fr.len = len /\ fr.len \in Nat
    BY <2>3, <2>4 DEF Frames
  <2> HIDE DEF fr
  <2>6. CASE fits
    <3>1. p \in Seq(Bytes) /\ Len(p) = fr.len
      <4>1. /\ FrameHeaderSize + 1 \in Int /\ end \in Int /\ end - (FrameHeaderSize + 1) + 1 = fr.len
            /\ end >= FrameHeaderSize
            /\ \A i \in FrameHeaderSize + 1 .. end : i \in 1 .. Len(whole)
        BY <1>1, <2>5, <2>6 DEF FrameHeaderSize
      <4>2. \A i \in FrameHeaderSize + 1 .. end : whole[i] \in Bytes
        BY <4>1, <2>1
      <4> HIDE DEF end
      <4>3. p \in Seq(Bytes) /\ Len(p) = IF FrameHeaderSize + 1 <= end
                                         THEN end - (FrameHeaderSize + 1) + 1 ELSE 0
        BY <4>1, <4>2, SubSeqProperties
      <4> QED
        BY <4>1, <4>3, <2>5 DEF FrameHeaderSize
    <3> HIDE DEF p
    <3>0. g' = [fr EXCEPT !.payload = p] /\ fr \in Frames
      BY <1>2, <2>3, <2>6
    <3>2. g' \in Frames /\ g'.len = Len(g'.payload) /\ g'.tlvs = fr.tlvs
      BY <3>0, <3>1, WithPayload
    <3> QED
      BY <1>2, <2>3, <2>5, <2>6, <3>2 DEF whole, FrameHeaderSize
  <2>7. CASE ~ fits
    <3>1. g' = fr /\ rpc' = "panicked" /\ n' = 0
      BY <1>2, <1>4, <2>7
    <3> QED
      BY <2>3, <2>5, <2>7, <3>1 DEF whole
  <2> QED
    BY <2>6, <2>7
<1> QED
  BY <1>1, <1>3, <1>4 DEF FrameHeaderSize

LEMMA DecodeSliceTInv ==
  ASSUME TInv, NEW s \in Seq(Bytes), NEW spare \in Seq(Bytes), NEW tlvs \in Seq(TLVs),
         DecodeSlice(s, spare, tlvs)
  PROVE  TInv'
<1> DEFINE whole == s \o spare
           end == FrameHeaderSize + FromLittleEndian(SubSeq(whole, 4, 6))
           fits == Len(whole) >= FrameHeaderSize /\ Len(whole) >= end
<1>1. /\ g' \in Frames
      /\ fits => /\ g'.len = Len(g'.payload) /\ g'.tlvs = g.tlvs
                 /\ n' = end /\ end \in Nat
                 /\ rpc' = IF Len(s) > end + TLVHeaderSize THEN "tlvs" ELSE "idle"
      /\ ~ fits => rpc' = "panicked" /\ n' = 0
  BY SliceDecoded
<1> HIDE DEF fits, end
<1>2. /\ n' \in Nat /\ rpc' \in {"idle", "tlvs", "panicked"}
      /\ rpc' # "panicked" => g'.len = Len(g'.payload)
  BY <1>1
<1>3. /\ b' = s /\ out' = <<>> /\ lastLen' = 0 /\ rpc = "idle"
      /\ added' = [before |-> g.tlvs, peer |-> tlvs]
      /\ UNCHANGED <<via, f, msg, ret, sent, wire, closed, got>>
  BY DEF DecodeSlice
<1>4. added' \in [before : Seq(TLVs), peer : Seq(TLVs)]
  BY <1>3, ReceiverTypes
<1>5. via = "slice"
  BY <1>3 DEF TInv, SenderInv, ReceiverInv
<1>6. ReceiverInv'
  BY <1>1, <1>2, <1>3, <1>4, <1>5 DEF TInv, ReceiverInv
<1>7. SenderInv'
  <2>1. out' \in Seq(Bytes)
    BY <1>3
  <2> QED
    BY <1>3, <2>1 DEF TInv, SenderInv, InStep, Carries
<1> QED
  BY <1>6, <1>7 DEF TInv

\* The slices of DecodeWhole and DecodeCut.
LEMMA DecodeWholeSlice ==
  ASSUME TInv, DecodeWhole
  PROVE  \E tlvs \in TLVLists, tail \in Trailers :
           /\ ~ TLVTooLong(tlvs) /\ tlvs \in Seq(TLVs) /\ tail \in Seq(Bytes)
           /\ out \o PeerTLVs(tlvs) \o tail \in Seq(Bytes)
           /\ DecodeSlice(out \o PeerTLVs(tlvs) \o tail, <<>>, tlvs)
<1>1. PICK tlvs \in TLVLists, tail \in Trailers :
             ~ TLVTooLong(tlvs) /\ DecodeSlice(out \o PeerTLVs(tlvs) \o tail, <<>>, tlvs)
  BY DEF DecodeWhole
<1>2. tlvs \in Seq(TLVs) /\ tail \in Seq(Bytes)
  BY TLVAssumption
<1>3. PeerTLVs(tlvs) \in Seq(Bytes) /\ out \in Seq(Bytes)
  BY <1>2, PeerBytes, ReceiverTypes
<1>4. out \o PeerTLVs(tlvs) \o tail \in Seq(Bytes)
  BY <1>2, <1>3, ThreeIntegers
<1> QED
  BY <1>1, <1>2, <1>4

LEMMA DecodeCutSlice ==
  ASSUME TInv, DecodeCut
  PROVE  \E k \in 0 .. Len(out) - 1, spare \in {<<>>, [i \in 1 .. FrameHeaderSize |-> 0]} :
           /\ SubSeq(out, 1, k) \in Seq(Bytes) /\ Len(SubSeq(out, 1, k)) = k
           /\ \A i \in 1 .. k : SubSeq(out, 1, k)[i] = out[i]
           /\ spare \in Seq(Bytes)
           /\ DecodeSlice(SubSeq(out, 1, k), spare, <<>>)
<1>1. PICK k \in 0 .. Len(out) - 1, spare \in {<<>>, [i \in 1 .. FrameHeaderSize |-> 0]} :
             DecodeSlice(SubSeq(out, 1, k), spare, <<>>)
  BY DEF DecodeCut
<1>2. spare \in Seq(Bytes)
  <2>1. <<>> \in Seq(Bytes)
    OBVIOUS
  <2>2. [i \in 1 .. FrameHeaderSize |-> 0] \in Seq(Bytes)
    BY ZeroIsByte DEF FrameHeaderSize
  <2> QED
    BY <2>1, <2>2
<1>3. /\ SubSeq(out, 1, k) \in Seq(Bytes) /\ Len(SubSeq(out, 1, k)) = k
      /\ \A i \in 1 .. k : SubSeq(out, 1, k)[i] = out[i]
  <2>1. out \in Seq(Bytes) /\ Len(out) \in Nat
    BY ReceiverTypes
  <2>2. \A i \in 1 .. k : out[i] \in Bytes
    BY <2>1, ElementOfSeq
  <2> QED
    BY <2>1, <2>2, SubSeqProperties
<1> QED
  BY <1>1, <1>2, <1>3

\* The TLV that TLV.Decode reads is one, with at most the bytes that are left.
LEMMA NextTLVType ==
  ASSUME TInv, rpc = "tlvs", Len(b) - (n + lastLen) >= TLVHeaderSize
  PROVE  LET o == n + lastLen
             len == FromLittleEndian(SubSeq(SubSeq(b, o + 1, Len(b)), 4, 5))
         IN  /\ NextTLV \in TLVs /\ NextTLV.len = len /\ len \in 0 .. Limit64K
             /\ Len(NextTLV.value) = len <=> TLVHeaderSize + len <= Len(b) - o \/ len = 0
<1> DEFINE o == n + lastLen
           rest == SubSeq(b, o + 1, Len(b))
           len == FromLittleEndian(SubSeq(rest, 4, 5))
           ext == FromLittleEndian(SubSeq(rest, 1, 2))
           value == IF TLVHeaderSize + len > Len(rest) THEN <<>>
                    ELSE SubSeq(rest, TLVHeaderSize + 1, TLVHeaderSize + len)
<1>1. b \in Seq(Bytes) /\ Len(b) \in Nat /\ o \in Nat /\ Len(b) - o >= 5
  BY ReceiverTypes DEF TLVHeaderSize
<1>2. NextTLV = [ext |-> ext, field |-> rest[3], len |-> len, value |-> value]
  BY DEF NextTLV
<1> HIDE DEF o
<1>3. rest \in Seq(Bytes) /\ Len(rest) = Len(b) - o
  <2>1. \A i \in o + 1 .. Len(b) : b[i] \in Bytes
    BY <1>1, ElementOfSeq
  <2>2. o + 1 \in Int /\ Len(b) \in Int
    BY <1>1
  <2>3. rest \in Seq(Bytes) /\ Len(rest) = IF o + 1 <= Len(b) THEN Len(b) - (o + 1) + 1 ELSE 0
    BY <2>1, <2>2, SubSeqProperties
  <2> HIDE DEF rest
  <2> QED
    BY <1>1, <2>3
<1> HIDE DEF rest
<1>4. \A i \in 1 .. Len(rest) : rest[i] \in Bytes
  BY <1>3, ElementOfSeq
<1>5. ext \in 0 .. Limit64K /\ rest[3] \in Bytes /\ len \in 0 .. Limit64K
  <2>1. \A i \in 1 .. 5 : rest[i] \in Bytes
    BY <1>1, <1>3, <1>4
  <2>2. /\ FromLittleEndian(SubSeq(rest, 1, 2)) \in 0 .. Limit64K
        /\ rest[3] \in Bytes
        /\ FromLittleEndian(SubSeq(rest, 4, 5)) \in Nat
        /\ FromLittleEndian(SubSeq(rest, 4, 5)) <= (IF 5 = 5 THEN Limit64K ELSE MaxU24)
    <3>1. 5 \in {5, 6}
      OBVIOUS
    <3> QED
      BY <2>1, <3>1, HeaderRange
  <2>3. Limit64K \in Nat
    BY Limits
  <2> QED
    BY <2>2, <2>3
<1> HIDE DEF len, ext
<1>6. value \in Seq(Bytes) /\ (Len(value) = len <=> TLVHeaderSize + len <= Len(rest) \/ len = 0)
  <2>0. len \in Nat /\ Len(rest) \in Nat
    BY <1>1, <1>3, <1>5, Limits
  <2>1. CASE TLVHeaderSize + len > Len(rest)
    <3>1. value = <<>>
      BY <2>1
    <3> HIDE DEF value
    <3>2. Len(value) = 0 /\ value \in Seq(Bytes)
      BY <3>1
    <3> QED
      BY <2>0, <2>1, <3>2 DEF TLVHeaderSize
  <2>2. CASE ~ (TLVHeaderSize + len > Len(rest))
    <3> DEFINE l == TLVHeaderSize + 1
               m == TLVHeaderSize + len
    <3>1. value = SubSeq(rest, l, m)
      BY <2>2
    <3>2. \A i \in l .. m : rest[i] \in Bytes
      BY <1>4, <2>0, <2>2 DEF TLVHeaderSize
    <3>3. l \in Int /\ m \in Int /\ l = 6 /\ m = 5 + len
      BY <2>0 DEF TLVHeaderSize
    <3> HIDE DEF value, l, m
    <3>4. /\ SubSeq(rest, l, m) \in Seq(Bytes)
          /\ Len(SubSeq(rest, l, m)) = IF l <= m THEN m - l + 1 ELSE 0
      BY <3>2, <3>3, SubSeqProperties
    <3>5. value \in Seq(Bytes) /\ Len(value) = len
      BY <2>0, <3>1, <3>3, <3>4
    <3> QED
      BY <2>0, <2>2, <3>5 DEF TLVHeaderSize
  <2> QED
    BY <2>1, <2>2
<1> HIDE DEF value
<1>7. NextTLV \in TLVs /\ NextTLV.len = len /\ NextTLV.value = value
  <2>1. len \in Nat
    BY <1>5, Limits
  <2> QED
    BY <1>2, <1>5, <1>6, <2>1 DEF TLVs
<1> QED
  BY <1>3, <1>5, <1>6, <1>7 DEF o, len, rest

LEMMA ReceiverTInv ==
  ASSUME TInv, Receiver
  PROVE  TInv'
<1>1. CASE DecodeWhole
  <2>1. PICK tlvs \in TLVLists, tail \in Trailers :
           /\ ~ TLVTooLong(tlvs) /\ tlvs \in Seq(TLVs) /\ tail \in Seq(Bytes)
           /\ out \o PeerTLVs(tlvs) \o tail \in Seq(Bytes)
           /\ DecodeSlice(out \o PeerTLVs(tlvs) \o tail, <<>>, tlvs)
    BY <1>1, DecodeWholeSlice
  <2>2. <<>> \in Seq(Bytes)
    OBVIOUS
  <2> QED
    BY <2>1, <2>2, DecodeSliceTInv
<1>2. CASE DecodeCut
  <2>1. PICK k \in 0 .. Len(out) - 1, spare \in {<<>>, [i \in 1 .. FrameHeaderSize |-> 0]} :
           /\ SubSeq(out, 1, k) \in Seq(Bytes) /\ spare \in Seq(Bytes)
           /\ DecodeSlice(SubSeq(out, 1, k), spare, <<>>)
    BY <1>2, DecodeCutSlice
  <2>2. <<>> \in Seq(TLVs)
    OBVIOUS
  <2> QED
    BY <2>1, <2>2, DecodeSliceTInv
<1>3. CASE DecodeTLV
  <2>1. rpc = "tlvs" /\ Len(b) - (n + lastLen) >= TLVHeaderSize
        /\ UNCHANGED <<via, svars, wire, closed, got, b, n, added>>
    BY <1>3 DEF DecodeTLV
  <2>2. via = "slice" /\ g.len = Len(g.payload) /\ g \in Frames /\ lastLen \in Nat
    BY <2>1 DEF TInv, SenderInv, ReceiverInv
  <2>3. g' \in Frames /\ g'.len = Len(g'.payload) /\ lastLen' \in Nat /\ rpc' \in {"tlvs", "idle"}
    <3>1. CASE Len(NextTLV.value) = NextTLV.len
      <4> DEFINE t == NextTLV
      <4>1. t \in TLVs
        BY <2>1, NextTLVType
      <4>2. g' = [g EXCEPT !.tlvs = Append(g.tlvs, t)] /\ lastLen' = lastLen + t.len + TLVHeaderSize /\ rpc' = rpc
        BY <1>3, <3>1 DEF DecodeTLV
      <4> HIDE DEF t
      <4>3. t.len \in Nat
        BY <4>1 DEF TLVs
      <4>4. Append(g.tlvs, t) \in Seq(TLVs)
        BY <4>1, AppendProperties, ReceiverTypes
      <4> DEFINE tlvs == Append(g.tlvs, t)
      <4> HIDE DEF tlvs
      <4>5. g' = [g EXCEPT !.tlvs = tlvs] /\ tlvs \in Seq(TLVs)
        BY <4>2, <4>4 DEF tlvs
      <4>6. g' \in Frames /\ g'.len = g.len /\ g'.payload = g.payload
        BY <2>2, <4>5 DEF Frames
      <4>7. lastLen' \in Nat
        BY <2>2, <4>2, <4>3 DEF TLVHeaderSize
      <4> QED
        BY <2>1, <2>2, <4>2, <4>6, <4>7
    <3>2. CASE Len(NextTLV.value) # NextTLV.len
      BY <1>3, <2>2, <3>2 DEF DecodeTLV
    <3> QED
      BY <3>1, <3>2
  <2>4. ReceiverInv'
    BY <2>1, <2>2, <2>3 DEF TInv, ReceiverInv
  <2>5. SenderInv'
    BY <2>1 DEF TInv, SenderInv, svars, InStep, Carries
  <2> QED
    BY <2>4, <2>5 DEF TInv
<1>4. CASE DecodeReturns
  <2>1. rpc = "tlvs" /\ rpc' = "idle" /\ UNCHANGED <<via, svars, wire, closed, g, got, dvars>>
    BY <1>4 DEF DecodeReturns
  <2>2. via = "slice" /\ g.len = Len(g.payload)
    BY <2>1 DEF TInv, SenderInv, ReceiverInv
  <2>4. ReceiverInv'
    BY <2>1, <2>2 DEF TInv, ReceiverInv, dvars
  <2>5. SenderInv'
    BY <2>1 DEF TInv, SenderInv, svars, InStep, Carries
  <2> QED
    BY <2>4, <2>5 DEF TInv
<1> QED
  BY <1>1, <1>2, <1>3, <1>4, ReadHeaderTInv, ReadPayloadTInv, ReadEndsTInv DEF Receiver

LEMMA StepTInv ==
  ASSUME TInv, [Next]_vars
  PROVE  TInv'
<1>1. CASE UNCHANGED vars
  BY <1>1 DEF vars, svars, dvars, TInv, SenderInv, ReceiverInv, InStep, Carries
<1> QED
  BY <1>1, SenderTInv, ReceiverTInv DEF Next

LEMMA Typed == Spec => []TInv
<1>1. TInv /\ [Next]_vars => TInv'
  BY StepTInv
<1> QED
  BY InitTInv, <1>1, PTL DEF Spec

\* However often a frame is encoded, re-encoded and resent, and whatever the
\* TLVs, Encode finds MessageLength in step with len(Payload); so it is in
\* every frame that was decoded without a panic.
THEOREM LengthsInStep == Spec => []LengthsAgree
<1>1. TInv => LengthsAgree
  BY DEF TInv, SenderInv, ReceiverInv, InStep, LengthsAgree
<1> QED
  BY Typed, <1>1, PTL

-----------------------------------------------------------------------------
(* The reader and the sender *)

\* In the bytes w a frame of message m stands between o and e.
FrameAt(w, o, m, e) ==
  /\ o \in Nat /\ e \in Nat /\ e <= Len(w)
  /\ o + FrameHeaderSize + Len(m.params) <= e
  /\ e - o - FrameHeaderSize <= MaxU24
  /\ \A i \in 1 .. FrameHeaderSize :
       w[o + i] = EncodeHeader(m.ext, m.type, e - o - FrameHeaderSize)[i]
  /\ \A i \in 1 .. Len(m.params) : w[o + FrameHeaderSize + i] = m.params[i]

\* The frames of the k first entries of ss have not outgrown their headers.
Sounds(ss, k) == \A i \in 1 .. k : ~ ss[i].wraps

\* From number first on, the frames of ss follow each other in the bytes w,
\* the first of them behind start bytes; c[k] is where frame k begins, and
\* all is said of the frames up to the first that has outgrown its header.
Layout(w, ss, c, first, start) ==
  /\ c \in [Nat -> Nat]
  /\ \A k \in first .. Len(ss) : Sounds(ss, k) => FrameAt(w, c[k], ss[k].msg, c[k + 1])
  /\ \A j \in first .. Len(ss) + 1, k \in first .. Len(ss) + 1 :
       j <= k /\ Sounds(ss, k - 1) => c[j] <= c[k]
  /\ first <= Len(ss) + 1 /\ Sounds(ss, first - 1) => c[first] = start
  /\ Sounds(ss, Len(ss)) => first <= Len(ss) + 1 /\ c[Len(ss) + 1] = Len(w)

\* The header that was read is that of the next message, whose parameters are
\* next on the wire.
HeaderRead ==
  LET k == Len(got) + 1
  IN  k <= Len(sent) /\ Sounds(sent, k) =>
        /\ g.ext = sent[k].msg.ext /\ g.type = sent[k].msg.type
        /\ Len(sent[k].msg.params) <= g.len /\ g.len <= Len(wire)
        /\ \A i \in 1 .. Len(sent[k].msg.params) : wire[i] = sent[k].msg.params[i]

Returned ==
  /\ \A k \in 1 .. Len(got) : k <= Len(sent) /\ Sounds(sent, k) => Carries(got[k], sent[k].msg)
  /\ Sounds(sent, Len(sent)) => Len(got) <= Len(sent)

ReaderInv ==
  /\ Returned
  /\ rpc = "header" => \E c : Layout(wire, sent, c, Len(got) + 1, 0)
  /\ rpc = "payload" => HeaderRead /\ \E c : Layout(wire, sent, c, Len(got) + 2, g.len)

\* Two sequences, one behind the other.
LEMMA Joined ==
  ASSUME NEW S, NEW x \in Seq(S), NEW y \in Seq(S)
  PROVE  /\ x \o y \in Seq(S) /\ Len(x \o y) = Len(x) + Len(y)
         /\ Len(x) \in Nat /\ Len(y) \in Nat /\ Len(x \o y) \in Nat
         /\ \A i \in 1 .. Len(x) : (x \o y)[i] = x[i]
         /\ \A i \in 1 .. Len(y) : (x \o y)[Len(x) + i] = y[i]
<1> DEFINE z == x \o y
<1>1. Len(x) \in Nat /\ Len(y) \in Nat
  BY LenProperties
<1>2. /\ z \in Seq(S) /\ Len(z) = Len(x) + Len(y)
      /\ \A i \in 1 .. Len(x) + Len(y) : z[i] = IF i <= Len(x) THEN x[i] ELSE y[i - Len(x)]
  BY ConcatProperties
<1> HIDE DEF z
<1>3. ASSUME NEW i \in 1 .. Len(x) PROVE z[i] = x[i]
  BY <1>1, <1>2
<1>4. ASSUME NEW i \in 1 .. Len(y) PROVE z[Len(x) + i] = y[i]
  <2>1. /\ Len(x) + i \in 1 .. Len(x) + Len(y) /\ ~ (Len(x) + i <= Len(x))
        /\ (Len(x) + i) - Len(x) = i
    BY <1>1
  <2> QED
    BY <1>2, <2>1
<1>5. Len(z) \in Nat
  BY <1>1, <1>2
<1> QED
  BY <1>1, <1>2, <1>3, <1>4, <1>5 DEF z

\* What is left of a sequence without its first d elements.
LEMMA Dropped ==
  ASSUME NEW S, NEW w \in Seq(S), NEW d \in Nat, d <= Len(w)
  PROVE  /\ SubSeq(w, d + 1, Len(w)) \in Seq(S) /\ Len(w) \in Nat
         /\ Len(SubSeq(w, d + 1, Len(w))) = Len(w) - d
         /\ \A i \in 1 .. Len(w) - d : SubSeq(w, d + 1, Len(w))[i] = w[d + i]
<1> DEFINE x == SubSeq(w, d + 1, Len(w))
           l == Len(w)
<1>1. l \in Nat /\ l \in Int /\ d + 1 \in Int /\ d <= l
  BY LenProperties
<1>2. \A i \in d + 1 .. l : w[i] \in S
  BY <1>1, ElementOfSeq
<1>3. /\ SubSeq(w, d + 1, l) \in Seq(S)
      /\ Len(SubSeq(w, d + 1, l)) = IF d + 1 <= l THEN l - (d + 1) + 1 ELSE 0
      /\ \A i \in 1 .. l - (d + 1) + 1 : SubSeq(w, d + 1, l)[i] = w[(d + 1) + i - 1]
  <2> HIDE DEF l
  <2> QED
    BY <1>1, <1>2, SubSeqProperties
<1> HIDE DEF x
<1>4. /\ x \in Seq(S) /\ Len(x) = IF d + 1 <= l THEN l - (d + 1) + 1 ELSE 0
      /\ \A i \in 1 .. l - (d + 1) + 1 : x[i] = w[(d + 1) + i - 1]
  BY <1>3 DEF x
<1> HIDE DEF l
<1>5. Len(x) = l - d
  BY <1>1, <1>4
<1>6. ASSUME NEW i \in 1 .. l - d PROVE x[i] = w[d + i]
  <2>1. i \in 1 .. l - (d + 1) + 1 /\ (d + 1) + i - 1 = d + i
    BY <1>1
  <2> QED
    BY <1>4, <2>1
<1> QED
  BY <1>1, <1>4, <1>5, <1>6 DEF x, l

LEMMA FrameExtends ==
  ASSUME NEW w \in Seq(Bytes), NEW x \in Seq(Bytes), NEW m \in Messages, NEW o, NEW e,
         FrameAt(w, o, m, e)
  PROVE  FrameAt(w \o x, o, m, e)
<1> DEFINE wx == w \o x
           h == FrameHeaderSize
           l == Len(m.params)
<1>1. /\ Len(wx) = Len(w) + Len(x) /\ Len(w) \in Nat /\ Len(x) \in Nat
      /\ \A i \in 1 .. Len(w) : wx[i] = w[i]
  BY Joined
<1> HIDE DEF wx
<1>2. l \in Nat /\ o \in Nat /\ e \in Nat /\ e <= Len(w) /\ o + h + l <= e /\ h \in Nat
  BY MessageType DEF FrameAt, FrameHeaderSize
<1> HIDE DEF h, l
<1>3. ASSUME NEW i \in 1 .. h PROVE wx[o + i] = w[o + i]
  <2>1. o + i \in 1 .. Len(w)
    BY <1>1, <1>2
  <2> QED
    BY <1>1, <2>1
<1>4. ASSUME NEW i \in 1 .. l PROVE wx[o + h + i] = w[o + h + i]
  <2>1. o + h + i \in 1 .. Len(w)
    BY <1>1, <1>2
  <2> QED
    BY <1>1, <2>1
<1>5. e <= Len(wx)
  BY <1>1, <1>2
<1>6. FrameAt(wx, o, m, e)
  BY <1>3, <1>4, <1>5 DEF FrameAt, h, l
<1> QED
  BY <1>6 DEF wx

\* The reader takes the first d bytes off the wire.
LEMMA FrameShifts ==
  ASSUME NEW w \in Seq(Bytes), NEW d \in Nat, d <= Len(w), NEW m \in Messages,
         NEW o, NEW e, d <= o, FrameAt(w, o, m, e)
  PROVE  FrameAt(SubSeq(w, d + 1, Len(w)), o - d, m, e - d)
<1> DEFINE x == SubSeq(w, d + 1, Len(w))
           h == FrameHeaderSize
           l == Len(m.params)
<1>1. Len(w) \in Nat /\ Len(x) = Len(w) - d /\ \A i \in 1 .. Len(w) - d : x[i] = w[d + i]
  BY Dropped
<1>2. /\ l \in Nat /\ o \in Nat /\ e \in Nat /\ e <= Len(w) /\ o + h + l <= e /\ h \in Nat
      /\ e - o - h <= MaxU24
  BY MessageType DEF FrameAt, FrameHeaderSize
<1>3. /\ \A i \in 1 .. h : w[o + i] = EncodeHeader(m.ext, m.type, e - o - h)[i]
      /\ \A i \in 1 .. l : w[o + h + i] = m.params[i]
  BY DEF FrameAt
<1> HIDE DEF x, h, l
<1>4. /\ o - d \in Nat /\ e - d \in Nat /\ e - d <= Len(x)
      /\ (o - d) + h + l <= e - d
      /\ (e - d) - (o - d) - h = e - o - h
  BY <1>1, <1>2
<1>5. ASSUME NEW i \in 1 .. h PROVE x[(o - d) + i] = w[o + i]
  <2>1. (o - d) + i \in 1 .. Len(w) - d /\ d + ((o - d) + i) = o + i
    BY <1>1, <1>2
  <2> QED
    BY <1>1, <2>1
<1>6. ASSUME NEW i \in 1 .. l
      PROVE  x[(o - d) + h + i] = w[o + h + i]
  <2>1. (o - d) + h + i \in 1 .. Len(w) - d /\ d + ((o - d) + h + i) = o + h + i
    BY <1>1, <1>2
  <2> QED
    BY <1>1, <2>1
<1>7. FrameAt(x, o - d, m, e - d)
  BY <1>2, <1>3, <1>4, <1>5, <1>6 DEF FrameAt, h, l
<1> QED
  BY <1>7 DEF x

\* A frame that is sent stands behind what was on the wire.
LEMMA FramePlaced ==
  ASSUME NEW w \in Seq(Bytes), NEW m \in Messages, NEW p \in Seq(Bytes),
         Len(p) <= MaxU24, Len(m.params) <= Len(p),
         \A i \in 1 .. Len(m.params) : p[i] = m.params[i]
  PROVE  LET bytes == EncodeHeader(m.ext, m.type, Len(p)) \o p
         IN  FrameAt(w \o bytes, Len(w), m, Len(w \o bytes))
<1> DEFINE h == EncodeHeader(m.ext, m.type, Len(p))
           x == h \o p
           wx == w \o x
           l == Len(m.params)
<1>1. m.ext \in 0 .. Limit64K /\ m.type \in Bytes /\ l \in Nat /\ Len(p) \in Nat /\ Len(w) \in Nat
  BY MessageType, LenProperties
<1>2. h \in Seq(Bytes) /\ Len(h) = 6
  BY <1>1, HeaderBytes DEF FrameHeaderSize
<1>3. l <= Len(p) /\ \A i \in 1 .. l : p[i] = m.params[i]
  OBVIOUS
<1> HIDE DEF h, l
<1>4. /\ x \in Seq(Bytes) /\ Len(x) = Len(h) + Len(p)
      /\ Len(h) \in Nat /\ Len(p) \in Nat /\ Len(x) \in Nat
      /\ \A i \in 1 .. Len(h) : x[i] = h[i]
      /\ \A i \in 1 .. Len(p) : x[Len(h) + i] = p[i]
  <2>1. h \in Seq(Bytes)
    BY <1>2
  <2> QED
    BY <2>1, Joined
<1> HIDE DEF x
<1>5. /\ wx \in Seq(Bytes) /\ Len(wx) = Len(w) + Len(x)
      /\ Len(w) \in Nat /\ Len(x) \in Nat /\ Len(wx) \in Nat
      /\ \A i \in 1 .. Len(w) : wx[i] = w[i]
      /\ \A i \in 1 .. Len(x) : wx[Len(w) + i] = x[i]
  <2>1. x \in Seq(Bytes)
    BY <1>4
  <2> QED
    BY <2>1, Joined
<1> HIDE DEF wx
<1>6. Len(wx) \in Nat /\ Len(wx) - Len(w) - 6 = Len(p) /\ Len(w) + 6 + l <= Len(wx)
  BY <1>1, <1>2, <1>3, <1>4, <1>5
<1>7. ASSUME NEW i \in 1 .. 6 PROVE wx[Len(w) + i] = h[i]
  <2>1. i \in 1 .. Len(h) /\ i \in 1 .. Len(x)
    BY <1>1, <1>2, <1>4
  <2>2. wx[Len(w) + i] = x[i]
    BY <1>5, <2>1
  <2>3. x[i] = h[i]
    BY <1>4, <2>1
  <2> QED
    BY <2>2, <2>3
<1>8. ASSUME NEW i \in 1 .. l PROVE wx[Len(w) + 6 + i] = m.params[i]
  <2>1. i \in 1 .. Len(p) /\ 6 + i \in 1 .. Len(x) /\ Len(w) + (6 + i) = Len(w) + 6 + i
    BY <1>1, <1>2, <1>3, <1>4
  <2>2. wx[Len(w) + (6 + i)] = x[6 + i]
    BY <1>5, <2>1
  <2>3. x[Len(h) + i] = p[i]
    BY <1>4, <2>1
  <2>4. p[i] = m.params[i] /\ Len(h) = 6
    BY <1>2, <1>3
  <2> QED
    BY <2>1, <2>2, <2>3, <2>4
<1>9. FrameAt(wx, Len(w), m, Len(wx))
  <2>1. FrameHeaderSize = 6
    BY DEF FrameHeaderSize
  <2>2. \A i \in 1 .. 6 : wx[Len(w) + i] = EncodeHeader(m.ext, m.type, Len(wx) - Len(w) - 6)[i]
    BY <1>6, <1>7 DEF h
  <2>3. /\ Len(w) \in Nat /\ Len(wx) \in Nat /\ Len(wx) <= Len(wx)
        /\ Len(w) + 6 + l <= Len(wx) /\ Len(wx) - Len(w) - 6 <= MaxU24
    BY <1>1, <1>6
  <2> QED
    BY <2>1, <2>2, <2>3, <1>8, Zenon DEF FrameAt, l
<1> QED
  BY <1>9 DEF wx, x, h

LEMMA FrameSent ==
  ASSUME NEW e, Sending(e), e.err = "none", e.frame.len <= MaxU24,
         NEW m \in Messages, Carries(e.frame, m), NEW w \in Seq(Bytes)
  PROVE  FrameAt(w \o e.bytes, Len(w), m, Len(w \o e.bytes))
<1> DEFINE p == e.frame.payload
<1>1. p \in Seq(Bytes) /\ e.frame.len = Len(p)
  BY DEF Sending, Grown, InStep, Frames
<1>2. e.bytes = EncodeHeader(m.ext, m.type, Len(p)) \o p
  BY <1>1 DEF Sending, Carries
<1>3. Len(p) <= MaxU24 /\ Len(m.params) <= Len(p) /\ \A i \in 1 .. Len(m.params) : p[i] = m.params[i]
  BY <1>1 DEF Carries
<1> HIDE DEF p
<1>4. FrameAt(w \o (EncodeHeader(m.ext, m.type, Len(p)) \o p), Len(w), m,
              Len(w \o (EncodeHeader(m.ext, m.type, Len(p)) \o p)))
  BY <1>1, <1>3, FramePlaced
<1> QED
  BY <1>2, <1>4

LEMMA SoundsBelow ==
  ASSUME NEW ss, NEW k \in Int, NEW j \in Int, j <= k, Sounds(ss, k)
  PROVE  Sounds(ss, j)
  BY DEF Sounds

LEMMA SentGrows ==
  ASSUME NEW ss \in Seq(Entries), NEW x \in Entries
  PROVE  LET tt == Append(ss, x)
             l == Len(ss)
         IN  /\ tt \in Seq(Entries) /\ Len(tt) = l + 1 /\ l \in Nat
             /\ \A k \in 1 .. l : tt[k] = ss[k]
             /\ tt[l + 1] = x
             /\ \A k \in Int : k <= l => (Sounds(tt, k) <=> Sounds(ss, k))
             /\ \A k \in Int : k > l /\ Sounds(tt, k) => Sounds(ss, l) /\ ~ x.wraps
<1> DEFINE tt == Append(ss, x)
           l == Len(ss)
<1>1. /\ tt \in Seq(Entries) /\ Len(tt) = l + 1 /\ l \in Nat
      /\ \A k \in 1 .. l : tt[k] = ss[k]
      /\ tt[l + 1] = x
  BY AppendProperties, LenProperties
<1> HIDE DEF tt, l
<1>2. ASSUME NEW k \in Int, k <= l PROVE Sounds(tt, k) <=> Sounds(ss, k)
  <2>1. \A i \in 1 .. k : tt[i] = ss[i]
    BY <1>1, <1>2
  <2> QED
    BY <2>1 DEF Sounds
<1>3. ASSUME NEW k \in Int, k > l, Sounds(tt, k) PROVE Sounds(ss, l) /\ ~ x.wraps
  <2>1. l + 1 \in 1 .. k /\ \A i \in 1 .. l : i \in 1 .. k
    BY <1>1, <1>3
  <2> QED
    BY <1>1, <1>3, <2>1 DEF Sounds
<1> QED
  BY <1>1, <1>2, <1>3 DEF tt, l

LEMMA LayoutGrows ==
  ASSUME NEW ss \in Seq(Entries), NEW w \in Seq(Bytes), NEW c, NEW first \in Nat, first >= 1,
         NEW start, Layout(w, ss, c, first, start),
         NEW x \in Entries, NEW y \in Seq(Bytes),
         ~ x.wraps => FrameAt(w \o y, Len(w), x.msg, Len(w \o y))
  PROVE  \E d : Layout(w \o y, Append(ss, x), d, first, start)
<1> DEFINE v == w \o y
           tt == Append(ss, x)
           l == Len(ss)
           d == [k \in Nat |-> IF k = l + 2 THEN Len(v) ELSE c[k]]
<1>1. /\ tt \in Seq(Entries) /\ Len(tt) = l + 1 /\ l \in Nat
      /\ \A k \in 1 .. l : tt[k] = ss[k]
      /\ tt[l + 1] = x
      /\ \A k \in Int : k <= l => (Sounds(tt, k) <=> Sounds(ss, k))
      /\ \A k \in Int : k > l /\ Sounds(tt, k) => Sounds(ss, l) /\ ~ x.wraps
  BY SentGrows
<1>2. /\ v \in Seq(Bytes) /\ Len(v) = Len(w) + Len(y)
      /\ Len(w) \in Nat /\ Len(y) \in Nat /\ Len(v) \in Nat
      /\ \A i \in 1 .. Len(w) : v[i] = w[i]
      /\ \A i \in 1 .. Len(y) : v[Len(w) + i] = y[i]
  BY Joined
<1>3. ~ x.wraps => FrameAt(v, Len(w), x.msg, Len(v))
  OBVIOUS
<1>4. /\ c \in [Nat -> Nat]
      /\ \A k \in first .. l : Sounds(ss, k) => FrameAt(w, c[k], ss[k].msg, c[k + 1])
      /\ \A j \in first .. l + 1, k \in first .. l + 1 :
           j <= k /\ Sounds(ss, k - 1) => c[j] <= c[k]
      /\ first <= l + 1 /\ Sounds(ss, first - 1) => c[first] = start
      /\ Sounds(ss, l) => first <= l + 1 /\ c[l + 1] = Len(w)
  BY DEF Layout
<1>5. ASSUME NEW k \in Nat, NEW o, NEW e, k <= l, k >= 1, FrameAt(w, o, ss[k].msg, e)
      PROVE  FrameAt(v, o, ss[k].msg, e)
  <2>1. ss[k].msg \in Messages
    <3>1. ss[k] \in Entries
      BY <1>1, <1>5, ElementOfSeq DEF l
    <3> QED
      BY <3>1 DEF Entries
  <2> QED
    BY <1>5, <2>1, FrameExtends
<1> HIDE DEF v, tt, l
<1>6. d \in [Nat -> Nat] /\ d[l + 2] = Len(v) /\ \A k \in Nat : k <= l + 1 => d[k] = c[k]
  <2> DEFINE z == Len(v)
  <2>1. z \in Nat /\ l \in Nat /\ c \in [Nat -> Nat]
    BY <1>1, <1>2, <1>4
  <2> HIDE DEF z
  <2>2. d = [k \in Nat |-> IF k = l + 2 THEN z ELSE c[k]]
    BY DEF z
  <2> HIDE DEF d
  <2>3. d \in [Nat -> Nat]
    BY <2>1, <2>2
  <2>4. d[l + 2] = z
    BY <2>1, <2>2
  <2>5. ASSUME NEW k \in Nat, k <= l + 1 PROVE d[k] = c[k]
    BY <2>1, <2>2, <2>5
  <2> QED
    BY <2>3, <2>4, <2>5 DEF z
<1> HIDE DEF d
<1>7. ASSUME NEW k \in first .. l + 1, Sounds(tt, k)
      PROVE  FrameAt(v, d[k], tt[k].msg, d[k + 1])
  <2>1. CASE k <= l
    <3>0. /\ k \in first .. l /\ k \in 1 .. l /\ k \in Int /\ k \in Nat /\ k + 1 \in Nat
          /\ k >= 1 /\ k <= l + 1 /\ k + 1 <= l + 1
      BY <1>1, <2>1
    <3>1. Sounds(ss, k) /\ tt[k] = ss[k] /\ d[k] = c[k] /\ d[k + 1] = c[k + 1]
      BY <1>1, <1>6, <1>7, <2>1, <3>0
    <3>2. FrameAt(w, c[k], ss[k].msg, c[k + 1])
      BY <1>4, <3>0, <3>1
    <3>3. FrameAt(v, c[k], ss[k].msg, c[k + 1])
      BY <1>5, <2>1, <3>0, <3>2
    <3> QED
      BY <3>1, <3>3
  <2>2. CASE k = l + 1
    <3>1. Sounds(ss, l) /\ ~ x.wraps /\ tt[k] = x
      BY <1>1, <1>7, <2>2
    <3>2. c[l + 1] = Len(w) /\ d[k] = c[l + 1] /\ d[k + 1] = Len(v)
      BY <1>1, <1>4, <1>6, <2>2, <3>1
    <3> QED
      BY <1>3, <3>1, <3>2
  <2> QED
    BY <1>1, <2>1, <2>2
<1>8. ASSUME NEW j \in first .. l + 2, NEW k \in first .. l + 2, j <= k, Sounds(tt, k - 1)
      PROVE  d[j] <= d[k]
  <2>1. CASE k <= l + 1
    <3>0. /\ j \in Nat /\ k \in Nat /\ k - 1 \in Int /\ k - 1 <= l /\ j <= l + 1
          /\ j \in first .. l + 1 /\ k \in first .. l + 1
      BY <1>1, <1>8, <2>1
    <3>1. d[j] = c[j] /\ d[k] = c[k]
      BY <1>6, <2>1, <3>0
    <3>2. Sounds(ss, k - 1)
      BY <1>1, <1>8, <3>0
    <3>3. c[j] <= c[k]
      BY <1>4, <1>8, <3>0, <3>2
    <3> QED
      BY <3>1, <3>3
  <2>2. CASE k = l + 2
    <3>1. Sounds(ss, l) /\ d[k] = Len(v)
      BY <1>1, <1>6, <1>8, <2>2
    <3>2. CASE j = l + 2
      BY <3>1, <3>2, <2>2, <1>2
    <3>3. CASE j <= l + 1
      <4>1. l + 1 \in first .. l + 1 /\ (l + 1) - 1 = l /\ j \in first .. l + 1
        BY <1>1, <3>3
      <4>2. c[j] <= c[l + 1] /\ c[l + 1] = Len(w)
        BY <1>4, <3>1, <3>3, <4>1
      <4>3. d[j] = c[j] /\ c[j] \in Nat
        BY <1>4, <1>6, <3>3
      <4> QED
        BY <1>2, <3>1, <4>2, <4>3
    <3> QED
      BY <1>1, <3>2, <3>3
  <2> QED
    BY <1>1, <2>1, <2>2
<1>9. ASSUME first <= l + 2, Sounds(tt, first - 1)
      PROVE  d[first] = start
  <2>1. CASE first <= l + 1
    <3>1. Sounds(ss, first - 1) /\ d[first] = c[first]
      BY <1>1, <1>6, <1>9, <2>1
    <3> QED
      BY <1>4, <2>1, <3>1
  <2>2. CASE first = l + 2
    BY <1>1, <1>4, <1>9, <2>2
  <2> QED
    BY <1>1, <1>9, <2>1, <2>2
<1>10. ASSUME Sounds(tt, l + 1)
       PROVE  first <= l + 2 /\ d[l + 2] = Len(v)
  BY <1>1, <1>4, <1>6, <1>10
<1>11. Layout(v, tt, d, first, start)
  <2>1. Len(tt) = l + 1 /\ Len(tt) + 1 = l + 2
    BY <1>1
  <2>2. \A k \in first .. Len(tt) : Sounds(tt, k) => FrameAt(v, d[k], tt[k].msg, d[k + 1])
    BY <1>7, <2>1
  <2>3. \A j \in first .. Len(tt) + 1, k \in first .. Len(tt) + 1 :
           j <= k /\ Sounds(tt, k - 1) => d[j] <= d[k]
    BY <1>8, <2>1
  <2>4. first <= Len(tt) + 1 /\ Sounds(tt, first - 1) => d[first] = start
    BY <1>9, <2>1
  <2>5. Sounds(tt, Len(tt)) => first <= Len(tt) + 1 /\ d[Len(tt) + 1] = Len(v)
    BY <1>10, <2>1
  <2> QED
    BY <1>6, <2>2, <2>3, <2>4, <2>5 DEF Layout
<1> QED
  BY <1>11 DEF v, tt

\* The reader takes d bytes off the wire, and expects frame number next behind
\* start2 of the rest.
LEMMA LayoutShifts ==
  ASSUME NEW ss \in Seq(Entries), NEW w \in Seq(Bytes), NEW c, NEW first \in Nat, first >= 1,
         NEW start, Layout(w, ss, c, first, start),
         NEW next \in Nat, first <= next, NEW d \in Nat, d <= Len(w), NEW start2 \in Nat,
         next <= Len(ss) + 1 /\ Sounds(ss, next - 1) => c[next] = d + start2,
         Sounds(ss, Len(ss)) => next <= Len(ss) + 1
  PROVE  \E c2 : Layout(SubSeq(w, d + 1, Len(w)), ss, c2, next, start2)
<1> DEFINE l == Len(ss)
           z == Len(w)
           v == SubSeq(w, d + 1, Len(w))
           c2 == [k \in Nat |-> IF d <= c[k] THEN c[k] - d ELSE 0]
<1>1. l \in Nat /\ z \in Nat /\ d <= z /\ Len(v) = z - d
  BY Dropped, LenProperties
<1>2. /\ c \in [Nat -> Nat]
      /\ \A k \in first .. l : Sounds(ss, k) => FrameAt(w, c[k], ss[k].msg, c[k + 1])
      /\ \A j \in first .. l + 1, k \in first .. l + 1 :
           j <= k /\ Sounds(ss, k - 1) => c[j] <= c[k]
      /\ Sounds(ss, l) => c[l + 1] = z
  BY DEF Layout
<1>3. /\ next <= l + 1 /\ Sounds(ss, next - 1) => c[next] = d + start2
      /\ Sounds(ss, l) => next <= l + 1
  OBVIOUS
<1>4. ASSUME NEW k \in 1 .. l, NEW o \in Nat, NEW e \in Nat, d <= o, FrameAt(w, o, ss[k].msg, e)
      PROVE  FrameAt(v, o - d, ss[k].msg, e - d)
  <2>1. ss[k].msg \in Messages
    <3>1. ss[k] \in Entries
      BY ElementOfSeq
    <3> QED
      BY <3>1 DEF Entries
  <2> QED
    BY <1>4, <2>1, FrameShifts
<1> HIDE DEF l, z, v
<1>5. /\ c2 \in [Nat -> Nat]
      /\ \A k \in Nat : /\ d <= c[k] => c2[k] = c[k] - d
                        /\ c[k] < d => c2[k] = 0
  <2>1. \A k \in Nat : c[k] \in Nat
    BY <1>2
  <2> QED
    BY <2>1
<1> HIDE DEF c2
<1>6. ASSUME NEW k \in next .. l + 1, Sounds(ss, k - 1)
      PROVE  d <= c[k] /\ k \in Nat /\ c[k] \in Nat
  <2>1. next \in first .. l + 1 /\ k \in first .. l + 1 /\ next <= k /\ next <= l + 1 /\ k \in Nat
    BY <1>1
  <2>2. Sounds(ss, next - 1)
    <3>1. next - 1 \in Int /\ k - 1 \in Int /\ next - 1 <= k - 1
      BY <2>1
    <3> QED
      BY <1>6, <3>1, SoundsBelow
  <2>3. c[next] <= c[k]
    BY <1>2, <1>6, <2>1
  <2>4. c[next] = d + start2
    BY <1>3, <2>1, <2>2
  <2>5. c[k] \in Nat
    BY <1>2, <2>1
  <2> QED
    BY <2>1, <2>3, <2>4, <2>5
<1>7. ASSUME NEW k \in next .. l, Sounds(ss, k)
      PROVE  FrameAt(v, c2[k], ss[k].msg, c2[k + 1])
  <2>1. /\ k \in Nat /\ k + 1 \in Nat /\ k \in 1 .. l /\ k \in first .. l
        /\ k \in next .. l + 1 /\ k + 1 \in next .. l + 1 /\ (k + 1) - 1 = k
    BY <1>1
  <2>2. Sounds(ss, k - 1)
    <3>1. k - 1 \in Int /\ k \in Int /\ k - 1 <= k
      BY <2>1
    <3> QED
      BY <1>7, <3>1, SoundsBelow
  <2>3. d <= c[k] /\ c[k] \in Nat
    BY <1>6, <2>1, <2>2
  <2>4. d <= c[k + 1] /\ c[k + 1] \in Nat
    BY <1>6, <1>7, <2>1
  <2>5. FrameAt(w, c[k], ss[k].msg, c[k + 1])
    BY <1>2, <1>7, <2>1
  <2>6. FrameAt(v, c[k] - d, ss[k].msg, c[k + 1] - d)
    BY <1>4, <2>1, <2>3, <2>4, <2>5
  <2>7. c2[k] = c[k] - d /\ c2[k + 1] = c[k + 1] - d
    BY <1>5, <2>1, <2>3, <2>4
  <2> QED
    BY <2>6, <2>7
<1>8. ASSUME NEW j \in next .. l + 1, NEW k \in next .. l + 1, j <= k, Sounds(ss, k - 1)
      PROVE  c2[j] <= c2[k]
  <2>1. /\ j \in Nat /\ k \in Nat /\ j \in first .. l + 1 /\ k \in first .. l + 1
        /\ j - 1 \in Int /\ k - 1 \in Int /\ j - 1 <= k - 1
    BY <1>1, <1>8
  <2>2. Sounds(ss, j - 1)
    BY <1>8, <2>1, SoundsBelow
  <2>3. c[j] <= c[k]
    BY <1>2, <1>8, <2>1
  <2>4. d <= c[j] /\ d <= c[k] /\ c[j] \in Nat /\ c[k] \in Nat
    BY <1>6, <1>8, <2>2
  <2>5. c2[j] = c[j] - d /\ c2[k] = c[k] - d
    BY <1>5, <2>1, <2>4
  <2> QED
    BY <2>3, <2>4, <2>5
<1>9. next <= l + 1 /\ Sounds(ss, next - 1) => c2[next] = start2
  <2> SUFFICES ASSUME next <= l + 1, Sounds(ss, next - 1) PROVE c2[next] = start2
    OBVIOUS
  <2>1. c[next] = d + start2 /\ d <= c[next]
    BY <1>3
  <2>2. c2[next] = c[next] - d
    BY <1>5, <2>1
  <2>3. (d + start2) - d = start2
    OBVIOUS
  <2> QED
    BY <2>1, <2>2, <2>3
<1>10. Sounds(ss, l) => next <= l + 1 /\ c2[l + 1] = Len(v)
  <2> SUFFICES ASSUME Sounds(ss, l) PROVE next <= l + 1 /\ c2[l + 1] = Len(v)
    OBVIOUS
  <2>1. c[l + 1] = z /\ l + 1 \in Nat
    BY <1>1, <1>2
  <2>2. c2[l + 1] = z - d
    BY <1>1, <1>5, <2>1
  <2> QED
    BY <1>1, <1>3, <2>2
<1>11. Layout(v, ss, c2, next, start2)
  BY <1>5, <1>7, <1>8, <1>9, <1>10 DEF Layout, l
<1> QED
  BY <1>11 DEF v

LEMMA ReaderUnchanged ==
  ASSUME ReaderInv, UNCHANGED <<wire, sent, got, rpc, g>>
  PROVE  ReaderInv'
<1>1. Returned'
  BY DEF ReaderInv, Returned, Carries, Sounds
<1>2. ASSUME rpc' = "header" PROVE \E c : Layout(wire', sent', c, Len(got') + 1, 0)
  BY <1>2 DEF ReaderInv
<1>3. ASSUME rpc' = "payload" PROVE HeaderRead' /\ \E c : Layout(wire', sent', c, Len(got') + 2, g'.len)
  <2>1. HeaderRead'
    BY <1>3 DEF ReaderInv, HeaderRead, Sounds
  <2> QED
    BY <1>3, <2>1 DEF ReaderInv
<1> QED
  BY <1>1, <1>2, <1>3 DEF ReaderInv

LEMMA ReturnedGrows ==
  ASSUME TInv, Returned, NEW x \in Entries, sent' = Append(sent, x), got' = got
  PROVE  Returned'
<1> DEFINE l == Len(sent)
<1>1. sent \in Seq(Entries) /\ got \in Seq(Frames) /\ Len(got) \in Nat
  BY LenProperties DEF TInv, SenderInv, ReceiverInv
<1>2. /\ Len(sent') = l + 1 /\ l \in Nat
      /\ \A k \in 1 .. l : sent'[k] = sent[k]
      /\ \A k \in Int : k <= l => (Sounds(sent', k) <=> Sounds(sent, k))
      /\ \A k \in Int : k > l /\ Sounds(sent', k) => Sounds(sent, l) /\ ~ x.wraps
  BY <1>1, SentGrows
<1>3. /\ \A k \in 1 .. Len(got) : k <= l /\ Sounds(sent, k) => Carries(got[k], sent[k].msg)
      /\ Sounds(sent, l) => Len(got) <= l
  BY DEF Returned
<1> HIDE DEF l
<1>4. ASSUME NEW k \in 1 .. Len(got), k <= l + 1, Sounds(sent', k)
      PROVE  Carries(got[k], sent'[k].msg)
  <2>0. k \in Int /\ k \in Nat /\ k >= 1
    BY <1>1
  <2>1. CASE k <= l
    <3>1. k \in 1 .. l /\ sent'[k] = sent[k]
      BY <1>2, <2>0, <2>1
    <3>2. Sounds(sent, k)
      BY <1>2, <1>4, <2>0, <2>1
    <3> QED
      BY <1>3, <2>1, <3>1, <3>2
  <2>2. CASE k > l
    <3>1. Len(got) <= l
      BY <1>2, <1>3, <1>4, <2>0, <2>2
    <3> QED
      BY <1>1, <1>2, <2>0, <2>2, <3>1
  <2>3. k <= l \/ k > l
    BY <1>2, <2>0
  <2> QED
    BY <2>1, <2>2, <2>3
<1>5. ASSUME Sounds(sent', l + 1) PROVE Len(got) <= l + 1
  BY <1>1, <1>2, <1>3, <1>5
<1>6. /\ \A k \in 1 .. Len(got') : k <= Len(sent') /\ Sounds(sent', k) => Carries(got'[k], sent'[k].msg)
      /\ Sounds(sent', Len(sent')) => Len(got') <= Len(sent')
  BY <1>2, <1>4, <1>5
<1> QED
  BY <1>6 DEF Returned, Carries, Sounds

LEMMA WrittenReader ==
  ASSUME TInv, ReaderInv, NEW e, Sending(e), Written(e)
  PROVE  ReaderInv'
<1> DEFINE x == [msg |-> msg, wraps |-> e.frame.len > MaxU24]
           y == e.bytes
<1>1. CASE e.err # "none"
  <2>1. UNCHANGED <<wire, sent, got, rpc, g>>
    BY <1>1 DEF Written
  <2> QED
    BY <2>1, ReaderUnchanged
<1>2. CASE e.err = "none"
  <2>1. x \in Entries /\ x.msg = msg /\ (~ x.wraps => e.frame.len <= MaxU24)
    <3> DEFINE l == e.frame.len
               u == MaxU24
    <3>1. l \in Nat /\ u \in Nat /\ msg \in Messages
      BY Limits DEF Sending, Grown, InStep, Frames, TInv, SenderInv
    <3> HIDE DEF l, u
    <3>2. [msg |-> msg, wraps |-> l > u] \in Entries /\ (~ (l > u) => l <= u)
      BY <3>1 DEF Entries
    <3> QED
      BY <3>2 DEF l, u
  <2>2. sent' = Append(sent, x) /\ UNCHANGED <<rpc, got, g>>
    BY <1>2 DEF Written
  <2> HIDE DEF x
  <2>3. Returned'
    BY <2>1, <2>2, ReturnedGrows DEF ReaderInv
  <2>4. y \in Seq(Bytes)
    BY <1>2, BytesSent
  <2>5. sent \in Seq(Entries) /\ wire \in Seq(Bytes) /\ msg \in Messages /\ Len(got) \in Nat
    BY LenProperties DEF TInv, SenderInv, ReceiverInv
  <2>6. ~ x.wraps => FrameAt(wire \o y, Len(wire), x.msg, Len(wire \o y))
    <3>1. Carries(e.frame, msg)
      BY CarriesOn DEF TInv, SenderInv, Sending
    <3> QED
      BY <1>2, <2>1, <2>5, <3>1, FrameSent
  <2>7. ASSUME rpc \in {"header", "payload"}, NEW c, NEW first \in Nat, first >= 1, NEW start,
               Layout(wire, sent, c, first, start)
        PROVE  wire' = wire \o y /\ \E d : Layout(wire', sent', d, first, start)
    <3>1. wire' = wire \o y
      BY <1>2, <2>7 DEF Written, TInv, SenderInv, ReceiverInv
    <3> HIDE DEF y
    <3>2. \E d : Layout(wire \o y, Append(sent, x), d, first, start)
      BY <2>1, <2>4, <2>5, <2>6, <2>7, LayoutGrows
    <3> QED
      BY <2>2, <3>1, <3>2
  <2>8. ASSUME rpc = "header" PROVE \E c : Layout(wire', sent', c, Len(got') + 1, 0)
    <3>1. PICK c : Layout(wire, sent, c, Len(got) + 1, 0)
      BY <2>8 DEF ReaderInv
    <3>2. Len(got) + 1 \in Nat /\ Len(got) + 1 >= 1
      BY <2>5
    <3>3. \E d : Layout(wire', sent', d, Len(got) + 1, 0)
      BY <2>7, <2>8, <3>1, <3>2
    <3> QED
      BY <2>2, <3>3
  <2>9. ASSUME rpc = "payload" PROVE HeaderRead' /\ \E c : Layout(wire', sent', c, Len(got') + 2, g'.len)
    <3>1. PICK c : Layout(wire, sent, c, Len(got) + 2, g.len)
      BY <2>9 DEF ReaderInv
    <3>2. Len(got) + 2 \in Nat /\ Len(got) + 2 >= 1
      BY <2>5
    <3>3. wire' = wire \o y /\ \E d : Layout(wire', sent', d, Len(got) + 2, g.len)
      BY <2>7, <2>9, <3>1, <3>2
    <3>4. HeaderRead'
      <4> DEFINE l == Len(sent)
                 k == Len(got) + 1
      <4>1. /\ Len(sent') = l + 1 /\ l \in Nat
            /\ \A i \in 1 .. l : sent'[i] = sent[i]
            /\ \A i \in Int : i <= l => (Sounds(sent', i) <=> Sounds(sent, i))
            /\ \A i \in Int : i > l /\ Sounds(sent', i) => Sounds(sent, l) /\ ~ x.wraps
        BY <2>1, <2>2, <2>5, SentGrows
      <4>2. Sounds(sent, l) => Len(got) + 2 <= l + 1
        BY <3>1 DEF Layout
      <4> SUFFICES ASSUME k <= l + 1, Sounds(sent', k)
                   PROVE  LET m == sent'[k].msg
                          IN  /\ g.ext = m.ext /\ g.type = m.type
                              /\ Len(m.params) <= g.len /\ g.len <= Len(wire')
                              /\ \A i \in 1 .. Len(m.params) : wire'[i] = m.params[i]
        BY <2>2, <4>1 DEF HeaderRead, Sounds
      <4>3. k \in 1 .. l /\ Sounds(sent, k) /\ sent'[k] = sent[k] /\ k <= l
        BY <2>5, <4>1, <4>2
      <4> DEFINE m == sent[k].msg
      <4>4. /\ g.ext = m.ext /\ g.type = m.type
            /\ Len(m.params) <= g.len /\ g.len <= Len(wire)
            /\ \A i \in 1 .. Len(m.params) : wire[i] = m.params[i]
        BY <2>9, <4>3 DEF ReaderInv, HeaderRead
      <4>5. m \in Messages
        <5>1. sent[k] \in Entries
          BY <2>5, <4>3, ElementOfSeq
        <5> QED
          BY <5>1 DEF Entries
      <4>6. Len(m.params) \in Nat /\ g.len \in Nat
        BY <4>5, MessageType, ReceiverTypes
      <4> HIDE DEF m, k, l, y
      <4>7. /\ wire \o y \in Seq(Bytes) /\ Len(wire \o y) = Len(wire) + Len(y)
            /\ Len(wire) \in Nat /\ Len(y) \in Nat /\ Len(wire \o y) \in Nat
            /\ \A i \in 1 .. Len(wire) : (wire \o y)[i] = wire[i]
            /\ \A i \in 1 .. Len(y) : (wire \o y)[Len(wire) + i] = y[i]
        BY <2>4, <2>5, Joined
      <4>8. g.len <= Len(wire')
        BY <3>3, <4>4, <4>6, <4>7
      <4>9. ASSUME NEW i \in 1 .. Len(m.params) PROVE wire'[i] = m.params[i]
        <5>1. i \in 1 .. Len(wire)
          BY <4>4, <4>6, <4>7
        <5>2. (wire \o y)[i] = wire[i]
          BY <4>7, <5>1
        <5> QED
          BY <3>3, <4>4, <5>2
      <4> QED
        BY <4>3, <4>4, <4>8, <4>9 DEF m
    <3> QED
      BY <2>2, <3>3, <3>4
  <2> QED
    BY <2>2, <2>3, <2>8, <2>9 DEF ReaderInv
<1> QED
  BY <1>1, <1>2

LEMMA ReadHeaderReader ==
  ASSUME TInv, ReaderInv, ReadHeader
  PROVE  ReaderInv'
<1> DEFINE s == SubSeq(wire, 1, FrameHeaderSize)
           fr == DecodeHeader(g, s)
           k == Len(got) + 1
           l == Len(sent)
           m == sent[k].msg
<1>1. /\ g \in Frames /\ wire \in Seq(Bytes) /\ Len(wire) \in Nat /\ Len(wire) >= 6
      /\ sent \in Seq(Entries) /\ l \in Nat /\ Len(got) \in Nat
  <2>1. sent \in Seq(Entries) /\ got \in Seq(Frames)
    BY DEF TInv, SenderInv, ReceiverInv
  <2>2. l \in Nat /\ Len(got) \in Nat
    BY <2>1, LenProperties
  <2> QED
    BY <2>1, <2>2, ReceiverTypes DEF ReadHeader, FrameHeaderSize
<1>2. \A i \in 1 .. 6 : s[i] \in Bytes /\ s[i] = wire[i]
  <2>1. \A i \in 1 .. 6 : wire[i] \in Bytes
    BY <1>1, ElementOfSeq
  <2> QED
    BY <2>1, SubSeqProperties DEF FrameHeaderSize
<1>3. g' = [fr EXCEPT !.payload = [i \in 1 .. fr.len |-> 0]]
  BY DEF ReadHeader
<1>4. /\ fr \in Frames
      /\ fr.ext = FromLittleEndian(SubSeq(s, 1, 2)) /\ fr.type = s[3]
      /\ fr.len = FromLittleEndian(SubSeq(s, 4, 6))
  <2> HIDE DEF s
  <2> QED
    BY <1>1, <1>2, DecodeHeaderType
<1> HIDE DEF fr
<1>5. g'.ext = fr.ext /\ g'.type = fr.type /\ g'.len = fr.len /\ fr.len \in Nat
  BY <1>3, <1>4 DEF Frames
<1>6. PICK c : Layout(wire, sent, c, k, 0)
  BY DEF ReaderInv, ReadHeader
<1>7. /\ c \in [Nat -> Nat]
      /\ \A i \in k .. l : Sounds(sent, i) => FrameAt(wire, c[i], sent[i].msg, c[i + 1])
      /\ k <= l + 1 /\ Sounds(sent, k - 1) => c[k] = 0
      /\ Sounds(sent, l) => k <= l + 1 /\ c[l + 1] = Len(wire)
  BY <1>6 DEF Layout
<1> HIDE DEF s, m
<1>8. ASSUME k <= l, Sounds(sent, k)
      PROVE  /\ fr.ext = m.ext /\ fr.type = m.type /\ c[k + 1] = 6 + fr.len
             /\ Len(m.params) <= fr.len /\ 6 + fr.len <= Len(wire) /\ Len(m.params) \in Nat
             /\ \A i \in 1 .. Len(m.params) : wire[6 + i] = m.params[i]
  <2>1. c[k] = 0
    <3>1. k - 1 \in Int /\ k \in Int /\ k - 1 <= k /\ k <= l + 1
      BY <1>1, <1>8
    <3>2. Sounds(sent, k - 1)
      BY <1>8, <3>1, SoundsBelow
    <3> QED
      BY <1>7, <3>1, <3>2
  <2> DEFINE e == c[k + 1]
  <2>2. FrameAt(wire, 0, m, e)
    <3>1. k \in k .. l
      BY <1>1, <1>8
    <3> QED
      BY <1>7, <1>8, <2>1, <3>1 DEF m
  <2> HIDE DEF e
  <2>3. m \in Messages
    <3>1. k \in 1 .. l
      BY <1>1, <1>8
    <3>2. sent[k] \in Entries
      BY <1>1, <3>1, ElementOfSeq
    <3> QED
      BY <3>2 DEF Entries, m
  <2>4. m.ext \in 0 .. Limit64K /\ m.type \in Bytes /\ Len(m.params) \in Nat
    BY <2>3, MessageType
  <2> DEFINE len == e - 0 - 6
  <2>5. /\ e \in Nat /\ e <= Len(wire) /\ 0 + 6 + Len(m.params) <= e
        /\ len <= MaxU24
        /\ \A i \in 1 .. 6 : wire[0 + i] = EncodeHeader(m.ext, m.type, len)[i]
        /\ \A i \in 1 .. Len(m.params) : wire[0 + 6 + i] = m.params[i]
    BY <2>2 DEF FrameAt, FrameHeaderSize
  <2>6. len \in Nat /\ len = e - 6
    BY <2>4, <2>5
  <2> HIDE DEF len
  <2>7. \A i \in 1 .. FrameHeaderSize : s[i] = EncodeHeader(m.ext, m.type, len)[i]
    <3>1. \A i \in 1 .. 6 : 0 + i = i
      OBVIOUS
    <3> QED
      BY <1>2, <2>5, <3>1 DEF FrameHeaderSize
  <2>8. /\ FromLittleEndian(SubSeq(s, 1, 2)) = m.ext /\ s[3] = m.type
        /\ FromLittleEndian(SubSeq(s, 4, 6)) = len
    <3>1. \A ext \in 0 .. Limit64K, type \in Bytes, z \in Nat :
            \A t : (\A i \in 1 .. FrameHeaderSize : t[i] = EncodeHeader(ext, type, z)[i]) =>
              /\ FromLittleEndian(SubSeq(t, 1, 2)) = ext /\ t[3] = type
              /\ z <= MaxU24 => FromLittleEndian(SubSeq(t, 4, 6)) = z
      BY HeaderBytes
    <3> DEFINE x == m.ext
               y == m.type
    <3>2. x \in 0 .. Limit64K /\ y \in Bytes /\ len \in Nat /\ len <= MaxU24
      BY <2>4, <2>5, <2>6
    <3>3. \A i \in 1 .. FrameHeaderSize : s[i] = EncodeHeader(x, y, len)[i]
      BY <2>7
    <3> HIDE DEF x, y
    <3> DEFINE Fits(t, z) == \A i \in 1 .. FrameHeaderSize : t[i] = EncodeHeader(x, y, z)[i]
               Reads(t, z) == /\ FromLittleEndian(SubSeq(t, 1, 2)) = x /\ t[3] = y
                              /\ z <= MaxU24 => FromLittleEndian(SubSeq(t, 4, 6)) = z
    <3>5. \A z \in Nat : \A t : Fits(t, z) => Reads(t, z)
      BY <3>1, <3>2
    <3>6. Fits(s, len)
      BY <3>3
    <3> HIDE DEF Fits
    <3>7. Reads(s, len)
      <4> HIDE DEF Reads
      <4> QED
        BY <3>2, <3>5, <3>6
    <3>4. /\ FromLittleEndian(SubSeq(s, 1, 2)) = x /\ s[3] = y
          /\ FromLittleEndian(SubSeq(s, 4, 6)) = len
      BY <3>2, <3>7
    <3> QED
      BY <3>4 DEF x, y
  <2>9. fr.ext = m.ext /\ fr.type = m.type /\ fr.len = len
    BY <1>4, <2>8
  <2>10. Len(m.params) <= len /\ 6 + len <= Len(wire) /\ e = 6 + len
    BY <1>1, <2>4, <2>5, <2>6
  <2>11. ASSUME NEW i \in 1 .. Len(m.params) PROVE wire[6 + i] = m.params[i]
    <3>1. 0 + 6 + i = 6 + i
      OBVIOUS
    <3> QED
      BY <2>5, <3>1
  <2> QED
    BY <2>4, <2>9, <2>10, <2>11 DEF e
<1>9. Sounds(sent, l) => k + 1 <= l + 1
  <2> SUFFICES ASSUME Sounds(sent, l), ~ (k + 1 <= l + 1) PROVE FALSE
    OBVIOUS
  <2>0. k <= l + 1 /\ k \in Nat /\ l \in Nat
    BY <1>1, <1>7
  <2>1. k = l + 1 /\ k - 1 = l
    BY <2>0
  <2>2. c[l + 1] = 0 /\ c[l + 1] = Len(wire)
    BY <1>7, <2>1
  <2> QED
    BY <1>1, <2>2
<1> DEFINE v == SubSeq(wire, 6 + 1, Len(wire))
<1>10. \E d : Layout(v, sent, d, k + 1, fr.len)
  <2> DEFINE next == k + 1
             start2 == fr.len
  <2>1. /\ k \in Nat /\ k >= 1 /\ next \in Nat /\ k <= next /\ 6 \in Nat /\ 6 <= Len(wire) /\ start2 \in Nat
    BY <1>1, <1>5
  <2>2. next <= l + 1 /\ Sounds(sent, next - 1) => c[next] = 6 + start2
    <3>1. next - 1 = k /\ (next <= l + 1 <=> k <= l)
      BY <1>1
    <3> QED
      BY <1>8, <3>1
  <2>3. Sounds(sent, l) => next <= l + 1
    BY <1>9
  <2> HIDE DEF next, start2, k
  <2>4. \E d : Layout(SubSeq(wire, 6 + 1, Len(wire)), sent, d, next, start2)
    BY <1>1, <1>6, <2>1, <2>2, <2>3, LayoutShifts
  <2> QED
    BY <2>4 DEF next, start2
<1>11. wire' = v /\ rpc' = "payload" /\ UNCHANGED <<sent, got>>
  BY DEF ReadHeader, svars, FrameHeaderSize
<1>12. Len(v) = Len(wire) - 6 /\ \A i \in 1 .. Len(wire) - 6 : v[i] = wire[6 + i]
  <2>1. 6 \in Nat /\ 6 <= Len(wire)
    BY <1>1
  <2> QED
    BY <1>1, <2>1, Dropped
<1> HIDE DEF v
<1>13. HeaderRead'
  <2> SUFFICES ASSUME k <= l, Sounds(sent, k)
               PROVE  /\ g'.ext = m.ext /\ g'.type = m.type
                      /\ Len(m.params) <= g'.len /\ g'.len <= Len(v)
                      /\ \A i \in 1 .. Len(m.params) : v[i] = m.params[i]
    BY <1>11 DEF HeaderRead, Sounds, m
  <2>1. /\ fr.ext = m.ext /\ fr.type = m.type /\ c[k + 1] = 6 + fr.len
        /\ Len(m.params) <= fr.len /\ 6 + fr.len <= Len(wire) /\ Len(m.params) \in Nat
        /\ \A i \in 1 .. Len(m.params) : wire[6 + i] = m.params[i]
    BY <1>8
  <2>2. fr.len <= Len(v)
    BY <1>1, <1>5, <1>12, <2>1
  <2>3. ASSUME NEW i \in 1 .. Len(m.params) PROVE v[i] = m.params[i]
    <3>1. i \in 1 .. Len(wire) - 6
      BY <1>1, <1>5, <2>1
    <3> QED
      BY <1>12, <2>1, <3>1
  <2> QED
    BY <1>5, <2>1, <2>2, <2>3
<1>14. Returned'
  BY <1>11 DEF ReaderInv, Returned, Carries, Sounds
<1>15. \E d : Layout(wire', sent', d, Len(got') + 2, g'.len)
  <2>1. Len(got) + 2 = k + 1
    BY <1>1
  <2> QED
    BY <1>5, <1>10, <1>11, <2>1
<1> QED
  BY <1>11, <1>13, <1>14, <1>15 DEF ReaderInv

LEMMA ReadPayloadReader ==
  ASSUME TInv, ReaderInv, ReadPayload
  PROVE  ReaderInv'
<1> DEFINE k == Len(got) + 1
           l == Len(sent)
           z == g.len
           p == SubSeq(wire, 1, z)
           v == SubSeq(wire, z + 1, Len(wire))
<1>1. /\ g \in Frames /\ wire \in Seq(Bytes) /\ Len(wire) \in Nat /\ z \in Nat /\ z <= Len(wire)
      /\ sent \in Seq(Entries) /\ l \in Nat /\ got \in Seq(Frames) /\ Len(got) \in Nat
  <2>1. sent \in Seq(Entries) /\ got \in Seq(Frames)
    BY DEF TInv, SenderInv, ReceiverInv
  <2>2. l \in Nat /\ Len(got) \in Nat
    BY <2>1, LenProperties
  <2> QED
    BY <2>1, <2>2, ReceiverTypes DEF ReadPayload
<1>2. /\ g' = [g EXCEPT !.payload = p] /\ wire' = v /\ got' = Append(got, g') /\ rpc' = "header"
      /\ sent' = sent /\ HeaderRead /\ Returned
  BY DEF ReadPayload, ReaderInv, svars
<1>3. PICK c : Layout(wire, sent, c, k + 1, z)
  <2>1. k + 1 = Len(got) + 2
    BY <1>1
  <2> QED
    BY <2>1 DEF ReaderInv, ReadPayload
<1>4. /\ c \in [Nat -> Nat]
      /\ k + 1 <= l + 1 /\ Sounds(sent, (k + 1) - 1) => c[k + 1] = z
      /\ Sounds(sent, l) => k + 1 <= l + 1
  BY <1>3 DEF Layout
<1>5. p \in Seq(Bytes) /\ Len(p) = z /\ \A i \in 1 .. z : p[i] = wire[i]
  <2>1. \A i \in 1 .. z : wire[i] \in Bytes
    BY <1>1, ElementOfSeq
  <2> HIDE DEF z
  <2> QED
    BY <1>1, <2>1, SubSeqProperties
<1> HIDE DEF p
<1>6. g' \in Frames /\ g'.payload = p /\ g'.ext = g.ext /\ g'.type = g.type
  BY <1>1, <1>2, <1>5, WithPayload
<1>7. /\ Len(got') = k /\ got'[k] = g' /\ \A i \in 1 .. Len(got) : got'[i] = got[i]
  BY <1>1, <1>2, <1>6, AppendProperties
<1>8. \E d : Layout(v, sent, d, k + 1, 0)
  <2> DEFINE next == k + 1
  <2>1. next \in Nat /\ next >= 1 /\ next <= next /\ 0 \in Nat
    BY <1>1
  <2>2. next <= l + 1 /\ Sounds(sent, next - 1) => c[next] = z + 0
    <3> HIDE DEF z
    <3>1. z + 0 = z
      BY <1>1
    <3> QED
      BY <1>4, <3>1
  <2>3. Sounds(sent, l) => next <= l + 1
    BY <1>4
  <2> HIDE DEF next, z
  <2>4. Layout(wire, sent, c, next, z)
    BY <1>3 DEF next
  <2>5. \E d : Layout(SubSeq(wire, z + 1, Len(wire)), sent, d, next, 0)
    BY <1>1, <2>1, <2>2, <2>3, <2>4, LayoutShifts
  <2> QED
    BY <2>5 DEF next
<1>9. ASSUME k <= l, Sounds(sent, k) PROVE Carries(g', sent[k].msg)
  <2> DEFINE m == sent[k].msg
  <2>1. /\ g.ext = m.ext /\ g.type = m.type
        /\ Len(m.params) <= z /\ z <= Len(wire)
        /\ \A i \in 1 .. Len(m.params) : wire[i] = m.params[i]
    BY <1>2, <1>9 DEF HeaderRead
  <2>2. Len(m.params) \in Nat
    <3>1. k \in 1 .. l
      BY <1>1, <1>9
    <3>2. sent[k] \in Entries
      BY <1>1, <3>1, ElementOfSeq
    <3>3. m \in Messages
      BY <3>2 DEF Entries
    <3> QED
      BY <3>3, MessageType
  <2> HIDE DEF m, z
  <2>3. \A i \in 1 .. Len(m.params) : p[i] = m.params[i]
    BY <1>1, <1>5, <2>1, <2>2
  <2>4. Carries(g', m)
    BY <1>5, <1>6, <2>1, <2>3 DEF Carries
  <2> QED
    BY <2>4 DEF m
<1>10. ASSUME NEW i \in 1 .. Len(got'), i <= Len(sent'), Sounds(sent', i)
       PROVE  Carries(got'[i], sent'[i].msg)
  <2>1. CASE i = k
    BY <1>2, <1>7, <1>9, <1>10, <2>1
  <2>2. CASE i # k
    <3>1. i \in 1 .. Len(got)
      BY <1>1, <1>7, <2>2
    <3>2. Carries(got[i], sent[i].msg)
      BY <1>2, <1>10, <3>1 DEF Returned
    <3> QED
      BY <1>2, <1>7, <3>1, <3>2
  <2> QED
    BY <2>1, <2>2
<1>11. Sounds(sent', Len(sent')) => Len(got') <= Len(sent')
  <2>1. Sounds(sent, l) => k <= l
    BY <1>1, <1>4
  <2> QED
    BY <1>2, <1>7, <2>1
<1>12. Returned'
  BY <1>10, <1>11 DEF Returned, Carries, Sounds
<1>13. \E d : Layout(wire', sent', d, Len(got') + 1, 0)
  BY <1>2, <1>7, <1>8
<1> QED
  BY <1>2, <1>12, <1>13 DEF ReaderInv

LEMMA StepReader ==
  ASSUME TInv, ReaderInv, [Next]_vars
  PROVE  ReaderInv'
<1>1. CASE UNCHANGED vars
  BY <1>1, ReaderUnchanged DEF vars, svars
<1>2. ASSUME NEW m \in Msgs, FromParams(m) PROVE ReaderInv'
  BY <1>2, ReaderUnchanged DEF FromParams
<1>3. ASSUME NEW m \in Msgs, FromParamsFails(m) PROVE ReaderInv'
  BY <1>3, ReaderUnchanged DEF FromParamsFails
<1>4. ASSUME NEW tlvs \in TLVLists, SetTLVs(tlvs) PROVE ReaderInv'
  BY <1>4, ReaderUnchanged DEF SetTLVs
<1>5. InStep(f)
  BY DEF TInv, SenderInv
<1>6. CASE Send
  BY <1>5, <1>6, SenderSends, WrittenReader DEF Send
<1>7. CASE WriteFrame
  BY <1>5, <1>7, SenderSends, WrittenReader DEF WriteFrame
<1>8. CASE Close
  BY <1>8, ReaderUnchanged DEF Close, svars
<1>9. ASSUME UNCHANGED <<wire, sent, got>>, rpc' \notin {"header", "payload"} PROVE ReaderInv'
  <2>1. Returned'
    BY <1>9 DEF ReaderInv, Returned, Carries, Sounds
  <2> QED
    BY <1>9, <2>1 DEF ReaderInv
<1>10. CASE ReadEnds
  <2>1. Returned' /\ rpc' = "stopped"
    BY <1>10 DEF ReadEnds, ReaderInv, Returned, Carries, Sounds, svars
  <2> QED
    BY <2>1 DEF ReaderInv
<1>11. TInv'
  BY StepTInv
<1>12. CASE DecodeWhole \/ DecodeCut \/ DecodeTLV \/ DecodeReturns
  <2>1. rpc \in {"idle", "tlvs"} /\ UNCHANGED <<via, wire, sent, got>>
    BY <1>12 DEF DecodeWhole, DecodeCut, DecodeSlice, DecodeTLV, DecodeReturns, svars
  <2>2. rpc' \notin {"header", "payload"}
    BY <1>11, <2>1 DEF TInv, SenderInv, ReceiverInv
  <2> QED
    BY <1>9, <2>1, <2>2
<1> QED
  BY <1>1, <1>2, <1>3, <1>4, <1>6, <1>7, <1>8, <1>10, <1>12, ReadHeaderReader, ReadPayloadReader
     DEF Next, Sender, Receiver

LEMMA InitReader == Init => ReaderInv
<1> SUFFICES ASSUME Init PROVE ReaderInv
  OBVIOUS
<1>1. sent = <<>> /\ wire = <<>> /\ got = <<>> /\ rpc \in {"header", "idle"}
  BY DEF Init
<1>2. Len(sent) = 0 /\ Len(wire) = 0 /\ Len(got) = 0
  BY <1>1
<1> DEFINE c == [k \in Nat |-> 0]
<1>3. c \in [Nat -> Nat] /\ \A k \in Nat : c[k] = 0
  OBVIOUS
<1> HIDE DEF c
<1>4. Layout(wire, sent, c, Len(got) + 1, 0)
  BY <1>2, <1>3 DEF Layout
<1>5. Returned
  BY <1>2 DEF Returned
<1> QED
  BY <1>1, <1>4, <1>5 DEF ReaderInv

\* A sequence whose elements begin another one is its prefix.
LEMMA PrefixOf ==
  ASSUME NEW S, NEW s \in Seq(S), NEW t \in Seq(S), Len(s) <= Len(t),
         \A i \in 1 .. Len(s) : t[i] = s[i]
  PROVE  IsPrefix(s, t)
<1> DEFINE l == Len(s)
           x == SubSeq(s, 1, l)
           y == SubSeq(t, 1, l)
<1>1. l \in Nat /\ l \in Int /\ Len(t) \in Nat /\ l <= Len(t) /\ l - 1 + 1 = l
  BY LenProperties
<1>2. (\A i \in 1 .. l : s[i] \in S /\ t[i] \in S) /\ \A i \in 1 .. l : t[i] = s[i]
  BY <1>1, ElementOfSeq
<1> HIDE DEF l
<1>3. x \in Seq(S) /\ Len(x) = l /\ \A i \in 1 .. l : x[i] = s[i]
  BY <1>1, <1>2, SubSeqProperties
<1>4. y \in Seq(S) /\ Len(y) = l /\ \A i \in 1 .. l : y[i] = t[i]
  BY <1>1, <1>2, SubSeqProperties
<1> HIDE DEF x, y
<1>5. \A i \in 1 .. l : x[i] = y[i]
  BY <1>2, <1>3, <1>4
<1>6. x = y
  BY <1>3, <1>4, <1>5, SeqEqual
<1> QED
  BY <1>1, <1>6 DEF IsPrefix, x, y, l

LEMMA ReaderInvArrives ==
  ASSUME TInv, ReaderInv
  PROVE  MessagesArrive
<1> DEFINE l == Len(sent)
<1>1. sent \in Seq(Entries) /\ l \in Nat /\ got \in Seq(Frames) /\ Len(got) \in Nat /\ DOMAIN got = 1 .. Len(got)
  <2>1. sent \in Seq(Entries) /\ got \in Seq(Frames)
    BY DEF TInv, SenderInv, ReceiverInv
  <2> QED
    BY <2>1, LenProperties
<1>2. \A k : Sound(k) <=> Sounds(sent, k)
  BY DEF Sound, Sounds
<1>3. ASSUME NEW k \in DOMAIN got, k <= Len(sent), Sound(k)
      PROVE  /\ got[k].ext = sent[k].msg.ext /\ got[k].type = sent[k].msg.type
             /\ IsPrefix(sent[k].msg.params, got[k].payload)
  <2> DEFINE m == sent[k].msg
             fr == got[k]
  <2>1. Carries(fr, m)
    BY <1>1, <1>2, <1>3 DEF ReaderInv, Returned
  <2>2. m \in Messages
    <3>1. k \in 1 .. l
      BY <1>1, <1>3
    <3>2. sent[k] \in Entries
      BY <1>1, <3>1, ElementOfSeq
    <3> QED
      BY <3>2 DEF Entries
  <2>3. fr \in Frames
    BY <1>1, ElementOfSeq
  <2> HIDE DEF m, fr
  <2>4. m.params \in Seq(Bytes) /\ fr.payload \in Seq(Bytes)
    BY <2>2, <2>3, MessageType DEF Frames
  <2>5. IsPrefix(m.params, fr.payload)
    BY <2>1, <2>4, PrefixOf DEF Carries
  <2> QED
    BY <2>1, <2>5 DEF Carries, m, fr
<1>4. ASSUME via = "reader", Sound(Len(sent)) PROVE Len(got) <= Len(sent)
  BY <1>2, <1>4 DEF ReaderInv, Returned
<1>5. ASSUME via = "reader", Sound(Len(sent)), rpc = "header", wire = <<>>, Len(got) # Len(sent)
      PROVE  FALSE
  <2>1. PICK c : Layout(wire, sent, c, Len(got) + 1, 0)
    BY <1>5 DEF ReaderInv
  <2>2. Len(got) + 1 \in Len(got) + 1 .. l
    BY <1>1, <1>4, <1>5
  <2>3. Sounds(sent, Len(got) + 1)
    <3>1. Len(got) + 1 \in Int /\ l \in Int /\ Len(got) + 1 <= l
      BY <1>1, <2>2
    <3> QED
      BY <1>2, <1>5, <3>1, SoundsBelow
  <2> DEFINE m == sent[Len(got) + 1].msg
  <2>4. FrameAt(wire, c[Len(got) + 1], m, c[Len(got) + 1 + 1])
    BY <2>1, <2>2, <2>3 DEF Layout
  <2>5. Len(m.params) \in Nat
    <3>1. Len(got) + 1 \in 1 .. l
      BY <1>1, <2>2
    <3>2. sent[Len(got) + 1] \in Entries
      BY <1>1, <3>1, ElementOfSeq
    <3>3. m \in Messages
      BY <3>2 DEF Entries
    <3> QED
      BY <3>3, MessageType
  <2> DEFINE o == c[Len(got) + 1]
             e == c[Len(got) + 1 + 1]
             z == Len(m.params)
  <2>6. o \in Nat /\ e \in Nat /\ e <= 0 /\ o + 6 + z <= e /\ z \in Nat
    <3>1. Len(wire) = 0
      BY <1>5
    <3> QED
      BY <2>4, <2>5, <3>1 DEF FrameAt, FrameHeaderSize
  <2> HIDE DEF o, e, z
  <2> QED
    BY <2>6
<1> QED
  BY <1>3, <1>4, <1>5 DEF MessagesArrive

\* Whatever is sent, encoded how often, with whatever TLVs: the reader returns
\* the messages one by one, with their header and their parameters first in
\* the payload, as long as no frame outgrows its header; and once it has read
\* the wire empty it has returned them all.
THEOREM MessagesInOrder == Spec => []MessagesArrive
<1>1. Init => TInv /\ ReaderInv
  BY InitTInv, InitReader
<1>2. TInv /\ ReaderInv /\ [Next]_vars => (TInv /\ ReaderInv)'
  BY StepTInv, StepReader
<1>3. TInv /\ ReaderInv => MessagesArrive
  BY ReaderInvArrives
<1> QED
  BY <1>1, <1>2, <1>3, PTL DEF Spec

-----------------------------------------------------------------------------
(* The TLVs behind a slice's payload *)

\* ts is the TLVs before, and behind them the j first of peer.
Holds(ts, before, peer, j) ==
  /\ Len(ts) = Len(before) + j
  /\ \A i \in 1 .. Len(before) : ts[i] = before[i]
  /\ \A i \in 1 .. j : ts[Len(before) + i] = peer[i]

\* Behind the first k bytes of s are those of p, and then those of tail.
Behind(s, k, p, tail) ==
  /\ Len(s) = k + Len(p) + Len(tail)
  /\ \A i \in 1 .. Len(p) : s[k + i] = p[i]
  /\ \A i \in 1 .. Len(tail) : s[k + Len(p) + i] = tail[i]

\* Decode has read j of the peer's TLVs, and stands before the next.
Walked(c, j, tail) ==
  /\ j \in 0 .. Len(added.peer) /\ tail \in Trailers
  /\ \A i \in 1 .. Len(added.peer) :
       added.peer[i].len = Len(added.peer[i].value) /\ added.peer[i].len <= Limit64K
  /\ Cuts(PeerTLVs(added.peer), Images(added.peer), c) /\ lastLen = c[j]
  /\ Behind(b, n, PeerTLVs(added.peer), tail)
  /\ Holds(g.tlvs, added.before, added.peer, j)

SliceInv ==
  Sounds(sent, Len(sent)) =>
    /\ out # <<>> => /\ Len(out) >= FrameHeaderSize
                     /\ FromLittleEndian(SubSeq(out, 4, 6)) = Len(out) - FrameHeaderSize
    /\ rpc = "tlvs" => \E c, j, tail : Walked(c, j, tail)
    /\ rpc = "idle" => \/ Holds(g.tlvs, added.before, added.peer, Len(added.peer))
                       \/ LoneEmptyTLV /\ Holds(g.tlvs, added.before, added.peer, 0)

LEMMA HoldsNone ==
  ASSUME NEW S, NEW ts \in Seq(S), NEW peer
  PROVE  Holds(ts, ts, peer, 0)
<1>1. Len(ts) \in Nat
  BY LenProperties
<1> QED
  BY <1>1 DEF Holds

LEMMA HoldsNext ==
  ASSUME NEW S, NEW ts \in Seq(S), NEW before \in Seq(S), NEW peer \in Seq(S),
         NEW j \in Nat, j < Len(peer), Holds(ts, before, peer, j)
  PROVE  Holds(Append(ts, peer[j + 1]), before, peer, j + 1)
<1> DEFINE x == peer[j + 1]
           u == Append(ts, x)
           k == Len(before)
<1>1. k \in Nat /\ Len(ts) \in Nat /\ Len(peer) \in Nat
  BY LenProperties
<1>2. x \in S
  BY <1>1, ElementOfSeq
<1>3. /\ Len(ts) = k + j
      /\ \A i \in 1 .. k : ts[i] = before[i]
      /\ \A i \in 1 .. j : ts[k + i] = peer[i]
  BY DEF Holds
<1> HIDE DEF x
<1>4. /\ Len(u) = Len(ts) + 1
      /\ \A i \in 1 .. Len(ts) : u[i] = ts[i]
      /\ u[Len(ts) + 1] = x
  BY <1>2, AppendProperties
<1> HIDE DEF u, k
<1>5. Len(u) = k + (j + 1)
  BY <1>1, <1>3, <1>4
<1>6. ASSUME NEW i \in 1 .. k PROVE u[i] = before[i]
  <2>1. i \in 1 .. Len(ts)
    BY <1>1, <1>3
  <2> QED
    BY <1>3, <1>4, <2>1
<1>7. ASSUME NEW i \in 1 .. j + 1 PROVE u[k + i] = peer[i]
  <2>1. CASE i = j + 1
    <3>1. k + i = Len(ts) + 1
      BY <1>1, <1>3, <2>1
    <3> QED
      BY <1>4, <2>1, <3>1 DEF x
  <2>2. CASE i # j + 1
    <3>1. i \in 1 .. j /\ k + i \in 1 .. Len(ts)
      BY <1>1, <1>3, <2>2
    <3> QED
      BY <1>3, <1>4, <3>1
  <2> QED
    BY <2>1, <2>2
<1>8. Holds(u, before, peer, j + 1)
  BY <1>5, <1>6, <1>7 DEF Holds, k
<1> QED
  BY <1>8 DEF u, x

LEMMA HoldsPrefix ==
  ASSUME NEW S, NEW ts \in Seq(S), NEW before \in Seq(S), NEW peer \in Seq(S),
         NEW j \in 0 .. Len(peer), Holds(ts, before, peer, j)
  PROVE  /\ IsPrefix(ts, before \o peer)
         /\ j = Len(peer) => ts = before \o peer
<1> DEFINE u == before \o peer
           k == Len(before)
<1>1. /\ u \in Seq(S) /\ Len(u) = k + Len(peer)
      /\ k \in Nat /\ Len(peer) \in Nat /\ Len(u) \in Nat
      /\ \A i \in 1 .. k : u[i] = before[i]
      /\ \A i \in 1 .. Len(peer) : u[k + i] = peer[i]
  BY Joined
<1>2. /\ Len(ts) = k + j
      /\ \A i \in 1 .. k : ts[i] = before[i]
      /\ \A i \in 1 .. j : ts[k + i] = peer[i]
  BY DEF Holds
<1> HIDE DEF u, k
<1>3. ASSUME NEW i \in 1 .. Len(ts) PROVE u[i] = ts[i]
  <2>1. CASE i <= k
    BY <1>1, <1>2, <2>1
  <2>2. CASE i > k
    <3>1. i - k \in 1 .. j /\ i - k \in 1 .. Len(peer) /\ k + (i - k) = i
      BY <1>1, <1>2, <2>2
    <3>2. u[k + (i - k)] = peer[i - k] /\ ts[k + (i - k)] = peer[i - k]
      BY <1>1, <1>2, <3>1
    <3> QED
      BY <3>1, <3>2
  <2> QED
    BY <1>1, <2>1, <2>2
<1>4. Len(ts) <= Len(u)
  BY <1>1, <1>2
<1>5. IsPrefix(ts, u)
  BY <1>1, <1>3, <1>4, PrefixOf
<1>6. ASSUME j = Len(peer) PROVE ts = u
  <2>1. Len(ts) = Len(u)
    BY <1>1, <1>2, <1>6
  <2> QED
    BY <1>1, <1>3, <2>1, SeqEqual
<1> QED
  BY <1>5, <1>6 DEF u

\* Where a TLV of the peer stands, TLV.Decode reads it.
LEMMA NextIs ==
  ASSUME TInv, NEW t \in TLVs, t.len = Len(t.value), t.len <= Limit64K,
         NEW o \in Nat, o = n + lastLen, o + Len(Image(t)) <= Len(b),
         \A i \in 1 .. Len(Image(t)) : b[o + i] = Image(t)[i]
  PROVE  NextTLV = t
<1> DEFINE rest == SubSeq(b, o + 1, Len(b))
           len == t.len
           h == TLVHeader(t)
           val == t.value
           x == Image(t)
           z == Len(b)
<1>1. b \in Seq(Bytes) /\ z \in Nat
  BY ReceiverTypes
<1>2. /\ x \in Seq(Bytes) /\ Len(x) = 5 + len /\ val \in Seq(Bytes) /\ len \in Nat /\ Len(val) = len
      /\ \A i \in 1 .. 5 : x[i] = h[i]
      /\ \A i \in 1 .. len : x[5 + i] = val[i]
  BY ImageBytes DEF TLVHeaderSize
<1>3. o + Len(x) <= z /\ (\A i \in 1 .. Len(x) : b[o + i] = x[i]) /\ len <= Limit64K
  OBVIOUS
<1>4. \A s : (\A i \in 1 .. TLVHeaderSize : s[i] = h[i]) =>
              /\ FromLittleEndian(SubSeq(s, 1, 2)) = t.ext /\ s[3] = t.field
              /\ len <= Limit64K => FromLittleEndian(SubSeq(s, 4, 5)) = len
  BY TLVHeaderBytes
<1>5. NextTLV = [ext |-> FromLittleEndian(SubSeq(rest, 1, 2)), field |-> rest[3],
                 len |-> FromLittleEndian(SubSeq(rest, 4, 5)),
                 value |-> IF TLVHeaderSize + FromLittleEndian(SubSeq(rest, 4, 5)) > Len(rest) THEN <<>>
                           ELSE SubSeq(rest, TLVHeaderSize + 1,
                                       TLVHeaderSize + FromLittleEndian(SubSeq(rest, 4, 5)))]
  BY DEF NextTLV
<1>6. rest \in Seq(Bytes) /\ Len(rest) = z - o /\ \A i \in 1 .. z - o : rest[i] = b[o + i]
  <2>1. o <= z
    BY <1>1, <1>2, <1>3
  <2> QED
    BY <1>1, <2>1, Dropped
<1> HIDE DEF rest, len, h, val, x, z
<1>7. Len(x) <= Len(rest) /\ \A i \in 1 .. Len(x) : rest[i] = x[i]
  <2>1. Len(x) \in Nat /\ Len(x) <= z - o
    BY <1>1, <1>2, <1>3
  <2>2. ASSUME NEW i \in 1 .. Len(x) PROVE rest[i] = x[i]
    <3>1. i \in 1 .. z - o
      BY <1>1, <2>1
    <3> QED
      BY <1>3, <1>6, <3>1
  <2> QED
    BY <1>6, <2>1, <2>2
<1>8. \A i \in 1 .. TLVHeaderSize : rest[i] = h[i]
  <2>1. \A i \in 1 .. 5 : i \in 1 .. Len(x)
    BY <1>2
  <2> QED
    BY <1>2, <1>7, <2>1 DEF TLVHeaderSize
<1>9. /\ FromLittleEndian(SubSeq(rest, 1, 2)) = t.ext /\ rest[3] = t.field
      /\ FromLittleEndian(SubSeq(rest, 4, 5)) = len
  BY <1>3, <1>4, <1>8
<1>10. SubSeq(rest, TLVHeaderSize + 1, TLVHeaderSize + len) = val
  <2> DEFINE l == TLVHeaderSize + 1
             m == TLVHeaderSize + len
             y == SubSeq(rest, l, m)
  <2>1. l \in Int /\ m \in Int /\ l = 6 /\ m = 5 + len
    BY <1>2 DEF TLVHeaderSize
  <2> HIDE DEF l, m
  <2>2. \A i \in l .. m : rest[i] \in Bytes
    <3>1. \A i \in l .. m : i \in 1 .. Len(rest)
      BY <1>1, <1>2, <1>6, <1>7, <2>1, SMTT(30)
    <3> QED
      BY <1>6, <3>1, ElementOfSeq
  <2>3. /\ y \in Seq(Bytes)
        /\ Len(y) = IF l <= m THEN m - l + 1 ELSE 0
        /\ \A i \in 1 .. m - l + 1 : y[i] = rest[l + i - 1]
    BY <2>1, <2>2, SubSeqProperties
  <2> HIDE DEF y
  <2>4. Len(y) = len
    BY <1>2, <2>1, <2>3
  <2>5. ASSUME NEW i \in 1 .. len PROVE y[i] = val[i]
    <3>1. i \in 1 .. m - l + 1 /\ l + i - 1 = 5 + i /\ 5 + i \in 1 .. Len(x)
      BY <1>2, <2>1
    <3>2. y[i] = rest[5 + i]
      BY <2>3, <3>1
    <3>3. rest[5 + i] = x[5 + i]
      BY <1>7, <3>1
    <3> QED
      BY <1>2, <3>2, <3>3
  <2>6. y = val
    BY <1>2, <2>3, <2>4, <2>5, SeqEqual
  <2> QED
    BY <2>6 DEF y, l, m
<1>11. ~ (TLVHeaderSize + len > Len(rest))
  BY <1>1, <1>2, <1>6, <1>7, SMTT(30) DEF TLVHeaderSize
<1>12. NextTLV = [ext |-> t.ext, field |-> t.field, len |-> len, value |-> val]
  BY <1>5, <1>9, <1>10, <1>11
<1>13. t = [ext |-> t.ext, field |-> t.field, len |-> t.len, value |-> t.value]
  BY DEF TLVs
<1> QED
  BY <1>12, <1>13 DEF len, val

\* What ends a slice behind its TLVs is not taken for one.
LEMMA NextIsNone ==
  ASSUME TInv, rpc = "tlvs", NEW tail \in Trailers, NEW o \in Nat, o = n + lastLen,
         Len(b) = o + Len(tail), \A i \in 1 .. Len(tail) : b[o + i] = tail[i],
         Len(tail) >= TLVHeaderSize
  PROVE  Len(NextTLV.value) # NextTLV.len
<1> DEFINE rest == SubSeq(b, o + 1, Len(b))
           len == FromLittleEndian(SubSeq(rest, 4, 5))
<1>1. b \in Seq(Bytes) /\ Len(b) \in Nat
  BY ReceiverTypes
<1>2. /\ tail \in Seq(Bytes) /\ Len(tail) \in Nat
      /\ Len(tail) < TLVHeaderSize + FromLittleEndian(SubSeq(tail, 4, 5))
  <2>1. /\ tail \in Seq(Bytes)
        /\ Len(tail) < TLVHeaderSize + (IF Len(tail) < TLVHeaderSize THEN 0
                                        ELSE FromLittleEndian(SubSeq(tail, 4, 5)))
    BY TLVAssumption
  <2>2. Len(tail) \in Nat
    BY <2>1, LenProperties
  <2>3. ~ (Len(tail) < TLVHeaderSize)
    BY <2>2 DEF TLVHeaderSize
  <2> QED
    BY <2>1, <2>2, <2>3
<1>3. /\ rest \in Seq(Bytes) /\ Len(b) \in Nat
      /\ Len(rest) = Len(b) - o
      /\ \A i \in 1 .. Len(b) - o : rest[i] = b[o + i]
  <2>1. o <= Len(b)
    BY <1>1, <1>2
  <2>2. \A w \in Seq(Bytes), d \in Nat : d <= Len(w) =>
          /\ SubSeq(w, d + 1, Len(w)) \in Seq(Bytes) /\ Len(w) \in Nat
          /\ Len(SubSeq(w, d + 1, Len(w))) = Len(w) - d
          /\ \A i \in 1 .. Len(w) - d : SubSeq(w, d + 1, Len(w))[i] = w[d + i]
    BY Dropped
  <2> QED
    BY <1>1, <2>1, <2>2, Zenon
<1>4. /\ NextTLV \in TLVs /\ NextTLV.len = len /\ len \in 0 .. Limit64K
      /\ Len(NextTLV.value) = len <=> TLVHeaderSize + len <= Len(b) - o \/ len = 0
  <2>1. Len(b) - (n + lastLen) >= TLVHeaderSize
    BY <1>1, <1>2 DEF TLVHeaderSize
  <2> QED
    BY <2>1, NextTLVType
<1> HIDE DEF rest
<1>5. rest = tail
  <2>1. Len(b) - o = Len(tail)
    BY <1>1, <1>2
  <2>2. Len(rest) = Len(tail)
    BY <1>3, <2>1
  <2>3. ASSUME NEW i \in 1 .. Len(tail) PROVE rest[i] = tail[i]
    BY <1>3, <2>1
  <2>4. rest \in Seq(Bytes) /\ tail \in Seq(Bytes)
    BY <1>2, <1>3
  <2> QED
    BY <2>2, <2>3, <2>4, SeqEqual
<1>6. len \in Nat /\ Len(tail) < 5 + len /\ Len(tail) >= 5
  BY <1>2, <1>4, <1>5, Limits DEF TLVHeaderSize
<1> HIDE DEF len
<1>7. ~ (5 + len <= Len(b) - o) /\ len # 0
  BY <1>1, <1>2, <1>6
<1> QED
  BY <1>4, <1>7 DEF TLVHeaderSize

\* The length in the header of a frame at the beginning of w is that of what
\* follows in the frame.
LEMMA FrameHead ==
  ASSUME NEW w, NEW m \in Messages, NEW e, FrameAt(w, 0, m, e)
  PROVE  e \in Nat /\ e >= 6 /\ FromLittleEndian(SubSeq(w, 4, 6)) = e - 6
<1> DEFINE x == m.ext
           y == m.type
           len == e - 0 - 6
           l == Len(m.params)
<1>1. x \in 0 .. Limit64K /\ y \in Bytes /\ l \in Nat
  BY MessageType
<1>2. /\ e \in Nat /\ 0 + 6 + l <= e /\ len <= MaxU24
      /\ \A i \in 1 .. 6 : w[0 + i] = EncodeHeader(x, y, len)[i]
  BY DEF FrameAt, FrameHeaderSize
<1> HIDE DEF x, y, l
<1>3. len \in Nat /\ len = e - 6 /\ e >= 6
  BY <1>1, <1>2
<1> HIDE DEF len
<1>4. \A i \in 1 .. FrameHeaderSize : w[i] = EncodeHeader(x, y, len)[i]
  <2>1. \A i \in 1 .. 6 : 0 + i = i
    OBVIOUS
  <2> QED
    BY <1>2, <2>1 DEF FrameHeaderSize
<1>5. FromLittleEndian(SubSeq(w, 4, 6)) = len
  <2>1. \A ext \in 0 .. Limit64K, type \in Bytes, z \in Nat :
          \A t : (\A i \in 1 .. FrameHeaderSize : t[i] = EncodeHeader(ext, type, z)[i]) =>
            (z <= MaxU24 => FromLittleEndian(SubSeq(t, 4, 6)) = z)
    BY HeaderBytes
  <2> QED
    BY <1>1, <1>2, <1>3, <1>4, <2>1
<1> QED
  BY <1>2, <1>3, <1>5

LEMMA SliceUnchanged ==
  ASSUME SliceInv, UNCHANGED <<sent, out, rpc, g, b, n, lastLen, added>>
  PROVE  SliceInv'
<1>1. ASSUME NEW c, NEW j, NEW tail, Walked(c, j, tail) PROVE Walked(c, j, tail)'
  BY <1>1 DEF Walked
<1> QED
  BY <1>1 DEF SliceInv, LoneEmptyTLV

LEMMA WrittenSlice ==
  ASSUME TInv, SliceInv, NEW e, Sending(e), Written(e)
  PROVE  SliceInv'
<1> DEFINE x == [msg |-> msg, wraps |-> e.frame.len > MaxU24]
           y == e.bytes
<1>1. CASE e.err # "none"
  <2>1. UNCHANGED <<sent, out, rpc, g, b, n, lastLen, added>>
    BY <1>1 DEF Written, dvars
  <2> QED
    BY <2>1, SliceUnchanged
<1>2. CASE e.err = "none"
  <2>1. x \in Entries /\ x.msg = msg /\ (~ x.wraps => e.frame.len <= MaxU24)
    <3> DEFINE l == e.frame.len
               u == MaxU24
    <3>1. l \in Nat /\ u \in Nat /\ msg \in Messages
      BY Limits DEF Sending, Grown, InStep, Frames, TInv, SenderInv
    <3> HIDE DEF l, u
    <3>2. [msg |-> msg, wraps |-> l > u] \in Entries /\ (~ (l > u) => l <= u)
      BY <3>1 DEF Entries
    <3> QED
      BY <3>2 DEF l, u
  <2>2. sent' = Append(sent, x) /\ UNCHANGED <<rpc, g, b, n, lastLen, added>>
    BY <1>2 DEF Written, dvars
  <2>3. out' = out \/ out' = y
    BY <1>2 DEF Written
  <2> HIDE DEF x
  <2>4. Sounds(sent', Len(sent')) => Sounds(sent, Len(sent)) /\ ~ x.wraps
    <3> DEFINE l == Len(sent)
    <3>1. sent \in Seq(Entries)
      BY DEF TInv, SenderInv
    <3>2. /\ Len(sent') = l + 1 /\ l \in Nat
          /\ \A k \in Int : k > l /\ Sounds(sent', k) => Sounds(sent, l) /\ ~ x.wraps
      BY <2>1, <2>2, <3>1, SentGrows
    <3> HIDE DEF l
    <3>3. l + 1 \in Int /\ l + 1 > l
      BY <3>2
    <3> QED
      BY <3>2, <3>3 DEF l
  <2>5. ~ x.wraps => Len(y) >= 6 /\ FromLittleEndian(SubSeq(y, 4, 6)) = Len(y) - 6
    <3> SUFFICES ASSUME ~ x.wraps
                 PROVE  Len(y) >= 6 /\ FromLittleEndian(SubSeq(y, 4, 6)) = Len(y) - 6
      OBVIOUS
    <3>1. Carries(e.frame, msg) /\ msg \in Messages
      BY CarriesOn DEF TInv, SenderInv, Sending
    <3>2. <<>> \in Seq(Bytes) /\ Len(<<>>) = 0
      OBVIOUS
    <3>3. FrameAt(<<>> \o y, Len(<<>>), msg, Len(<<>> \o y))
      BY <1>2, <2>1, <3>1, <3>2, FrameSent
    <3>4. y \in Seq(Bytes)
      BY <1>2, BytesSent
    <3> HIDE DEF y
    <3>5. <<>> \o y = y
      BY <3>4, ConcatEmptySeq
    <3>6. FrameAt(y, 0, msg, Len(y))
      BY <3>2, <3>3, <3>5
    <3> QED
      BY <3>1, <3>6, FrameHead
  <2> HIDE DEF y
  <2> SUFFICES ASSUME Sounds(sent', Len(sent'))
               PROVE  /\ out' # <<>> => /\ Len(out') >= FrameHeaderSize
                                        /\ FromLittleEndian(SubSeq(out', 4, 6)) = Len(out') - FrameHeaderSize
                      /\ rpc = "tlvs" => \E c, j, tail : Walked(c, j, tail)
                      /\ rpc = "idle" => \/ Holds(g.tlvs, added.before, added.peer, Len(added.peer))
                                         \/ LoneEmptyTLV /\ Holds(g.tlvs, added.before, added.peer, 0)
    <3>1. ASSUME NEW c, NEW j, NEW tail, Walked(c, j, tail) PROVE Walked(c, j, tail)'
      BY <2>2, <3>1 DEF Walked
    <3> QED
      BY <2>2, <3>1 DEF SliceInv, LoneEmptyTLV
  <2> QED
    BY <2>3, <2>4, <2>5 DEF SliceInv, FrameHeaderSize
<1> QED
  BY <1>1, <1>2

LEMMA DecodeCutInv ==
  ASSUME TInv, SliceInv, DecodeCut
  PROVE  SliceInv'
<1>1. PICK k \in 0 .. Len(out) - 1, spare \in {<<>>, [i \in 1 .. FrameHeaderSize |-> 0]} :
           /\ SubSeq(out, 1, k) \in Seq(Bytes) /\ Len(SubSeq(out, 1, k)) = k
           /\ \A i \in 1 .. k : SubSeq(out, 1, k)[i] = out[i]
           /\ spare \in Seq(Bytes)
           /\ DecodeSlice(SubSeq(out, 1, k), spare, <<>>)
  BY DecodeCutSlice
<1> DEFINE s == SubSeq(out, 1, k)
           whole == s \o spare
           len == FromLittleEndian(SubSeq(whole, 4, 6))
           end == FrameHeaderSize + len
           fits == Len(whole) >= FrameHeaderSize /\ Len(whole) >= end
<1>2. out # <<>> /\ out \in Seq(Bytes) /\ Len(out) \in Nat /\ k \in Nat /\ k < Len(out)
  BY ReceiverTypes DEF DecodeCut
<1>3. /\ s \in Seq(Bytes) /\ Len(s) = k /\ \A i \in 1 .. k : s[i] = out[i]
      /\ DecodeSlice(s, spare, <<>>)
  BY <1>1
<1> HIDE DEF s
<1>4. /\ fits => /\ g'.tlvs = g.tlvs /\ end \in Nat
                 /\ rpc' = IF Len(s) > end + TLVHeaderSize THEN "tlvs" ELSE "idle"
      /\ ~ fits => rpc' = "panicked"
  <2>1. <<>> \in Seq(TLVs)
    OBVIOUS
  <2> QED
    BY <1>1, <1>3, <2>1, SliceDecoded
<1>5. /\ out' = <<>> /\ added' = [before |-> g.tlvs, peer |-> <<>>] /\ sent' = sent
  BY <1>3 DEF DecodeSlice
<1> SUFFICES ASSUME Sounds(sent', Len(sent'))
             PROVE  /\ out' = <<>> /\ rpc' # "tlvs"
                    /\ rpc' = "idle" => Holds(g'.tlvs, added'.before, added'.peer, Len(added'.peer))
  BY DEF SliceInv, Sounds, Holds
<1>6. Len(out) >= 6 /\ FromLittleEndian(SubSeq(out, 4, 6)) = Len(out) - 6
  BY <1>2, <1>5 DEF SliceInv, FrameHeaderSize
<1>7. /\ whole \in Seq(Bytes) /\ Len(whole) = Len(s) + Len(spare)
      /\ Len(s) \in Nat /\ Len(spare) \in Nat /\ Len(whole) \in Nat
      /\ \A i \in 1 .. Len(s) : whole[i] = s[i]
      /\ \A i \in 1 .. Len(spare) : whole[Len(s) + i] = spare[i]
  <2>1. s \in Seq(Bytes)
    BY <1>3
  <2>2. spare \in Seq(Bytes)
    BY <1>1
  <2> QED
    BY <2>1, <2>2, Joined
<1> HIDE DEF whole
<1>8. fits => ~ (Len(s) > end + TLVHeaderSize)
  <2> SUFFICES ASSUME fits, Len(s) > end + TLVHeaderSize PROVE FALSE
    OBVIOUS
  <2>1. end \in Nat /\ len \in Nat /\ end = 6 + len
    <3>1. \A i \in 1 .. 6 : whole[i] \in Bytes
      BY <1>7, ElementOfSeq DEF FrameHeaderSize
    <3>2. FromLittleEndian(SubSeq(whole, 4, 6)) \in Nat
      <4>1. 6 \in {5, 6}
        OBVIOUS
      <4> QED
        BY <3>1, <4>1, HeaderRange
    <3> QED
      BY <3>2 DEF FrameHeaderSize
  <2> HIDE DEF len, end
  <2>2. k >= 6
    BY <1>2, <1>3, <2>1 DEF TLVHeaderSize
  <2>3. \A i \in 1 .. 6 : whole[i] = out[i]
    BY <1>2, <1>3, <1>7, <2>2
  <2>4. SubSeq(whole, 4, 6) = SubSeq(out, 4, 6)
    <3> DEFINE t == SubSeq(whole, 4, 6)
               u == SubSeq(out, 4, 6)
    <3>1. \A i \in 4 .. 6 : whole[i] \in Bytes /\ out[i] \in Bytes /\ whole[i] = out[i]
      <4>1. \A i \in 4 .. 6 : i \in 1 .. Len(out) /\ i \in 1 .. 6
        BY <1>2, <1>6
      <4>2. \A i \in 4 .. 6 : out[i] \in Bytes
        BY <1>2, <4>1, ElementOfSeq
      <4> QED
        BY <2>3, <4>1, <4>2
    <3>2. t \in Seq(Bytes) /\ Len(t) = 3 /\ \A i \in 1 .. 3 : t[i] = whole[4 + i - 1]
      BY <3>1, SubSeqProperties
    <3>3. u \in Seq(Bytes) /\ Len(u) = 3 /\ \A i \in 1 .. 3 : u[i] = out[4 + i - 1]
      BY <3>1, SubSeqProperties
    <3> HIDE DEF t, u
    <3>4. \A i \in 1 .. 3 : t[i] = u[i]
      BY <3>1, <3>2, <3>3
    <3>5. t = u
      BY <3>2, <3>3, <3>4, SeqEqual
    <3> QED
      BY <3>5 DEF t, u
  <2>5. len = Len(out) - 6
    BY <1>6, <2>4 DEF len
  <2> QED
    BY <1>2, <1>3, <1>6, <2>1, <2>5 DEF TLVHeaderSize
<1>9. rpc' # "tlvs" /\ (rpc' = "idle" => fits)
  BY <1>4, <1>8
<1>10. ASSUME fits PROVE Holds(g'.tlvs, added'.before, added'.peer, Len(added'.peer))
  <2>1. g'.tlvs = g.tlvs /\ added'.before = g.tlvs /\ added'.peer = <<>> /\ Len(added'.peer) = 0
    BY <1>4, <1>5, <1>10
  <2>2. g.tlvs \in Seq(TLVs)
    BY ReceiverTypes
  <2>3. Holds(g.tlvs, g.tlvs, <<>>, 0)
    BY <2>2, HoldsNone
  <2> QED
    BY <2>1, <2>3
<1> QED
  BY <1>5, <1>9, <1>10

\* The peer's TLVs take five bytes each, and their values.
LEMMA PeerCut ==
  ASSUME NEW tlvs \in Seq(TLVs), NEW c, Cuts(PeerTLVs(tlvs), Images(tlvs), c)
  PROVE  /\ c \in [0 .. Len(tlvs) -> Nat] /\ c[0] = 0
         /\ Len(PeerTLVs(tlvs)) \in Nat /\ c[Len(tlvs)] = Len(PeerTLVs(tlvs))
         /\ \A j \in 1 .. Len(tlvs) :
              /\ Len(Image(tlvs[j])) = 5 + Len(tlvs[j].value) /\ Len(tlvs[j].value) \in Nat
              /\ c[j - 1] \in Nat /\ c[j] \in Nat
              /\ c[j] = c[j - 1] + Len(Image(tlvs[j])) /\ c[j] <= Len(PeerTLVs(tlvs))
              /\ \A i \in 1 .. Len(Image(tlvs[j])) : PeerTLVs(tlvs)[c[j - 1] + i] = Image(tlvs[j])[i]
<1> DEFINE p == PeerTLVs(tlvs)
           ss == Images(tlvs)
           l == Len(tlvs)
<1>1. p \in Seq(Bytes) /\ Len(ss) = l /\ \A i \in 1 .. l : ss[i] = Image(tlvs[i])
  BY PeerBytes
<1>2. Len(p) \in Nat /\ l \in Nat
  BY <1>1, LenProperties
<1>3. /\ c \in [0 .. Len(ss) -> Nat]
      /\ c[0] = 0 /\ c[Len(ss)] = Len(p)
      /\ \A j \in 1 .. Len(ss) :
           /\ c[j] = c[j - 1] + Len(ss[j]) /\ c[j] <= Len(p)
           /\ \A i \in 1 .. Len(ss[j]) : p[c[j - 1] + i] = ss[j][i]
  BY DEF Cuts
<1>4. \A i \in 1 .. l : Len(Image(tlvs[i])) = 5 + Len(tlvs[i].value) /\ Len(tlvs[i].value) \in Nat
  BY ImageBytes, ElementOfSeq DEF TLVHeaderSize
<1> HIDE DEF p, ss, l
<1>5. ASSUME NEW j \in 1 .. l
      PROVE  /\ c[j - 1] \in Nat /\ c[j] \in Nat
             /\ c[j] = c[j - 1] + Len(Image(tlvs[j])) /\ c[j] <= Len(p)
             /\ \A i \in 1 .. Len(Image(tlvs[j])) : p[c[j - 1] + i] = Image(tlvs[j])[i]
  <2>1. j \in 0 .. l /\ j - 1 \in 0 .. l
    BY <1>2
  <2>2. c[j - 1] \in Nat /\ c[j] \in Nat
    BY <1>1, <1>3, <2>1
  <2>3. ss[j] = Image(tlvs[j]) /\ j \in 1 .. Len(ss)
    BY <1>1
  <2> QED
    BY <1>3, <2>2, <2>3, Zenon
<1> QED
  BY <1>1, <1>2, <1>3, <1>4, <1>5 DEF p, l

LEMMA DecodeWholeInv ==
  ASSUME TInv, SliceInv, DecodeWhole
  PROVE  SliceInv'
<1>1. PICK tlvs \in TLVLists, tail \in Trailers :
           /\ ~ TLVTooLong(tlvs) /\ tlvs \in Seq(TLVs) /\ tail \in Seq(Bytes)
           /\ out \o PeerTLVs(tlvs) \o tail \in Seq(Bytes)
           /\ DecodeSlice(out \o PeerTLVs(tlvs) \o tail, <<>>, tlvs)
  BY DecodeWholeSlice
<1> DEFINE p == PeerTLVs(tlvs)
           s == out \o p \o tail
           z == Len(out)
<1>2. out # <<>> /\ out \in Seq(Bytes) /\ z \in Nat
  BY ReceiverTypes DEF DecodeWhole
<1>3. p \in Seq(Bytes) /\ Len(p) \in Nat /\ tail \in Seq(Bytes) /\ Len(tail) \in Nat
  <2>1. p \in Seq(Bytes) /\ tail \in Seq(Bytes)
    BY <1>1, PeerBytes
  <2> QED
    BY <2>1, LenProperties
<1>4. s \in Seq(Bytes) /\ DecodeSlice(s, <<>>, tlvs)
  BY <1>1
<1> HIDE DEF p
<1>5. /\ s \in Seq(Bytes)
      /\ Len(s) = Len(out) + Len(p) + Len(tail)
      /\ \A i \in 1 .. Len(out) : s[i] = out[i]
      /\ \A i \in 1 .. Len(p) : s[Len(out) + i] = p[i]
      /\ \A i \in 1 .. Len(tail) : s[Len(out) + Len(p) + i] = tail[i]
  <2>1. out \in Seq(Bytes)
    BY <1>2
  <2>2. p \in Seq(Bytes)
    BY <1>3
  <2>3. tail \in Seq(Bytes)
    BY <1>3
  <2> QED
    BY <2>1, <2>2, <2>3, ThreeIntegers
<1> HIDE DEF s
<1>6. s \o <<>> = s
  BY <1>5, ConcatEmptySeq
<1> DEFINE len == FromLittleEndian(SubSeq(s, 4, 6))
           end == FrameHeaderSize + len
           fits == Len(s) >= FrameHeaderSize /\ Len(s) >= end
<1>7. /\ fits => /\ g'.tlvs = g.tlvs /\ n' = end
                 /\ rpc' = IF Len(s) > end + TLVHeaderSize THEN "tlvs" ELSE "idle"
      /\ ~ fits => rpc' = "panicked"
  <2>1. <<>> \in Seq(Bytes)
    OBVIOUS
  <2>2. LET w == s \o <<>>
            ll == FromLittleEndian(SubSeq(w, 4, 6))
            ee == FrameHeaderSize + ll
            ff == Len(w) >= FrameHeaderSize /\ Len(w) >= ee
        IN  /\ g' \in Frames
            /\ ff => /\ g'.len = Len(g'.payload) /\ g'.tlvs = g.tlvs
                     /\ n' = ee /\ ee \in Nat
                     /\ rpc' = IF Len(s) > ee + TLVHeaderSize THEN "tlvs" ELSE "idle"
            /\ ~ ff => rpc' = "panicked" /\ n' = 0
    BY <1>1, <1>4, <2>1, SliceDecoded
  <2> QED
    BY <1>6, <2>2
<1>8. /\ out' = <<>> /\ added' = [before |-> g.tlvs, peer |-> tlvs] /\ sent' = sent
      /\ b' = s /\ lastLen' = 0
  BY <1>4 DEF DecodeSlice
<1>9. added'.before = g.tlvs /\ added'.peer = tlvs
  BY <1>8
<1> SUFFICES ASSUME Sounds(sent', Len(sent'))
             PROVE  /\ out' = <<>>
                    /\ rpc' = "tlvs" => \E c, j, tl : Walked(c, j, tl)'
                    /\ rpc' = "idle" => \/ Holds(g'.tlvs, added'.before, added'.peer, Len(added'.peer))
                                        \/ LoneEmptyTLV' /\ Holds(g'.tlvs, added'.before, added'.peer, 0)
  BY DEF SliceInv
<1>10. z >= 6 /\ FromLittleEndian(SubSeq(out, 4, 6)) = z - 6
  BY <1>2, <1>8 DEF SliceInv, FrameHeaderSize
<1>11. len = z - 6
  <2> DEFINE t == SubSeq(s, 4, 6)
             u == SubSeq(out, 4, 6)
  <2>1. \A i \in 4 .. 6 : s[i] \in Bytes /\ out[i] \in Bytes /\ s[i] = out[i]
    <3>1. \A i \in 4 .. 6 : i \in 1 .. Len(out)
      BY <1>2, <1>10
    <3>2. \A i \in 4 .. 6 : out[i] \in Bytes
      BY <1>2, <3>1, ElementOfSeq
    <3> QED
      BY <1>5, <3>1, <3>2
  <2>2. t \in Seq(Bytes) /\ Len(t) = 3 /\ \A i \in 1 .. 3 : t[i] = s[4 + i - 1]
    BY <2>1, SubSeqProperties
  <2>3. u \in Seq(Bytes) /\ Len(u) = 3 /\ \A i \in 1 .. 3 : u[i] = out[4 + i - 1]
    BY <2>1, SubSeqProperties
  <2> HIDE DEF t, u
  <2>4. \A i \in 1 .. 3 : t[i] = u[i]
    BY <2>1, <2>2, <2>3
  <2>5. t = u
    BY <2>2, <2>3, <2>4, SeqEqual
  <2> QED
    BY <1>10, <2>5 DEF t, u
<1> HIDE DEF len, z
<1>12. end = z /\ Len(s) = z + Len(p) + Len(tail) /\ Len(s) \in Nat
  BY <1>2, <1>3, <1>5, <1>10, <1>11 DEF FrameHeaderSize, z
<1> HIDE DEF end
<1>13. fits
  BY <1>2, <1>3, <1>10, <1>12 DEF FrameHeaderSize
<1>14. /\ g'.tlvs = g.tlvs /\ n' = z
       /\ rpc' = IF Len(s) > z + TLVHeaderSize THEN "tlvs" ELSE "idle"
  BY <1>7, <1>12, <1>13
<1>15. Holds(g'.tlvs, added'.before, added'.peer, 0)
  <2>1. g.tlvs \in Seq(TLVs)
    BY ReceiverTypes
  <2>2. Holds(g.tlvs, g.tlvs, tlvs, 0)
    BY <2>1, HoldsNone
  <2> QED
    BY <1>9, <1>14, <2>2
<1>16. PICK c : Cuts(p, Images(tlvs), c)
  BY <1>1, PeerBytes DEF p
<1>17. /\ c[0] = 0 /\ c[Len(tlvs)] = Len(p) /\ Len(tlvs) \in Nat
       /\ \A j \in 1 .. Len(tlvs) :
            /\ Len(Image(tlvs[j])) = 5 + Len(tlvs[j].value) /\ Len(tlvs[j].value) \in Nat
            /\ c[j - 1] \in Nat /\ c[j] \in Nat
            /\ c[j] = c[j - 1] + Len(Image(tlvs[j])) /\ c[j] <= Len(p)
  <2>1. tlvs \in Seq(TLVs)
    BY <1>1
  <2>2. Len(tlvs) \in Nat
    BY <2>1, LenProperties
  <2> QED
    BY <1>16, <2>1, <2>2, PeerCut DEF p
<1>18. ASSUME rpc' = "tlvs" PROVE Walked(c, 0, tail)'
  <2>1. 0 \in 0 .. Len(tlvs) /\ lastLen' = c[0]
    BY <1>8, <1>17
  <2>2. ASSUME NEW i \in 1 .. Len(tlvs) PROVE tlvs[i].len = Len(tlvs[i].value) /\ tlvs[i].len <= Limit64K
    <3>1. DOMAIN tlvs = 1 .. Len(tlvs)
      BY <1>1, LenProperties
    <3>2. tlvs[i].len = Len(tlvs[i].value) /\ ~ (Len(tlvs[i].value) > Limit64K)
      BY <1>1, <3>1, TLVAssumption DEF TLVTooLong
    <3>3. Len(tlvs[i].value) \in Nat /\ Limit64K \in Nat
      BY <1>17, Limits
    <3> QED
      BY <3>2, <3>3
  <2>3. Behind(s, z, p, tail)
    BY <1>5, <1>12 DEF Behind, z
  <2>4. Behind(b', n', PeerTLVs(added'.peer), tail)
    BY <1>8, <1>9, <1>14, <2>3 DEF p
  <2>5. Cuts(PeerTLVs(added'.peer), Images(added'.peer), c)
    BY <1>9, <1>16 DEF p
  <2> QED
    BY <1>1, <1>9, <1>15, <2>1, <2>2, <2>4, <2>5 DEF Walked
<1>19. ASSUME rpc' = "idle", Len(tlvs) # 0 PROVE LoneEmptyTLV'
  <2>1. ~ (Len(s) > z + 5)
    BY <1>14, <1>19 DEF TLVHeaderSize
  <2>2. Len(p) >= 5
    <3>1. 1 \in 1 .. Len(tlvs)
      BY <1>17, <1>19
    <3>2. c[1] = c[1 - 1] + Len(Image(tlvs[1])) /\ c[1] <= Len(p) /\ Len(Image(tlvs[1])) = 5 + Len(tlvs[1].value)
          /\ Len(tlvs[1].value) \in Nat /\ c[1] \in Nat
      BY <1>17, <3>1
    <3>3. c[1 - 1] = 0
      BY <1>17
    <3> DEFINE x == Len(tlvs[1].value)
               y == c[1]
    <3>4. y = 0 + (5 + x) /\ y <= Len(p) /\ x \in Nat
      BY <3>2, <3>3
    <3> HIDE DEF x, y
    <3> QED
      BY <1>3, <3>4
  <2>3. Len(s) = z + 5
    BY <1>2, <1>3, <1>12, <2>1, <2>2 DEF z
  <2>4. Len(tlvs) = 1
    <3> SUFFICES ASSUME Len(tlvs) # 1 PROVE FALSE
      OBVIOUS
    <3>1. 1 \in 1 .. Len(tlvs) /\ 2 \in 1 .. Len(tlvs)
      <4> DEFINE k == Len(tlvs)
      <4>1. k \in Nat /\ k # 0 /\ k # 1
        BY <1>17, <1>19
      <4> HIDE DEF k
      <4>2. 1 \in 1 .. k /\ 2 \in 1 .. k
        BY <4>1
      <4> QED
        BY <4>2 DEF k
    <3>2. /\ c[1] = c[1 - 1] + Len(Image(tlvs[1])) /\ Len(Image(tlvs[1])) = 5 + Len(tlvs[1].value)
          /\ c[2] = c[2 - 1] + Len(Image(tlvs[2])) /\ Len(Image(tlvs[2])) = 5 + Len(tlvs[2].value)
          /\ c[2] <= Len(p) /\ Len(tlvs[1].value) \in Nat /\ Len(tlvs[2].value) \in Nat
          /\ c[1] \in Nat /\ c[2] \in Nat
      BY <1>17, <3>1
    <3>3. c[1 - 1] = 0 /\ c[2 - 1] = c[1]
      BY <1>17
    <3> DEFINE x1 == Len(tlvs[1].value)
               x2 == Len(tlvs[2].value)
               y1 == c[1]
               y2 == c[2]
    <3>4. y1 = 0 + (5 + x1) /\ y2 = y1 + (5 + x2) /\ y2 <= Len(p) /\ x1 \in Nat /\ x2 \in Nat
      BY <3>2, <3>3
    <3> HIDE DEF x1, x2, y1, y2
    <3>5. Len(p) >= 10
      BY <1>3, <3>4
    <3> QED
      BY <1>2, <1>3, <1>12, <2>3, <3>5 DEF z
  <2> QED
    BY <1>8, <1>9, <1>14, <2>3, <2>4 DEF LoneEmptyTLV, TLVHeaderSize
<1>20. ASSUME Len(tlvs) = 0 PROVE Holds(g'.tlvs, added'.before, added'.peer, Len(added'.peer))
  BY <1>9, <1>15, <1>20
<1> QED
  BY <1>8, <1>15, <1>18, <1>19, <1>20

\* Where the walk stands: before a TLV of the peer that is all there, or
\* before the trailer.
LEMMA WalkStands ==
  ASSUME TInv, NEW c, NEW j, NEW tail, Walked(c, j, tail)
  PROVE  LET o == n + lastLen
             peer == added.peer
         IN  /\ o \in Nat /\ j \in Nat /\ j <= Len(peer) /\ Len(peer) \in Nat /\ peer \in Seq(TLVs)
             /\ j < Len(peer) =>
                  LET t == peer[j + 1]
                  IN  /\ t \in TLVs /\ t.len = Len(t.value) /\ t.len <= Limit64K /\ t.len \in Nat
                      /\ Len(Image(t)) = 5 + t.len
                      /\ o + Len(Image(t)) <= Len(b) /\ c[j + 1] = lastLen + Len(Image(t))
                      /\ \A i \in 1 .. Len(Image(t)) : b[o + i] = Image(t)[i]
             /\ j = Len(peer) =>
                  /\ Len(b) = o + Len(tail) /\ \A i \in 1 .. Len(tail) : b[o + i] = tail[i]
<1> DEFINE o == n + lastLen
           peer == added.peer
           p == PeerTLVs(peer)
           l == Len(peer)
           q == Len(p)
<1>1. n \in Nat /\ lastLen \in Nat /\ o \in Nat /\ Len(b) \in Nat
  BY ReceiverTypes
<1>2. peer \in Seq(TLVs) /\ l \in Nat
  <2>1. peer \in Seq(TLVs)
    BY DEF TInv, ReceiverInv
  <2> QED
    BY <2>1, LenProperties
<1>3. /\ j \in 0 .. l /\ tail \in Trailers /\ lastLen = c[j]
      /\ \A i \in 1 .. l : peer[i].len = Len(peer[i].value) /\ peer[i].len <= Limit64K
      /\ Cuts(p, Images(peer), c)
  BY DEF Walked
<1>4. /\ Len(b) = n + q + Len(tail)
      /\ \A i \in 1 .. q : b[n + i] = p[i]
      /\ \A i \in 1 .. Len(tail) : b[n + q + i] = tail[i]
  BY DEF Walked, Behind
<1>5. Len(tail) \in Nat
  BY <1>3, TLVAssumption, LenProperties
<1> HIDE DEF peer
<1>6. /\ q \in Nat /\ c[l] = q
      /\ \A k \in 1 .. l :
            /\ Len(Image(peer[k])) = 5 + Len(peer[k].value) /\ Len(peer[k].value) \in Nat
            /\ c[k - 1] \in Nat /\ c[k] \in Nat
            /\ c[k] = c[k - 1] + Len(Image(peer[k])) /\ c[k] <= q
            /\ \A i \in 1 .. Len(Image(peer[k])) : p[c[k - 1] + i] = Image(peer[k])[i]
  BY <1>2, <1>3, PeerCut
<1>7. \A k \in 1 .. l : peer[k] \in TLVs
  BY <1>2, ElementOfSeq
<1> HIDE DEF p, l, q, o
<1>8. ASSUME j < l
      PROVE  LET t == peer[j + 1]
             IN  /\ t \in TLVs /\ t.len = Len(t.value) /\ t.len <= Limit64K /\ t.len \in Nat
                 /\ Len(Image(t)) = 5 + t.len
                 /\ o + Len(Image(t)) <= Len(b) /\ c[j + 1] = lastLen + Len(Image(t))
                 /\ \A i \in 1 .. Len(Image(t)) : b[o + i] = Image(t)[i]
  <2> DEFINE k == j + 1
             t == peer[k]
             x == Image(t)
             z == Len(x)
  <2>1. k \in 1 .. l /\ k - 1 = j /\ j \in Nat
    BY <1>2, <1>3, <1>8
  <2>2. /\ z = 5 + Len(t.value) /\ Len(t.value) \in Nat
        /\ c[k - 1] \in Nat /\ c[k] \in Nat
        /\ c[k] = c[k - 1] + z /\ c[k] <= q
        /\ \A i \in 1 .. z : p[c[k - 1] + i] = x[i]
    BY <1>6, <2>1
  <2>3. t \in TLVs /\ t.len = Len(t.value) /\ t.len <= Limit64K
    BY <1>3, <1>7, <2>1
  <2>4. c[k] = lastLen + z /\ lastLen + z <= q /\ z \in Nat
    BY <1>3, <2>1, <2>2
  <2> HIDE DEF k, t, x, z
  <2>5. o + z <= Len(b)
    BY <1>1, <1>4, <1>5, <1>6, <2>4 DEF o
  <2>6. ASSUME NEW i \in 1 .. z PROVE b[o + i] = x[i]
    <3>1. lastLen + i \in 1 .. q /\ n + (lastLen + i) = o + i
      BY <1>1, <1>6, <2>4 DEF o
    <3>2. b[n + (lastLen + i)] = p[lastLen + i]
      BY <1>4, <3>1
    <3>3. p[lastLen + i] = x[i]
      BY <1>3, <2>1, <2>2
    <3> QED
      BY <3>1, <3>2, <3>3
  <2> QED
    BY <2>2, <2>3, <2>4, <2>5, <2>6 DEF k, t, x, z
<1>9. ASSUME j = l
      PROVE  Len(b) = o + Len(tail) /\ \A i \in 1 .. Len(tail) : b[o + i] = tail[i]
  <2>1. o = n + q
    BY <1>3, <1>6, <1>9 DEF o
  <2> QED
    BY <1>4, <2>1
<1>10. j \in Nat /\ j <= l
  BY <1>2, <1>3
<1> QED
  BY <1>1, <1>2, <1>8, <1>9, <1>10 DEF o, peer, l

LEMMA DecodeTLVInv ==
  ASSUME TInv, SliceInv, DecodeTLV
  PROVE  SliceInv'
<1>1. /\ rpc = "tlvs" /\ Len(b) - (n + lastLen) >= TLVHeaderSize
      /\ UNCHANGED <<sent, out, b, n, added>>
  BY DEF DecodeTLV, svars
<1>2. CASE ~ Sounds(sent, Len(sent))
  BY <1>1, <1>2 DEF SliceInv
<1>3. CASE Sounds(sent, Len(sent))
  <2> DEFINE o == n + lastLen
             peer == added.peer
             ts == g.tlvs
  <2>1. PICK c, j, tail : Walked(c, j, tail)
    BY <1>1, <1>3 DEF SliceInv
  <2>2. /\ o \in Nat /\ j \in Nat /\ j <= Len(peer) /\ Len(peer) \in Nat /\ peer \in Seq(TLVs)
        /\ j < Len(peer) =>
             LET t == peer[j + 1]
             IN  /\ t \in TLVs /\ t.len = Len(t.value) /\ t.len <= Limit64K /\ t.len \in Nat
                 /\ Len(Image(t)) = 5 + t.len
                 /\ o + Len(Image(t)) <= Len(b) /\ c[j + 1] = lastLen + Len(Image(t))
                 /\ \A i \in 1 .. Len(Image(t)) : b[o + i] = Image(t)[i]
        /\ j = Len(peer) =>
             /\ Len(b) = o + Len(tail) /\ \A i \in 1 .. Len(tail) : b[o + i] = tail[i]
    BY <2>1, WalkStands
  <2>3. /\ tail \in Trailers /\ Cuts(PeerTLVs(peer), Images(peer), c)
        /\ Behind(b, n, PeerTLVs(peer), tail) /\ Holds(ts, added.before, peer, j)
        /\ \A i \in 1 .. Len(peer) : peer[i].len = Len(peer[i].value) /\ peer[i].len <= Limit64K
    BY <2>1 DEF Walked
  <2>4. ts \in Seq(TLVs) /\ added.before \in Seq(TLVs) /\ lastLen \in Nat /\ g \in Frames
    <3>1. added \in [before : Seq(TLVs), peer : Seq(TLVs)]
      BY DEF TInv, ReceiverInv
    <3> QED
      BY <3>1, ReceiverTypes
  <2>5. out = <<>> \/ /\ Len(out) >= FrameHeaderSize
                      /\ FromLittleEndian(SubSeq(out, 4, 6)) = Len(out) - FrameHeaderSize
    BY <1>3 DEF SliceInv
  <2>6. CASE j < Len(peer)
    <3> DEFINE t == peer[j + 1]
    <3>1. /\ t \in TLVs /\ t.len = Len(t.value) /\ t.len <= Limit64K /\ t.len \in Nat
          /\ Len(Image(t)) = 5 + t.len
          /\ o + Len(Image(t)) <= Len(b) /\ c[j + 1] = lastLen + Len(Image(t))
          /\ \A i \in 1 .. Len(Image(t)) : b[o + i] = Image(t)[i]
      BY <2>2, <2>6
    <3> HIDE DEF t
    <3>2. NextTLV = t
      BY <2>2, <3>1, NextIs
    <3>3. /\ g' = [g EXCEPT !.tlvs = Append(g.tlvs, t)] /\ rpc' = rpc
          /\ lastLen' = lastLen + t.len + TLVHeaderSize
      BY <3>1, <3>2 DEF DecodeTLV
    <3>4. g'.tlvs = Append(ts, t)
      BY <2>4, <3>3 DEF Frames
    <3>5. lastLen' = c[j + 1]
      BY <2>4, <3>1, <3>3 DEF TLVHeaderSize
    <3>6. Holds(Append(ts, t), added.before, peer, j + 1)
      BY <2>2, <2>3, <2>4, <2>6, HoldsNext DEF t
    <3>7. j + 1 \in 0 .. Len(peer)
      BY <2>2, <2>6
    <3>8. Walked(c, j + 1, tail)'
      BY <1>1, <2>3, <3>4, <3>5, <3>6, <3>7 DEF Walked
    <3> QED
      BY <1>1, <2>5, <3>3, <3>8 DEF SliceInv
  <2>7. CASE j = Len(peer)
    <3>1. Len(b) = o + Len(tail) /\ \A i \in 1 .. Len(tail) : b[o + i] = tail[i]
      BY <2>2, <2>7
    <3>2. Len(tail) >= TLVHeaderSize
      <4>1. Len(tail) \in Nat
        BY <2>3, TLVAssumption, LenProperties
      <4> DEFINE x == Len(b)
                 y == Len(tail)
      <4>2. x = o + y /\ x - o >= 5 /\ y \in Nat /\ o \in Nat
        BY <1>1, <2>2, <3>1, <4>1 DEF TLVHeaderSize
      <4> HIDE DEF x, y, o
      <4>3. y >= 5
        BY <4>2
      <4> QED
        BY <4>3 DEF y, TLVHeaderSize
    <3>3. Len(NextTLV.value) # NextTLV.len
      <4> DEFINE oo == n + lastLen
      <4>1. oo \in Nat /\ oo = n + lastLen /\ Len(b) = oo + Len(tail) /\ \A i \in 1 .. Len(tail) : b[oo + i] = tail[i]
        BY <2>2, <3>1
      <4> HIDE DEF oo
      <4> QED
        BY <1>1, <2>3, <3>2, <4>1, NextIsNone
    <3>4. rpc' = "idle" /\ g' = g
      BY <3>3 DEF DecodeTLV
    <3>5. Holds(g'.tlvs, added'.before, added'.peer, Len(added'.peer))
      BY <1>1, <2>3, <2>7, <3>4
    <3> QED
      BY <1>1, <2>5, <3>4, <3>5 DEF SliceInv
  <2> QED
    BY <2>2, <2>6, <2>7
<1> QED
  BY <1>2, <1>3

LEMMA DecodeReturnsInv ==
  ASSUME TInv, SliceInv, DecodeReturns
  PROVE  SliceInv'
<1>1. /\ rpc = "tlvs" /\ Len(b) - (n + lastLen) < TLVHeaderSize /\ rpc' = "idle"
      /\ UNCHANGED <<sent, out, g, b, n, added>>
  BY DEF DecodeReturns, svars, dvars
<1>2. CASE ~ Sounds(sent, Len(sent))
  BY <1>1, <1>2 DEF SliceInv
<1>3. CASE Sounds(sent, Len(sent))
  <2> DEFINE o == n + lastLen
             peer == added.peer
  <2>1. PICK c, j, tail : Walked(c, j, tail)
    BY <1>1, <1>3 DEF SliceInv
  <2>2. /\ o \in Nat /\ j \in Nat /\ j <= Len(peer) /\ Len(peer) \in Nat
        /\ j < Len(peer) =>
             LET t == peer[j + 1]
             IN  /\ t.len \in Nat /\ Len(Image(t)) = 5 + t.len
                 /\ o + Len(Image(t)) <= Len(b)
    BY <2>1, WalkStands
  <2>3. ~ (j < Len(peer))
    <3> SUFFICES ASSUME j < Len(peer) PROVE FALSE
      OBVIOUS
    <3> DEFINE x == Len(b)
               y == peer[j + 1].len
    <3>1. y \in Nat /\ x \in Nat /\ o \in Nat /\ o + (5 + y) <= x /\ x - o < 5
      BY <1>1, <2>2, ReceiverTypes DEF TLVHeaderSize
    <3> HIDE DEF x, y, o
    <3> QED
      BY <3>1
  <2>4. j = Len(peer)
    BY <2>2, <2>3
  <2>5. Holds(g.tlvs, added.before, peer, Len(peer))
    BY <2>1, <2>4 DEF Walked
  <2> QED
    BY <1>1, <1>3, <2>5 DEF SliceInv
<1> QED
  BY <1>2, <1>3

LEMMA StepSlice ==
  ASSUME TInv, SliceInv, [Next]_vars
  PROVE  SliceInv'
<1>1. CASE UNCHANGED vars
  BY <1>1, SliceUnchanged DEF vars, svars, dvars
<1>2. ASSUME NEW m \in Msgs, FromParams(m) PROVE SliceInv'
  BY <1>2, SliceUnchanged DEF FromParams, dvars
<1>3. ASSUME NEW m \in Msgs, FromParamsFails(m) PROVE SliceInv'
  BY <1>3, SliceUnchanged DEF FromParamsFails, dvars
<1>4. ASSUME NEW tlvs \in TLVLists, SetTLVs(tlvs) PROVE SliceInv'
  BY <1>4, SliceUnchanged DEF SetTLVs, dvars
<1>5. InStep(f)
  BY DEF TInv, SenderInv
<1>6. CASE Send
  BY <1>5, <1>6, SenderSends, WrittenSlice DEF Send
<1>7. CASE WriteFrame
  BY <1>5, <1>7, SenderSends, WrittenSlice DEF WriteFrame
<1>8. CASE Close
  BY <1>8, SliceUnchanged DEF Close, svars, dvars
<1>9. CASE ReadHeader \/ ReadPayload \/ ReadEnds
  <2>1. UNCHANGED <<sent, out>> /\ rpc' \in {"header", "payload", "stopped"}
    BY <1>9 DEF ReadHeader, ReadPayload, ReadEnds, svars
  <2> QED
    BY <2>1 DEF SliceInv
<1> QED
  BY <1>1, <1>2, <1>3, <1>4, <1>6, <1>7, <1>8, <1>9, DecodeWholeInv, DecodeCutInv, DecodeTLVInv,
     DecodeReturnsInv
     DEF Next, Sender, Receiver

LEMMA InitSlice == Init => SliceInv
<1> SUFFICES ASSUME Init PROVE SliceInv
  OBVIOUS
<1>1. out = <<>> /\ rpc # "tlvs" /\ g.tlvs = <<>> /\ added.before = <<>> /\ added.peer = <<>>
  BY NoFrameInStep DEF Init
<1>2. Holds(<<>>, <<>>, <<>>, 0)
  BY DEF Holds
<1>3. Len(added.peer) = 0
  BY <1>1
<1> QED
  BY <1>1, <1>2, <1>3 DEF SliceInv

LEMMA SliceInvWalks ==
  ASSUME TInv, SliceInv
  PROVE  TrailingTLVs
<1> SUFFICES ASSUME via = "slice", rpc # "panicked", Sound(Len(sent))
             PROVE  /\ IsPrefix(g.tlvs, added.before \o added.peer)
                    /\ rpc = "idle" => g.tlvs = added.before \o added.peer \/ LoneEmptyTLV
  BY DEF TrailingTLVs
<1> DEFINE ts == g.tlvs
           before == added.before
           peer == added.peer
<1>1. Sounds(sent, Len(sent)) /\ rpc \in {"idle", "tlvs"}
  BY DEF Sound, Sounds, TInv, SenderInv, ReceiverInv
<1>2. ts \in Seq(TLVs) /\ before \in Seq(TLVs) /\ peer \in Seq(TLVs) /\ Len(peer) \in Nat
  <2>1. added \in [before : Seq(TLVs), peer : Seq(TLVs)]
    BY DEF TInv, ReceiverInv
  <2>2. ts \in Seq(TLVs) /\ before \in Seq(TLVs) /\ peer \in Seq(TLVs)
    BY <2>1, ReceiverTypes
  <2> QED
    BY <2>2, LenProperties
<1>3. CASE rpc = "tlvs"
  <2>1. PICK c, j, tail : Walked(c, j, tail)
    BY <1>1, <1>3 DEF SliceInv
  <2>2. j \in 0 .. Len(peer) /\ Holds(ts, before, peer, j)
    BY <2>1 DEF Walked
  <2> HIDE DEF ts, before, peer
  <2>3. IsPrefix(ts, before \o peer)
    BY <1>2, <2>2, HoldsPrefix
  <2> QED
    BY <1>3, <2>3 DEF ts, before, peer
<1>4. CASE rpc = "idle"
  <2>1. \/ Holds(ts, before, peer, Len(peer))
        \/ LoneEmptyTLV /\ Holds(ts, before, peer, 0)
    BY <1>1, <1>4 DEF SliceInv
  <2>2. Len(peer) \in 0 .. Len(peer) /\ 0 \in 0 .. Len(peer)
    BY <1>2
  <2> HIDE DEF ts, before, peer
  <2>3. IsPrefix(ts, before \o peer) /\ (ts = before \o peer \/ LoneEmptyTLV)
    <3>1. CASE Holds(ts, before, peer, Len(peer))
      BY <1>2, <2>2, <3>1, HoldsPrefix
    <3>2. CASE LoneEmptyTLV /\ Holds(ts, before, peer, 0)
      BY <1>2, <2>2, <3>2, HoldsPrefix
    <3> QED
      BY <2>1, <3>1, <3>2
  <2> QED
    BY <2>3 DEF ts, before, peer
<1> QED
  BY <1>1, <1>3, <1>4

\* Decode walks the TLVs behind a payload from one to the next, whatever the
\* peer added and whatever the slice ends with: it finds the peer's TLVs, in
\* their order and nothing else, and all of them unless they are a single
\* empty one, the five bytes that the test l > n+5 takes for garbage.
THEOREM TLVsWalked == Spec => []TrailingTLVs
<1>1. Init => TInv /\ SliceInv
  BY InitTInv, InitSlice
<1>2. TInv /\ SliceInv /\ [Next]_vars => (TInv /\ SliceInv)'
  BY StepTInv, StepSlice
<1>3. TInv /\ SliceInv => TrailingTLVs
  BY SliceInvWalks
<1> QED
  BY <1>1, <1>2, <1>3, PTL DEF Spec
=============================================================================
