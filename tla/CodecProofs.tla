----------------------------- MODULE CodecProofs -----------------------------
(***************************************************************************)
(* Theorems about Codec: for every message, every number of values of a    *)
(* byte and every length of hashes and signatures, the builder stops at    *)
(* the first value that is too long, and Decode undoes Encode, notices     *)
(* every payload that is cut short and accepts only bytes that Encode      *)
(* writes.                                                                 *)
(***************************************************************************)
EXTENDS Codec, SequenceTheorems, WellFoundedInduction, TLAPS

-----------------------------------------------------------------------------
(* Induction over numbers *)

\* A set of numbers that is not empty has a least element.
LEMMA LeastNumber ==
  ASSUME NEW T \in SUBSET Nat, T # {}
  PROVE  \E x \in T : \A y \in T : x <= y
<1> DEFINE Less == {ss \in Nat \X Nat : ss[1] < ss[2]}
<1>1. IsWellFoundedOn(Less, Nat)
  BY NatLessThanWellFounded DEF OpToRel
<1>2. PICK x \in T : \A y \in T : ~ (<<y, x>> \in Less)
  <2> HIDE DEF Less
  <2> QED
    BY <1>1, WFMin
<1>3. ASSUME NEW y \in T, y < x
      PROVE  FALSE
  <2>1. <<y, x>> \in Less
    BY <1>3
  <2> HIDE DEF Less
  <2> QED
    BY <1>2, <2>1
<1> QED
  BY <1>3

\* A set of numbers that holds 0 and every successor is the set of all
\* numbers: induction, for predicates that are given as sets.
LEMMA SetInduction ==
  ASSUME NEW S \in SUBSET Nat, 0 \in S, \A e \in S : e + 1 \in S
  PROVE  S = Nat
<1> SUFFICES ASSUME Nat \ S # {} PROVE FALSE
  OBVIOUS
<1>1. PICK x \in Nat \ S : \A y \in Nat \ S : x <= y
  BY LeastNumber
<1>2. x - 1 \in Nat /\ x - 1 \in S /\ x - 1 + 1 = x
  BY <1>1
<1> QED
  BY <1>1, <1>2

-----------------------------------------------------------------------------
(* Little-endian integers *)

\* The recursive definition of Weight has a solution.
LEMMA WeightEquation ==
  Weight = [e \in 0 .. 8 |-> IF e = 0 THEN 1 ELSE Base * Weight[e - 1]]
<1> DEFINE Solves(h, m) == h = [e \in 0 .. m |-> IF e = 0 THEN 1 ELSE Base * h[e - 1]]
           S == {m \in Nat : \E h : Solves(h, m)}
<1>1. 0 \in S
  <2>1. Solves([e \in 0 .. 0 |-> 1], 0)
    OBVIOUS
  <2> QED
    BY <2>1
<1>2. ASSUME NEW m \in S PROVE m + 1 \in S
  <2>1. PICK h : Solves(h, m)
    OBVIOUS
  <2> DEFINE j == [e \in 0 .. m + 1 |-> IF e = m + 1 THEN Base * h[m] ELSE h[e]]
  <2>2. ASSUME NEW e \in 0 .. m + 1
        PROVE  j[e] = IF e = 0 THEN 1 ELSE Base * j[e - 1]
    <3>1. CASE e = m + 1
      BY <3>1
    <3>2. CASE e \in 1 .. m
      <4>1. e \in 0 .. m /\ e - 1 \in 0 .. m /\ e # 0
        BY <3>2
      <4>2. h[e] = Base * h[e - 1]
        BY <2>1, <4>1
      <4> QED
        BY <4>1, <4>2
    <3>3. CASE e = 0
      BY <2>1, <3>3
    <3> QED
      BY <3>1, <3>2, <3>3
  <2>3. Solves(j, m + 1)
    BY <2>2
  <2> HIDE DEF j, Solves
  <2> QED
    BY <2>3
<1>3. 8 \in S
  <2>1. S \in SUBSET Nat
    OBVIOUS
  <2> HIDE DEF S
  <2> QED
    BY <1>1, <1>2, <2>1, SetInduction
<1>4. \E h : Solves(h, 8)
  BY <1>3
<1> QED
  BY <1>4 DEF Weight

LEMMA WeightStep ==
  /\ Weight[0] = 1
  /\ \A e \in 0 .. 7 : Weight[e + 1] = Base * Weight[e]
<1>1. Weight[0] = 1
  BY WeightEquation
<1>2. ASSUME NEW e \in 0 .. 7
      PROVE  Weight[e + 1] = Base * Weight[e]
  <2>1. e + 1 \in 0 .. 8 /\ e + 1 # 0 /\ (e + 1) - 1 = e
    OBVIOUS
  <2>2. Weight[e + 1] = Base * Weight[(e + 1) - 1]
    BY <2>1, WeightEquation
  <2> QED
    BY <2>1, <2>2
<1> QED
  BY <1>1, <1>2

LEMMA WeightPositive == \A e \in 0 .. 8 : Weight[e] \in Nat /\ Weight[e] > 0
<1> DEFINE S == {e \in Nat : e <= 8 => Weight[e] \in Nat /\ Weight[e] > 0}
<1>1. 0 \in S
  BY WeightStep
<1>2. ASSUME NEW e \in S PROVE e + 1 \in S
  <2> SUFFICES ASSUME e + 1 <= 8
               PROVE  Weight[e + 1] \in Nat /\ Weight[e + 1] > 0
    OBVIOUS
  <2>1. Weight[e] \in Nat /\ Weight[e] > 0
    OBVIOUS
  <2>2. Weight[e + 1] = Base * Weight[e]
    BY WeightStep
  <2> QED
    BY <2>1, <2>2, BaseAssumption
<1>3. S = Nat
  <2>1. S \in SUBSET Nat
    OBVIOUS
  <2> HIDE DEF S
  <2> QED
    BY <1>1, <1>2, <2>1, SetInduction
<1> QED
  BY <1>3

\* Division by two numbers, one after the other.
LEMMA DivideTwice ==
  ASSUME NEW v \in Nat, NEW m \in Nat, NEW d \in Nat, m > 0, d > 0
  PROVE  v % (d * m) = (v % m) + ((v \div m) % d) * m
<1> DEFINE q == v \div m
           r == v % m
           q1 == q \div d
           r1 == q % d
           w == d * m
           x == v \div w
           y == v % w
<1>1. q \in Nat /\ r \in 0 .. m - 1 /\ v = q * m + r
  OBVIOUS
<1>2. q1 \in Nat /\ r1 \in 0 .. d - 1 /\ q = q1 * d + r1
  BY <1>1
<1>3. w \in Nat /\ w > 0
  OBVIOUS
<1>4. x \in Nat /\ y \in 0 .. w - 1 /\ v = x * w + y
  BY <1>3
<1> DEFINE z == r + r1 * m
<1> HIDE DEF q, r, q1, r1, x, y
<1>5. v = q1 * w + z
  <2>1. q * m = (q1 * d) * m + r1 * m
    BY <1>1, <1>2
  <2>2. (q1 * d) * m = q1 * w
    BY <1>2
  <2> QED
    BY <1>1, <1>2, <2>1, <2>2
<1>6. z \in 0 .. w - 1
  <2>1. r1 * m \in Nat /\ r1 * m <= (d - 1) * m
    BY <1>2
  <2>2. (d - 1) * m = w - m
    OBVIOUS
  <2> QED
    BY <1>1, <2>1, <2>2, <1>3
<1> HIDE DEF z, w
<1>7. x = q1
  <2>1. ASSUME x > q1 PROVE FALSE
    <3>1. (x - q1) * w >= w
      BY <2>1, <1>2, <1>3, <1>4
    <3>2. (x - q1) * w = x * w - q1 * w
      BY <1>2, <1>3, <1>4
    <3> QED
      BY <3>1, <3>2, <1>2, <1>3, <1>4, <1>5, <1>6
  <2>2. ASSUME q1 > x PROVE FALSE
    <3>1. (q1 - x) * w >= w
      BY <2>2, <1>2, <1>3, <1>4
    <3>2. (q1 - x) * w = q1 * w - x * w
      BY <1>2, <1>3, <1>4
    <3> QED
      BY <3>1, <3>2, <1>2, <1>3, <1>4, <1>5, <1>6
  <2> QED
    BY <2>1, <2>2, <1>2, <1>4
<1>8. y = z
  BY <1>4, <1>5, <1>6, <1>7, <1>3
<1> QED
  BY <1>8 DEF y, z, w, r, r1, q

\* The recursive definition inside FromLittleEndian has a solution.
LEMMA LowEquation ==
  ASSUME NEW s, Len(s) \in Nat
  PROVE  \E low : /\ low[0] = 0
                  /\ \A i \in 0 .. Len(s) - 1 : low[i + 1] = low[i] + s[i + 1] * Weight[i]
                  /\ FromLittleEndian(s) = low[Len(s)]
<1> DEFINE Term(i) == s[i] * Weight[i - 1]
           Solves(h, m) == h = [i \in 0 .. m |-> IF i = 0 THEN 0 ELSE h[i - 1] + Term(i)]
           S == {m \in Nat : \E h : Solves(h, m)}
<1>1. 0 \in S
  <2>1. Solves([i \in 0 .. 0 |-> 0], 0)
    OBVIOUS
  <2> QED
    BY <2>1
<1>2. ASSUME NEW m \in S PROVE m + 1 \in S
  <2>1. PICK h : Solves(h, m)
    OBVIOUS
  <2> DEFINE j == [i \in 0 .. m + 1 |-> IF i = m + 1 THEN h[m] + Term(m + 1) ELSE h[i]]
  <2> HIDE DEF Term
  <2>2. ASSUME NEW i \in 0 .. m + 1
        PROVE  j[i] = IF i = 0 THEN 0 ELSE j[i - 1] + Term(i)
    <3>1. CASE i = m + 1
      BY <3>1
    <3>2. CASE i \in 1 .. m
      BY <2>1, <3>2
    <3>3. CASE i = 0
      BY <2>1, <3>3
    <3> QED
      BY <3>1, <3>2, <3>3
  <2>3. Solves(j, m + 1)
    BY <2>2
  <2> HIDE DEF j, Solves
  <2> QED
    BY <2>3
<1>3. Len(s) \in S
  <2>1. S \in SUBSET Nat
    OBVIOUS
  <2> HIDE DEF S
  <2> QED
    BY <1>1, <1>2, <2>1, SetInduction
<1> DEFINE low == CHOOSE h : Solves(h, Len(s))
<1>4. Solves(low, Len(s))
  BY <1>3
<1>5. FromLittleEndian(s) = low[Len(s)]
  BY DEF FromLittleEndian
<1> HIDE DEF low
<1>6. low[0] = 0
  BY <1>4
<1>7. ASSUME NEW i \in 0 .. Len(s) - 1
      PROVE  low[i + 1] = low[i] + s[i + 1] * Weight[i]
  <2>1. i + 1 \in 0 .. Len(s) /\ i + 1 # 0 /\ (i + 1) - 1 = i
    OBVIOUS
  <2>2. low[i + 1] = low[(i + 1) - 1] + Term(i + 1)
    <3> HIDE DEF Term
    <3> QED
      BY <1>4, <2>1
  <2> QED
    BY <2>1, <2>2
<1> QED
  BY <1>5, <1>6, <1>7

\* An encoded integer is that many bytes.
LEMMA LittleEndianType ==
  ASSUME NEW v \in Nat, NEW w \in 0 .. 8
  PROVE  LittleEndian(v, w) \in Seq(Bytes) /\ Len(LittleEndian(v, w)) = w
<1>1. ASSUME NEW i \in 1 .. w PROVE (v \div Weight[i - 1]) % Base \in Bytes
  <2>1. Weight[i - 1] \in Nat /\ Weight[i - 1] > 0
    BY WeightPositive
  <2>2. v \div Weight[i - 1] \in Nat
    BY <2>1
  <2> QED
    BY <2>2, BaseAssumption DEF Bytes
<1>2. LittleEndian(v, w) \in [1 .. w -> Bytes]
  BY <1>1 DEF LittleEndian
<1> QED
  BY <1>2

\* Decoding an encoded integer gives it back, as far as its width goes.
LEMMA DecodesLow ==
  ASSUME NEW v \in Nat, NEW w \in 0 .. 8
  PROVE  FromLittleEndian(LittleEndian(v, w)) = v % Weight[w]
<1> DEFINE s == LittleEndian(v, w)
<1>1. Len(s) = w /\ \A i \in 1 .. w : s[i] = (v \div Weight[i - 1]) % Base
  BY LittleEndianType DEF LittleEndian
<1> HIDE DEF s
<1>2. PICK low : /\ low[0] = 0
                 /\ \A i \in 0 .. w - 1 : low[i + 1] = low[i] + s[i + 1] * Weight[i]
                 /\ FromLittleEndian(s) = low[w]
  <2>1. Len(s) \in Nat
    BY <1>1
  <2>2. \E low : /\ low[0] = 0
                 /\ \A i \in 0 .. Len(s) - 1 : low[i + 1] = low[i] + s[i + 1] * Weight[i]
                 /\ FromLittleEndian(s) = low[Len(s)]
    BY <2>1, LowEquation
  <2> QED
    BY <1>1, <2>2
<1> DEFINE S == {i \in Nat : i <= w => low[i] = v % Weight[i]}
<1>3. 0 \in S
  BY <1>2, WeightStep
<1>4. ASSUME NEW i \in S PROVE i + 1 \in S
  <2> SUFFICES ASSUME i + 1 <= w PROVE low[i + 1] = v % Weight[i + 1]
    OBVIOUS
  <2>1. low[i] = v % Weight[i]
    OBVIOUS
  <2>2. i \in 0 .. w - 1 /\ i + 1 \in 1 .. w /\ (i + 1) - 1 = i /\ i \in 0 .. 7 /\ i \in 0 .. 8
    OBVIOUS
  <2>3. s[i + 1] = (v \div Weight[i]) % Base
    BY <1>1, <2>2
  <2>4. low[i + 1] = (v % Weight[i]) + ((v \div Weight[i]) % Base) * Weight[i]
    BY <1>2, <2>1, <2>2, <2>3
  <2>5. Weight[i] \in Nat /\ Weight[i] > 0
    BY WeightPositive, <2>2
  <2>6. v % (Base * Weight[i]) = (v % Weight[i]) + ((v \div Weight[i]) % Base) * Weight[i]
    <3> DEFINE m == Weight[i]
    <3> HIDE DEF m
    <3>1. m \in Nat /\ m > 0 /\ Base \in Nat /\ Base > 0
      BY <2>5, BaseAssumption DEF m
    <3>2. v % (Base * m) = (v % m) + ((v \div m) % Base) * m
      BY <3>1, DivideTwice
    <3> QED
      BY <3>2 DEF m
  <2> QED
    BY <2>2, <2>4, <2>6, WeightStep
<1>5. S = Nat
  <2>1. S \in SUBSET Nat
    OBVIOUS
  <2> HIDE DEF S
  <2> QED
    BY <1>3, <1>4, <2>1, SetInduction
<1> QED
  BY <1>2, <1>5 DEF s

\* Bytes stand for a number that their count can hold.
LEMMA LowRange ==
  ASSUME NEW s \in Seq(Bytes), Len(s) <= 8, NEW low, low[0] = 0,
         \A i \in 0 .. Len(s) - 1 : low[i + 1] = low[i] + s[i + 1] * Weight[i]
  PROVE  \A i \in 0 .. Len(s) : low[i] \in 0 .. Weight[i] - 1
<1> DEFINE S == {i \in Nat : i <= Len(s) => low[i] \in 0 .. Weight[i] - 1}
<1>2. 0 \in S
  BY WeightStep
<1>3. ASSUME NEW i \in S PROVE i + 1 \in S
  <2> SUFFICES ASSUME i + 1 <= Len(s) PROVE low[i + 1] \in 0 .. Weight[i + 1] - 1
    OBVIOUS
  <2>1. low[i] \in 0 .. Weight[i] - 1
    OBVIOUS
  <2>2. i \in 0 .. Len(s) - 1 /\ i + 1 \in 1 .. Len(s) /\ i \in 0 .. 7 /\ i \in 0 .. 8
    OBVIOUS
  <2>3. s[i + 1] \in 0 .. Base - 1
    BY <2>2, ElementOfSeq DEF Bytes
  <2>4. Weight[i] \in Nat /\ Weight[i] > 0 /\ Weight[i + 1] = Base * Weight[i]
    BY WeightPositive, WeightStep, <2>2
  <2>5. low[i + 1] = low[i] + s[i + 1] * Weight[i]
    BY <2>2
  <2> DEFINE m == Weight[i]
             x == s[i + 1]
  <2> HIDE DEF m, x
  <2>6. x * m \in Nat /\ x * m <= (Base - 1) * m
    <3>1. x \in Nat /\ m \in Nat /\ Base - 1 \in Nat /\ x <= Base - 1
      BY <2>3, <2>4, BaseAssumption DEF m, x
    <3>2. ASSUME NEW a \in Nat, NEW c \in Nat, NEW d \in Nat, a <= d
          PROVE  a * c \in Nat /\ a * c <= d * c
      <4>1. (d - a) * c \in Nat /\ (d - a) * c = d * c - a * c
        BY <3>2
      <4> QED
        BY <4>1
    <3> QED
      BY <3>1, <3>2
  <2>7. (Base - 1) * m = Base * m - m
    BY <2>4, BaseAssumption DEF m
  <2> DEFINE xm == x * m
             bm == Base * m
  <2>8. m \in Nat /\ low[i] \in 0 .. m - 1 /\ Weight[i + 1] = bm /\ low[i + 1] = low[i] + xm
    BY <2>1, <2>4, <2>5 DEF m, x
  <2>9. xm \in Nat /\ bm \in Int /\ xm <= bm - m
    BY <2>4, <2>6, <2>7, <2>8, BaseAssumption
  <2> HIDE DEF xm, bm
  <2> QED
    BY <2>8, <2>9
<1>4. S = Nat
  <2>1. S \in SUBSET Nat
    OBVIOUS
  <2> HIDE DEF S
  <2> QED
    BY <1>2, <1>3, <2>1, SetInduction
<1> QED
  BY <1>4

LEMMA FromType ==
  ASSUME NEW s \in Seq(Bytes), Len(s) <= 8
  PROVE  FromLittleEndian(s) \in 0 .. Weight[Len(s)] - 1
<1>1. PICK low : /\ low[0] = 0
                 /\ \A i \in 0 .. Len(s) - 1 : low[i + 1] = low[i] + s[i + 1] * Weight[i]
                 /\ FromLittleEndian(s) = low[Len(s)]
  BY LowEquation
<1>2. \A i \in 0 .. Len(s) : low[i] \in 0 .. Weight[i] - 1
  BY <1>1, LowRange
<1> QED
  BY <1>1, <1>2

LEMMA DivideUnique ==
  ASSUME NEW m \in Nat, NEW a \in 0 .. m - 1, NEW c \in 0 .. m - 1, NEW x \in Nat, NEW y \in Nat,
         a + x * m = c + y * m
  PROVE  x = y /\ a = c
<1>1. ASSUME x > y PROVE FALSE
  <2>1. (x - y) * m >= m /\ (x - y) * m = x * m - y * m /\ x * m \in Nat /\ y * m \in Nat
    BY <1>1
  <2> QED
    BY <2>1
<1>2. ASSUME y > x PROVE FALSE
  <2>1. (y - x) * m >= m /\ (y - x) * m = y * m - x * m /\ x * m \in Nat /\ y * m \in Nat
    BY <1>2
  <2> QED
    BY <2>1
<1>3. x = y
  BY <1>1, <1>2
<1>4. x * m \in Nat /\ a + x * m = c + x * m
  BY <1>3
<1> QED
  BY <1>3, <1>4

\* Different bytes stand for different numbers.
LEMMA FromInjective ==
  ASSUME NEW s \in Seq(Bytes), NEW t \in Seq(Bytes), Len(s) <= 8, Len(t) = Len(s),
         FromLittleEndian(s) = FromLittleEndian(t)
  PROVE  s = t
<1> DEFINE n == Len(s)
<1>0. n \in Nat
  OBVIOUS
<1>1. PICK low : /\ low[0] = 0
                 /\ \A i \in 0 .. Len(s) - 1 : low[i + 1] = low[i] + s[i + 1] * Weight[i]
                 /\ FromLittleEndian(s) = low[Len(s)]
  BY LowEquation
<1>2. PICK lot : /\ lot[0] = 0
                 /\ \A i \in 0 .. Len(t) - 1 : lot[i + 1] = lot[i] + t[i + 1] * Weight[i]
                 /\ FromLittleEndian(t) = lot[Len(t)]
  BY LowEquation
<1>3. \A i \in 0 .. n : low[i] \in 0 .. Weight[i] - 1
  BY <1>1, LowRange
<1>4. \A i \in 0 .. n : lot[i] \in 0 .. Weight[i] - 1
  <2>1. \A i \in 0 .. Len(t) : lot[i] \in 0 .. Weight[i] - 1
    BY <1>2, LowRange
  <2> QED
    BY <2>1
<1> DEFINE S == {i \in Nat : i <= n /\ low[i] = lot[i] => \A j \in 1 .. i : s[j] = t[j]}
<1>5. 0 \in S
  OBVIOUS
<1>6. ASSUME NEW i \in S PROVE i + 1 \in S
  <2> SUFFICES ASSUME i + 1 <= n, low[i + 1] = lot[i + 1]
               PROVE  \A j \in 1 .. i + 1 : s[j] = t[j]
    OBVIOUS
  <2>1. i \in 0 .. Len(s) - 1 /\ i \in 0 .. Len(t) - 1 /\ i \in 0 .. n /\ i \in 0 .. 8 /\ i + 1 \in 1 .. n
    BY <1>0
  <2> DEFINE m == Weight[i]
             a == low[i]
             c == lot[i]
             x == s[i + 1]
             y == t[i + 1]
  <2>2. m \in Nat
    BY <2>1, WeightPositive
  <2>3. a \in 0 .. m - 1 /\ c \in 0 .. m - 1
    BY <1>3, <1>4, <2>1
  <2>4. x \in Nat /\ y \in Nat
    <3>1. x \in Bytes /\ y \in Bytes
      BY <2>1, ElementOfSeq
    <3> QED
      BY <3>1 DEF Bytes
  <2>5. a + x * m = c + y * m
    BY <1>1, <1>2, <2>1
  <2> HIDE DEF m, a, c, x, y
  <2>6. x = y /\ a = c
    BY <2>2, <2>3, <2>4, <2>5, DivideUnique
  <2>7. \A j \in 1 .. i : s[j] = t[j]
    BY <2>1, <2>6 DEF a, c
  <2>8. s[i + 1] = t[i + 1]
    BY <2>6 DEF x, y
  <2> QED
    BY <2>7, <2>8
<1>7. n \in S
  <2>1. S \in SUBSET Nat
    OBVIOUS
  <2> HIDE DEF S
  <2> QED
    BY <1>0, <1>5, <1>6, <2>1, SetInduction
<1>8. low[n] = lot[n]
  BY <1>1, <1>2
<1>9. \A j \in 1 .. n : s[j] = t[j]
  BY <1>0, <1>7, <1>8
<1> QED
  BY <1>9, SeqEqual

\* Encoding a decoded integer gives back its bytes.
LEMMA EncodesLow ==
  ASSUME NEW s \in Seq(Bytes), Len(s) <= 8
  PROVE  LittleEndian(FromLittleEndian(s), Len(s)) = s
<1> DEFINE x == FromLittleEndian(s)
           w == Len(s)
           t == LittleEndian(x, w)
           m == Weight[w]
<1>1. w \in 0 .. 8
  <2> DEFINE l == Len(s)
  <2>1. l \in Nat /\ l <= 8
    BY LenProperties
  <2> HIDE DEF l
  <2>2. l \in 0 .. 8
    BY <2>1
  <2> QED
    BY <2>2 DEF l
<1>2. x \in 0 .. m - 1
  BY FromType
<1>3. m \in Nat
  BY <1>1, WeightPositive
<1> HIDE DEF x, m, w
<1>4. x \in Nat /\ x % m = x
  BY <1>2, <1>3
<1>5. t \in Seq(Bytes) /\ Len(t) = w
  BY <1>1, <1>4, LittleEndianType
<1>6. FromLittleEndian(t) = x % m
  BY <1>1, <1>4, DecodesLow DEF m
<1> HIDE DEF t
<1>7. FromLittleEndian(s) = FromLittleEndian(t) /\ Len(t) = Len(s)
  BY <1>4, <1>5, <1>6 DEF x, w
<1>8. s = t
  BY <1>5, <1>7, FromInjective
<1> QED
  BY <1>8 DEF t, x, w

-----------------------------------------------------------------------------
(* Sequences *)

\* FlattenSeq puts the sequences one behind the other.
LEMMA FlattenEquation ==
  ASSUME NEW S, NEW ss \in Seq(Seq(S))
  PROVE  \E fl : /\ fl[0] = <<>>
                 /\ \A i \in 0 .. Len(ss) - 1 : fl[i + 1] = fl[i] \o ss[i + 1]
                 /\ FlattenSeq(ss) = fl[Len(ss)]
<1>1. CASE Len(ss) = 0
  <2>1. ss = <<>> /\ FlattenSeq(ss) = ss
    BY <1>1 DEF FlattenSeq
  <2> DEFINE fl == [i \in 0 .. 0 |-> <<>>]
  <2>2. fl[0] = <<>> /\ FlattenSeq(ss) = fl[Len(ss)] /\ \A i \in 0 .. Len(ss) - 1 : FALSE
    BY <1>1, <2>1
  <2> HIDE DEF fl
  <2> QED
    BY <2>2
<1>2. CASE Len(ss) # 0
  <2> DEFINE Cat(x, y) == x \o y
             Solves(h, m) == h = [i \in 1 .. m |-> IF i = 1 THEN ss[i] ELSE Cat(h[i - 1], ss[i])]
             T == {m \in Nat : \E h : Solves(h, m + 1)}
             flatten == CHOOSE h : Solves(h, Len(ss))
             n0 == Len(ss)
  <2>5. FlattenSeq(ss) = flatten[n0]
    BY <1>2 DEF FlattenSeq
  <2>0. n0 \in Nat /\ n0 # 0
    BY <1>2
  <2> HIDE DEF Cat, n0
  <2>1. 0 \in T
    <3>1. Solves([i \in 1 .. 1 |-> ss[1]], 0 + 1)
      OBVIOUS
    <3> QED
      BY <3>1
  <2>2. ASSUME NEW m \in T PROVE m + 1 \in T
    <3>1. PICK h : Solves(h, m + 1)
      OBVIOUS
    <3> DEFINE j == [i \in 1 .. m + 2 |-> IF i = m + 2 THEN Cat(h[m + 1], ss[m + 2]) ELSE h[i]]
    <3>2. ASSUME NEW i \in 1 .. m + 2
          PROVE  j[i] = IF i = 1 THEN ss[i] ELSE Cat(j[i - 1], ss[i])
      <4>1. CASE i = m + 2
        <5>1. i - 1 = m + 1 /\ i # 1 /\ m + 1 \in 1 .. m + 2 /\ m + 1 # m + 2
          BY <4>1
        <5> QED
          BY <4>1, <5>1
      <4>2. CASE i \in 2 .. m + 1
        <5>1. i \in 1 .. m + 1 /\ i - 1 \in 1 .. m + 1 /\ i # 1 /\ i # m + 2 /\ i - 1 # m + 2
          BY <4>2
        <5>2. h[i] = Cat(h[i - 1], ss[i])
          BY <3>1, <5>1
        <5> QED
          BY <5>1, <5>2
      <4>3. CASE i = 1
        BY <3>1, <4>3
      <4> QED
        BY <4>1, <4>2, <4>3
    <3>3. j = [i \in 1 .. m + 2 |-> j[i]]
      OBVIOUS
    <3> HIDE DEF j
    <3>4. Solves(j, m + 2)
      BY <3>2, <3>3
    <3>5. m + 2 = (m + 1) + 1
      OBVIOUS
    <3> HIDE DEF Solves
    <3> QED
      BY <3>4, <3>5
  <2>3. n0 - 1 \in T
    <3>1. T \in SUBSET Nat
      OBVIOUS
    <3> HIDE DEF T
    <3>2. T = Nat
      BY <2>1, <2>2, <3>1, SetInduction
    <3> QED
      BY <2>0, <3>2
  <2>4. Solves(flatten, n0)
    <3>1. \E h : Solves(h, (n0 - 1) + 1)
      BY <2>3
    <3>2. (n0 - 1) + 1 = n0
      BY <2>0
    <3> HIDE DEF Solves
    <3> QED
      BY <3>1, <3>2 DEF n0
  <2> HIDE DEF flatten
  <2> DEFINE fl == [i \in 0 .. n0 |-> IF i = 0 THEN <<>> ELSE flatten[i]]
  <2>6. ASSUME NEW i \in 0 .. n0 - 1 PROVE fl[i + 1] = Cat(fl[i], ss[i + 1])
    <3>1. i + 1 \in 1 .. n0 /\ (i + 1) - 1 = i /\ i + 1 \in 0 .. n0 /\ i \in 0 .. n0
      BY <2>0
    <3>2. ss[i + 1] \in Seq(S)
      BY <3>1, ElementOfSeq DEF n0
    <3>3. flatten[i + 1] = IF i + 1 = 1 THEN ss[i + 1] ELSE Cat(flatten[(i + 1) - 1], ss[i + 1])
      BY <3>1, <2>4
    <3>4. CASE i = 0
      <4>1. Cat(<<>>, ss[i + 1]) = ss[i + 1]
        BY <3>2, ConcatEmptySeq DEF Cat
      <4> QED
        BY <3>1, <3>3, <3>4, <4>1
    <3>5. CASE i # 0
      BY <3>1, <3>3, <3>5
    <3> QED
      BY <3>4, <3>5
  <2>7. fl[0] = <<>> /\ fl[n0] = FlattenSeq(ss)
    BY <2>0, <2>5
  <2> HIDE DEF fl
  <2> QED
    BY <2>6, <2>7 DEF n0, Cat
<1> QED
  BY <1>1, <1>2

LEMMA FlattenNone == FlattenSeq(<<>>) = <<>>
  BY DEF FlattenSeq

\* One sequence more.
LEMMA FlattenStep ==
  ASSUME NEW S, NEW n \in Nat, NEW f \in [1 .. n + 1 -> Seq(S)]
  PROVE  FlattenSeq(f) = FlattenSeq([i \in 1 .. n |-> f[i]]) \o f[n + 1]
<1> DEFINE h == [i \in 1 .. n |-> f[i]]
<1>1. f \in Seq(Seq(S)) /\ Len(f) = n + 1
  OBVIOUS
<1>2. h \in Seq(Seq(S)) /\ Len(h) = n /\ \A i \in 1 .. n : h[i] = f[i]
  OBVIOUS
<1> HIDE DEF h
<1>3. PICK a : /\ a[0] = <<>>
               /\ \A i \in 0 .. Len(f) - 1 : a[i + 1] = a[i] \o f[i + 1]
               /\ FlattenSeq(f) = a[Len(f)]
  BY <1>1, FlattenEquation
<1>4. PICK c : /\ c[0] = <<>>
               /\ \A i \in 0 .. Len(h) - 1 : c[i + 1] = c[i] \o h[i + 1]
               /\ FlattenSeq(h) = c[Len(h)]
  BY <1>2, FlattenEquation
<1> DEFINE T == {i \in Nat : i <= n => a[i] = c[i]}
<1>5. 0 \in T
  BY <1>3, <1>4
<1>6. ASSUME NEW i \in T PROVE i + 1 \in T
  <2> SUFFICES ASSUME i + 1 <= n PROVE a[i + 1] = c[i + 1]
    OBVIOUS
  <2>1. i \in 0 .. Len(f) - 1 /\ i \in 0 .. Len(h) - 1 /\ i + 1 \in 1 .. n
    BY <1>1, <1>2
  <2>2. a[i] = c[i]
    OBVIOUS
  <2>3. a[i + 1] = a[i] \o f[i + 1]
    BY <1>3, <2>1
  <2>4. c[i + 1] = c[i] \o h[i + 1]
    BY <1>4, <2>1
  <2>5. h[i + 1] = f[i + 1]
    BY <1>2, <2>1
  <2> QED
    BY <2>2, <2>3, <2>4, <2>5
<1>7. n \in T
  <2>1. T \in SUBSET Nat
    OBVIOUS
  <2> HIDE DEF T
  <2> QED
    BY <1>5, <1>6, <2>1, SetInduction
<1>8. a[n + 1] = a[n] \o f[n + 1]
  <2>1. n \in 0 .. Len(f) - 1
    BY <1>1
  <2> QED
    BY <1>3, <2>1
<1>9. FlattenSeq(h) = a[n]
  BY <1>2, <1>4, <1>7
<1> QED
  BY <1>1, <1>3, <1>8, <1>9 DEF h

-----------------------------------------------------------------------------
(* Types of fields *)

ScalarTypes == {U8, U16, U32, U64, Bool, U256, SignatureField}
ListTypes == {Str255, Bin32, Bin64K, Option(U32), Seq255(U256), Seq64K(U32), Loop64K(U32)}
Types == ScalarTypes \union ListTypes

\* What the proofs use of a type: of a scalar its width,
IsScalar(T) ==
  /\ T.kind \in {"int", "bool", "fixed", "array"}
  /\ T.width \in Nat /\ T.width > 0
  /\ T.kind = "int" => T.width <= 8
  /\ T.kind = "bool" => T.width = 1
  /\ "limit" \notin DOMAIN T

\* of a list that the count of its longest value has room in its prefix.
IsList(T) ==
  /\ T.kind \in {"bin", "seq", "loop"}
  /\ "limit" \in DOMAIN T /\ "range" \in DOMAIN T
  /\ T.width \in 1 .. 3
  /\ T.limit \in Nat /\ T.limit < Weight[T.width] /\ T.range \in Nat
  /\ T.checked \in Nat /\ T.limit <= T.checked
  /\ T.kind # "bin" => IsScalar(T.elem)
  /\ T.kind = "loop" => T.limit = Weight[T.width] - 1

\* The reader accepts no more than the builder, and the builder refuses no
\* value in the range of its comment.
IsBalanced(T) == IsList(T) => T.checked = T.limit /\ T.range = T.limit

LEMMA Weights ==
  /\ Weight[1] = Base /\ Weight[2] = Base * Base
  /\ Weight[2] \in Nat /\ Weight[2] > 1 /\ Weight[3] \in Nat /\ Weight[3] > 25
  /\ Base \in Nat /\ Base > 2
<1>1. Base \in Nat /\ Base > 2
  BY BaseAssumption, CodecAssumption
<1>2. Weight[0 + 1] = Base * Weight[0] /\ Weight[1 + 1] = Base * Weight[1] /\ Weight[2 + 1] = Base * Weight[2]
  BY WeightStep
<1>3. Weight[1] = Base /\ Weight[2] = Base * Base /\ Weight[3] = Base * (Base * Base)
  BY <1>1, <1>2, WeightStep
<1>4. Base * Base \in Nat /\ Base * Base >= 9
  BY <1>1
<1>5. ASSUME NEW m \in Nat, m >= 9 PROVE Base * m \in Nat /\ Base * m >= 27
  BY <1>1, <1>5
<1> QED
  BY <1>1, <1>3, <1>4, <1>5

LEMMA ScalarTypesTyped == \A T \in ScalarTypes : IsScalar(T) /\ ~ IsList(T)
<1>1. HashLen \in Nat /\ HashLen > 0 /\ SigLen \in Nat /\ SigLen > 0
  BY CodecAssumption
<1> QED
  BY <1>1 DEF ScalarTypes, IsScalar, IsList, U8, U16, U32, U64, Bool, U256, Fixed, SignatureField, Uint

\* A list type is one of these forms.
LEMMA BinIsList ==
  ASSUME NEW w \in 1 .. 2, NEW l \in Nat, l < Weight[w]
  PROVE  IsList(Bin(w, l, l, l)) /\ IsBalanced(Bin(w, l, l, l)) /\ ~ IsScalar(Bin(w, l, l, l))
<1> DEFINE T == Bin(w, l, l, l)
<1>1. /\ T.kind = "bin" /\ T.width = w /\ T.limit = l /\ T.range = l /\ T.checked = l
      /\ "limit" \in DOMAIN T /\ "range" \in DOMAIN T
  BY DEF Bin
<1> HIDE DEF T
<1>4. IsList(T) /\ IsBalanced(T) /\ ~ IsScalar(T)
  BY <1>1 DEF IsList, IsBalanced, IsScalar
<1> QED
  BY <1>4 DEF T

LEMMA CountedIsList ==
  ASSUME NEW kind \in {"seq", "loop"}, NEW w \in 1 .. 2, NEW l \in Nat, l < Weight[w],
         kind = "loop" => l = Weight[w] - 1, NEW E, IsScalar(E)
  PROVE  /\ IsList(Counted(kind, w, l, E)) /\ IsBalanced(Counted(kind, w, l, E))
         /\ ~ IsScalar(Counted(kind, w, l, E))
<1> DEFINE T == Counted(kind, w, l, E)
<1>1. /\ T.kind = kind /\ T.width = w /\ T.limit = l /\ T.range = l /\ T.checked = l
      /\ "limit" \in DOMAIN T /\ "range" \in DOMAIN T /\ T.elem = E
  BY DEF Counted
<1> HIDE DEF T
<1>4. IsList(T) /\ IsBalanced(T) /\ ~ IsScalar(T)
  <2> HIDE DEF IsScalar
  <2>1. T.width \in 1 .. 3 /\ T.limit \in Nat /\ T.limit < Weight[T.width] /\ T.checked \in Nat
    BY <1>1
  <2>2. IsList(T) /\ IsBalanced(T)
    BY <1>1, <2>1 DEF IsList, IsBalanced
  <2>3. ~ IsScalar(T)
    BY <1>1 DEF IsScalar
  <2> QED
    BY <2>2, <2>3
<1> QED
  BY <1>4 DEF T

LEMMA ListTypesTyped ==
  \A T \in ListTypes : IsList(T) /\ IsBalanced(T) /\ ~ IsScalar(T)
<1>1. 1 \in 1 .. 2 /\ 2 \in 1 .. 2 /\ 1 \in Nat /\ 1 < Weight[1] /\ Base - 1 \in Nat /\ Base - 1 < Weight[1]
      /\ Weight[2] - 1 \in Nat /\ Weight[2] - 1 < Weight[2] /\ Bin32Max \in Nat /\ Bin32Max < Weight[1]
  BY Weights, CodecAssumption
<1>2. IsScalar(U32) /\ IsScalar(U256)
  BY ScalarTypesTyped DEF ScalarTypes
<1> DEFINE Good(T) == IsList(T) /\ IsBalanced(T) /\ ~ IsScalar(T)
<1>3. Good(Str255)
  BY <1>1, BinIsList DEF Str255
<1>4. Good(Bin32)
  BY <1>1, BinIsList DEF Bin32
<1>5. Good(Bin64K)
  BY <1>1, BinIsList DEF Bin64K
<1>6. Good(Option(U32))
  BY <1>1, <1>2, CountedIsList DEF Option
<1>7. Good(Seq255(U256))
  BY <1>1, <1>2, CountedIsList DEF Seq255
<1>8. Good(Seq64K(U32))
  BY <1>1, <1>2, CountedIsList DEF Seq64K
<1>9. Good(Loop64K(U32))
  BY <1>1, <1>2, CountedIsList DEF Loop64K
<1> HIDE DEF Good
<1>10. \A T \in ListTypes : Good(T)
  BY <1>3, <1>4, <1>5, <1>6, <1>7, <1>8, <1>9 DEF ListTypes
<1> QED
  BY <1>10 DEF Good

LEMMA Bin16MTyped == IsList(Bin16M) /\ ~ IsScalar(Bin16M) /\ Bin16M.kind = "bin" /\ Bin16M.width = 3 /\ Bin16M.limit = 25
<1> DEFINE T == Bin16M
<1>1. /\ T.kind = "bin" /\ T.width = 3 /\ T.limit = 25 /\ T.range = Weight[3] - 1 /\ T.checked = Weight[3] - 1
      /\ "limit" \in DOMAIN T /\ "range" \in DOMAIN T
  BY DEF Bin16M, Bin
<1>2. T.limit < Weight[T.width] /\ T.range \in Nat /\ T.checked \in Nat /\ T.limit <= T.checked
  BY <1>1, Weights
<1> QED
  BY <1>1, <1>2 DEF IsList, IsScalar

-----------------------------------------------------------------------------
(* Layouts *)

\* Decode reads what Encode writes, field by field; a sequence may be read by
\* a loop.
SameFields(L) ==
  /\ Len(L.dec) = Len(L.enc)
  /\ \A j \in 1 .. Len(L.enc) :
       /\ L.dec[j].name = L.enc[j].name
       /\ \/ L.dec[j].type = L.enc[j].type
          \/ L.dec[j].type = Loop64K(U32) /\ L.enc[j].type = Seq64K(U32)

Distinct(s) == \A i, j \in 1 .. Len(s) : s[i].name = s[j].name => i = j

IsFields(s) ==
  /\ Len(s) \in Nat /\ DOMAIN s = 1 .. Len(s)
  /\ \A j \in 1 .. Len(s) : s[j].type \in Types

IsMessage(L) == IsFields(L.enc) /\ IsFields(L.dec) /\ Distinct(L.enc)

\* A message whose Decode reads every field.
IsPlain(L) == IsMessage(L) /\ SameFields(L)

LEMMA AllTypes ==
  /\ U8 \in Types /\ U16 \in Types /\ U32 \in Types /\ U64 \in Types /\ F32 \in Types /\ Bool \in Types
  /\ U256 \in Types /\ SignatureField \in Types
  /\ Str255 \in Types /\ Bin32 \in Types /\ Bin255 \in Types /\ Bin64K \in Types
  /\ Option(U32) \in Types /\ Seq255(U256) \in Types /\ Seq64K(U32) \in Types /\ Loop64K(U32) \in Types
<1>1. F32 = U32 /\ Bin255 = Str255
  BY DEF F32, U32, Bin255, Str255
<1> QED
  BY <1>1 DEF Types, ScalarTypes, ListTypes

LEMMA PlainWhenSame ==
  ASSUME NEW L, L.dec = L.enc, IsFields(L.enc), Distinct(L.enc)
  PROVE  IsPlain(L)
  BY DEF IsPlain, IsMessage, SameFields, IsFields

LEMMA SetupConnectionTyped == IsPlain(SetupConnection)
<1>1. SetupConnection.dec = SetupConnection.enc
  BY DEF SetupConnection
<1>2. IsFields(SetupConnection.dec)
  BY AllTypes DEF SetupConnection, IsFields, :=
<1>3. Distinct(SetupConnection.dec)
  BY DEF SetupConnection, Distinct, :=
<1> QED
  BY <1>1, <1>2, <1>3, PlainWhenSame

LEMMA SetupConnectionSuccessTyped == IsPlain(SetupConnectionSuccess)
<1>1. SetupConnectionSuccess.dec = SetupConnectionSuccess.enc
  BY DEF SetupConnectionSuccess
<1>2. IsFields(SetupConnectionSuccess.dec)
  BY AllTypes DEF SetupConnectionSuccess, IsFields, :=
<1>3. Distinct(SetupConnectionSuccess.dec)
  BY DEF SetupConnectionSuccess, Distinct, :=
<1> QED
  BY <1>1, <1>2, <1>3, PlainWhenSame

LEMMA SetupConnectionErrorTyped == IsPlain(SetupConnectionError)
<1>1. SetupConnectionError.dec = SetupConnectionError.enc
  BY DEF SetupConnectionError
<1>2. IsFields(SetupConnectionError.dec)
  BY AllTypes DEF SetupConnectionError, IsFields, :=
<1>3. Distinct(SetupConnectionError.dec)
  BY DEF SetupConnectionError, Distinct, :=
<1> QED
  BY <1>1, <1>2, <1>3, PlainWhenSame

LEMMA ChannelEndpointChangedTyped == IsPlain(ChannelEndpointChanged)
<1>1. ChannelEndpointChanged.dec = ChannelEndpointChanged.enc
  BY DEF ChannelEndpointChanged
<1>2. IsFields(ChannelEndpointChanged.dec)
  BY AllTypes DEF ChannelEndpointChanged, IsFields, :=
<1>3. Distinct(ChannelEndpointChanged.dec)
  BY DEF ChannelEndpointChanged, Distinct, :=
<1> QED
  BY <1>1, <1>2, <1>3, PlainWhenSame

LEMMA ReconnectTyped == IsPlain(Reconnect)
<1>1. Reconnect.dec = Reconnect.enc
  BY DEF Reconnect
<1>2. IsFields(Reconnect.dec)
  BY AllTypes DEF Reconnect, IsFields, :=
<1>3. Distinct(Reconnect.dec)
  BY DEF Reconnect, Distinct, :=
<1> QED
  BY <1>1, <1>2, <1>3, PlainWhenSame

LEMMA OpenStandardMiningChannelTyped == IsPlain(OpenStandardMiningChannel)
<1>1. OpenStandardMiningChannel.dec = OpenStandardMiningChannel.enc
  BY DEF OpenStandardMiningChannel
<1>2. IsFields(OpenStandardMiningChannel.dec)
  BY AllTypes DEF OpenStandardMiningChannel, IsFields, :=
<1>3. Distinct(OpenStandardMiningChannel.dec)
  BY DEF OpenStandardMiningChannel, Distinct, :=
<1> QED
  BY <1>1, <1>2, <1>3, PlainWhenSame

LEMMA OpenStandardMiningChannelSuccessTyped == IsPlain(OpenStandardMiningChannelSuccess)
<1>1. OpenStandardMiningChannelSuccess.dec = OpenStandardMiningChannelSuccess.enc
  BY DEF OpenStandardMiningChannelSuccess
<1>2. IsFields(OpenStandardMiningChannelSuccess.dec)
  BY AllTypes DEF OpenStandardMiningChannelSuccess, IsFields, :=
<1>3. Distinct(OpenStandardMiningChannelSuccess.dec)
  BY DEF OpenStandardMiningChannelSuccess, Distinct, :=
<1> QED
  BY <1>1, <1>2, <1>3, PlainWhenSame

LEMMA OpenExtendedMiningChannelTyped == IsPlain(OpenExtendedMiningChannel)
<1>1. OpenExtendedMiningChannel.dec = OpenExtendedMiningChannel.enc
  BY DEF OpenExtendedMiningChannel, OpenStandardMiningChannel, :=
<1>2. IsFields(OpenExtendedMiningChannel.dec)
  BY AllTypes DEF OpenExtendedMiningChannel, IsFields, :=
<1>3. Distinct(OpenExtendedMiningChannel.dec)
  BY DEF OpenExtendedMiningChannel, Distinct, :=
<1> QED
  BY <1>1, <1>2, <1>3, PlainWhenSame

LEMMA OpenExtendedMiningChannelSuccessTyped == IsPlain(OpenExtendedMiningChannelSuccess)
<1>1. OpenExtendedMiningChannelSuccess.dec = OpenExtendedMiningChannelSuccess.enc
  BY DEF OpenExtendedMiningChannelSuccess
<1>2. IsFields(OpenExtendedMiningChannelSuccess.dec)
  BY AllTypes DEF OpenExtendedMiningChannelSuccess, IsFields, :=
<1>3. Distinct(OpenExtendedMiningChannelSuccess.dec)
  BY DEF OpenExtendedMiningChannelSuccess, Distinct, :=
<1> QED
  BY <1>1, <1>2, <1>3, PlainWhenSame

LEMMA OpenMiningChannelErrorTyped == IsPlain(OpenMiningChannelError)
<1>1. OpenMiningChannelError.dec = OpenMiningChannelError.enc
  BY DEF OpenMiningChannelError
<1>2. IsFields(OpenMiningChannelError.dec)
  BY AllTypes DEF OpenMiningChannelError, IsFields, :=
<1>3. Distinct(OpenMiningChannelError.dec)
  BY DEF OpenMiningChannelError, Distinct, :=
<1> QED
  BY <1>1, <1>2, <1>3, PlainWhenSame

LEMMA UpdateChannelTyped == IsPlain(UpdateChannel)
<1>1. UpdateChannel.dec = UpdateChannel.enc
  BY DEF UpdateChannel
<1>2. IsFields(UpdateChannel.dec)
  BY AllTypes DEF UpdateChannel, IsFields, :=
<1>3. Distinct(UpdateChannel.dec)
  BY DEF UpdateChannel, Distinct, :=
<1> QED
  BY <1>1, <1>2, <1>3, PlainWhenSame

LEMMA UpdateChannelErrorTyped == IsPlain(UpdateChannelError)
<1>1. UpdateChannelError.dec = UpdateChannelError.enc
  BY DEF UpdateChannelError
<1>2. IsFields(UpdateChannelError.dec)
  BY AllTypes DEF UpdateChannelError, IsFields, :=
<1>3. Distinct(UpdateChannelError.dec)
  BY DEF UpdateChannelError, Distinct, :=
<1> QED
  BY <1>1, <1>2, <1>3, PlainWhenSame

LEMMA CloseChannelTyped == IsPlain(CloseChannel)
<1>1. CloseChannel.dec = CloseChannel.enc
  BY DEF CloseChannel
<1>2. IsFields(CloseChannel.dec)
  BY AllTypes DEF CloseChannel, IsFields, :=
<1>3. Distinct(CloseChannel.dec)
  BY DEF CloseChannel, Distinct, :=
<1> QED
  BY <1>1, <1>2, <1>3, PlainWhenSame

LEMMA SetExtranoncePrefixTyped == IsPlain(SetExtranoncePrefix)
<1>1. SetExtranoncePrefix.dec = SetExtranoncePrefix.enc
  BY DEF SetExtranoncePrefix
<1>2. IsFields(SetExtranoncePrefix.dec)
  BY AllTypes DEF SetExtranoncePrefix, IsFields, :=
<1>3. Distinct(SetExtranoncePrefix.dec)
  BY DEF SetExtranoncePrefix, Distinct, :=
<1> QED
  BY <1>1, <1>2, <1>3, PlainWhenSame

LEMMA SubmitSharesStandardTyped == IsPlain(SubmitSharesStandard)
<1>1. SubmitSharesStandard.dec = SubmitSharesStandard.enc
  BY DEF SubmitSharesStandard
<1>2. IsFields(SubmitSharesStandard.dec)
  BY AllTypes DEF SubmitSharesStandard, IsFields, :=
<1>3. Distinct(SubmitSharesStandard.dec)
  BY DEF SubmitSharesStandard, Distinct, :=
<1> QED
  BY <1>1, <1>2, <1>3, PlainWhenSame

LEMMA SubmitSharesExtendedTyped == IsPlain(SubmitSharesExtended)
<1>1. SubmitSharesExtended.dec = SubmitSharesExtended.enc
  BY DEF SubmitSharesExtended, SubmitSharesStandard, :=
<1>2. IsFields(SubmitSharesExtended.dec)
  BY AllTypes DEF SubmitSharesExtended, IsFields, :=
<1>3. Distinct(SubmitSharesExtended.dec)
  BY DEF SubmitSharesExtended, Distinct, :=
<1> QED
  BY <1>1, <1>2, <1>3, PlainWhenSame

LEMMA SubmitSharesSuccessTyped == IsPlain(SubmitSharesSuccess)
<1>1. SubmitSharesSuccess.dec = SubmitSharesSuccess.enc
  BY DEF SubmitSharesSuccess
<1>2. IsFields(SubmitSharesSuccess.dec)
  BY AllTypes DEF SubmitSharesSuccess, IsFields, :=
<1>3. Distinct(SubmitSharesSuccess.dec)
  BY DEF SubmitSharesSuccess, Distinct, :=
<1> QED
  BY <1>1, <1>2, <1>3, PlainWhenSame

LEMMA SubmitSharesErrorTyped == IsPlain(SubmitSharesError)
<1>1. SubmitSharesError.dec = SubmitSharesError.enc
  BY DEF SubmitSharesError
<1>2. IsFields(SubmitSharesError.dec)
  BY AllTypes DEF SubmitSharesError, IsFields, :=
<1>3. Distinct(SubmitSharesError.dec)
  BY DEF SubmitSharesError, Distinct, :=
<1> QED
  BY <1>1, <1>2, <1>3, PlainWhenSame

LEMMA NewMiningJobTyped == IsPlain(NewMiningJob)
<1>1. NewMiningJob.dec = NewMiningJob.enc
  BY DEF NewMiningJob
<1>2. IsFields(NewMiningJob.dec)
  BY AllTypes DEF NewMiningJob, IsFields, :=
<1>3. Distinct(NewMiningJob.dec)
  BY DEF NewMiningJob, Distinct, :=
<1> QED
  BY <1>1, <1>2, <1>3, PlainWhenSame

LEMMA NewExtendedMiningJobTyped == IsPlain(NewExtendedMiningJob)
<1>1. NewExtendedMiningJob.dec = NewExtendedMiningJob.enc
  BY DEF NewExtendedMiningJob
<1>2. IsFields(NewExtendedMiningJob.dec)
  BY AllTypes DEF NewExtendedMiningJob, IsFields, :=
<1>3. Distinct(NewExtendedMiningJob.dec)
  BY DEF NewExtendedMiningJob, Distinct, :=
<1> QED
  BY <1>1, <1>2, <1>3, PlainWhenSame

LEMMA SetNewPrevHashTyped == IsPlain(SetNewPrevHash)
<1>1. SetNewPrevHash.dec = SetNewPrevHash.enc
  BY DEF SetNewPrevHash
<1>2. IsFields(SetNewPrevHash.dec)
  BY AllTypes DEF SetNewPrevHash, IsFields, :=
<1>3. Distinct(SetNewPrevHash.dec)
  BY DEF SetNewPrevHash, Distinct, :=
<1> QED
  BY <1>1, <1>2, <1>3, PlainWhenSame

LEMMA SetCustomMiningJobSuccessTyped == IsPlain(SetCustomMiningJobSuccess)
<1>1. SetCustomMiningJobSuccess.dec = SetCustomMiningJobSuccess.enc
  BY DEF SetCustomMiningJobSuccess
<1>2. IsFields(SetCustomMiningJobSuccess.dec)
  BY AllTypes DEF SetCustomMiningJobSuccess, IsFields, :=
<1>3. Distinct(SetCustomMiningJobSuccess.dec)
  BY DEF SetCustomMiningJobSuccess, Distinct, :=
<1> QED
  BY <1>1, <1>2, <1>3, PlainWhenSame

LEMMA SetCustomMiningJobErrorTyped == IsPlain(SetCustomMiningJobError)
<1>1. SetCustomMiningJobError.dec = SetCustomMiningJobError.enc
  BY DEF SetCustomMiningJobError
<1>2. IsFields(SetCustomMiningJobError.dec)
  BY AllTypes DEF SetCustomMiningJobError, IsFields, :=
<1>3. Distinct(SetCustomMiningJobError.dec)
  BY DEF SetCustomMiningJobError, Distinct, :=
<1> QED
  BY <1>1, <1>2, <1>3, PlainWhenSame

LEMMA SetTargetTyped == IsPlain(SetTarget)
<1>1. SetTarget.dec = SetTarget.enc
  BY DEF SetTarget
<1>2. IsFields(SetTarget.dec)
  BY AllTypes DEF SetTarget, IsFields, :=
<1>3. Distinct(SetTarget.dec)
  BY DEF SetTarget, Distinct, :=
<1> QED
  BY <1>1, <1>2, <1>3, PlainWhenSame

LEMMA SIGNATURE_NOISE_MESSAGETyped == IsPlain(SIGNATURE_NOISE_MESSAGE)
<1>1. SIGNATURE_NOISE_MESSAGE.dec = SIGNATURE_NOISE_MESSAGE.enc
  BY DEF SIGNATURE_NOISE_MESSAGE
<1>2. IsFields(SIGNATURE_NOISE_MESSAGE.dec)
  BY AllTypes DEF SIGNATURE_NOISE_MESSAGE, IsFields, :=
<1>3. Distinct(SIGNATURE_NOISE_MESSAGE.dec)
  BY DEF SIGNATURE_NOISE_MESSAGE, Distinct, :=
<1> QED
  BY <1>1, <1>2, <1>3, PlainWhenSame

LEMMA SetGroupChannelTyped == IsPlain(SetGroupChannel)
<1>1. IsFields(SetGroupChannel.enc) /\ IsFields(SetGroupChannel.dec)
  BY AllTypes DEF SetGroupChannel, IsFields, :=
<1>2. Distinct(SetGroupChannel.enc)
  BY DEF SetGroupChannel, Distinct, :=
<1>3. SameFields(SetGroupChannel)
  BY DEF SetGroupChannel, SameFields, :=
<1> QED
  BY <1>1, <1>2, <1>3 DEF IsPlain, IsMessage

LEMMA SetCustomMiningJobTyped == IsMessage(SetCustomMiningJob)
<1>1. IsFields(SetCustomMiningJob.enc)
  BY AllTypes DEF SetCustomMiningJob, IsFields, :=
<1>2. IsFields(SetCustomMiningJob.dec)
  BY AllTypes DEF SetCustomMiningJob, IsFields, :=
<1>3. Distinct(SetCustomMiningJob.enc)
  BY DEF SetCustomMiningJob, Distinct, :=
<1> QED
  BY <1>1, <1>2, <1>3 DEF IsMessage

\* The one field of the extra layout.
BytesOnly(L) == L.enc = << "Bytes" := Bin16M >> /\ L.dec = << "Bytes" := Bin16M >>

LEMMA LayoutsTyped ==
  ASSUME NEW n \in DOMAIN Layouts
  PROVE  \/ n = "B0_16M" /\ BytesOnly(Layouts[n])
         \/ n = "SetCustomMiningJob" /\ IsMessage(Layouts[n])
         \/ n \notin {"B0_16M", "SetCustomMiningJob"} /\ IsPlain(Layouts[n])
<1>1. n \in {"SetupConnection", "SetupConnectionSuccess", "SetupConnectionError",
              "ChannelEndpointChanged", "Reconnect", "OpenStandardMiningChannel",
              "OpenStandardMiningChannelSuccess", "OpenExtendedMiningChannel",
              "OpenExtendedMiningChannelSuccess", "OpenMiningChannelError", "UpdateChannel",
              "UpdateChannelError", "CloseChannel", "SetExtranoncePrefix", "SubmitSharesStandard",
              "SubmitSharesExtended", "SubmitSharesSuccess", "SubmitSharesError", "NewMiningJob",
              "NewExtendedMiningJob", "SetNewPrevHash", "SetCustomMiningJob",
              "SetCustomMiningJobSuccess", "SetCustomMiningJobError", "SetTarget",
              "SetGroupChannel", "SIGNATURE_NOISE_MESSAGE", "B0_16M"}
  BY DEF Layouts
<1>2. CASE n = "SetupConnection"
  <2>1. Layouts[n] = SetupConnection /\ n \notin {"B0_16M", "SetCustomMiningJob"}
    BY <1>2 DEF Layouts
  <2> QED
    BY <2>1, SetupConnectionTyped
<1>3. CASE n = "SetupConnectionSuccess"
  <2>1. Layouts[n] = SetupConnectionSuccess /\ n \notin {"B0_16M", "SetCustomMiningJob"}
    BY <1>3 DEF Layouts
  <2> QED
    BY <2>1, SetupConnectionSuccessTyped
<1>4. CASE n = "SetupConnectionError"
  <2>1. Layouts[n] = SetupConnectionError /\ n \notin {"B0_16M", "SetCustomMiningJob"}
    BY <1>4 DEF Layouts
  <2> QED
    BY <2>1, SetupConnectionErrorTyped
<1>5. CASE n = "ChannelEndpointChanged"
  <2>1. Layouts[n] = ChannelEndpointChanged /\ n \notin {"B0_16M", "SetCustomMiningJob"}
    BY <1>5 DEF Layouts
  <2> QED
    BY <2>1, ChannelEndpointChangedTyped
<1>6. CASE n = "Reconnect"
  <2>1. Layouts[n] = Reconnect /\ n \notin {"B0_16M", "SetCustomMiningJob"}
    BY <1>6 DEF Layouts
  <2> QED
    BY <2>1, ReconnectTyped
<1>7. CASE n = "OpenStandardMiningChannel"
  <2>1. Layouts[n] = OpenStandardMiningChannel /\ n \notin {"B0_16M", "SetCustomMiningJob"}
    BY <1>7 DEF Layouts
  <2> QED
    BY <2>1, OpenStandardMiningChannelTyped
<1>8. CASE n = "OpenStandardMiningChannelSuccess"
  <2>1. Layouts[n] = OpenStandardMiningChannelSuccess /\ n \notin {"B0_16M", "SetCustomMiningJob"}
    BY <1>8 DEF Layouts
  <2> QED
    BY <2>1, OpenStandardMiningChannelSuccessTyped
<1>9. CASE n = "OpenExtendedMiningChannel"
  <2>1. Layouts[n] = OpenExtendedMiningChannel /\ n \notin {"B0_16M", "SetCustomMiningJob"}
    BY <1>9 DEF Layouts
  <2> QED
    BY <2>1, OpenExtendedMiningChannelTyped
<1>10. CASE n = "OpenExtendedMiningChannelSuccess"
  <2>1. Layouts[n] = OpenExtendedMiningChannelSuccess /\ n \notin {"B0_16M", "SetCustomMiningJob"}
    BY <1>10 DEF Layouts
  <2> QED
    BY <2>1, OpenExtendedMiningChannelSuccessTyped
<1>11. CASE n = "OpenMiningChannelError"
  <2>1. Layouts[n] = OpenMiningChannelError /\ n \notin {"B0_16M", "SetCustomMiningJob"}
    BY <1>11 DEF Layouts
  <2> QED
    BY <2>1, OpenMiningChannelErrorTyped
<1>12. CASE n = "UpdateChannel"
  <2>1. Layouts[n] = UpdateChannel /\ n \notin {"B0_16M", "SetCustomMiningJob"}
    BY <1>12 DEF Layouts
  <2> QED
    BY <2>1, UpdateChannelTyped
<1>13. CASE n = "UpdateChannelError"
  <2>1. Layouts[n] = UpdateChannelError /\ n \notin {"B0_16M", "SetCustomMiningJob"}
    BY <1>13 DEF Layouts
  <2> QED
    BY <2>1, UpdateChannelErrorTyped
<1>14. CASE n = "CloseChannel"
  <2>1. Layouts[n] = CloseChannel /\ n \notin {"B0_16M", "SetCustomMiningJob"}
    BY <1>14 DEF Layouts
  <2> QED
    BY <2>1, CloseChannelTyped
<1>15. CASE n = "SetExtranoncePrefix"
  <2>1. Layouts[n] = SetExtranoncePrefix /\ n \notin {"B0_16M", "SetCustomMiningJob"}
    BY <1>15 DEF Layouts
  <2> QED
    BY <2>1, SetExtranoncePrefixTyped
<1>16. CASE n = "SubmitSharesStandard"
  <2>1. Layouts[n] = SubmitSharesStandard /\ n \notin {"B0_16M", "SetCustomMiningJob"}
    BY <1>16 DEF Layouts
  <2> QED
    BY <2>1, SubmitSharesStandardTyped
<1>17. CASE n = "SubmitSharesExtended"
  <2>1. Layouts[n] = SubmitSharesExtended /\ n \notin {"B0_16M", "SetCustomMiningJob"}
    BY <1>17 DEF Layouts
  <2> QED
    BY <2>1, SubmitSharesExtendedTyped
<1>18. CASE n = "SubmitSharesSuccess"
  <2>1. Layouts[n] = SubmitSharesSuccess /\ n \notin {"B0_16M", "SetCustomMiningJob"}
    BY <1>18 DEF Layouts
  <2> QED
    BY <2>1, SubmitSharesSuccessTyped
<1>19. CASE n = "SubmitSharesError"
  <2>1. Layouts[n] = SubmitSharesError /\ n \notin {"B0_16M", "SetCustomMiningJob"}
    BY <1>19 DEF Layouts
  <2> QED
    BY <2>1, SubmitSharesErrorTyped
<1>20. CASE n = "NewMiningJob"
  <2>1. Layouts[n] = NewMiningJob /\ n \notin {"B0_16M", "SetCustomMiningJob"}
    BY <1>20 DEF Layouts
  <2> QED
    BY <2>1, NewMiningJobTyped
<1>21. CASE n = "NewExtendedMiningJob"
  <2>1. Layouts[n] = NewExtendedMiningJob /\ n \notin {"B0_16M", "SetCustomMiningJob"}
    BY <1>21 DEF Layouts
  <2> QED
    BY <2>1, NewExtendedMiningJobTyped
<1>22. CASE n = "SetNewPrevHash"
  <2>1. Layouts[n] = SetNewPrevHash /\ n \notin {"B0_16M", "SetCustomMiningJob"}
    BY <1>22 DEF Layouts
  <2> QED
    BY <2>1, SetNewPrevHashTyped
<1>23. CASE n = "SetCustomMiningJob"
  <2>1. Layouts[n] = SetCustomMiningJob
    BY <1>23 DEF Layouts
  <2> QED
    BY <1>23, <2>1, SetCustomMiningJobTyped
<1>24. CASE n = "SetCustomMiningJobSuccess"
  <2>1. Layouts[n] = SetCustomMiningJobSuccess /\ n \notin {"B0_16M", "SetCustomMiningJob"}
    BY <1>24 DEF Layouts
  <2> QED
    BY <2>1, SetCustomMiningJobSuccessTyped
<1>25. CASE n = "SetCustomMiningJobError"
  <2>1. Layouts[n] = SetCustomMiningJobError /\ n \notin {"B0_16M", "SetCustomMiningJob"}
    BY <1>25 DEF Layouts
  <2> QED
    BY <2>1, SetCustomMiningJobErrorTyped
<1>26. CASE n = "SetTarget"
  <2>1. Layouts[n] = SetTarget /\ n \notin {"B0_16M", "SetCustomMiningJob"}
    BY <1>26 DEF Layouts
  <2> QED
    BY <2>1, SetTargetTyped
<1>27. CASE n = "SetGroupChannel"
  <2>1. Layouts[n] = SetGroupChannel /\ n \notin {"B0_16M", "SetCustomMiningJob"}
    BY <1>27 DEF Layouts
  <2> QED
    BY <2>1, SetGroupChannelTyped
<1>28. CASE n = "SIGNATURE_NOISE_MESSAGE"
  <2>1. Layouts[n] = SIGNATURE_NOISE_MESSAGE /\ n \notin {"B0_16M", "SetCustomMiningJob"}
    BY <1>28 DEF Layouts
  <2> QED
    BY <2>1, SIGNATURE_NOISE_MESSAGETyped
<1>29. CASE n = "B0_16M"
  <2>1. Layouts[n].enc = << "Bytes" := Bin16M >> /\ Layouts[n].dec = << "Bytes" := Bin16M >>
    BY <1>29 DEF Layouts
  <2> QED
    BY <1>29, <2>1 DEF BytesOnly
<1> QED
  BY <1>1, <1>2, <1>3, <1>4, <1>5, <1>6, <1>7, <1>8, <1>9, <1>10, <1>11, <1>12, <1>13, <1>14,
     <1>15, <1>16, <1>17, <1>18, <1>19, <1>20, <1>21, <1>22, <1>23, <1>24, <1>25, <1>26, <1>27,
     <1>28, <1>29

-----------------------------------------------------------------------------
(* Values and the builder *)

\* The values of Go's types, and the bytes that stand for them.
ScalarValues(T) ==
  CASE T.kind = "int" -> 0 .. Weight[T.width] - 1
    [] T.kind = "bool" -> BOOLEAN
    [] OTHER -> [1 .. T.width -> Bytes]

Values(T) ==
  CASE T.kind = "bin" -> Seq(Bytes)
    [] T.kind \in {"seq", "loop"} -> Seq(ScalarValues(T.elem))
    [] OTHER -> ScalarValues(T)

Raw(T, v) ==
  CASE T.kind = "int" -> LittleEndian(v, T.width)
    [] T.kind = "bool" -> <<IF v THEN 1 ELSE 0>>
    [] OTHER -> v

Raws(T, v) == [i \in 1 .. Len(v) |-> Raw(T, v[i])]

\* What follows the count of a list.
Behind(T, v) == IF T.kind = "bin" THEN v ELSE FlattenSeq(Raws(T.elem, v))

Whole(T, v) ==
  IF T.kind \in {"bin", "seq", "loop"} THEN LittleEndian(Len(v), T.width) \o Behind(T, v)
  ELSE Raw(T, v)

TooLong(T, v) == "limit" \in DOMAIN T /\ Len(v) > T.limit

Builders == [data : Seq(Bytes), err : BOOLEAN]

LEMMA RawType ==
  ASSUME NEW T, IsScalar(T), NEW v \in ScalarValues(T)
  PROVE  Raw(T, v) \in Seq(Bytes) /\ Len(Raw(T, v)) = T.width
<1>1. CASE T.kind = "int"
  <2>1. T.width \in 0 .. 8 /\ v \in Nat /\ Raw(T, v) = LittleEndian(v, T.width)
    <3>1. T.width \in 0 .. 8
      BY <1>1 DEF IsScalar
    <3>2. v \in 0 .. Weight[T.width] - 1
      BY <1>1 DEF ScalarValues
    <3>3. Weight[T.width] \in Nat
      BY <3>1, WeightPositive
    <3>4. Raw(T, v) = LittleEndian(v, T.width)
      BY <1>1 DEF Raw
    <3> QED
      BY <3>1, <3>2, <3>3, <3>4
  <2>2. LittleEndian(v, T.width) \in Seq(Bytes) /\ Len(LittleEndian(v, T.width)) = T.width
    BY <2>1, LittleEndianType
  <2> QED
    BY <2>1, <2>2
<1>2. CASE T.kind = "bool"
  <2>1. 0 \in Bytes /\ 1 \in Bytes
    BY Weights DEF Bytes
  <2>2. Raw(T, v) = <<IF v THEN 1 ELSE 0>> /\ T.width = 1
    BY <1>2 DEF Raw, IsScalar
  <2> DEFINE x == IF v THEN 1 ELSE 0
  <2>3. x \in Bytes
    BY <2>1
  <2> HIDE DEF x
  <2>4. <<x>> \in Seq(Bytes) /\ Len(<<x>>) = 1
    BY <2>3
  <2> QED
    BY <2>2, <2>4 DEF x
<1>3. CASE T.kind \in {"fixed", "array"}
  <2>1. Raw(T, v) = v /\ v \in [1 .. T.width -> Bytes] /\ T.width \in Nat
    BY <1>3 DEF Raw, ScalarValues, IsScalar
  <2> QED
    BY <2>1
<1> QED
  BY <1>1, <1>2, <1>3 DEF IsScalar

LEMMA WithData ==
  ASSUME NEW d, NEW e, NEW x
  PROVE  /\ [[data |-> d, err |-> e] EXCEPT !.data = x] = [data |-> x, err |-> e]
         /\ [[data |-> d, err |-> e] EXCEPT !.err = x] = [data |-> d, err |-> x]
  OBVIOUS

\* A builder with bytes added.
LEMMA AddBytesIs ==
  ASSUME NEW b \in Builders, NEW s \in Seq(Bytes)
  PROVE  /\ AddBytes(b, s) = [data |-> IF b.err THEN b.data ELSE b.data \o s, err |-> b.err]
         /\ AddBytes(b, s) \in Builders
<1>1. PICK d \in Seq(Bytes), e \in BOOLEAN : b = [data |-> d, err |-> e]
  BY DEF Builders
<1>2. b.data = d /\ b.err = e
  BY <1>1
<1>3. d \o s \in Seq(Bytes)
  BY ConcatProperties
<1>4. [b EXCEPT !.data = d \o s] = [data |-> d \o s, err |-> e]
  <2> DEFINE x == d \o s
  <2> HIDE DEF x
  <2>1. [[data |-> d, err |-> e] EXCEPT !.data = x] = [data |-> x, err |-> e]
    BY WithData
  <2> QED
    BY <1>1, <2>1, Zenon DEF x
<1>5. CASE e
  BY <1>1, <1>2, <1>5 DEF AddBytes
<1>6. CASE ~ e
  BY <1>1, <1>2, <1>3, <1>4, <1>6 DEF AddBytes, Builders
<1> QED
  BY <1>1, <1>5, <1>6

LEMMA NewBuilder == NewBinaryBuilder \in Builders /\ NewBinaryBuilder.data = <<>> /\ NewBinaryBuilder.err = FALSE
  BY EmptySeq DEF NewBinaryBuilder, Builders

LEMMA AddScalarIs ==
  ASSUME NEW T, IsScalar(T), NEW v \in ScalarValues(T), NEW b \in Builders
  PROVE  AddScalar(b, T, v) = [data |-> IF b.err THEN b.data ELSE b.data \o Raw(T, v), err |-> b.err]
<1>1. AddScalar(b, T, v) = AddBytes(b, Raw(T, v))
  BY DEF AddScalar, AddInt, AddBool, Raw, IsScalar
<1>2. Raw(T, v) \in Seq(Bytes)
  BY RawType
<1> QED
  BY <1>1, <1>2, AddBytesIs

LEMMA RawsType ==
  ASSUME NEW E, IsScalar(E), NEW v \in Seq(ScalarValues(E))
  PROVE  /\ Raws(E, v) \in [1 .. Len(v) -> Seq(Bytes)]
         /\ \A i \in 1 .. Len(v) : Len(Raws(E, v)[i]) = E.width
<1>1. ASSUME NEW i \in 1 .. Len(v)
      PROVE  Raw(E, v[i]) \in Seq(Bytes) /\ Len(Raw(E, v[i])) = E.width
  <2>1. v[i] \in ScalarValues(E)
    BY ElementOfSeq
  <2> QED
    BY <2>1, RawType
<1> QED
  BY <1>1 DEF Raws

\* Sequence.Encode writes the elements one behind the other.
LEMMA SequenceEncodeIs ==
  ASSUME NEW E, IsScalar(E), NEW v \in Seq(ScalarValues(E))
  PROVE  SequenceEncode(E, v) = FlattenSeq(Raws(E, v))
<1>1. ASSUME NEW i \in 1 .. Len(v)
      PROVE  AddScalar(NewBinaryBuilder, E, v[i]).data = Raw(E, v[i])
  <2>1. v[i] \in ScalarValues(E)
    BY ElementOfSeq
  <2>2. Raw(E, v[i]) \in Seq(Bytes)
    BY <2>1, RawType
  <2>3. AddScalar(NewBinaryBuilder, E, v[i]) = [data |-> <<>> \o Raw(E, v[i]), err |-> FALSE]
    <3> DEFINE b == NewBinaryBuilder
    <3>1. b \in Builders /\ b.data = <<>> /\ b.err = FALSE
      BY NewBuilder
    <3> HIDE DEF b
    <3>2. AddScalar(b, E, v[i]) = [data |-> IF b.err THEN b.data ELSE b.data \o Raw(E, v[i]), err |-> b.err]
      BY <2>1, <3>1, AddScalarIs
    <3> QED
      BY <3>1, <3>2 DEF b
  <2>4. <<>> \o Raw(E, v[i]) = Raw(E, v[i])
    BY <2>2, ConcatEmptySeq
  <2> QED
    BY <2>3, <2>4
<1>2. DOMAIN v = 1 .. Len(v)
  BY LenProperties
<1>3. [i \in DOMAIN v |-> AddScalar(NewBinaryBuilder, E, v[i]).data] = Raws(E, v)
  BY <1>1, <1>2 DEF Raws
<1> QED
  BY <1>3 DEF SequenceEncode

\* Sequences of bytes, one behind the other, are bytes.
LEMMA FlattenType ==
  ASSUME NEW S, NEW n \in Nat, NEW f \in [1 .. n -> Seq(S)]
  PROVE  FlattenSeq(f) \in Seq(S)
<1> DEFINE FirstParts(m) == [i \in 1 .. m |-> f[i]]
           T == {m \in Nat : m <= n => FlattenSeq(FirstParts(m)) \in Seq(S)}
<1>1. 0 \in T
  <2>1. FirstParts(0) = <<>>
    OBVIOUS
  <2> HIDE DEF FirstParts
  <2>2. FlattenSeq(FirstParts(0)) \in Seq(S)
    BY <2>1, FlattenNone, EmptySeq
  <2> QED
    BY <2>2
<1>2. ASSUME NEW m \in T PROVE m + 1 \in T
  <2> SUFFICES ASSUME m + 1 <= n PROVE FlattenSeq(FirstParts(m + 1)) \in Seq(S)
    OBVIOUS
  <2>1. FirstParts(m + 1) \in [1 .. m + 1 -> Seq(S)] /\ FirstParts(m + 1)[m + 1] \in Seq(S)
    OBVIOUS
  <2>2. [i \in 1 .. m |-> FirstParts(m + 1)[i]] = FirstParts(m)
    OBVIOUS
  <2>3. FlattenSeq(FirstParts(m)) \in Seq(S)
    OBVIOUS
  <2> HIDE DEF FirstParts
  <2>4. FlattenSeq(FirstParts(m + 1)) = FlattenSeq([i \in 1 .. m |-> FirstParts(m + 1)[i]]) \o FirstParts(m + 1)[m + 1]
    BY <2>1, FlattenStep
  <2>5. FlattenSeq(FirstParts(m + 1)) = FlattenSeq(FirstParts(m)) \o FirstParts(m + 1)[m + 1]
    BY <2>2, <2>4
  <2> QED
    BY <2>1, <2>3, <2>5, ConcatProperties
<1>3. n \in T
  <2>1. T \in SUBSET Nat
    OBVIOUS
  <2> HIDE DEF T
  <2> QED
    BY <1>1, <1>2, <2>1, SetInduction
<1>4. FirstParts(n) = f
  OBVIOUS
<1>5. FlattenSeq(FirstParts(n)) \in Seq(S)
  <2> HIDE DEF FirstParts
  <2> QED
    BY <1>3
<1> QED
  BY <1>4, <1>5

LEMMA BehindType ==
  ASSUME NEW T, IsList(T), NEW v \in Values(T)
  PROVE  Behind(T, v) \in Seq(Bytes) /\ Len(v) \in Nat
<1>1. CASE T.kind = "bin"
  <2>1. v \in Seq(Bytes)
    BY <1>1 DEF Values
  <2> QED
    BY <1>1, <2>1 DEF Behind
<1>2. CASE T.kind \in {"seq", "loop"}
  <2>1. v \in Seq(ScalarValues(T.elem)) /\ IsScalar(T.elem)
    BY <1>2 DEF Values, IsList
  <2>2. Len(v) \in Nat
    BY <2>1, LenProperties
  <2>3. Raws(T.elem, v) \in [1 .. Len(v) -> Seq(Bytes)]
    BY <2>1, RawsType
  <2>4. FlattenSeq(Raws(T.elem, v)) \in Seq(Bytes)
    BY <2>2, <2>3, FlattenType
  <2> QED
    BY <1>2, <2>2, <2>4 DEF Behind
<1> QED
  BY <1>1, <1>2 DEF IsList

\* One call of the builder: it adds the bytes of the value, or fails.
LEMMA AddFieldIs ==
  ASSUME NEW T, IsScalar(T) \/ IsList(T), NEW v \in Values(T), NEW b \in Builders
  PROVE  AddField(b, T, v) =
           [data |-> IF b.err \/ TooLong(T, v) THEN b.data ELSE b.data \o Whole(T, v),
            err |-> b.err \/ TooLong(T, v)]
<1>0. PICK d \in Seq(Bytes), e \in BOOLEAN : b = [data |-> d, err |-> e] /\ b.data = d /\ b.err = e
  BY DEF Builders
<1>1. CASE IsScalar(T)
  <2>1. /\ T.kind \in {"int", "bool", "fixed", "array"} /\ "limit" \notin DOMAIN T
    BY <1>1 DEF IsScalar
  <2>2. v \in ScalarValues(T)
    BY <2>1 DEF Values
  <2>3. AddField(b, T, v) = AddScalar(b, T, v) /\ Whole(T, v) = Raw(T, v) /\ ~ TooLong(T, v)
    BY <2>1 DEF AddField, Whole, TooLong
  <2>4. AddScalar(b, T, v) = [data |-> IF b.err THEN b.data ELSE b.data \o Raw(T, v), err |-> b.err]
    BY <1>1, <2>2, AddScalarIs
  <2> QED
    BY <1>0, <2>3, <2>4
<1>2. CASE IsList(T)
  <2>1. /\ T.kind \in {"bin", "seq", "loop"} /\ "limit" \in DOMAIN T
        /\ T.width \in 1 .. 3 /\ T.limit \in Nat
    BY <1>2 DEF IsList
  <2>2. Behind(T, v) \in Seq(Bytes) /\ Len(v) \in Nat
    BY <1>2, BehindType
  <2>3. AddField(b, T, v) = AddCounted(b, T, Len(v), Behind(T, v))
    <3>1. CASE T.kind = "bin"
      BY <3>1 DEF AddField, Behind
    <3>2. CASE T.kind \in {"seq", "loop"}
      <4>1. v \in Seq(ScalarValues(T.elem)) /\ IsScalar(T.elem)
        BY <3>2, <1>2 DEF Values, IsList
      <4>2. SequenceEncode(T.elem, v) = FlattenSeq(Raws(T.elem, v))
        BY <4>1, SequenceEncodeIs
      <4> QED
        BY <3>2, <4>2 DEF AddField, Behind
    <3> QED
      BY <2>1, <3>1, <3>2
  <2>4. TooLong(T, v) = (Len(v) > T.limit)
    BY <2>1 DEF TooLong
  <2>5. CASE e \/ Len(v) > T.limit
    <3>1. AddField(b, T, v) = [b EXCEPT !.err = TRUE]
      BY <1>0, <2>3, <2>5 DEF AddCounted
    <3>2. [b EXCEPT !.err = TRUE] = [data |-> d, err |-> TRUE]
      <4> DEFINE x == TRUE
      <4> HIDE DEF x
      <4>1. [[data |-> d, err |-> e] EXCEPT !.err = x] = [data |-> d, err |-> x]
        BY WithData
      <4> QED
        BY <1>0, <4>1, Zenon DEF x
    <3>3. AddField(b, T, v) = [data |-> d, err |-> TRUE]
      BY <3>1, <3>2
    <3> QED
      BY <1>0, <2>4, <2>5, <3>3
  <2>6. CASE ~ e /\ ~ (Len(v) > T.limit)
    <3> DEFINE p == LittleEndian(Len(v), T.width)
               c == AddBytes(b, p)
    <3>1. p \in Seq(Bytes)
      <4>1. T.width \in 0 .. 8
        BY <2>1
      <4> QED
        BY <2>2, <4>1, LittleEndianType
    <3>2. AddField(b, T, v) = AddBytes(c, Behind(T, v))
      BY <1>0, <2>3, <2>6 DEF AddCounted, AddInt
    <3> HIDE DEF p
    <3>3. /\ AddBytes(b, p) = [data |-> IF b.err THEN b.data ELSE b.data \o p, err |-> b.err]
          /\ AddBytes(b, p) \in Builders
      BY <3>1, AddBytesIs
    <3>4. c \in Builders /\ c.data = d \o p /\ c.err = FALSE
      BY <1>0, <2>6, <3>3
    <3> HIDE DEF c
    <3>5. AddBytes(c, Behind(T, v)) = [data |-> IF c.err THEN c.data ELSE c.data \o Behind(T, v), err |-> c.err]
      BY <2>2, <3>4, AddBytesIs
    <3>6. AddField(b, T, v) = [data |-> (d \o p) \o Behind(T, v), err |-> FALSE]
      BY <3>2, <3>4, <3>5
    <3>7. (d \o p) \o Behind(T, v) = d \o (p \o Behind(T, v))
      BY <2>2, <3>1, ConcatAssociative, SMTT(30)
    <3>8. Whole(T, v) = p \o Behind(T, v)
      BY <2>1 DEF Whole, p
    <3> QED
      BY <1>0, <2>4, <2>6, <3>6, <3>7, <3>8
  <2> QED
    BY <2>5, <2>6
<1> QED
  BY <1>1, <1>2

LEMMA WholeType ==
  ASSUME NEW T, IsScalar(T) \/ IsList(T), NEW v \in Values(T)
  PROVE  Whole(T, v) \in Seq(Bytes)
<1>1. CASE IsScalar(T)
  <2>1. /\ T.kind \in {"int", "bool", "fixed", "array"}
    BY <1>1 DEF IsScalar
  <2>2. v \in ScalarValues(T) /\ Whole(T, v) = Raw(T, v)
    BY <2>1 DEF Values, Whole
  <2> QED
    BY <1>1, <2>2, RawType
<1>2. CASE IsList(T)
  <2>1. /\ T.kind \in {"bin", "seq", "loop"} /\ T.width \in 0 .. 8
    BY <1>2 DEF IsList
  <2>2. Behind(T, v) \in Seq(Bytes) /\ Len(v) \in Nat
    BY <1>2, BehindType
  <2>3. LittleEndian(Len(v), T.width) \in Seq(Bytes)
    BY <2>1, <2>2, LittleEndianType
  <2>4. Whole(T, v) = LittleEndian(Len(v), T.width) \o Behind(T, v)
    BY <2>1 DEF Whole
  <2> QED
    BY <2>2, <2>3, <2>4, ConcatProperties
<1> QED
  BY <1>1, <1>2

-----------------------------------------------------------------------------
(* The messages that are encoded *)

Usable(s) ==
  /\ Len(s) \in Nat /\ DOMAIN s = 1 .. Len(s)
  /\ \A j \in 1 .. Len(s) : IsScalar(s[j].type) \/ IsList(s[j].type)

LEMMA TypesTyped == \A T \in Types : (IsScalar(T) \/ IsList(T)) /\ IsBalanced(T)
  BY ScalarTypesTyped, ListTypesTyped DEF Types, IsBalanced

LEMMA FieldsUsable ==
  ASSUME NEW s, IsFields(s)
  PROVE  Usable(s)
  BY TypesTyped DEF IsFields, Usable

LEMMA LayoutsUsable ==
  ASSUME NEW n \in DOMAIN Layouts
  PROVE  Usable(Layouts[n].enc) /\ Usable(Layouts[n].dec) /\ Distinct(Layouts[n].enc)
<1> DEFINE L == Layouts[n]
<1>1. \/ n = "B0_16M" /\ BytesOnly(Layouts[n])
      \/ n = "SetCustomMiningJob" /\ IsMessage(Layouts[n])
      \/ n \notin {"B0_16M", "SetCustomMiningJob"} /\ IsPlain(Layouts[n])
  BY LayoutsTyped
<1> HIDE DEF L
<1>2. CASE IsMessage(L)
  BY <1>2, FieldsUsable DEF IsMessage, L
<1>3. CASE BytesOnly(L)
  <2> DEFINE s == << "Bytes" := Bin16M >>
  <2>1. L.enc = s /\ L.dec = s
    BY <1>3 DEF BytesOnly
  <2>2. Len(s) = 1 /\ DOMAIN s = 1 .. 1 /\ s[1].type = Bin16M
    BY DEF :=
  <2>3. Usable(s) /\ Distinct(s)
    <3> HIDE DEF s
    <3> QED
      BY <2>2, Bin16MTyped DEF Usable, Distinct
  <2> QED
    BY <2>1, <2>3 DEF L
<1> QED
  BY <1>1, <1>2, <1>3 DEF L, IsPlain

\* A message of this layout: every field has a value of its type.
IsOf(m, L) ==
  /\ DOMAIN m = {L.enc[j].name : j \in DOMAIN L.enc}
  /\ \A j \in 1 .. Len(L.enc) : m[L.enc[j].name] \in Values(L.enc[j].type)

LEMMA TypicalScalar ==
  ASSUME NEW T, IsScalar(T), NEW j \in Nat
  PROVE  Typical(T, j) \in ScalarValues(T)
<1>1. CASE T.kind = "int"
  <2>1. Typical(T, j) = j % Weight[T.width] /\ ScalarValues(T) = 0 .. Weight[T.width] - 1
    BY <1>1 DEF Typical, ScalarValues
  <2>2. T.width \in 0 .. 8
    BY <1>1 DEF IsScalar
  <2> DEFINE m == Weight[T.width]
  <2>3. m \in Nat /\ m > 0
    BY <2>2, WeightPositive
  <2> HIDE DEF m
  <2>4. j % m \in 0 .. m - 1
    BY <2>3
  <2> QED
    BY <2>1, <2>4 DEF m
<1>2. CASE T.kind = "bool"
  BY <1>2 DEF Typical, ScalarValues
<1>3. CASE T.kind \in {"fixed", "array"}
  <2>1. Typical(T, j) = [i \in 1 .. T.width |-> (i + j) % Base]
    BY <1>3 DEF Typical
  <2>2. ScalarValues(T) = [1 .. T.width -> Bytes]
    BY <1>3 DEF ScalarValues
  <2>3. ASSUME NEW i \in 1 .. T.width PROVE (i + j) % Base \in Bytes
    BY Weights DEF Bytes
  <2> QED
    BY <2>1, <2>2, <2>3
<1> QED
  BY <1>1, <1>2, <1>3 DEF IsScalar

LEMMA TypicalType ==
  ASSUME NEW T, IsScalar(T) \/ IsList(T), NEW j \in Nat
  PROVE  Typical(T, j) \in Values(T)
<1>1. CASE IsScalar(T)
  <2>1. T.kind \in {"int", "bool", "fixed", "array"}
    BY <1>1 DEF IsScalar
  <2>2. Values(T) = ScalarValues(T)
    BY <2>1 DEF Values
  <2> QED
    BY <1>1, <2>2, TypicalScalar
<1>2. CASE IsList(T) /\ T.kind = "bin"
  <2>1. j % Base \in Bytes
    BY Weights DEF Bytes
  <2>2. Typical(T, j) = <<j % Base>> /\ Values(T) = Seq(Bytes)
    BY <1>2 DEF Typical, Values
  <2> QED
    BY <2>1, <2>2
<1>3. CASE IsList(T) /\ T.kind \in {"seq", "loop"}
  <2>1. IsScalar(T.elem) /\ Values(T) = Seq(ScalarValues(T.elem))
    BY <1>3 DEF Values, IsList
  <2>2. T.elem.kind \in {"int", "bool", "fixed", "array"}
    BY <2>1 DEF IsScalar
  <2>3. Typical(T, j) = <<Typical(T.elem, j)>>
    BY <1>3, <2>2 DEF Typical
  <2>4. Typical(T.elem, j) \in ScalarValues(T.elem)
    BY <2>1, TypicalScalar
  <2> QED
    BY <2>1, <2>3, <2>4
<1> QED
  BY <1>1, <1>2, <1>3 DEF IsList

LEMMA EdgesType ==
  ASSUME NEW T, IsScalar(T) \/ IsList(T)
  PROVE  Edges(T) \subseteq Values(T)
<1>1. CASE IsScalar(T) /\ T.kind = "int"
  <2>1. Edges(T) = {0, Weight[T.width - 1], Weight[T.width] - 1} /\ Values(T) = 0 .. Weight[T.width] - 1
    BY <1>1 DEF Edges, Values, ScalarValues
  <2>2. T.width - 1 \in 0 .. 7 /\ T.width - 1 \in 0 .. 8 /\ T.width \in 0 .. 8 /\ (T.width - 1) + 1 = T.width
    BY <1>1 DEF IsScalar
  <2>3. Weight[T.width - 1] \in Nat /\ Weight[T.width - 1] > 0 /\ Weight[T.width] \in Nat /\ Weight[T.width] > 0
    BY <2>2, WeightPositive
  <2>4. Weight[(T.width - 1) + 1] = Base * Weight[T.width - 1]
    BY <2>2, WeightStep
  <2>5. ASSUME NEW m \in Nat, m > 0 PROVE m < Base * m
    <3>1. (Base - 1) * m > 0 /\ (Base - 1) * m = Base * m - m
      BY <2>5, Weights
    <3> QED
      BY <3>1, <2>5, Weights
  <2>6. Weight[T.width - 1] < Weight[T.width]
    BY <2>2, <2>3, <2>4, <2>5
  <2> QED
    BY <2>1, <2>3, <2>6
<1>2. CASE IsScalar(T) /\ T.kind = "bool"
  BY <1>2 DEF Edges, Values, ScalarValues
<1>3. CASE IsScalar(T) /\ T.kind \in {"fixed", "array"}
  <2>1. Values(T) = [1 .. T.width -> Bytes]
    BY <1>3 DEF Values, ScalarValues
  <2>2. Zero(T) = [i \in 1 .. T.width |-> 0] /\ Edges(T) = {Zero(T), [i \in 1 .. T.width |-> Base - 1]}
    BY <1>3 DEF Edges, Zero
  <2>3. 0 \in Bytes /\ Base - 1 \in Bytes
    BY Weights DEF Bytes
  <2> QED
    BY <2>1, <2>2, <2>3
<1>4. CASE IsList(T) /\ T.kind = "bin"
  <2>1. Edges(T) = {[i \in 1 .. n |-> i % Base] : n \in {0, T.limit, T.limit + 1}} /\ Values(T) = Seq(Bytes)
    BY <1>4 DEF Edges, Values
  <2>2. ASSUME NEW n \in {0, T.limit, T.limit + 1} PROVE [i \in 1 .. n |-> i % Base] \in Seq(Bytes)
    <3>1. n \in Nat
      BY <1>4 DEF IsList
    <3>2. \A i \in 1 .. n : i % Base \in Bytes
      BY <3>1, Weights DEF Bytes
    <3> QED
      BY <3>1, <3>2
  <2> QED
    BY <2>1, <2>2
<1>5. CASE IsList(T) /\ T.kind \in {"seq", "loop"}
  <2>1. IsScalar(T.elem) /\ Values(T) = Seq(ScalarValues(T.elem))
    BY <1>5 DEF Values, IsList
  <2>2. Edges(T) = {[i \in 1 .. n |-> Typical(T.elem, i)] : n \in {0, T.limit, T.limit + 1}}
    BY <1>5 DEF Edges
  <2>3. ASSUME NEW n \in {0, T.limit, T.limit + 1}
        PROVE  [i \in 1 .. n |-> Typical(T.elem, i)] \in Seq(ScalarValues(T.elem))
    <3>1. n \in Nat
      BY <1>5 DEF IsList
    <3>2. \A i \in 1 .. n : Typical(T.elem, i) \in ScalarValues(T.elem)
      BY <2>1, <3>1, TypicalScalar
    <3> QED
      BY <3>1, <3>2
  <2> QED
    BY <2>1, <2>2, <2>3
<1> QED
  BY <1>1, <1>2, <1>3, <1>4, <1>5 DEF IsScalar, IsList

\* The field of a name.
LEMMA FieldOf ==
  ASSUME NEW s, Usable(s), Distinct(s), NEW j \in 1 .. Len(s)
  PROVE  (CHOOSE i \in DOMAIN s : s[i].name = s[j].name) = j
<1>1. j \in DOMAIN s /\ s[j].name = s[j].name
  BY DEF Usable
<1>2. ASSUME NEW i \in DOMAIN s, s[i].name = s[j].name PROVE i = j
  BY <1>2 DEF Usable, Distinct
<1> QED
  BY <1>1, <1>2

LEMMA FilledIs ==
  ASSUME NEW n \in DOMAIN Layouts, NEW o \in Nat
  PROVE  IsOf(Filled(n, o), Layouts[n])
<1> DEFINE s == Layouts[n].enc
           At(f) == CHOOSE j \in DOMAIN s : s[j].name = f
           m == [f \in {s[j].name : j \in DOMAIN s} |-> Typical(s[At(f)].type, At(f) + o)]
<1>1. Usable(s) /\ Distinct(s)
  BY LayoutsUsable
<1>2. Filled(n, o) = m
  BY DEF Filled
<1>3. ASSUME NEW j \in 1 .. Len(s) PROVE m[s[j].name] \in Values(s[j].type)
  <2> HIDE DEF s
  <2>1. j \in DOMAIN s /\ (IsScalar(s[j].type) \/ IsList(s[j].type)) /\ j + o \in Nat
    BY <1>1 DEF Usable
  <2>2. At(s[j].name) = j
    BY <1>1, FieldOf
  <2> HIDE DEF At
  <2>3. m[s[j].name] = Typical(s[j].type, j + o)
    BY <2>1, <2>2
  <2> HIDE DEF m
  <2>4. Typical(s[j].type, j + o) \in Values(s[j].type)
    BY <2>1, TypicalType
  <2> QED
    BY <2>3, <2>4
<1>4. DOMAIN m = {s[j].name : j \in DOMAIN s}
  OBVIOUS
<1> QED
  BY <1>2, <1>3, <1>4 DEF IsOf

LEMMA InputsTyped ==
  ASSUME NEW n \in DOMAIN Layouts, NEW m \in Inputs(n)
  PROVE  IsOf(m, Layouts[n])
<1> DEFINE L == Layouts[n]
           s == L.enc
           p == Filled(n, 0)
<1>1. Usable(s) /\ Distinct(s)
  BY LayoutsUsable
<1>2. IsOf(p, L)
  BY FilledIs
<1>3. m = p \/ \E j \in DOMAIN s : \E v \in Edges(s[j].type) : m = [p EXCEPT ![s[j].name] = v]
  BY DEF Inputs
<1> HIDE DEF L, p
<1>4. ASSUME NEW j \in DOMAIN s, NEW v \in Edges(s[j].type), m = [p EXCEPT ![s[j].name] = v]
      PROVE  IsOf(m, L)
  <2>1. j \in 1 .. Len(s) /\ (IsScalar(s[j].type) \/ IsList(s[j].type))
    BY <1>1 DEF Usable
  <2>2. v \in Values(s[j].type)
    BY <2>1, EdgesType
  <2>3. DOMAIN m = DOMAIN p
    BY <1>4
  <2>4. ASSUME NEW i \in 1 .. Len(s) PROVE m[s[i].name] \in Values(s[i].type)
    <3>0. s[i].name \in DOMAIN p /\ p[s[i].name] \in Values(s[i].type)
      BY <1>1, <1>2 DEF IsOf, Usable
    <3>1. CASE s[i].name = s[j].name
      <4>1. i = j
        BY <1>1, <2>1, <3>1 DEF Distinct
      <4> QED
        BY <1>4, <2>2, <3>0, <4>1
    <3>2. CASE s[i].name # s[j].name
      BY <1>4, <3>0, <3>2
    <3> QED
      BY <3>1, <3>2
  <2> QED
    BY <1>2, <2>3, <2>4 DEF IsOf
<1> QED
  BY <1>2, <1>3, <1>4 DEF L

-----------------------------------------------------------------------------
(* Encode *)

\* The bytes of a field of message m, and whether the builder refuses it.
Part(L, m, j) == Whole(L.enc[j].type, m[L.enc[j].name])
Long(L, m, j) == TooLong(L.enc[j].type, m[L.enc[j].name])

Parts(L, m, n) == FlattenSeq([j \in 1 .. n |-> Part(L, m, j)])

\* The builder after n fields: it holds the fields before the first one that
\* is too long.
Built(b, L, m, n) ==
  \E last \in 0 .. n :
    /\ \A j \in 1 .. last : ~ Long(L, m, j)
    /\ IF b.err THEN last < n /\ Long(L, m, last + 1) ELSE last = n
    /\ b.data = Parts(L, m, last)

Phases == {"encode", "refused", "decode", "failed", "accepted", "panicked"}

\* What is left after an error: the fields before the one that is too long,
\* or nothing if that one is in the embedded message.
Kept ==
  \E last \in 0 .. k - 1 :
    /\ last < k - 1 /\ Long(layout, msg, last + 1)
    /\ \A j \in 1 .. last : ~ Long(layout, msg, j)
    /\ bb.data = IF last + 1 <= Embedded(name) THEN <<>> ELSE Parts(layout, msg, last)

BuilderInv ==
  /\ name \in Names /\ layout = Layouts[name] /\ IsOf(msg, layout)
  /\ bb \in Builders
  /\ phase \in Phases
  /\ k \in Nat \ {0}
  /\ phase = "encode" =>
       /\ k - 1 <= Len(Enc) /\ Built(bb, layout, msg, k - 1)
       /\ k - 1 > Embedded(name) => \A j \in 1 .. Embedded(name) : ~ Long(layout, msg, j)
  /\ phase = "refused" => k - 1 <= Len(Enc) /\ bb.err /\ Kept
  /\ phase \notin {"encode", "refused"} => ~ bb.err /\ Built(bb, layout, msg, Len(Enc))

LEMMA EncUsable ==
  ASSUME BuilderInv
  PROVE  Usable(Enc) /\ Usable(Dec) /\ Distinct(Enc)
<1>1. name \in DOMAIN Layouts /\ layout = Layouts[name]
  BY NamesAssumption DEF BuilderInv
<1> QED
  BY <1>1, LayoutsUsable DEF Enc, Dec

\* The embedded message is not all of the message.
LEMMA EmbeddedLess ==
  ASSUME NEW m
  PROVE  /\ Embedded(m) \in Nat
         /\ Embedded(m) # 0 => Embedded(m) < Len(Layouts[m].enc)
<1>1. CASE m = "OpenExtendedMiningChannel"
  <2>1. Embedded(m) = 4
    BY <1>1 DEF Embedded, OpenStandardMiningChannel
  <2>2. Layouts[m].enc = OpenExtendedMiningChannel.enc
    BY <1>1 DEF Layouts
  <2>3. Len(OpenExtendedMiningChannel.enc) = 5
    BY DEF OpenExtendedMiningChannel, OpenStandardMiningChannel
  <2> QED
    BY <2>1, <2>2, <2>3
<1>2. CASE m = "SubmitSharesExtended"
  <2>1. Embedded(m) = 6
    BY <1>2 DEF Embedded, SubmitSharesStandard
  <2>2. Layouts[m].enc = SubmitSharesExtended.enc
    BY <1>2 DEF Layouts
  <2>3. Len(SubmitSharesExtended.enc) = 7
    BY DEF SubmitSharesExtended, SubmitSharesStandard
  <2> QED
    BY <2>1, <2>2, <2>3
<1>3. CASE m \notin {"OpenExtendedMiningChannel", "SubmitSharesExtended"}
  BY <1>3 DEF Embedded
<1> QED
  BY <1>1, <1>2, <1>3

LEMMA PartsStep ==
  ASSUME NEW L, Usable(L.enc), NEW m, IsOf(m, L), NEW n \in Nat, n + 1 <= Len(L.enc)
  PROVE  /\ Parts(L, m, n) \in Seq(Bytes)
         /\ Part(L, m, n + 1) \in Seq(Bytes)
         /\ Parts(L, m, n + 1) = Parts(L, m, n) \o Part(L, m, n + 1)
<1>1. ASSUME NEW j \in 1 .. n + 1 PROVE Part(L, m, j) \in Seq(Bytes)
  <2>1. j \in 1 .. Len(L.enc)
    BY DEF Usable
  <2>2. /\ IsScalar(L.enc[j].type) \/ IsList(L.enc[j].type)
        /\ m[L.enc[j].name] \in Values(L.enc[j].type)
    BY <2>1 DEF Usable, IsOf
  <2> QED
    BY <2>2, WholeType DEF Part
<1> DEFINE f == [j \in 1 .. n + 1 |-> Part(L, m, j)]
           g == [j \in 1 .. n |-> Part(L, m, j)]
<1>2. f \in [1 .. n + 1 -> Seq(Bytes)] /\ g \in [1 .. n -> Seq(Bytes)] /\ f[n + 1] = Part(L, m, n + 1)
  BY <1>1
<1>3. [i \in 1 .. n |-> f[i]] = g
  OBVIOUS
<1> HIDE DEF f, g
<1>4. FlattenSeq(f) = FlattenSeq([i \in 1 .. n |-> f[i]]) \o f[n + 1]
  BY <1>2, FlattenStep
<1>5. FlattenSeq(g) \in Seq(Bytes)
  BY <1>2, FlattenType
<1>6. Parts(L, m, n + 1) = FlattenSeq(f) /\ Parts(L, m, n) = FlattenSeq(g)
  BY DEF f, g, Parts
<1>7. Part(L, m, n + 1) \in Seq(Bytes)
  BY <1>1
<1> QED
  BY <1>2, <1>3, <1>4, <1>5, <1>6, <1>7

LEMMA PartsNone == \A L, m : Parts(L, m, 0) = <<>>
<1> SUFFICES ASSUME NEW L, NEW m PROVE Parts(L, m, 0) = <<>>
  OBVIOUS
<1>1. [j \in 1 .. 0 |-> Part(L, m, j)] = <<>>
  OBVIOUS
<1> QED
  BY <1>1, FlattenNone DEF Parts

LEMMA BuiltStep ==
  ASSUME NEW L, Usable(L.enc), NEW m, IsOf(m, L), NEW n \in Nat, n + 1 <= Len(L.enc),
         NEW b \in Builders, Built(b, L, m, n)
  PROVE  LET c == AddField(b, L.enc[n + 1].type, m[L.enc[n + 1].name])
         IN  c \in Builders /\ Built(c, L, m, n + 1)
<1> DEFINE T == L.enc[n + 1].type
           v == m[L.enc[n + 1].name]
           c == AddField(b, T, v)
<1>1. (IsScalar(T) \/ IsList(T)) /\ v \in Values(T)
  <2>1. n + 1 \in 1 .. Len(L.enc)
    BY DEF Usable
  <2> QED
    BY <2>1 DEF Usable, IsOf
<1>2. PICK last \in 0 .. n :
        /\ \A j \in 1 .. last : ~ Long(L, m, j)
        /\ IF b.err THEN last < n /\ Long(L, m, last + 1) ELSE last = n
        /\ b.data = Parts(L, m, last)
  BY DEF Built
<1>3. Long(L, m, n + 1) = TooLong(T, v) /\ Part(L, m, n + 1) = Whole(T, v)
  BY DEF Long, Part
<1>4. TooLong(T, v) \in BOOLEAN /\ Whole(T, v) \in Seq(Bytes) /\ b.err \in BOOLEAN /\ b.data \in Seq(Bytes)
  <2>1. Whole(T, v) \in Seq(Bytes)
    BY <1>1, WholeType
  <2> QED
    BY <2>1 DEF TooLong, Builders
<1> HIDE DEF T, v
<1>5. c = [data |-> IF b.err \/ TooLong(T, v) THEN b.data ELSE b.data \o Whole(T, v),
           err |-> b.err \/ TooLong(T, v)]
  BY <1>1, AddFieldIs
<1>6. /\ c.data = IF b.err \/ TooLong(T, v) THEN b.data ELSE b.data \o Whole(T, v)
      /\ c.err = (b.err \/ TooLong(T, v))
  BY <1>5
<1>7. c \in Builders
  <2>1. b.data \o Whole(T, v) \in Seq(Bytes)
    BY <1>4, ConcatProperties
  <2> QED
    BY <1>4, <1>5, <2>1 DEF Builders
<1> HIDE DEF c
<1>8. CASE b.err
  <2>0. last \in 0 .. n + 1 /\ last < n + 1
    OBVIOUS
  <2>1. c.err /\ c.data = b.data /\ last \in 0 .. n + 1 /\ last < n + 1
    BY <1>6, <1>8, <2>0, Zenon
  <2> QED
    BY <1>2, <1>7, <1>8, <2>1 DEF Built, c, T, v
<1>9. CASE ~ b.err /\ TooLong(T, v)
  <2>0. n \in 0 .. n + 1 /\ n < n + 1
    OBVIOUS
  <2>1. c.err /\ c.data = b.data /\ last = n /\ n \in 0 .. n + 1 /\ n < n + 1
    BY <1>2, <1>6, <1>9, <2>0, Zenon
  <2> QED
    BY <1>2, <1>3, <1>7, <1>9, <2>1 DEF Built, c, T, v
<1>10. CASE ~ b.err /\ ~ TooLong(T, v)
  <2>1. ~ c.err /\ c.data = Parts(L, m, n) \o Part(L, m, n + 1) /\ last = n
    BY <1>2, <1>3, <1>6, <1>10
  <2>2. c.data = Parts(L, m, n + 1)
    BY <2>1, PartsStep
  <2>3. \A j \in 1 .. n + 1 : ~ Long(L, m, j)
    BY <1>2, <1>3, <1>10, <2>1
  <2>4. n + 1 \in 0 .. n + 1
    OBVIOUS
  <2> QED
    BY <1>7, <2>1, <2>2, <2>3, <2>4 DEF Built, c, T, v
<1> QED
  BY <1>4, <1>8, <1>9, <1>10

LEMMA InitBuilder == Init => BuilderInv
<1> SUFFICES ASSUME Init PROVE BuilderInv
  OBVIOUS
<1>1. name \in Names /\ name \in DOMAIN Layouts /\ layout = Layouts[name]
  BY NamesAssumption DEF Init
<1>2. msg \in Inputs(name)
  BY DEF Init
<1>3. IsOf(msg, layout)
  BY <1>1, <1>2, InputsTyped
<1>4. bb \in Builders /\ bb.data = <<>> /\ bb.err = FALSE
  BY NewBuilder DEF Init
<1>5. Built(bb, layout, msg, 0)
  <2>1. bb.data = Parts(layout, msg, 0)
    BY <1>4, PartsNone
  <2>2. 0 \in 0 .. 0 /\ \A j \in 1 .. 0 : FALSE
    OBVIOUS
  <2> QED
    BY <1>4, <2>1, <2>2 DEF Built
<1>6. Len(Enc) \in Nat
  BY <1>1, LayoutsUsable DEF Enc, Usable
<1>7. k = 1 /\ phase = "encode"
  BY DEF Init
<1>8. k - 1 = 0
  BY <1>7
<1>9. ~ (k - 1 > Embedded(name))
  BY <1>8, EmbeddedLess
<1> QED
  BY <1>1, <1>3, <1>4, <1>5, <1>6, <1>7, <1>8, <1>9 DEF BuilderInv, Phases

LEMMA StepBuilder ==
  ASSUME BuilderInv, [Next]_vars
  PROVE  BuilderInv'
<1>0. Usable(Enc) /\ Len(Enc) \in Nat
  BY EncUsable DEF Usable
<1>1. CASE EncodeField
  <2>1. /\ phase = "encode" /\ phase' = phase /\ k <= Len(Enc) /\ k' = k + 1
        /\ bb' = AddField(bb, Enc[k].type, msg[Enc[k].name])
        /\ name' = name /\ layout' = layout /\ msg' = msg
        /\ ~ (bb.err /\ k = Embedded(name) + 1)
    BY <1>1 DEF EncodeField, EmbeddedError
  <2>2. /\ IsOf(msg, layout) /\ bb \in Builders /\ k \in Nat \ {0} /\ Built(bb, layout, msg, k - 1)
    BY <2>1 DEF BuilderInv
  <2> DEFINE n == k - 1
  <2>3. n \in Nat /\ n + 1 = k /\ n + 1 <= Len(layout.enc) /\ Usable(layout.enc)
    BY <1>0, <2>1, <2>2 DEF Enc
  <2>4. Built(bb, layout, msg, n)
    BY <2>2
  <2> HIDE DEF n
  <2>5. LET c == AddField(bb, layout.enc[n + 1].type, msg[layout.enc[n + 1].name])
        IN  c \in Builders /\ Built(c, layout, msg, n + 1)
    BY <2>2, <2>3, <2>4, BuiltStep
  <2>6. bb' \in Builders /\ Built(bb', layout, msg, k)
    BY <2>1, <2>3, <2>5 DEF Enc
  <2>7. k' - 1 = k /\ k' \in Nat \ {0} /\ k' - 1 <= Len(Enc) /\ Enc' = Enc
    BY <2>1, <2>2 DEF Enc
  <2>8. Built(bb', layout', msg', k' - 1)
    BY <2>1, <2>6, <2>7
  <2>9. ASSUME k > Embedded(name), NEW j \in 1 .. Embedded(name)
        PROVE  ~ Long(layout, msg, j)
    <3>1. Embedded(name) \in Nat
      BY EmbeddedLess
    <3>2. CASE k - 1 > Embedded(name)
      BY <2>1, <3>2 DEF BuilderInv
    <3>3. CASE ~ (k - 1 > Embedded(name))
      <4>1. k - 1 = Embedded(name) /\ k = Embedded(name) + 1
        BY <2>2, <2>9, <3>1, <3>3
      <4>2. ~ bb.err
        BY <2>1, <4>1, Zenon
      <4> QED
        BY <2>2, <4>1, <4>2 DEF Built
    <3> QED
      BY <3>2, <3>3
  <2>10. k' - 1 > Embedded(name') => \A j \in 1 .. Embedded(name') : ~ Long(layout', msg', j)
    BY <2>1, <2>7, <2>9
  <2> QED
    BY <2>1, <2>6, <2>7, <2>8, <2>10 DEF BuilderInv
<1>2. CASE EncodeFails \/ EmbeddedFails
  <2>1. /\ phase = "encode" /\ phase' = "refused" /\ k' = k /\ bb.err
        /\ name' = name /\ layout' = layout /\ msg' = msg /\ Enc' = Enc
    BY <1>2 DEF EncodeFails, EmbeddedFails, EmbeddedError, Enc
  <2>2. /\ bb \in Builders /\ k \in Nat \ {0} /\ k - 1 <= Len(Enc)
        /\ Built(bb, layout, msg, k - 1) /\ layout = Layouts[name]
    BY <2>1 DEF BuilderInv
  <2>3. PICK last \in 0 .. k - 1 :
          /\ last < k - 1 /\ Long(layout, msg, last + 1)
          /\ \A j \in 1 .. last : ~ Long(layout, msg, j)
          /\ bb.data = Parts(layout, msg, last)
    BY <2>1, <2>2 DEF Built
  <2>4. Embedded(name) \in Nat
    BY EmbeddedLess
  <2>5. CASE EncodeFails
    <3>1. k > Len(Enc) /\ bb' = bb
      BY <2>5 DEF EncodeFails
    <3>2. k - 1 > Embedded(name)
      BY <1>0, <2>2, <2>3, <2>4, <3>1, EmbeddedLess DEF Enc
    <3>3. \A j \in 1 .. Embedded(name) : ~ Long(layout, msg, j)
      BY <2>1, <3>2 DEF BuilderInv
    <3>4. ~ (last + 1 <= Embedded(name))
      BY <2>3, <2>4, <3>3
    <3>5. Kept'
      BY <2>1, <2>3, <3>1, <3>4 DEF Kept
    <3> QED
      BY <2>1, <2>2, <3>1, <3>5 DEF BuilderInv, Phases
  <2>6. CASE EmbeddedFails
    <3>1. k = Embedded(name) + 1 /\ bb' = [bb EXCEPT !.data = <<>>]
      BY <2>6 DEF EmbeddedFails, EmbeddedError
    <3>2. bb' \in Builders /\ bb'.err = bb.err /\ bb'.data = <<>>
      <4>1. bb' = [data |-> <<>>, err |-> bb.err] /\ bb.err \in BOOLEAN
        BY <2>2, <3>1 DEF Builders
      <4>2. <<>> \in Seq(Bytes)
        OBVIOUS
      <4> QED
        BY <4>1, <4>2, Zenon DEF Builders
    <3>3. last + 1 <= Embedded(name)
      BY <2>2, <2>3, <2>4, <3>1
    <3>4. Kept'
      BY <2>1, <2>3, <3>2, <3>3 DEF Kept
    <3> QED
      BY <2>1, <2>2, <3>2, <3>4 DEF BuilderInv, Phases
  <2> QED
    BY <1>2, <2>5, <2>6
<1>3. CASE DeliverIntact \/ DeliverCut \/ DeliverAltered
  <2>1. /\ phase = "encode" /\ k > Len(Enc) /\ ~ bb.err /\ phase' = "decode" /\ k' = 1 /\ bb' = bb
        /\ name' = name /\ layout' = layout /\ msg' = msg /\ Enc' = Enc
    BY <1>3 DEF DeliverIntact, DeliverCut, DeliverAltered, Encoded, Deliver, Enc
  <2>2. k - 1 = Len(Enc)
    BY <1>0, <2>1 DEF BuilderInv
  <2> QED
    BY <2>1, <2>2 DEF BuilderInv, Phases
<1>4. CASE RejectLength \/ DecodeField \/ DecodeReturns
  <2>1. /\ phase = "decode" /\ phase' \in {"decode", "failed", "accepted", "panicked"} /\ k' \in {k, k + 1} /\ bb' = bb
        /\ name' = name /\ layout' = layout /\ msg' = msg /\ Enc' = Enc
    <3>1. CASE RejectLength
      BY <3>1 DEF RejectLength, Enc
    <3>2. CASE DecodeField
      BY <3>2 DEF DecodeField, Enc
    <3>3. CASE DecodeReturns
      BY <3>3 DEF DecodeReturns, Enc
    <3> QED
      BY <1>4, <3>1, <3>2, <3>3
  <2> QED
    BY <2>1 DEF BuilderInv, Phases
<1>5. CASE UNCHANGED vars
  <2>1. /\ phase' = phase /\ k' = k /\ bb' = bb
        /\ name' = name /\ layout' = layout /\ msg' = msg /\ Enc' = Enc
    BY <1>5 DEF vars, Enc
  <2>2. Kept' <=> Kept
    BY <2>1 DEF Kept
  <2> QED
    BY <2>1, <2>2 DEF BuilderInv
<1> QED
  BY <1>1, <1>2, <1>3, <1>4, <1>5 DEF Next

LEMMA BuilderHolds == Spec => []BuilderInv
<1>1. Init => BuilderInv
  BY InitBuilder
<1>2. BuilderInv /\ [Next]_vars => BuilderInv'
  BY StepBuilder
<1> QED
  BY <1>1, <1>2, PTL DEF Spec

\* A value is refused only when it is too long: the sticky error of the builder
\* comes from a field whose value is longer than its comment allows, in every
\* message.  (No message has a B0_16M, whose limit is not that of its comment.)
THEOREM RefusalsJustified == Spec => []RefusedOnlyWhenTooLong
<1>1. BuilderInv => RefusedOnlyWhenTooLong
  <2> SUFFICES ASSUME BuilderInv, bb.err, name # "B0_16M"
               PROVE  \E j \in DOMAIN Enc :
                        "range" \in DOMAIN Enc[j].type /\ Len(msg[Enc[j].name]) > Enc[j].type.range
    BY DEF RefusedOnlyWhenTooLong
  <2>1. PICK last \in 0 .. k - 1 : last < k - 1 /\ Long(layout, msg, last + 1)
    BY DEF BuilderInv, Built, Kept
  <2>2. k - 1 \in Nat /\ k - 1 <= Len(Enc) /\ Usable(Enc) /\ IsOf(msg, layout)
    BY EncUsable DEF BuilderInv
  <2> DEFINE j == last + 1
             T == Enc[j].type
             v == msg[Enc[j].name]
  <2>3. j \in 1 .. Len(Enc) /\ j \in DOMAIN Enc
    BY <2>1, <2>2 DEF Usable
  <2>4. (IsScalar(T) \/ IsList(T)) /\ v \in Values(T)
    BY <2>2, <2>3 DEF Usable, IsOf, Enc
  <2>5. "limit" \in DOMAIN T /\ Len(v) > T.limit
    BY <2>1 DEF Long, TooLong, Enc
  <2>a. T \in Types
    <3>1. name \in DOMAIN Layouts /\ layout = Layouts[name]
      BY NamesAssumption DEF BuilderInv
    <3>2. IsMessage(layout)
      BY <3>1, LayoutsTyped DEF IsPlain
    <3> QED
      BY <2>3, <3>2 DEF IsMessage, IsFields, Enc
  <2> HIDE DEF T, v
  <2>6. IsList(T)
    BY <2>4, <2>5 DEF IsScalar
  <2>7. "range" \in DOMAIN T /\ T.range = T.limit
    BY <2>6, <2>a, TypesTyped DEF IsList, IsBalanced
  <2> QED
    BY <2>3, <2>5, <2>7 DEF T, v
<1> QED
  BY <1>1, BuilderHolds, PTL

LEMMA MinIs ==
  ASSUME NEW S \in SUBSET Int, NEW x \in S, \A y \in S : x <= y
  PROVE  Min(S) = x
<1>1. ASSUME NEW z \in S, \A y \in S : z <= y PROVE z = x
  <2>1. z <= x /\ x <= z /\ x \in Int /\ z \in Int
    BY <1>1
  <2> QED
    BY <2>1
<1> QED
  BY <1>1 DEF Min

\* "the encoded bytes will be returned up the point of the first error": the
\* builder holds exactly the fields before the first one that is too long; and
\* nothing is left of a message whose embedded part was refused.
THEOREM StopsAtFirstError == Spec => []BytesStopAtFirstError
<1>1. BuilderInv => BytesStopAtFirstError
  <2> DEFINE TL == {j \in 1 .. k - 1 : "limit" \in DOMAIN Enc[j].type
                                       /\ Len(msg[Enc[j].name]) > Enc[j].type.limit}
             end == IF TL = {} THEN k - 1
                    ELSE IF phase = "refused" /\ Min(TL) <= Embedded(name) THEN 0
                    ELSE Min(TL) - 1
             images(n) == [j \in 1 .. n |-> AddField(NewBinaryBuilder, Enc[j].type, msg[Enc[j].name]).data]
  <2> SUFFICES ASSUME BuilderInv, phase \in {"encode", "refused"}
               PROVE  bb.err = (TL # {}) /\ bb.data = FlattenSeq(images(end))
    BY DEF BytesStopAtFirstError
  <2>1. /\ k - 1 \in Nat /\ k - 1 <= Len(Enc) /\ Usable(Enc) /\ IsOf(msg, layout)
        /\ bb \in Builders /\ bb.err \in BOOLEAN
    BY EncUsable DEF BuilderInv, Builders
  <2>2. PICK first \in 0 .. k - 1 :
          /\ \A j \in 1 .. first : ~ Long(layout, msg, j)
          /\ IF bb.err THEN first < k - 1 /\ Long(layout, msg, first + 1) ELSE first = k - 1
          /\ bb.data = IF phase = "refused" /\ first + 1 <= Embedded(name) THEN <<>>
                       ELSE Parts(layout, msg, first)
    <3>1. CASE phase = "encode"
      BY <3>1 DEF BuilderInv, Built
    <3>2. CASE phase = "refused"
      BY <3>2 DEF BuilderInv, Kept
    <3> QED
      BY <3>1, <3>2
  <2>b. bb.err \/ phase = "encode"
    BY DEF BuilderInv
  <2> DEFINE last == IF phase = "refused" /\ first + 1 <= Embedded(name) THEN 0 ELSE first
  <2>c. last \in 0 .. k - 1 /\ last <= first /\ bb.data = Parts(layout, msg, last)
    BY <2>1, <2>2, PartsNone
  <2>d. \A j \in 1 .. last : ~ Long(layout, msg, j)
    BY <2>1, <2>2, <2>c
  <2>3. TL = {j \in 1 .. k - 1 : Long(layout, msg, j)}
    BY DEF Long, TooLong, Enc
  <2> HIDE DEF TL
  <2>4. bb.err = (TL # {}) /\ end = last
    <3>1. CASE bb.err
      <4>1. first + 1 \in TL
        BY <2>1, <2>2, <2>3, <3>1
      <4>2. \A y \in TL : first + 1 <= y
        BY <2>1, <2>2, <2>3
      <4>3. TL \in SUBSET Int
        BY <2>1, <2>3
      <4>4. Min(TL) = first + 1
        BY <4>1, <4>2, <4>3, MinIs
      <4>5. TL # {} /\ (first + 1) - 1 = first
        BY <4>1
      <4>6. end = last
        BY <4>4, <4>5
      <4>7. bb.err = (TL # {})
        <5> HIDE DEF end
        <5> QED
          BY <2>1, <3>1, <4>5
      <4> QED
        BY <4>6, <4>7
    <3>2. CASE ~ bb.err
      <4>1. TL = {}
        BY <2>1, <2>2, <2>3, <3>2
      <4> QED
        BY <2>1, <2>2, <2>b, <3>2, <4>1
    <3> QED
      BY <3>1, <3>2
  <2> HIDE DEF end, last
  <2>5. ASSUME NEW j \in 1 .. last
        PROVE  AddField(NewBinaryBuilder, Enc[j].type, msg[Enc[j].name]).data = Part(layout, msg, j)
    <3> DEFINE T == Enc[j].type
               v == msg[Enc[j].name]
               b == NewBinaryBuilder
    <3>1. j \in 1 .. Len(Enc)
      BY <2>1, <2>c
    <3>2. (IsScalar(T) \/ IsList(T)) /\ v \in Values(T)
      BY <2>1, <3>1 DEF Usable, IsOf, Enc
    <3>3. ~ TooLong(T, v)
      BY <2>d DEF Long, Enc
    <3>4. b \in Builders /\ b.data = <<>> /\ b.err = FALSE
      BY NewBuilder
    <3>5. Part(layout, msg, j) = Whole(T, v)
      BY DEF Part, Enc
    <3> HIDE DEF T, v, b
    <3>6. AddField(b, T, v) =
           [data |-> IF b.err \/ TooLong(T, v) THEN b.data ELSE b.data \o Whole(T, v),
            err |-> b.err \/ TooLong(T, v)]
      BY <3>2, <3>4, AddFieldIs
    <3>7. AddField(b, T, v).data = <<>> \o Whole(T, v)
      BY <3>3, <3>4, <3>6
    <3>8. Whole(T, v) \in Seq(Bytes)
      BY <3>2, WholeType
    <3>9. <<>> \o Whole(T, v) = Whole(T, v)
      BY <3>8, ConcatEmptySeq
    <3> QED
      BY <3>5, <3>7, <3>9 DEF T, v, b
  <2>6. images(last) = [j \in 1 .. last |-> Part(layout, msg, j)]
    BY <2>5
  <2> HIDE DEF images
  <2> QED
    BY <2>c, <2>4, <2>6 DEF Parts
<1> QED
  BY <1>1, BuilderHolds, PTL

-----------------------------------------------------------------------------
(* The reader *)

\* A reader in an operation; one that stands at p with value v; one that has
\* failed.
IsReader(r) == DOMAIN r = {"pos", "err", "val", "panic"}
Good(r, p, v) == IsReader(r) /\ r.pos = p /\ r.val = v /\ ~ r.err /\ ~ r.panic
Bad(r) == IsReader(r) /\ r.err

\* read: past the end it fails, up to it it returns the bytes.
LEMMA ReadIs ==
  ASSUME NEW p \in Nat, NEW l \in Nat, NEW v, payload \in Seq(Bytes), NEW r, Good(r, p, v)
  PROVE  IF p + l > Len(payload) THEN Bad(Read(r, l))
         ELSE Good(Read(r, l), p + l, SubSeq(payload, p + 1, p + l))
<1>1. CASE p + l > Len(payload)
  <2>1. Read(r, l) = [r EXCEPT !.pos = Len(payload), !.err = TRUE, !.val = <<>>]
    BY <1>1 DEF Read, Good
  <2> QED
    BY <1>1, <2>1 DEF Good, Bad, IsReader
<1>2. CASE ~ (p + l > Len(payload))
  <2>1. Read(r, l) = [r EXCEPT !.pos = p + l, !.val = SubSeq(payload, p + 1, p + l)]
    BY <1>2 DEF Read, Good
  <2> QED
    BY <1>2, <2>1 DEF Good, IsReader
<1> QED
  BY <1>1, <1>2

LEMMA ReadBad ==
  ASSUME NEW r, NEW l, Bad(r)
  PROVE  Bad(Read(r, l))
<1>1. Read(r, l) = [r EXCEPT !.val = <<>>]
  BY DEF Read, Bad
<1> QED
  BY <1>1 DEF Bad, IsReader

LEMMA ScalarStops ==
  ASSUME NEW T, IsScalar(T), NEW p \in Nat, NEW v, payload \in Seq(Bytes), NEW r, Good(r, p, v),
         p + T.width > Len(payload)
  PROVE  Bad(ReadScalar(r, T)) /\ (T.kind = "int" => ReadScalar(r, T).val = 0)
<1> DEFINE s == Read(r, T.width)
           x == (T.kind = "array" \/ (T.kind \in {"int", "bool"} /\ ~isNil))
<1>1. T.width \in Nat
  BY DEF IsScalar
<1>2. Bad(s)
  BY <1>1, ReadIs
<1> HIDE DEF s
<1>3. ReadScalar(r, T) = [s EXCEPT !.val = Zero(T), !.panic = x]
  BY <1>2 DEF ReadScalar, Good, Bad, s
<1> HIDE DEF x
<1>4. Bad(ReadScalar(r, T)) /\ ReadScalar(r, T).val = Zero(T)
  BY <1>2, <1>3 DEF Bad, IsReader
<1>5. T.kind = "int" => Zero(T) = 0
  BY DEF Zero
<1> QED
  BY <1>4, <1>5

LEMMA ScalarBad ==
  ASSUME NEW T, NEW r, Bad(r)
  PROVE  Bad(ReadScalar(r, T)) /\ (T.kind = "int" => ReadScalar(r, T).val = 0)
<1>1. ReadScalar(r, T) = [r EXCEPT !.val = Zero(T)]
  BY DEF ReadScalar, Bad
<1>2. T.kind = "int" => Zero(T) = 0
  BY DEF Zero
<1> QED
  BY <1>1, <1>2 DEF Bad, IsReader

LEMMA ScalarTaken ==
  ASSUME NEW T, IsScalar(T), NEW p \in Nat, NEW v, payload \in Seq(Bytes), NEW r, Good(r, p, v),
         p + T.width <= Len(payload)
  PROVE  LET s == SubSeq(payload, p + 1, p + T.width)
         IN  /\ T.kind = "int" => Good(ReadScalar(r, T), p + T.width, FromLittleEndian(s))
             /\ T.kind \in {"fixed", "array"} => Good(ReadScalar(r, T), p + T.width, s)
             /\ T.kind = "bool" => \A x \in BOOLEAN :
                  s[1] = (IF x THEN 1 ELSE 0) => Good(ReadScalar(r, T), p + T.width, x)
             /\ T.kind = "bool" /\ s[1] \notin {0, 1} => Bad(ReadScalar(r, T))
<1> DEFINE t == SubSeq(payload, p + 1, p + T.width)
           s == Read(r, T.width)
<1>1. T.width \in Nat
  BY DEF IsScalar
<1>2. Good(s, p + T.width, t)
  <2>1. ~ (p + T.width > Len(payload))
    BY <1>1
  <2> QED
    BY <1>1, <2>1, ReadIs
<1> HIDE DEF s, t
<1>3. ~ r.err /\ ~ s.err
  BY <1>2 DEF Good
<1>4. CASE T.kind = "int"
  <2>1. ReadScalar(r, T) = [s EXCEPT !.val = FromLittleEndian(s.val)]
    BY <1>3, <1>4 DEF ReadScalar, s
  <2> QED
    BY <1>2, <1>4, <2>1 DEF Good, IsReader, t
<1>5. CASE T.kind \in {"fixed", "array"}
  <2>1. ReadScalar(r, T) = s
    BY <1>3, <1>5 DEF ReadScalar, s
  <2> QED
    BY <1>2, <1>5, <2>1 DEF t
<1>6. CASE T.kind = "bool"
  <2>1. ReadScalar(r, T) = BoolOf(s)
    BY <1>3, <1>6 DEF ReadScalar, s
  <2>2. BoolOf(s) = [s EXCEPT !.val = (t[1] = 1), !.err = (t[1] \notin {0, 1})]
    BY <1>2 DEF BoolOf, Good
  <2> DEFINE R == ReadScalar(r, T)
  <2>3. /\ IsReader(R) /\ R.pos = p + T.width /\ ~ R.panic
        /\ R.val = (t[1] = 1) /\ R.err = (t[1] \notin {0, 1})
    BY <1>2, <2>1, <2>2 DEF Good, IsReader
  <2> HIDE DEF R
  <2>4. ASSUME NEW x \in BOOLEAN, t[1] = (IF x THEN 1 ELSE 0) PROVE Good(R, p + T.width, x)
    <3>1. ~ R.err
      BY <2>3, <2>4
    <3>2. CASE x
      <4>1. R.val = TRUE /\ x = TRUE
        BY <2>3, <2>4, <3>2
      <4>2. R.val = x
        BY <4>1
      <4> QED
        BY <2>3, <3>1, <4>2 DEF Good
    <3>3. CASE ~ x
      <4>1. R.val = FALSE /\ x = FALSE
        BY <2>3, <2>4, <3>3
      <4>2. R.val = x
        BY <4>1
      <4> QED
        BY <2>3, <3>1, <4>2 DEF Good
    <3> QED
      BY <3>2, <3>3
  <2>5. t[1] \notin {0, 1} => Bad(R)
    BY <2>3 DEF Bad
  <2> QED
    BY <1>6, <2>4, <2>5 DEF t, R
<1> QED
  BY <1>4, <1>5, <1>6 DEF IsScalar

\* As far as the payload reaches it goes on with s behind its first p bytes.
Agrees(p, s) == \A i \in 1 .. Len(s) : p + i <= Len(payload) => payload[p + i] = s[i]

LEMMA SliceType ==
  ASSUME NEW p \in Nat, NEW l \in Nat, payload \in Seq(Bytes), p + l <= Len(payload)
  PROVE  /\ SubSeq(payload, p + 1, p + l) \in Seq(Bytes)
         /\ Len(SubSeq(payload, p + 1, p + l)) = l
         /\ \A i \in 1 .. l : SubSeq(payload, p + 1, p + l)[i] = payload[p + i]
<1>1. \A i \in (p + 1) .. (p + l) : payload[i] \in Bytes
  <2> SUFFICES ASSUME NEW i \in (p + 1) .. (p + l) PROVE payload[i] \in Bytes
    OBVIOUS
  <2>1. i \in 1 .. Len(payload)
    OBVIOUS
  <2> QED
    BY <2>1, ElementOfSeq
<1>2. p + 1 \in Int /\ p + l \in Int /\ (p + l) - (p + 1) + 1 = l
  OBVIOUS
<1>3. /\ SubSeq(payload, p + 1, p + l) \in Seq(Bytes)
      /\ Len(SubSeq(payload, p + 1, p + l)) = IF p + 1 <= p + l THEN (p + l) - (p + 1) + 1 ELSE 0
      /\ \A i \in 1 .. (p + l) - (p + 1) + 1 : SubSeq(payload, p + 1, p + l)[i] = payload[(p + 1) + i - 1]
  BY <1>1, <1>2, SubSeqProperties
<1>4. \A i \in 1 .. l : (p + 1) + i - 1 = p + i
  OBVIOUS
<1> QED
  BY <1>2, <1>3, <1>4

LEMMA SliceIs ==
  ASSUME NEW p \in Nat, NEW s \in Seq(Bytes), payload \in Seq(Bytes),
         p + Len(s) <= Len(payload), Agrees(p, s)
  PROVE  SubSeq(payload, p + 1, p + Len(s)) = s
<1> DEFINE t == SubSeq(payload, p + 1, p + Len(s))
<1>1. Len(s) \in Nat /\ Len(payload) \in Nat
  BY LenProperties
<1>2. t \in Seq(Bytes) /\ Len(t) = Len(s) /\ \A i \in 1 .. Len(s) : t[i] = payload[p + i]
  BY <1>1, SliceType
<1> HIDE DEF t
<1>3. \A i \in 1 .. Len(t) : t[i] = s[i]
  BY <1>1, <1>2 DEF Agrees
<1>4. t = s
  BY <1>2, <1>3, SeqEqual
<1> QED
  BY <1>4 DEF t

\* A scalar is read from its bytes, or the payload is too short for it.
LEMMA ScalarFits ==
  ASSUME NEW T, IsScalar(T), NEW x \in ScalarValues(T), NEW p \in Nat, NEW v,
         payload \in Seq(Bytes), NEW r, Good(r, p, v), Agrees(p, Raw(T, x))
  PROVE  IF p + T.width <= Len(payload) THEN Good(ReadScalar(r, T), p + T.width, x)
         ELSE Bad(ReadScalar(r, T)) /\ (T.kind = "int" => ReadScalar(r, T).val = 0)
<1>1. T.width \in Nat /\ Len(payload) \in Nat
  BY LenProperties DEF IsScalar
<1>2. CASE p + T.width <= Len(payload)
  <2> DEFINE s == Raw(T, x)
             t == SubSeq(payload, p + 1, p + T.width)
  <2>1. s \in Seq(Bytes) /\ Len(s) = T.width
    BY RawType
  <2>2. SubSeq(payload, p + 1, p + Len(s)) = s
    <3> HIDE DEF s
    <3>1. Agrees(p, s) /\ p + Len(s) <= Len(payload)
      BY <1>2, <2>1 DEF s
    <3> QED
      BY <2>1, <3>1, SliceIs
  <2>3. t = s
    BY <2>1, <2>2
  <2>4. /\ T.kind = "int" => Good(ReadScalar(r, T), p + T.width, FromLittleEndian(t))
        /\ T.kind \in {"fixed", "array"} => Good(ReadScalar(r, T), p + T.width, t)
        /\ T.kind = "bool" => \A y \in BOOLEAN :
             t[1] = (IF y THEN 1 ELSE 0) => Good(ReadScalar(r, T), p + T.width, y)
    BY <1>2, ScalarTaken
  <2> HIDE DEF t
  <2>5. CASE T.kind = "int"
    <3>1. s = LittleEndian(x, T.width) /\ x \in 0 .. Weight[T.width] - 1 /\ T.width \in 0 .. 8
      BY <2>5 DEF Raw, ScalarValues, IsScalar
    <3> DEFINE m == Weight[T.width]
    <3>2. m \in Nat /\ x \in 0 .. m - 1
      BY <3>1, WeightPositive
    <3>3. FromLittleEndian(LittleEndian(x, T.width)) = x % m
      BY <3>1, <3>2, DecodesLow
    <3> HIDE DEF m, s
    <3>4. x % m = x
      BY <3>2
    <3> QED
      BY <1>2, <2>3, <2>4, <2>5, <3>1, <3>3, <3>4
  <2>6. CASE T.kind = "bool"
    <3>1. s = <<IF x THEN 1 ELSE 0>> /\ x \in BOOLEAN
      BY <2>6 DEF Raw, ScalarValues
    <3>2. t[1] = (IF x THEN 1 ELSE 0)
      BY <2>3, <3>1
    <3> QED
      BY <1>2, <2>4, <2>6, <3>1, <3>2
  <2>7. CASE T.kind \in {"fixed", "array"}
    <3>1. s = x
      BY <2>7 DEF Raw
    <3> QED
      BY <1>2, <2>3, <2>4, <2>7, <3>1
  <2> QED
    BY <2>5, <2>6, <2>7 DEF IsScalar
<1>3. CASE ~ (p + T.width <= Len(payload))
  <2>1. p + T.width > Len(payload)
    BY <1>1, <1>3
  <2> QED
    BY <1>3, <2>1, ScalarStops
<1> QED
  BY <1>2, <1>3

\* What is read of a scalar without an error is written as the same bytes.
LEMMA ScalarBack ==
  ASSUME NEW T, IsScalar(T), NEW p \in Nat, NEW v, payload \in Seq(Bytes), NEW r, Good(r, p, v)
  PROVE  \/ Bad(ReadScalar(r, T)) /\ (T.kind = "int" => ReadScalar(r, T).val = 0)
         \/ /\ p + T.width <= Len(payload)
            /\ \E x \in ScalarValues(T) :
                 /\ Good(ReadScalar(r, T), p + T.width, x)
                 /\ Raw(T, x) = SubSeq(payload, p + 1, p + T.width)
<1>1. T.width \in Nat /\ Len(payload) \in Nat
  BY LenProperties DEF IsScalar
<1>2. CASE p + T.width <= Len(payload)
  <2> DEFINE t == SubSeq(payload, p + 1, p + T.width)
  <2>1. t \in Seq(Bytes) /\ Len(t) = T.width
    BY <1>1, <1>2, SliceType
  <2>2. /\ T.kind = "int" => Good(ReadScalar(r, T), p + T.width, FromLittleEndian(t))
        /\ T.kind \in {"fixed", "array"} => Good(ReadScalar(r, T), p + T.width, t)
        /\ T.kind = "bool" => \A y \in BOOLEAN :
             t[1] = (IF y THEN 1 ELSE 0) => Good(ReadScalar(r, T), p + T.width, y)
        /\ T.kind = "bool" /\ t[1] \notin {0, 1} => Bad(ReadScalar(r, T))
    BY <1>2, ScalarTaken
  <2> HIDE DEF t
  <2>3. CASE T.kind = "int"
    <3> DEFINE x == FromLittleEndian(t)
    <3>1. Len(t) <= 8
      BY <2>1, <2>3 DEF IsScalar
    <3>2. x \in 0 .. Weight[Len(t)] - 1
      BY <2>1, <3>1, FromType
    <3>3. LittleEndian(x, Len(t)) = t
      BY <2>1, <3>1, EncodesLow
    <3>4. x \in ScalarValues(T) /\ Raw(T, x) = t
      BY <2>1, <2>3, <3>2, <3>3 DEF ScalarValues, Raw
    <3> QED
      BY <1>2, <2>2, <2>3, <3>4 DEF t
  <2>4. CASE T.kind = "bool" /\ t[1] \in {0, 1}
    <3> DEFINE y == (t[1] = 1)
    <3>1. y \in BOOLEAN /\ t[1] = (IF y THEN 1 ELSE 0)
      BY <2>4
    <3> HIDE DEF y
    <3>2. Good(ReadScalar(r, T), p + T.width, y)
      BY <2>2, <2>4, <3>1
    <3>3. t = <<t[1]>>
      <4> DEFINE o == <<t[1]>>
      <4>1. Len(t) = 1 /\ t[1] \in Bytes
        BY <2>1, <2>4, ElementOfSeq DEF IsScalar
      <4>2. o \in Seq(Bytes) /\ Len(o) = 1 /\ o[1] = t[1]
        BY <4>1
      <4> HIDE DEF o
      <4>3. \A i \in 1 .. Len(t) : t[i] = o[i]
        BY <4>1, <4>2
      <4>4. t = o
        BY <2>1, <4>1, <4>2, <4>3, SeqEqual
      <4> QED
        BY <4>4 DEF o
    <3>4. y \in ScalarValues(T) /\ Raw(T, y) = t
      BY <2>4, <3>1, <3>3 DEF ScalarValues, Raw
    <3> QED
      BY <1>2, <3>2, <3>4 DEF t
  <2>5. CASE T.kind = "bool" /\ t[1] \notin {0, 1}
    BY <2>2, <2>5
  <2>6. CASE T.kind \in {"fixed", "array"}
    <3>1. t \in ScalarValues(T) /\ Raw(T, t) = t
      BY <2>1, <2>6, LenProperties DEF ScalarValues, Raw
    <3> QED
      BY <1>2, <2>2, <2>6, <3>1 DEF t
  <2> QED
    BY <2>3, <2>4, <2>5, <2>6 DEF IsScalar
<1>3. CASE ~ (p + T.width <= Len(payload))
  <2>1. p + T.width > Len(payload)
    BY <1>1, <1>3
  <2> QED
    BY <2>1, ScalarStops
<1> QED
  BY <1>2, <1>3

-----------------------------------------------------------------------------
(* Lists *)

\* One element of Sequence.Decode.
Elem(acc, E) ==
  LET e == ReadScalar(acc, E)
  IN  IF acc.panic THEN acc ELSE [e EXCEPT !.val = Append(acc.val, e.val)]

LEMMA SequenceEquation ==
  ASSUME NEW r, NEW E, NEW n \in Nat
  PROVE  \E rd : /\ rd[0] = [r EXCEPT !.val = <<>>]
                 /\ \A i \in 0 .. n - 1 : rd[i + 1] = Elem(rd[i], E)
                 /\ SequenceDecode(r, E, n) = rd[n]
<1> DEFINE El(acc) == Elem(acc, E)
           r0 == [r EXCEPT !.val = <<>>]
           Solves(h, m) == h = [i \in 0 .. m |-> IF i = 0 THEN r0 ELSE El(h[i - 1])]
           S == {m \in Nat : \E h : Solves(h, m)}
<1>5. SequenceDecode(r, E, n) = (CHOOSE h : Solves(h, n))[n]
  BY DEF SequenceDecode, Elem
<1> HIDE DEF El, r0
<1>1. 0 \in S
  <2>1. Solves([i \in 0 .. 0 |-> r0], 0)
    OBVIOUS
  <2> QED
    BY <2>1
<1>2. ASSUME NEW m \in S PROVE m + 1 \in S
  <2>1. PICK h : Solves(h, m)
    OBVIOUS
  <2> DEFINE j == [i \in 0 .. m + 1 |-> IF i = m + 1 THEN El(h[m]) ELSE h[i]]
  <2>2. ASSUME NEW i \in 0 .. m + 1
        PROVE  j[i] = IF i = 0 THEN r0 ELSE El(j[i - 1])
    <3>1. CASE i = m + 1
      <4>1. i # 0 /\ i - 1 = m /\ m \in 0 .. m + 1 /\ m # m + 1
        BY <3>1
      <4> QED
        BY <3>1, <4>1
    <3>2. CASE i \in 1 .. m
      <4>1. i \in 0 .. m /\ i - 1 \in 0 .. m /\ i # 0 /\ i # m + 1 /\ i - 1 # m + 1 /\ i - 1 \in 0 .. m + 1
        BY <3>2
      <4>2. h[i] = El(h[i - 1])
        BY <2>1, <4>1
      <4> QED
        BY <4>1, <4>2
    <3>3. CASE i = 0
      BY <2>1, <3>3
    <3> QED
      BY <3>1, <3>2, <3>3
  <2>3. j = [i \in 0 .. m + 1 |-> j[i]]
    OBVIOUS
  <2> HIDE DEF j
  <2>4. Solves(j, m + 1)
    BY <2>2, <2>3
  <2> HIDE DEF Solves
  <2> QED
    BY <2>4
<1>3. n \in S
  <2>1. S \in SUBSET Nat
    OBVIOUS
  <2> HIDE DEF S
  <2> QED
    BY <1>1, <1>2, <2>1, SetInduction
<1> DEFINE rd == CHOOSE h : Solves(h, n)
<1>4. Solves(rd, n)
  BY <1>3
<1>6. SequenceDecode(r, E, n) = rd[n]
  BY <1>5
<1> HIDE DEF rd
<1>7. rd[0] = r0
  BY <1>4
<1>8. ASSUME NEW i \in 0 .. n - 1 PROVE rd[i + 1] = El(rd[i])
  <2>1. i + 1 \in 0 .. n /\ i + 1 # 0 /\ (i + 1) - 1 = i
    OBVIOUS
  <2>2. rd[i + 1] = El(rd[(i + 1) - 1])
    BY <1>4, <2>1
  <2> QED
    BY <2>1, <2>2
<1> QED
  BY <1>6, <1>7, <1>8 DEF El, r0

LEMMA ElemBad ==
  ASSUME NEW acc, NEW E, Bad(acc)
  PROVE  Bad(Elem(acc, E))
<1> DEFINE e == ReadScalar(acc, E)
<1>1. Bad(e)
  BY ScalarBad
<1> HIDE DEF e
<1>2. CASE acc.panic
  BY <1>2 DEF Elem
<1>3. CASE ~ acc.panic
  <2>1. Elem(acc, E) = [e EXCEPT !.val = Append(acc.val, e.val)]
    BY <1>3 DEF Elem, e
  <2> QED
    BY <1>1, <2>1 DEF Bad, IsReader
<1> QED
  BY <1>2, <1>3

LEMMA ElemFits ==
  ASSUME NEW E, IsScalar(E), NEW x \in ScalarValues(E), NEW p \in Nat, NEW s,
         payload \in Seq(Bytes), NEW acc, Good(acc, p, s), Agrees(p, Raw(E, x))
  PROVE  IF p + E.width <= Len(payload) THEN Good(Elem(acc, E), p + E.width, Append(s, x))
         ELSE Bad(Elem(acc, E))
<1> DEFINE e == ReadScalar(acc, E)
<1>1. IF p + E.width <= Len(payload) THEN Good(e, p + E.width, x)
      ELSE Bad(e) /\ (E.kind = "int" => e.val = 0)
  BY ScalarFits
<1> HIDE DEF e
<1>2. Elem(acc, E) = [e EXCEPT !.val = Append(s, e.val)]
  BY DEF Elem, e, Good
<1>3. CASE p + E.width <= Len(payload)
  BY <1>1, <1>2, <1>3 DEF Good, IsReader
<1>4. CASE ~ (p + E.width <= Len(payload))
  BY <1>1, <1>2, <1>4 DEF Bad, IsReader
<1> QED
  BY <1>3, <1>4

LEMMA ElemBack ==
  ASSUME NEW E, IsScalar(E), NEW p \in Nat, NEW s,
         payload \in Seq(Bytes), NEW acc, Good(acc, p, s)
  PROVE  \/ Bad(Elem(acc, E))
         \/ /\ p + E.width <= Len(payload)
            /\ \E x \in ScalarValues(E) :
                 /\ Good(Elem(acc, E), p + E.width, Append(s, x))
                 /\ Raw(E, x) = SubSeq(payload, p + 1, p + E.width)
<1> DEFINE e == ReadScalar(acc, E)
<1>1. \/ Bad(e) /\ (E.kind = "int" => e.val = 0)
      \/ /\ p + E.width <= Len(payload)
         /\ \E x \in ScalarValues(E) :
              /\ Good(e, p + E.width, x)
              /\ Raw(E, x) = SubSeq(payload, p + 1, p + E.width)
  BY ScalarBack
<1> HIDE DEF e
<1>2. Elem(acc, E) = [e EXCEPT !.val = Append(s, e.val)]
  BY DEF Elem, e, Good
<1>3. CASE Bad(e)
  BY <1>2, <1>3 DEF Bad, IsReader
<1>4. ASSUME NEW x \in ScalarValues(E), Good(e, p + E.width, x)
      PROVE  Good(Elem(acc, E), p + E.width, Append(s, x))
  BY <1>2, <1>4 DEF Good, IsReader
<1> QED
  BY <1>1, <1>3, <1>4

LEMMA SequenceBad ==
  ASSUME NEW r, NEW E, NEW n \in Nat, Bad(r)
  PROVE  Bad(SequenceDecode(r, E, n))
<1>1. PICK rd : /\ rd[0] = [r EXCEPT !.val = <<>>]
                /\ \A i \in 0 .. n - 1 : rd[i + 1] = Elem(rd[i], E)
                /\ SequenceDecode(r, E, n) = rd[n]
  BY SequenceEquation
<1> DEFINE S == {i \in Nat : i <= n => Bad(rd[i])}
<1>2. 0 \in S
  <2>1. Bad([r EXCEPT !.val = <<>>])
    BY DEF Bad, IsReader
  <2> HIDE DEF Bad
  <2> QED
    BY <1>1, <2>1
<1>3. ASSUME NEW i \in S PROVE i + 1 \in S
  <2> SUFFICES ASSUME i + 1 <= n PROVE Bad(rd[i + 1])
    OBVIOUS
  <2>1. i \in 0 .. n - 1 /\ Bad(rd[i])
    OBVIOUS
  <2> QED
    BY <1>1, <2>1, ElemBad
<1>4. n \in S
  <2>1. S \in SUBSET Nat
    OBVIOUS
  <2> HIDE DEF S
  <2> QED
    BY <1>2, <1>3, <2>1, SetInduction
<1> QED
  BY <1>1, <1>4

LEMMA AgreesSplit ==
  ASSUME NEW p \in Nat, NEW s \in Seq(Bytes), NEW t \in Seq(Bytes), Agrees(p, s \o t)
  PROVE  Agrees(p, s) /\ Agrees(p + Len(s), t)
<1> DEFINE u == s \o t
<1>1. Len(s) \in Nat /\ Len(t) \in Nat
  BY LenProperties
<1>2. /\ Len(u) = Len(s) + Len(t)
      /\ \A i \in 1 .. Len(s) + Len(t) : u[i] = IF i <= Len(s) THEN s[i] ELSE t[i - Len(s)]
  BY ConcatProperties
<1>3. \A i \in 1 .. Len(u) : p + i <= Len(payload) => payload[p + i] = u[i]
  BY DEF Agrees
<1> HIDE DEF u
<1>4. ASSUME NEW i \in 1 .. Len(s), p + i <= Len(payload) PROVE payload[p + i] = s[i]
  <2>1. i \in 1 .. Len(u) /\ i \in 1 .. Len(s) + Len(t) /\ i <= Len(s)
    BY <1>1, <1>2
  <2> QED
    BY <1>2, <1>3, <1>4, <2>1
<1>5. ASSUME NEW i \in 1 .. Len(t), p + Len(s) + i <= Len(payload) PROVE payload[p + Len(s) + i] = t[i]
  <2> DEFINE j == Len(s) + i
  <2>1. j \in 1 .. Len(u) /\ j \in 1 .. Len(s) + Len(t) /\ ~ (j <= Len(s)) /\ j - Len(s) = i
        /\ p + j = p + Len(s) + i
    BY <1>1, <1>2
  <2> HIDE DEF j
  <2> QED
    BY <1>2, <1>3, <1>5, <2>1
<1> QED
  BY <1>4, <1>5 DEF Agrees

\* Parts of a flattened sequence: how they follow each other, and what the
\* payload says of each when it goes on with all of them.
LEMMA FlattenParts ==
  ASSUME NEW n \in Nat, NEW f \in [1 .. n -> Seq(Bytes)], NEW i \in 0 .. n - 1
  PROVE  LET G(j) == FlattenSeq([h \in 1 .. j |-> f[h]])
         IN  /\ G(i) \in Seq(Bytes) /\ f[i + 1] \in Seq(Bytes) /\ G(i + 1) = G(i) \o f[i + 1]
             /\ G(i + 1) \in Seq(Bytes) /\ Len(G(i + 1)) = Len(G(i)) + Len(f[i + 1])
<1> DEFINE a == [h \in 1 .. i + 1 |-> f[h]]
           c == [h \in 1 .. i |-> f[h]]
<1>1. i \in Nat /\ a \in [1 .. i + 1 -> Seq(Bytes)] /\ c \in [1 .. i -> Seq(Bytes)]
      /\ a[i + 1] = f[i + 1] /\ f[i + 1] \in Seq(Bytes)
  OBVIOUS
<1>2. [h \in 1 .. i |-> a[h]] = c
  OBVIOUS
<1> HIDE DEF a, c
<1>3. FlattenSeq(a) = FlattenSeq([h \in 1 .. i |-> a[h]]) \o a[i + 1]
  BY <1>1, FlattenStep
<1>4. FlattenSeq(c) \in Seq(Bytes)
  BY <1>1, FlattenType
<1>5. FlattenSeq(a) = FlattenSeq(c) \o f[i + 1]
  BY <1>1, <1>2, <1>3
<1>6. /\ FlattenSeq(c) \o f[i + 1] \in Seq(Bytes)
      /\ Len(FlattenSeq(c) \o f[i + 1]) = Len(FlattenSeq(c)) + Len(f[i + 1])
  BY <1>1, <1>4, ConcatProperties
<1> QED
  BY <1>1, <1>4, <1>5, <1>6 DEF a, c

LEMMA AgreesParts ==
  ASSUME NEW n \in Nat, NEW f \in [1 .. n -> Seq(Bytes)], NEW p \in Nat, Agrees(p, FlattenSeq(f)),
         NEW i \in 0 .. n - 1
  PROVE  Agrees(p + Len(FlattenSeq([h \in 1 .. i |-> f[h]])), f[i + 1])
<1> DEFINE G(j) == FlattenSeq([h \in 1 .. j |-> f[h]])
           S == {d \in Nat : d <= n => Agrees(p, G(n - d))}
<1>1. 0 \in S
  <2>1. [h \in 1 .. n |-> f[h]] = f /\ n - 0 = n
    OBVIOUS
  <2> QED
    BY <2>1
<1>2. ASSUME NEW j \in 0 .. n - 1
      PROVE  /\ G(j) \in Seq(Bytes) /\ f[j + 1] \in Seq(Bytes) /\ G(j + 1) = G(j) \o f[j + 1]
  BY FlattenParts
<1> HIDE DEF G
<1>3. ASSUME NEW d \in S PROVE d + 1 \in S
  <2> SUFFICES ASSUME d + 1 <= n PROVE Agrees(p, G(n - (d + 1)))
    OBVIOUS
  <2> DEFINE j == n - (d + 1)
  <2>1. j \in 0 .. n - 1 /\ j + 1 = n - d /\ Agrees(p, G(n - d))
    OBVIOUS
  <2> HIDE DEF j
  <2>2. G(j) \in Seq(Bytes) /\ f[j + 1] \in Seq(Bytes) /\ Agrees(p, G(j) \o f[j + 1])
    BY <1>2, <2>1
  <2>3. Agrees(p, G(j))
    BY <2>2, AgreesSplit
  <2> QED
    BY <2>3 DEF j
<1>4. S = Nat
  <2>1. S \in SUBSET Nat
    OBVIOUS
  <2> HIDE DEF S
  <2> QED
    BY <1>1, <1>3, <2>1, SetInduction
<1>5. Agrees(p, G(i + 1))
  <2>1. n - (i + 1) \in S /\ n - (n - (i + 1)) = i + 1 /\ n - (i + 1) <= n
    <3>1. n - (i + 1) \in Nat /\ n - (n - (i + 1)) = i + 1 /\ n - (i + 1) <= n
      OBVIOUS
    <3> QED
      BY <1>4, <3>1
  <2> QED
    BY <2>1
<1>6. G(i) \in Seq(Bytes) /\ f[i + 1] \in Seq(Bytes) /\ Agrees(p, G(i) \o f[i + 1])
  BY <1>2, <1>5
<1>7. Agrees(p + Len(G(i)), f[i + 1])
  BY <1>6, AgreesSplit
<1> QED
  BY <1>7 DEF G

\* A sequence is read from its bytes, or the payload is too short for it.
LEMMA SequenceFits ==
  ASSUME NEW E, IsScalar(E), NEW v \in Seq(ScalarValues(E)), NEW p \in Nat, NEW c,
         payload \in Seq(Bytes), p <= Len(payload), NEW r, Good(r, p, c),
         Agrees(p, FlattenSeq(Raws(E, v)))
  PROVE  IF p + Len(FlattenSeq(Raws(E, v))) <= Len(payload)
         THEN Good(SequenceDecode(r, E, Len(v)), p + Len(FlattenSeq(Raws(E, v))), v)
         ELSE Bad(SequenceDecode(r, E, Len(v)))
<1> DEFINE n == Len(v)
           f == Raws(E, v)
           G(j) == FlattenSeq([h \in 1 .. j |-> f[h]])
           V(j) == [h \in 1 .. j |-> v[h]]
           lp == Len(payload)
<1>1. n \in Nat /\ lp \in Nat /\ v \in [1 .. n -> ScalarValues(E)] /\ E.width \in Nat
  BY LenProperties DEF IsScalar
<1>2. f \in [1 .. n -> Seq(Bytes)] /\ \A i \in 1 .. n : Len(f[i]) = E.width
  BY RawsType
<1>3. \A i \in 1 .. n : f[i] = Raw(E, v[i])
  BY DEF Raws
<1>4. Agrees(p, FlattenSeq(f))
  OBVIOUS
<1>5. PICK rd : /\ rd[0] = [r EXCEPT !.val = <<>>]
                /\ \A i \in 0 .. n - 1 : rd[i + 1] = Elem(rd[i], E)
                /\ SequenceDecode(r, E, n) = rd[n]
  BY <1>1, SequenceEquation
<1> HIDE DEF f, n, lp
<1>6. ASSUME NEW i \in 0 .. n - 1
      PROVE  /\ G(i) \in Seq(Bytes) /\ Len(G(i + 1)) = Len(G(i)) + E.width /\ Len(G(i)) \in Nat
             /\ Agrees(p + Len(G(i)), Raw(E, v[i + 1])) /\ v[i + 1] \in ScalarValues(E)
             /\ Append(V(i), v[i + 1]) = V(i + 1)
  <2>1. /\ G(i) \in Seq(Bytes) /\ f[i + 1] \in Seq(Bytes) /\ G(i + 1) = G(i) \o f[i + 1]
        /\ G(i + 1) \in Seq(Bytes) /\ Len(G(i + 1)) = Len(G(i)) + Len(f[i + 1])
    BY <1>1, <1>2, FlattenParts
  <2>2. Agrees(p + Len(G(i)), f[i + 1])
    BY <1>1, <1>2, <1>4, AgreesParts
  <2>3. i + 1 \in 1 .. n /\ i \in Nat
    BY <1>1
  <2>4. v[i + 1] \in ScalarValues(E)
    BY <1>1, <2>3
  <2>5. Append(V(i), v[i + 1]) = V(i + 1)
    <3>1. /\ V(i) \in Seq(ScalarValues(E)) /\ Len(V(i)) = i
          /\ V(i + 1) \in Seq(ScalarValues(E)) /\ Len(V(i + 1)) = i + 1
          /\ \A h \in 1 .. i : V(i)[h] = v[h]
          /\ \A h \in 1 .. i + 1 : V(i + 1)[h] = v[h]
      BY <1>1, <2>3
    <3> DEFINE y == V(i)
               z == V(i + 1)
               x == v[i + 1]
    <3>2. x \in ScalarValues(E) /\ x = v[i + 1]
      BY <2>4
    <3>8. /\ y \in Seq(ScalarValues(E)) /\ z \in Seq(ScalarValues(E)) /\ Len(z) = i + 1
          /\ Len(y) = i /\ (\A h \in 1 .. i : y[h] = v[h]) /\ (\A h \in 1 .. i + 1 : z[h] = v[h])
      BY <3>1
    <3> HIDE DEF y, z, V, x
    <3>3. /\ Append(y, x) \in Seq(ScalarValues(E)) /\ Len(Append(y, x)) = Len(y) + 1
          /\ \A h \in 1 .. Len(y) : Append(y, x)[h] = y[h]
          /\ Append(y, x)[Len(y) + 1] = x
      BY <3>2, <3>8, AppendProperties
    <3> DEFINE ax == Append(y, x)
    <3>6. /\ \A h \in 1 .. i : ax[h] = v[h]
          /\ ax[i + 1] = v[i + 1]
          /\ \A h \in 1 .. i + 1 : z[h] = v[h]
      <4>2. (\A h \in 1 .. Len(y) : ax[h] = y[h]) /\ ax[Len(y) + 1] = x
        BY <3>3
      <4> HIDE DEF ax
      <4> QED
        BY <3>2, <3>8, <4>2
    <3>7. \A h \in 1 .. i + 1 : h \in 1 .. i \/ h = i + 1
      BY <2>3
    <3>4. \A h \in 1 .. i + 1 : Append(y, x)[h] = z[h]
      <4> HIDE DEF ax
      <4>1. \A h \in 1 .. i + 1 : ax[h] = z[h]
        BY <3>6, <3>7
      <4> QED
        BY <4>1 DEF ax
    <3>5. Append(y, x) = z
      BY <2>3, <3>3, <3>4, <3>8, SeqEqual
    <3> QED
      BY <3>5 DEF y, z, x
  <2> HIDE DEF G, V
  <2>6. Len(G(i)) \in Nat
    BY <2>1, LenProperties
  <2> QED
    BY <1>2, <1>3, <2>1, <2>2, <2>3, <2>4, <2>5, <2>6
<1>7. G(0) = <<>> /\ V(0) = <<>> /\ G(n) = FlattenSeq(f) /\ V(n) = v
  <2>1. [h \in 1 .. 0 |-> f[h]] = <<>> /\ V(0) = <<>>
    OBVIOUS
  <2>2. [h \in 1 .. n |-> f[h]] = f /\ V(n) = v
    BY <1>1, <1>2
  <2> QED
    BY <2>1, <2>2, FlattenNone
<1> HIDE DEF G, V
<1> DEFINE Right(i) == IF p + Len(G(i)) <= lp THEN Good(rd[i], p + Len(G(i)), V(i)) ELSE Bad(rd[i])
           S == {i \in Nat : i <= n => Right(i)}
<1>8. 0 \in S
  <2>1. Len(G(0)) = 0 /\ p + 0 = p
    BY <1>7
  <2>2. Good(rd[0], p, <<>>)
    BY <1>5 DEF Good, IsReader
  <2>3. Right(0)
    BY <1>7, <2>1, <2>2 DEF lp
  <2> QED
    BY <2>3
<1>9. ASSUME NEW i \in S PROVE i + 1 \in S
  <2> SUFFICES ASSUME i + 1 <= n PROVE Right(i + 1)
    OBVIOUS
  <2>1. i \in 0 .. n - 1 /\ Right(i)
    BY <1>1
  <2> DEFINE q == p + Len(G(i))
  <2>2. q \in Nat /\ p + Len(G(i + 1)) = q + E.width
    <3>1. Len(G(i)) \in Nat /\ Len(G(i + 1)) = Len(G(i)) + E.width /\ E.width \in Nat
      BY <1>1, <1>6, <2>1
    <3> DEFINE a == Len(G(i))
               b == Len(G(i + 1))
    <3>2. a \in Nat /\ b = a + E.width /\ E.width \in Nat
      BY <3>1
    <3> HIDE DEF a, b
    <3>3. p + a \in Nat /\ p + b = (p + a) + E.width
      BY <3>2
    <3> QED
      BY <3>3 DEF a, b
  <2>3. rd[i + 1] = Elem(rd[i], E)
    BY <1>5, <2>1
  <2>4. CASE q <= lp
    <3>1. Good(rd[i], q, V(i))
      BY <2>1, <2>4
    <3>2. Agrees(q, Raw(E, v[i + 1])) /\ v[i + 1] \in ScalarValues(E) /\ Append(V(i), v[i + 1]) = V(i + 1)
      BY <1>6, <2>1
    <3> HIDE DEF q
    <3>3. IF q + E.width <= Len(payload) THEN Good(Elem(rd[i], E), q + E.width, Append(V(i), v[i + 1]))
          ELSE Bad(Elem(rd[i], E))
      BY <2>2, <3>1, <3>2, ElemFits
    <3> QED
      BY <2>2, <2>3, <3>2, <3>3 DEF lp
  <2>5. CASE ~ (q <= lp)
    <3>1. Bad(rd[i]) /\ ~ (p + Len(G(i + 1)) <= lp)
      BY <1>1, <2>1, <2>2, <2>5
    <3>2. Bad(Elem(rd[i], E))
      BY <3>1, ElemBad
    <3> QED
      BY <2>3, <3>1, <3>2
  <2> QED
    BY <2>4, <2>5
<1>10. Right(n)
  <2>1. S \in SUBSET Nat
    OBVIOUS
  <2>2. n \in S
    <3> HIDE DEF S
    <3> QED
      BY <1>1, <1>8, <1>9, <2>1, SetInduction
  <2> HIDE DEF Right
  <2> QED
    BY <1>1, <2>2
<1> QED
  BY <1>5, <1>7, <1>10 DEF n, f, lp

\* The payload holds s behind its first p bytes.
Found(p, s) == s \in Seq(Bytes) /\ p + Len(s) <= Len(payload) /\ Agrees(p, s)

LEMMA FoundSlice ==
  ASSUME NEW p \in Nat, NEW l \in Nat, payload \in Seq(Bytes), p + l <= Len(payload), NEW s,
         s = SubSeq(payload, p + 1, p + l)
  PROVE  Found(p, s) /\ Len(s) = l
<1>1. s \in Seq(Bytes) /\ Len(s) = l /\ \A i \in 1 .. l : s[i] = payload[p + i]
  BY SliceType
<1> QED
  BY <1>1 DEF Found, Agrees

LEMMA FoundJoin ==
  ASSUME NEW p \in Nat, payload \in Seq(Bytes), NEW s, NEW t, Found(p, s), Found(p + Len(s), t)
  PROVE  Found(p, s \o t) /\ Len(s \o t) = Len(s) + Len(t)
<1> DEFINE u == s \o t
<1>1. s \in Seq(Bytes) /\ t \in Seq(Bytes) /\ Len(s) \in Nat /\ Len(t) \in Nat
  BY LenProperties DEF Found
<1>2. /\ u \in Seq(Bytes) /\ Len(u) = Len(s) + Len(t)
      /\ \A i \in 1 .. Len(s) + Len(t) : u[i] = IF i <= Len(s) THEN s[i] ELSE t[i - Len(s)]
  BY <1>1, ConcatProperties
<1> HIDE DEF u
<1> DEFINE a == Len(s)
           b == Len(t)
<1>3. a \in Nat /\ b \in Nat /\ Len(u) = a + b /\ p + a <= Len(payload) /\ (p + a) + b <= Len(payload)
  BY <1>1, <1>2 DEF Found
<1>4. ASSUME NEW i \in 1 .. Len(u) PROVE payload[p + i] = u[i]
  <2>1. CASE i <= a
    <3>1. i \in 1 .. Len(s) /\ p + i <= Len(payload)
      BY <1>3, <2>1
    <3>2. payload[p + i] = s[i]
      BY <3>1 DEF Found, Agrees
    <3>3. u[i] = s[i]
      BY <1>2, <1>3, <2>1
    <3> QED
      BY <3>2, <3>3
  <2>2. CASE ~ (i <= a)
    <3> DEFINE h == i - a
    <3>1. h \in 1 .. Len(t) /\ (p + a) + h <= Len(payload) /\ (p + a) + h = p + i
      BY <1>3, <2>2
    <3>2. u[i] = t[h]
      BY <1>2, <1>3, <2>2
    <3> HIDE DEF h
    <3>3. payload[(p + a) + h] = t[h]
      BY <3>1 DEF Found, Agrees
    <3> QED
      BY <3>1, <3>2, <3>3
  <2> QED
    BY <2>1, <2>2
<1>5. p + Len(u) <= Len(payload)
  BY <1>3
<1> QED
  BY <1>2, <1>4, <1>5 DEF Found, Agrees, u

LEMMA RawsAppend ==
  ASSUME NEW E, IsScalar(E), NEW x \in Seq(ScalarValues(E)), NEW y \in ScalarValues(E)
  PROVE  FlattenSeq(Raws(E, Append(x, y))) = FlattenSeq(Raws(E, x)) \o Raw(E, y)
<1> DEFINE z == Append(x, y)
           n == Len(x)
           f == Raws(E, z)
<1>1. n \in Nat
  BY LenProperties
<1>2. z \in Seq(ScalarValues(E)) /\ Len(z) = n + 1 /\ (\A i \in 1 .. n : z[i] = x[i]) /\ z[n + 1] = y
  BY AppendProperties
<1> HIDE DEF z, n
<1>3. f \in [1 .. n + 1 -> Seq(Bytes)]
  <2>1. Raws(E, z) \in [1 .. Len(z) -> Seq(Bytes)]
    BY <1>2, RawsType
  <2> QED
    BY <1>2, <2>1
<1>4. \A i \in 1 .. n + 1 : f[i] = Raw(E, z[i])
  BY <1>2 DEF Raws
<1> HIDE DEF f
<1>5. [i \in 1 .. n |-> f[i]] = Raws(E, x)
  <2>1. \A i \in 1 .. n : f[i] = Raw(E, x[i])
    BY <1>1, <1>2, <1>4
  <2> QED
    BY <2>1 DEF Raws, n
<1>6. f[n + 1] = Raw(E, y)
  BY <1>1, <1>2, <1>4
<1>7. FlattenSeq(f) = FlattenSeq([i \in 1 .. n |-> f[i]]) \o f[n + 1]
  BY <1>1, <1>3, FlattenStep
<1> QED
  BY <1>5, <1>6, <1>7 DEF f, z

\* What is read of a sequence without an error is written as the same bytes.
LEMMA SequenceBack ==
  ASSUME NEW E, IsScalar(E), NEW n \in Nat, NEW p \in Nat, NEW c,
         payload \in Seq(Bytes), p <= Len(payload), NEW r, Good(r, p, c)
  PROVE  \/ Bad(SequenceDecode(r, E, n))
         \/ \E x \in Seq(ScalarValues(E)) :
              /\ Len(x) = n
              /\ Found(p, FlattenSeq(Raws(E, x)))
              /\ Good(SequenceDecode(r, E, n), p + Len(FlattenSeq(Raws(E, x))), x)
<1>1. PICK rd : /\ rd[0] = [r EXCEPT !.val = <<>>]
                /\ \A i \in 0 .. n - 1 : rd[i + 1] = Elem(rd[i], E)
                /\ SequenceDecode(r, E, n) = rd[n]
  BY SequenceEquation
<1> DEFINE F(x) == FlattenSeq(Raws(E, x))
           Right(i) == \E x \in Seq(ScalarValues(E)) :
                         Len(x) = i /\ Found(p, F(x)) /\ Good(rd[i], p + Len(F(x)), x)
           S == {i \in Nat : i <= n => Bad(rd[i]) \/ Right(i)}
<1>2. 0 \in S
  <2>1. <<>> \in Seq(ScalarValues(E)) /\ Len(<<>>) = 0
    OBVIOUS
  <2>2. F(<<>>) = <<>>
    <3>1. Raws(E, <<>>) = <<>>
      BY DEF Raws
    <3> QED
      BY <3>1, FlattenNone
  <2>3. Found(p, <<>>)
    <3>1. <<>> \in Seq(Bytes) /\ Len(<<>>) = 0 /\ p + 0 <= Len(payload) /\ 1 .. 0 = {}
      BY LenProperties
    <3> QED
      BY <3>1 DEF Found, Agrees
  <2>4. Good(rd[0], p, <<>>)
    BY <1>1 DEF Good, IsReader
  <2>5. p + Len(F(<<>>)) = p
    BY <2>2
  <2> HIDE DEF F
  <2>6. Right(0)
    BY <2>1, <2>2, <2>3, <2>4, <2>5
  <2> QED
    BY <2>6
<1>3. ASSUME NEW i \in S PROVE i + 1 \in S
  <2> SUFFICES ASSUME i + 1 <= n PROVE Bad(rd[i + 1]) \/ Right(i + 1)
    OBVIOUS
  <2>1. i \in 0 .. n - 1 /\ (Bad(rd[i]) \/ Right(i))
    OBVIOUS
  <2>2. rd[i + 1] = Elem(rd[i], E)
    BY <1>1, <2>1
  <2>3. CASE Bad(rd[i])
    BY <2>2, <2>3, ElemBad
  <2>4. CASE Right(i)
    <3>1. PICK x \in Seq(ScalarValues(E)) :
            Len(x) = i /\ Found(p, F(x)) /\ Good(rd[i], p + Len(F(x)), x)
      BY <2>4
    <3> DEFINE q == p + Len(F(x))
    <3>2. q \in Nat /\ F(x) \in Seq(Bytes) /\ Len(F(x)) \in Nat
      <4> HIDE DEF F
      <4>1. F(x) \in Seq(Bytes)
        BY <3>1 DEF Found
      <4>2. Len(F(x)) \in Nat
        BY <4>1, LenProperties
      <4> QED
        BY <4>1, <4>2
    <3>3. Good(rd[i], q, x)
      BY <3>1
    <3> HIDE DEF q
    <3>4. \/ Bad(Elem(rd[i], E))
          \/ /\ q + E.width <= Len(payload)
             /\ \E y \in ScalarValues(E) :
                  /\ Good(Elem(rd[i], E), q + E.width, Append(x, y))
                  /\ Raw(E, y) = SubSeq(payload, q + 1, q + E.width)
      BY <3>2, <3>3, ElemBack
    <3>5. CASE Bad(Elem(rd[i], E))
      BY <2>2, <3>5
    <3>6. ASSUME q + E.width <= Len(payload), NEW y \in ScalarValues(E),
                 Good(Elem(rd[i], E), q + E.width, Append(x, y)),
                 Raw(E, y) = SubSeq(payload, q + 1, q + E.width)
          PROVE  Right(i + 1)
      <4>1. E.width \in Nat
        BY DEF IsScalar
      <4>2. Found(q, Raw(E, y)) /\ Len(Raw(E, y)) = E.width
        BY <3>2, <3>6, <4>1, FoundSlice
      <4>3. F(Append(x, y)) = F(x) \o Raw(E, y)
        BY RawsAppend
      <4> HIDE DEF F
      <4>4. Found(p + Len(F(x)), Raw(E, y))
        BY <4>2 DEF q
      <4>5. Found(p, F(x) \o Raw(E, y)) /\ Len(F(x) \o Raw(E, y)) = Len(F(x)) + Len(Raw(E, y))
        BY <3>1, <4>4, FoundJoin
      <4> DEFINE z == Append(x, y)
      <4>6. z \in Seq(ScalarValues(E)) /\ Len(z) = i + 1
        BY <3>1, AppendProperties
      <4>7. Found(p, F(z)) /\ Len(F(z)) = Len(F(x)) + E.width
        BY <4>2, <4>3, <4>5
      <4>8. Good(rd[i + 1], q + E.width, z)
        BY <2>2, <3>6
      <4> HIDE DEF z
      <4>9. q + E.width = p + Len(F(z))
        <5> DEFINE a == Len(F(x))
        <5>1. a \in Nat /\ q = p + a /\ Len(F(z)) = a + E.width
          BY <3>2, <4>7 DEF q
        <5> HIDE DEF a
        <5> QED
          BY <4>1, <5>1
      <4>10. Good(rd[i + 1], p + Len(F(z)), z)
        BY <4>8, <4>9
      <4> QED
        BY <4>6, <4>7, <4>10
    <3> HIDE DEF Right
    <3> QED
      BY <2>2, <3>4, <3>5, <3>6
  <2> HIDE DEF Right
  <2> QED
    BY <2>1, <2>3, <2>4
<1>4. Bad(rd[n]) \/ Right(n)
  <2>1. S \in SUBSET Nat
    OBVIOUS
  <2>2. n \in S
    <3> HIDE DEF S
    <3> QED
      BY <1>2, <1>3, <2>1, SetInduction
  <2> HIDE DEF Right
  <2> QED
    BY <2>2
<1> QED
  BY <1>1, <1>4

-----------------------------------------------------------------------------
(* Fields *)

\* The length in front of a list.
LEMMA CountIs ==
  ASSUME NEW w \in 1 .. 3
  PROVE  /\ IsScalar(Uint(w)) /\ Uint(w).kind = "int" /\ Uint(w).width = w
         /\ ScalarValues(Uint(w)) = 0 .. Weight[w] - 1
         /\ \A n : Raw(Uint(w), n) = LittleEndian(n, w)
<1> DEFINE U == Uint(w)
<1>1. U.kind = "int" /\ U.width = w /\ DOMAIN U = {"kind", "width"}
  BY DEF Uint
<1>2. w \in Nat /\ w > 0 /\ w <= 8 /\ "limit" \notin {"kind", "width"}
  OBVIOUS
<1> HIDE DEF U
<1>3. IsScalar(U) /\ ScalarValues(U) = 0 .. Weight[w] - 1 /\ \A n : Raw(U, n) = LittleEndian(n, w)
  BY <1>1, <1>2 DEF IsScalar, ScalarValues, Raw
<1> QED
  BY <1>1, <1>3 DEF U

LEMMA ListBad ==
  ASSUME NEW T, IsList(T), NEW r, Bad(ReadScalar(r, Uint(T.width))), ReadScalar(r, Uint(T.width)).val = 0
  PROVE  Bad(ReadField(r, T))
<1> DEFINE l == ReadScalar(r, Uint(T.width))
<1>1. Bad(l) /\ l.val = 0 /\ T.checked \in Nat /\ 0 <= T.checked /\ ~ (0 > T.checked)
  BY DEF IsList
<1>2. CASE T.kind = "bin"
  <2>0. ReadField(r, T) = ReadBin(r, T)
    BY <1>2 DEF ReadField
  <2>1. CASE r.err \/ l.panic
    <3>1. ReadBin(r, T) = [l EXCEPT !.val = <<>>]
      BY <2>1 DEF ReadBin
    <3> HIDE DEF l
    <3> QED
      BY <1>1, <2>0, <3>1 DEF Bad, IsReader
  <2>2. CASE ~ r.err /\ ~ l.panic
    <3>1. ReadBin(r, T) = Read(l, 0)
      BY <1>1, <2>2 DEF ReadBin
    <3>2. Bad(Read(l, 0))
      BY <1>1, ReadBad
    <3> QED
      BY <2>0, <3>1, <3>2
  <2> QED
    BY <2>1, <2>2
<1> DEFINE s == SequenceDecode(l, T.elem, 0)
<1>3. Bad(s)
  <2>1. 0 \in Nat
    OBVIOUS
  <2> QED
    BY <1>1, <2>1, SequenceBad
<1>4. CASE T.kind = "seq"
  <2>0. ReadField(r, T) = ReadSeq(r, T)
    BY <1>4 DEF ReadField
  <2>1. CASE r.err \/ l.panic
    <3>1. ReadSeq(r, T) = [l EXCEPT !.err = TRUE, !.panic = TRUE]
      BY <2>1 DEF ReadSeq
    <3> HIDE DEF l
    <3> QED
      BY <1>1, <2>0, <3>1 DEF Bad, IsReader
  <2>2. CASE ~ r.err /\ ~ l.panic
    <3>1. ReadSeq(r, T) = [s EXCEPT !.panic = s.panic \/ s.err]
      BY <1>1, <2>2 DEF ReadSeq
    <3> HIDE DEF s
    <3> QED
      BY <1>3, <2>0, <3>1 DEF Bad, IsReader
  <2> QED
    BY <2>1, <2>2
<1>5. CASE T.kind = "loop"
  <2>0. ReadField(r, T) = ReadLoop(r, T)
    BY <1>5 DEF ReadField
  <2>1. ReadLoop(r, T) = l \/ ReadLoop(r, T) = s
    BY <1>1 DEF ReadLoop
  <2> QED
    BY <1>1, <1>3, <2>0, <2>1
<1> QED
  BY <1>2, <1>4, <1>5 DEF IsList

LEMMA ListOver ==
  ASSUME NEW T, IsList(T), T.kind # "loop", NEW r, NEW p, NEW c, Good(r, p, c), NEW q, NEW n \in Nat,
         Good(ReadScalar(r, Uint(T.width)), q, n), n > T.checked
  PROVE  Bad(ReadField(r, T))
<1> DEFINE l == ReadScalar(r, Uint(T.width))
<1>1. Good(l, q, n) /\ ~ r.err
  BY DEF Good
<1>2. CASE T.kind = "bin"
  <2>1. ReadField(r, T) = [l EXCEPT !.err = TRUE, !.val = <<>>]
    <3>1. ReadField(r, T) = ReadBin(r, T)
      BY <1>2 DEF ReadField
    <3>2. ~ r.err /\ ~ l.panic /\ l.val > T.checked /\ ~ (l.val <= T.checked)
      <4> HIDE DEF l
      <4> QED
        BY <1>1 DEF Good, IsList
    <3> QED
      BY <3>1, <3>2 DEF ReadBin
  <2> HIDE DEF l
  <2> QED
    BY <1>1, <2>1 DEF Good, Bad, IsReader
<1>3. CASE T.kind = "seq"
  <2>1. ReadField(r, T) = [l EXCEPT !.err = TRUE, !.panic = TRUE]
    BY <1>1, <1>3 DEF ReadField, ReadSeq, Good
  <2> HIDE DEF l
  <2> QED
    BY <1>1, <2>1 DEF Good, Bad, IsReader
<1> QED
  BY <1>2, <1>3 DEF IsList

\* The value behind a length that was accepted.
LEMMA ListTaken ==
  ASSUME NEW T, IsList(T), NEW r, NEW p, NEW c, Good(r, p, c), NEW q, NEW n \in Nat,
         Good(ReadScalar(r, Uint(T.width)), q, n), n <= T.checked
  PROVE  /\ T.kind = "bin" => ReadField(r, T) = Read(ReadScalar(r, Uint(T.width)), n)
         /\ T.kind # "bin" =>
              LET s == SequenceDecode(ReadScalar(r, Uint(T.width)), T.elem, n)
              IN  /\ Bad(s) => Bad(ReadField(r, T))
                  /\ \A e, x : Good(s, e, x) => Good(ReadField(r, T), e, x)
<1> DEFINE l == ReadScalar(r, Uint(T.width))
           s == SequenceDecode(l, T.elem, n)
<1>1. Good(l, q, n) /\ ~ r.err /\ ~ (n > T.checked)
  BY DEF Good, IsList
<1>2. CASE T.kind = "bin"
  BY <1>1, <1>2 DEF ReadField, ReadBin, Good
<1>3. CASE T.kind = "seq"
  <2>1. ReadField(r, T) = [s EXCEPT !.panic = s.panic \/ s.err]
    BY <1>1, <1>3 DEF ReadField, ReadSeq, Good
  <2> HIDE DEF s
  <2>2. Bad(s) => Bad(ReadField(r, T))
    BY <2>1 DEF Bad, IsReader
  <2>3. ASSUME NEW e, NEW x, Good(s, e, x) PROVE Good(ReadField(r, T), e, x)
    BY <2>1, <2>3 DEF Good, IsReader
  <2> QED
    BY <1>3, <2>2, <2>3 DEF s
<1>4. CASE T.kind = "loop"
  <2>1. ReadField(r, T) = s
    BY <1>1, <1>4 DEF ReadField, ReadLoop, Good
  <2> QED
    BY <1>4, <2>1
<1> QED
  BY <1>2, <1>3, <1>4 DEF IsList

LEMMA FieldBad ==
  ASSUME NEW T, IsScalar(T) \/ IsList(T), NEW r, Bad(r)
  PROVE  Bad(ReadField(r, T))
<1>1. CASE IsScalar(T)
  <2>1. ReadField(r, T) = ReadScalar(r, T)
    BY <1>1 DEF ReadField, IsScalar
  <2> QED
    BY <2>1, ScalarBad
<1>2. CASE IsList(T)
  <2>1. Uint(T.width).kind = "int"
    BY DEF Uint
  <2>2. Bad(ReadScalar(r, Uint(T.width))) /\ ReadScalar(r, Uint(T.width)).val = 0
    BY <2>1, ScalarBad
  <2> QED
    BY <1>2, <2>2, ListBad
<1> QED
  BY <1>1, <1>2

\* A field is read from its bytes, or the payload is too short for it.
LEMMA FieldFits ==
  ASSUME NEW T, IsScalar(T) \/ IsList(T), NEW v \in Values(T), ~ TooLong(T, v), NEW p \in Nat, NEW c,
         payload \in Seq(Bytes), NEW r, Good(r, p, c), Agrees(p, Whole(T, v))
  PROVE  IF p + Len(Whole(T, v)) <= Len(payload)
         THEN Good(ReadField(r, T), p + Len(Whole(T, v)), v)
         ELSE Bad(ReadField(r, T))
<1>0. Len(payload) \in Nat
  BY LenProperties
<1>1. CASE IsScalar(T)
  <2>1. T.kind \in {"int", "bool", "fixed", "array"}
    BY <1>1 DEF IsScalar
  <2>2. ReadField(r, T) = ReadScalar(r, T) /\ Whole(T, v) = Raw(T, v) /\ v \in ScalarValues(T)
    BY <2>1 DEF ReadField, Whole, Values
  <2>3. Len(Raw(T, v)) = T.width
    BY <1>1, <2>2, RawType
  <2>4. Agrees(p, Raw(T, v))
    BY <2>2
  <2>5. IF p + T.width <= Len(payload) THEN Good(ReadScalar(r, T), p + T.width, v)
        ELSE Bad(ReadScalar(r, T)) /\ (T.kind = "int" => ReadScalar(r, T).val = 0)
    BY <1>1, <2>2, <2>4, ScalarFits
  <2> QED
    BY <2>2, <2>3, <2>5
<1>2. CASE IsList(T)
  <2> DEFINE w == T.width
             n == Len(v)
             U == Uint(w)
             l == ReadScalar(r, U)
             h == LittleEndian(n, w)
             t == Behind(T, v)
  <2>1. /\ w \in 1 .. 3 /\ w \in 0 .. 8 /\ w \in Nat /\ T.kind \in {"bin", "seq", "loop"}
        /\ T.limit \in Nat /\ T.limit < Weight[w] /\ T.checked \in Nat /\ T.limit <= T.checked
        /\ "limit" \in DOMAIN T
    BY <1>2 DEF IsList
  <2>2. t \in Seq(Bytes) /\ n \in Nat
    BY <1>2, BehindType
  <2> HIDE DEF t, n
  <2>3. n <= T.limit
    BY <2>1, <2>2 DEF TooLong, n
  <2>4. Weight[w] \in Nat
    BY <2>1, WeightPositive
  <2>5. n \in 0 .. Weight[w] - 1 /\ n <= T.checked
    BY <2>1, <2>2, <2>3, <2>4
  <2>6. IsScalar(U) /\ U.kind = "int" /\ U.width = w /\ ScalarValues(U) = 0 .. Weight[w] - 1 /\ Raw(U, n) = h
    BY <2>1, CountIs
  <2>7. h \in Seq(Bytes) /\ Len(h) = w
    BY <2>1, <2>2, LittleEndianType
  <2>8. Whole(T, v) = h \o t
    BY <2>1 DEF Whole, t, n
  <2> HIDE DEF h, U
  <2>9. Len(t) \in Nat /\ Len(h \o t) = Len(h) + Len(t)
    BY <2>2, <2>7, LenProperties, ConcatProperties
  <2> DEFINE d == Len(t)
             q == p + w
  <2>10. d \in Nat /\ q \in Nat /\ Len(Whole(T, v)) = w + d /\ p + Len(Whole(T, v)) = q + d
    BY <2>1, <2>7, <2>8, <2>9
  <2>11. Agrees(p, h) /\ Agrees(p + Len(h), t)
    <3>1. Agrees(p, h \o t)
      BY <2>8
    <3> QED
      BY <2>2, <2>7, <3>1, AgreesSplit
  <2>12. Agrees(q, t) /\ Agrees(p, Raw(U, n)) /\ n \in ScalarValues(U)
    BY <2>5, <2>6, <2>7, <2>11
  <2>13. IF p + U.width <= Len(payload) THEN Good(l, p + U.width, n)
         ELSE Bad(l) /\ (U.kind = "int" => l.val = 0)
    BY <2>6, <2>12, ScalarFits
  <2> HIDE DEF q
  <2>14. CASE q <= Len(payload)
    <3>1. Good(l, q, n)
      BY <2>6, <2>13, <2>14 DEF q
    <3>2. Good(ReadScalar(r, Uint(T.width)), q, n)
      BY <3>1 DEF U
    <3>3. /\ T.kind = "bin" => ReadField(r, T) = Read(l, n)
          /\ T.kind # "bin" =>
               LET s == SequenceDecode(l, T.elem, n)
               IN  /\ Bad(s) => Bad(ReadField(r, T))
                   /\ \A e, x : Good(s, e, x) => Good(ReadField(r, T), e, x)
      BY <1>2, <2>2, <2>5, <3>2, ListTaken DEF U
    <3> HIDE DEF l
    <3>4. CASE T.kind = "bin"
      <4>1. t = v /\ d = n
        BY <3>4 DEF t, Behind, n
      <4>2. IF q + n > Len(payload) THEN Bad(Read(l, n))
            ELSE Good(Read(l, n), q + n, SubSeq(payload, q + 1, q + n))
        BY <2>2, <2>10, <3>1, ReadIs
      <4>3. CASE q + n > Len(payload)
        BY <2>10, <1>0, <2>2, <3>3, <3>4, <4>1, <4>2, <4>3
      <4>4. CASE ~ (q + n > Len(payload))
        <5>1. q + Len(t) <= Len(payload)
          BY <1>0, <2>2, <2>10, <4>1, <4>4
        <5>2. SubSeq(payload, q + 1, q + Len(t)) = t
          BY <2>2, <2>10, <2>12, <5>1, SliceIs
        <5>3. Good(ReadField(r, T), q + n, v)
          BY <3>3, <3>4, <4>1, <4>2, <4>4, <5>2
        <5> QED
          BY <2>10, <4>1, <5>1, <5>3
      <4> QED
        BY <4>3, <4>4
    <3>5. CASE T.kind # "bin"
      <4>1. T.kind \in {"seq", "loop"} /\ IsScalar(T.elem)
        BY <1>2, <2>1, <3>5 DEF IsList
      <4>2. v \in Seq(ScalarValues(T.elem)) /\ t = FlattenSeq(Raws(T.elem, v))
        BY <4>1 DEF Values, t, Behind
      <4>3. Agrees(q, FlattenSeq(Raws(T.elem, v)))
        BY <2>12, <4>2
      <4>4. IF q + Len(FlattenSeq(Raws(T.elem, v))) <= Len(payload)
            THEN Good(SequenceDecode(l, T.elem, Len(v)), q + Len(FlattenSeq(Raws(T.elem, v))), v)
            ELSE Bad(SequenceDecode(l, T.elem, Len(v)))
        BY <2>10, <2>14, <3>1, <4>1, <4>2, <4>3, SequenceFits
      <4>5. IF q + d <= Len(payload) THEN Good(SequenceDecode(l, T.elem, n), q + d, v)
            ELSE Bad(SequenceDecode(l, T.elem, n))
        BY <4>2, <4>4 DEF n
      <4>6. IF q + d <= Len(payload) THEN Good(ReadField(r, T), q + d, v) ELSE Bad(ReadField(r, T))
        BY <3>3, <3>5, <4>5
      <4> QED
        BY <2>10, <4>6
    <3> QED
      BY <3>4, <3>5
  <2>15. CASE ~ (q <= Len(payload))
    <3>1. Bad(l) /\ l.val = 0
      BY <2>6, <2>13, <2>15 DEF q
    <3>2. Bad(ReadField(r, T))
      BY <1>2, <3>1, ListBad DEF U
    <3>3. ~ (q + d <= Len(payload))
      BY <1>0, <2>10, <2>15
    <3> QED
      BY <2>10, <3>2, <3>3
  <2> QED
    BY <2>14, <2>15
<1> QED
  BY <1>1, <1>2

\* What is read of a field without an error is written as the same bytes.
LEMMA FieldBack ==
  ASSUME NEW T, IsScalar(T) \/ IsList(T), NEW p \in Nat, NEW c,
         payload \in Seq(Bytes), NEW r, Good(r, p, c)
  PROVE  \/ Bad(ReadField(r, T))
         \/ \E x \in Values(T) :
              /\ Found(p, Whole(T, x))
              /\ Good(ReadField(r, T), p + Len(Whole(T, x)), x)
              /\ IsList(T) => Len(x) \in Nat /\ Len(x) <= T.checked
<1>0. Len(payload) \in Nat
  BY LenProperties
<1>1. CASE IsScalar(T)
  <2>1. T.kind \in {"int", "bool", "fixed", "array"} /\ ~ IsList(T) /\ T.width \in Nat
    BY <1>1 DEF IsScalar, IsList
  <2>2. /\ ReadField(r, T) = ReadScalar(r, T) /\ Values(T) = ScalarValues(T)
        /\ \A x : Whole(T, x) = Raw(T, x)
    BY <2>1 DEF ReadField, Whole, Values
  <2>3. \/ Bad(ReadScalar(r, T)) /\ (T.kind = "int" => ReadScalar(r, T).val = 0)
        \/ /\ p + T.width <= Len(payload)
           /\ \E x \in ScalarValues(T) :
                /\ Good(ReadScalar(r, T), p + T.width, x)
                /\ Raw(T, x) = SubSeq(payload, p + 1, p + T.width)
    BY <1>1, ScalarBack
  <2>4. ASSUME p + T.width <= Len(payload), NEW x \in ScalarValues(T),
               Raw(T, x) = SubSeq(payload, p + 1, p + T.width)
        PROVE  Found(p, Raw(T, x)) /\ Len(Raw(T, x)) = T.width
    BY <2>1, <2>4, FoundSlice
  <2>5. ASSUME p + T.width <= Len(payload), NEW x \in ScalarValues(T), Good(ReadScalar(r, T), p + T.width, x),
               Raw(T, x) = SubSeq(payload, p + 1, p + T.width)
        PROVE  /\ x \in Values(T) /\ Found(p, Whole(T, x))
               /\ Good(ReadField(r, T), p + Len(Whole(T, x)), x)
    <3>1. Found(p, Raw(T, x)) /\ Len(Raw(T, x)) = T.width
      BY <2>4, <2>5
    <3> QED
      BY <2>2, <2>5, <3>1
  <2> QED
    BY <2>1, <2>2, <2>3, <2>5, Zenon
<1>2. CASE IsList(T)
  <2> DEFINE w == T.width
             U == Uint(w)
             l == ReadScalar(r, U)
             q == p + w
  <2>1. /\ w \in 1 .. 3 /\ w \in 0 .. 8 /\ w \in Nat /\ T.kind \in {"bin", "seq", "loop"}
        /\ T.limit \in Nat /\ T.limit < Weight[w] /\ T.checked \in Nat /\ T.limit <= T.checked
        /\ T.kind = "loop" => T.limit = Weight[w] - 1
    BY <1>2 DEF IsList
  <2>2. IsScalar(U) /\ U.kind = "int" /\ U.width = w /\ ScalarValues(U) = 0 .. Weight[w] - 1
        /\ \A n : Raw(U, n) = LittleEndian(n, w)
    BY <2>1, CountIs
  <2> HIDE DEF U
  <2>3. \/ Bad(l) /\ (U.kind = "int" => l.val = 0)
        \/ /\ p + U.width <= Len(payload)
           /\ \E n \in ScalarValues(U) :
                /\ Good(l, p + U.width, n)
                /\ Raw(U, n) = SubSeq(payload, p + 1, p + U.width)
    BY <2>2, ScalarBack
  <2>4. ASSUME Bad(l), l.val = 0 PROVE Bad(ReadField(r, T))
    BY <1>2, <2>4, ListBad DEF U
  <2>5. ASSUME q <= Len(payload), NEW n \in 0 .. Weight[w] - 1, Good(l, q, n),
               LittleEndian(n, w) = SubSeq(payload, p + 1, p + w)
        PROVE  \/ Bad(ReadField(r, T))
               \/ \E x \in Values(T) :
                    /\ Found(p, Whole(T, x))
                    /\ Good(ReadField(r, T), p + Len(Whole(T, x)), x)
                    /\ Len(x) \in Nat /\ Len(x) <= T.checked
    <3>0. n \in Nat /\ q \in Nat /\ Weight[w] \in Nat
      <4>1. Weight[w] \in Nat /\ w \in Nat
        BY <2>1, WeightPositive
      <4> DEFINE a == Weight[w]
      <4>2. a \in Nat /\ n \in 0 .. a - 1
        BY <4>1
      <4> HIDE DEF a
      <4>3. n \in Nat
        BY <4>2
      <4> QED
        BY <4>1, <4>3
    <3>1. Good(ReadScalar(r, Uint(T.width)), q, n)
      BY <2>5 DEF U
    <3>2. CASE n > T.checked
      <4>1. T.kind # "loop"
        BY <2>1, <3>0, <3>2
      <4> QED
        BY <1>2, <3>0, <3>1, <3>2, <4>1, ListOver
    <3>3. CASE n <= T.checked
      <4>1. /\ T.kind = "bin" => ReadField(r, T) = Read(l, n)
            /\ T.kind # "bin" =>
                 LET s == SequenceDecode(l, T.elem, n)
                 IN  /\ Bad(s) => Bad(ReadField(r, T))
                     /\ \A e, x : Good(s, e, x) => Good(ReadField(r, T), e, x)
        BY <1>2, <3>0, <3>1, <3>3, ListTaken DEF U
      <4> HIDE DEF l, q
      <4> DEFINE h == LittleEndian(n, w)
      <4>2. Found(p, h) /\ Len(h) = w
        BY <2>1, <2>5, FoundSlice DEF q
      <4>3. Good(l, q, n) /\ q = p + w
        BY <2>5 DEF q
      <4> HIDE DEF h
      <4>4. ASSUME NEW x \in Values(T), Len(x) = n, Found(q, Behind(T, x)),
                   Good(ReadField(r, T), q + Len(Behind(T, x)), x)
            PROVE  \E y \in Values(T) :
                    /\ Found(p, Whole(T, y))
                    /\ Good(ReadField(r, T), p + Len(Whole(T, y)), y)
                    /\ Len(y) \in Nat /\ Len(y) <= T.checked
        <5> DEFINE t == Behind(T, x)
        <5>1. Found(p + Len(h), t)
          BY <4>2, <4>3, <4>4
        <5>2. Whole(T, x) = h \o t
          BY <2>1, <4>4 DEF Whole, h
        <5>3. Len(t) \in Nat
          BY <5>1, LenProperties DEF Found
        <5> HIDE DEF t
        <5>4. Found(p, h \o t) /\ Len(h \o t) = Len(h) + Len(t)
          BY <4>2, <5>1, FoundJoin
        <5>5. q + Len(t) = p + Len(h \o t)
          <6> DEFINE a == Len(t)
          <6>1. a \in Nat /\ Len(h \o t) = w + a
            BY <4>2, <5>3, <5>4
          <6> HIDE DEF a
          <6>2. (p + w) + a = p + (w + a)
            BY <2>1, <6>1
          <6> QED
            BY <4>3, <6>1, <6>2 DEF a
        <5>6. Good(ReadField(r, T), p + Len(Whole(T, x)), x)
          BY <4>4, <5>2, <5>5 DEF t
        <5> QED
          BY <3>0, <3>3, <4>4, <5>2, <5>4, <5>6
      <4>5. CASE T.kind = "bin"
        <5>1. IF q + n > Len(payload) THEN Bad(Read(l, n))
              ELSE Good(Read(l, n), q + n, SubSeq(payload, q + 1, q + n))
          BY <3>0, <4>3, ReadIs
        <5>2. CASE q + n > Len(payload)
          BY <4>1, <4>5, <5>1, <5>2
        <5>3. CASE ~ (q + n > Len(payload))
          <6> DEFINE x == SubSeq(payload, q + 1, q + n)
          <6>1. q + n <= Len(payload)
            BY <1>0, <3>0, <5>3
          <6>2. Found(q, x) /\ Len(x) = n
            BY <3>0, <6>1, FoundSlice
          <6>3. x \in Values(T) /\ Behind(T, x) = x
            BY <4>5, <6>2 DEF Values, Behind, Found
          <6>4. Good(ReadField(r, T), q + n, x)
            BY <4>1, <4>5, <5>1, <5>3
          <6> HIDE DEF x
          <6>5. Found(q, Behind(T, x)) /\ Good(ReadField(r, T), q + Len(Behind(T, x)), x)
            BY <6>2, <6>3, <6>4
          <6> QED
            BY <4>4, <6>2, <6>3, <6>5
        <5> QED
          BY <5>2, <5>3
      <4>6. CASE T.kind # "bin"
        <5>1. T.kind \in {"seq", "loop"} /\ IsScalar(T.elem)
          BY <1>2, <2>1, <4>6 DEF IsList
        <5>2. \/ Bad(SequenceDecode(l, T.elem, n))
              \/ \E x \in Seq(ScalarValues(T.elem)) :
                   /\ Len(x) = n
                   /\ Found(q, FlattenSeq(Raws(T.elem, x)))
                   /\ Good(SequenceDecode(l, T.elem, n), q + Len(FlattenSeq(Raws(T.elem, x))), x)
          BY <2>5, <3>0, <4>3, <5>1, SequenceBack
        <5>3. CASE Bad(SequenceDecode(l, T.elem, n))
          BY <4>1, <4>6, <5>3
        <5>4. ASSUME NEW x \in Seq(ScalarValues(T.elem)), Len(x) = n,
                     Found(q, FlattenSeq(Raws(T.elem, x))),
                     Good(SequenceDecode(l, T.elem, n), q + Len(FlattenSeq(Raws(T.elem, x))), x)
              PROVE  \E y \in Values(T) :
                    /\ Found(p, Whole(T, y))
                    /\ Good(ReadField(r, T), p + Len(Whole(T, y)), y)
                    /\ Len(y) \in Nat /\ Len(y) <= T.checked
          <6>1. x \in Values(T) /\ Behind(T, x) = FlattenSeq(Raws(T.elem, x))
            BY <5>1 DEF Values, Behind
          <6>2. Good(ReadField(r, T), q + Len(FlattenSeq(Raws(T.elem, x))), x)
            BY <4>1, <4>6, <5>4
          <6>3. Found(q, Behind(T, x)) /\ Good(ReadField(r, T), q + Len(Behind(T, x)), x)
            BY <5>4, <6>1, <6>2
          <6> QED
            BY <4>4, <5>4, <6>1, <6>3
        <5> QED
          BY <5>2, <5>3, <5>4
      <4> QED
        BY <4>5, <4>6
    <3>4. T.checked \in Nat
      BY <2>1
    <3> QED
      BY <3>0, <3>2, <3>3, <3>4
  <2>6. \/ Bad(ReadField(r, T))
        \/ \E x \in Values(T) :
             /\ Found(p, Whole(T, x))
             /\ Good(ReadField(r, T), p + Len(Whole(T, x)), x)
             /\ Len(x) \in Nat /\ Len(x) <= T.checked
    <3>1. \/ Bad(l) /\ l.val = 0
          \/ /\ q <= Len(payload)
             /\ \E n \in 0 .. Weight[w] - 1 :
                  Good(l, q, n) /\ LittleEndian(n, w) = SubSeq(payload, p + 1, p + w)
      BY <2>2, <2>3
    <3>2. CASE Bad(l) /\ l.val = 0
      BY <2>4, <3>2
    <3> HIDE DEF l, q, w
    <3>3. CASE /\ q <= Len(payload)
               /\ \E n \in 0 .. Weight[w] - 1 :
                    Good(l, q, n) /\ LittleEndian(n, w) = SubSeq(payload, p + 1, p + w)
      BY <2>5, <3>3, Zenon
    <3> QED
      BY <3>1, <3>2, <3>3
  <2> QED
    BY <2>6
<1> QED
  BY <1>1, <1>2

-----------------------------------------------------------------------------
(* Decode reads the fields that Encode writes *)

\* Field by field, a type that the reader reads as the builder writes it.
Matches(L) ==
  /\ Len(L.dec) = Len(L.enc)
  /\ \A j \in 1 .. Len(L.enc) :
       LET D == L.dec[j].type
           E == L.enc[j].type
       IN  /\ L.dec[j].name = L.enc[j].name
           /\ IsScalar(D) \/ IsList(D)
           /\ Values(D) = Values(E)
           /\ \A v : Whole(D, v) = Whole(E, v) /\ (TooLong(D, v) <=> TooLong(E, v))
           /\ IsBalanced(D) \/ (Len(L.enc) = 1 /\ E = Bin16M /\ D = Bin16M)

LEMMA LoopLikeSeq ==
  LET D == Loop64K(U32)
      E == Seq64K(U32)
  IN  /\ Values(D) = Values(E)
      /\ \A v : Whole(D, v) = Whole(E, v) /\ (TooLong(D, v) <=> TooLong(E, v))
<1> DEFINE D == Loop64K(U32)
           E == Seq64K(U32)
<1>1. /\ D.kind = "loop" /\ E.kind = "seq" /\ D.elem = U32 /\ E.elem = U32 /\ D.width = 2 /\ E.width = 2
      /\ D.limit = E.limit /\ "limit" \in DOMAIN D /\ "limit" \in DOMAIN E
  BY DEF Loop64K, Seq64K, Counted
<1> HIDE DEF D, E
<1>2. Values(D) = Values(E)
  BY <1>1 DEF Values
<1>3. ASSUME NEW v PROVE Whole(D, v) = Whole(E, v) /\ (TooLong(D, v) <=> TooLong(E, v))
  BY <1>1 DEF Whole, Behind, TooLong
<1> QED
  BY <1>2, <1>3 DEF D, E

LEMMA LayoutsMatch ==
  ASSUME NEW n \in DOMAIN Layouts, n # "SetCustomMiningJob"
  PROVE  Matches(Layouts[n])
<1> DEFINE L == Layouts[n]
<1>1. \/ n = "B0_16M" /\ BytesOnly(Layouts[n])
      \/ n = "SetCustomMiningJob" /\ IsMessage(Layouts[n])
      \/ n \notin {"B0_16M", "SetCustomMiningJob"} /\ IsPlain(Layouts[n])
  BY LayoutsTyped
<1> HIDE DEF L
<1>2. CASE IsPlain(L)
  <2>1. SameFields(L) /\ IsFields(L.dec) /\ Len(L.dec) = Len(L.enc)
    BY <1>2 DEF IsPlain, IsMessage, SameFields
  <2>2. ASSUME NEW j \in 1 .. Len(L.enc)
        PROVE  LET D == L.dec[j].type
                   E == L.enc[j].type
               IN  /\ L.dec[j].name = L.enc[j].name
                   /\ IsScalar(D) \/ IsList(D)
                   /\ Values(D) = Values(E)
                   /\ \A v : Whole(D, v) = Whole(E, v) /\ (TooLong(D, v) <=> TooLong(E, v))
                   /\ IsBalanced(D)
    <3> DEFINE D == L.dec[j].type
               E == L.enc[j].type
    <3>1. /\ L.dec[j].name = L.enc[j].name /\ D \in Types
          /\ D = E \/ (D = Loop64K(U32) /\ E = Seq64K(U32))
      BY <2>1 DEF SameFields, IsFields
    <3>2. (IsScalar(D) \/ IsList(D)) /\ IsBalanced(D)
      BY <3>1, TypesTyped
    <3> HIDE DEF D, E
    <3>3. Values(D) = Values(E) /\ \A v : Whole(D, v) = Whole(E, v) /\ (TooLong(D, v) <=> TooLong(E, v))
      BY <3>1, LoopLikeSeq
    <3> QED
      BY <3>1, <3>2, <3>3 DEF D, E
  <2> QED
    BY <2>1, <2>2 DEF Matches, L
<1>3. CASE BytesOnly(L)
  <2> DEFINE s == << "Bytes" := Bin16M >>
  <2>1. L.enc = s /\ L.dec = s
    BY <1>3 DEF BytesOnly
  <2>2. Len(s) = 1 /\ s[1].type = Bin16M
    BY DEF :=
  <2> HIDE DEF s
  <2>3. \A j \in 1 .. Len(s) : j = 1
    BY <2>2
  <2> QED
    BY <2>1, <2>2, <2>3, Bin16MTyped DEF Matches, L
<1> QED
  BY <1>1, <1>2, <1>3 DEF L

-----------------------------------------------------------------------------
(* The messages that are decoded into *)

\* A Go struct: a function of the names of its fields.
IsStruct(m) == m = [f \in DOMAIN m |-> m[f]]

LEMMA ZeroType ==
  ASSUME NEW T, IsScalar(T) \/ IsList(T)
  PROVE  Zero(T) \in Values(T)
<1>0. Base \in Nat /\ 0 \in Bytes
  BY BaseAssumption DEF Bytes
<1>1. CASE T.kind = "int"
  <2>1. T.width \in 0 .. 8
    BY <1>1 DEF IsScalar, IsList
  <2>2. Weight[T.width] \in Nat /\ Weight[T.width] > 0
    BY <2>1, WeightPositive
  <2>3. 0 \in 0 .. Weight[T.width] - 1
    BY <2>2
  <2> QED
    BY <1>1, <2>3 DEF Zero, Values, ScalarValues
<1>2. CASE T.kind = "bool"
  BY <1>2 DEF Zero, Values, ScalarValues
<1>3. CASE T.kind \in {"fixed", "array"}
  <2>1. Zero(T) = [i \in 1 .. T.width |-> 0] /\ Values(T) = [1 .. T.width -> Bytes]
    BY <1>3 DEF Zero, Values, ScalarValues
  <2> QED
    BY <1>0, <2>1
<1>4. CASE T.kind = "bin"
  BY <1>4 DEF Zero, Values
<1>5. CASE T.kind \in {"seq", "loop"}
  <2>1. Zero(T) = <<>> /\ Values(T) = Seq(ScalarValues(T.elem))
    BY <1>5 DEF Zero, Values
  <2> QED
    BY <2>1
<1> QED
  BY <1>1, <1>2, <1>3, <1>4, <1>5 DEF IsScalar, IsList

LEMMA TargetsTyped ==
  ASSUME NEW n \in DOMAIN Layouts, NEW m \in Targets(n)
  PROVE  IsOf(m, Layouts[n]) /\ IsStruct(m)
<1> DEFINE s == Layouts[n].enc
           At(f) == CHOOSE j \in DOMAIN s : s[j].name = f
           z == [f \in {s[j].name : j \in DOMAIN s} |-> Zero(s[At(f)].type)]
<1>1. Usable(s) /\ Distinct(s)
  BY LayoutsUsable
<1>2. m = Filled(n, 1) \/ m = z
  BY DEF Targets
<1>3. IsOf(Filled(n, 1), Layouts[n]) /\ IsStruct(Filled(n, 1))
  <2>1. IsOf(Filled(n, 1), Layouts[n])
    BY FilledIs
  <2>2. IsStruct(Filled(n, 1))
    BY DEF Filled, IsStruct
  <2> QED
    BY <2>1, <2>2
<1>4. IsStruct(z) /\ DOMAIN z = {s[j].name : j \in DOMAIN s}
  BY DEF IsStruct
<1>5. ASSUME NEW j \in 1 .. Len(s) PROVE z[s[j].name] \in Values(s[j].type)
  <2> HIDE DEF s
  <2>1. j \in DOMAIN s /\ (IsScalar(s[j].type) \/ IsList(s[j].type))
    BY <1>1 DEF Usable
  <2>2. At(s[j].name) = j
    BY <1>1, FieldOf
  <2> HIDE DEF At
  <2>3. z[s[j].name] = Zero(s[j].type)
    BY <2>1, <2>2
  <2> HIDE DEF z
  <2> QED
    BY <2>1, <2>3, ZeroType
<1>6. IsOf(z, Layouts[n])
  BY <1>4, <1>5 DEF IsOf
<1> HIDE DEF z
<1> QED
  BY <1>2, <1>3, <1>4, <1>6

LEMMA InputsStructs ==
  ASSUME NEW n \in DOMAIN Layouts, NEW m \in Inputs(n)
  PROVE  IsStruct(m)
<1> DEFINE s == Layouts[n].enc
           p == Filled(n, 0)
<1>1. IsStruct(p)
  BY DEF Filled, IsStruct
<1>2. m = p \/ \E j \in DOMAIN s : \E v \in Edges(s[j].type) : m = [p EXCEPT ![s[j].name] = v]
  BY DEF Inputs
<1> HIDE DEF p
<1>3. ASSUME NEW f, NEW v PROVE IsStruct([p EXCEPT ![f] = v])
  BY DEF IsStruct
<1> QED
  BY <1>1, <1>2, <1>3

-----------------------------------------------------------------------------
(* Decode *)

\* Nothing in the bytes of the first n fields depends on the others.
LEMMA PartsSame ==
  ASSUME NEW L, NEW m, NEW o, NEW n \in Nat, \A j \in 1 .. n : m[L.enc[j].name] = o[L.enc[j].name]
  PROVE  Parts(L, m, n) = Parts(L, o, n)
<1>1. \A j \in 1 .. n : Part(L, m, j) = Part(L, o, j)
  BY DEF Part
<1>2. [j \in 1 .. n |-> Part(L, m, j)] = [j \in 1 .. n |-> Part(L, o, j)]
  BY <1>1
<1> QED
  BY <1>2 DEF Parts

LEMMA PartsType ==
  ASSUME NEW L, Usable(L.enc), NEW m, IsOf(m, L), NEW n \in 0 .. Len(L.enc)
  PROVE  Parts(L, m, n) \in Seq(Bytes) /\ [j \in 1 .. n |-> Part(L, m, j)] \in [1 .. n -> Seq(Bytes)]
<1>1. ASSUME NEW j \in 1 .. n PROVE Part(L, m, j) \in Seq(Bytes)
  <2>1. j \in 1 .. Len(L.enc)
    BY DEF Usable
  <2>2. /\ IsScalar(L.enc[j].type) \/ IsList(L.enc[j].type)
        /\ m[L.enc[j].name] \in Values(L.enc[j].type)
    BY <2>1 DEF Usable, IsOf
  <2> QED
    BY <2>2, WholeType DEF Part
<1> DEFINE f == [j \in 1 .. n |-> Part(L, m, j)]
<1>2. f \in [1 .. n -> Seq(Bytes)] /\ n \in Nat
  BY <1>1 DEF Usable
<1> HIDE DEF f
<1>3. FlattenSeq(f) \in Seq(Bytes)
  BY <1>2, FlattenType
<1> QED
  BY <1>2, <1>3 DEF f, Parts

\* A payload that agrees with the bytes of a message agrees with each field.
LEMMA AgreesField ==
  ASSUME NEW L, Usable(L.enc), NEW m, IsOf(m, L), Agrees(0, Parts(L, m, Len(L.enc))),
         NEW i \in 0 .. Len(L.enc) - 1
  PROVE  Agrees(Len(Parts(L, m, i)), Part(L, m, i + 1))
<1> DEFINE n == Len(L.enc)
           f == [j \in 1 .. n |-> Part(L, m, j)]
<1>1. n \in Nat /\ n \in 0 .. Len(L.enc) /\ i \in 0 .. n - 1 /\ i + 1 \in 1 .. n
  BY DEF Usable
<1>2. f \in [1 .. n -> Seq(Bytes)] /\ Parts(L, m, i) \in Seq(Bytes)
  <2>1. i \in 0 .. Len(L.enc)
    BY <1>1
  <2> QED
    BY <1>1, <2>1, PartsType
<1>3. [h \in 1 .. i |-> f[h]] = [j \in 1 .. i |-> Part(L, m, j)] /\ f[i + 1] = Part(L, m, i + 1)
  BY <1>1
<1>4. Agrees(0, FlattenSeq(f))
  BY DEF Parts
<1> HIDE DEF f, n
<1>5. 0 \in Nat
  OBVIOUS
<1>6. Agrees(0 + Len(FlattenSeq([h \in 1 .. i |-> f[h]])), f[i + 1])
  BY <1>1, <1>2, <1>4, <1>5, AgreesParts
<1> DEFINE g == Parts(L, m, i)
<1>7. g = FlattenSeq([h \in 1 .. i |-> f[h]]) /\ g \in Seq(Bytes)
  BY <1>2, <1>3 DEF Parts
<1> HIDE DEF g
<1>8. Len(g) \in Nat
  BY <1>7, LenProperties
<1>9. 0 + Len(g) = Len(g)
  BY <1>8
<1>10. Agrees(Len(g), Part(L, m, i + 1))
  BY <1>3, <1>6, <1>7, <1>9
<1> QED
  BY <1>10 DEF g

\* All of the message was encoded.
LEMMA EncodedAll ==
  ASSUME BuilderInv, phase \notin {"encode", "refused"}
  PROVE  /\ bb.data = Parts(layout, msg, Len(Enc))
         /\ \A j \in 1 .. Len(Enc) : ~ Long(layout, msg, j)
         /\ bb.data \in Seq(Bytes)
<1>1. ~ bb.err /\ Built(bb, layout, msg, Len(Enc)) /\ bb \in Builders
  BY DEF BuilderInv
<1>2. bb.data = Parts(layout, msg, Len(Enc)) /\ \A j \in 1 .. Len(Enc) : ~ Long(layout, msg, j)
  BY <1>1 DEF Built
<1> QED
  BY <1>1, <1>2 DEF Builders

\* What every reader of Decode starts a field from.
Start == [pos |-> br.pos, err |-> br.err, val |-> 0, panic |-> FALSE]

LEMMA StartReader == (~ br.err => Good(Start, br.pos, 0)) /\ (br.err => Bad(Start))
<1>1. /\ DOMAIN Start = {"pos", "err", "val", "panic"}
      /\ Start.pos = br.pos /\ Start.err = br.err /\ Start.val = 0 /\ Start.panic = FALSE
  BY DEF Start
<1> QED
  BY <1>1 DEF Good, Bad, IsReader

\* The certificate is as long as its Decode expects.
LEMMA SignatureLength ==
  ASSUME NEW m, IsOf(m, SIGNATURE_NOISE_MESSAGE)
  PROVE  Len(Parts(SIGNATURE_NOISE_MESSAGE, m, Len(SIGNATURE_NOISE_MESSAGE.enc))) = 10 + SigLen
<1> DEFINE L == SIGNATURE_NOISE_MESSAGE
           s == L.enc
           P(n) == Parts(L, m, n)
<1>1. Usable(s) /\ Len(s) = 4
  <2>1. IsFields(s)
    BY SIGNATURE_NOISE_MESSAGETyped DEF IsPlain, IsMessage
  <2>2. Len(s) = 4
    BY DEF SIGNATURE_NOISE_MESSAGE
  <2> HIDE DEF s
  <2> QED
    BY <2>1, <2>2, FieldsUsable
<1>2. s[1].type = U16 /\ s[2].type = U32 /\ s[3].type = U32 /\ s[4].type = SignatureField
  BY DEF SIGNATURE_NOISE_MESSAGE, :=
<1>3. /\ U16 \in ScalarTypes /\ U32 \in ScalarTypes /\ SignatureField \in ScalarTypes
      /\ U16.width = 2 /\ U32.width = 4 /\ SignatureField.width = SigLen
      /\ SigLen \in Nat
  BY CodecAssumption DEF ScalarTypes, U16, U32, SignatureField, Uint
<1> HIDE DEF L, s
<1>4. ASSUME NEW j \in 1 .. 4, IsScalar(s[j].type) PROVE Len(Part(L, m, j)) = s[j].type.width
  <2>1. m[s[j].name] \in Values(s[j].type)
    BY <1>1 DEF IsOf, s, L
  <2>2. s[j].type.kind \in {"int", "bool", "fixed", "array"}
    BY <1>4 DEF IsScalar
  <2>3. m[s[j].name] \in ScalarValues(s[j].type) /\ Part(L, m, j) = Raw(s[j].type, m[s[j].name])
    BY <2>1, <2>2 DEF Values, Part, Whole, s
  <2> QED
    BY <1>4, <2>3, RawType
<1>5. ASSUME NEW n \in 0 .. 3
      PROVE  /\ P(n) \in Seq(Bytes) /\ Part(L, m, n + 1) \in Seq(Bytes)
             /\ P(n + 1) = P(n) \o Part(L, m, n + 1)
  <2>1. n \in Nat /\ n + 1 <= Len(L.enc) /\ Usable(L.enc) /\ IsOf(m, L)
    BY <1>1 DEF s, L
  <2> QED
    BY <2>1, PartsStep
<1>6. P(0) = <<>>
  BY PartsNone
<1> HIDE DEF P
<1>7. ASSUME NEW n \in 0 .. 3 PROVE Len(P(n + 1)) = Len(P(n)) + Len(Part(L, m, n + 1))
  BY <1>5, ConcatProperties
<1>8. \A T \in ScalarTypes : IsScalar(T)
  BY ScalarTypesTyped
<1>9. /\ Len(Part(L, m, 1)) = 2 /\ Len(Part(L, m, 2)) = 4 /\ Len(Part(L, m, 3)) = 4
      /\ Len(Part(L, m, 4)) = SigLen
  <2>1. IsScalar(U16) /\ IsScalar(U32) /\ IsScalar(SignatureField)
    BY <1>3, <1>8
  <2>2. 1 \in 1 .. 4 /\ 2 \in 1 .. 4 /\ 3 \in 1 .. 4 /\ 4 \in 1 .. 4
    OBVIOUS
  <2>3. /\ Len(Part(L, m, 1)) = s[1].type.width /\ Len(Part(L, m, 2)) = s[2].type.width
        /\ Len(Part(L, m, 3)) = s[3].type.width /\ Len(Part(L, m, 4)) = s[4].type.width
    BY <1>2, <1>4, <2>1, <2>2, Zenon
  <2> QED
    BY <1>2, <1>3, <2>3
<1>10. Len(P(0)) = 0
  BY <1>6
<1>11. Len(P(0 + 1)) = Len(P(0)) + Len(Part(L, m, 0 + 1)) /\ Len(P(1 + 1)) = Len(P(1)) + Len(Part(L, m, 1 + 1))
       /\ Len(P(2 + 1)) = Len(P(2)) + Len(Part(L, m, 2 + 1)) /\ Len(P(3 + 1)) = Len(P(3)) + Len(Part(L, m, 3 + 1))
  BY <1>7
<1>12. Len(P(1)) = Len(P(0)) + Len(Part(L, m, 1)) /\ Len(P(2)) = Len(P(1)) + Len(Part(L, m, 2))
       /\ Len(P(3)) = Len(P(2)) + Len(Part(L, m, 3)) /\ Len(P(4)) = Len(P(3)) + Len(Part(L, m, 4))
  BY <1>11
<1> DEFINE l1 == Len(P(1))
           l2 == Len(P(2))
           l3 == Len(P(3))
           l4 == Len(P(4))
<1>13. l1 = 0 + 2 /\ l2 = l1 + 4 /\ l3 = l2 + 4 /\ l4 = l3 + SigLen
  BY <1>9, <1>10, <1>12
<1> HIDE DEF l1, l2, l3, l4
<1>15. l4 = 10 + SigLen
  BY <1>3, <1>13
<1>14. Len(P(4)) = 10 + SigLen
  BY <1>15 DEF l4
<1> QED
  BY <1>1, <1>14 DEF P, s, L

\* The longest B0_16M that the builder writes.
LEMMA BinLength ==
  ASSUME NEW v \in Values(Bin16M)
  PROVE  v \in Seq(Bytes) /\ Len(v) \in Nat /\ Len(Whole(Bin16M, v)) = 3 + Len(v)
<1>1. IsList(Bin16M) /\ Bin16M.kind = "bin" /\ Bin16M.width = 3
  BY Bin16MTyped
<1>2. v \in Seq(Bytes) /\ Whole(Bin16M, v) = LittleEndian(Len(v), 3) \o v
  BY <1>1 DEF Values, Whole, Behind
<1>3. Len(v) \in Nat
  BY <1>2, LenProperties
<1>4. 3 \in 0 .. 8
  OBVIOUS
<1>5. LittleEndian(Len(v), 3) \in Seq(Bytes) /\ Len(LittleEndian(Len(v), 3)) = 3
  BY <1>3, <1>4, LittleEndianType
<1> DEFINE h == LittleEndian(Len(v), 3)
<1> HIDE DEF h
<1>6. Len(h \o v) = Len(h) + Len(v)
  BY <1>2, <1>5, ConcatProperties DEF h
<1> QED
  BY <1>2, <1>3, <1>5, <1>6 DEF h

\* The first fields and the next one are no longer than all of them.
LEMMA PartsGrow ==
  ASSUME NEW L, Usable(L.enc), NEW m, IsOf(m, L), NEW n \in 0 .. Len(L.enc) - 1
  PROVE  Len(Parts(L, m, n)) + Len(Part(L, m, n + 1)) <= Len(Parts(L, m, Len(L.enc)))
<1> DEFINE N == Len(L.enc)
           P(i) == Len(Parts(L, m, i))
           S == {d \in Nat : n + 1 + d <= N => P(n + 1) <= P(n + 1 + d)}
<1>1. N \in Nat /\ n \in Nat /\ n + 1 <= N
  BY DEF Usable
<1>2. ASSUME NEW i \in Nat, i + 1 <= N
      PROVE  P(i) \in Nat /\ P(i + 1) \in Nat /\ Len(Part(L, m, i + 1)) \in Nat
             /\ P(i + 1) = P(i) + Len(Part(L, m, i + 1))
  <2>1. /\ Parts(L, m, i) \in Seq(Bytes)
        /\ Part(L, m, i + 1) \in Seq(Bytes)
        /\ Parts(L, m, i + 1) = Parts(L, m, i) \o Part(L, m, i + 1)
    BY <1>2, PartsStep
  <2> DEFINE a == Parts(L, m, i)
             b == Part(L, m, i + 1)
  <2> HIDE DEF a, b
  <2>2. Len(a \o b) = Len(a) + Len(b) /\ Len(a) \in Nat /\ Len(b) \in Nat
    BY <2>1, LenProperties, ConcatProperties DEF a, b
  <2>3. Len(a \o b) \in Nat
    BY <2>2
  <2> QED
    BY <2>1, <2>2, <2>3 DEF a, b
<1> HIDE DEF P, N
<1>3. P(n + 1) \in Nat /\ Len(Part(L, m, n + 1)) \in Nat /\ P(n + 1) = P(n) + Len(Part(L, m, n + 1))
  BY <1>1, <1>2
<1>4. 0 \in S
  <2>1. n + 1 + 0 = n + 1
    BY <1>1
  <2> QED
    BY <1>3, <2>1
<1>5. ASSUME NEW d \in S PROVE d + 1 \in S
  <2> SUFFICES ASSUME n + 1 + (d + 1) <= N PROVE P(n + 1) <= P(n + 1 + (d + 1))
    OBVIOUS
  <2> DEFINE i == n + 1 + d
  <2>1. i \in Nat /\ i + 1 = n + 1 + (d + 1) /\ i + 1 <= N /\ i <= N
    BY <1>1
  <2>2. P(n + 1) <= P(i)
    BY <2>1
  <2> HIDE DEF i
  <2>3. P(i) \in Nat /\ P(i + 1) \in Nat /\ Len(Part(L, m, i + 1)) \in Nat
        /\ P(i + 1) = P(i) + Len(Part(L, m, i + 1))
    BY <1>2, <2>1
  <2>4. P(n + 1) <= P(i + 1)
    BY <1>3, <2>2, <2>3
  <2> QED
    BY <2>1, <2>4
<1>6. P(n + 1) <= P(N)
  <2>1. S \in SUBSET Nat
    OBVIOUS
  <2>2. N - (n + 1) \in Nat /\ n + 1 + (N - (n + 1)) = N
    BY <1>1
  <2>3. N - (n + 1) \in S
    <3> HIDE DEF S
    <3> QED
      BY <1>4, <1>5, <2>1, <2>2, SetInduction
  <2> QED
    BY <1>1, <2>2, <2>3
<1>7. P(n) + Len(Part(L, m, n + 1)) <= P(N)
  BY <1>3, <1>6
<1> QED
  BY <1>7 DEF P, N

\* What Decode has done without an error: the first n fields of the target are
\* values that Encode can write, they stand for the bytes in front of the
\* reader, and they are those of the message if the bytes are.
Taken(n) ==
  /\ IsOf(out, layout)
  /\ \A j \in 1 .. n : ~ Long(layout, out, j)
  /\ Found(0, Parts(layout, out, n)) /\ br.pos = Len(Parts(layout, out, n))
  /\ Agrees(0, bb.data) => \A j \in 1 .. n : out[Enc[j].name] = msg[Enc[j].name]

Encoding == phase \in {"encode", "refused"}

ReaderInv ==
  /\ IsStruct(msg) /\ IsStruct(out) /\ DOMAIN out = DOMAIN msg
  /\ Encoding => ~ br.err /\ br.pos = 0 /\ IsOf(out, layout)
  /\ ~ Encoding =>
       /\ payload \in Seq(Bytes) /\ Len(payload) <= Len(bb.data)
       /\ k - 1 <= Len(Enc)
       /\ ~ br.err => Taken(k - 1)
       /\ payload = bb.data => ~ br.err /\ phase \in {"decode", "accepted"}
       /\ phase = "accepted" => ~ br.err /\ k = Len(Enc) + 1

\* One field of Decode.
LEMMA ReadsOn ==
  ASSUME "SetCustomMiningJob" \notin Names, BuilderInv, ReaderInv, phase = "decode", k <= Len(Enc)
  PROVE  LET r == ReadField(Start, Dec[k].type)
             T == Enc[k].type
         IN  /\ Bad(r) \/ \E x \in Values(T) :
                  /\ ~ br.err
                  /\ Found(br.pos, Whole(T, x)) /\ Good(r, br.pos + Len(Whole(T, x)), x)
                  /\ ~ TooLong(T, x)
                  /\ Agrees(0, bb.data) => x = msg[Enc[k].name]
             /\ payload = bb.data => ~ Bad(r)
<1> DEFINE D == Dec[k].type
           T == Enc[k].type
           r == ReadField(Start, D)
           v == msg[Enc[k].name]
           n == k - 1
           N == Len(Enc)
<1>1. /\ name \in DOMAIN Layouts /\ name # "SetCustomMiningJob" /\ layout = Layouts[name]
      /\ IsOf(msg, layout) /\ k \in Nat \ {0} /\ ~ Encoding
  BY NamesAssumption DEF BuilderInv, Encoding
<1>2. Usable(Enc) /\ Distinct(Enc) /\ N \in Nat /\ k \in 1 .. N /\ n \in 0 .. N - 1 /\ n + 1 = k /\ n \in Nat
  <2>1. Usable(Enc) /\ Distinct(Enc) /\ N \in Nat
    BY EncUsable DEF Usable
  <2> QED
    BY <1>1, <2>1
<1>3. /\ IsScalar(D) \/ IsList(D)
      /\ Values(D) = Values(T)
      /\ \A x : Whole(D, x) = Whole(T, x) /\ (TooLong(D, x) <=> TooLong(T, x))
      /\ IsBalanced(D) \/ (N = 1 /\ T = Bin16M /\ D = Bin16M)
  BY <1>1, <1>2, LayoutsMatch DEF Matches, Enc, Dec
<1>4. v \in Values(T)
  BY <1>1, <1>2 DEF IsOf, Enc
<1>5. /\ bb.data = Parts(layout, msg, N) /\ (\A j \in 1 .. N : ~ Long(layout, msg, j)) /\ bb.data \in Seq(Bytes)
  BY <1>1, EncodedAll DEF Encoding
<1>6. ~ TooLong(T, v)
  BY <1>2, <1>5 DEF Long, Enc
<1>7. payload \in Seq(Bytes) /\ Len(payload) <= Len(bb.data) /\ (~ br.err => Taken(n))
      /\ (payload = bb.data => ~ br.err)
  BY <1>1 DEF ReaderInv
<1> HIDE DEF D, T, v, n, N
<1>8. ASSUME br.err PROVE Bad(r)
  <2>1. Bad(Start)
    BY <1>8, StartReader
  <2> QED
    BY <1>3, <2>1, FieldBad
<1>9. ASSUME ~ br.err
      PROVE  \/ Bad(r) /\ payload # bb.data
             \/ ~ Bad(r) /\ \E x \in Values(T) :
                  /\ Found(br.pos, Whole(T, x)) /\ Good(r, br.pos + Len(Whole(T, x)), x)
                  /\ ~ TooLong(T, x)
                  /\ Agrees(0, bb.data) => x = v
  <2> DEFINE p == br.pos
  <2>1. Good(Start, p, 0)
    BY <1>9, StartReader
  <2>2. Taken(n)
    BY <1>7, <1>9
  <2>3. p \in Nat /\ p <= Len(payload)
    <3> DEFINE g == Parts(layout, out, n)
    <3>1. g \in Seq(Bytes) /\ 0 + Len(g) <= Len(payload) /\ p = Len(g)
      BY <2>2 DEF Taken, Found
    <3> HIDE DEF g
    <3>2. Len(g) \in Nat
      BY <3>1, LenProperties
    <3> QED
      BY <3>1, <3>2
  <2>4. ASSUME Agrees(0, bb.data)
        PROVE  IF p + Len(Whole(T, v)) <= Len(payload) THEN Good(r, p + Len(Whole(T, v)), v) ELSE Bad(r)
    <3>1. \A j \in 1 .. n : out[layout.enc[j].name] = msg[layout.enc[j].name]
      BY <2>2, <2>4 DEF Taken, Enc
    <3>2. Parts(layout, out, n) = Parts(layout, msg, n)
      BY <1>2, <3>1, PartsSame
    <3>3. Agrees(Len(Parts(layout, msg, n)), Part(layout, msg, n + 1))
      <4>1. Usable(layout.enc) /\ Agrees(0, Parts(layout, msg, Len(layout.enc))) /\ n \in 0 .. Len(layout.enc) - 1
        BY <1>2, <1>5, <2>4 DEF Enc, N
      <4> QED
        BY <1>1, <4>1, AgreesField
    <3>4. Part(layout, msg, n + 1) = Whole(T, v)
      BY <1>2 DEF Part, T, v, Enc
    <3>5. Agrees(p, Whole(D, v)) /\ Whole(D, v) = Whole(T, v)
      BY <1>3, <2>2, <3>2, <3>3, <3>4 DEF Taken
    <3>6. v \in Values(D) /\ ~ TooLong(D, v)
      BY <1>3, <1>4, <1>6
    <3>7. IF p + Len(Whole(D, v)) <= Len(payload) THEN Good(r, p + Len(Whole(D, v)), v) ELSE Bad(r)
      BY <1>3, <1>7, <2>1, <2>3, <3>5, <3>6, FieldFits
    <3> QED
      BY <3>5, <3>7
  <2>5. \/ Bad(r)
        \/ \E x \in Values(D) :
              /\ Found(p, Whole(D, x))
              /\ Good(r, p + Len(Whole(D, x)), x)
              /\ IsList(D) => Len(x) \in Nat /\ Len(x) <= D.checked
    BY <1>3, <1>7, <2>1, <2>3, FieldBack
  <2> HIDE DEF p, r
  <2>6. \A q, x : ~ (Bad(r) /\ Good(r, q, x))
    BY DEF Good, Bad
  <2>7. ASSUME Bad(r) PROVE payload # bb.data
    <3> SUFFICES ASSUME payload = bb.data PROVE FALSE
      OBVIOUS
    <3>1. Agrees(0, bb.data)
      <4>1. \A i \in 1 .. Len(bb.data) : 0 + i = i
        BY <1>5, LenProperties
      <4> QED
        BY <4>1 DEF Agrees
    <3>2. p + Len(Whole(T, v)) <= Len(payload)
      <4>1. \A j \in 1 .. n : out[layout.enc[j].name] = msg[layout.enc[j].name]
        BY <2>2, <3>1 DEF Taken, Enc
      <4>2. Parts(layout, out, n) = Parts(layout, msg, n)
        BY <1>2, <4>1, PartsSame
      <4>3. p = Len(Parts(layout, msg, n))
        BY <2>2, <4>2 DEF Taken, p
      <4> DEFINE f == [j \in 1 .. N |-> Part(layout, msg, j)]
      <4>4. f \in [1 .. N -> Seq(Bytes)] /\ Usable(layout.enc) /\ N = Len(layout.enc)
        <5>1. Usable(layout.enc) /\ N = Len(layout.enc) /\ N \in 0 .. Len(layout.enc)
          BY <1>2 DEF Enc, N
        <5> QED
          BY <1>1, <5>1, PartsType
      <4>5. Len(Parts(layout, msg, n)) + Len(Whole(T, v)) <= Len(Parts(layout, msg, N))
        BY <1>1, <1>2, <4>4, PartsGrow DEF T, v, Enc, Part
      <4> QED
        BY <1>5, <4>3, <4>5
    <3>3. Good(r, p + Len(Whole(T, v)), v)
      BY <2>4, <3>1, <3>2
    <3> QED
      BY <2>6, <2>7, <3>3
  <2>8. ASSUME NEW x \in Values(D), Found(p, Whole(D, x)), Good(r, p + Len(Whole(D, x)), x),
               IsList(D) => Len(x) \in Nat /\ Len(x) <= D.checked
        PROVE  /\ x \in Values(T)
               /\ Found(p, Whole(T, x)) /\ Good(r, p + Len(Whole(T, x)), x)
               /\ ~ TooLong(T, x)
               /\ Agrees(0, bb.data) => x = v
    <3>1. x \in Values(T) /\ Whole(D, x) = Whole(T, x)
      BY <1>3, <2>8
    <3>2. Agrees(0, bb.data) => x = v
      <4> SUFFICES ASSUME Agrees(0, bb.data) PROVE x = v
        OBVIOUS
      <4>1. Good(r, p + Len(Whole(T, v)), v)
        BY <2>4, <2>6, <2>8
      <4> QED
        BY <2>8, <4>1 DEF Good
    <3>3. ~ TooLong(T, x)
      <4>1. CASE IsScalar(D)
        <5>1. ~ TooLong(D, x)
          BY <4>1 DEF IsScalar, TooLong
        <5> QED
          BY <1>3, <5>1
      <4>2. CASE IsList(D) /\ IsBalanced(D)
        <5>1. Len(x) \in Nat /\ Len(x) <= D.limit /\ D.limit \in Nat
          BY <2>8, <4>2 DEF IsBalanced, IsList
        <5>2. ~ TooLong(D, x)
          BY <5>1 DEF TooLong
        <5> QED
          BY <1>3, <5>2
      <4>3. CASE N = 1 /\ T = Bin16M /\ D = Bin16M
        <5>1. /\ Len(x) \in Nat /\ Len(Whole(T, x)) = 3 + Len(x)
              /\ Len(v) \in Nat /\ Len(Whole(T, v)) = 3 + Len(v)
          BY <1>4, <3>1, <4>3, BinLength
        <5>2. T.limit = 25 /\ "limit" \in DOMAIN T
          BY <4>3, Bin16MTyped DEF IsList
        <5>3. Len(v) <= 25
          BY <1>6, <5>1, <5>2 DEF TooLong
        <5>4. n = 0 /\ p = 0
          <6>1. n = 0
            BY <1>2, <4>3
          <6>2. Parts(layout, out, n) = <<>>
            BY <6>1, PartsNone
          <6> QED
            BY <2>2, <6>1, <6>2 DEF Taken, p
        <5>5. bb.data = Whole(T, v)
          <6>1. Parts(layout, msg, 0) \in Seq(Bytes) /\ Part(layout, msg, 0 + 1) \in Seq(Bytes)
                /\ Parts(layout, msg, 0 + 1) = Parts(layout, msg, 0) \o Part(layout, msg, 0 + 1)
            <7>1. Usable(layout.enc) /\ 0 \in Nat /\ 0 + 1 <= Len(layout.enc)
              BY <1>2, <4>3 DEF Enc, N
            <7> QED
              BY <1>1, <7>1, PartsStep
          <6>2. Parts(layout, msg, 0) = <<>>
            BY PartsNone
          <6>3. 0 + 1 = 1 /\ k = 1
            BY <1>2, <5>4
          <6>4. Part(layout, msg, 1) = Whole(T, v)
            BY <6>3 DEF Part, T, v, Enc
          <6>5. Whole(T, v) \in Seq(Bytes) /\ Parts(layout, msg, 1) = <<>> \o Whole(T, v)
            BY <6>1, <6>2, <6>3, <6>4
          <6>6. <<>> \o Whole(T, v) = Whole(T, v)
            BY <6>5, ConcatEmptySeq
          <6> QED
            BY <1>5, <4>3, <6>5, <6>6
        <5>6. 0 + Len(Whole(T, x)) <= Len(payload)
          BY <2>8, <3>1, <5>4 DEF Found
        <5>7. Len(x) <= 25
          <6> DEFINE a == Len(Whole(T, x))
                     b == Len(payload)
          <6>1. a = 3 + Len(x) /\ a <= b /\ b <= 3 + Len(v) /\ b \in Nat
            BY <1>7, <5>1, <5>5, <5>6, LenProperties
          <6> HIDE DEF a, b
          <6> QED
            BY <5>1, <5>3, <6>1
        <5> QED
          BY <5>1, <5>2, <5>7 DEF TooLong
      <4> QED
        BY <1>3, <4>1, <4>2, <4>3
    <3> QED
      BY <2>8, <3>1, <3>2, <3>3
  <2> QED
    BY <2>5, <2>6, <2>7, <2>8 DEF p
<1> HIDE DEF r
<1>10. Bad(r) \/ \E x \in Values(T) :
                  /\ ~ br.err
                  /\ Found(br.pos, Whole(T, x)) /\ Good(r, br.pos + Len(Whole(T, x)), x)
                  /\ ~ TooLong(T, x)
                  /\ Agrees(0, bb.data) => x = v
  BY <1>8, <1>9
<1>11. payload = bb.data => ~ Bad(r)
  BY <1>7, <1>9
<1> QED
  BY <1>10, <1>11 DEF r, T, D, v

LEMMA InitReader == Init => ReaderInv
<1> SUFFICES ASSUME Init PROVE ReaderInv
  OBVIOUS
<1>1. name \in DOMAIN Layouts /\ layout = Layouts[name] /\ msg \in Inputs(name) /\ out \in Targets(name)
  BY NamesAssumption DEF Init
<1>2. IsOf(msg, layout) /\ IsStruct(msg)
  BY <1>1, InputsTyped, InputsStructs
<1>3. IsOf(out, layout) /\ IsStruct(out)
  BY <1>1, TargetsTyped
<1>4. phase = "encode" /\ ~ br.err /\ br.pos = 0
  BY DEF Init, NewBinaryReader
<1>5. DOMAIN out = DOMAIN msg
  BY <1>2, <1>3 DEF IsOf
<1> QED
  BY <1>2, <1>3, <1>4, <1>5 DEF ReaderInv, Encoding

\* A call of Decode starts with nothing read.
LEMMA DeliverReader ==
  ASSUME BuilderInv, ReaderInv, Encoded, NEW p, NEW nil, Deliver(p, nil), p \in Seq(Bytes), Len(p) <= Len(bb.data)
  PROVE  ReaderInv'
<1>1. /\ phase = "encode" /\ phase' = "decode" /\ payload' = p /\ k' = 1 /\ bb' = bb /\ br' = br
      /\ out' = out /\ msg' = msg /\ layout' = layout /\ Enc' = Enc
  BY DEF Encoded, Deliver, Enc
<1>2. /\ IsStruct(msg) /\ IsStruct(out) /\ DOMAIN out = DOMAIN msg
      /\ ~ br.err /\ br.pos = 0 /\ IsOf(out, layout)
  BY <1>1 DEF ReaderInv, Encoding
<1>3. k' - 1 = 0 /\ Len(Enc) \in Nat
  BY <1>1, EncUsable DEF Usable
<1> DEFINE g == Parts(layout, out, 0)
<1>4. g = <<>>
  BY PartsNone
<1>5. g \in Seq(Bytes) /\ Len(g) = 0 /\ 0 + Len(g) <= Len(p) /\ 1 .. Len(g) = {} /\ 1 .. 0 = {}
  <2>1. Len(p) \in Nat
    BY LenProperties
  <2>2. <<>> \in Seq(Bytes) /\ Len(<<>>) = 0 /\ 1 .. 0 = {}
    OBVIOUS
  <2> HIDE DEF g
  <2>3. g \in Seq(Bytes) /\ Len(g) = 0
    BY <1>4, <2>2
  <2> QED
    BY <2>1, <2>2, <2>3
<1> HIDE DEF g
<1>6. Taken(0)'
  BY <1>1, <1>2, <1>5 DEF Taken, Found, Agrees, g
<1>7. Taken(k - 1)'
  BY <1>3, <1>6 DEF Taken
<1>8. k' - 1 <= Len(Enc)
  BY <1>3
<1> QED
  BY <1>1, <1>2, <1>7, <1>8 DEF ReaderInv, Encoding

\* One field read, into the target.
LEMMA FieldReader ==
  ASSUME "SetCustomMiningJob" \notin Names, BuilderInv, ReaderInv, DecodeField
  PROVE  ReaderInv'
<1> DEFINE D == Dec[k].type
           T == Enc[k].type
           f == Enc[k].name
           r == ReadField(Start, D)
           n == k - 1
           N == Len(Enc)
<1>1. /\ name \in DOMAIN Layouts /\ name # "SetCustomMiningJob" /\ layout = Layouts[name]
      /\ IsOf(msg, layout) /\ k \in Nat \ {0}
  BY NamesAssumption DEF BuilderInv
<1>2. /\ phase = "decode" /\ k <= Len(Dec)
      /\ payload' = payload /\ bb' = bb /\ msg' = msg /\ layout' = layout /\ Enc' = Enc
      /\ br' = [pos |-> r.pos, err |-> r.err]
      /\ IF r.panic THEN phase' = "panicked" /\ out' = out /\ k' = k
         ELSE phase' = phase /\ out' = [out EXCEPT ![Dec[k].name] = r.val] /\ k' = k + 1
  BY DEF DecodeField, Start, Enc
<1>3. Usable(Enc) /\ Distinct(Enc) /\ N \in Nat
  BY EncUsable DEF Usable
<1>4. Matches(layout)
  BY <1>1, LayoutsMatch
<1>5. Len(Dec) = N /\ k \in 1 .. N
  BY <1>1, <1>2, <1>3, <1>4 DEF Matches, Enc, Dec
<1>6. Dec[k].name = f
  BY <1>4, <1>5 DEF Matches, Enc, Dec
<1>7. /\ Bad(r) \/ \E x \in Values(T) :
            /\ ~ br.err
            /\ Found(br.pos, Whole(T, x)) /\ Good(r, br.pos + Len(Whole(T, x)), x)
            /\ ~ TooLong(T, x)
            /\ Agrees(0, bb.data) => x = msg[f]
      /\ payload = bb.data => ~ Bad(r)
  <2>1. k <= Len(Enc)
    BY <1>3, <1>5
  <2> QED
    BY <1>2, <2>1, ReadsOn
<1>8. br'.pos = r.pos /\ br'.err = r.err
  BY <1>2
<1>9. /\ IsStruct(msg) /\ IsStruct(out) /\ DOMAIN out = DOMAIN msg
      /\ payload \in Seq(Bytes) /\ Len(payload) <= Len(bb.data) /\ n <= N
      /\ ~ br.err => Taken(n)
      /\ payload = bb.data => ~ br.err
  BY <1>2 DEF ReaderInv, Encoding
<1> HIDE DEF r
<1>10. /\ IsStruct(out') /\ DOMAIN out' = DOMAIN msg
       /\ phase' \in {"decode", "panicked"} /\ k' \in {k, k + 1}
  <2>1. CASE r.panic
    BY <1>2, <1>9, <2>1
  <2>2. CASE ~ r.panic
    <3>1. out' = [out EXCEPT ![f] = r.val]
      BY <1>2, <1>6, <2>2
    <3> HIDE DEF f
    <3> QED
      BY <1>2, <1>9, <2>2, <3>1 DEF IsStruct
  <2> QED
    BY <2>1, <2>2
<1>11. k' - 1 <= N
  BY <1>3, <1>5, <1>10
<1>12. CASE Bad(r)
  <2>1. br'.err /\ payload # bb.data
    BY <1>7, <1>8, <1>12 DEF Bad
  <2> QED
    BY <1>2, <1>9, <1>10, <1>11, <2>1 DEF ReaderInv, Encoding
<1>13. ASSUME NEW x \in Values(T), ~ br.err,
              Found(br.pos, Whole(T, x)), Good(r, br.pos + Len(Whole(T, x)), x), ~ TooLong(T, x),
              Agrees(0, bb.data) => x = msg[f]
       PROVE  ReaderInv'
  <2>1. ~ r.panic /\ ~ r.err /\ r.val = x /\ r.pos = br.pos + Len(Whole(T, x))
    BY <1>13 DEF Good
  <2>2. phase' = "decode" /\ out' = [out EXCEPT ![f] = x] /\ k' = k + 1 /\ ~ br'.err
        /\ br'.pos = br.pos + Len(Whole(T, x))
    BY <1>2, <1>6, <1>8, <2>1
  <2>3. Taken(n)
    BY <1>9, <1>13
  <2>4. /\ IsOf(out, layout) /\ (\A j \in 1 .. n : ~ Long(layout, out, j))
        /\ Found(0, Parts(layout, out, n)) /\ br.pos = Len(Parts(layout, out, n))
        /\ Agrees(0, bb.data) => \A j \in 1 .. n : out[Enc[j].name] = msg[Enc[j].name]
    BY <2>3 DEF Taken
  <2>5. f \in DOMAIN out
    BY <1>3, <1>5, <2>4 DEF IsOf, Enc, Usable
  <2>6. out'[f] = x /\ \A e \in DOMAIN out : e # f => out'[e] = out[e]
    BY <2>2, <2>5
  <2>7. ASSUME NEW j \in 1 .. N, j # k PROVE out'[Enc[j].name] = out[Enc[j].name] /\ Enc[j].name # f
    <3>1. Enc[j].name # f
      BY <1>3, <1>5, <2>7 DEF Distinct
    <3>2. Enc[j].name \in DOMAIN out
      BY <1>3, <2>4 DEF IsOf, Enc, Usable
    <3> QED
      BY <2>6, <3>1, <3>2
  <2>8. IsOf(out', layout)
    <3>1. ASSUME NEW j \in 1 .. N PROVE out'[Enc[j].name] \in Values(Enc[j].type)
      <4>1. CASE j = k
        BY <1>13, <2>6, <4>1
      <4>2. CASE j # k
        BY <2>4, <2>7, <4>2 DEF IsOf, Enc
      <4> QED
        BY <4>1, <4>2
    <3>2. DOMAIN out' = DOMAIN out
      BY <2>2
    <3> QED
      BY <2>4, <3>1, <3>2 DEF IsOf, Enc
  <2>9. n \in Nat /\ n + 1 = k /\ n + 1 <= N /\ \A j \in 1 .. n : j \in 1 .. N /\ j # k
    BY <1>1, <1>3, <1>5
  <2>10. \A j \in 1 .. k : j \in 1 .. n \/ j = k
    BY <2>9
  <2> HIDE DEF n, N, f, T
  <2>11. \A j \in 1 .. n : out'[layout.enc[j].name] = out[layout.enc[j].name]
    BY <2>7, <2>9 DEF Enc
  <2>12. Parts(layout, out', n) = Parts(layout, out, n)
    BY <2>9, <2>11, PartsSame
  <2>13. Part(layout, out', k) = Whole(T, x) /\ (Long(layout, out', k) <=> TooLong(T, x))
    BY <2>6 DEF Part, Long, T, f, Enc
  <2>14. Parts(layout, out', k) = Parts(layout, out, n) \o Whole(T, x)
    <3>1. Usable(layout.enc) /\ n + 1 <= Len(layout.enc)
      BY <1>3, <2>9 DEF Enc, N
    <3>2. /\ Parts(layout, out', n) \in Seq(Bytes)
          /\ Part(layout, out', n + 1) \in Seq(Bytes)
          /\ Parts(layout, out', n + 1) = Parts(layout, out', n) \o Part(layout, out', n + 1)
      BY <2>8, <2>9, <3>1, PartsStep
    <3> QED
      BY <2>9, <2>12, <2>13, <3>2
  <2> DEFINE g == Parts(layout, out, n)
             t == Whole(T, x)
             h == Parts(layout, out', k)
  <2>15. Found(0, g) /\ br.pos = Len(g) /\ Found(br.pos, t)
    BY <1>13, <2>4
  <2> HIDE DEF g, t, h
  <2>16. g \in Seq(Bytes) /\ Len(g) \in Nat
    BY <2>15, LenProperties DEF Found
  <2>17. 0 + Len(g) = Len(g)
    BY <2>16
  <2>18. Found(0, g \o t) /\ Len(g \o t) = Len(g) + Len(t)
    <3>1. Found(0 + Len(g), t) /\ 0 \in Nat
      BY <2>15, <2>17
    <3> QED
      BY <1>9, <2>15, <3>1, FoundJoin
  <2>19. Found(0, h) /\ br'.pos = Len(h)
    BY <2>2, <2>14, <2>15, <2>18 DEF g, t, h
  <2>20. \A j \in 1 .. k : ~ Long(layout, out', j)
    <3>1. \A j \in 1 .. n : Long(layout, out', j) <=> Long(layout, out, j)
      BY <2>11 DEF Long
    <3> QED
      BY <1>13, <2>4, <2>10, <2>13, <3>1
  <2>21. Agrees(0, bb.data) => \A j \in 1 .. k : out'[Enc[j].name] = msg[Enc[j].name]
    BY <1>13, <2>4, <2>6, <2>10, <2>11 DEF Enc, f
  <2>22. k' - 1 = k /\ k \in Nat
    BY <1>1, <2>2
  <2>23. Taken(k - 1)'
    <3>2. /\ h \in Seq(Bytes) /\ 0 + Len(h) <= Len(payload')
          /\ \A i \in 1 .. Len(h) : 0 + i <= Len(payload') => payload'[0 + i] = h[i]
      BY <1>2, <2>19 DEF Found, Agrees
    <3>3. (\A i \in 1 .. Len(bb'.data) : 0 + i <= Len(payload') => payload'[0 + i] = bb'.data[i]) => Agrees(0, bb.data)
      BY <1>2 DEF Agrees
    <3>4. (Agrees(0, bb.data))' => \A j \in 1 .. k : out'[Enc[j].name] = msg[Enc[j].name]
      BY <2>21, <3>3 DEF Agrees
    <3>5. /\ IsOf(out', layout')
          /\ \A j \in 1 .. k' - 1 : ~ Long(layout', out', j)
          /\ Parts(layout', out', k' - 1) = h
          /\ br'.pos = Len(h)
      BY <1>2, <2>8, <2>19, <2>20, <2>22 DEF h
    <3>6. Found(0, Parts(layout, out, k - 1))'
      BY <3>2, <3>5 DEF Found, Agrees
    <3>7. (Agrees(0, bb.data))' => \A j \in 1 .. k' - 1 : out'[(Enc[j].name)'] = msg'[(Enc[j].name)']
      BY <1>2, <2>22, <3>4
    <3> QED
      BY <3>5, <3>6, <3>7 DEF Taken
  <2> QED
    BY <1>2, <1>9, <1>10, <1>11, <2>2, <2>23 DEF ReaderInv, Encoding, N
<1> QED
  BY <1>7, <1>12, <1>13

LEMMA StepReader ==
  ASSUME "SetCustomMiningJob" \notin Names, BuilderInv, ReaderInv, [Next]_vars
  PROVE  ReaderInv'
<1>0. Len(Enc) \in Nat /\ k \in Nat /\ bb.data \in Seq(Bytes)
  BY EncUsable DEF Usable, BuilderInv, Builders
<1>1. CASE EncodeField \/ EncodeFails \/ EmbeddedFails
  <2>1. /\ phase = "encode" /\ phase' \in {"encode", "refused"}
        /\ br' = br /\ out' = out /\ msg' = msg /\ layout' = layout
    BY <1>1 DEF EncodeField, EncodeFails, EmbeddedFails
  <2> QED
    BY <2>1 DEF ReaderInv, Encoding
<1>2. CASE DeliverIntact
  <2>1. Encoded /\ Deliver(bb.data, FALSE)
    BY <1>2 DEF DeliverIntact
  <2>2. Len(bb.data) <= Len(bb.data)
    BY <1>0, LenProperties
  <2> QED
    BY <1>0, <2>1, <2>2, DeliverReader
<1>3. CASE DeliverCut
  <2>1. PICK n \in 0 .. Len(bb.data) - 1, nil \in BOOLEAN : Deliver(SubSeq(bb.data, 1, n), nil)
    BY <1>3 DEF DeliverCut
  <2>2. Encoded
    BY <1>3 DEF DeliverCut
  <2> DEFINE p == SubSeq(bb.data, 1, n)
             l == Len(bb.data)
  <2>3. p \in Seq(Bytes) /\ Len(p) <= l
    <3>1. l \in Nat
      BY <1>0, LenProperties
    <3>2. 1 \in 1 .. l + 1 /\ n \in 0 .. l /\ n <= l /\ n \in Nat
      BY <3>1
    <3>3. \A i \in 1 .. n : bb.data[i] \in Bytes
      <4> SUFFICES ASSUME NEW i \in 1 .. n PROVE bb.data[i] \in Bytes
        OBVIOUS
      <4>1. i \in 1 .. Len(bb.data)
        BY <3>1, <3>2
      <4> QED
        BY <1>0, <4>1, ElementOfSeq
    <3>4. 1 \in Int /\ n \in Int
      BY <3>2
    <3>5. p \in Seq(Bytes) /\ Len(p) = IF 1 <= n THEN n - 1 + 1 ELSE 0
      BY <3>3, <3>4, SubSeqProperties
    <3> HIDE DEF p, l
    <3> QED
      BY <3>2, <3>5
  <2> QED
    BY <2>1, <2>2, <2>3, DeliverReader
<1>4. CASE DeliverAltered
  <2>1. PICK i \in DOMAIN bb.data, b \in Bytes : Deliver([bb.data EXCEPT ![i] = b], FALSE)
    BY <1>4 DEF DeliverAltered
  <2>2. Encoded
    BY <1>4 DEF DeliverAltered
  <2> DEFINE d == bb.data
             p == [d EXCEPT ![i] = b]
  <2>3. p \in Seq(Bytes) /\ Len(p) <= Len(d)
    <3>1. d \in Seq(Bytes)
      BY <1>0
    <3> HIDE DEF d
    <3>2. Len(d) \in Nat /\ DOMAIN d = 1 .. Len(d) /\ d \in [1 .. Len(d) -> Bytes]
      BY <3>1, LenProperties
    <3>3. p \in [1 .. Len(d) -> Bytes]
      BY <3>2
    <3> HIDE DEF p
    <3>4. p \in Seq(Bytes) /\ Len(p) = Len(d)
      BY <3>2, <3>3
    <3> QED
      BY <3>2, <3>4
  <2> QED
    BY <2>1, <2>2, <2>3, DeliverReader
<1>5. CASE RejectLength
  <2>1. /\ phase = "decode" /\ phase' = "failed" /\ WrongLength
        /\ bb' = bb /\ br' = br /\ out' = out /\ msg' = msg /\ layout' = layout /\ payload' = payload /\ k' = k
        /\ Enc' = Enc
    BY <1>5 DEF RejectLength, Enc
  <2>2. payload # bb.data
    <3>1. name = "SIGNATURE_NOISE_MESSAGE" /\ Len(payload) # 10 + SigLen
      BY <2>1 DEF WrongLength
    <3>2. layout = SIGNATURE_NOISE_MESSAGE /\ IsOf(msg, SIGNATURE_NOISE_MESSAGE)
      <4>1. layout = Layouts[name] /\ IsOf(msg, layout)
        BY DEF BuilderInv
      <4>2. Layouts["SIGNATURE_NOISE_MESSAGE"] = SIGNATURE_NOISE_MESSAGE
        BY DEF Layouts
      <4> QED
        BY <3>1, <4>1, <4>2
    <3>3. Len(Parts(SIGNATURE_NOISE_MESSAGE, msg, Len(SIGNATURE_NOISE_MESSAGE.enc))) = 10 + SigLen
      BY <3>2, SignatureLength
    <3>4. bb.data = Parts(layout, msg, Len(layout.enc))
      BY <2>1, EncodedAll DEF Enc
    <3> QED
      BY <3>1, <3>2, <3>3, <3>4
  <2>3. (~ br.err => Taken(k - 1)) => (~ br.err => Taken(k - 1))'
    BY <2>1 DEF Taken, Found, Agrees
  <2> QED
    BY <2>1, <2>2, <2>3 DEF ReaderInv, Encoding
<1>6. CASE DecodeField
  BY <1>6, FieldReader
<1>7. CASE DecodeReturns
  <2>1. /\ phase = "decode" /\ k > Len(Dec) /\ phase' = IF br.err THEN "failed" ELSE "accepted"
        /\ bb' = bb /\ br' = br /\ out' = out /\ msg' = msg /\ layout' = layout /\ payload' = payload /\ k' = k
        /\ Enc' = Enc
    BY <1>7 DEF DecodeReturns, Enc
  <2>2. Len(Dec) = Len(Enc)
    <3>1. name \in DOMAIN Layouts /\ name # "SetCustomMiningJob" /\ layout = Layouts[name]
      BY NamesAssumption DEF BuilderInv
    <3>2. Matches(layout)
      BY <3>1, LayoutsMatch
    <3> QED
      BY <3>2 DEF Matches, Enc, Dec
  <2>3. k = Len(Enc) + 1
    <3>1. k - 1 <= Len(Enc)
      BY <2>1 DEF ReaderInv, Encoding
    <3> QED
      BY <1>0, <2>1, <2>2, <3>1
  <2>4. (~ br.err => Taken(k - 1)) => (~ br.err => Taken(k - 1))'
    BY <2>1 DEF Taken, Found, Agrees
  <2>5. /\ phase' \in {"failed", "accepted"}
        /\ phase' = "accepted" => ~ br.err
        /\ ~ br.err => phase' = "accepted"
    BY <2>1
  <2>6. /\ IsStruct(msg) /\ IsStruct(out) /\ DOMAIN out = DOMAIN msg
        /\ payload \in Seq(Bytes) /\ Len(payload) <= Len(bb.data)
        /\ k - 1 <= Len(Enc)
        /\ ~ br.err => Taken(k - 1)
        /\ payload = bb.data => ~ br.err
    BY <2>1 DEF ReaderInv, Encoding
  <2>7. ~ Encoding'
    BY <2>5 DEF Encoding
  <2>8. (~ br.err => Taken(k - 1))'
    BY <2>4, <2>6
  <2> QED
    BY <2>1, <2>3, <2>5, <2>6, <2>7, <2>8 DEF ReaderInv
<1>8. CASE UNCHANGED vars
  <2>1. /\ phase' = phase /\ bb' = bb /\ br' = br /\ out' = out /\ msg' = msg /\ layout' = layout
        /\ payload' = payload /\ k' = k /\ Enc' = Enc
    BY <1>8 DEF vars, Enc
  <2>2. (~ br.err => Taken(k - 1)) => (~ br.err => Taken(k - 1))'
    BY <2>1 DEF Taken, Found, Agrees
  <2> QED
    BY <2>1, <2>2 DEF ReaderInv, Encoding
<1> QED
  BY <1>1, <1>2, <1>3, <1>4, <1>5, <1>6, <1>7, <1>8 DEF Next

LEMMA ReaderHolds ==
  ASSUME "SetCustomMiningJob" \notin Names
  PROVE  Spec => [](BuilderInv /\ ReaderInv)
<1>1. Init => BuilderInv /\ ReaderInv
  BY InitBuilder, InitReader
<1>2. BuilderInv /\ ReaderInv /\ [Next]_vars => BuilderInv' /\ ReaderInv'
  BY StepBuilder, StepReader
<1> QED
  BY <1>1, <1>2, PTL DEF Spec

-----------------------------------------------------------------------------
(* Encode again *)

LEMMA ImageEquation ==
  ASSUME NEW m, NEW n \in Nat
  PROVE  \E im : /\ im[0] = NewBinaryBuilder
                 /\ \A i \in 0 .. n - 1 :
                      im[i + 1] = AddField(im[i], Enc[i + 1].type, m[Enc[i + 1].name])
                 /\ Image(m, n) = im[n]
<1> DEFINE Add(b, i) == AddField(b, Enc[i].type, m[Enc[i].name])
           Solves(h, l) == h = [i \in 0 .. l |-> IF i = 0 THEN NewBinaryBuilder ELSE Add(h[i - 1], i)]
           S == {l \in Nat : \E h : Solves(h, l)}
<1>1. Image(m, n) = (CHOOSE h : Solves(h, n))[n]
  BY DEF Image
<1> HIDE DEF Add
<1>2. 0 \in S
  <2>1. Solves([i \in 0 .. 0 |-> NewBinaryBuilder], 0)
    OBVIOUS
  <2> QED
    BY <2>1
<1>3. ASSUME NEW l \in S PROVE l + 1 \in S
  <2>1. PICK h : Solves(h, l)
    OBVIOUS
  <2> DEFINE j == [i \in 0 .. l + 1 |-> IF i = l + 1 THEN Add(h[l], i) ELSE h[i]]
  <2>2. ASSUME NEW i \in 0 .. l + 1
        PROVE  j[i] = IF i = 0 THEN NewBinaryBuilder ELSE Add(j[i - 1], i)
    <3>1. CASE i = l + 1
      <4>1. i # 0 /\ i - 1 = l /\ l \in 0 .. l + 1 /\ l # l + 1
        BY <3>1
      <4> QED
        BY <3>1, <4>1
    <3>2. CASE i \in 1 .. l
      <4>1. i \in 0 .. l /\ i - 1 \in 0 .. l /\ i # 0 /\ i # l + 1 /\ i - 1 # l + 1 /\ i - 1 \in 0 .. l + 1
        BY <3>2
      <4>2. h[i] = Add(h[i - 1], i)
        BY <2>1, <4>1
      <4> QED
        BY <4>1, <4>2
    <3>3. CASE i = 0
      BY <2>1, <3>3
    <3> QED
      BY <3>1, <3>2, <3>3
  <2>3. j = [i \in 0 .. l + 1 |-> j[i]]
    OBVIOUS
  <2> HIDE DEF j
  <2>4. Solves(j, l + 1)
    BY <2>2, <2>3
  <2> HIDE DEF Solves
  <2> QED
    BY <2>4
<1>4. n \in S
  <2>1. S \in SUBSET Nat
    OBVIOUS
  <2> HIDE DEF S
  <2> QED
    BY <1>2, <1>3, <2>1, SetInduction
<1> DEFINE im == CHOOSE h : Solves(h, n)
<1>5. Solves(im, n)
  BY <1>4
<1>6. Image(m, n) = im[n]
  BY <1>1
<1> HIDE DEF im
<1>7. im[0] = NewBinaryBuilder
  BY <1>5
<1>8. ASSUME NEW i \in 0 .. n - 1 PROVE im[i + 1] = Add(im[i], i + 1)
  <2>1. i + 1 \in 0 .. n /\ i + 1 # 0 /\ (i + 1) - 1 = i
    OBVIOUS
  <2>2. im[i + 1] = Add(im[(i + 1) - 1], i + 1)
    BY <1>5, <2>1
  <2> QED
    BY <2>1, <2>2
<1> QED
  BY <1>6, <1>7, <1>8 DEF Add

\* A message that has no field too long is encoded as the bytes of its fields.
LEMMA ImageIs ==
  ASSUME NEW m, Usable(Enc), IsOf(m, layout), \A j \in 1 .. Len(Enc) : ~ Long(layout, m, j)
  PROVE  Image(m, Len(Enc)) = [data |-> Parts(layout, m, Len(Enc)), err |-> FALSE]
<1> DEFINE N == Len(Enc)
<1>1. N \in Nat /\ Usable(layout.enc) /\ N = Len(layout.enc)
  BY DEF Usable, Enc
<1>2. PICK im : /\ im[0] = NewBinaryBuilder
                /\ \A i \in 0 .. N - 1 :
                     im[i + 1] = AddField(im[i], Enc[i + 1].type, m[Enc[i + 1].name])
                /\ Image(m, N) = im[N]
  BY <1>1, ImageEquation
<1> HIDE DEF N
<1> DEFINE S == {i \in Nat : i <= N => im[i] \in Builders /\ Built(im[i], layout, m, i)}
<1>3. 0 \in S
  <2>1. im[0] \in Builders /\ im[0].data = <<>> /\ im[0].err = FALSE
    BY <1>2, NewBuilder
  <2>2. im[0].data = Parts(layout, m, 0)
    BY <2>1, PartsNone
  <2>3. 0 \in 0 .. 0 /\ \A j \in 1 .. 0 : FALSE
    OBVIOUS
  <2>4. Built(im[0], layout, m, 0)
    BY <2>1, <2>2, <2>3 DEF Built
  <2> QED
    BY <2>1, <2>4
<1>4. ASSUME NEW i \in S PROVE i + 1 \in S
  <2> SUFFICES ASSUME i + 1 <= N PROVE im[i + 1] \in Builders /\ Built(im[i + 1], layout, m, i + 1)
    OBVIOUS
  <2>1. i \in Nat /\ i \in 0 .. N - 1 /\ i + 1 <= Len(layout.enc) /\ im[i] \in Builders /\ Built(im[i], layout, m, i)
    BY <1>1
  <2>2. LET c == AddField(im[i], layout.enc[i + 1].type, m[layout.enc[i + 1].name])
        IN  c \in Builders /\ Built(c, layout, m, i + 1)
    BY <1>1, <2>1, BuiltStep
  <2>3. im[i + 1] = AddField(im[i], layout.enc[i + 1].type, m[layout.enc[i + 1].name])
    BY <1>2, <2>1 DEF Enc
  <2> QED
    BY <2>2, <2>3
<1>5. N \in S
  <2>1. S \in SUBSET Nat
    OBVIOUS
  <2> HIDE DEF S
  <2> QED
    BY <1>1, <1>3, <1>4, <2>1, SetInduction
<1>6. im[N] \in Builders /\ Built(im[N], layout, m, N)
  BY <1>1, <1>5
<1> DEFINE c == im[N]
<1>7. PICK last \in 0 .. N :
        /\ IF c.err THEN last < N /\ Long(layout, m, last + 1) ELSE last = N
        /\ c.data = Parts(layout, m, last)
  BY <1>6 DEF Built
<1>8. last < N => last + 1 \in 1 .. N
  BY <1>1
<1>9. ~ c.err /\ c.data = Parts(layout, m, N)
  BY <1>7, <1>8 DEF N
<1>10. PICK d \in Seq(Bytes), e \in BOOLEAN : c = [data |-> d, err |-> e] /\ c.data = d /\ c.err = e
  BY <1>6 DEF Builders
<1> HIDE DEF c
<1>11. e = FALSE /\ d = Parts(layout, m, N)
  BY <1>9, <1>10
<1>12. c = [data |-> Parts(layout, m, N), err |-> FALSE]
  BY <1>10, <1>11, Zenon
<1> QED
  BY <1>2, <1>12 DEF c, N

-----------------------------------------------------------------------------
(* What Decode gives back *)

\* What is known of a payload that was accepted.
LEMMA AcceptedIs ==
  ASSUME BuilderInv, ReaderInv, phase = "accepted"
  PROVE  /\ Usable(Enc) /\ payload \in Seq(Bytes) /\ Taken(Len(Enc))
         /\ bb.data = Parts(layout, msg, Len(Enc)) /\ bb.data \in Seq(Bytes)
<1>1. ~ Encoding /\ phase \notin {"encode", "refused"}
  BY DEF Encoding
<1>2. Usable(Enc) /\ Len(Enc) \in Nat
  BY EncUsable DEF Usable
<1>3. ~ br.err /\ k = Len(Enc) + 1 /\ Taken(k - 1) /\ payload \in Seq(Bytes)
  BY <1>1 DEF ReaderInv
<1>4. k - 1 = Len(Enc)
  BY <1>2, <1>3
<1>5. bb.data = Parts(layout, msg, Len(Enc)) /\ bb.data \in Seq(Bytes)
  BY <1>1, EncodedAll
<1> QED
  BY <1>2, <1>3, <1>4, <1>5

\* A payload that was accepted and goes on as the bytes of the message gives
\* the message, and holds all of its bytes.
LEMMA AcceptedSame ==
  ASSUME BuilderInv, ReaderInv, phase = "accepted", Agrees(0, bb.data)
  PROVE  out = msg /\ br.pos = Len(bb.data) /\ Len(bb.data) <= Len(payload)
<1>1. /\ Usable(Enc) /\ payload \in Seq(Bytes) /\ Taken(Len(Enc))
      /\ bb.data = Parts(layout, msg, Len(Enc)) /\ bb.data \in Seq(Bytes)
  BY AcceptedIs
<1>2. /\ \A j \in 1 .. Len(Enc) : out[Enc[j].name] = msg[Enc[j].name]
      /\ Found(0, Parts(layout, out, Len(Enc))) /\ br.pos = Len(Parts(layout, out, Len(Enc)))
  BY <1>1 DEF Taken
<1>3. Len(Enc) \in Nat /\ DOMAIN Enc = 1 .. Len(Enc)
  BY <1>1 DEF Usable
<1>4. Parts(layout, out, Len(Enc)) = bb.data
  <2>1. \A j \in 1 .. Len(Enc) : out[layout.enc[j].name] = msg[layout.enc[j].name]
    BY <1>2 DEF Enc
  <2>2. Parts(layout, out, Len(Enc)) = Parts(layout, msg, Len(Enc))
    BY <1>3, <2>1, PartsSame
  <2> QED
    BY <1>1, <2>2
<1>5. out = msg
  <2>1. DOMAIN msg = {Enc[j].name : j \in DOMAIN Enc}
    BY DEF BuilderInv, IsOf, Enc
  <2>2. IsStruct(msg) /\ IsStruct(out) /\ DOMAIN out = DOMAIN msg
    BY DEF ReaderInv
  <2>3. \A f \in DOMAIN msg : out[f] = msg[f]
    BY <1>2, <1>3, <2>1
  <2> QED
    BY <2>2, <2>3 DEF IsStruct
<1>6. 0 + Len(bb.data) <= Len(payload) /\ Len(bb.data) \in Nat
  BY <1>1, <1>2, <1>4, LenProperties DEF Found
<1> QED
  BY <1>2, <1>4, <1>5, <1>6

\* A prefix goes on as the whole.
LEMMA PrefixAgrees ==
  ASSUME NEW s \in Seq(Bytes), NEW d \in Seq(Bytes), IsPrefix(s, d)
  PROVE  \A i \in 1 .. Len(d) : i <= Len(s) => s[i] = d[i]
<1> DEFINE l == Len(s)
<1>1. l \in Nat /\ Len(d) \in Nat /\ l <= Len(d) /\ SubSeq(s, 1, l) = SubSeq(d, 1, l)
  BY LenProperties DEF IsPrefix
<1>2. \A i \in 1 .. l : s[i] \in Bytes /\ d[i] \in Bytes
  <2> SUFFICES ASSUME NEW i \in 1 .. l PROVE s[i] \in Bytes /\ d[i] \in Bytes
    OBVIOUS
  <2>1. i \in 1 .. Len(s) /\ i \in 1 .. Len(d)
    BY <1>1
  <2> QED
    BY <2>1, ElementOfSeq
<1>3. 1 \in Int /\ l \in Int /\ l - 1 + 1 = l
  BY <1>1
<1>4. \A i \in 1 .. l - 1 + 1 : SubSeq(s, 1, l)[i] = s[1 + i - 1]
  BY <1>2, <1>3, SubSeqProperties
<1>5. \A i \in 1 .. l - 1 + 1 : SubSeq(d, 1, l)[i] = d[1 + i - 1]
  BY <1>2, <1>3, SubSeqProperties
<1> HIDE DEF l
<1>6. \A i \in 1 .. l : 1 + i - 1 = i
  BY <1>1
<1>7. \A i \in 1 .. l : s[i] = d[i]
  BY <1>1, <1>3, <1>4, <1>5, <1>6
<1>8. \A i \in 1 .. Len(d) : i <= l => i \in 1 .. l
  BY <1>1
<1> QED
  BY <1>7, <1>8 DEF l

\* Decode undoes Encode, for every message whose Decode reads all that its
\* Encode writes: a payload that arrives whole is accepted, read to its end,
\* and gives back every field, whatever was in the target before.
THEOREM RoundTrips ==
  ASSUME "SetCustomMiningJob" \notin Names
  PROVE  Spec => []RoundTrip
<1>1. BuilderInv /\ ReaderInv => RoundTrip
  <2> SUFFICES ASSUME BuilderInv, ReaderInv, Intact
               PROVE  phase = "accepted" /\ out = msg /\ br.pos = Len(payload)
    BY DEF RoundTrip
  <2>1. payload = bb.data /\ Ended
    BY DEF Intact
  <2>2. ~ Encoding
    BY <2>1 DEF Ended, Encoding
  <2>3. phase = "accepted"
    BY <2>1, <2>2 DEF ReaderInv, Ended
  <2>4. payload \in Seq(Bytes)
    BY <2>3, AcceptedIs
  <2>5. Agrees(0, bb.data)
    <3>1. \A i \in 1 .. Len(payload) : 0 + i = i
      BY <2>4, LenProperties
    <3> QED
      BY <2>1, <3>1 DEF Agrees
  <2>6. out = msg /\ br.pos = Len(bb.data)
    BY <2>3, <2>5, AcceptedSame
  <2> QED
    BY <2>1, <2>3, <2>6
<1>2. Spec => [](BuilderInv /\ ReaderInv)
  BY ReaderHolds
<1> QED
  BY <1>1, <1>2, PTL

\* A payload that was cut short, at whatever byte, is never accepted: some
\* read runs past its end and the error of the BinaryReader sticks.
THEOREM TruncationsNoticed ==
  ASSUME "SetCustomMiningJob" \notin Names
  PROVE  Spec => []TruncationNoticed
<1>1. BuilderInv /\ ReaderInv => TruncationNoticed
  <2> SUFFICES ASSUME BuilderInv, ReaderInv, Cut, phase = "accepted" PROVE FALSE
    BY DEF TruncationNoticed
  <2>1. payload \in Seq(Bytes) /\ bb.data \in Seq(Bytes)
    BY AcceptedIs
  <2>2. IsPrefix(payload, bb.data) /\ payload # bb.data
    BY DEF Cut, IsStrictPrefix
  <2> DEFINE d == bb.data
  <2>3. \A i \in 1 .. Len(d) : i <= Len(payload) => payload[i] = d[i]
    BY <2>1, <2>2, PrefixAgrees
  <2>4. Agrees(0, d)
    <3>1. \A i \in 1 .. Len(d) : 0 + i = i
      BY <2>1, LenProperties
    <3> QED
      BY <2>3, <3>1 DEF Agrees
  <2>5. Len(d) <= Len(payload)
    BY <2>4, AcceptedSame
  <2>6. Len(payload) <= Len(d)
    BY <2>2 DEF IsPrefix
  <2>7. Len(payload) \in Nat /\ Len(d) \in Nat
    BY <2>1, LenProperties
  <2>8. Len(payload) = Len(d) /\ \A i \in 1 .. Len(payload) : payload[i] = d[i]
    BY <2>3, <2>5, <2>6, <2>7
  <2> HIDE DEF d
  <2>9. payload = d
    BY <2>1, <2>8, SeqEqual DEF d
  <2> QED
    BY <2>2, <2>9 DEF d
<1>2. Spec => [](BuilderInv /\ ReaderInv)
  BY ReaderHolds
<1> QED
  BY <1>1, <1>2, PTL

\* What Decode accepts, Encode writes again as the very bytes that were read,
\* even when a byte of the payload was altered on the way.
THEOREM AcceptedReencodes ==
  ASSUME "SetCustomMiningJob" \notin Names
  PROVE  Spec => []Reencodes
<1>1. BuilderInv /\ ReaderInv => Reencodes
  <2> SUFFICES ASSUME BuilderInv, ReaderInv, phase = "accepted"
               PROVE  Image(out, Len(Enc)) = [data |-> SubSeq(payload, 1, br.pos), err |-> FALSE]
    BY DEF Reencodes
  <2>1. Usable(Enc) /\ payload \in Seq(Bytes) /\ Taken(Len(Enc))
    BY AcceptedIs
  <2> DEFINE s == Parts(layout, out, Len(Enc))
  <2>2. /\ IsOf(out, layout) /\ (\A j \in 1 .. Len(Enc) : ~ Long(layout, out, j))
        /\ Found(0, s) /\ br.pos = Len(s)
    BY <2>1 DEF Taken
  <2>3. Image(out, Len(Enc)) = [data |-> s, err |-> FALSE]
    BY <2>1, <2>2, ImageIs
  <2> HIDE DEF s
  <2>4. s \in Seq(Bytes) /\ 0 + Len(s) <= Len(payload) /\ Agrees(0, s) /\ 0 \in Nat
    BY <2>2 DEF Found
  <2>5. SubSeq(payload, 0 + 1, 0 + Len(s)) = s
    BY <2>1, <2>4, SliceIs
  <2>6. 0 + 1 = 1 /\ 0 + Len(s) = Len(s)
    BY <2>4, LenProperties
  <2>7. SubSeq(payload, 1, br.pos) = s
    BY <2>2, <2>5, <2>6
  <2> QED
    BY <2>3, <2>7, Zenon
<1>2. Spec => [](BuilderInv /\ ReaderInv)
  BY ReaderHolds
<1> QED
  BY <1>1, <1>2, PTL
=============================================================================
