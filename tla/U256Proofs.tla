----------------------------- MODULE U256Proofs -----------------------------
(***************************************************************************)
(* Theorems about U256: for every base and every length of the array, Add  *)
(* and Sub compute modulo the width and a strict answer of Compare is      *)
(* right.                                                                  *)
(***************************************************************************)
EXTENDS U256, WellFoundedInduction, TLAPS

-----------------------------------------------------------------------------
(* Induction over the bytes of an array *)

\* A set of numbers that is not empty has a least element.
LEMMA LeastNumber ==
  ASSUME NEW T \in SUBSET Nat, T # {}
  PROVE  \E x \in T : \A y \in T : x <= y
<1> DEFINE Less == {ss \in Nat \X Nat : ss[1] < ss[2]}
<1>1. IsWellFoundedOn(Less, Nat)
  BY NatLessThanWellFounded DEF OpToRel
<1>2. PICK x \in T : \A y \in T : ~ (<<y, x>> \in Less)
  <2> HIDE DEF Less
  <2> QED
    BY <1>1, WFMin
<1>3. ASSUME NEW y \in T, y < x
      PROVE  FALSE
  <2>1. <<y, x>> \in Less
    BY <1>3
  <2> HIDE DEF Less
  <2> QED
    BY <1>2, <2>1
<1> QED
  BY <1>3

\* A set of numbers that holds 0 and every successor is the set of all
\* numbers: induction, for predicates that are given as sets.
LEMMA SetInduction ==
  ASSUME NEW S \in SUBSET Nat, 0 \in S, \A k \in S : k + 1 \in S
  PROVE  S = Nat
<1> SUFFICES ASSUME Nat \ S # {} PROVE FALSE
  OBVIOUS
<1>1. PICK x \in Nat \ S : \A y \in Nat \ S : x <= y
  BY LeastNumber
<1>2. x - 1 \in Nat /\ x - 1 \in S /\ x - 1 + 1 = x
  BY <1>1
<1> QED
  BY <1>1, <1>2

\* The recursive definition of Weight has a solution.
LEMMA WeightEquation ==
  Weight = [k \in 0 .. Digits |-> IF k = 0 THEN 1 ELSE Base * Weight[k - 1]]
<1> DEFINE Solves(f, m) == f = [k \in 0 .. m |-> IF k = 0 THEN 1 ELSE Base * f[k - 1]]
           S == {m \in Nat : \E f : Solves(f, m)}
<1>1. 0 \in S
  <2>1. Solves([k \in 0 .. 0 |-> 1], 0)
    OBVIOUS
  <2> QED
    BY <2>1
<1>2. ASSUME NEW m \in S PROVE m + 1 \in S
  <2>1. PICK f : Solves(f, m)
    OBVIOUS
  <2> DEFINE g == [k \in 0 .. m + 1 |-> IF k = m + 1 THEN Base * f[m] ELSE f[k]]
  <2>2. ASSUME NEW k \in 0 .. m + 1
        PROVE  g[k] = IF k = 0 THEN 1 ELSE Base * g[k - 1]
    <3>1. CASE k = m + 1
      BY <3>1
    <3>2. CASE k \in 1 .. m
      <4>1. k \in 0 .. m /\ k - 1 \in 0 .. m /\ k # 0
        BY <3>2
      <4>2. f[k] = Base * f[k - 1]
        BY <2>1, <4>1
      <4> QED
        BY <4>1, <4>2
    <3>3. CASE k = 0
      BY <2>1, <3>3
    <3> QED
      BY <3>1, <3>2, <3>3
  <2>3. Solves(g, m + 1)
    BY <2>2
  <2> HIDE DEF g, Solves
  <2> QED
    BY <2>3
<1>3. Digits \in S
  <2>1. S \in SUBSET Nat
    OBVIOUS
  <2> HIDE DEF S
  <2> QED
    BY <1>1, <1>2, <2>1, SetInduction, DigitsAssumption
<1>4. \E f : Solves(f, Digits)
  BY <1>3
<1> QED
  BY <1>4 DEF Weight

LEMMA WeightStep ==
  /\ Weight[0] = 1
  /\ \A k \in 0 .. Digits - 1 : Weight[k + 1] = Base * Weight[k]
<1>1. Weight[0] = 1
  BY WeightEquation, DigitsAssumption
<1>2. ASSUME NEW k \in 0 .. Digits - 1
      PROVE  Weight[k + 1] = Base * Weight[k]
  <2>1. k + 1 \in 0 .. Digits /\ k + 1 # 0 /\ (k + 1) - 1 = k
    BY DigitsAssumption
  <2>2. Weight[k + 1] = Base * Weight[(k + 1) - 1]
    BY <2>1, WeightEquation
  <2> QED
    BY <2>1, <2>2
<1> QED
  BY <1>1, <1>2

LEMMA WeightPositive == \A k \in 0 .. Digits : Weight[k] \in Nat /\ Weight[k] > 0
<1> DEFINE S == {k \in Nat : k <= Digits => Weight[k] \in Nat /\ Weight[k] > 0}
<1>1. 0 \in S
  BY WeightStep
<1>2. ASSUME NEW k \in S PROVE k + 1 \in S
  <2> SUFFICES ASSUME k + 1 <= Digits
               PROVE  Weight[k + 1] \in Nat /\ Weight[k + 1] > 0
    OBVIOUS
  <2>1. Weight[k] \in Nat /\ Weight[k] > 0
    BY DigitsAssumption
  <2>2. Weight[k + 1] = Base * Weight[k]
    BY WeightStep, DigitsAssumption
  <2> QED
    BY <2>1, <2>2, BaseAssumption
<1>3. S = Nat
  <2>1. S \in SUBSET Nat
    OBVIOUS
  <2> HIDE DEF S
  <2> QED
    BY <1>1, <1>2, <2>1, SetInduction
<1> QED
  BY <1>3, DigitsAssumption

\* The recursive definition inside LowValue has a solution for every array.
LEMMA LowStep ==
  ASSUME NEW w
  PROVE  /\ LowValue(w, 0) = 0
         /\ \A k \in 0 .. Digits - 1 :
              LowValue(w, k + 1) = LowValue(w, k) + w[Digits - (k + 1)] * Weight[k]
<1> DEFINE Term(j) == w[Digits - j] * Weight[j - 1]
           Solves(f, m) == f = [j \in 0 .. m |-> IF j = 0 THEN 0 ELSE f[j - 1] + Term(j)]
           S == {m \in Nat : \E f : Solves(f, m)}
<1>1. 0 \in S
  <2>1. Solves([j \in 0 .. 0 |-> 0], 0)
    OBVIOUS
  <2> QED
    BY <2>1
<1>2. ASSUME NEW m \in S PROVE m + 1 \in S
  <2>1. PICK f : Solves(f, m)
    OBVIOUS
  <2> DEFINE g == [j \in 0 .. m + 1 |-> IF j = m + 1 THEN f[m] + Term(m + 1) ELSE f[j]]
  <2> HIDE DEF Term
  <2>2. ASSUME NEW j \in 0 .. m + 1
        PROVE  g[j] = IF j = 0 THEN 0 ELSE g[j - 1] + Term(j)
    <3>1. CASE j = m + 1
      BY <3>1
    <3>2. CASE j \in 1 .. m
      BY <2>1, <3>2
    <3>3. CASE j = 0
      BY <2>1, <3>3
    <3> QED
      BY <3>1, <3>2, <3>3
  <2>3. Solves(g, m + 1)
    BY <2>2
  <2> HIDE DEF g, Solves
  <2> QED
    BY <2>3
<1>3. Digits \in S
  <2>1. S \in SUBSET Nat
    OBVIOUS
  <2> HIDE DEF S
  <2> QED
    BY <1>1, <1>2, <2>1, SetInduction, DigitsAssumption
<1> DEFINE low == CHOOSE f : Solves(f, Digits)
<1>4. Solves(low, Digits)
  BY <1>3
<1>5. \A k : LowValue(w, k) = low[k]
  BY DEF LowValue
<1> HIDE DEF low
<1>6. low[0] = 0
  BY <1>4, DigitsAssumption
<1>7. ASSUME NEW k \in 0 .. Digits - 1
      PROVE  low[k + 1] = low[k] + w[Digits - (k + 1)] * Weight[k]
  <2>1. k + 1 \in 0 .. Digits /\ k + 1 # 0 /\ (k + 1) - 1 = k
    BY DigitsAssumption
  <2>2. low[k + 1] = low[(k + 1) - 1] + Term(k + 1)
    <3> HIDE DEF Term
    <3> QED
      BY <1>4, <2>1
  <2> QED
    BY <2>1, <2>2
<1> QED
  BY <1>5, <1>6, <1>7

LEMMA TimesMonotonic ==
  ASSUME NEW a \in Nat, NEW b \in Nat, NEW c \in Nat, a <= b
  PROVE  a * c <= b * c
<1>1. PICK d \in Nat : b = a + d
  <2>1. b - a \in Nat /\ b = a + (b - a)
    OBVIOUS
  <2> QED
    BY <2>1
<1>2. b * c = a * c + d * c
  BY <1>1
<1>3. d * c \in Nat /\ a * c \in Nat
  OBVIOUS
<1> QED
  BY <1>2, <1>3

\* The low k bytes stand for a number below Base to the power of k.
LEMMA LowBound ==
  ASSUME NEW w \in Words
  PROVE  \A k \in 0 .. Digits : LowValue(w, k) \in Nat /\ LowValue(w, k) < Weight[k]
<1> DEFINE S == {k \in Nat : k <= Digits =>
                               LowValue(w, k) \in Nat /\ LowValue(w, k) < Weight[k]}
<1>1. 0 \in S
  BY LowStep, WeightStep
<1>2. ASSUME NEW k \in S PROVE k + 1 \in S
  <2> SUFFICES ASSUME k + 1 <= Digits
               PROVE  LowValue(w, k + 1) \in Nat /\ LowValue(w, k + 1) < Weight[k + 1]
    OBVIOUS
  <2> DEFINE d == w[Digits - (k + 1)]
             W == Weight[k]
             L == LowValue(w, k)
  <2>1. L \in Nat /\ L < W
    BY DigitsAssumption
  <2>2. k \in 0 .. Digits - 1 /\ Digits - (k + 1) \in Index
    BY DigitsAssumption DEF Index
  <2>3. d \in Nat /\ d <= Base - 1 /\ Base - 1 \in Nat
    BY <2>2, BaseAssumption DEF Words, Bytes
  <2>4. W \in Nat
    BY <2>2, WeightPositive, DigitsAssumption
  <2>5. LowValue(w, k + 1) = L + d * W /\ Weight[k + 1] = Base * W
    BY <2>2, LowStep, WeightStep
  <2> HIDE DEF d, W, L
  <2>6. d * W <= (Base - 1) * W /\ d * W \in Nat
    BY <2>3, <2>4, TimesMonotonic
  <2>7. (Base - 1) * W = Base * W - W
    BY <2>4, BaseAssumption
  <2> QED
    BY <2>1, <2>4, <2>5, <2>6, <2>7, BaseAssumption
<1>3. S = Nat
  <2>1. S \in SUBSET Nat
    OBVIOUS
  <2> HIDE DEF S
  <2> QED
    BY <1>1, <1>2, <2>1, SetInduction
<1> QED
  BY <1>3, DigitsAssumption

\* LowValue(w, k) depends on the last k bytes only.
LEMMA LowAgree ==
  ASSUME NEW v, NEW w, NEW n \in 0 .. Digits,
         \A d \in Index : d >= Digits - n => v[d] = w[d]
  PROVE  LowValue(v, n) = LowValue(w, n)
<1> DEFINE S == {k \in Nat : k <= n => LowValue(v, k) = LowValue(w, k)}
<1>1. 0 \in S
  BY LowStep
<1>2. ASSUME NEW k \in S PROVE k + 1 \in S
  <2> SUFFICES ASSUME k + 1 <= n
               PROVE  LowValue(v, k + 1) = LowValue(w, k + 1)
    OBVIOUS
  <2>1. k \in 0 .. Digits - 1 /\ Digits - (k + 1) \in Index /\ Digits - (k + 1) >= Digits - n
    BY DigitsAssumption DEF Index
  <2>2. LowValue(v, k) = LowValue(w, k)
    BY DigitsAssumption
  <2>3. v[Digits - (k + 1)] = w[Digits - (k + 1)]
    BY <2>1
  <2> QED
    BY <2>1, <2>2, <2>3, LowStep
<1>3. S = Nat
  <2>1. S \in SUBSET Nat
    OBVIOUS
  <2> HIDE DEF S
  <2> QED
    BY <1>1, <1>2, <2>1, SetInduction
<1> QED
  BY <1>3, DigitsAssumption

\* Leading zeros add nothing.
LEMMA LeadingZeros ==
  ASSUME NEW w \in Words, NEW n \in 0 .. Digits,
         \A d \in Index : d < Digits - n => w[d] = 0
  PROVE  Value(w) = LowValue(w, n)
<1> DEFINE S == {k \in Nat : n + k <= Digits => LowValue(w, n + k) = LowValue(w, n)}
<1>1. 0 \in S
  BY DigitsAssumption
<1>2. ASSUME NEW k \in S PROVE k + 1 \in S
  <2> SUFFICES ASSUME n + (k + 1) <= Digits
               PROVE  LowValue(w, n + (k + 1)) = LowValue(w, n)
    OBVIOUS
  <2> DEFINE m == n + k
  <2>1. /\ m \in 0 .. Digits - 1 /\ n + (k + 1) = m + 1
        /\ Digits - (m + 1) \in Index /\ Digits - (m + 1) < Digits - n
    BY DigitsAssumption DEF Index
  <2>2. LowValue(w, m) = LowValue(w, n) /\ LowValue(w, m) \in Nat
    BY <2>1, LowBound, DigitsAssumption
  <2>3. w[Digits - (m + 1)] = 0 /\ Weight[m] \in Nat
    BY <2>1, WeightPositive, DigitsAssumption
  <2>4. LowValue(w, m + 1) = LowValue(w, m) + w[Digits - (m + 1)] * Weight[m]
    BY <2>1, LowStep
  <2> HIDE DEF m
  <2> QED
    BY <2>1, <2>2, <2>3, <2>4
<1>3. S = Nat
  <2>1. S \in SUBSET Nat
    OBVIOUS
  <2> HIDE DEF S
  <2> QED
    BY <1>1, <1>2, <2>1, SetInduction
<1>4. PICK k \in Nat : n + k = Digits
  <2>1. Digits - n \in Nat /\ n + (Digits - n) = Digits
    BY DigitsAssumption
  <2> QED
    BY <2>1
<1>5. LowValue(w, n + k) = LowValue(w, n)
  <2>1. k \in S
    BY <1>3
  <2>2. n + k <= Digits
    BY <1>4, DigitsAssumption
  <2> QED
    BY <2>1, <2>2
<1> QED
  BY <1>4, <1>5 DEF Value

-----------------------------------------------------------------------------
(* Type correctness *)

\* A loop that is running has bytes left; outside the loops i is 0.
CounterInv == i < Digits /\ (pc = "idle" => i = 0)

TInv == TypeOK /\ CounterInv

LEMMA ZeroIsWord == Zero \in Words
  BY BaseAssumption DEF Zero, Words, Bytes

LEMMA InitTInv == Init => TInv
<1> SUFFICES ASSUME Init PROVE TInv
  OBVIOUS
<1>1. TypeOK
  <2>1. i \in 0 .. Digits
    BY DigitsAssumption DEF Init
  <2> QED
    BY <2>1, ZeroIsWord, Zenon DEF Init, TypeOK
<1>2. CounterInv
  BY DigitsAssumption DEF Init, CounterInv
<1> QED
  BY <1>1, <1>2 DEF TInv

\* One iteration keeps the types, if it stores a byte and a carry.
LEMMA IterateTInv ==
  ASSUME TInv, pc # "idle", NEW x \in Bytes, NEW c \in {0, 1}, Iterate(x, c)
  PROVE  TInv'
<1>1. u' \in Words
  BY DEF Iterate, TInv, TypeOK, Words
<1>2. CASE i + 1 = Digits
  BY <1>1, <1>2, ZeroIsWord, DigitsAssumption DEF Iterate, TInv, TypeOK, CounterInv
<1>3. CASE i + 1 # Digits
  BY <1>1, <1>3, DigitsAssumption DEF Iterate, TInv, TypeOK, CounterInv
<1> QED
  BY <1>2, <1>3

\* The bytes an iteration works on.
LEMMA Operands ==
  ASSUME TInv
  PROVE  /\ Digits - 1 - i \in Index
         /\ u[Digits - 1 - i] \in Bytes /\ operand[Digits - 1 - i] \in Bytes
         /\ start[Digits - 1 - i] \in Bytes
<1>1. Digits - 1 - i \in Index
  BY DigitsAssumption DEF TInv, TypeOK, CounterInv, Index
<1> QED
  BY <1>1 DEF TInv, TypeOK, Words

\* Adding two bytes and a carry: the byte stored and the new carry.
LEMMA AddDigit ==
  ASSUME NEW a \in Bytes, NEW b \in Bytes, NEW c \in {0, 1}
  PROVE  LET sum == a + b + c
         IN  /\ sum % Base \in Bytes /\ sum \div Base \in {0, 1}
             /\ (sum % Base) + (sum \div Base) * Base = a + b + c
<1> DEFINE sum == a + b + c
<1>1. sum \in Nat /\ sum < 2 * Base
  BY BaseAssumption DEF Bytes
<1> HIDE DEF sum
<1>2. CASE sum < Base
  <2>1. sum % Base = sum /\ sum \div Base = 0
    BY <1>1, <1>2, BaseAssumption
  <2> QED
    BY <1>1, <1>2, <2>1, BaseAssumption DEF Bytes, sum
<1>3. CASE sum >= Base
  <2>1. sum % Base = sum - Base /\ sum \div Base = 1
    BY <1>1, <1>3, BaseAssumption
  <2> QED
    BY <1>1, <1>3, <2>1, BaseAssumption DEF Bytes, sum
<1> QED
  BY <1>1, <1>2, <1>3, BaseAssumption

\* A number is reduced by whole multiples of the modulus.
LEMMA Remainder ==
  ASSUME NEW m \in Nat, m > 0, NEW q \in Int, NEW r \in 0 .. m - 1
  PROVE  (q * m + r) % m = r
<1> DEFINE x == q * m + r
           y == x \div m
           z == x % m
<1>1. x \in Int /\ y \in Int /\ z \in 0 .. m - 1 /\ x = m * y + z
  OBVIOUS
<1>2. (q - y) * m = z - r
  BY <1>1
<1>3. CASE q - y >= 1
  <2>1. (q - y) * m >= m
    BY <1>1, <1>3
  <2> QED
    BY <1>1, <1>2, <2>1
<1>4. CASE q - y <= -1
  <2>1. (q - y) * m <= -m
    BY <1>1, <1>4
  <2> QED
    BY <1>1, <1>2, <2>1
<1>5. CASE q - y = 0
  BY <1>1, <1>2, <1>5
<1> QED
  BY <1>1, <1>3, <1>4, <1>5

\* Subtracting a byte and a borrow in a uint16 that wraps.
LEMMA SubDigit ==
  ASSUME NEW a \in Bytes, NEW b \in Bytes, NEW c \in {0, 1}
  PROVE  LET Wrap(x) == x % (Base * Base)
             sample == Wrap(Wrap(a - b) - c)
             borrow == IF sample > Base - 1 THEN 1 ELSE 0
         IN  /\ sample % Base \in Bytes
             /\ (sample % Base) - borrow * Base = a - b - c
<1> DEFINE M == Base * Base
           w1 == (a - b) % M
           sample == (w1 - c) % M
<1>1. /\ Base \in Nat /\ Base >= 2 /\ M \in Nat /\ M >= 2 * Base
      /\ M = (Base - 1) * Base + Base
  BY BaseAssumption
<1>2. a \in 0 .. Base - 1 /\ b \in 0 .. Base - 1
  BY DEF Bytes
<1>3. CASE a - b - c >= 0
  <2>1. w1 = a - b
    <3>1. a - b \in 0 .. M - 1 /\ a - b = 0 * M + (a - b)
      BY <1>1, <1>2, <1>3
    <3> HIDE DEF M
    <3> QED
      BY <1>1, <3>1, Remainder
  <2>2. sample = a - b - c
    <3>1. w1 - c \in 0 .. M - 1 /\ w1 - c = 0 * M + (w1 - c)
      BY <1>1, <1>2, <1>3, <2>1
    <3> HIDE DEF M, w1
    <3> QED
      BY <1>1, <2>1, <3>1, Remainder
  <2>3. sample % Base = sample /\ ~ (sample > Base - 1)
    <3>1. sample \in 0 .. Base - 1 /\ sample = 0 * Base + sample
      BY <1>1, <1>2, <1>3, <2>2
    <3> HIDE DEF sample
    <3> QED
      BY <1>1, <3>1, Remainder
  <2> HIDE DEF sample
  <2>4. sample \in Bytes
    BY <1>1, <1>2, <1>3, <2>2 DEF Bytes
  <2>5. sample % Base \in Bytes /\ (sample % Base) - 0 * Base = a - b - c
    BY <1>1, <2>2, <2>3, <2>4
  <2> QED
    BY <2>3, <2>5 DEF sample
<1>4. CASE a - b - c < 0
  <2>1. sample = M + (a - b - c)
    <3>1. CASE a - b < 0
      <4>1. w1 = M + (a - b)
        <5>1. M + (a - b) \in 0 .. M - 1 /\ a - b = (-1) * M + (M + (a - b))
          BY <1>1, <1>2, <3>1
        <5> HIDE DEF M
        <5> QED
          BY <1>1, <5>1, Remainder
      <4>2. w1 - c \in 0 .. M - 1 /\ w1 - c = 0 * M + (w1 - c)
        BY <1>1, <1>2, <1>4, <3>1, <4>1
      <4> HIDE DEF M, w1
      <4>3. sample = w1 - c
        BY <1>1, <4>2, Remainder
      <4> QED
        BY <1>1, <1>2, <4>1, <4>3
    <3>2. CASE a - b >= 0
      <4>1. w1 = a - b /\ a - b = 0 /\ c = 1
        <5>1. a - b = 0 /\ c = 1 /\ 0 \in 0 .. M - 1 /\ 0 * M + 0 = 0
          BY <1>1, <1>2, <1>4, <3>2
        <5> HIDE DEF M
        <5> QED
          BY <1>1, <5>1, Remainder
      <4>2. M - 1 \in 0 .. M - 1 /\ (-1) * M + (M - 1) = w1 - c
        BY <1>1, <4>1
      <4> HIDE DEF M, w1
      <4>3. sample = M - 1
        BY <1>1, <4>2, Remainder
      <4> QED
        BY <1>1, <1>2, <4>1, <4>3
    <3> QED
      BY <1>2, <3>1, <3>2
  <2> DEFINE r == Base + (a - b - c)
  <2>2. r \in 0 .. Base - 1 /\ sample = (Base - 1) * Base + r /\ Base - 1 \in Int
    BY <1>1, <1>2, <1>4, <2>1
  <2>3. sample \in Int /\ sample > Base - 1
    <3> HIDE DEF M, sample
    <3> QED
      BY <1>1, <1>2, <1>4, <2>1
  <2> HIDE DEF sample, r
  <2>4. sample % Base = r
    BY <1>1, <2>2, Remainder
  <2>5. r \in Bytes
    BY <2>2 DEF Bytes
  <2>6. r - 1 * Base = a - b - c
    BY <1>1, <1>2 DEF r
  <2>7. sample % Base \in Bytes /\ (sample % Base) - 1 * Base = a - b - c
    BY <2>4, <2>5, <2>6
  <2> QED
    BY <2>3, <2>7 DEF sample
<1> QED
  BY <1>2, <1>3, <1>4

LEMMA NextTInv == TInv /\ [Next]_vars => TInv'
<1> SUFFICES ASSUME TInv, [Next]_vars
             PROVE  TInv'
  OBVIOUS
<1>1. ASSUME NEW b \in Slices, SetBytes(b)
      PROVE  TInv'
  <2>1. u' \in Words
    <3>1. CASE Len(b) # Digits
      BY <1>1, <3>1 DEF SetBytes, TInv, TypeOK
    <3>2. CASE Len(b) = Digits
      <4>1. PICK k \in {Digits - 1, Digits, Digits + 1} : b \in [1 .. k -> Bytes]
        BY DEF Slices
      <4>2. k \in Nat
        BY DigitsAssumption
      <4>3. Len(b) = k
        BY <4>1, <4>2
      <4>4. \A d \in Index : d + 1 \in 1 .. Digits /\ b[d + 1] \in Bytes
        BY <3>2, <4>1, <4>3, DigitsAssumption DEF Index
      <4> QED
        BY <1>1, <3>2, <4>4 DEF SetBytes, Words
    <3> QED
      BY <3>1, <3>2
  <2>2. err' \in BOOLEAN
    BY <1>1 DEF SetBytes
  <2> QED
    BY <1>1, <2>1, <2>2 DEF SetBytes, TInv, TypeOK, CounterInv
<1>2. ASSUME NEW w \in Words, NEW loop \in {"add", "sub"}, Begin(loop, w)
      PROVE  TInv'
  BY <1>2, DigitsAssumption DEF Begin, TInv, TypeOK, CounterInv
<1>3. CASE AddByte
  <2> DEFINE a == u[Digits - 1 - i]
             b == operand[Digits - 1 - i]
             sum == a + b + carry
  <2>1. Iterate(sum % Base, sum \div Base)
    BY <1>3 DEF AddByte
  <2>2. sum % Base \in Bytes /\ sum \div Base \in {0, 1}
    BY Operands, AddDigit DEF TInv, TypeOK
  <2>3. pc # "idle"
    BY <1>3 DEF AddByte
  <2> HIDE DEF sum
  <2> QED
    BY <2>1, <2>2, <2>3, IterateTInv
<1>4. CASE SubByte
  <2> DEFINE a == u[Digits - 1 - i]
             b == operand[Digits - 1 - i]
             sample == (((a - b) % (Base * Base)) - carry) % (Base * Base)
  <2>1. Iterate(sample % Base, IF sample > Base - 1 THEN 1 ELSE 0)
    BY <1>4 DEF SubByte
  <2>2. sample % Base \in Bytes
    BY Operands, SubDigit DEF TInv, TypeOK
  <2>3. pc # "idle"
    BY <1>4 DEF SubByte
  <2> HIDE DEF sample
  <2>4. (IF sample > Base - 1 THEN 1 ELSE 0) \in {0, 1}
    OBVIOUS
  <2> QED
    BY <2>1, <2>2, <2>3, <2>4, IterateTInv
<1>5. CASE UNCHANGED vars
  BY <1>5 DEF vars, TInv, TypeOK, CounterInv
<1> QED
  BY <1>1, <1>2, <1>3, <1>4, <1>5 DEF Next

\* For every base and length: the arrays keep their length and every element
\* stays a byte, the carry stays 0 or 1, and the loops of Add and Sub never
\* leave the array.
THEOREM TypeCorrect == Spec => []TypeOK
<1>1. TInv => TypeOK
  BY DEF TInv
<1> QED
  BY <1>1, InitTInv, NextTInv, PTL DEF Spec

-----------------------------------------------------------------------------
(* Add and Sub *)

\* The bytes the loop has not reached are still those of the receiver when
\* the loop began.
UntouchedInv ==
  pc # "idle" => \A d \in Index : d < Digits - i => u[d] = start[d]

IInv == TInv /\ UntouchedInv /\ LoopInv

\* What an iteration adds to the values of the low bytes.
LEMMA IterateLow ==
  ASSUME IInv, pc # "idle", NEW x \in Bytes, NEW c, Iterate(x, c)
  PROVE  /\ LowValue(u', i + 1) = LowValue(u, i) + x * Weight[i]
         /\ LowValue(start, i + 1) = LowValue(start, i) + u[Digits - 1 - i] * Weight[i]
         /\ LowValue(operand, i + 1)
              = LowValue(operand, i) + operand[Digits - 1 - i] * Weight[i]
         /\ Weight[i + 1] = Base * Weight[i]
<1>1. /\ i \in 0 .. Digits - 1 /\ i \in 0 .. Digits
      /\ Digits - (i + 1) = Digits - 1 - i /\ Digits - 1 - i < Digits - i
  BY DigitsAssumption DEF IInv, TInv, TypeOK, CounterInv
<1>2. Digits - 1 - i \in Index
  BY Operands DEF IInv
<1>3. u'[Digits - 1 - i] = x /\ \A d \in Index : d >= Digits - i => u'[d] = u[d]
  BY <1>1, <1>2, DigitsAssumption DEF Iterate, IInv, TInv, TypeOK, Words, Index
<1>4. LowValue(u', i) = LowValue(u, i)
  BY <1>1, <1>3, LowAgree
<1>5. LowValue(u', i + 1) = LowValue(u', i) + u'[Digits - (i + 1)] * Weight[i]
  BY <1>1, LowStep
<1>6. start[Digits - 1 - i] = u[Digits - 1 - i]
  BY <1>1, <1>2 DEF IInv, UntouchedInv
<1>7. /\ LowValue(start, i + 1) = LowValue(start, i) + start[Digits - (i + 1)] * Weight[i]
      /\ LowValue(operand, i + 1)
           = LowValue(operand, i) + operand[Digits - (i + 1)] * Weight[i]
  BY <1>1, LowStep
<1>8. Weight[i + 1] = Base * Weight[i]
  BY <1>1, WeightStep
<1> QED
  BY <1>1, <1>3, <1>4, <1>5, <1>6, <1>7, <1>8

\* What AddByte has computed when it is done, also when the loop is over and
\* its variables are gone.
LEMMA AddResult ==
  ASSUME IInv, AddByte
  PROVE  \E c \in {0, 1} :
           /\ LowValue(u', i + 1) + c * Weight[i + 1]
                = LowValue(start, i + 1) + LowValue(operand, i + 1)
           /\ i + 1 # Digits => carry' = c
<1> DEFINE a == u[Digits - 1 - i]
           b == operand[Digits - 1 - i]
           sum == a + b + carry
           x == sum % Base
           c == sum \div Base
<1>1. Iterate(x, c) /\ pc = "add"
  BY DEF AddByte
<1>2. TInv /\ carry \in {0, 1} /\ i \in 0 .. Digits
  BY DEF IInv, TInv, TypeOK
<1>3. a \in Bytes /\ b \in Bytes
  BY <1>2, Operands
<1>4. x \in Bytes /\ c \in {0, 1} /\ x + c * Base = a + b + carry
  BY <1>2, <1>3, AddDigit
<1>5. i + 1 # Digits => carry' = c
  BY <1>1 DEF Iterate
<1> HIDE DEF x, c
<1>6. /\ LowValue(u', i + 1) = LowValue(u, i) + x * Weight[i]
      /\ LowValue(start, i + 1) = LowValue(start, i) + a * Weight[i]
      /\ LowValue(operand, i + 1) = LowValue(operand, i) + b * Weight[i]
      /\ Weight[i + 1] = Base * Weight[i]
  BY <1>1, <1>4, IterateLow
<1>7. LowValue(u, i) + carry * Weight[i] = LowValue(start, i) + LowValue(operand, i)
  BY <1>1 DEF IInv, LoopInv, AddLoopInv
<1>8. /\ LowValue(u, i) \in Int /\ LowValue(start, i) \in Int
      /\ LowValue(operand, i) \in Int /\ Weight[i] \in Int
  BY <1>2, LowBound, WeightPositive DEF TInv, TypeOK
<1>9. a \in Int /\ b \in Int /\ x \in Int /\ c \in Int /\ carry \in Int /\ Base \in Int
  BY <1>2, <1>3, <1>4, BaseAssumption DEF Bytes
<1> DEFINE W == Weight[i]
<1> HIDE DEF a, b, W
<1>10. x * W + c * (Base * W) = a * W + b * W + carry * W
  <2>1. W \in Int
    BY <1>8 DEF W
  <2>2. (x + c * Base) * W = x * W + c * (Base * W)
    BY <1>9, <2>1
  <2>3. (a + b + carry) * W = a * W + b * W + carry * W
    BY <1>9, <2>1
  <2> QED
    BY <1>4, <2>2, <2>3
<1>11. /\ x * W \in Int /\ c * (Base * W) \in Int
       /\ a * W \in Int /\ b * W \in Int /\ carry * W \in Int
  BY <1>8, <1>9 DEF W
<1>12. LowValue(u', i + 1) + c * Weight[i + 1]
         = LowValue(start, i + 1) + LowValue(operand, i + 1)
  <2>1. /\ LowValue(u', i + 1) = LowValue(u, i) + x * W
        /\ LowValue(start, i + 1) = LowValue(start, i) + a * W
        /\ LowValue(operand, i + 1) = LowValue(operand, i) + b * W
        /\ c * Weight[i + 1] = c * (Base * W)
    BY <1>6 DEF W
  <2>2. LowValue(u, i) + carry * W = LowValue(start, i) + LowValue(operand, i)
    BY <1>7 DEF W
  <2> QED
    BY <1>8, <1>10, <1>11, <2>1, <2>2
<1> QED
  BY <1>4, <1>5, <1>12

LEMMA SubResult ==
  ASSUME IInv, SubByte
  PROVE  \E c \in {0, 1} :
           /\ LowValue(u', i + 1) - c * Weight[i + 1]
                = LowValue(start, i + 1) - LowValue(operand, i + 1)
           /\ i + 1 # Digits => carry' = c
<1> DEFINE a == u[Digits - 1 - i]
           b == operand[Digits - 1 - i]
           sample == (((a - b) % (Base * Base)) - carry) % (Base * Base)
           x == sample % Base
           c == IF sample > Base - 1 THEN 1 ELSE 0
<1>1. Iterate(x, c) /\ pc = "sub"
  BY DEF SubByte
<1>2. TInv /\ carry \in {0, 1} /\ i \in 0 .. Digits
  BY DEF IInv, TInv, TypeOK
<1>3. a \in Bytes /\ b \in Bytes
  BY <1>2, Operands
<1>4. x \in Bytes /\ x - c * Base = a - b - carry
  BY <1>2, <1>3, SubDigit
<1>5. c \in {0, 1}
  OBVIOUS
<1>6. i + 1 # Digits => carry' = c
  BY <1>1 DEF Iterate
<1> HIDE DEF x, c
<1>7. /\ LowValue(u', i + 1) = LowValue(u, i) + x * Weight[i]
      /\ LowValue(start, i + 1) = LowValue(start, i) + a * Weight[i]
      /\ LowValue(operand, i + 1) = LowValue(operand, i) + b * Weight[i]
      /\ Weight[i + 1] = Base * Weight[i]
  BY <1>1, <1>4, IterateLow
<1>8. LowValue(u, i) - carry * Weight[i] = LowValue(start, i) - LowValue(operand, i)
  BY <1>1 DEF IInv, LoopInv, SubLoopInv
<1>9. /\ LowValue(u, i) \in Int /\ LowValue(start, i) \in Int
      /\ LowValue(operand, i) \in Int /\ Weight[i] \in Int
  BY <1>2, LowBound, WeightPositive DEF TInv, TypeOK
<1>10. a \in Int /\ b \in Int /\ x \in Int /\ c \in Int /\ carry \in Int /\ Base \in Int
  BY <1>2, <1>3, <1>4, <1>5, BaseAssumption DEF Bytes
<1> DEFINE W == Weight[i]
<1> HIDE DEF a, b, W
<1>11. x * W - c * (Base * W) = a * W - b * W - carry * W
  <2>1. W \in Int
    BY <1>9 DEF W
  <2>2. (x - c * Base) * W = x * W - c * (Base * W)
    BY <1>10, <2>1
  <2>3. (a - b - carry) * W = a * W - b * W - carry * W
    BY <1>10, <2>1
  <2> QED
    BY <1>4, <2>2, <2>3
<1>12. /\ x * W \in Int /\ c * (Base * W) \in Int
       /\ a * W \in Int /\ b * W \in Int /\ carry * W \in Int
  BY <1>9, <1>10 DEF W
<1>13. LowValue(u', i + 1) - c * Weight[i + 1]
         = LowValue(start, i + 1) - LowValue(operand, i + 1)
  <2>1. /\ LowValue(u', i + 1) = LowValue(u, i) + x * W
        /\ LowValue(start, i + 1) = LowValue(start, i) + a * W
        /\ LowValue(operand, i + 1) = LowValue(operand, i) + b * W
        /\ c * Weight[i + 1] = c * (Base * W)
    BY <1>7 DEF W
  <2>2. LowValue(u, i) - carry * W = LowValue(start, i) - LowValue(operand, i)
    BY <1>8 DEF W
  <2> QED
    BY <1>9, <1>11, <1>12, <2>1, <2>2
<1> QED
  BY <1>5, <1>6, <1>13

\* An iteration leaves the bytes above it alone.
LEMMA IterateUntouched ==
  ASSUME IInv, pc # "idle", NEW x, NEW c, Iterate(x, c)
  PROVE  UntouchedInv'
<1> SUFFICES ASSUME pc' # "idle", NEW d \in Index, d < Digits - i'
             PROVE  u'[d] = start'[d]
  BY DEF UntouchedInv
<1>1. i + 1 # Digits /\ i' = i + 1 /\ start' = start
  BY DEF Iterate
<1>2. d # Digits - 1 - i /\ d < Digits - i
  BY <1>1, DigitsAssumption DEF IInv, TInv, TypeOK, Index
<1>3. u'[d] = u[d]
  BY <1>2 DEF Iterate, IInv, TInv, TypeOK, Words
<1> QED
  BY <1>1, <1>2, <1>3 DEF IInv, UntouchedInv

LEMMA InitIInv == Init => IInv
  BY InitTInv DEF Init, IInv, UntouchedInv, LoopInv, AddLoopInv, SubLoopInv

LEMMA NextIInv == IInv /\ [Next]_vars => IInv'
<1> SUFFICES ASSUME IInv, [Next]_vars
             PROVE  IInv'
  OBVIOUS
<1>1. TInv'
  BY NextTInv DEF IInv
<1>2. ASSUME NEW b \in Slices, SetBytes(b)
      PROVE  (UntouchedInv /\ LoopInv)'
  BY <1>2 DEF SetBytes, UntouchedInv, LoopInv, AddLoopInv, SubLoopInv
<1>3. ASSUME NEW w \in Words, NEW loop \in {"add", "sub"}, Begin(loop, w)
      PROVE  (UntouchedInv /\ LoopInv)'
  <2>1. UntouchedInv'
    BY <1>3 DEF Begin, UntouchedInv
  <2>2. /\ LowValue(u', i') = 0 /\ LowValue(start', i') = 0 /\ LowValue(operand', i') = 0
        /\ carry' = 0 /\ Weight[i'] = 1
    BY <1>3, LowStep, WeightStep DEF Begin
  <2> QED
    BY <2>1, <2>2 DEF LoopInv, AddLoopInv, SubLoopInv
<1>4. CASE AddByte
  <2>1. UntouchedInv'
    BY <1>4, IterateUntouched DEF AddByte
  <2>2. PICK c \in {0, 1} :
          /\ LowValue(u', i + 1) + c * Weight[i + 1]
               = LowValue(start, i + 1) + LowValue(operand, i + 1)
          /\ i + 1 # Digits => carry' = c
    BY <1>4, AddResult
  <2>3. CASE i + 1 = Digits
    BY <1>1, <1>4, <2>1, <2>3 DEF AddByte, Iterate, IInv, LoopInv, AddLoopInv, SubLoopInv
  <2>4. CASE i + 1 # Digits
    BY <1>1, <1>4, <2>1, <2>2, <2>4
    DEF AddByte, Iterate, IInv, LoopInv, AddLoopInv, SubLoopInv
  <2> QED
    BY <2>3, <2>4
<1>5. CASE SubByte
  <2>1. UntouchedInv'
    BY <1>5, IterateUntouched DEF SubByte
  <2>2. PICK c \in {0, 1} :
          /\ LowValue(u', i + 1) - c * Weight[i + 1]
               = LowValue(start, i + 1) - LowValue(operand, i + 1)
          /\ i + 1 # Digits => carry' = c
    BY <1>5, SubResult
  <2>3. CASE i + 1 = Digits
    BY <1>1, <1>5, <2>1, <2>3 DEF SubByte, Iterate, IInv, LoopInv, AddLoopInv, SubLoopInv
  <2>4. CASE i + 1 # Digits
    BY <1>1, <1>5, <2>1, <2>2, <2>4
    DEF SubByte, Iterate, IInv, LoopInv, AddLoopInv, SubLoopInv
  <2> QED
    BY <2>3, <2>4
<1>6. CASE UNCHANGED vars
  BY <1>1, <1>6 DEF vars, IInv, UntouchedInv, LoopInv, AddLoopInv, SubLoopInv
<1> QED
  BY <1>1, <1>2, <1>3, <1>4, <1>5, <1>6 DEF Next, IInv

\* For every base and length: in the middle of Add and of Sub the bytes
\* written so far, with the carry or borrow, are the sum or difference of the
\* low bytes, however far a carry or borrow has rippled.
THEOREM LoopsAreRight == Spec => []LoopInv
<1>1. IInv => LoopInv
  BY DEF IInv
<1> QED
  BY <1>1, InitIInv, NextIInv, PTL DEF Spec

\* A finished loop leaves the result modulo the width.
LEMMA Discard ==
  ASSUME NEW r \in Nat, NEW m \in Nat, r < m, NEW c \in {0, 1}, NEW x \in Int
  PROVE  /\ r + c * m = x => x % m = r
         /\ r - c * m = x => x % m = r
<1>1. r \in 0 .. m - 1 /\ m > 0
  OBVIOUS
<1>2. (c * m + r) % m = r
  BY <1>1, Remainder
<1>3. ((0 - c) * m + r) % m = r
  BY <1>1, Remainder
<1>4. r + c * m = c * m + r /\ r - c * m = (0 - c) * m + r
  OBVIOUS
<1> QED
  BY <1>2, <1>3, <1>4

LEMMA NextModular ==
  ASSUME IInv, [Next]_vars
  PROVE  /\ pc = "add" /\ pc' = "idle" =>
              Value(u') = (Value(start) + Value(operand)) % Weight[Digits]
         /\ pc = "sub" /\ pc' = "idle" =>
              Value(u') = (Value(start) - Value(operand)) % Weight[Digits]
<1> DEFINE m == Weight[Digits]
           r == Value(u')
           s == Value(start)
           o == Value(operand)
<1>1. IInv'
  BY NextIInv
<1>2. m \in Nat /\ r \in Nat /\ r < m /\ s \in Nat /\ o \in Nat
  BY <1>1, LowBound, WeightPositive, DigitsAssumption DEF IInv, TInv, TypeOK, Value
<1>3. ASSUME pc = "add", pc' = "idle"
      PROVE  r = (s + o) % m
  <2>1. AddByte /\ i + 1 = Digits
    BY <1>3 DEF Next, SetBytes, Begin, AddByte, SubByte, Iterate, vars
  <2>2. PICK c \in {0, 1} : r + c * m = s + o
    BY <2>1, AddResult DEF Value
  <2>3. s + o \in Int
    BY <1>2
  <2> HIDE DEF m, r, s, o
  <2> QED
    BY <1>2, <2>2, <2>3, Discard
<1>4. ASSUME pc = "sub", pc' = "idle"
      PROVE  r = (s - o) % m
  <2>1. SubByte /\ i + 1 = Digits
    BY <1>4 DEF Next, SetBytes, Begin, AddByte, SubByte, Iterate, vars
  <2>2. PICK c \in {0, 1} : r - c * m = s - o
    BY <2>1, SubResult DEF Value
  <2>3. s - o \in Int
    BY <1>2
  <2> HIDE DEF m, r, s, o
  <2> QED
    BY <1>2, <2>2, <2>3, Discard
<1> QED
  BY <1>3, <1>4

\* For every base and length: a finished Add or Sub has computed the sum or
\* the difference modulo the width; the carry out of the first byte is all
\* that is lost.
THEOREM ArithmeticIsModular == Spec => Modular
<1>1. IInv /\ [Next]_vars =>
        [/\ pc = "add" /\ pc' = "idle" =>
              Value(u') = (Value(start) + Value(operand)) % Weight[Digits]
         /\ pc = "sub" /\ pc' = "idle" =>
              Value(u') = (Value(start) - Value(operand)) % Weight[Digits]]_vars
  BY NextModular
<1> QED
  BY <1>1, InitIInv, NextIInv, PTL DEF Spec, Modular

-----------------------------------------------------------------------------
(* Compare *)

\* The first byte in which a number is larger decides, when only zeros are
\* in front of it.
LEMMA FirstByteDecides ==
  ASSUME NEW v \in Words, NEW w \in Words, NEW first \in Index, v[first] < w[first],
         \A d \in Index : d < first => v[d] = 0 /\ w[d] = 0
  PROVE  Value(v) < Value(w)
<1> DEFINE k == Digits - 1 - first
           W == Weight[k]
<1>1. /\ k \in 0 .. Digits - 1 /\ k \in 0 .. Digits /\ k + 1 \in 0 .. Digits
      /\ Digits - (k + 1) = first
  BY DigitsAssumption DEF Index
<1> HIDE DEF k
<1>2. Value(v) = LowValue(v, k + 1) /\ Value(w) = LowValue(w, k + 1)
  BY <1>1, LeadingZeros
<1>3. /\ LowValue(v, k + 1) = LowValue(v, k) + v[first] * W
      /\ LowValue(w, k + 1) = LowValue(w, k) + w[first] * W
  BY <1>1, LowStep
<1>4. /\ LowValue(v, k) \in Nat /\ LowValue(v, k) < W /\ LowValue(w, k) \in Nat
      /\ W \in Nat
  BY <1>1, LowBound, WeightPositive
<1>5. v[first] \in Nat /\ w[first] \in Nat /\ v[first] + 1 <= w[first]
  BY BaseAssumption DEF Words, Bytes
<1> HIDE DEF W
<1>6. (v[first] + 1) * W <= w[first] * W
  BY <1>4, <1>5, TimesMonotonic
<1>7. (v[first] + 1) * W = v[first] * W + W /\ v[first] * W \in Nat /\ w[first] * W \in Nat
  BY <1>4, <1>5
<1> QED
  BY <1>2, <1>3, <1>4, <1>6, <1>7

LEMMA CompareStrict ==
  ASSUME NEW target \in Words, NEW hash \in Words
  PROVE  /\ Compare(target, hash) = 1 => Value(hash) < Value(target)
         /\ Compare(target, hash) = -1 => Value(hash) > Value(target)
<1> DEFINE Significant == {d \in Index : hash[d] # 0 \/ target[d] # 0}
           first == CHOOSE d \in Significant : \A e \in Significant : d <= e
<1>1. CASE target = hash
  BY <1>1 DEF Compare
<1>2. CASE target # hash
  <2>1. PICK s \in Index : hash[s] # target[s]
    BY <1>2 DEF Words
  <2>2. s \in Significant
    BY <2>1
  <2>3. \E d \in Significant : \A e \in Significant : d <= e
    <3>1. Significant \in SUBSET Nat
      BY DEF Index
    <3> HIDE DEF Significant
    <3> QED
      BY <2>2, <3>1, LeastNumber
  <2>4. first \in Significant /\ \A e \in Significant : first <= e
    <3> HIDE DEF Significant
    <3> QED
      BY <2>3
  <2>5. Compare(target, hash) = CASE hash[first] < target[first] -> 1
                                  [] hash[first] = target[first] -> 0
                                  [] hash[first] > target[first] -> -1
    BY <1>2 DEF Compare
  <2> HIDE DEF first
  <2>6. first \in Index /\ \A d \in Index : d < first => hash[d] = 0 /\ target[d] = 0
    BY <2>4 DEF Index
  <2>7. hash[first] \in Int /\ target[first] \in Int
    BY <2>6 DEF Words, Bytes
  <2>8. CASE hash[first] < target[first]
    <3>1. Value(hash) < Value(target)
      BY <2>6, <2>8, FirstByteDecides
    <3>2. Compare(target, hash) = 1
      BY <2>5, <2>7, <2>8
    <3> QED
      BY <3>1, <3>2
  <2>9. CASE hash[first] > target[first]
    <3>1. Value(target) < Value(hash)
      <4>1. target[first] < hash[first]
        BY <2>7, <2>9
      <4> QED
        BY <2>6, <4>1, FirstByteDecides
    <3>2. Value(target) \in Int /\ Value(hash) \in Int
      BY LowBound, DigitsAssumption DEF Value
    <3>3. Compare(target, hash) = -1
      BY <2>5, <2>7, <2>9
    <3> QED
      BY <3>1, <3>2, <3>3
  <2>10. CASE hash[first] = target[first]
    BY <2>5, <2>7, <2>10
  <2> QED
    BY <2>7, <2>8, <2>9, <2>10
<1> QED
  BY <1>1, <1>2

\* For every base and length: Compare never calls the larger of two numbers
\* the smaller one, so IsMetBy refuses no valid share.
THEOREM StrictComparison == Spec => []StrictAnswersRight
<1>1. TInv => StrictAnswersRight
  BY CompareStrict DEF TInv, TypeOK, StrictAnswersRight
<1> QED
  BY <1>1, InitTInv, NextTInv, PTL DEF Spec
=============================================================================
