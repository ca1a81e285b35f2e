-------------------------------- MODULE U256 --------------------------------
(***************************************************************************)
(* The U256 of types.go: a big-endian array of bytes with in-place         *)
(* addition and subtraction, one action per iteration of their loops, and  *)
(* the comparison that decides whether a share meets its target.  Bytes    *)
(* have Base values and the array Digits of them (256 and 32 in the code). *)
(***************************************************************************)
EXTENDS Integers, Sequences

CONSTANTS
  Base,    \* number of values of a byte
  Digits   \* length of the array

ASSUME BaseAssumption == Base \in Nat /\ Base >= 2
ASSUME DigitsAssumption == Digits \in Nat /\ Digits >= 1

VARIABLES
  u,        \* the receiver, most significant byte first
  operand,  \* the argument, passed by value
  pc,       \* "idle", or the loop that is running
  i,        \* iterations done
  carry,    \* the loop's carry or borrow
  start,    \* the receiver when the loop began
  err       \* SetBytes or SetString refused its argument

vars == <<u, operand, pc, i, carry, start, err>>

Index == 0 .. Digits - 1
Bytes == 0 .. Base - 1
Words == [Index -> Bytes]
Zero == [d \in Index |-> 0]

\* Base to the power of k: what a byte counts that k bytes follow.
Weight[k \in 0 .. Digits] == IF k = 0 THEN 1 ELSE Base * Weight[k - 1]

\* What the low k bytes of w stand for, and the whole array.
LowValue(w, k) ==
  LET low[j \in 0 .. Digits] ==
        IF j = 0 THEN 0 ELSE low[j - 1] + w[Digits - j] * Weight[j - 1]
  IN  low[k]

Value(w) == LowValue(w, Digits)

Init ==
  /\ u = Zero
  /\ operand = Zero
  /\ pc = "idle"
  /\ i = 0
  /\ carry = 0
  /\ start = Zero
  /\ err = FALSE

\* SetBytes, and SetString on the decoded hexadecimal string: a slice of any
\* other length is refused and leaves u as it was.
SetBytes(b) ==
  /\ pc = "idle"
  /\ IF Len(b) # Digits
     THEN err' = TRUE /\ u' = u
     ELSE err' = FALSE /\ u' = [d \in Index |-> b[d + 1]]
  /\ UNCHANGED <<operand, pc, i, carry, start>>

Begin(loop, w) ==
  /\ pc = "idle"
  /\ pc' = loop
  /\ operand' = w
  /\ i' = 0
  /\ carry' = 0
  /\ start' = u
  /\ UNCHANGED <<u, err>>

\* One iteration stores byte x at position Digits - 1 - i; after the last one
\* the loop's variables are gone.
Iterate(x, c) ==
  /\ u' = [u EXCEPT ![Digits - 1 - i] = x]
  /\ IF i + 1 = Digits
     THEN pc' = "idle" /\ i' = 0 /\ carry' = 0 /\ start' = Zero
     ELSE pc' = pc /\ i' = i + 1 /\ carry' = c /\ start' = start
  /\ UNCHANGED <<operand, err>>

\* Mutant: the carry of a full column is lost.
AddByteNoCarryIn ==
  /\ pc = "add"
  /\ LET sum == u[Digits - 1 - i] + operand[Digits - 1 - i]
     IN  Iterate((sum + carry) % Base, sum \div Base)

\* sum := uint16(u[31-i]) + uint16(addend[31-i]) + carry
AddByte ==
  /\ pc = "add"
  /\ LET sum == u[Digits - 1 - i] + operand[Digits - 1 - i] + carry
     IN  Iterate(sum % Base, sum \div Base)

\* Mutant: a borrow is only taken when the bytes alone underflow.
SubByteNoRipple ==
  /\ pc = "sub"
  /\ LET diff == u[Digits - 1 - i] - operand[Digits - 1 - i]
     IN  Iterate((diff - carry) % Base, IF diff < 0 THEN 1 ELSE 0)

\* sample is a uint16: a negative difference wraps to a value above 255, and
\* any borrow (0xff in the code, 1 here) takes one more.
SubByte ==
  /\ pc = "sub"
  /\ LET Wrap(x) == x % (Base * Base)
         sample == Wrap(Wrap(u[Digits - 1 - i] - operand[Digits - 1 - i]) - carry)
     IN  Iterate(sample % Base, IF sample > Base - 1 THEN 1 ELSE 0)

\* The slices handed to SetBytes: any bytes, of the right length or one off.
Slices == UNION {[1 .. k -> Bytes] : k \in {Digits - 1, Digits, Digits + 1}}

Next ==
  \/ \E b \in Slices : SetBytes(b)
  \/ \E w \in Words : Begin("add", w) \/ Begin("sub", w)
  \/ AddByte
  \/ SubByte

Spec == Init /\ [][Next]_vars

-----------------------------------------------------------------------------
(* Comparison *)

\* Mutant: the two arguments are swapped in the test of the first byte.
CompareSwapped(target, hash) ==
  IF target = hash THEN 0
  ELSE LET Significant == {d \in Index : hash[d] # 0 \/ target[d] # 0}
           first == CHOOSE d \in Significant : \A e \in Significant : d <= e
       IN  CASE hash[first] < target[first] -> -1
             [] hash[first] = target[first] -> 0
             [] hash[first] > target[first] -> 1

\* Compare looks at the first position where either array is not zero, and at
\* no other.
Compare(target, hash) ==
  IF target = hash THEN 0
  ELSE LET Significant == {d \in Index : hash[d] # 0 \/ target[d] # 0}
           first == CHOOSE d \in Significant : \A e \in Significant : d <= e
       IN  CASE hash[first] < target[first] -> 1
             [] hash[first] = target[first] -> 0
             [] hash[first] > target[first] -> -1

IsMetBy(target, hash) == Compare(target, hash) >= 0

-----------------------------------------------------------------------------
(* Properties *)

\* Every variable keeps its type.
TypeOK ==
  /\ u \in Words
  /\ operand \in Words
  /\ pc \in {"idle", "add", "sub"}
  /\ i \in 0 .. Digits
  /\ carry \in {0, 1}
  /\ start \in Words
  /\ err \in BOOLEAN

AddLoopInv ==
  pc = "add" => LowValue(u, i) + carry * Weight[i]
                  = LowValue(start, i) + LowValue(operand, i)

SubLoopInv ==
  pc = "sub" => LowValue(u, i) - carry * Weight[i]
                  = LowValue(start, i) - LowValue(operand, i)

\* In the middle of the loops of Add and Sub the bytes written so far, with
\* the carry or less the borrow, are the sum or the difference of the low
\* bytes of the operands, however far a carry or a borrow has rippled.
LoopInv == AddLoopInv /\ SubLoopInv

\* "any carry past 256 bits is discarded": a finished Add or Sub has computed
\* modulo the width, whatever the carries that rippled on the way.
Modular ==
  [][/\ pc = "add" /\ pc' = "idle" =>
          Value(u') = (Value(start) + Value(operand)) % Weight[Digits]
     /\ pc = "sub" /\ pc' = "idle" =>
          Value(u') = (Value(start) - Value(operand)) % Weight[Digits]]_vars

\* A strict answer of Compare is right: it never calls the larger number the
\* smaller one, and so IsMetBy never refuses a valid share.  (u is the
\* target, operand the hash.)  For the target 00ff..00 and the hash 00..ff00
\* TestU256 requires this (types_test.go:24-28), and the two benchmarks of
\* IsMetBy, which stop with b.Fatal, the opposite (types_test.go:127-130).
StrictAnswersRight ==
  /\ Compare(u, operand) = 1 => Value(operand) < Value(u)
  /\ Compare(u, operand) = -1 => Value(operand) > Value(u)

\* "hash must be less than or equal to the target to be a valid share/block."
OnlyValidSharesMet == IsMetBy(u, operand) => Value(operand) <= Value(u)
=============================================================================
