------------------------------- MODULE Binary -------------------------------
(***************************************************************************)
(* The integers on the wire: encoding/binary's little-endian forms, as     *)
(* binary.go uses them.  A byte has Base values, 256 in the code.          *)
(***************************************************************************)
EXTENDS Integers, SequencesExt

CONSTANT Base

ASSUME BaseAssumption == Base \in Nat \ {0, 1}

Bytes == 0 .. Base - 1

\* What a 1 in a byte counts, least significant byte first; the widest integer
\* has eight bytes.
Weight[k \in 0 .. 8] == IF k = 0 THEN 1 ELSE Base * Weight[k - 1]

LittleEndian(v, w) == [i \in 1 .. w |-> (v \div Weight[i - 1]) % Base]

\* Mutant: the bytes are taken in the other order.
FromBigEndian(s) == FoldLeft(LAMBDA n, b : n * Base + b, 0, s)

FromLittleEndian(s) ==
  LET low[i \in 0 .. Len(s)] == IF i = 0 THEN 0 ELSE low[i - 1] + s[i] * Weight[i - 1]
  IN  low[Len(s)]
=============================================================================
