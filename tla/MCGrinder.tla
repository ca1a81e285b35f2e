----------------------------- MODULE MCGrinder -----------------------------
(* Five keys, and 32-byte values beyond the order and the field; case     *)
(* bytes below and above the mask.                                         *)
EXTENDS Grinder

MCBytes32 == {1, 4, 6, 7}
MCCaseBytes == {0, 1, 3}
MCSolvable == {<<1, 1, 0>>, <<1, 2, 1>>, <<2, 1, 1>>}
=============================================================================
