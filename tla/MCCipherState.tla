--------------------------- MODULE MCCipherState ---------------------------
(***************************************************************************)
(* Instances of CipherState for TLC.  The counter has NonceMod values, and *)
(* maxNoiseNonce the outcomes that the float conversion has on the builds  *)
(* of the Go compiler, scaled: 2^64 - 1, 2^64 - 2 and 2^63 - 1.            *)
(***************************************************************************)
EXTENDS CipherState

MCOutcomes == {NonceMod - 1, NonceMod - 2, NonceMod \div 2 - 1}
=============================================================================
