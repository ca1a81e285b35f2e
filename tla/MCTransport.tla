---------------------------- MODULE MCTransport ----------------------------
(***************************************************************************)
(* Instances of Transport for TLC.  The sizes are scaled so that a payload *)
(* of one byte has a ciphertext as long as a header's, as a payload of six *)
(* bytes has in the code.  The nonces run out before a header or between a *)
(* header and its payload: the outcomes of the float conversion are both   *)
(* odd and even.                                                           *)
(***************************************************************************)
EXTENDS Transport

\* Nothing, part of a chunk, one chunk, one byte more.
MCLengths == {0, 1, MaxPlaintextChunkSize, MaxPlaintextChunkSize + 1}
MCOutcomes == {4, 5}
=============================================================================
