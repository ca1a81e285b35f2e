----------------------------- MODULE MCSession -----------------------------
(* 32-bit integers have four values here; the largest id is negative as an *)
(* int of 32 bits.                                                         *)
EXTENDS Session

MCChannelIDs == {0, 1, 3}
=============================================================================
