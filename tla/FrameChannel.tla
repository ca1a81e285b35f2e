---------------------------- MODULE FrameChannel ----------------------------
(***************************************************************************)
(* What one direction of an encrypted connection promises: frames come out *)
(* in the order in which they were written, each at most once and none     *)
(* that was not written.  The connection may stop delivering at any point. *)
(***************************************************************************)
EXTENDS Integers, Sequences

CONSTANT Frames     \* the frames that may be written

VARIABLES
  written,     \* every frame handed to the connection, in wire order
  delivered    \* every frame the reader has returned

vars == <<written, delivered>>

Init == written = <<>> /\ delivered = <<>>

Write(f) ==
  /\ written' = Append(written, f)
  /\ UNCHANGED delivered

Deliver ==
  /\ Len(delivered) < Len(written)
  /\ delivered' = Append(delivered, written[Len(delivered) + 1])
  /\ UNCHANGED written

Next == Deliver \/ \E f \in Frames : Write(f)

Spec == Init /\ [][Next]_vars
=============================================================================
