---------------------------- MODULE MCFrameLoop ----------------------------
(* FrameLoop for TLC: resources are interchangeable.                       *)
EXTENDS FrameLoop, TLC

Interchangeable == Permutations(Resources)
=============================================================================
