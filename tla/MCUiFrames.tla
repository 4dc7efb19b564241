---------------------------- MODULE MCUiFrames ----------------------------
(* UiFrames for TLC: engines are interchangeable. *)
EXTENDS UiFrames, TLC

Interchangeable == Permutations(Engines)
=============================================================================
