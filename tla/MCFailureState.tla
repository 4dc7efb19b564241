--------------------------- MODULE MCFailureState ---------------------------
(* FailureState for TLC: threads are interchangeable.                      *)
EXTENDS FailureState, TLC

Interchangeable == Permutations(Threads)
=============================================================================
