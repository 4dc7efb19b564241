------------------------------ MODULE MCChunks ------------------------------
(* Chunks for TLC: fences and workers are interchangeable.                 *)
EXTENDS Chunks

Interchangeable == Permutations(Producers) \cup Permutations(Fences)
=============================================================================
