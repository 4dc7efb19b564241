----------------------------- MODULE MCBuffers -----------------------------
(* Buffers for TLC: storage, names, ranges and contexts are interchangeable. *)
EXTENDS Buffers, TLC

Interchangeable ==
    Permutations(Names) \cup Permutations(Storage) \cup Permutations(Cells)
        \cup Permutations(Contexts)
=============================================================================
