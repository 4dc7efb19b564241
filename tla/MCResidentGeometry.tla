------------------------ MODULE MCResidentGeometry ------------------------
(* ResidentGeometry for TLC: keys, models and revisions are interchangeable. *)
EXTENDS ResidentGeometry, TLC

Interchangeable == Permutations(Keys) \cup Permutations(Models) \cup Permutations(Revisions)
=============================================================================
