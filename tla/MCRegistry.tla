----------------------------- MODULE MCRegistry -----------------------------
(* Instances of Registry for TLC: symmetry of the interchangeable values.   *)
EXTENDS Registry, TLC


Symmetric ==
  Permutations(Names) \cup Permutations(Jids) \cup Permutations(Objects)
    \cup Permutations(Callers) \cup Permutations(Notes)
=============================================================================
