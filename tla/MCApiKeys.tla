----------------------------- MODULE MCApiKeys ------------------------------
(* Instances of ApiKeys for TLC. *)
EXTENDS ApiKeys, TLC

Symmetric == Permutations(Threads) \cup Permutations(Keys)
=============================================================================
