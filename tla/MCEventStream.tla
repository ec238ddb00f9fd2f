--------------------------- MODULE MCEventStream ----------------------------
(* Instances of EventStream for TLC. *)
EXTENDS EventStream, TLC

Symmetric == Permutations(Senders) \cup Permutations(Clients)
=============================================================================
