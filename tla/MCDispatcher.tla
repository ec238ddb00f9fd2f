---------------------------- MODULE MCDispatcher ----------------------------
(* Instances of Dispatcher for TLC. *)
EXTENDS Dispatcher, TLC

CONSTANTS k1, k2

\* Event lists: one kind, and a list that holds one empty name.
SomeLists == {{k1}, {Blank}}
=============================================================================
