------------------------------- MODULE MCCalls -------------------------------
(* Small instances of Calls. *)
EXTENDS Calls, TLC

Symmetry == Permutations(Users) \cup Permutations(Reqs)
=============================================================================
