-------------------------------- MODULE MCBans --------------------------------
(* A small instance of Accounts: one user, banned and signing in. *)
EXTENDS Accounts, TLC

Symmetry == Permutations(Reqs)
=============================================================================
