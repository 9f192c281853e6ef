---------------------------- MODULE MCAdModeration ----------------------------
(* Small instances of AdModeration. *)
EXTENDS AdModeration, TLC

Symmetry == Permutations(Reporters) \cup Permutations(Reqs) \cup Permutations(Ads)
=============================================================================
