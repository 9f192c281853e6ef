----------------------------- MODULE MCVouchers -----------------------------
(* Small instances of Vouchers: one merchant owns every offer. *)
EXTENDS Vouchers, TLC

CONSTANT merchant

MCOwner == [o \in Offers |-> merchant]

Symmetry == Permutations(Reqs)
=============================================================================
