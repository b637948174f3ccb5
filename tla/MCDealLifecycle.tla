---------------------------- MODULE MCDealLifecycle ----------------------------
(* An instance of DealLifecycle for TLC. *)
EXTENDS DealLifecycle, TLC

TaskSymmetry == Permutations(Tasks)
=============================================================================
