----------------------------- MODULE MCCostGuard ----------------------------
(* Instances of CostGuard for TLC. *)
EXTENDS CostGuard, TLC

Symmetry == Permutations(Callers) \cup Permutations(Holds)

=============================================================================
