-------------------------- MODULE MCFamilyContent ---------------------------
(* Instances of FamilyContent for TLC. *)
EXTENDS FamilyContent, TLC

Symmetry == Permutations(Threads) \cup Permutations(Recs) \cup Permutations(Books)

=============================================================================
