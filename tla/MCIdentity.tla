----------------------------- MODULE MCIdentity -----------------------------
(* Instances of Identity for TLC. *)
EXTENDS Identity, TLC

Symmetry == Permutations(Threads) \cup Permutations(Subjects)
              \cup Permutations(Users) \cup Permutations(Invitations)

=============================================================================
