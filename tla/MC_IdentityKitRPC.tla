------------------------- MODULE MC_IdentityKitRPC -------------------------
(* Instances of IdentityKitRPC for TLC. *)
EXTENDS IdentityKitRPC, TLC

\* Users are interchangeable.
Symmetry == Permutations(Users)
=============================================================================
