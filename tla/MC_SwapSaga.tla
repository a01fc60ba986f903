---------------------------- MODULE MC_SwapSaga ----------------------------
(* Instances of SwapSaga for TLC. *)
EXTENDS SwapSaga, TLC

\* Swap uids are interchangeable, and so are the pages.
Symmetry == {p @@ q : p \in Permutations(Swaps), q \in Permutations(Recoverers)}
=============================================================================
