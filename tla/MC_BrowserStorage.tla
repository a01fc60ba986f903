------------------------- MODULE MC_BrowserStorage -------------------------
(* Instances of BrowserStorage for TLC. *)
EXTENDS BrowserStorage, TLC

\* The stores that are not pinned are interchangeable.
Symmetry == {p \in Permutations(Stores) : \A s \in Pinned : p[s] = s}
=============================================================================
