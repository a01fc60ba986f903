----------------------------- MODULE MC_TtlCache -----------------------------
(* One key of balances of two contracts, and the key of the registry.      *)
EXTENDS TtlCache, TLC
CONSTANTS a, b
Interchangeable == Permutations({a, b})
=============================================================================
