------------------------ MODULE MC_CompositeTtlCache ------------------------
(* CompositeTtlCache on two keys; the clock passes the lifetime of an item. *)
EXTENDS CompositeTtlCache

=============================================================================
