--------------------------- MODULE MC_CryptoPayment ---------------------------
(* CryptoPayment: two attempts, in one modal or in two, and one failure. *)
EXTENDS CryptoPayment

=============================================================================
