------------------------- MODULE MCPromotionLedger -------------------------
(***************************************************************************)
(* PromotionLedger for TLC: nonces and handles are model values.           *)
(***************************************************************************)
EXTENDS PromotionLedger, TLC

CONSTANTS n1, n2, n3

\* No definition tells one nonce from another.
NonceSymmetry == Permutations({n1, n2, n3})

=============================================================================
