--------------------------- MODULE MCSpendLedger ---------------------------
(* Two transactions and three keys, one of them twice as expensive.         *)
EXTENDS SpendLedger, TLC

CONSTANTS c1, c2, k1, k2, k3

MCEstimate == (k1 :> 1) @@ (k2 :> 1) @@ (k3 :> 2)
MCSymmetry == Permutations({c1, c2})
=============================================================================
