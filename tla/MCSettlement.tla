---------------------------- MODULE MCSettlement ----------------------------
(* Model-checking instance of Settlement: a shortage of three grams and an      *)
(* overage of one, of different suppliers, and a source batch of the first.    *)
EXTENDS Settlement, TLC

CONSTANTS d1, d2, b1, s1, s2

Differences == (d1 :> -3) @@ (d2 :> 1)
Suppliers == (d1 :> s1) @@ (d2 :> s2)
BatchSuppliers == (b1 :> s1)
=============================================================================
