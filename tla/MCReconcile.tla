---------------------------- MODULE MCReconcile -----------------------------
(* Model-checking instances of Reconcile: two batches of one triple with one    *)
(* client each, two batches of different goods, and one batch with two clients. *)
EXTENDS Reconcile, TLC

CONSTANTS b1, b2, k1, k2, c1, c2

OneKey == [b \in Batch |-> k1]
TwoKeys == (b1 :> k1) @@ (b2 :> k2)
OneSupplier == [k \in Key |-> "supplier"]
OwnClients == (c1 :> b1) @@ (c2 :> b2)
BothOnB1 == (c1 :> b1) @@ (c2 :> b1)

(* Receipt ids and document numbers are interchangeable, and so are the two     *)
(* batches together with their clients.                                      *)
Symmetry == Permutations(Receipt) \cup Permutations(Numbers)
            \cup {(b1 :> b2) @@ (b2 :> b1) @@ (c1 :> c2) @@ (c2 :> c1)}
ReceiptSymmetry == Permutations(Receipt) \cup Permutations(Numbers)
=============================================================================
