----------------------------- MODULE MCReceiving ----------------------------
(* Model-checking instance of Receiving: one batch with two packages, package  *)
(* requests and two overlapping reconcile requests.                          *)
EXTENDS Receiving, TLC

CONSTANTS b1, k1

OneKey == [b \in Batch |-> k1]
OneSupplier == [k \in Key |-> "supplier"]
AllOnB1 == [c \in Client |-> b1]

Symmetry == Permutations(Req) \cup Permutations(Client)
            \cup Permutations(Barcode) \cup Permutations(Location)
=============================================================================
