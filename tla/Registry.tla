------------------------------ MODULE Registry ------------------------------
(***************************************************************************)
(* What delivery and batch registration promises (batches.md, "Delivery     *)
(* code, batch code"): the deliveries of a month are numbered 1, 2, ... up  *)
(* to a limit, and the batches of a delivery are a growing sequence of      *)
(* distinct (resource, warehouse) groups, numbered by their place in it.    *)
(***************************************************************************)
EXTENDS Naturals, Sequences

CONSTANTS Month, Group, MaxDelivery, MaxBatch

VARIABLES
  opened, \* how many deliveries a month has
  order   \* the groups of each delivery, in the order of their batch codes

vars == <<opened, order>>

Code == [month: Month, seq: 1 .. MaxDelivery]

Groups(s) == {s[i] : i \in DOMAIN s}

Init ==
  /\ opened = [m \in Month |-> 0]
  /\ order = [d \in Code |-> <<>>]

OpenDelivery(m) ==
  /\ opened[m] < MaxDelivery
  /\ opened' = [opened EXCEPT ![m] = @ + 1]
  /\ UNCHANGED order

OpenBatch(d, g) ==
  /\ d.seq <= opened[d.month]
  /\ Len(order[d]) < MaxBatch
  /\ g \notin Groups(order[d])
  /\ order' = [order EXCEPT ![d] = Append(@, g)]
  /\ UNCHANGED opened

Next ==
  \/ \E m \in Month : OpenDelivery(m)
  \/ \E d \in Code, g \in Group : OpenBatch(d, g)

Spec == Init /\ [][Next]_vars
=============================================================================
