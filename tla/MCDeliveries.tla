---------------------------- MODULE MCDeliveries ----------------------------
(* Model-checking instance of Deliveries. *)
EXTENDS Deliveries, TLC

Symmetry == Permutations(Req) \cup Permutations(Group)

(* Bound: one delivery at a time is filled; batches of two deliveries share no    *)
(* row, constraint or code.                                                   *)
OneFilled ==
  Cardinality({d \in Code : BatchSeqs(d) # {}}
              \cup {req[r].delivery : r \in {q \in Req : req[q].pc \in
                      {"find", "batchCode", "batchInsert", "raced", "replied"}}}) <= 1
=============================================================================
