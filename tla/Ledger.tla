------------------------------- MODULE Ledger -------------------------------
(***************************************************************************)
(* What the settlement ledger promises (discrepancies.md, "Balance and      *)
(* status"), with every settlement a single step: the covered weight never  *)
(* exceeds the original one, the status only advances, SETTLED is never     *)
(* claimed before the whole difference is covered, and then for good.       *)
(*                                                                         *)
(* A step may leave a discrepancy PARTIALLY_SETTLED whose rows add up to    *)
(* all of it: see Settlement!StatusFollowsBalance.                          *)
(***************************************************************************)
EXTENDS Weights

CONSTANTS Disc, Difference

VARIABLES
  settled, \* the sum of the entries' coveredWeightKg (grams)
  status   \* ReceivingDiscrepancy.status

vars == <<settled, status>>

Original(d) == Magnitude(Difference[d])

Init ==
  /\ settled = [d \in Disc |-> 0]
  /\ status = [d \in Disc |-> "OPEN"]

Settle(d, w) ==
  /\ status[d] # "SETTLED"
  /\ settled[d] + w <= Original(d)
  /\ settled' = [settled EXCEPT ![d] = @ + w]
  /\ \E s \in {"PARTIALLY_SETTLED", "SETTLED"} :
       /\ s = "SETTLED" => settled'[d] = Original(d)
       /\ status' = [status EXCEPT ![d] = s]

Next == \E d \in Disc : \E w \in 0 .. Original(d) : Settle(d, w)

Spec == Init /\ [][Next]_vars
=============================================================================
