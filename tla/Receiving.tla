----------------------------- MODULE Receiving ------------------------------
(***************************************************************************)
(* Registration and confirmation together: the package requests of Packages *)
(* and the reconcile requests of Reconcile run against one database.  The   *)
(* two components meet in two places: a package request reads Batch.status, *)
(* which reconcile writes, and reconcile sums the ACTIVE packages, which    *)
(* package requests write.  Here each reads what the other really does      *)
(* instead of an arbitrary environment: "status" is the column of the Batch *)
(* rows and "stock" the totals of the Bag rows, so no step is left to       *)
(* ConfirmBatch or ChangeStock.                                            *)
(***************************************************************************)
EXTENDS Packages, Reconcile, Functions

VARIABLES
  overtaken, \* clients whose batch had a package written since they weighed it
  drifted    \* confirmed batches with a package written since that weighing

(* History variables: no action reads the last two. *)
history == <<overtaken, drifted>>

vars == <<packageVars, reconcileVars, history>>

-----------------------------------------------------------------------------
NetTotal(net) == FoldFunction(+, 0, net)

(* The measured weight: SUM(netWeight) over the ACTIVE bags of the batch. *)
Totals(b) ==
  [count |-> Cardinality(ActiveBags(b)),
   net   |-> NetTotal([g \in ActiveBags(b) |-> bag[g].net])]

(* The net weights a unit can have. *)
Net == {w - t : w \in StoredGross, t \in TareWeight} \cap Nat

(* Reconcile's bounds leave room for whatever can be registered.              *)
ASSUME StockAssumption ==
  /\ IsFiniteSet(Barcode)
  /\ \A S \in (SUBSET Barcode) \ {{}} :
       /\ Cardinality(S) \in Count
       /\ \A net \in [S -> Net] : NetTotal(net) \in Weight

StatusColumn == [b \in Batch |-> batch[b].status]
StockOnHand == [b \in Batch |-> Totals(b)]

TypeOK ==
  /\ PackagesTypeOK
  /\ ReconcileTypeOK
  /\ overtaken \subseteq Client
  /\ drifted \subseteq Batch

Confirmed(b) == batch[b].status = "CONFIRMED"
HasWeighed(c) == confirmReq[c].pc \in {"find", "create", "confirm"}

Init ==
  /\ PackagesInit
  /\ ReconcileInit
  /\ overtaken = {}
  /\ drifted = {}

(* One step of a package request, or an update of a packaging type. *)
RegisterPackages ==
  /\ BagStep
  /\ UNCHANGED confirmVars
  /\ stock' = StockOnHand'
  /\ LET touched == {b \in Batch : RowsOf(b)' # RowsOf(b)} IN
       /\ overtaken' = overtaken \cup {c \in Client : HasWeighed(c) /\ Target[c] \in touched}
       /\ drifted' = drifted \cup {b \in touched : Confirmed(b)}

(* One step of a reconcile request, or a receipt registered by hand. *)
ReconcileBatches ==
  /\ ClientStep \/ RegisterStep
  /\ UNCHANGED bagVars
  /\ status' = StatusColumn'
  /\ overtaken' = {c \in overtaken : HasWeighed(c)'}
  /\ drifted' = drifted \cup {Target[c] : c \in {d \in overtaken :
                    /\ ~Confirmed(Target[d]) /\ Confirmed(Target[d])'
                    /\ ~HasWeighed(d)'}}

Next == RegisterPackages \/ ReconcileBatches

Spec == Init /\ [][Next]_vars

-----------------------------------------------------------------------------
MeasuredIsStock(b) ==
  /\ Totals(b).count > 0
  /\ Totals(b).net = IF disc[b] = NULL THEN batch[b].weight ELSE disc[b].measured

(* What confirmation promises about the physical stock: the confirmed batch has *)
(* packages, and their net total is the documentary weight when no discrepancy  *)
(* was recorded and the measured weight of the discrepancy otherwise - unless a *)
(* package request that had passed its status check was still in flight and     *)
(* wrote after reconcile had summed the packages.                            *)
ConfirmedMeasureIsStock ==
  \A b \in Batch : Confirmed(b) /\ b \notin drifted => MeasuredIsStock(b)

(* Once the package requests that were in flight at the confirmation have ended, *)
(* and none of them wrote after the weighing, the confirmed measure is the stock *)
(* of the batch for good: no later request of either kind parts them.          *)
MeasuredForGood ==
  [][\A b \in Batch : Drained(b) /\ b \notin drifted =>
       MeasuredIsStock(b)' /\ Drained(b)' /\ b \notin drifted']_vars

(* "Packages may be added, corrected or voided only while PENDING; a CONFIRMED   *)
(* batch is frozen" (batches.md).                                             *)
ConfirmedBatchIsFrozen ==
  [][\A b \in Batch : Confirmed(b) => RowsOf(b)' = RowsOf(b)]_vars

(* Each component behaves here as its own module says on its own - PackagesSpec  *)
(* and ReconcileSpec are properties of Spec - so what holds there holds here:   *)
(* reconcile confirms only a batch with packages, and registration changes the *)
(* stock of a batch in no other way than assumed.                             *)
=============================================================================
