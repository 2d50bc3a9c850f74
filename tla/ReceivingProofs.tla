-------------------------- MODULE ReceivingProofs ---------------------------
(***************************************************************************)
(* Proofs about Receiving: registration and confirmation, run together, are *)
(* each what its own module says, and a confirmation promises what is there. *)
(***************************************************************************)
EXTENDS Receiving, PackagesProofs, ReconcileProofs

(* The two columns each component reads are those the other one writes. *)
Views == status = StatusColumn /\ stock = StockOnHand

(* A request that has summed the packages found some, and units never vanish; *)
WeighedHavePackages ==
  \A c \in Client : HasWeighed(c) =>
    \E g \in Barcode : bag[g] # NoBag /\ bag[g].batch = Target[c]

(* what it found is still there, unless a package request has overtaken it.    *)
MeasuredUnlessOvertaken ==
  \A c \in Client : HasWeighed(c) /\ c \notin overtaken =>
    /\ Totals(Target[c]).count > 0
    /\ confirmReq[c].measured = Totals(Target[c]).net

(* The inductive invariant. *)
ReceivingInv ==
  /\ PackagesInv
  /\ ReconcileInv
  /\ Views
  /\ WeighedHavePackages
  /\ MeasuredUnlessOvertaken
  /\ ConfirmedMeasureIsStock

-----------------------------------------------------------------------------
(* The totals of a batch. *)
LEMMA NetOfNothing == NetTotal([g \in {} |-> bag[g].net]) = 0
<1> DEFINE f == [g \in {} |-> bag[g].net]
           Iter(h) == h = [s \in SUBSET {} |->
                             IF s = {} THEN 0
                             ELSE LET x == CHOOSE y \in s : TRUE IN f[x] + h[s \ {x}]]
<1>1. Iter([s \in SUBSET {} |-> 0])
  OBVIOUS
<1>2. Iter(CHOOSE h : Iter(h))
  BY <1>1, Zenon
<1>3. (CHOOSE h : Iter(h))[{}] = 0
  BY <1>2
<1> QED
  BY <1>3 DEF NetTotal, FoldFunction, FoldFunctionOnSet, MapThenFoldSet

LEMMA NetsAreKnown ==
  ASSUME PackagesInv, NEW g \in Barcode, bag[g] # NoBag
  PROVE  bag[g].net \in Net
<1>1. /\ bag[g].gross \in StoredGross /\ bag[g].tare \in TareWeight
      /\ bag[g].gross \in Nat /\ bag[g].tare \in Nat
  BY StoredIsNat, GrossAssumption DEF PackagesInv, PackagesTypeOK, Row
<1>2. bag[g].net = bag[g].gross - bag[g].tare /\ bag[g].net >= 0
  BY DEF PackagesInv, NetIsGrossMinusTare
<1> QED
  BY <1>1, <1>2 DEF Net

LEMMA EmptyTotals ==
  ASSUME NEW b \in Batch, ActiveBags(b) = {}
  PROVE  Totals(b) = [count |-> 0, net |-> 0]
  BY NetOfNothing, FS_EmptySet DEF Totals

LEMMA FullTotals ==
  ASSUME PackagesInv, NEW b \in Batch, ActiveBags(b) # {}
  PROVE  Totals(b).count \in Count \ {0} /\ Totals(b).net \in Weight
<1> DEFINE A == ActiveBags(b)
           net == [g \in A |-> bag[g].net]
<1>1. A \in (SUBSET Barcode) \ {{}} /\ net \in [A -> Net]
  BY NetsAreKnown DEF ActiveBags
<1>2. Cardinality(A) \in Count /\ NetTotal(net) \in Weight
  BY <1>1, StockAssumption
<1>3. Cardinality(A) # 0
  BY <1>1, StockAssumption, FS_Subset, FS_EmptySet
<1>4. Totals(b).count = Cardinality(A) /\ Totals(b).net = NetTotal(net)
  BY DEF Totals
<1> QED
  BY <1>2, <1>3, <1>4

LEMMA TotalsAreStock == PackagesInv => StockOnHand \in [Batch -> Stock]
<1> SUFFICES ASSUME PackagesInv, NEW b \in Batch
             PROVE  Totals(b) \in Stock
  BY DEF StockOnHand
<1>1. CASE ActiveBags(b) = {}
  BY <1>1, EmptyTotals DEF Stock
<1>2. CASE ActiveBags(b) # {}
  <2>1. Totals(b) = [count |-> Totals(b).count, net |-> Totals(b).net]
    BY DEF Totals
  <2> QED
    BY <1>2, <2>1, FullTotals DEF Stock
<1> QED
  BY <1>1, <1>2

(* A batch with a positive count has a unit. *)
LEMMA CountedUnit ==
  ASSUME NEW b \in Batch, Totals(b).count > 0
  PROVE  \E g \in Barcode : bag[g] # NoBag /\ bag[g].batch = b
<1>1. ActiveBags(b) # {}
  BY FS_EmptySet DEF Totals
<1> QED
  BY <1>1 DEF ActiveBags

(* The totals depend on the rows of the batch only. *)
LEMMA TotalsOfRows ==
  ASSUME NEW b \in Batch, RowsOf(b)' = RowsOf(b)
  PROVE  Totals(b)' = Totals(b)
<1>1. \A g \in Barcode :
        \/ bag'[g] = bag[g]
        \/ /\ bag[g] = NoBag \/ bag[g].batch # b
           /\ bag'[g] = NoBag \/ bag'[g].batch # b
  <2> SUFFICES ASSUME NEW g \in Barcode
               PROVE  \/ bag'[g] = bag[g]
                      \/ /\ bag[g] = NoBag \/ bag[g].batch # b
                         /\ bag'[g] = NoBag \/ bag'[g].batch # b
    OBVIOUS
  <2>1. RowsOf(b)'[g] = RowsOf(b)[g]
    OBVIOUS
  <2> QED
    BY <2>1 DEF RowsOf
<1>2. ActiveBags(b)' = ActiveBags(b)
  BY <1>1 DEF ActiveBags
<1>3. \A g \in ActiveBags(b) : bag'[g] = bag[g]
  BY <1>1 DEF ActiveBags
<1>4. [g \in ActiveBags(b) |-> bag[g].net]' = [g \in ActiveBags(b) |-> bag[g].net]
  BY <1>2, <1>3
<1> QED
  BY <1>2, <1>4 DEF Totals

-----------------------------------------------------------------------------
(* A step of registration changes the rows of one batch at most. *)
LEMMA OneBatchTouched ==
  ASSUME PackagesInv, [PackagesNext]_packageVars
  PROVE  \/ UNCHANGED bag
         \/ \E b \in Batch : \A c \in Batch \ {b} : RowsOf(c)' = RowsOf(c)
<1>1. bag \in [Barcode -> Row \cup {NoBag}]
  BY DEF PackagesInv, PackagesTypeOK
<1>2. ASSUME NEW r \in Req, NEW g \in Barcode, bag[g] = NoBag, bagReq[r].pc = "createInsert",
             bag' = [bag EXCEPT ![g] = NewRow(bagReq[r])]
      PROVE  \E b \in Batch : \A c \in Batch \ {b} : RowsOf(c)' = RowsOf(c)
  <2>1. PICK row : row = NewRow(bagReq[r])
    OBVIOUS
  <2>2. row.batch \in Batch
    BY <1>2, <2>1, BagRequestFields DEF PackagesInv, CreatePriced, NewRow
  <2>3. bag'[g] = row /\ \A h \in Barcode \ {g} : bag'[h] = bag[h]
    BY <1>1, <1>2, <2>1
  <2>4. \A c \in Batch \ {row.batch} : RowsOf(c)' = RowsOf(c)
    BY <1>2, <2>3 DEF RowsOf
  <2> QED
    BY <2>2, <2>4
<1>3. ASSUME NEW r \in Req, NEW row \in Row, bag[bagReq[r].code] # NoBag,
             bagReq[r].pc \in {"correctCommit", "voidCommit"},
             bag' = [bag EXCEPT ![bagReq[r].code] = row],
             row.batch = bag[bagReq[r].code].batch
      PROVE  \E b \in Batch : \A c \in Batch \ {b} : RowsOf(c)' = RowsOf(c)
  <2>1. PICK g \in Barcode : g = bagReq[r].code
    BY <1>3, BagRequestFields DEF PackagesInv, CorrectRecorded, VoidRead
  <2>2. row.batch \in Batch
    BY DEF Row
  <2>3. bag'[g] = row /\ \A h \in Barcode \ {g} : bag'[h] = bag[h]
    BY <1>1, <1>3, <2>1
  <2>4. \A c \in Batch \ {row.batch} : RowsOf(c)' = RowsOf(c)
    BY <1>3, <2>1, <2>3 DEF RowsOf
  <2> QED
    BY <2>2, <2>4
<1> QED
  BY <1>2, <1>3, RowsChange

(* To reconciliation it is a change of one batch's stock, or nothing. *)
LEMMA RegistrationChangesStock ==
  ASSUME ReceivingInv, RegisterPackages
  PROVE  [ReconcileNext]_reconcileVars /\ Views'
<1>1. PackagesInv /\ [PackagesNext]_packageVars
  BY DEF ReceivingInv, RegisterPackages, PackagesNext
<1>2. PackagesInv'
  BY <1>1, PackagesNextInv
<1>3. StockOnHand' \in [Batch -> Stock]
  <2>1. (PackagesInv => StockOnHand \in [Batch -> Stock])'
    BY TotalsAreStock, PTL
  <2>2. Stock' = Stock
    BY DEF Stock
  <2> QED
    BY <1>2, <2>1, <2>2
<1>4. stock = StockOnHand /\ stock' = StockOnHand' /\ UNCHANGED confirmVars
  BY DEF ReceivingInv, Views, RegisterPackages
<1>5. status' = StatusColumn'
  <2>1. UNCHANGED status
    BY DEF RegisterPackages, BagStep, CreateLoad, CreatePrice, CreateInsert, CorrectLoad,
           CorrectPrice, CorrectRecord, CorrectCommit, VoidLoad, VoidCommit, AbortBag, UpdatePackagingType
  <2> QED
    BY <1>4, <2>1 DEF ReceivingInv, Views, StatusColumn, confirmVars
<1>6. CASE UNCHANGED bag
  <2>1. StockOnHand' = StockOnHand
    BY <1>6 DEF StockOnHand, Totals, ActiveBags
  <2> QED
    BY <1>4, <1>5, <2>1 DEF reconcileVars, Views
<1>7. ASSUME NEW b \in Batch, \A c \in Batch \ {b} : RowsOf(c)' = RowsOf(c)
      PROVE  ChangeStock(b)
  <2>1. \A c \in Batch \ {b} : Totals(c)' = Totals(c)
    BY <1>7, TotalsOfRows
  <2>2. \A c \in Batch \ {b} : stock'[c] = stock[c]
    BY <1>4, <2>1 DEF StockOnHand
  <2>3. stock \in [Batch -> Stock] /\ stock' \in [Batch -> Stock]
    BY <1>1, <1>3, <1>4, TotalsAreStock
  <2>4. PICK s \in Stock : s = stock'[b]
    BY <2>3
  <2>5. stock' = [stock EXCEPT ![b] = s]
    BY <2>2, <2>3, <2>4
  <2> QED
    BY <1>4, <2>5 DEF ChangeStock
<1> QED
  BY <1>1, <1>4, <1>5, <1>6, <1>7, OneBatchTouched DEF ReconcileNext, Views

-----------------------------------------------------------------------------
(* What a step of reconciliation does to the batches: nothing, or it confirms   *)
(* the batch of one request.                                                 *)
LEMMA OneBatchConfirmed ==
  ASSUME ReconcileInv, ClientStep \/ RegisterStep
  PROVE  \/ UNCHANGED <<batch, disc>>
         \/ \E c \in Client :
              /\ confirmReq[c] \in Anchored /\ Target[c] \in Batch
              /\ batch[Target[c]].status = "PENDING"
              /\ batch' = [batch EXCEPT ![Target[c]] =
                            [status |-> "CONFIRMED", line |-> confirmReq[c].anchor.line,
                             weight |-> Column(confirmReq[c].form.weight)]]
              /\ disc' = [disc EXCEPT ![Target[c]] = DiscrepancyOf(confirmReq[c])]
              /\ confirmReq'[c] = Idle
<1>1. ASSUME NEW c \in Client, Confirm(c), ~UNCHANGED <<batch, disc>>
      PROVE  /\ confirmReq[c] \in Anchored /\ Target[c] \in Batch
             /\ batch[Target[c]].status = "PENDING"
             /\ batch' = [batch EXCEPT ![Target[c]] =
                           [status |-> "CONFIRMED", line |-> confirmReq[c].anchor.line,
                            weight |-> Column(confirmReq[c].form.weight)]]
             /\ disc' = [disc EXCEPT ![Target[c]] = DiscrepancyOf(confirmReq[c])]
             /\ confirmReq'[c] = Idle
  <2>1. confirmReq[c] \in Anchored /\ Target[c] \in Batch
    BY <1>1, RequestFields DEF ReconcileInv, Confirm
  <2>2. confirmReq'[c] = Idle
    BY <1>1 DEF ReconcileInv, ReconcileTypeOK, Confirm, Answer, Becomes
  <2> QED
    BY <1>1, <2>1, <2>2 DEF Confirm, StillPending
<1>2. ~(\E c \in Client : Confirm(c)) => UNCHANGED <<batch, disc>>
  BY DEF ClientStep, RegisterStep, Submit, Weigh, FindLine, CreateReceipt, Abort, RegisterReceipt
<1> QED
  BY <1>1, <1>2

(* A request that has summed the packages did so before, or does so now. *)
LEMMA WeighedNowOrBefore ==
  ASSUME ReconcileInv, ClientStep \/ RegisterStep, NEW c \in Client, HasWeighed(c)'
  PROVE  \/ HasWeighed(c) /\ confirmReq'[c].measured = confirmReq[c].measured
         \/ /\ stock[Target[c]].count > 0
            /\ confirmReq'[c].measured = stock[Target[c]].net
<1> DEFINE Goal == \/ HasWeighed(c) /\ confirmReq'[c].measured = confirmReq[c].measured
                   \/ /\ stock[Target[c]].count > 0
                      /\ confirmReq'[c].measured = stock[Target[c]].net
<1>1. ASSUME NEW d \in Client, NEW q, Becomes(d, q)
      PROVE  /\ confirmReq'[d] = q
             /\ d # c => confirmReq'[c] = confirmReq[c]
  BY <1>1 DEF ReconcileInv, ReconcileTypeOK, Becomes
<1>2. confirmReq'[c] = confirmReq[c] => Goal
  BY DEF HasWeighed
<1>3. ASSUME NEW d \in Client, Answer(d)
      PROVE  Goal
  <2>1. d # c
    BY <1>1, <1>3 DEF Answer, Idle, HasWeighed
  <2> QED
    BY <1>1, <1>2, <1>3, <2>1 DEF Answer
<1>4. ASSUME NEW d \in Client, NEW f \in Form, Submit(d, f)
      PROVE  Goal
  <2>1. CASE Becomes(d, [pc |-> "weigh", form |-> f])
    BY <1>1, <1>2, <2>1 DEF HasWeighed
  <2> QED
    BY <1>3, <1>4, <2>1 DEF Submit
<1>5. ASSUME NEW d \in Client, Weigh(d)
      PROVE  Goal
  <2> DEFINE q == [pc |-> "find", form |-> confirmReq[d].form, measured |-> stock[Target[d]].net]
  <2>1. CASE stock[Target[d]].count > 0 /\ Becomes(d, q)
    BY <1>1, <1>2, <2>1
  <2> QED
    BY <1>3, <1>5, <2>1 DEF Weigh
<1>6. ASSUME NEW d \in Client, NEW q, Becomes(d, q), q.measured = confirmReq[d].measured,
             confirmReq[d].pc \in {"find", "create"}
      PROVE  Goal
  BY <1>1, <1>2, <1>6 DEF HasWeighed
<1>7. ASSUME NEW d \in Client, FindLine(d)
      PROVE  Goal
  <2>1. confirmReq[d] \in Weighed /\ confirmReq[d].pc = "find"
    BY <1>7, RequestFields DEF ReconcileInv, FindLine
  <2>2. [confirmReq[d] EXCEPT !.pc = "create"].measured = confirmReq[d].measured
    BY <2>1 DEF Weighed
  <2> QED
    BY <1>6, <1>7, <2>1, <2>2 DEF FindLine
<1>8. ASSUME NEW d \in Client, NEW l \in Line, NEW x \in Receipt, CreateReceipt(d, l, x)
      PROVE  Goal
  BY <1>6, <1>8 DEF CreateReceipt
<1>9. CASE RegisterStep
  BY <1>2, <1>9 DEF RegisterStep, RegisterReceipt
<1> QED
  BY <1>3, <1>4, <1>5, <1>7, <1>8, <1>9 DEF ClientStep, Confirm, Abort

(* To registration it is the confirmation of a batch with packages, or nothing. *)
LEMMA ReconciliationConfirms ==
  ASSUME ReceivingInv, ReconcileBatches
  PROVE  [PackagesNext]_packageVars /\ Views'
<1>1. /\ ReconcileInv /\ UNCHANGED bagVars
      /\ status = StatusColumn /\ status' = StatusColumn'
  BY DEF ReceivingInv, ReconcileBatches, Views
<1>2. stock' = StockOnHand'
  <2>1. UNCHANGED stock
    BY DEF ReconcileBatches, ClientStep, RegisterStep, Submit, Weigh, FindLine, CreateReceipt,
           Confirm, Abort, RegisterReceipt
  <2>2. StockOnHand' = StockOnHand
    BY <1>1 DEF bagVars, StockOnHand, Totals, ActiveBags
  <2> QED
    BY <2>1, <2>2 DEF ReceivingInv, Views
<1>3. ASSUME NEW c \in Client, confirmReq[c] \in Anchored, Target[c] \in Batch,
             batch[Target[c]].status = "PENDING",
             batch' = [batch EXCEPT ![Target[c]] =
                       [status |-> "CONFIRMED", line |-> confirmReq[c].anchor.line,
                        weight |-> Column(confirmReq[c].form.weight)]]
      PROVE  ConfirmBatch(Target[c])
  <2>1. PICK b \in Batch : b = Target[c]
    BY <1>3
  <2>2. \E g \in Barcode : bag[g] # NoBag /\ bag[g].batch = b
    BY <1>3, <2>1 DEF ReceivingInv, WeighedHavePackages, HasWeighed, Anchored
  <2>3. batch \in [Batch -> BatchRow]
    BY <1>1 DEF ReconcileInv, ReconcileTypeOK
  <2>4. batch'[b].status = "CONFIRMED" /\ \A d \in Batch \ {b} : batch'[d] = batch[d]
    BY <1>3, <2>1, <2>3
  <2>5. status[b] = "PENDING" /\ status' = [status EXCEPT ![b] = "CONFIRMED"]
    BY <1>1, <1>3, <2>1, <2>4 DEF StatusColumn
  <2> QED
    BY <1>1, <2>1, <2>2, <2>5 DEF ConfirmBatch
<1>4. ClientStep \/ RegisterStep
  BY DEF ReconcileBatches
<1>5. UNCHANGED packageVars \/ \E b \in Batch : ConfirmBatch(b)
  <2>1. UNCHANGED <<batch, disc>> => UNCHANGED packageVars
    BY <1>1 DEF packageVars, StatusColumn
  <2>2. CASE ~UNCHANGED <<batch, disc>>
    <3>1. PICK c \in Client :
            /\ confirmReq[c] \in Anchored /\ Target[c] \in Batch
            /\ batch[Target[c]].status = "PENDING"
            /\ batch' = [batch EXCEPT ![Target[c]] =
                          [status |-> "CONFIRMED", line |-> confirmReq[c].anchor.line,
                           weight |-> Column(confirmReq[c].form.weight)]]
      BY <1>1, <1>4, <2>2, OneBatchConfirmed
    <3> QED
      BY <1>3, <3>1
  <2> QED
    BY <2>1, <2>2
<1> QED
  BY <1>1, <1>2, <1>5 DEF PackagesNext, Views

-----------------------------------------------------------------------------
LEMMA ReceivingInitInv == Init => ReceivingInv
<1> SUFFICES ASSUME Init PROVE ReceivingInv
  OBVIOUS
<1>1. PackagesInv /\ ReconcileInv
  BY PackagesInitInv, ReconcileInitInv DEF Init
<1>2. \A b \in Batch : ActiveBags(b) = {}
  BY DEF Init, PackagesInit, BagInit, ActiveBags
<1>3. StockOnHand = [b \in Batch |-> [count |-> 0, net |-> 0]]
  BY <1>2, EmptyTotals DEF StockOnHand
<1>4. Views
  BY <1>3 DEF Init, PackagesInit, ReconcileInit, ConfirmInit, Views, StatusColumn
<1>5. WeighedHavePackages /\ MeasuredUnlessOvertaken /\ ConfirmedMeasureIsStock
  BY DEF Init, ReconcileInit, ConfirmInit, WeighedHavePackages, MeasuredUnlessOvertaken,
         ConfirmedMeasureIsStock, HasWeighed, Confirmed, Idle
<1> QED
  BY <1>1, <1>4, <1>5 DEF ReceivingInv

(* A package request: what it changes, it marks. *)
LEMMA RegisterPackagesInv ==
  ASSUME ReceivingInv, RegisterPackages
  PROVE  ReceivingInv'
<1>1. PackagesInv /\ [PackagesNext]_packageVars
  BY DEF ReceivingInv, RegisterPackages, PackagesNext
<1>2. PackagesInv' /\ ReconcileInv' /\ Views'
  BY <1>1, PackagesNextInv, RegistrationChangesStock, ReconcileNextInv DEF ReceivingInv
<1>3. UNCHANGED <<batch, disc, confirmReq>>
  BY DEF RegisterPackages, confirmVars
<1>4. WeighedHavePackages'
  <2>1. \A g \in Barcode : bag[g] # NoBag => bag'[g] # NoBag /\ bag'[g].batch = bag[g].batch
    BY <1>1, BatchIsFixed
  <2> QED
    BY <1>3, <2>1 DEF ReceivingInv, WeighedHavePackages, HasWeighed
<1>5. ASSUME NEW b \in Batch, RowsOf(b)' = RowsOf(b)
      PROVE  Totals(b)' = Totals(b)
  BY <1>5, TotalsOfRows
<1>6. MeasuredUnlessOvertaken'
  <2> SUFFICES ASSUME NEW c \in Client, HasWeighed(c)', c \notin overtaken'
               PROVE  /\ Totals(Target[c])'.count > 0
                      /\ confirmReq'[c].measured = Totals(Target[c])'.net
    BY DEF MeasuredUnlessOvertaken
  <2>1. HasWeighed(c) /\ c \notin overtaken
    BY <1>3 DEF RegisterPackages, HasWeighed
  <2>2. PICK b \in Batch : b = Target[c]
    BY TargetAssumption
  <2>3. RowsOf(b)' = RowsOf(b)
    BY <2>1, <2>2 DEF RegisterPackages
  <2> QED
    BY <1>3, <1>5, <2>1, <2>2, <2>3 DEF ReceivingInv, MeasuredUnlessOvertaken
<1>7. ConfirmedMeasureIsStock'
  <2> SUFFICES ASSUME NEW b \in Batch, Confirmed(b)', b \notin drifted'
               PROVE  MeasuredIsStock(b)'
    BY DEF ConfirmedMeasureIsStock
  <2>1. Confirmed(b) /\ b \notin drifted
    BY <1>3 DEF RegisterPackages, Confirmed
  <2>2. RowsOf(b)' = RowsOf(b)
    BY <2>1 DEF RegisterPackages
  <2>3. MeasuredIsStock(b)
    BY <2>1 DEF ReceivingInv, ConfirmedMeasureIsStock
  <2> QED
    BY <1>3, <1>5, <2>2, <2>3 DEF MeasuredIsStock
<1> QED
  BY <1>2, <1>4, <1>6, <1>7 DEF ReceivingInv

(* The batch a request confirms now, which no package request has overtaken. *)
LEMMA MeasuredAtConfirmation ==
  ASSUME ReceivingInv, NEW c \in Client, confirmReq[c] \in Anchored, c \notin overtaken,
         NEW b \in Batch, b = Target[c],
         batch'[b].weight = Column(confirmReq[c].form.weight),
         disc'[b] = DiscrepancyOf(confirmReq[c]), UNCHANGED bag
  PROVE  MeasuredIsStock(b)'
<1> DEFINE q == confirmReq[c]
<1>1. Totals(b).count > 0 /\ q.measured = Totals(b).net
  BY DEF ReceivingInv, MeasuredUnlessOvertaken, HasWeighed, Anchored
<1>2. q.measured \in Nat /\ q.form.weight \in Nat
  BY WeightAssumption DEF Anchored, Form
<1>3. Difference(q) = 0 => Column(q.form.weight) = q.measured
  <2>1. ASSUME Difference(q) = 0 PROVE q.form.weight = Exact(q.measured)
    BY <1>2, <2>1 DEF Difference, Exact
  <2> QED
    BY <1>2, <2>1, ColumnOfExact
<1>4. disc'[b] = NULL <=> Difference(q) = 0
  <2>1. Difference(q) # 0 => DiscrepancyOf(q) \in Discrepancy
    <3>1. q.measured \in Weight /\ Column(q.form.weight) \in Nat
      BY <1>2, ColumnOfNat DEF Anchored
    <3>2. Column(Difference(q)) \in Int
      BY <1>2, RoundedDifference DEF Difference
    <3> QED
      BY <3>1, <3>2 DEF DiscrepancyOf, Discrepancy
  <2> QED
    BY <2>1, NullAssumption DEF DiscrepancyOf
<1>5. Difference(q) # 0 => disc'[b].measured = q.measured
  BY DEF DiscrepancyOf
<1>6. Totals(b)' = Totals(b)
  BY DEF Totals, ActiveBags
<1> QED
  BY <1>1, <1>3, <1>4, <1>5, <1>6 DEF MeasuredIsStock

(* A reconcile request: it confirms what it has weighed. *)
LEMMA ReconcileBatchesInv ==
  ASSUME ReceivingInv, ReconcileBatches
  PROVE  ReceivingInv'
<1>1. /\ ReconcileInv
      /\ ClientStep \/ RegisterStep
      /\ UNCHANGED bag /\ drifted \subseteq drifted'
      /\ batch \in [Batch -> BatchRow] /\ disc \in [Batch -> Discrepancy \cup {NULL}]
  BY DEF ReceivingInv, ReconcileBatches, bagVars, ReconcileInv, ReconcileTypeOK
<1>2. PackagesInv' /\ ReconcileInv' /\ Views'
  BY <1>1, ReconciliationConfirms, PackagesNextInv, ReconcileNextInv
     DEF ReceivingInv, ReconcileNext
<1>3. ASSUME NEW b \in Batch
      PROVE  Totals(b)' = Totals(b) /\ stock[b] = Totals(b)
  BY <1>1 DEF Totals, ActiveBags, ReceivingInv, Views, StockOnHand
<1>4. WeighedHavePackages'
  <2> SUFFICES ASSUME NEW c \in Client, HasWeighed(c)'
               PROVE  \E g \in Barcode : bag[g] # NoBag /\ bag[g].batch = Target[c]
    BY <1>1 DEF WeighedHavePackages
  <2>1. CASE HasWeighed(c)
    BY <2>1 DEF ReceivingInv, WeighedHavePackages
  <2>2. CASE stock[Target[c]].count > 0
    BY <1>3, <2>2, CountedUnit, TargetAssumption
  <2> QED
    BY <1>1, <2>1, <2>2, WeighedNowOrBefore
<1>5. MeasuredUnlessOvertaken'
  <2> SUFFICES ASSUME NEW c \in Client, HasWeighed(c)', c \notin overtaken'
               PROVE  /\ Totals(Target[c])'.count > 0
                      /\ confirmReq'[c].measured = Totals(Target[c])'.net
    BY DEF MeasuredUnlessOvertaken
  <2>1. PICK b \in Batch : b = Target[c]
    BY TargetAssumption
  <2>2. c \notin overtaken
    BY DEF ReconcileBatches
  <2>3. CASE HasWeighed(c) /\ confirmReq'[c].measured = confirmReq[c].measured
    BY <1>3, <2>1, <2>2, <2>3 DEF ReceivingInv, MeasuredUnlessOvertaken
  <2>4. CASE stock[b].count > 0 /\ confirmReq'[c].measured = stock[b].net
    BY <1>3, <2>1, <2>4
  <2> QED
    BY <1>1, <2>1, <2>3, <2>4, WeighedNowOrBefore
<1>6. ConfirmedMeasureIsStock'
  <2> SUFFICES ASSUME NEW b \in Batch, Confirmed(b)', b \notin drifted'
               PROVE  MeasuredIsStock(b)'
    BY DEF ConfirmedMeasureIsStock
  <2>1. CASE batch'[b] = batch[b] /\ disc'[b] = disc[b]
    <3>1. MeasuredIsStock(b)
      BY <1>1, <2>1 DEF ReceivingInv, ConfirmedMeasureIsStock, Confirmed
    <3> QED
      BY <1>3, <2>1, <3>1 DEF MeasuredIsStock
  <2>2. ASSUME NEW c \in Client, confirmReq[c] \in Anchored, Target[c] = b,
               batch[b].status = "PENDING", batch'[b].status = "CONFIRMED",
               batch'[b].weight = Column(confirmReq[c].form.weight),
               disc'[b] = DiscrepancyOf(confirmReq[c]), confirmReq'[c] = Idle
        PROVE  MeasuredIsStock(b)'
    <3>1. c \notin overtaken
      <4>1. ~Confirmed(b) /\ Confirmed(b)' /\ ~HasWeighed(c)'
        BY <2>2 DEF Confirmed, HasWeighed, Idle
      <4> QED
        BY <2>2, <4>1 DEF ReconcileBatches
    <3> QED
      BY <1>1, <2>2, <3>1, MeasuredAtConfirmation
  <2>3. ASSUME NEW c \in Client, confirmReq[c] \in Anchored, Target[c] \in Batch,
               batch[Target[c]].status = "PENDING",
               batch' = [batch EXCEPT ![Target[c]] =
                         [status |-> "CONFIRMED", line |-> confirmReq[c].anchor.line,
                          weight |-> Column(confirmReq[c].form.weight)]],
               disc' = [disc EXCEPT ![Target[c]] = DiscrepancyOf(confirmReq[c])],
               confirmReq'[c] = Idle
        PROVE  MeasuredIsStock(b)'
    <3>1. CASE Target[c] = b
      BY <1>1, <2>2, <2>3, <3>1
    <3>2. CASE Target[c] # b
      BY <1>1, <2>1, <2>3, <3>2
    <3> QED
      BY <3>1, <3>2
  <2> QED
    BY <1>1, <2>1, <2>3, OneBatchConfirmed
<1> QED
  BY <1>2, <1>4, <1>5, <1>6 DEF ReceivingInv

LEMMA ReceivingStutter ==
  ASSUME ReceivingInv, UNCHANGED vars
  PROVE  ReceivingInv'
<1>1. UNCHANGED packageVars /\ UNCHANGED reconcileVars /\ UNCHANGED history
  BY DEF vars
<1>2. PackagesInv' /\ ReconcileInv'
  BY <1>1, PackagesNextInv, ReconcileNextInv DEF ReceivingInv
<1>3. \A b \in Batch : Totals(b)' = Totals(b)
  BY <1>1 DEF packageVars, bagVars, Totals, ActiveBags
<1>4. Views'
  BY <1>1, <1>3 DEF ReceivingInv, Views, StatusColumn, StockOnHand, packageVars, reconcileVars,
                    confirmVars
<1>5. WeighedHavePackages'
  BY <1>1 DEF ReceivingInv, WeighedHavePackages, HasWeighed, packageVars, bagVars, reconcileVars,
              confirmVars
<1>6. MeasuredUnlessOvertaken'
  BY <1>1, <1>3, TargetAssumption
     DEF ReceivingInv, MeasuredUnlessOvertaken, HasWeighed, reconcileVars, confirmVars, history
<1>7. ConfirmedMeasureIsStock'
  BY <1>1, <1>3 DEF ReceivingInv, ConfirmedMeasureIsStock, Confirmed, MeasuredIsStock,
                    reconcileVars, confirmVars, history
<1> QED
  BY <1>2, <1>4, <1>5, <1>6, <1>7 DEF ReceivingInv

-----------------------------------------------------------------------------
(* Every step of registration and of reconciliation keeps the invariant. *)
THEOREM ReceivingInvariance == Spec => []ReceivingInv
<1>1. Init => ReceivingInv
  BY ReceivingInitInv
<1>2. ReceivingInv /\ [Next]_vars => ReceivingInv'
  BY RegisterPackagesInv, ReconcileBatchesInv, ReceivingStutter DEF Next
<1> QED
  BY <1>1, <1>2, PTL DEF Spec

(* A confirmed batch has packages, and their net total is what was confirmed,    *)
(* unless a package request still in flight wrote after it was weighed.         *)
THEOREM MeasureCorrect == Spec => []ConfirmedMeasureIsStock
<1>1. ReceivingInv => ConfirmedMeasureIsStock
  BY DEF ReceivingInv
<1> QED
  BY <1>1, ReceivingInvariance, PTL

(* And once those requests have ended, it stays what was confirmed. *)
THEOREM MeasureStays == Spec => MeasuredForGood
<1>1. ASSUME ReceivingInv, [Next]_vars, ReceivingInv'
      PROVE  \A b \in Batch : Drained(b) /\ b \notin drifted =>
               MeasuredIsStock(b)' /\ Drained(b)' /\ b \notin drifted'
  <2> SUFFICES ASSUME NEW b \in Batch, Drained(b), b \notin drifted
               PROVE  MeasuredIsStock(b)' /\ Drained(b)' /\ b \notin drifted'
    OBVIOUS
  <2>1. PackagesInv /\ [PackagesNext]_packageVars
    BY <1>1, ReconciliationConfirms
       DEF ReceivingInv, Next, RegisterPackages, PackagesNext, vars
  <2>2. Drained(b)' /\ RowsOf(b)' = RowsOf(b)
    BY <2>1, DrainedStays
  <2>3. Confirmed(b)
    BY <1>1 DEF ReceivingInv, Views, StatusColumn, Drained, Confirmed
  <2>4. Confirmed(b)'
    BY <1>1, <2>2 DEF ReceivingInv, Views, StatusColumn, Drained, Confirmed
  <2>5. b \notin drifted'
    BY <1>1, <2>2, <2>3 DEF Next, RegisterPackages, ReconcileBatches, vars, history
  <2> QED
    BY <1>1, <2>2, <2>4, <2>5 DEF ReceivingInv, ConfirmedMeasureIsStock
<1> QED
  BY <1>1, ReceivingInvariance, PTL DEF Spec, MeasuredForGood

(* Registration implements Packages: the reconcile requests that run against its  *)
(* tables do to a batch what ConfirmBatch says, to one with packages, or nothing. *)
THEOREM RegistrationImplementsPackages == Spec => PackagesSpec
<1>1. Init => PackagesInit
  BY DEF Init
<1>2. ReceivingInv /\ [Next]_vars => [PackagesNext]_packageVars
  BY ReconciliationConfirms DEF Next, RegisterPackages, PackagesNext, vars
<1> QED
  BY <1>1, <1>2, ReceivingInvariance, PTL DEF Spec, PackagesSpec

(* Reconciliation implements Reconcile: the package requests that run against its *)
(* tables do to a batch's totals what ChangeStock says, or nothing.              *)
THEOREM ConfirmationImplementsReconcile == Spec => ReconcileSpec
<1>1. Init => ReconcileInit
  BY DEF Init
<1>2. ReceivingInv /\ [Next]_vars => [ReconcileNext]_reconcileVars
  BY RegistrationChangesStock DEF Next, ReconcileBatches, ReconcileNext, vars
<1> QED
  BY <1>1, <1>2, ReceivingInvariance, PTL DEF Spec, ReconcileSpec

(* So what was proved of either component alone holds of both together: a         *)
(* confirmation is final, whatever package requests overlap it.                  *)
THEOREM ReceivingFinality == Spec => ConfirmationIsFinal
  BY ConfirmationImplementsReconcile, Finality, PTL

(* The same of registration: with the real confirmations among them, package       *)
(* requests keep net weights and voids right, and trails but for corrections that   *)
(* inserted their rows in one order and updated the unit in the other, and freeze    *)
(* what is confirmed once those under way at the confirmation have ended.          *)
THEOREM ReceivingRegisters ==
  Spec => [](NetIsGrossMinusTare /\ TrailExplainsUnit) /\ VoidIsFinal /\ FreezeHoldsOnceDrained
  BY RegistrationImplementsPackages, NetCorrect, TrailCorrect, VoidForGood, Freeze, PTL

(* And of confirmation: with the real package requests among them, batches, lines,   *)
(* discrepancies, receipts and document metadata are right.                        *)
THEOREM ReceivingConfirms ==
  Spec => /\ [](LinkedIffConfirmed /\ OneBatchPerLine)
          /\ [](DiscrepancyOfTheConfirmation /\ NoDuplicateReceipt)
          /\ OneTripleDocumentKept
  BY ConfirmationImplementsReconcile, Linking, Exclusivity, Discrepancies, Retries,
     Documents, PTL

(* Every reachable state is of the declared types, the history variables included. *)
THEOREM ReceivingTypeCorrect == Spec => []TypeOK
<1> DEFINE HistoryTypes == overtaken \subseteq Client /\ drifted \subseteq Batch
<1>1. Init => HistoryTypes
  BY DEF Init
<1>2. HistoryTypes /\ [Next]_vars => HistoryTypes'
  BY TargetAssumption DEF Next, RegisterPackages, ReconcileBatches, vars, history
<1>3. PackagesInv /\ ReconcileInv /\ HistoryTypes => TypeOK
  BY DEF PackagesInv, ReconcileInv, TypeOK
<1>4. ReceivingInv => PackagesInv /\ ReconcileInv
  BY DEF ReceivingInv
<1> HIDE DEF HistoryTypes
<1> QED
  BY <1>1, <1>2, <1>3, <1>4, ReceivingInvariance, PTL DEF Spec
=============================================================================
