-------------------------- MODULE ReconcileProofs ---------------------------
(***************************************************************************)
(* Proofs about Reconcile: what a confirmation guarantees, for any number of *)
(* batches, clients, receipts and lines, whatever they race on and wherever *)
(* a request stops.                                                        *)
(***************************************************************************)
EXTENDS Reconcile, FiniteSetTheorems, TLAPS

(* The difference is rounded on its own: away from that of the rounded weights  *)
(* by one gram at most, and upwards.                                         *)
LEMMA RoundedDifference ==
  ASSUME NEW m \in Nat, NEW w \in Nat
  PROVE  /\ Column(w) \in Nat
         /\ Column(Exact(m) - w) \in Int
         /\ Column(Exact(m) - w) - (m - Column(w)) \in {0, 1}
  BY DEF Column, Exact

(* Every line is of a registered receipt, *)
ReceiptsExist == \A l \in Line : line[l] # NULL => doc[line[l].receipt] # NULL

(* and a request about to confirm has a line of its batch's triple: lines and    *)
(* receipts are never deleted.                                               *)
AnchorsExist ==
  \A c \in Client : confirmReq[c].pc = "confirm" =>
    /\ line[confirmReq[c].anchor.line] # NULL
    /\ line[confirmReq[c].anchor.line].key = KeyOf[Target[c]]

(* The inductive invariant. *)
ReconcileInv ==
  /\ ReconcileTypeOK
  /\ ReceiptsExist
  /\ AnchorsExist
  /\ LinkedIffConfirmed
  /\ OneBatchPerLine
  /\ DiscrepancyOfTheConfirmation

LEMMA RequestFields ==
  ASSUME ReconcileTypeOK, NEW c \in Client
  PROVE  /\ confirmReq[c].pc = "weigh" => confirmReq[c] \in Submitted
         /\ confirmReq[c].pc \in {"find", "create"} => confirmReq[c] \in Weighed
         /\ confirmReq[c].pc = "confirm" => confirmReq[c] \in Anchored
         /\ Target[c] \in Batch /\ KeyOf[Target[c]] \in Key
  BY TargetAssumption, KeyAssumption
     DEF ReconcileTypeOK, Request, Submitted, Weighed, Anchored, Idle

LEMMA ReconcileInitInv == ReconcileInit => ReconcileInv
<1> SUFFICES ASSUME ReconcileInit PROVE ReconcileInv
  OBVIOUS
<1>1. ReconcileTypeOK
  BY DEF ReconcileInit, ConfirmInit, ReconcileTypeOK, Stock, BatchRow, Request
<1>2. ReceiptsExist /\ AnchorsExist
  BY DEF ReconcileInit, ConfirmInit, ReceiptsExist, AnchorsExist, Idle
<1>3. LinkedIffConfirmed /\ OneBatchPerLine /\ DiscrepancyOfTheConfirmation
  BY DEF ReconcileInit, ConfirmInit, LinkedIffConfirmed, OneBatchPerLine, DiscrepancyOfTheConfirmation
<1> QED
  BY <1>1, <1>2, <1>3 DEF ReconcileInv

-----------------------------------------------------------------------------
(* A request that only moves on, or ends, writes nothing. *)
LEMMA MoveInv ==
  ASSUME ReconcileInv, NEW c \in Client, NEW q \in Request, Becomes(c, q),
         UNCHANGED <<stock, batch, disc, line, doc, minted>>,
         q.pc = "confirm" => /\ line[q.anchor.line] # NULL
                             /\ line[q.anchor.line].key = KeyOf[Target[c]]
  PROVE  ReconcileInv'
<1>1. ReconcileTypeOK'
  BY DEF ReconcileInv, ReconcileTypeOK, Becomes
<1>2. AnchorsExist'
  BY DEF ReconcileInv, ReconcileTypeOK, AnchorsExist, Becomes
<1>3. ReceiptsExist'
  BY DEF ReconcileInv, ReceiptsExist
<1>4. LinkedIffConfirmed' /\ OneBatchPerLine' /\ DiscrepancyOfTheConfirmation'
  BY DEF ReconcileInv, LinkedIffConfirmed, OneBatchPerLine, DiscrepancyOfTheConfirmation
<1> QED
  BY <1>1, <1>2, <1>3, <1>4 DEF ReconcileInv

LEMMA AnswerInv ==
  ASSUME ReconcileInv, NEW c \in Client, Answer(c), UNCHANGED <<stock, batch, disc, line, doc, minted>>
  PROVE  ReconcileInv'
  BY MoveInv DEF Answer, Request, Idle

LEMMA SubmitInv ==
  ASSUME ReconcileInv, NEW c \in Client, NEW f \in Form, Submit(c, f)
  PROVE  ReconcileInv'
<1>1. [pc |-> "weigh", form |-> f] \in Request
  BY DEF Request, Submitted
<1> QED
  BY <1>1, MoveInv, AnswerInv DEF Submit

LEMMA WeighInv ==
  ASSUME ReconcileInv, NEW c \in Client, Weigh(c)
  PROVE  ReconcileInv'
<1> DEFINE s == stock[Target[c]]
           q == [pc |-> "find", form |-> confirmReq[c].form, measured |-> s.net]
<1>1. ASSUME s.count > 0 PROVE q \in Request
  <2>1. confirmReq[c].form \in Form /\ s \in Stock
    BY RequestFields DEF ReconcileInv, Weigh, Submitted, ReconcileTypeOK
  <2>2. s.net \in Weight
    BY <1>1, <2>1 DEF Stock
  <2> QED
    BY <2>1, <2>2 DEF Request, Weighed
<1> QED
  BY <1>1, MoveInv, AnswerInv DEF Weigh

LEMMA FindLineInv ==
  ASSUME ReconcileInv, NEW c \in Client, FindLine(c)
  PROVE  ReconcileInv'
<1>1. confirmReq[c] \in Weighed
  BY RequestFields DEF ReconcileInv, FindLine
<1>2. ASSUME NEW l \in Compatible(KeyOf[Target[c]])
      PROVE  [pc |-> "confirm", form |-> confirmReq[c].form, measured |-> confirmReq[c].measured,
              anchor |-> AnchorAt(l)] \in Request
  <2>1. line[l] \in LineRow /\ doc[line[l].receipt] \in Doc
    BY <1>2 DEF ReconcileInv, ReconcileTypeOK, ReceiptsExist, Compatible, LineRow
  <2>2. AnchorAt(l) \in Anchor
    BY <1>2, <2>1 DEF AnchorAt, Anchor, Compatible, LineRow, Doc
  <2> QED
    BY <1>1, <2>2 DEF Weighed, Request, Anchored
<1>3. [confirmReq[c] EXCEPT !.pc = "create"] \in Request
  BY <1>1 DEF Weighed, Request
<1>4. CASE Becomes(c, [confirmReq[c] EXCEPT !.pc = "create"])
  BY <1>1, <1>3, <1>4, MoveInv DEF FindLine, Weighed
<1>5. CASE \E l \in Compatible(KeyOf[Target[c]]) :
             Becomes(c, [pc |-> "confirm", form |-> confirmReq[c].form,
                         measured |-> confirmReq[c].measured, anchor |-> AnchorAt(l)])
  BY <1>2, <1>5, MoveInv DEF FindLine, Compatible, AnchorAt
<1> QED
  BY <1>4, <1>5 DEF FindLine

LEMMA CreateReceiptInv ==
  ASSUME ReconcileInv, NEW c \in Client, NEW l \in Line, NEW x \in Receipt, CreateReceipt(c, l, x)
  PROVE  ReconcileInv'
<1> DEFINE row == [key |-> KeyOf[Target[c]], receipt |-> x]
           file == [date |-> confirmReq[c].form.date, number |-> confirmReq[c].form.number]
           q == [pc |-> "confirm", form |-> confirmReq[c].form, measured |-> confirmReq[c].measured,
                 anchor |-> [line |-> l, receipt |-> x, date |-> confirmReq[c].form.date,
                             number |-> confirmReq[c].form.number]]
<1>1. confirmReq[c] \in Weighed /\ confirmReq[c].form \in Form
  BY RequestFields DEF ReconcileInv, CreateReceipt, Weighed
<1>2. row \in LineRow /\ file \in Doc /\ q \in Request
  BY <1>1, RequestFields DEF ReconcileInv, LineRow, Doc, Form, Weighed, Request, Anchored, Anchor
<1>3. /\ line[l] = NULL /\ doc[x] = NULL
      /\ line' = [line EXCEPT ![l] = row]
      /\ doc' = [doc EXCEPT ![x] = file]
      /\ Becomes(c, q)
      /\ minted' = minted \cup {l}
      /\ UNCHANGED <<stock, batch, disc>>
  BY DEF CreateReceipt
<1>4. ReconcileTypeOK'
  BY <1>2, <1>3 DEF ReconcileInv, ReconcileTypeOK, Becomes
<1>5. ReceiptsExist'
  BY <1>2, <1>3, NullAssumption DEF ReconcileInv, ReceiptsExist, ReconcileTypeOK, LineRow
<1>6. \A m \in Line : line[m] # NULL => line'[m] = line[m]
  BY <1>3 DEF ReconcileInv, ReconcileTypeOK
<1>7. AnchorsExist'
  <2>1. line'[l] = row /\ row # NULL
    BY <1>2, <1>3, NullAssumption DEF ReconcileInv, ReconcileTypeOK
  <2>2. ASSUME NEW d \in Client \ {c}, confirmReq'[d].pc = "confirm"
        PROVE  line'[confirmReq'[d].anchor.line] # NULL
               /\ line'[confirmReq'[d].anchor.line].key = KeyOf[Target[d]]
    <3>1. confirmReq'[d] = confirmReq[d] /\ confirmReq[d].anchor.line \in Line
      BY <1>3, <2>2, RequestFields DEF ReconcileInv, ReconcileTypeOK, Becomes, Anchored, Anchor
    <3> QED
      BY <1>6, <2>2, <3>1 DEF ReconcileInv, AnchorsExist
  <2> QED
    BY <1>3, <2>1, <2>2 DEF ReconcileInv, ReconcileTypeOK, AnchorsExist, Becomes
<1>8. LinkedIffConfirmed'
  BY <1>3, <1>6 DEF ReconcileInv, ReconcileTypeOK, BatchRow, LinkedIffConfirmed
<1>9. OneBatchPerLine' /\ DiscrepancyOfTheConfirmation'
  BY <1>3 DEF ReconcileInv, OneBatchPerLine, DiscrepancyOfTheConfirmation
<1> QED
  BY <1>4, <1>5, <1>7, <1>8, <1>9 DEF ReconcileInv

(* The transaction. *)
LEMMA DocAfterType ==
  ASSUME ReconcileTypeOK, NEW q \in Anchored
  PROVE  /\ DocAfter(q) \in [Receipt -> Doc \cup {NULL}]
         /\ \A x \in Receipt : doc[x] # NULL => DocAfter(q)[x] # NULL
<1> DEFINE a == q.anchor
           after == [date |-> OrElse(a.date, q.form.date),
                     number |-> OrElse(a.number, q.form.number)]
<1>1. after \in Doc /\ after # NULL
  BY NullAssumption DEF Anchored, Anchor, Form, OrElse, Doc
<1>2. DocAfter(q) = doc \/ DocAfter(q) = [doc EXCEPT ![a.receipt] = after]
  BY DEF DocAfter
<1> QED
  BY <1>1, <1>2 DEF ReconcileTypeOK

LEMMA ConfirmInv ==
  ASSUME ReconcileInv, NEW c \in Client, Confirm(c)
  PROVE  ReconcileInv'
<1> DEFINE q == confirmReq[c]
           t == Target[c]
           new == [status |-> "CONFIRMED", line |-> q.anchor.line,
                   weight |-> Column(q.form.weight)]
<1>1. q \in Anchored /\ t \in Batch /\ q.pc = "confirm"
  BY RequestFields DEF ReconcileInv, Confirm
<1>2. CASE UNCHANGED <<doc, batch, disc>>
  BY <1>2, AnswerInv DEF Confirm
<1>3. CASE /\ StillPending(t) /\ ~LineTaken(t, q.anchor.line)
           /\ doc' = DocAfter(q)
           /\ batch' = [batch EXCEPT ![t] = new]
           /\ disc' = [disc EXCEPT ![t] = DiscrepancyOf(q)]
  <2>1. /\ q.measured \in Weight /\ q.measured \in Nat
        /\ q.form.weight \in DocWeight /\ q.form.weight \in Nat
        /\ q.anchor.line \in Line
    BY <1>1, WeightAssumption DEF Anchored, Anchor, Form
  <2>2. /\ Column(q.form.weight) \in Nat
        /\ Column(Difference(q)) \in Int
        /\ Column(Difference(q)) - (q.measured - Column(q.form.weight)) \in {0, 1}
    BY <2>1, RoundedDifference DEF Difference
  <2>3. new \in BatchRow
    BY <2>1, <2>2 DEF BatchRow
  <2>4. DiscrepancyOf(q) \in Discrepancy \cup {NULL}
    BY <2>1, <2>2 DEF DiscrepancyOf, Discrepancy
  <2>5. UNCHANGED <<stock, line, minted>> /\ Answer(c)
    BY DEF Confirm
  <2>6. ReconcileTypeOK'
    BY <1>1, <1>3, <2>3, <2>4, <2>5, DocAfterType
      DEF ReconcileInv, ReconcileTypeOK, Answer, Becomes, Request
  <2>7. ReceiptsExist'
    BY <1>1, <1>3, <2>5, DocAfterType DEF ReconcileInv, ReceiptsExist, ReconcileTypeOK, LineRow
  <2>8. AnchorsExist'
    BY <2>5 DEF ReconcileInv, ReconcileTypeOK, AnchorsExist, Answer, Becomes, Idle
  <2>9. /\ batch'[t] = new
        /\ disc'[t] = DiscrepancyOf(q)
        /\ \A b \in Batch \ {t} : batch'[b] = batch[b] /\ disc'[b] = disc[b]
    BY <1>1, <1>3 DEF ReconcileInv, ReconcileTypeOK
  <2>10. LinkedIffConfirmed'
    <3>1. line[q.anchor.line] # NULL /\ line[q.anchor.line].key = KeyOf[t]
      BY <1>1 DEF ReconcileInv, AnchorsExist
    <3>2. new.line # NULL /\ new.weight # NULL
      BY <2>1, <2>2, NullAssumption
    <3> QED
      BY <2>5, <2>9, <3>1, <3>2 DEF ReconcileInv, LinkedIffConfirmed
  <2>11. OneBatchPerLine'
    <3>1. \A b \in Batch \ {t} : batch[b].line # q.anchor.line
      BY <1>3 DEF LineTaken
    <3> QED
      BY <2>9, <3>1 DEF ReconcileInv, OneBatchPerLine
  <2>12. DiscrepancyOfTheConfirmation'
    <3>1. DiscrepancyOf(q) # NULL =>
            /\ DiscrepancyOf(q).document = new.weight
            /\ DiscrepancyOf(q).difference - (DiscrepancyOf(q).measured - new.weight)
                 \in {0, 1}
      BY <2>2 DEF DiscrepancyOf
    <3> QED
      BY <2>9, <3>1 DEF ReconcileInv, DiscrepancyOfTheConfirmation
  <2> QED
    BY <2>6, <2>7, <2>8, <2>10, <2>11, <2>12 DEF ReconcileInv
<1> QED
  BY <1>2, <1>3 DEF Confirm

-----------------------------------------------------------------------------
LEMMA RegisterReceiptInv ==
  ASSUME ReconcileInv, NEW x \in Receipt, NEW ls \in SUBSET Line, NEW k \in [ls -> Key],
         RegisterReceipt(x, ls, k)
  PROVE  ReconcileInv'
<1> DEFINE blank == [date |-> NULL, number |-> NULL]
<1>1. /\ doc' = [doc EXCEPT ![x] = blank]
      /\ line' = [l \in Line |-> IF l \in ls THEN [key |-> k[l], receipt |-> x] ELSE line[l]]
      /\ UNCHANGED <<stock, batch, disc, minted, confirmReq>>
      /\ \A l \in ls : line[l] = NULL
  BY DEF RegisterReceipt
<1>2. \A l \in ls : [key |-> k[l], receipt |-> x] \in LineRow
  BY DEF LineRow
<1>3. blank \in Doc
  BY DEF Doc
<1>4. ReconcileTypeOK'
  BY <1>1, <1>2, <1>3 DEF ReconcileInv, ReconcileTypeOK
<1>5. \A m \in Line : line[m] # NULL => line'[m] = line[m]
  BY <1>1
<1>6. ReceiptsExist'
  BY <1>1, <1>2, <1>3, NullAssumption DEF ReconcileInv, ReceiptsExist, ReconcileTypeOK, LineRow
<1>7. AnchorsExist'
  <2>1. ASSUME NEW d \in Client, confirmReq[d].pc = "confirm" PROVE confirmReq[d].anchor.line \in Line
    BY <2>1, RequestFields DEF ReconcileInv, Anchored, Anchor
  <2> QED
    BY <1>1, <1>5, <2>1 DEF ReconcileInv, AnchorsExist
<1>8. LinkedIffConfirmed'
  BY <1>1, <1>5 DEF ReconcileInv, ReconcileTypeOK, BatchRow, LinkedIffConfirmed
<1>9. OneBatchPerLine' /\ DiscrepancyOfTheConfirmation'
  BY <1>1 DEF ReconcileInv, OneBatchPerLine, DiscrepancyOfTheConfirmation
<1> QED
  BY <1>4, <1>6, <1>7, <1>8, <1>9 DEF ReconcileInv

(* The steps of other components, and no step at all. *)
LEMMA StockInv ==
  ASSUME ReconcileInv, UNCHANGED confirmVars, stock' \in [Batch -> Stock]
  PROVE  ReconcileInv'
  BY DEF ReconcileInv, ReconcileTypeOK, ReceiptsExist, AnchorsExist, LinkedIffConfirmed, OneBatchPerLine,
         DiscrepancyOfTheConfirmation, confirmVars

LEMMA ReconcileNextInv ==
  ASSUME ReconcileInv, [ReconcileNext]_reconcileVars
  PROVE  ReconcileInv'
<1>1. ASSUME NEW c \in Client, NEW f \in Form, Submit(c, f) PROVE ReconcileInv'
  BY <1>1, SubmitInv
<1>2. ASSUME NEW c \in Client, Weigh(c) PROVE ReconcileInv'
  BY <1>2, WeighInv
<1>3. ASSUME NEW c \in Client, FindLine(c) PROVE ReconcileInv'
  BY <1>3, FindLineInv
<1>4. ASSUME NEW c \in Client, NEW l \in Line, NEW x \in Receipt, CreateReceipt(c, l, x)
      PROVE  ReconcileInv'
  BY <1>4, CreateReceiptInv
<1>5. ASSUME NEW c \in Client, Confirm(c) PROVE ReconcileInv'
  BY <1>5, ConfirmInv
<1>6. ASSUME NEW c \in Client, Abort(c) PROVE ReconcileInv'
  BY <1>6, AnswerInv DEF Abort
<1>7. ASSUME RegisterStep PROVE ReconcileInv'
  BY <1>7, RegisterReceiptInv DEF RegisterStep
<1>8. ASSUME NEW b \in Batch, ChangeStock(b) PROVE ReconcileInv'
  BY <1>8, StockInv DEF ChangeStock, ReconcileInv, ReconcileTypeOK
<1>9. CASE UNCHANGED reconcileVars
  BY <1>9, StockInv DEF reconcileVars, ReconcileInv, ReconcileTypeOK
<1> QED
  BY <1>1, <1>2, <1>3, <1>4, <1>5, <1>6, <1>7, <1>8, <1>9 DEF ReconcileNext, ClientStep

-----------------------------------------------------------------------------
(* Retries.  The batches of a triple for which a client found no line to take   *)
(* and is about to create one.                                               *)
Creating(k) == {b \in BatchesOf(k) : \E c \in Client : Target[c] = b /\ confirmReq[c].pc = "create"}

(* Created lines exist. *)
MintedExist == IsFiniteSet(minted) /\ \A l \in minted : line[l] # NULL

(* Where each batch has one client, a request in flight is for a pending batch. *)
PendingInFlight ==
  \A k \in Key : Exclusive(k) =>
    \A c \in Client : KeyOf[Target[c]] = k /\ confirmReq[c].pc # "idle" =>
      batch[Target[c]].status = "PENDING"

(* NoDuplicateReceipt, with the lines that are about to be created: only in this *)
(* form is it inductive.                                                     *)
RoomToCreate ==
  \A k \in Key : Exclusive(k) =>
    Cardinality(Minted(k)) + Cardinality(Creating(k)) <= Cardinality(BatchesOf(k))

RetryInv == MintedExist /\ PendingInFlight /\ RoomToCreate

LEMMA FiniteParts ==
  ASSUME IsFiniteSet(minted), NEW k
  PROVE  /\ IsFiniteSet(BatchesOf(k)) /\ Cardinality(BatchesOf(k)) \in Nat
         /\ IsFiniteSet(Creating(k)) /\ Cardinality(Creating(k)) \in Nat
         /\ IsFiniteSet(Minted(k)) /\ Cardinality(Minted(k)) \in Nat
<1>1. BatchesOf(k) \in SUBSET Batch /\ Creating(k) \in SUBSET Batch /\ Minted(k) \in SUBSET minted
  BY DEF BatchesOf, Creating, Minted
<1> QED
  BY <1>1, BatchAssumption, FS_Subset, FS_CardinalityType

LEMMA InitRetry == ReconcileInit => RetryInv
<1> SUFFICES ASSUME ReconcileInit PROVE RetryInv
  OBVIOUS
<1>1. minted = {} /\ \A c \in Client : confirmReq[c] = Idle
  BY DEF ReconcileInit, ConfirmInit
<1>2. MintedExist
  BY <1>1, FS_EmptySet DEF MintedExist
<1>3. PendingInFlight
  BY <1>1 DEF PendingInFlight, Idle
<1>4. ASSUME NEW k \in Key
      PROVE  Cardinality(Minted(k)) + Cardinality(Creating(k)) <= Cardinality(BatchesOf(k))
  <2>1. Minted(k) = {} /\ Creating(k) = {}
    BY <1>1 DEF Minted, Creating, Idle
  <2> QED
    BY <1>2, <2>1, FiniteParts, FS_EmptySet DEF MintedExist
<1> QED
  BY <1>2, <1>3, <1>4 DEF RetryInv, RoomToCreate

(* The steps that create no line and send no request on to create one. *)
LEMMA RetryFrame ==
  ASSUME ReconcileTypeOK, RetryInv, minted' = minted,
         \A l \in Line : line[l] # NULL => line'[l] = line[l],
         \A c \in Client : confirmReq'[c].pc = "create" => confirmReq[c].pc = "create",
         PendingInFlight'
  PROVE  RetryInv'
<1>1. MintedExist'
  BY DEF RetryInv, MintedExist, ReconcileTypeOK
<1>2. ASSUME NEW k \in Key, Exclusive(k)
      PROVE  Cardinality(Minted(k)') + Cardinality(Creating(k)') <= Cardinality(BatchesOf(k))
  <2>1. Minted(k)' = Minted(k)
    BY DEF Minted, RetryInv, MintedExist, ReconcileTypeOK
  <2>2. Creating(k)' \in SUBSET Creating(k)
    BY DEF Creating
  <2>3. /\ Cardinality(Creating(k)') <= Cardinality(Creating(k))
        /\ Cardinality(Creating(k)') \in Nat
    BY <2>2, FiniteParts, FS_Subset, FS_CardinalityType DEF RetryInv, MintedExist
  <2> QED
    BY <1>2, <2>1, <2>3, FiniteParts DEF RetryInv, MintedExist, RoomToCreate
<1>3. RoomToCreate'
  BY <1>2 DEF RoomToCreate, Exclusive, BatchesOf
<1> QED
  BY <1>1, <1>3 DEF RetryInv

(* A request that moves on keeps its batch pending, and an answered one is gone. *)
LEMMA MovePending ==
  ASSUME ReconcileTypeOK, RetryInv, NEW c \in Client, NEW q, Becomes(c, q),
         \/ batch' = batch
         \/ q = Idle /\ \A b \in Batch \ {Target[c]} : batch'[b] = batch[b],
         q.pc = "idle" \/ confirmReq[c].pc # "idle" \/ batch[Target[c]].status = "PENDING"
  PROVE  PendingInFlight'
<1> SUFFICES ASSUME NEW k \in Key, Exclusive(k), NEW d \in Client, KeyOf[Target[d]] = k,
                    confirmReq'[d].pc # "idle"
             PROVE  batch'[Target[d]].status = "PENDING"
  BY DEF PendingInFlight, Exclusive
<1>1. Target[d] \in Batch
  BY TargetAssumption
<1>2. CASE d = c
  BY <1>1, <1>2 DEF ReconcileTypeOK, Becomes, Idle, RetryInv, PendingInFlight
<1>3. CASE d # c
  <2>1. confirmReq'[d] = confirmReq[d]
    BY <1>3 DEF ReconcileTypeOK, Becomes
  <2>2. batch[Target[d]].status = "PENDING"
    BY <2>1 DEF RetryInv, PendingInFlight
  <2>3. Target[d] # Target[c]
    BY <1>3 DEF Exclusive
  <2> QED
    BY <1>1, <2>2, <2>3
<1> QED
  BY <1>2, <1>3

(* A request that finds no line to take: every line created for its triple is   *)
(* linked, each to a batch of its own, and a batch with a line is not pending.  *)
LEMMA FindNoneRetry ==
  ASSUME ReconcileInv, RetryInv, NEW c \in Client, confirmReq[c].pc = "find",
         Compatible(KeyOf[Target[c]]) = {}, Becomes(c, [confirmReq[c] EXCEPT !.pc = "create"]),
         UNCHANGED <<stock, batch, disc, line, doc, minted>>
  PROVE  RetryInv'
<1>0. confirmReq[c] \in Weighed /\ KeyOf[Target[c]] \in Key /\ Target[c] \in Batch
  BY RequestFields DEF ReconcileInv
<1>1. PendingInFlight'
  BY MovePending DEF ReconcileInv
<1>2. MintedExist'
  BY DEF RetryInv, MintedExist
<1>3. ASSUME NEW k \in Key, Exclusive(k)
      PROVE  Cardinality(Minted(k)') + Cardinality(Creating(k)') <= Cardinality(BatchesOf(k))
  <2>1. Minted(k)' = Minted(k)
    BY DEF Minted
  <2>2. \A d \in Client \ {c} : confirmReq'[d] = confirmReq[d]
    BY DEF ReconcileInv, ReconcileTypeOK, Becomes
  <2>3. CASE KeyOf[Target[c]] # k
    <3>1. Creating(k)' \in SUBSET Creating(k)
      BY <2>2, <2>3 DEF Creating, BatchesOf
    <3>2. /\ Cardinality(Creating(k)') <= Cardinality(Creating(k))
          /\ Cardinality(Creating(k)') \in Nat
      BY <3>1, FiniteParts, FS_Subset, FS_CardinalityType DEF RetryInv, MintedExist
    <3> QED
      BY <1>3, <2>1, <3>2, FiniteParts DEF RetryInv, MintedExist, RoomToCreate
  <2>4. CASE KeyOf[Target[c]] = k
    <3> DEFINE Used == {b \in BatchesOf(k) : batch[b].line # NULL}
               f == [l \in Minted(k) |-> CHOOSE b \in Used : batch[b].line = l]
    <3>1. \A l \in Minted(k) : \E b \in Used : batch[b].line = l
      <4> SUFFICES ASSUME NEW l \in Minted(k) PROVE \E b \in Used : batch[b].line = l
        OBVIOUS
      <4>1. l \in Line /\ line[l] # NULL /\ line[l].key = k
        BY DEF Minted, RetryInv, MintedExist, ReconcileInv, ReconcileTypeOK
      <4>2. PICK b \in Batch : batch[b].line = l
        BY <2>4, <4>1 DEF Compatible, Linked
      <4>3. batch[b].line # NULL /\ KeyOf[b] = k
        BY <4>1, <4>2, NullAssumption DEF ReconcileInv, LinkedIffConfirmed
      <4> QED
        BY <4>2, <4>3 DEF BatchesOf
    <3>2. f \in Injection(Minted(k), Used)
      BY <3>1 DEF Injection, IsInjective
    <3>3. Used \in SUBSET BatchesOf(k) /\ Creating(k)' \in SUBSET BatchesOf(k)
      BY DEF Creating, BatchesOf
    <3>4. /\ IsFiniteSet(Used) /\ Cardinality(Used) \in Nat
          /\ IsFiniteSet(Creating(k)') /\ Cardinality(Creating(k)') \in Nat
      BY <3>3, FiniteParts, FS_Subset, FS_CardinalityType DEF RetryInv, MintedExist
    <3>5. Cardinality(Minted(k)) <= Cardinality(Used)
      BY <3>2, <3>4, FS_Injection
    <3>6. Used \cap Creating(k)' = {}
      <4>1. ASSUME NEW b \in Creating(k)' PROVE batch[b].line = NULL
        <5>1. PICK d \in Client : Target[d] = b /\ confirmReq'[d].pc = "create"
          BY DEF Creating
        <5>2. batch'[b].status = "PENDING" /\ b \in Batch
          BY <1>1, <1>3, <4>1, <5>1 DEF PendingInFlight, Creating, BatchesOf, Exclusive
        <5> QED
          BY <5>2 DEF ReconcileInv, LinkedIffConfirmed
      <4> QED
        BY <4>1
    <3>7. Used \cup Creating(k)' \in SUBSET BatchesOf(k)
      BY <3>3
    <3> HIDE DEF Used, f
    <3>8. Cardinality(Used) + Cardinality(Creating(k)') = Cardinality(Used \cup Creating(k)')
      <4>1. Cardinality(Used \cap Creating(k)') = 0
        BY <3>6, FS_EmptySet
      <4>2. Cardinality(Used \cup Creating(k)')
              = Cardinality(Used) + Cardinality(Creating(k)') - Cardinality(Used \cap Creating(k)')
        BY <3>4, FS_Union
      <4> QED
        BY <3>4, <4>1, <4>2
    <3>9. Cardinality(Used \cup Creating(k)') <= Cardinality(BatchesOf(k))
      BY <3>7, FiniteParts, FS_Subset DEF RetryInv, MintedExist
    <3> QED
      BY <2>1, <3>4, <3>5, <3>8, <3>9, FiniteParts DEF RetryInv, MintedExist
  <2> QED
    BY <2>3, <2>4
<1>4. RoomToCreate'
  BY <1>3 DEF RoomToCreate, Exclusive, BatchesOf
<1> QED
  BY <1>1, <1>2, <1>4 DEF RetryInv

(* A created line takes the place of a batch that was about to get one. *)
LEMMA CreateReceiptRetry ==
  ASSUME ReconcileInv, RetryInv, NEW c \in Client, NEW l \in Line, NEW x \in Receipt,
         CreateReceipt(c, l, x)
  PROVE  RetryInv'
<1> DEFINE row == [key |-> KeyOf[Target[c]], receipt |-> x]
           q == [pc |-> "confirm", form |-> confirmReq[c].form, measured |-> confirmReq[c].measured,
                 anchor |-> [line |-> l, receipt |-> x, date |-> confirmReq[c].form.date,
                             number |-> confirmReq[c].form.number]]
<1>1. /\ confirmReq[c].pc = "create" /\ line[l] = NULL
      /\ line' = [line EXCEPT ![l] = row]
      /\ Becomes(c, q)
      /\ minted' = minted \cup {l}
      /\ UNCHANGED <<stock, batch, disc>>
  BY DEF CreateReceipt
<1>2. /\ line'[l] = row /\ row # NULL /\ l \notin minted
      /\ \A m \in minted : line'[m] = line[m] /\ line[m] # NULL
  <2>1. row \in LineRow
    BY RequestFields DEF ReconcileInv, LineRow
  <2> QED
    BY <1>1, <2>1, NullAssumption DEF ReconcileInv, ReconcileTypeOK, RetryInv, MintedExist
<1>3. MintedExist'
  BY <1>1, <1>2, FS_AddElement DEF RetryInv, MintedExist
<1>4. PendingInFlight'
  BY <1>1, MovePending DEF ReconcileInv
<1>5. /\ confirmReq'[c] = q
      /\ \A d \in Client \ {c} : confirmReq'[d] = confirmReq[d]
  BY <1>1 DEF ReconcileInv, ReconcileTypeOK, Becomes
<1>6. ASSUME NEW k \in Key, Exclusive(k)
      PROVE  Cardinality(Minted(k)') + Cardinality(Creating(k)') <= Cardinality(BatchesOf(k))
  <2>1. Creating(k)' \in SUBSET Creating(k)
    BY <1>5 DEF Creating
  <2>2. /\ Cardinality(Creating(k)') <= Cardinality(Creating(k))
        /\ Cardinality(Creating(k)') \in Nat
    BY <2>1, FiniteParts, FS_Subset, FS_CardinalityType DEF RetryInv, MintedExist
  <2>3. CASE KeyOf[Target[c]] # k
    <3>1. Minted(k)' = Minted(k)
      BY <1>1, <1>2, <2>3 DEF Minted
    <3> QED
      BY <1>6, <2>2, <3>1, FiniteParts DEF RetryInv, MintedExist, RoomToCreate
  <2>4. CASE KeyOf[Target[c]] = k
    <3>1. Minted(k)' = Minted(k) \cup {l} /\ l \notin Minted(k)
      BY <1>1, <1>2, <2>4 DEF Minted
    <3>2. Cardinality(Minted(k)') = Cardinality(Minted(k)) + 1
      BY <3>1, FiniteParts, FS_AddElement DEF RetryInv, MintedExist
    <3>3. Target[c] \in Creating(k)
      BY <1>1, <2>4, RequestFields DEF ReconcileInv, Creating, BatchesOf
    <3>4. Target[c] \notin Creating(k)'
      <4>1. ASSUME NEW d \in Client, Target[d] = Target[c], confirmReq'[d].pc = "create"
            PROVE  FALSE
        <5>1. d = c
          BY <1>6, <2>4, <4>1 DEF Exclusive
        <5> QED
          BY <1>5, <4>1, <5>1
      <4> QED
        BY <4>1 DEF Creating
    <3>5. Cardinality(Creating(k)') # Cardinality(Creating(k))
      BY <2>1, <3>3, <3>4, FiniteParts, FS_Subset DEF RetryInv, MintedExist
    <3> QED
      BY <1>6, <2>2, <3>2, <3>5, FiniteParts DEF RetryInv, MintedExist, RoomToCreate
  <2> QED
    BY <2>3, <2>4
<1>7. RoomToCreate'
  BY <1>6 DEF RoomToCreate, Exclusive, BatchesOf
<1> QED
  BY <1>3, <1>4, <1>7 DEF RetryInv

LEMMA NextRetry ==
  ASSUME ReconcileInv, RetryInv, [ReconcileNext]_reconcileVars
  PROVE  RetryInv'
<1>1. ASSUME NEW c \in Client, NEW q, Becomes(c, q), q.pc # "create",
             q.pc = "idle" \/ confirmReq[c].pc # "idle" \/ batch[Target[c]].status = "PENDING",
             \/ batch' = batch
             \/ q = Idle /\ \A b \in Batch \ {Target[c]} : batch'[b] = batch[b],
             UNCHANGED <<line, minted>>
      PROVE  RetryInv'
  <2>1. PendingInFlight'
    BY <1>1, MovePending DEF ReconcileInv
  <2>2. \A d \in Client : confirmReq'[d].pc = "create" => confirmReq[d].pc = "create"
    BY <1>1 DEF ReconcileInv, ReconcileTypeOK, Becomes
  <2> QED
    BY <1>1, <2>1, <2>2, RetryFrame DEF ReconcileInv
<1>2. ASSUME NEW c \in Client, Answer(c), UNCHANGED <<batch, line, minted>> PROVE RetryInv'
  BY <1>1, <1>2 DEF Answer, Idle
<1>3. ASSUME NEW c \in Client, NEW f \in Form, Submit(c, f) PROVE RetryInv'
  BY <1>1, <1>2, <1>3 DEF Submit
<1>4. ASSUME NEW c \in Client, Weigh(c) PROVE RetryInv'
  BY <1>1, <1>2, <1>4 DEF Weigh
<1>5. ASSUME NEW c \in Client, FindLine(c) PROVE RetryInv'
  BY <1>1, <1>5, FindNoneRetry DEF FindLine
<1>6. ASSUME NEW c \in Client, NEW l \in Line, NEW x \in Receipt, CreateReceipt(c, l, x)
      PROVE  RetryInv'
  BY <1>6, CreateReceiptRetry
<1>7. ASSUME NEW c \in Client, Confirm(c) PROVE RetryInv'
  <2>1. \A b \in Batch \ {Target[c]} : batch'[b] = batch[b]
    BY <1>7 DEF Confirm, ReconcileInv, ReconcileTypeOK
  <2> QED
    BY <1>1, <1>7, <2>1 DEF Confirm, Answer, Idle
<1>8. ASSUME NEW c \in Client, Abort(c) PROVE RetryInv'
  BY <1>2, <1>8 DEF Abort
<1>9. ASSUME UNCHANGED <<batch, minted, confirmReq>>,
             \A l \in Line : line[l] # NULL => line'[l] = line[l]
      PROVE  RetryInv'
  BY <1>9, RetryFrame DEF ReconcileInv, RetryInv, PendingInFlight, Exclusive
<1>10. ASSUME RegisterStep PROVE RetryInv'
  BY <1>9, <1>10 DEF RegisterStep, RegisterReceipt
<1>11. ASSUME NEW b \in Batch, ChangeStock(b) PROVE RetryInv'
  BY <1>9, <1>11 DEF ChangeStock, confirmVars
<1>12. CASE UNCHANGED reconcileVars
  BY <1>9, <1>12 DEF reconcileVars, confirmVars
<1> QED
  BY <1>3, <1>4, <1>5, <1>6, <1>7, <1>8, <1>10, <1>11, <1>12 DEF ReconcileNext, ClientStep

-----------------------------------------------------------------------------
(* Document metadata.  While every line of the receipt is of one triple, an       *)
(* anchor is the receipt's greatest line that is not linked, and until it is      *)
(* linked itself what was read of the receipt is still what is stored.           *)
Fresh(a) ==
  /\ line[a.line].receipt = a.receipt
  /\ OneTriple(a.receipt) =>
       /\ \A l \in LinesOf(a.receipt) : l > a.line => Linked(l)
       /\ ~Linked(a.line) => doc[a.receipt] = [date |-> a.date, number |-> a.number]

FreshReading ==
  \A c \in Client, a \in Anchor : confirmReq[c].pc = "confirm" /\ confirmReq[c].anchor = a => Fresh(a)

(* Receipts are registered with all their lines, so those an anchor can be of     *)
(* get no line afterwards.                                                     *)
LEMMA FreshFrame ==
  ASSUME ReconcileInv, NEW a \in Anchor, Fresh(a), line[a.line] # NULL, batch' = batch,
         \A l \in Line : line[l] # NULL => line'[l] = line[l],
         \A l \in Line : line[l] = NULL /\ line'[l] # NULL => doc[line'[l].receipt] = NULL,
         \A x \in Receipt : doc[x] # NULL => doc'[x] = doc[x]
  PROVE  Fresh(a)'
<1>1. a.line \in Line /\ a.receipt \in Receipt
  BY DEF Anchor
<1>2. doc[a.receipt] # NULL /\ line'[a.line] = line[a.line]
  BY <1>1 DEF ReconcileInv, ReceiptsExist, Fresh
<1>3. LinesOf(a.receipt)' = LinesOf(a.receipt)
  BY <1>2 DEF LinesOf
<1>4. OneTriple(a.receipt)' <=> OneTriple(a.receipt)
  BY <1>3 DEF OneTriple, LinesOf
<1>5. \A l \in Line : Linked(l)' <=> Linked(l)
  BY DEF Linked
<1>6. doc'[a.receipt] = doc[a.receipt]
  BY <1>1, <1>2
<1> QED
  BY <1>1, <1>2, <1>3, <1>4, <1>5, <1>6 DEF Fresh, LinesOf

LEMMA ReadingFrame ==
  ASSUME ReconcileInv, FreshReading, batch' = batch,
         \A l \in Line : line[l] # NULL => line'[l] = line[l],
         \A l \in Line : line[l] = NULL /\ line'[l] # NULL => doc[line'[l].receipt] = NULL,
         \A x \in Receipt : doc[x] # NULL => doc'[x] = doc[x],
         \A c \in Client, a \in Anchor :
           confirmReq'[c].pc = "confirm" /\ confirmReq'[c].anchor = a => confirmReq'[c] = confirmReq[c] \/ Fresh(a)'
  PROVE  FreshReading'
<1> SUFFICES ASSUME NEW c \in Client, NEW a \in Anchor, confirmReq'[c].pc = "confirm",
                    confirmReq'[c].anchor = a
             PROVE  Fresh(a)'
  BY DEF FreshReading
<1>1. CASE confirmReq'[c] = confirmReq[c]
  <2>1. Fresh(a) /\ line[a.line] # NULL
    BY <1>1 DEF ReconcileInv, AnchorsExist, FreshReading
  <2> QED
    BY <2>1, FreshFrame
<1> QED
  BY <1>1

LEMMA InitReading == ReconcileInit => FreshReading
  BY DEF ReconcileInit, ConfirmInit, FreshReading, Idle

LEMMA FindLineReading ==
  ASSUME ReconcileInv, FreshReading, NEW c \in Client, FindLine(c)
  PROVE  FreshReading'
<1> DEFINE free == Compatible(KeyOf[Target[c]])
<1>1. \A d \in Client \ {c} : confirmReq'[d] = confirmReq[d]
  BY DEF FindLine, Becomes, ReconcileInv, ReconcileTypeOK
<1>2. CASE Becomes(c, [confirmReq[c] EXCEPT !.pc = "create"])
  <2>1. confirmReq'[c].pc = "create"
    BY <1>2, RequestFields DEF FindLine, Becomes, ReconcileInv, ReconcileTypeOK, Weighed
  <2> QED
    BY <1>1, <2>1, ReadingFrame DEF FindLine
<1>3. ASSUME NEW l \in free, \A m \in free : m <= l,
             Becomes(c, [pc |-> "confirm", form |-> confirmReq[c].form,
                         measured |-> confirmReq[c].measured, anchor |-> AnchorAt(l)])
      PROVE  FreshReading'
  <2>1. l \in Line /\ line[l] # NULL /\ line[l] \in LineRow /\ line[l].key = KeyOf[Target[c]]
    BY DEF Compatible, ReconcileInv, ReconcileTypeOK
  <2>2. ASSUME NEW a \in Anchor, confirmReq'[c].anchor = a
        PROVE  Fresh(a)
    <3>1. a = AnchorAt(l)
      BY <1>3, <2>2 DEF Becomes, ReconcileInv, ReconcileTypeOK
    <3>2. a.line = l /\ a.receipt = line[l].receipt
      BY <3>1 DEF AnchorAt
    <3>3. doc[a.receipt] \in Doc
      BY <2>1, <3>2 DEF ReconcileInv, ReconcileTypeOK, ReceiptsExist, LineRow
    <3>4. doc[a.receipt] = [date |-> a.date, number |-> a.number]
      BY <3>1, <3>3 DEF AnchorAt, Doc
    <3>5. ASSUME OneTriple(a.receipt), NEW m \in LinesOf(a.receipt), m > l
          PROVE  Linked(m)
      <4>1. m \in Line /\ line[m] # NULL /\ l \in LinesOf(a.receipt)
        BY <2>1, <3>2 DEF LinesOf
      <4>2. line[m].key = KeyOf[Target[c]]
        BY <2>1, <3>5, <4>1 DEF OneTriple
      <4>3. m \notin free
        BY <1>3, <2>1, <3>5, <4>1, LineAssumption
      <4> QED
        BY <4>1, <4>2, <4>3 DEF Compatible
    <3> QED
      BY <3>2, <3>4, <3>5 DEF Fresh
  <2>3. ASSUME NEW a \in Anchor, Fresh(a) PROVE Fresh(a)'
    BY <2>3 DEF FindLine, Fresh, OneTriple, LinesOf, Linked
  <2> QED
    BY <1>1, <2>2, <2>3, ReadingFrame DEF FindLine
<1> QED
  BY <1>2, <1>3 DEF FindLine

LEMMA CreateReceiptReading ==
  ASSUME ReconcileInv, FreshReading, NEW c \in Client, NEW l \in Line, NEW x \in Receipt,
         CreateReceipt(c, l, x)
  PROVE  FreshReading'
<1> DEFINE row == [key |-> KeyOf[Target[c]], receipt |-> x]
           file == [date |-> confirmReq[c].form.date, number |-> confirmReq[c].form.number]
           anchor == [line |-> l, receipt |-> x, date |-> confirmReq[c].form.date,
                      number |-> confirmReq[c].form.number]
<1>1. /\ line[l] = NULL /\ doc[x] = NULL
      /\ line' = [line EXCEPT ![l] = row]
      /\ doc' = [doc EXCEPT ![x] = file]
      /\ Becomes(c, [pc |-> "confirm", form |-> confirmReq[c].form, measured |-> confirmReq[c].measured,
                     anchor |-> anchor])
      /\ batch' = batch
  BY DEF CreateReceipt
<1>2. confirmReq'[c].anchor = anchor /\ \A d \in Client \ {c} : confirmReq'[d] = confirmReq[d]
  BY <1>1 DEF Becomes, ReconcileInv, ReconcileTypeOK
<1>3. /\ line'[l] = row /\ doc'[x] = file
      /\ \A m \in Line \ {l} : line'[m] = line[m]
      /\ \A y \in Receipt \ {x} : doc'[y] = doc[y]
  BY <1>1 DEF ReconcileInv, ReconcileTypeOK
<1>4. ASSUME NEW a \in Anchor, a = anchor PROVE Fresh(a)'
  <2>1. LinesOf(x)' \subseteq {l}
    BY <1>1, <1>3 DEF LinesOf, ReconcileInv, ReceiptsExist
  <2>2. a.line = l /\ a.receipt = x /\ doc'[x] = [date |-> a.date, number |-> a.number]
    BY <1>3, <1>4
  <2>3. \A m \in LinesOf(x)' : ~(m > l)
    BY <2>1, LineAssumption
  <2> QED
    BY <1>3, <2>2, <2>3 DEF Fresh
<1> QED
  BY <1>1, <1>2, <1>3, <1>4, ReadingFrame

LEMMA RegisterReceiptReading ==
  ASSUME ReconcileInv, FreshReading, NEW x \in Receipt, NEW ls \in SUBSET Line, NEW k \in [ls -> Key],
         RegisterReceipt(x, ls, k)
  PROVE  FreshReading'
<1>1. /\ batch' = batch /\ confirmReq' = confirmReq /\ doc[x] = NULL
      /\ \A l \in ls : line[l] = NULL /\ line'[l].receipt = x
      /\ \A l \in Line \ ls : line'[l] = line[l]
      /\ \A y \in Receipt \ {x} : doc'[y] = doc[y]
  BY DEF RegisterReceipt, ReconcileInv, ReconcileTypeOK
<1> QED
  BY <1>1, ReadingFrame

(* Of two requests that read one receipt of one triple before either line was     *)
(* linked, both chose the same line, and the second does not commit.             *)
LEMMA ConfirmReading ==
  ASSUME ReconcileInv, FreshReading, NEW c \in Client, Confirm(c)
  PROVE  FreshReading'
<1> DEFINE q == confirmReq[c]
           t == Target[c]
<1>1. q \in Anchored /\ q.anchor \in Anchor /\ t \in Batch /\ q.pc = "confirm"
  BY RequestFields DEF ReconcileInv, Confirm, Anchored
<1>2. confirmReq'[c].pc = "idle" /\ \A d \in Client \ {c} : confirmReq'[d] = confirmReq[d]
  BY DEF Confirm, Answer, Becomes, Idle, ReconcileInv, ReconcileTypeOK
<1>3. CASE UNCHANGED <<doc, batch, disc>>
  BY <1>2, <1>3, ReadingFrame DEF Confirm
<1>4. CASE /\ StillPending(t) /\ ~LineTaken(t, q.anchor.line)
           /\ doc' = DocAfter(q)
           /\ batch' = [batch EXCEPT ![t] = [status |-> "CONFIRMED", line |-> q.anchor.line,
                                             weight |-> Column(q.form.weight)]]
  <2> SUFFICES ASSUME NEW d \in Client \ {c}, NEW e \in Anchor, confirmReq[d].pc = "confirm",
                      confirmReq[d].anchor = e
               PROVE  Fresh(e)'
    BY <1>2 DEF FreshReading
  <2>1. PICK a \in Anchor : a = q.anchor
    BY <1>1
  <2>2. /\ Fresh(a) /\ Fresh(e)
        /\ line[a.line] # NULL /\ line[e.line] # NULL
    BY <1>1, <2>1 DEF FreshReading, ReconcileInv, AnchorsExist
  <2>3. /\ a.line \in Line /\ e.line \in Line
        /\ a.line \in Nat /\ e.line \in Nat
    BY LineAssumption DEF Anchor
  <2>4. line' = line
    BY DEF Confirm
  <2>5. \A l \in Line : Linked(l) => Linked(l)'
    <3>1. batch[t].line = NULL
      BY <1>1, <1>4 DEF StillPending, ReconcileInv, LinkedIffConfirmed
    <3> QED
      BY <1>4, <3>1, NullAssumption DEF Linked, ReconcileInv, ReconcileTypeOK
  <2>6. Linked(a.line)' /\ ~Linked(a.line)
    <3>1. batch[t].line = NULL
      BY <1>1, <1>4 DEF StillPending, ReconcileInv, LinkedIffConfirmed
    <3>2. ~Linked(a.line)
      BY <1>4, <2>1, <2>3, <3>1, NullAssumption DEF Linked, LineTaken
    <3>3. batch'[t].line = a.line
      BY <1>1, <1>4, <2>1 DEF ReconcileInv, ReconcileTypeOK
    <3> QED
      BY <1>1, <3>2, <3>3 DEF Linked
  <2>7. OneTriple(e.receipt)' <=> OneTriple(e.receipt)
    BY <2>4 DEF OneTriple, LinesOf
  <2>8. LinesOf(e.receipt)' = LinesOf(e.receipt)
    BY <2>4 DEF LinesOf
  <2>9. ASSUME OneTriple(e.receipt), ~Linked(e.line)'
        PROVE  doc'[e.receipt] = [date |-> e.date, number |-> e.number]
    <3>1. ~Linked(e.line)
      BY <2>3, <2>5, <2>9
    <3>2. e.receipt # a.receipt
      <4> SUFFICES ASSUME e.receipt = a.receipt PROVE FALSE
        OBVIOUS
      <4>1. a.line \in LinesOf(a.receipt) /\ e.line \in LinesOf(a.receipt)
        BY <2>2, <2>3 DEF LinesOf, Fresh
      <4>2. ~(a.line > e.line) /\ ~(e.line > a.line)
        BY <2>2, <2>6, <2>9, <3>1, <4>1 DEF Fresh
      <4>3. a.line = e.line
        BY <2>3, <4>2
      <4> QED
        BY <2>6, <2>9, <4>3 DEF Linked
    <3>3. doc'[e.receipt] = doc[e.receipt]
      BY <1>4, <2>1, <3>2 DEF DocAfter, ReconcileInv, ReconcileTypeOK, Anchor
    <3> QED
      BY <2>2, <2>9, <3>1, <3>3 DEF Fresh
  <2> QED
    BY <2>2, <2>3, <2>4, <2>5, <2>7, <2>8, <2>9 DEF Fresh, LinesOf
<1> QED
  BY <1>3, <1>4 DEF Confirm

LEMMA NextReading ==
  ASSUME ReconcileInv, FreshReading, [ReconcileNext]_reconcileVars
  PROVE  FreshReading'
<1>1. ASSUME NEW c \in Client, NEW q, Becomes(c, q), q.pc # "confirm",
             UNCHANGED <<batch, line, doc>>
      PROVE  FreshReading'
  BY <1>1, ReadingFrame DEF Becomes, ReconcileInv, ReconcileTypeOK
<1>2. ASSUME NEW c \in Client, Answer(c), UNCHANGED <<batch, line, doc>> PROVE FreshReading'
  BY <1>1, <1>2 DEF Answer, Idle
<1>3. ASSUME NEW c \in Client, NEW f \in Form, Submit(c, f) PROVE FreshReading'
  BY <1>1, <1>2, <1>3 DEF Submit
<1>4. ASSUME NEW c \in Client, Weigh(c) PROVE FreshReading'
  BY <1>1, <1>2, <1>4 DEF Weigh
<1>5. ASSUME NEW c \in Client, Abort(c) PROVE FreshReading'
  BY <1>2, <1>5 DEF Abort
<1>6. ASSUME RegisterStep PROVE FreshReading'
  BY <1>6, RegisterReceiptReading DEF RegisterStep
<1>7. ASSUME UNCHANGED confirmVars PROVE FreshReading'
  BY <1>7, ReadingFrame DEF confirmVars
<1> QED
  BY <1>3, <1>4, <1>5, <1>6, <1>7, FindLineReading, CreateReceiptReading, ConfirmReading
     DEF ReconcileNext, ClientStep, ChangeStock, reconcileVars

(* What a step does to the metadata of a receipt. *)
LEMMA MetadataKept ==
  ASSUME ReconcileInv, FreshReading, [ReconcileNext]_reconcileVars, NEW x \in Receipt, OneTriple(x)
  PROVE  DocumentKeptBy(x)
<1>1. ASSUME NEW c \in Client, Confirm(c) PROVE DocumentKeptBy(x)
  <2>1. PICK a \in Anchor : a = confirmReq[c].anchor
    BY <1>1, RequestFields DEF ReconcileInv, Confirm, Anchored
  <2>2. CASE doc'[x] = doc[x]
    BY <2>2 DEF DocumentKeptBy, Kept
  <2>3. CASE doc'[x] # doc[x]
    <3>1. /\ StillPending(Target[c]) /\ ~LineTaken(Target[c], a.line)
          /\ doc' = DocAfter(confirmReq[c])
      BY <1>1, <2>1, <2>3 DEF Confirm
    <3>2. /\ x = a.receipt
          /\ doc'[x] = [date |-> OrElse(a.date, confirmReq[c].form.date),
                        number |-> OrElse(a.number, confirmReq[c].form.number)]
      BY <2>1, <2>3, <3>1 DEF DocAfter, ReconcileInv, ReconcileTypeOK
    <3>3. ~Linked(a.line)
      <4>1. batch[Target[c]].line = NULL /\ a.line \in Line
        BY <3>1, TargetAssumption DEF StillPending, ReconcileInv, LinkedIffConfirmed, Anchor
      <4> QED
        BY <3>1, <4>1, NullAssumption DEF Linked, LineTaken
    <3>4. doc[x] = [date |-> a.date, number |-> a.number]
      BY <1>1, <2>1, <3>2, <3>3 DEF Confirm, FreshReading, Fresh
    <3> QED
      BY <3>2, <3>4 DEF DocumentKeptBy, Kept, OrElse
  <2> QED
    BY <2>2, <2>3
<1>2. ASSUME doc[x] = NULL \/ doc'[x] = doc[x] PROVE DocumentKeptBy(x)
  BY <1>2 DEF DocumentKeptBy, Kept
<1>3. ~(\E c \in Client : Confirm(c)) => doc[x] = NULL \/ doc'[x] = doc[x]
  BY DEF ReconcileNext, ClientStep, RegisterStep, Submit, Weigh, FindLine, CreateReceipt, Abort,
         RegisterReceipt, ChangeStock, reconcileVars, confirmVars, ReconcileInv, ReconcileTypeOK
<1> QED
  BY <1>1, <1>2, <1>3

-----------------------------------------------------------------------------
(* Every step of confirming batches and of changing stock keeps the invariant: an anchor is *)
(* an existing line of the triple of its batch.                                       *)
THEOREM ReconcileInvariance == ReconcileSpec => []ReconcileInv
<1>1. ReconcileInit => ReconcileInv
  BY ReconcileInitInv
<1>2. ReconcileInv /\ [ReconcileNext]_reconcileVars => ReconcileInv'
  BY ReconcileNextInv
<1> QED
  BY <1>1, <1>2, PTL DEF ReconcileSpec

(* Every reachable state is of the declared types. *)
THEOREM ReconcileTypeCorrect == ReconcileSpec => []ReconcileTypeOK
<1>1. ReconcileInv => ReconcileTypeOK
  BY DEF ReconcileInv
<1> QED
  BY <1>1, ReconcileInvariance, PTL

(* A confirmed batch always has a line of its own triple and its weight: no      *)
(* failure of the transaction leaves a batch confirmed by half.                *)
THEOREM Linking == ReconcileSpec => []LinkedIffConfirmed
<1>1. ReconcileInv => LinkedIffConfirmed
  BY DEF ReconcileInv
<1> QED
  BY <1>1, ReconcileInvariance, PTL

(* No line reconciles two batches, however many requests picked it. *)
THEOREM Exclusivity == ReconcileSpec => []OneBatchPerLine
<1>1. ReconcileInv => OneBatchPerLine
  BY DEF ReconcileInv
<1> QED
  BY <1>1, ReconcileInvariance, PTL

(* A discrepancy is that of the confirmation that won. *)
THEOREM Discrepancies == ReconcileSpec => []DiscrepancyOfTheConfirmation
<1>1. ReconcileInv => DiscrepancyOfTheConfirmation
  BY DEF ReconcileInv
<1> QED
  BY <1>1, ReconcileInvariance, PTL

(* What a confirmation wrote to its batch is never written again. *)
THEOREM Finality == ReconcileSpec => ConfirmationIsFinal
<1>1. ASSUME ReconcileTypeOK, [ReconcileNext]_reconcileVars
      PROVE  \A b \in Batch : batch[b].status = "CONFIRMED" =>
               batch'[b] = batch[b] /\ disc'[b] = disc[b]
  <2>1. ASSUME NEW c \in Client, Confirm(c), NEW b \in Batch, batch[b].status = "CONFIRMED"
        PROVE  batch'[b] = batch[b] /\ disc'[b] = disc[b]
    BY <1>1, <2>1, TargetAssumption DEF Confirm, StillPending, ReconcileTypeOK
  <2>2. ~(\E c \in Client : Confirm(c)) => UNCHANGED <<batch, disc>>
    BY <1>1
      DEF ReconcileNext, ClientStep, RegisterStep, Submit, Weigh, FindLine, CreateReceipt, Abort,
                RegisterReceipt, ChangeStock, reconcileVars, confirmVars
  <2> QED
    BY <2>1, <2>2
<1> QED
  BY <1>1, ReconcileTypeCorrect, PTL DEF ReconcileSpec, ConfirmationIsFinal

(* "Retrying never duplicates a receipt or line": where the requests for one batch *)
(* do not overlap, a triple never has more created lines than batches, wherever   *)
(* the requests fail and however often they are sent again.                     *)
THEOREM Retries == ReconcileSpec => []NoDuplicateReceipt
<1>1. ReconcileInit => RetryInv
  BY InitRetry
<1>2. ReconcileInv /\ RetryInv /\ [ReconcileNext]_reconcileVars => RetryInv'
  BY NextRetry
<1>3. RetryInv => NoDuplicateReceipt
  BY FiniteParts DEF RetryInv, MintedExist, RoomToCreate, NoDuplicateReceipt
<1> QED
  BY <1>1, <1>2, <1>3, ReconcileInvariance, PTL DEF ReconcileSpec

(* A receipt whose lines all serve one triple never has its recorded document     *)
(* date or number replaced, although every request writes both columns from what  *)
(* it read before its transaction.                                             *)
THEOREM Documents == ReconcileSpec => OneTripleDocumentKept
<1>1. ReconcileInit => FreshReading
  BY InitReading
<1>2. ReconcileInv /\ FreshReading /\ [ReconcileNext]_reconcileVars => FreshReading'
  BY NextReading
<1>3. ReconcileInv /\ FreshReading /\ [ReconcileNext]_reconcileVars =>
        \A x \in Receipt : OneTriple(x) => DocumentKeptBy(x)
  BY MetadataKept
<1> QED
  BY <1>1, <1>2, <1>3, ReconcileInvariance, PTL DEF ReconcileSpec, OneTripleDocumentKept
=============================================================================
