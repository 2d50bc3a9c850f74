------------------------------ MODULE Reconcile ------------------------------
(***************************************************************************)
(* Formal confirmation of receiving batches: BatchesService.reconcile and   *)
(* resolveReceiptLine over the batches, goods_receipts, goods_receipt_lines *)
(* and receiving_discrepancies tables, and ReceiptsService.create, which    *)
(* registers receipts on its own.                                          *)
(*                                                                         *)
(* Client c sends reconcile requests for the batch Target[c]; a request is  *)
(* a sequence of awaited calls, each one action:                           *)
(*   Submit (read the batch) - Weigh (read the active packages) -          *)
(*   FindLine - CreateReceipt (only when none was found) - Confirm (the    *)
(*   transaction).                                                        *)
(* After any answer or failure the client may send another one, so a client *)
(* also stands for the retries of one user.  Two clients of one batch are   *)
(* requests that overlap: two administrators, or a retry sent after a time- *)
(* out while the first request is still running.                           *)
(***************************************************************************)
EXTENDS Integers, Batches, Weights

CONSTANTS
  Key,        \* a (supplier, resource, warehouse) triple
  KeyOf,      \* the triple of a batch: its delivery's supplier, resource, warehouse
  SupplierOf, \* the supplier of a triple
  Line,       \* goods_receipt_lines ids: random UUIDs, compared as such by the database
  Receipt,    \* goods_receipts ids
  Client,
  Target,     \* the batch a client confirms
  Count,      \* numbers of active packages of a batch
  Weight,     \* net totals of a batch (grams)
  DocWeight,  \* documentary weights an administrator enters (tenths of a gram)
  Dates, Numbers, \* document dates and numbers
  NULL

ASSUME TargetAssumption == Target \in [Client -> Batch]
ASSUME KeyAssumption == KeyOf \in [Batch -> Key]
ASSUME LineAssumption == Line \subseteq Nat
ASSUME WeightAssumption ==
  /\ Count \subseteq Nat
  /\ Weight \subseteq Nat
  /\ DocWeight \subseteq Nat \ {0}

VARIABLES
  stock,   \* active packages of each batch: their number and net total
  batch,   \* Batch: status, receiptLineId, documentWeight
  disc,    \* the ReceivingDiscrepancy of a batch (batchId is unique), or NULL
  line,    \* GoodsReceiptLine: its triple and its receipt, or NULL
  doc,     \* GoodsReceipt: document date and number, or NULL
  minted,  \* the lines resolveReceiptLine created (history)
  confirmReq      \* the request of each client

confirmVars == <<batch, disc, line, doc, minted, confirmReq>>
reconcileVars == <<stock, confirmVars>>

-----------------------------------------------------------------------------
Doc == [date: Dates \cup {NULL}, number: Numbers \cup {NULL}]

(* The request body: documentary weight, date, number, acknowledgeDiscrepancy. *)
Form == [weight: DocWeight, date: Dates \cup {NULL}, number: Numbers \cup {NULL},
         ack: BOOLEAN]

(* The active packages of a batch, as reconcile sums them. *)
Stock == {[count |-> 0, net |-> 0]} \cup [count: Count \ {0}, net: Weight]

BatchRow == [status: {"PENDING", "CONFIRMED"}, line: Line \cup {NULL},
             weight: Nat \cup {NULL}]
Discrepancy == [measured: Weight, document: Nat, difference: Int]
LineRow == [key: Key, receipt: Receipt]

ASSUME NullAssumption ==
  /\ NULL \notin Line \cup Receipt \cup Dates \cup Numbers \cup Nat
  /\ NULL \notin Doc /\ NULL \notin Discrepancy /\ NULL \notin LineRow

(* What resolveReceiptLine returns: the line, its receipt and the document     *)
(* date and number the receipt had when it was read.                         *)
Anchor == [line: Line, receipt: Receipt, date: Dates \cup {NULL},
           number: Numbers \cup {NULL}]

Submitted == [pc: {"weigh"}, form: Form]
Weighed == [pc: {"find", "create"}, form: Form, measured: Weight]
Anchored == [pc: {"confirm"}, form: Form, measured: Weight, anchor: Anchor]
Request == {Idle} \cup Submitted \cup Weighed \cup Anchored

ReconcileTypeOK ==
  /\ stock \in [Batch -> Stock]
  /\ batch \in [Batch -> BatchRow]
  /\ disc \in [Batch -> Discrepancy \cup {NULL}]
  /\ line \in [Line -> LineRow \cup {NULL}]
  /\ doc \in [Receipt -> Doc \cup {NULL}]
  /\ minted \subseteq Line
  /\ confirmReq \in [Client -> Request]

-----------------------------------------------------------------------------
ConfirmInit ==
  /\ batch = [b \in Batch |-> [status |-> "PENDING", line |-> NULL, weight |-> NULL]]
  /\ disc = [b \in Batch |-> NULL]
  /\ line = [l \in Line |-> NULL]
  /\ doc = [x \in Receipt |-> NULL]
  /\ minted = {}
  /\ confirmReq = [c \in Client |-> Idle]

ReconcileInit ==
  /\ stock = [b \in Batch |-> [count |-> 0, net |-> 0]]
  /\ ConfirmInit

Becomes(c, q) == confirmReq' = [confirmReq EXCEPT ![c] = q]
Answer(c) == Becomes(c, Idle)

Linked(l) == \E b \in Batch : batch[b].line = l

(* Mutant: the receipts a failed attempt left behind are not looked for. *)
CompatibleNone(k) == {}

(* The compatible, unlinked lines of a triple. *)
Compatible(k) == {l \in Line : line[l] # NULL /\ line[l].key = k /\ ~Linked(l)}

AnchorAt(l) ==
  [line |-> l, receipt |-> line[l].receipt,
   date |-> doc[line[l].receipt].date, number |-> doc[line[l].receipt].number]

-----------------------------------------------------------------------------
(* reconcile reads the batch; a CONFIRMED one is answered with a conflict. *)
Submit(c, f) ==
  /\ confirmReq[c].pc = "idle"
  /\ IF batch[Target[c]].status = "PENDING"
     THEN Becomes(c, [pc |-> "weigh", form |-> f])
     ELSE Answer(c)
  /\ UNCHANGED <<stock, batch, disc, line, doc, minted>>

(* Mutant: an empty batch is not refused. *)
WeighUnchecked(c) ==
  /\ confirmReq[c].pc = "weigh"
  /\ LET f == confirmReq[c].form
         s == stock[Target[c]]
     IN IF Exact(s.net) # f.weight => f.ack
        THEN Becomes(c, [pc |-> "find", form |-> f, measured |-> s.net])
        ELSE Answer(c)
  /\ UNCHANGED <<stock, batch, disc, line, doc, minted>>

(* The active packages are read and summed; an empty batch and an              *)
(* unacknowledged difference are refused.                                    *)
Weigh(c) ==
  /\ confirmReq[c].pc = "weigh"
  /\ LET f == confirmReq[c].form
         s == stock[Target[c]]
     IN IF s.count > 0 /\ (Exact(s.net) # f.weight => f.ack)
        THEN Becomes(c, [pc |-> "find", form |-> f, measured |-> s.net])
        ELSE Answer(c)
  /\ UNCHANGED <<stock, batch, disc, line, doc, minted>>

(* resolveReceiptLine up to its findFirst, which takes the greatest id.  The    *)
(* branch for a batch that already has a line is not there: reconcile only     *)
(* calls it for a batch it read as PENDING, and LinkedIffConfirmed says such a *)
(* batch has none.                                                          *)
FindLine(c) ==
  /\ confirmReq[c].pc = "find"
  /\ LET q == confirmReq[c]
         free == Compatible(KeyOf[Target[c]])
     IN \/ \E l \in free :
             /\ \A m \in free : m <= l
             /\ Becomes(c, [pc |-> "confirm", form |-> q.form, measured |-> q.measured,
                            anchor |-> AnchorAt(l)])
        \/ /\ free = {}
           /\ Becomes(c, [q EXCEPT !.pc = "create"])
  /\ UNCHANGED <<stock, batch, disc, line, doc, minted>>

(* goodsReceipt.create with its one line, committed on its own. *)
CreateReceipt(c, l, x) ==
  /\ confirmReq[c].pc = "create"
  /\ line[l] = NULL
  /\ doc[x] = NULL
  /\ LET q == confirmReq[c] IN
       /\ line' = [line EXCEPT ![l] = [key |-> KeyOf[Target[c]], receipt |-> x]]
       /\ doc' = [doc EXCEPT ![x] = [date |-> q.form.date, number |-> q.form.number]]
       /\ Becomes(c, [pc |-> "confirm", form |-> q.form, measured |-> q.measured,
                      anchor |-> [line |-> l, receipt |-> x, date |-> q.form.date,
                                  number |-> q.form.number]])
  /\ minted' = minted \cup {l}
  /\ UNCHANGED <<stock, batch, disc>>

-----------------------------------------------------------------------------
OrElse(a, b) == IF a # NULL THEN a ELSE b

(* The document metadata after the transaction's first statement.  What is      *)
(* missing is judged by the anchor read before the transaction, and both       *)
(* columns are written together.                                             *)
DocAfter(q) ==
  LET a == q.anchor
      missing == \/ q.form.date # NULL /\ a.date = NULL
                 \/ q.form.number # NULL /\ a.number = NULL
  IN IF missing
     THEN [doc EXCEPT ![a.receipt] = [date |-> OrElse(a.date, q.form.date),
                                      number |-> OrElse(a.number, q.form.number)]]
     ELSE doc

(* Mutant: receiptLineId is not unique. *)
NeverTaken(b, l) == FALSE

(* The unique constraint on Batch.receiptLineId, for an update of b. *)
LineTaken(b, l) == \E c \in Batch \ {b} : batch[c].line = l

(* Mutant: the wrong way round. *)
DocumentMinusMeasured(q) == q.form.weight - Exact(q.measured)

(* measured - document, as computed: exactly. *)
Difference(q) == Exact(q.measured) - q.form.weight

(* Mutant: only an overage is recorded. *)
DiscrepancyOfOverage(q) ==
  IF Difference(q) <= 0
  THEN NULL
  ELSE [measured |-> q.measured, document |-> Column(q.form.weight),
        difference |-> Column(Difference(q))]

(* As stored: the three columns are rounded one by one. *)
DiscrepancyOf(q) ==
  IF Difference(q) = 0
  THEN NULL
  ELSE [measured |-> q.measured, document |-> Column(q.form.weight),
        difference |-> Column(Difference(q))]

(* Mutant: the update is by id alone. *)
AnyStatus(b) == TRUE

(* The condition of the updateMany. *)
StillPending(b) == batch[b].status = "PENDING"

(* Mutant: the document metadata is written before the transaction. *)
ConfirmMetadataFirst(c) ==
  /\ confirmReq[c].pc = "confirm"
  /\ LET q == confirmReq[c]
         b == Target[c]
     IN /\ doc' = DocAfter(q)
        /\ IF StillPending(b) /\ ~LineTaken(b, q.anchor.line)
           THEN /\ batch' = [batch EXCEPT ![b] = [status |-> "CONFIRMED",
                                                 line |-> q.anchor.line,
                                                 weight |-> Column(q.form.weight)]]
                /\ disc' = [disc EXCEPT ![b] = DiscrepancyOf(q)]
           ELSE UNCHANGED <<batch, disc>>
  /\ Answer(c)
  /\ UNCHANGED <<stock, line, minted>>

(* Mutant: a taken line leaves the batch confirmed without one. *)
ConfirmWithoutLine(c) ==
  /\ confirmReq[c].pc = "confirm"
  /\ LET q == confirmReq[c]
         b == Target[c]
         l == IF LineTaken(b, q.anchor.line) THEN NULL ELSE q.anchor.line
     IN IF StillPending(b)
        THEN /\ doc' = DocAfter(q)
             /\ batch' = [batch EXCEPT ![b] = [status |-> "CONFIRMED", line |-> l,
                                              weight |-> Column(q.form.weight)]]
             /\ disc' = [disc EXCEPT ![b] = DiscrepancyOf(q)]
        ELSE UNCHANGED <<doc, batch, disc>>
  /\ Answer(c)
  /\ UNCHANGED <<stock, line, minted>>

(* The transaction.  The conditional update matches no row of a CONFIRMED batch *)
(* (conflict), and a line that another batch took in the meantime violates the  *)
(* unique constraint (an uncaught error): both roll everything back.          *)
Confirm(c) ==
  /\ confirmReq[c].pc = "confirm"
  /\ LET q == confirmReq[c]
         b == Target[c]
         ok == StillPending(b) /\ ~LineTaken(b, q.anchor.line)
     IN \/ /\ ok
           /\ doc' = DocAfter(q)
           /\ batch' = [batch EXCEPT ![b] = [status |-> "CONFIRMED",
                                             line |-> q.anchor.line,
                                             weight |-> Column(q.form.weight)]]
           /\ disc' = [disc EXCEPT ![b] = DiscrepancyOf(q)]
        \/ /\ ~ok
           /\ UNCHANGED <<doc, batch, disc>>
  /\ Answer(c)
  /\ UNCHANGED <<stock, line, minted>>

(* An await that throws, a dropped connection or a server restart ends the      *)
(* request between two of its steps; a transaction under way rolls back.       *)
Abort(c) ==
  /\ confirmReq[c].pc # "idle"
  /\ Answer(c)
  /\ UNCHANGED <<stock, batch, disc, line, doc, minted>>

(* ReceiptsService.create: a receipt of one supplier with its lines, in one     *)
(* nested create, without document metadata.                                  *)
RegisterReceipt(x, ls, k) ==
  /\ doc[x] = NULL
  /\ \A l \in ls : line[l] = NULL
  /\ \A l, m \in ls : SupplierOf[k[l]] = SupplierOf[k[m]]
  /\ doc' = [doc EXCEPT ![x] = [date |-> NULL, number |-> NULL]]
  /\ line' = [l \in Line |-> IF l \in ls THEN [key |-> k[l], receipt |-> x] ELSE line[l]]
  /\ UNCHANGED <<stock, batch, disc, minted, confirmReq>>

ClientStep ==
  \E c \in Client :
    \/ \E f \in Form : Submit(c, f)
    \/ Weigh(c)
    \/ FindLine(c)
    \/ \E l \in Line, x \in Receipt : CreateReceipt(c, l, x)
    \/ Confirm(c)
    \/ Abort(c)

RegisterStep ==
  \E x \in Receipt, ls \in (SUBSET Line) \ {{}} :
    \E k \in [ls -> Key] : RegisterReceipt(x, ls, k)

(* Registering, correcting and voiding packages, for this module: the active   *)
(* packages of a batch change in any way (Packages.tla says how).             *)
ChangeStock(b) ==
  /\ \E s \in Stock : stock' = [stock EXCEPT ![b] = s]
  /\ UNCHANGED confirmVars

ReconcileNext == ClientStep \/ RegisterStep \/ \E b \in Batch : ChangeStock(b)

ReconcileSpec == ReconcileInit /\ [][ReconcileNext]_reconcileVars

-----------------------------------------------------------------------------
(* A batch has a receipt line exactly when it is CONFIRMED, and then also the   *)
(* documentary weight; the line exists and is of the batch's own supplier,     *)
(* resource and warehouse.                                                   *)
LinkedIffConfirmed ==
  \A b \in Batch :
    /\ batch[b].status = "CONFIRMED" <=> batch[b].line # NULL
    /\ batch[b].status = "CONFIRMED" <=> batch[b].weight # NULL
    /\ batch[b].line # NULL =>
         line[batch[b].line] # NULL /\ line[batch[b].line].key = KeyOf[b]

(* batches.md: "one receipt line reconciles at most one batch", although two     *)
(* requests may have picked the same unlinked line.                          *)
OneBatchPerLine ==
  \A b1, b2 \in Batch :
    batch[b1].line # NULL /\ batch[b1].line = batch[b2].line => b1 = b2

(* A discrepancy belongs to a confirmed batch and agrees with the documentary   *)
(* weight accepted there, whichever of several racing requests won: no request *)
(* that lost left a discrepancy of its own behind.  The stored difference is    *)
(* that of the stored weights or, where rounding a documentary weight of half a *)
(* gram loses it, one gram more.                                             *)
DiscrepancyOfTheConfirmation ==
  \A b \in Batch : disc[b] # NULL =>
    /\ batch[b].status = "CONFIRMED"
    /\ disc[b].document = batch[b].weight
    /\ disc[b].difference - (disc[b].measured - batch[b].weight) \in {0, 1}

(* CONFIRMED is terminal: no later request, retry or race changes the status,   *)
(* the line, the documentary weight or the discrepancy of a confirmed batch.   *)
ConfirmationIsFinal ==
  [][\A b \in Batch : batch[b].status = "CONFIRMED" =>
       batch'[b] = batch[b] /\ disc'[b] = disc[b]]_reconcileVars

LinesOf(x) == {l \in Line : line[l] # NULL /\ line[l].receipt = x}

Kept(old, new) == old # NULL => new = old

(* "an already-recorded document date/number is never overwritten", of one      *)
(* receipt.                                                                  *)
DocumentKeptBy(x) ==
  doc[x] # NULL =>
    /\ Kept(doc[x].date, doc[x].date')
    /\ Kept(doc[x].number, doc[x].number')

(* The lines of receipt x all serve one triple. *)
OneTriple(x) == \A l, m \in LinesOf(x) : line[l].key = line[m].key

(* The same for the receipts of one triple, where it holds: requests that read  *)
(* the same missing metadata then also chose the same, greatest free line, and *)
(* only one of them commits.                                                 *)
OneTripleDocumentKept ==
  [][\A x \in Receipt : OneTriple(x) => DocumentKeptBy(x)]_reconcileVars

(* And for every receipt, as the comment and batches.md state it. *)
DocumentNeverOverwritten == [][\A x \in Receipt : DocumentKeptBy(x)]_reconcileVars

BatchesOf(k) == {b \in Batch : KeyOf[b] = k}
Minted(k) == {l \in minted : line[l].key = k}

(* No two clients confirm the same batch of triple k. *)
Exclusive(k) ==
  \A c, d \in Client : Target[c] = Target[d] /\ KeyOf[Target[c]] = k => c = d

(* "Retrying never duplicates a receipt or line": however often each batch's    *)
(* one client fails and retries, at any step, resolveReceiptLine creates no    *)
(* more lines for a triple than there are batches to link them to.            *)
NoDuplicateReceipt ==
  \A k \in Key : Exclusive(k) => Cardinality(Minted(k)) <= Cardinality(BatchesOf(k))

(* The same of every client, whether its requests overlap others or not.       *)
RetryNeverDuplicates ==
  \A k \in Key : Cardinality(Minted(k)) <= Cardinality(BatchesOf(k))
=============================================================================
