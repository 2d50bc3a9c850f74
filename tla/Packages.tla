------------------------------ MODULE Packages ------------------------------
(***************************************************************************)
(* The packages ("bags") of the receiving batches: BatchesService.createBag, *)
(* correctBag and voidBag, and the PackagingType master rows they read.      *)
(*                                                                         *)
(* Every HTTP request is a process r \in Req.  A step of it is one awaited  *)
(* database call (or one transaction), because other requests run between  *)
(* two awaits.  The checks read committed rows outside any lock.  Only the  *)
(* last step of a request changes what others read; a correction inserts    *)
(* its trail rows one step earlier, in the same transaction.               *)
(*                                                                         *)
(* A request keeps what it read ("old", "tare") and returns to Idle when it *)
(* is answered, whatever the answer is; a client may then send another one, *)
(* so the number of requests is not bounded, only those in flight are.      *)
(***************************************************************************)
EXTENDS Integers, Batches, Weights

CONSTANTS
  PackType,           \* PackagingType ids
  Location,           \* active locations of the batches' warehouse
  Barcode,            \* the codes generateBagBarcode can draw
  Req,                \* requests in flight at the same time
  Gross,              \* gross weights a client sends (tenths of a gram)
  TareWeight,         \* tare weights an administrator gives a packaging type (grams;
                      \* the contract allows no more than three decimals of a kg)
  MaxBarcodeAttempts, \* MAX_BARCODE_ATTEMPTS
  MaxClock,           \* bound of a model: how many corrections insert their rows
  NoBag               \* no row under this barcode

ASSUME GrossAssumption == Gross \subseteq Nat \ {0} /\ TareWeight \subseteq Nat
ASSUME AttemptsAssumption == MaxBarcodeAttempts \in Nat \ {0}
ASSUME ClockAssumption == MaxClock \in Nat

VARIABLES
  status, \* Batch.status
  pack,   \* PackagingType rows
  bag,    \* Bag rows, by barcode (unique)
  trail,  \* what the committed BagCorrection rows of a bag say its columns are
  clock,  \* the latest BagCorrection.createdAt given out
  crossed,   \* history: the columns last written by a correction that is not
             \* the one whose row of that kind is the newest
  bagReq     \* the requests

trailVars == <<trail, clock, crossed>>
bagVars == <<pack, bag, trailVars, bagReq>>
packageVars == <<status, bagVars>>

-----------------------------------------------------------------------------
(* What a client sends for a unit: a weight it types in, or the stored one.     *)
Ask(gross) == [type: PackType, gross: gross, place: Location]

(* What the column keeps of a gross weight, and what a correction sends.        *)
StoredGross == {Column(x) : x \in Gross}
CorrectionGross == Gross \cup {Exact(w) : w \in StoredGross}

(* A Bag row.  net is stored, not derived on reading. *)
Row == [batch: Batch, type: PackType, gross: StoredGross, tare: TareWeight,
        net: Int, place: Location, status: {"ACTIVE", "VOIDED"}]

(* The append-only BagCorrection rows, folded: for each corrected column, the  *)
(* newValue and the createdAt of the newest row of its kind, or the value at  *)
(* registration and 0.                                                       *)
Kind == {"type", "gross", "place"}
Trail == [type: PackType, gross: StoredGross, place: Location,
          status: {"ACTIVE", "VOIDED"}, at: [Kind -> 0 .. MaxClock]]

ASSUME NoBagAssumption == NoBag \notin Row /\ NoBag \notin Trail

CreateRead == [pc: {"createPrice"}, batch: Batch, ask: Ask(Gross)]
CreatePriced == [pc: {"createInsert"}, batch: Batch, ask: Ask(Gross), tare: TareWeight,
                 tries: 0 .. MaxBarcodeAttempts - 1]
CorrectRead == [pc: {"correctPrice"}, code: Barcode, old: Row, ask: Ask(CorrectionGross)]
CorrectPriced == [pc: {"correctRecord"}, code: Barcode, old: Row,
                  ask: Ask(CorrectionGross), tare: TareWeight]
CorrectRecorded == [pc: {"correctCommit"}, code: Barcode, old: Row,
                    ask: Ask(CorrectionGross), tare: TareWeight, at: 1 .. MaxClock]
VoidRead == [pc: {"voidCommit"}, code: Barcode]
BagRequest ==
  {Idle} \cup CreateRead \cup CreatePriced \cup CorrectRead \cup CorrectPriced
    \cup CorrectRecorded \cup VoidRead

PackagesTypeOK ==
  /\ status \in [Batch -> {"PENDING", "CONFIRMED"}]
  /\ pack \in [PackType -> [tare: TareWeight, active: BOOLEAN]]
  /\ bag \in [Barcode -> Row \cup {NoBag}]
  /\ trail \in [Barcode -> Trail \cup {NoBag}]
  /\ clock \in 0 .. MaxClock
  /\ crossed \subseteq Barcode \X Kind
  /\ bagReq \in [Req -> BagRequest]

ActiveBags(b) ==
  {g \in Barcode : bag[g] # NoBag /\ bag[g].batch = b /\ bag[g].status = "ACTIVE"}

-----------------------------------------------------------------------------
BagInit ==
  /\ pack \in [PackType -> [tare: TareWeight, active: {TRUE}]]
  /\ bag = [g \in Barcode |-> NoBag]
  /\ trail = [g \in Barcode |-> NoBag]
  /\ clock = 0
  /\ crossed = {}
  /\ bagReq = [r \in Req |-> Idle]

PackagesInit ==
  /\ status = [b \in Batch |-> "PENDING"]
  /\ BagInit

BagBecomes(r, q) == bagReq' = [bagReq EXCEPT ![r] = q]
AnswerBag(r) == BagBecomes(r, Idle)

(* assertActivePackagingType and the net check, for a gross weight g as sent. *)
Weighable(t, g) == pack[t].active /\ g > Exact(pack[t].tare)

-----------------------------------------------------------------------------
(* createBag: the batch is read first, and only its status decides. *)
CreateLoad(r, b, ask) ==
  /\ bagReq[r].pc = "idle"
  /\ \/ /\ status[b] = "PENDING"
        /\ BagBecomes(r, [pc |-> "createPrice", batch |-> b, ask |-> ask])
     \/ /\ status[b] = "CONFIRMED"
        /\ AnswerBag(r)
  /\ UNCHANGED <<status, pack, bag, trailVars>>

CreatePrice(r) ==
  /\ bagReq[r].pc = "createPrice"
  /\ LET q == bagReq[r] IN
       \/ /\ Weighable(q.ask.type, q.ask.gross)
          /\ BagBecomes(r, [pc |-> "createInsert", batch |-> q.batch, ask |-> q.ask,
                         tare |-> pack[q.ask.type].tare, tries |-> 0])
       \/ /\ ~Weighable(q.ask.type, q.ask.gross)
          /\ AnswerBag(r)
  /\ UNCHANGED <<status, pack, bag, trailVars>>

NewRow(q) ==
  [batch |-> q.batch, type |-> q.ask.type, gross |-> Column(q.ask.gross),
   tare |-> q.tare, net |-> Column(q.ask.gross - Exact(q.tare)), place |-> q.ask.place, status |-> "ACTIVE"]

NewTrail(q) ==
  [type |-> q.ask.type, gross |-> Column(q.ask.gross), place |-> q.ask.place,
   status |-> "ACTIVE", at |-> [k \in Kind |-> 0]]

(* Mutant: one attempt more than MAX_BARCODE_ATTEMPTS. *)
CreateInsertOnceMore(r, g) ==
  /\ bagReq[r].pc = "createInsert"
  /\ LET q == bagReq[r] IN
       \/ /\ bag[g] = NoBag
          /\ bag' = [bag EXCEPT ![g] = NewRow(q)]
          /\ trail' = [trail EXCEPT ![g] = NewTrail(q)]
          /\ AnswerBag(r)
       \/ /\ bag[g] # NoBag
          /\ IF q.tries + 1 > MaxBarcodeAttempts
             THEN AnswerBag(r)
             ELSE BagBecomes(r, [q EXCEPT !.tries = @ + 1])
          /\ UNCHANGED <<bag, trail>>
  /\ UNCHANGED <<status, pack, clock, crossed>>

(* The insert draws a random barcode; the unique constraint refuses a used   *)
(* one and the loop draws again, MAX_BARCODE_ATTEMPTS times at most.         *)
CreateInsert(r, g) ==
  /\ bagReq[r].pc = "createInsert"
  /\ LET q == bagReq[r] IN
       \/ /\ bag[g] = NoBag
          /\ bag' = [bag EXCEPT ![g] = NewRow(q)]
          /\ trail' = [trail EXCEPT ![g] = NewTrail(q)]
          /\ AnswerBag(r)
       \/ /\ bag[g] # NoBag
          /\ IF q.tries + 1 = MaxBarcodeAttempts
             THEN AnswerBag(r)
             ELSE BagBecomes(r, [q EXCEPT !.tries = @ + 1])
          /\ UNCHANGED <<bag, trail>>
  /\ UNCHANGED <<status, pack, clock, crossed>>

-----------------------------------------------------------------------------
(* Mutant: the batch's status is not looked at. *)
CorrectableInAnyBatch(g) == bag[g].status = "ACTIVE"

(* loadCorrectableBag: the row and its batch's status, as committed now. *)
Correctable(g) ==
  /\ status[bag[g].batch] = "PENDING"
  /\ bag[g].status = "ACTIVE"

(* A field the client leaves out is a field it sends back as stored. *)
CorrectLoad(r, g) ==
  /\ bagReq[r].pc = "idle"
  /\ bag[g] # NoBag
  /\ \/ /\ Correctable(g)
        /\ \E ask \in Ask(Gross \cup {Exact(bag[g].gross)}) :
             BagBecomes(r, [pc |-> "correctPrice", code |-> g, old |-> bag[g], ask |-> ask])
     \/ /\ ~Correctable(g)
        /\ AnswerBag(r)
  /\ UNCHANGED <<status, pack, bag, trailVars>>

(* What counts as a change is decided against the row this request read. *)
TypeChanged(q) == q.ask.type # q.old.type
GrossChanged(q) == q.ask.gross # Exact(q.old.gross)
PlaceChanged(q) == q.ask.place # q.old.place
WeightChanged(q) == TypeChanged(q) \/ GrossChanged(q)

(* The packaging master row is read only when the type changes; otherwise the *)
(* tare snapshot of the row is kept.                                         *)
TareFor(q) == IF TypeChanged(q) THEN pack[q.ask.type].tare ELSE q.old.tare

CorrectPrice(r) ==
  /\ bagReq[r].pc = "correctPrice"
  /\ LET q == bagReq[r]
         accepted == /\ WeightChanged(q) \/ PlaceChanged(q)
                     /\ TypeChanged(q) => pack[q.ask.type].active
                     /\ WeightChanged(q) => q.ask.gross > Exact(TareFor(q))
     IN \/ /\ accepted
           /\ BagBecomes(r, [pc |-> "correctRecord", code |-> q.code, old |-> q.old,
                          ask |-> q.ask, tare |-> TareFor(q)])
        \/ /\ ~accepted
           /\ AnswerBag(r)
  /\ UNCHANGED <<status, pack, bag, trailVars>>

(* Mutant: gross and tare are written only when the client changed them. *)
CorrectedRowByColumn(now, q) ==
  [now EXCEPT !.type  = IF TypeChanged(q) THEN q.ask.type ELSE @,
              !.gross = IF GrossChanged(q) THEN Column(q.ask.gross) ELSE @,
              !.tare  = IF TypeChanged(q) THEN q.tare ELSE @,
              !.net   = IF WeightChanged(q) THEN Column(q.ask.gross - Exact(q.tare))
                                            ELSE @,
              !.place = IF PlaceChanged(q) THEN q.ask.place ELSE @]

(* Mutant: the row as read is written back whole. *)
CorrectedRowFromSnapshot(now, q) ==
  [q.old EXCEPT !.type  = q.ask.type,
                !.gross = IF WeightChanged(q) THEN Column(q.ask.gross) ELSE @,
                !.tare  = IF WeightChanged(q) THEN q.tare ELSE @,
                !.net   = IF WeightChanged(q) THEN Column(q.ask.gross - Exact(q.tare))
                                              ELSE @,
                !.place = q.ask.place]

(* The columns of "data" over the row as it is when the UPDATE runs; every     *)
(* other column keeps its current value.                                     *)
CorrectedRow(now, q) ==
  [now EXCEPT !.type  = IF TypeChanged(q) THEN q.ask.type ELSE @,
              !.gross = IF WeightChanged(q) THEN Column(q.ask.gross) ELSE @,
              !.tare  = IF WeightChanged(q) THEN q.tare ELSE @,
              !.net   = IF WeightChanged(q) THEN Column(q.ask.gross - Exact(q.tare))
                                            ELSE @,
              !.place = IF PlaceChanged(q) THEN q.ask.place ELSE @]

(* The transaction inserts one BagCorrection row for each field that changed,   *)
(* stamped on insertion and invisible to others until it commits.  Nothing     *)
(* locks the unit yet: another correction may insert, update and commit        *)
(* before this one goes on.                                                   *)
CorrectRecord(r) ==
  /\ bagReq[r].pc = "correctRecord"
  /\ clock < MaxClock
  /\ clock' = clock + 1
  /\ LET q == bagReq[r] IN
       BagBecomes(r, [pc |-> "correctCommit", code |-> q.code, old |-> q.old,
                      ask |-> q.ask, tare |-> q.tare, at |-> clock + 1])
  /\ UNCHANGED <<status, pack, bag, trail, crossed>>

(* The kinds of rows a correction inserts, and those of them that are the       *)
(* newest of their kind once it commits: get() orders the rows by createdAt.    *)
Recorded(q) == {k \in Kind : \/ k = "type" /\ TypeChanged(q)
                             \/ k = "gross" /\ GrossChanged(q)
                             \/ k = "place" /\ PlaceChanged(q)}
Newest(now, q) == {k \in Recorded(q) : q.at > now.at[k]}

CorrectedTrail(now, q) ==
  [now EXCEPT !.type  = IF "type" \in Newest(now, q) THEN q.ask.type ELSE @,
              !.gross = IF "gross" \in Newest(now, q) THEN Column(q.ask.gross) ELSE @,
              !.place = IF "place" \in Newest(now, q) THEN q.ask.place ELSE @,
              !.at    = [k \in Kind |-> IF k \in Newest(now, q) THEN q.at ELSE @[k]]]

(* The UPDATE by id and the commit.  Neither the status of the unit nor that   *)
(* of the batch is looked at again.                                          *)
CorrectCommit(r) ==
  /\ bagReq[r].pc = "correctCommit"
  /\ LET q == bagReq[r] IN
       /\ bag' = [bag EXCEPT ![q.code] = CorrectedRow(@, q)]
       /\ trail' = [trail EXCEPT ![q.code] = CorrectedTrail(@, q)]
       /\ crossed' = (crossed \ ({q.code} \X Recorded(q)))
                       \cup ({q.code} \X (Recorded(q) \ Newest(trail[q.code], q)))
  /\ AnswerBag(r)
  /\ UNCHANGED <<status, pack, clock>>

-----------------------------------------------------------------------------
VoidLoad(r, g) ==
  /\ bagReq[r].pc = "idle"
  /\ bag[g] # NoBag
  /\ \/ /\ Correctable(g)
        /\ BagBecomes(r, [pc |-> "voidCommit", code |-> g])
     \/ /\ ~Correctable(g)
        /\ AnswerBag(r)
  /\ UNCHANGED <<status, pack, bag, trailVars>>

(* The VOID row and the UPDATE.  All rows of this kind say the same, so the     *)
(* order of two of them tells a reader nothing: one step.                     *)
VoidCommit(r) ==
  /\ bagReq[r].pc = "voidCommit"
  /\ bag' = [bag EXCEPT ![bagReq[r].code].status = "VOIDED"]
  /\ trail' = [trail EXCEPT ![bagReq[r].code].status = "VOIDED"]
  /\ AnswerBag(r)
  /\ UNCHANGED <<status, pack, clock, crossed>>

-----------------------------------------------------------------------------
(* An await that throws (connection lost, server restarted): the request is   *)
(* gone and, before its last step, has left nothing; the rows a correction has *)
(* inserted are rolled back.                                                 *)
AbortBag(r) ==
  /\ bagReq[r].pc # "idle"
  /\ AnswerBag(r)
  /\ UNCHANGED <<status, pack, bag, trailVars>>

(* PackagingTypesService.update: new tare and/or active flag. *)
UpdatePackagingType(t, w, a) ==
  /\ pack' = [pack EXCEPT ![t] = [tare |-> w, active |-> a]]
  /\ UNCHANGED <<status, bag, trailVars, bagReq>>

BagStep ==
  \/ \E r \in Req :
       \/ \E b \in Batch, ask \in Ask(Gross) : CreateLoad(r, b, ask)
       \/ CreatePrice(r)
       \/ \E g \in Barcode : CreateInsert(r, g)
       \/ \E g \in Barcode : CorrectLoad(r, g)
       \/ CorrectPrice(r)
       \/ CorrectRecord(r)
       \/ CorrectCommit(r)
       \/ \E g \in Barcode : VoidLoad(r, g)
       \/ VoidCommit(r)
       \/ AbortBag(r)
  \/ \E t \in PackType, w \in TareWeight, a \in BOOLEAN : UpdatePackagingType(t, w, a)

(* Reconciliation, for this module: a batch with an active package becomes    *)
(* CONFIRMED and stays so (Reconcile.tla says when).                         *)
ConfirmBatch(b) ==
  /\ status[b] = "PENDING"
  /\ \E g \in Barcode : bag[g] # NoBag /\ bag[g].batch = b
  /\ status' = [status EXCEPT ![b] = "CONFIRMED"]
  /\ UNCHANGED bagVars

PackagesNext == BagStep \/ \E b \in Batch : ConfirmBatch(b)

PackagesSpec == PackagesInit /\ [][PackagesNext]_packageVars

-----------------------------------------------------------------------------
(* packaging-types.md: netWeight = grossWeight - tareWeightKg, "historically",   *)
(* and not negative, however corrections of one unit interleave, whatever       *)
(* happens to the packaging master row, and although gross and net are rounded  *)
(* one by one.  (Not "> 0": a gross weight within half a gram above the tare is  *)
(* accepted and stored with a net weight of 0.000 kg.)                        *)
NetIsGrossMinusTare ==
  \A g \in Barcode : bag[g] # NoBag =>
    /\ bag[g].net = bag[g].gross - bag[g].tare
    /\ bag[g].net >= 0

(* The audit trail explains the packaging type, the location and the status   *)
(* of every unit: no interleaving of corrections and voids changes one of     *)
(* these columns without a BagCorrection row that says so, and the newest row  *)
(* of the kind says what the column is.  Except after corrections of one       *)
(* column that inserted their rows in one order and updated the unit in the    *)
(* other: then the newest row is not of the correction that wrote last, until  *)
(* the next correction of that column.                                        *)
TrailExplainsUnit ==
  \A g \in Barcode : bag[g] # NoBag =>
    /\ <<g, "type">> \notin crossed => trail[g].type = bag[g].type
    /\ <<g, "place">> \notin crossed => trail[g].place = bag[g].place
    /\ trail[g].status = bag[g].status

(* The same for the gross weight ("History is never silently overwritten").    *)
TrailExplainsGross ==
  \A g \in Barcode :
    bag[g] # NoBag /\ <<g, "gross">> \notin crossed => trail[g].gross = bag[g].gross

(* A voided unit stays voided and keeps its batch and barcode: a correction     *)
(* that read the unit before the void and commits after it does not bring it   *)
(* back into the measured weight.                                            *)
VoidIsFinal ==
  [][\A g \in Barcode :
       bag[g] # NoBag /\ bag[g].status = "VOIDED" =>
         /\ bag'[g] # NoBag
         /\ bag'[g].status = "VOIDED"
         /\ bag'[g].batch = bag[g].batch]_packageVars

(* The batch a request in flight is about to change. *)
InFlightOn(r, b) ==
  \/ bagReq[r].pc \in {"createPrice", "createInsert"} /\ bagReq[r].batch = b
  \/ /\ bagReq[r].pc \in {"correctPrice", "correctRecord", "correctCommit", "voidCommit"}
     /\ bag[bagReq[r].code] # NoBag
     /\ bag[bagReq[r].code].batch = b

Drained(b) == status[b] = "CONFIRMED" /\ \A r \in Req : ~InFlightOn(r, b)

(* The rows of a batch, as a function. *)
RowsOf(b) ==
  [g \in Barcode |-> IF bag[g] # NoBag /\ bag[g].batch = b THEN bag[g] ELSE NoBag]

(* Once a confirmed batch has no package request in flight it is frozen for    *)
(* good: no request that starts later gets past its first read, so no package  *)
(* is added, corrected or voided any more.                                   *)
FreezeHoldsOnceDrained ==
  [][\A b \in Batch : Drained(b) => Drained(b)' /\ RowsOf(b)' = RowsOf(b)]_packageVars
=============================================================================
