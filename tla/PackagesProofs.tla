--------------------------- MODULE PackagesProofs ---------------------------
(***************************************************************************)
(* Proofs about Packages, for any number of batches, packages, packaging     *)
(* types and concurrent requests, and any weights.                          *)
(***************************************************************************)
EXTENDS Packages, TLAPS

(* Gross and net weight are rounded one by one, and still differ by the tare,   *)
(* which is a whole number of grams.                                         *)
LEMMA NetRounding ==
  ASSUME NEW g \in Nat, NEW t \in Nat, g > Exact(t)
  PROVE  /\ Column(g) \in Nat
         /\ Column(g - Exact(t)) \in Nat
         /\ Column(g - Exact(t)) = Column(g) - t
  BY DEF Column, Exact

LEMMA ColumnOfNat == ASSUME NEW g \in Nat PROVE Column(g) \in Nat
  BY DEF Column

(* A stored weight that is sent back is stored unchanged. *)
LEMMA ColumnOfExact == ASSUME NEW w \in Nat PROVE Column(Exact(w)) = w
  BY DEF Column, Exact

(* A correction stores no gross weight that a client has not sent for a unit. *)
LEMMA CorrectionStores ==
  ASSUME NEW g \in CorrectionGross
  PROVE  g \in Nat /\ Column(g) \in StoredGross
<1>1. CASE g \in Gross
  BY <1>1, GrossAssumption DEF StoredGross
<1>2. ASSUME NEW w \in StoredGross, g = Exact(w)
      PROVE  g \in Nat /\ Column(g) \in StoredGross
  <2>1. w \in Nat
    BY GrossAssumption, ColumnOfNat DEF StoredGross
  <2>2. Column(g) = w
    BY <1>2, <2>1, ColumnOfExact
  <2>3. g \in Nat
    BY <1>2, <2>1 DEF Exact
  <2> QED
    BY <2>2, <2>3
<1> QED
  BY <1>1, <1>2 DEF CorrectionGross

LEMMA StoredIsNat == StoredGross \subseteq Nat
  BY GrossAssumption, ColumnOfNat DEF StoredGross

(* A request about to write has compared the weights it is going to write. *)
PricedAboveTare ==
  \A r \in Req :
    /\ bagReq[r].pc = "createInsert" => bagReq[r].ask.gross > Exact(bagReq[r].tare)
    /\ bagReq[r].pc \in {"correctRecord", "correctCommit"} /\ WeightChanged(bagReq[r]) =>
         bagReq[r].ask.gross > Exact(bagReq[r].tare)

(* The unit a request is about to change exists: units are never deleted. *)
UnitExists ==
  \A r \in Req :
    bagReq[r].pc \in {"correctPrice", "correctRecord", "correctCommit", "voidCommit"} =>
      bag[bagReq[r].code] # NoBag

TrailBegins == \A g \in Barcode : bag[g] # NoBag <=> trail[g] # NoBag

(* The inductive invariant. *)
PackagesInv ==
  /\ PackagesTypeOK
  /\ PricedAboveTare
  /\ UnitExists
  /\ TrailBegins
  /\ NetIsGrossMinusTare
  /\ TrailExplainsUnit

LEMMA BagRequestFields ==
  ASSUME PackagesTypeOK, NEW r \in Req
  PROVE  /\ bagReq[r].pc = "createPrice" => bagReq[r] \in CreateRead
         /\ bagReq[r].pc = "createInsert" => bagReq[r] \in CreatePriced
         /\ bagReq[r].pc = "correctPrice" => bagReq[r] \in CorrectRead
         /\ bagReq[r].pc = "correctRecord" => bagReq[r] \in CorrectPriced
         /\ bagReq[r].pc = "correctCommit" => bagReq[r] \in CorrectRecorded
         /\ bagReq[r].pc = "voidCommit" => bagReq[r] \in VoidRead
  BY DEF PackagesTypeOK, BagRequest, CreateRead, CreatePriced, CorrectRead, CorrectPriced,
         CorrectRecorded, VoidRead, Idle

LEMMA PackagesInitInv == PackagesInit => PackagesInv
<1> SUFFICES ASSUME PackagesInit PROVE PackagesInv
  OBVIOUS
<1>1. PackagesTypeOK
  <2>1. clock \in 0 .. MaxClock /\ crossed \subseteq Barcode \X Kind
    BY ClockAssumption DEF PackagesInit, BagInit
  <2>2. bagReq \in [Req -> BagRequest]
    BY DEF PackagesInit, BagInit, BagRequest
  <2> QED
    BY <2>1, <2>2 DEF PackagesInit, BagInit, PackagesTypeOK
<1>2. PricedAboveTare /\ UnitExists
  BY DEF PackagesInit, BagInit, PricedAboveTare, UnitExists, Idle
<1>3. TrailBegins /\ NetIsGrossMinusTare /\ TrailExplainsUnit
  BY DEF PackagesInit, BagInit, TrailBegins, NetIsGrossMinusTare, TrailExplainsUnit
<1> QED
  BY <1>1, <1>2, <1>3 DEF PackagesInv

-----------------------------------------------------------------------------
(* A request that moves on or ends, and writes nothing. *)
Sound(q) ==
  /\ q.pc = "createInsert" => q.ask.gross > Exact(q.tare)
  /\ q.pc \in {"correctRecord", "correctCommit"} /\ WeightChanged(q) => q.ask.gross > Exact(q.tare)
  /\ q.pc \in {"correctPrice", "correctRecord", "correctCommit", "voidCommit"} =>
       bag[q.code] # NoBag

LEMMA BagMoveInv ==
  ASSUME PackagesInv, NEW r \in Req, NEW q \in BagRequest, BagBecomes(r, q), Sound(q),
         clock' \in 0 .. MaxClock, UNCHANGED <<status, pack, bag, trail, crossed>>
  PROVE  PackagesInv'
<1>1. bagReq'[r] = q /\ \A s \in Req \ {r} : bagReq'[s] = bagReq[s]
  BY DEF PackagesInv, PackagesTypeOK, BagBecomes
<1>2. PackagesTypeOK'
  BY DEF PackagesInv, PackagesTypeOK, BagBecomes
<1>3. PricedAboveTare'
  BY <1>1 DEF PackagesInv, PricedAboveTare, Sound, WeightChanged, TypeChanged, GrossChanged
<1>4. UnitExists'
  BY <1>1 DEF PackagesInv, UnitExists, Sound
<1>5. TrailBegins' /\ NetIsGrossMinusTare' /\ TrailExplainsUnit'
  BY DEF PackagesInv, TrailBegins, NetIsGrossMinusTare, TrailExplainsUnit
<1> QED
  BY <1>2, <1>3, <1>4, <1>5 DEF PackagesInv

LEMMA BagAnswerInv ==
  ASSUME PackagesInv, NEW r \in Req, AnswerBag(r),
         UNCHANGED <<status, pack, bag, trailVars>>
  PROVE  PackagesInv'
<1>1. clock' \in 0 .. MaxClock /\ UNCHANGED <<trail, crossed>>
  BY DEF PackagesInv, PackagesTypeOK, trailVars
<1> QED
  BY <1>1, BagMoveInv DEF AnswerBag, BagRequest, Idle, Sound

(* The same, of a request that only reads. *)
LEMMA BagReadInv ==
  ASSUME PackagesInv, NEW r \in Req, NEW q \in BagRequest, BagBecomes(r, q), Sound(q),
         UNCHANGED <<status, pack, bag, trailVars>>
  PROVE  PackagesInv'
<1>1. clock' \in 0 .. MaxClock /\ UNCHANGED <<trail, crossed>>
  BY DEF PackagesInv, PackagesTypeOK, trailVars
<1> QED
  BY <1>1, BagMoveInv

LEMMA CreateLoadInv ==
  ASSUME PackagesInv, NEW r \in Req, NEW b \in Batch, NEW ask \in Ask(Gross), CreateLoad(r, b, ask)
  PROVE  PackagesInv'
<1>1. [pc |-> "createPrice", batch |-> b, ask |-> ask] \in BagRequest
  BY DEF BagRequest, CreateRead
<1> QED
  BY <1>1, BagReadInv, BagAnswerInv DEF CreateLoad, Sound

LEMMA CreatePriceInv ==
  ASSUME PackagesInv, NEW r \in Req, CreatePrice(r)
  PROVE  PackagesInv'
<1> DEFINE q == bagReq[r]
           n == [pc |-> "createInsert", batch |-> q.batch, ask |-> q.ask,
                 tare |-> pack[q.ask.type].tare, tries |-> 0]
<1>1. q \in CreateRead
  BY BagRequestFields DEF PackagesInv, CreatePrice
<1>2. n \in BagRequest
  BY <1>1, AttemptsAssumption
    DEF PackagesInv, PackagesTypeOK, CreateRead, CreatePriced, BagRequest, Ask
<1>3. CASE Weighable(q.ask.type, q.ask.gross) /\ BagBecomes(r, n)
  <2>1. Sound(n)
    BY <1>3 DEF Sound, Weighable
  <2> QED
    BY <1>2, <1>3, <2>1, BagReadInv DEF CreatePrice
<1>4. CASE AnswerBag(r)
  BY <1>4, BagAnswerInv DEF CreatePrice
<1> QED
  BY <1>3, <1>4 DEF CreatePrice

LEMMA CorrectLoadInv ==
  ASSUME PackagesInv, NEW r \in Req, NEW g \in Barcode, CorrectLoad(r, g)
  PROVE  PackagesInv'
<1>1. bag[g] \in Row /\ bag[g] # NoBag
  BY DEF PackagesInv, PackagesTypeOK, CorrectLoad
<1>2. CASE AnswerBag(r)
  BY <1>2, BagAnswerInv DEF CorrectLoad
<1>3. CASE \E ask \in Ask(Gross \cup {Exact(bag[g].gross)}) :
             BagBecomes(r, [pc |-> "correctPrice", code |-> g, old |-> bag[g], ask |-> ask])
  <2>1. PICK ask \in Ask(Gross \cup {Exact(bag[g].gross)}) :
          BagBecomes(r, [pc |-> "correctPrice", code |-> g, old |-> bag[g], ask |-> ask])
    BY <1>3
  <2>2. ask \in Ask(CorrectionGross)
    <3>1. bag[g].gross \in StoredGross
      BY <1>1 DEF Row
    <3> QED
      BY <3>1 DEF Ask, CorrectionGross
  <2>3. [pc |-> "correctPrice", code |-> g, old |-> bag[g], ask |-> ask] \in BagRequest
    BY <1>1, <2>2 DEF BagRequest, CorrectRead
  <2> QED
    BY <1>1, <2>1, <2>3, BagReadInv DEF CorrectLoad, Sound
<1> QED
  BY <1>2, <1>3 DEF CorrectLoad

LEMMA CorrectPriceInv ==
  ASSUME PackagesInv, NEW r \in Req, CorrectPrice(r)
  PROVE  PackagesInv'
<1> DEFINE q == bagReq[r]
           n == [pc |-> "correctRecord", code |-> q.code, old |-> q.old,
                 ask |-> q.ask, tare |-> TareFor(q)]
<1>1. q \in CorrectRead /\ bag[q.code] # NoBag
  BY BagRequestFields DEF PackagesInv, CorrectPrice, UnitExists
<1>2. TareFor(q) \in TareWeight
  BY <1>1 DEF PackagesInv, PackagesTypeOK, CorrectRead, TareFor, Ask, Row
<1>3. n \in BagRequest
  BY <1>1, <1>2 DEF CorrectRead, CorrectPriced, BagRequest
<1>4. CASE (WeightChanged(q) => q.ask.gross > Exact(TareFor(q))) /\ BagBecomes(r, n)
  <2>1. Sound(n)
    BY <1>1, <1>4 DEF Sound, WeightChanged, TypeChanged, GrossChanged
  <2> QED
    BY <1>3, <1>4, <2>1, BagReadInv DEF CorrectPrice
<1>5. CASE AnswerBag(r)
  BY <1>5, BagAnswerInv DEF CorrectPrice
<1> QED
  BY <1>4, <1>5 DEF CorrectPrice

LEMMA CorrectRecordInv ==
  ASSUME PackagesInv, NEW r \in Req, CorrectRecord(r)
  PROVE  PackagesInv'
<1> DEFINE q == bagReq[r]
           n == [pc |-> "correctCommit", code |-> q.code, old |-> q.old,
                 ask |-> q.ask, tare |-> q.tare, at |-> clock + 1]
<1>1. q \in CorrectPriced /\ bag[q.code] # NoBag /\ q.pc = "correctRecord"
  BY BagRequestFields DEF PackagesInv, CorrectRecord, UnitExists
<1>2. clock + 1 \in 1 .. MaxClock /\ clock' \in 0 .. MaxClock
  BY ClockAssumption DEF PackagesInv, PackagesTypeOK, CorrectRecord
<1>3. n \in BagRequest
  BY <1>1, <1>2 DEF CorrectPriced, CorrectRecorded, BagRequest
<1>4. WeightChanged(q) => q.ask.gross > Exact(q.tare)
  BY <1>1 DEF PackagesInv, PricedAboveTare
<1>5. Sound(n)
  BY <1>1, <1>4 DEF Sound, WeightChanged, TypeChanged, GrossChanged
<1>6. BagBecomes(r, n) /\ UNCHANGED <<status, pack, bag, trail, crossed>>
  BY DEF CorrectRecord
<1> HIDE DEF n
<1> QED
  BY <1>2, <1>3, <1>5, <1>6, BagMoveInv

LEMMA VoidLoadInv ==
  ASSUME PackagesInv, NEW r \in Req, NEW g \in Barcode, VoidLoad(r, g)
  PROVE  PackagesInv'
<1>1. [pc |-> "voidCommit", code |-> g] \in BagRequest
  BY DEF BagRequest, VoidRead
<1> QED
  BY <1>1, BagReadInv, BagAnswerInv DEF VoidLoad, Sound

(* What a write to one unit preserves, whichever request makes it. *)
LEMMA WriteInv ==
  ASSUME PackagesInv, NEW r \in Req, NEW g \in Barcode, NEW row \in Row, NEW told \in Trail,
         bag' = [bag EXCEPT ![g] = row],
         trail' = [trail EXCEPT ![g] = told],
         crossed' \subseteq Barcode \X Kind,
         \A h \in Barcode \ {g}, k \in Kind : <<h, k>> \in crossed => <<h, k>> \in crossed',
         AnswerBag(r), UNCHANGED <<status, pack, clock>>,
         row.net = row.gross - row.tare, row.net >= 0,
         <<g, "type">> \notin crossed' => told.type = row.type,
         <<g, "place">> \notin crossed' => told.place = row.place,
         told.status = row.status
  PROVE  PackagesInv'
<1>1. /\ row # NoBag /\ told # NoBag
      /\ bag'[g] = row /\ trail'[g] = told
      /\ \A h \in Barcode \ {g} : bag'[h] = bag[h] /\ trail'[h] = trail[h]
  BY NoBagAssumption DEF PackagesInv, PackagesTypeOK
<1>2. bagReq'[r] = Idle /\ \A s \in Req \ {r} : bagReq'[s] = bagReq[s]
  BY DEF PackagesInv, PackagesTypeOK, AnswerBag, BagBecomes
<1>3. PackagesTypeOK'
  BY DEF PackagesInv, PackagesTypeOK, AnswerBag, BagBecomes, BagRequest
<1>4. PricedAboveTare'
  BY <1>2 DEF PackagesInv, PricedAboveTare, WeightChanged, TypeChanged, GrossChanged, Idle
<1>5. UnitExists'
  <2>1. ASSUME NEW s \in Req,
               bagReq'[s].pc \in {"correctPrice", "correctRecord", "correctCommit", "voidCommit"}
        PROVE  bag'[bagReq'[s].code] # NoBag
    <3>1. bagReq'[s] = bagReq[s]
      BY <1>2, <2>1 DEF Idle
    <3>2. bagReq[s].code \in Barcode /\ bag[bagReq[s].code] # NoBag
      BY <2>1, <3>1, BagRequestFields
        DEF PackagesInv, UnitExists, CorrectRead, CorrectPriced, CorrectRecorded, VoidRead
    <3> QED
      BY <1>1, <3>1, <3>2
  <2> QED
    BY <2>1 DEF UnitExists
<1>6. TrailBegins' /\ NetIsGrossMinusTare'
  BY <1>1 DEF PackagesInv, TrailBegins, NetIsGrossMinusTare
<1>7. TrailExplainsUnit'
  <2> SUFFICES ASSUME NEW h \in Barcode, bag'[h] # NoBag
               PROVE  /\ <<h, "type">> \notin crossed' => trail'[h].type = bag'[h].type
                      /\ <<h, "place">> \notin crossed' => trail'[h].place = bag'[h].place
                      /\ trail'[h].status = bag'[h].status
    BY DEF TrailExplainsUnit
  <2>1. CASE h = g
    BY <1>1, <2>1
  <2>2. CASE h # g
    <3>1. h \in Barcode \ {g} /\ "type" \in Kind /\ "place" \in Kind
      BY <2>2 DEF Kind
    <3>2. /\ <<h, "type">> \notin crossed' => <<h, "type">> \notin crossed
          /\ <<h, "place">> \notin crossed' => <<h, "place">> \notin crossed
      BY <3>1
    <3> QED
      BY <1>1, <3>1, <3>2 DEF PackagesInv, TrailExplainsUnit
  <2> QED
    BY <2>1, <2>2
<1> QED
  BY <1>3, <1>4, <1>5, <1>6, <1>7 DEF PackagesInv

LEMMA CreateInsertInv ==
  ASSUME PackagesInv, NEW r \in Req, NEW g \in Barcode, CreateInsert(r, g)
  PROVE  PackagesInv'
<1> DEFINE q == bagReq[r]
           n == [q EXCEPT !.tries = @ + 1]
<1>1. q \in CreatePriced /\ q.pc = "createInsert"
  BY BagRequestFields DEF PackagesInv, CreateInsert
<1>2. /\ q.batch \in Batch /\ q.tare \in TareWeight /\ q.tare \in Nat
      /\ q.ask.type \in PackType /\ q.ask.place \in Location
      /\ q.ask.gross \in Gross /\ q.ask.gross \in Nat /\ q.ask.gross > Exact(q.tare)
  BY <1>1, GrossAssumption DEF PackagesInv, PricedAboveTare, CreatePriced, Ask
<1>3. CASE /\ bag' = [bag EXCEPT ![g] = NewRow(q)]
           /\ trail' = [trail EXCEPT ![g] = NewTrail(q)]
           /\ AnswerBag(r)
  <2>1. /\ Column(q.ask.gross) \in Nat
        /\ Column(q.ask.gross - Exact(q.tare)) \in Nat
        /\ Column(q.ask.gross - Exact(q.tare)) = Column(q.ask.gross) - q.tare
    BY <1>2, NetRounding
  <2>2. NewRow(q) \in Row /\ NewTrail(q) \in Trail
    <3>1. Column(q.ask.gross) \in StoredGross
      BY <1>2 DEF StoredGross
    <3> QED
      BY <1>2, <2>1, <3>1, ClockAssumption DEF NewRow, NewTrail, Row, Trail
  <2>3. UNCHANGED <<status, pack, clock, crossed>> /\ crossed' \subseteq Barcode \X Kind
    BY DEF CreateInsert, PackagesInv, PackagesTypeOK
  <2>4. /\ NewRow(q).net = NewRow(q).gross - NewRow(q).tare /\ NewRow(q).net >= 0
        /\ NewTrail(q).type = NewRow(q).type /\ NewTrail(q).place = NewRow(q).place
        /\ NewTrail(q).status = NewRow(q).status
    BY <2>1 DEF NewRow, NewTrail
  <2> HIDE DEF q
  <2> QED
    BY <1>3, <2>2, <2>3, <2>4, WriteInv
<1>4. CASE UNCHANGED <<bag, trail>> /\ AnswerBag(r)
  BY <1>4, BagAnswerInv DEF CreateInsert, trailVars
<1>5. CASE /\ UNCHANGED <<bag, trail>>
           /\ q.tries + 1 # MaxBarcodeAttempts
           /\ BagBecomes(r, n)
  <2>1. q.tries + 1 \in 0 .. MaxBarcodeAttempts - 1
    BY <1>1, <1>5, AttemptsAssumption DEF CreatePriced
  <2>2. n \in CreatePriced
    BY <1>1, <2>1 DEF CreatePriced
  <2>3. n \in BagRequest /\ Sound(n)
    BY <1>1, <1>2, <2>2 DEF CreatePriced, BagRequest, Sound
  <2> QED
    BY <1>5, <2>3, BagReadInv DEF CreateInsert, trailVars
<1> QED
  BY <1>3, <1>4, <1>5 DEF CreateInsert

(* What a correction about to commit has read and checked. *)
LEMMA CorrectionFacts ==
  ASSUME PackagesInv, NEW r \in Req, CorrectCommit(r), NEW q, q = bagReq[r]
  PROVE  /\ q.code \in Barcode /\ bag[q.code] # NoBag
         /\ bag[q.code] \in Row /\ trail[q.code] \in Trail
         /\ q.tare \in TareWeight /\ q.at \in 1 .. MaxClock
         /\ q.ask.type \in PackType /\ q.ask.place \in Location
         /\ Column(q.ask.gross) \in StoredGross
         /\ Column(q.ask.gross) \in Nat
         /\ WeightChanged(q) =>
              /\ Column(q.ask.gross - Exact(q.tare)) \in Nat
              /\ Column(q.ask.gross - Exact(q.tare)) = Column(q.ask.gross) - q.tare
<1>1. q \in CorrectRecorded /\ q.code \in Barcode /\ bag[q.code] # NoBag
  BY BagRequestFields DEF PackagesInv, CorrectCommit, UnitExists, CorrectRecorded
<1>2. bag[q.code] \in Row /\ trail[q.code] \in Trail
  BY <1>1 DEF PackagesInv, PackagesTypeOK, TrailBegins
<1>3. /\ q.tare \in TareWeight /\ q.tare \in Nat /\ q.at \in 1 .. MaxClock
      /\ q.ask.type \in PackType /\ q.ask.place \in Location
      /\ q.ask.gross \in Nat /\ Column(q.ask.gross) \in StoredGross
      /\ Column(q.ask.gross) \in Nat
      /\ WeightChanged(q) => q.ask.gross > Exact(q.tare)
  BY <1>1, GrossAssumption, CorrectionStores, StoredIsNat
     DEF PackagesInv, PricedAboveTare, CorrectCommit, CorrectRecorded, Ask
<1>4. WeightChanged(q) =>
        /\ Column(q.ask.gross - Exact(q.tare)) \in Nat
        /\ Column(q.ask.gross - Exact(q.tare)) = Column(q.ask.gross) - q.tare
  BY <1>3, NetRounding
<1> QED
  BY <1>1, <1>2, <1>3, <1>4

(* What it writes is a row and a trail again. *)
LEMMA CorrectedRowType ==
  ASSUME PackagesInv, NEW r \in Req, CorrectCommit(r), NEW q, q = bagReq[r]
  PROVE  /\ CorrectedRow(bag[q.code], q) \in Row
         /\ CorrectedTrail(trail[q.code], q) \in Trail
<1>1. ASSUME WeightChanged(q)
      PROVE  CorrectedRow(bag[q.code], q) \in Row
  <2> DEFINE net == Column(q.ask.gross - Exact(q.tare))
  <2>1. net \in Int
    BY <1>1, CorrectionFacts
  <2>2. CorrectedRow(bag[q.code], q) =
          [bag[q.code] EXCEPT !.type  = IF TypeChanged(q) THEN q.ask.type ELSE @,
                              !.gross = Column(q.ask.gross),
                              !.tare  = q.tare,
                              !.net   = net,
                              !.place = IF PlaceChanged(q) THEN q.ask.place ELSE @]
    BY <1>1 DEF CorrectedRow
  <2>3. /\ bag[q.code] \in Row /\ q.tare \in TareWeight
        /\ q.ask.type \in PackType /\ q.ask.place \in Location
        /\ Column(q.ask.gross) \in StoredGross
    BY CorrectionFacts
  <2> HIDE DEF net
  <2> QED
    BY <2>1, <2>2, <2>3 DEF Row
<1>2. /\ bag[q.code] \in Row /\ trail[q.code] \in Trail
      /\ q.ask.type \in PackType /\ q.ask.place \in Location
      /\ Column(q.ask.gross) \in StoredGross
  BY CorrectionFacts
<1>3. ~WeightChanged(q) => CorrectedRow(bag[q.code], q) \in Row
  BY <1>2 DEF CorrectedRow, WeightChanged, Row
<1>4. CorrectedTrail(trail[q.code], q) \in Trail
  <2> DEFINE at == [k \in Kind |-> IF k \in Newest(trail[q.code], q) THEN q.at
                                                                  ELSE trail[q.code].at[k]]
  <2>1. at \in [Kind -> 0 .. MaxClock]
    BY <1>2, CorrectionFacts, ClockAssumption DEF Trail
  <2>2. CorrectedTrail(trail[q.code], q) =
          [trail[q.code] EXCEPT
             !.type  = IF "type" \in Newest(trail[q.code], q) THEN q.ask.type ELSE @,
             !.gross = IF "gross" \in Newest(trail[q.code], q) THEN Column(q.ask.gross) ELSE @,
             !.place = IF "place" \in Newest(trail[q.code], q) THEN q.ask.place ELSE @,
             !.at    = at]
    BY <1>2 DEF CorrectedTrail, Trail
  <2> HIDE DEF at
  <2> QED
    BY <1>2, <2>1, <2>2 DEF Trail
<1> QED
  BY <1>1, <1>3, <1>4

(* What a correction does to the history of crossed columns: those it inserted  *)
(* a row for are no longer crossed where that row is the newest.               *)
LEMMA CrossedByCorrection ==
  ASSUME PackagesInv, NEW r \in Req, CorrectCommit(r), NEW q, q = bagReq[r]
  PROVE  /\ crossed' \subseteq Barcode \X Kind
         /\ \A h \in Barcode \ {q.code}, k \in Kind :
              <<h, k>> \in crossed => <<h, k>> \in crossed'
         /\ \A k \in Kind : <<q.code, k>> \notin crossed' =>
              \/ k \in Newest(trail[q.code], q)
              \/ k \notin Recorded(q) /\ <<q.code, k>> \notin crossed
<1> DEFINE rec == Recorded(q)
           new == Newest(trail[q.code], q)
<1>1. crossed' = (crossed \ ({q.code} \X rec)) \cup ({q.code} \X (rec \ new))
  BY DEF CorrectCommit
<1>2. q.code \in Barcode /\ crossed \subseteq Barcode \X Kind
  BY CorrectionFacts DEF PackagesInv, PackagesTypeOK
<1>3. rec \subseteq Kind
  BY DEF Recorded
<1> HIDE DEF rec, new
<1>4. crossed' \subseteq Barcode \X Kind
  BY <1>1, <1>2, <1>3
<1>5. \A h \in Barcode \ {q.code}, k \in Kind : <<h, k>> \in crossed => <<h, k>> \in crossed'
  BY <1>1
<1>6. \A k \in Kind : <<q.code, k>> \notin crossed' =>
        k \in new \/ (k \notin rec /\ <<q.code, k>> \notin crossed)
  BY <1>1
<1> QED
  BY <1>4, <1>5, <1>6 DEF rec, new

(* A correction rewrites gross, tare and net together or not at all. *)
LEMMA CorrectCommitInv ==
  ASSUME PackagesInv, NEW r \in Req, CorrectCommit(r)
  PROVE  PackagesInv'
<1> DEFINE q == bagReq[r]
           row == CorrectedRow(bag[q.code], q)
           told == CorrectedTrail(trail[q.code], q)
<1>1. row \in Row /\ told \in Trail
  BY CorrectedRowType
<1>2. row.net = row.gross - row.tare /\ row.net >= 0
  BY CorrectionFacts DEF PackagesInv, NetIsGrossMinusTare, CorrectedRow, Row
<1>3. /\ bag' = [bag EXCEPT ![q.code] = row]
      /\ trail' = [trail EXCEPT ![q.code] = told]
      /\ AnswerBag(r) /\ UNCHANGED <<status, pack, clock>>
  BY DEF CorrectCommit
<1>4. q.code \in Barcode
  BY CorrectionFacts
<1>5. /\ crossed' \subseteq Barcode \X Kind
      /\ \A h \in Barcode \ {q.code}, k \in Kind : <<h, k>> \in crossed => <<h, k>> \in crossed'
  BY <1>4, CrossedByCorrection
<1>6. /\ <<q.code, "type">> \notin crossed' => told.type = row.type
      /\ <<q.code, "place">> \notin crossed' => told.place = row.place
      /\ told.status = row.status
  <2>1. bag[q.code] \in Row /\ trail[q.code] \in Trail /\ bag[q.code] # NoBag
    BY CorrectionFacts
  <2>2. /\ row.type = IF TypeChanged(q) THEN q.ask.type ELSE bag[q.code].type
        /\ row.place = IF PlaceChanged(q) THEN q.ask.place ELSE bag[q.code].place
        /\ row.status = bag[q.code].status
    BY <2>1 DEF CorrectedRow, Row
  <2>3. /\ told.type = IF "type" \in Newest(trail[q.code], q) THEN q.ask.type
                                                              ELSE trail[q.code].type
        /\ told.place = IF "place" \in Newest(trail[q.code], q) THEN q.ask.place
                                                                ELSE trail[q.code].place
        /\ told.status = trail[q.code].status
    BY <2>1 DEF CorrectedTrail, Trail
  <2>4. /\ "type" \in Recorded(q) <=> TypeChanged(q)
        /\ "place" \in Recorded(q) <=> PlaceChanged(q)
        /\ "type" \in Kind /\ "place" \in Kind
        /\ Newest(trail[q.code], q) \subseteq Recorded(q)
    BY DEF Recorded, Newest, Kind
  <2>5. \A k \in Kind : <<q.code, k>> \notin crossed' =>
          \/ k \in Newest(trail[q.code], q)
          \/ k \notin Recorded(q) /\ <<q.code, k>> \notin crossed
    BY CrossedByCorrection
  <2>6. /\ <<q.code, "type">> \notin crossed => trail[q.code].type = bag[q.code].type
        /\ <<q.code, "place">> \notin crossed => trail[q.code].place = bag[q.code].place
        /\ trail[q.code].status = bag[q.code].status
    BY <1>4, <2>1 DEF PackagesInv, TrailExplainsUnit
  <2> HIDE DEF q, row, told
  <2> QED
    BY <2>2, <2>3, <2>4, <2>5, <2>6
<1> HIDE DEF q, row, told
<1> QED
  BY <1>1, <1>2, <1>3, <1>4, <1>5, <1>6, WriteInv

LEMMA VoidCommitInv ==
  ASSUME PackagesInv, NEW r \in Req, VoidCommit(r)
  PROVE  PackagesInv'
<1> DEFINE g == bagReq[r].code
           row == [bag[g] EXCEPT !.status = "VOIDED"]
           told == [trail[g] EXCEPT !.status = "VOIDED"]
<1>1. g \in Barcode /\ bag[g] # NoBag
  BY BagRequestFields DEF PackagesInv, VoidCommit, UnitExists, VoidRead
<1>2. bag[g] \in Row /\ trail[g] \in Trail
  BY <1>1 DEF PackagesInv, PackagesTypeOK, TrailBegins
<1>3. row \in Row /\ told \in Trail
  BY <1>2 DEF Row, Trail
<1>4. /\ row.net = row.gross - row.tare /\ row.net >= 0
      /\ <<g, "type">> \notin crossed => told.type = row.type
      /\ <<g, "place">> \notin crossed => told.place = row.place
      /\ told.status = row.status
  BY <1>1, <1>2 DEF PackagesInv, NetIsGrossMinusTare, TrailExplainsUnit, Row, Trail
<1>5. /\ bag' = [bag EXCEPT ![g] = row]
      /\ trail' = [trail EXCEPT ![g] = told]
      /\ AnswerBag(r) /\ UNCHANGED <<status, pack, clock, crossed>>
      /\ crossed' \subseteq Barcode \X Kind
  BY DEF VoidCommit, PackagesInv, PackagesTypeOK
<1> HIDE DEF g, row, told
<1> QED
  BY <1>1, <1>3, <1>4, <1>5, WriteInv

-----------------------------------------------------------------------------
(* The steps that leave the units and the requests alone. *)
LEMMA OtherInv ==
  ASSUME PackagesInv, UNCHANGED <<bag, trailVars, bagReq>>,
         status' \in [Batch -> {"PENDING", "CONFIRMED"}],
         pack' \in [PackType -> [tare: TareWeight, active: BOOLEAN]]
  PROVE  PackagesInv'
  BY DEF PackagesInv, PackagesTypeOK, PricedAboveTare, UnitExists, TrailBegins, NetIsGrossMinusTare,
         TrailExplainsUnit, WeightChanged, TypeChanged, GrossChanged, trailVars

LEMMA PackagesNextInv ==
  ASSUME PackagesInv, [PackagesNext]_packageVars
  PROVE  PackagesInv'
<1>1. ASSUME NEW r \in Req, NEW b \in Batch, NEW ask \in Ask(Gross), CreateLoad(r, b, ask)
      PROVE  PackagesInv'
  BY <1>1, CreateLoadInv
<1>2. ASSUME NEW r \in Req, CreatePrice(r) PROVE PackagesInv'
  BY <1>2, CreatePriceInv
<1>3. ASSUME NEW r \in Req, NEW g \in Barcode, CreateInsert(r, g) PROVE PackagesInv'
  BY <1>3, CreateInsertInv
<1>4. ASSUME NEW r \in Req, NEW g \in Barcode, CorrectLoad(r, g) PROVE PackagesInv'
  BY <1>4, CorrectLoadInv
<1>5. ASSUME NEW r \in Req, CorrectPrice(r) PROVE PackagesInv'
  BY <1>5, CorrectPriceInv
<1>6. ASSUME NEW r \in Req, CorrectCommit(r) PROVE PackagesInv'
  BY <1>6, CorrectCommitInv
<1>7. ASSUME NEW r \in Req, NEW g \in Barcode, VoidLoad(r, g) PROVE PackagesInv'
  BY <1>7, VoidLoadInv
<1>8. ASSUME NEW r \in Req, VoidCommit(r) PROVE PackagesInv'
  BY <1>8, VoidCommitInv
<1>9. ASSUME NEW r \in Req, AbortBag(r) PROVE PackagesInv'
  BY <1>9, BagAnswerInv DEF AbortBag
<1>10. ASSUME NEW t \in PackType, NEW w \in TareWeight, NEW a \in BOOLEAN,
              UpdatePackagingType(t, w, a)
       PROVE  PackagesInv'
  BY <1>10, OtherInv DEF UpdatePackagingType, PackagesInv, PackagesTypeOK
<1>11. ASSUME NEW b \in Batch, ConfirmBatch(b) PROVE PackagesInv'
  BY <1>11, OtherInv DEF ConfirmBatch, bagVars, PackagesInv, PackagesTypeOK
<1>12. ASSUME NEW r \in Req, CorrectRecord(r) PROVE PackagesInv'
  BY <1>12, CorrectRecordInv
<1>13. CASE UNCHANGED packageVars
  BY <1>13, OtherInv DEF packageVars, bagVars, PackagesInv, PackagesTypeOK
<1> QED
  BY <1>1, <1>2, <1>3, <1>4, <1>5, <1>6, <1>7, <1>8, <1>9, <1>10, <1>11, <1>12, <1>13
     DEF PackagesNext, BagStep

-----------------------------------------------------------------------------
(* Every step of registering, correcting and voiding packages keeps the invariant the     *)
(* properties below are part of.                                                    *)
THEOREM PackagesInvariance == PackagesSpec => []PackagesInv
<1>1. PackagesInit => PackagesInv
  BY PackagesInitInv
<1>2. PackagesInv /\ [PackagesNext]_packageVars => PackagesInv'
  BY PackagesNextInv
<1> QED
  BY <1>1, <1>2, PTL DEF PackagesSpec

(* Every reachable state is of the declared types. *)
THEOREM PackagesTypeCorrect == PackagesSpec => []PackagesTypeOK
<1>1. PackagesInv => PackagesTypeOK
  BY DEF PackagesInv
<1> QED
  BY <1>1, PackagesInvariance, PTL

(* The stored net weight is always the stored gross weight less the stored tare, *)
(* and never negative.                                                       *)
THEOREM NetCorrect == PackagesSpec => []NetIsGrossMinusTare
<1>1. PackagesInv => NetIsGrossMinusTare
  BY DEF PackagesInv
<1> QED
  BY <1>1, PackagesInvariance, PTL

(* The newest trail row of a kind tells a unit's packaging type, location and    *)
(* status, unless corrections of that column inserted their rows in one order  *)
(* and updated the unit in the other.                                        *)
THEOREM TrailCorrect == PackagesSpec => []TrailExplainsUnit
<1>1. PackagesInv => TrailExplainsUnit
  BY DEF PackagesInv
<1> QED
  BY <1>1, PackagesInvariance, PTL

-----------------------------------------------------------------------------
(* How the rows of the units change in a step: not at all, a new one under a    *)
(* free barcode, or one existing row that keeps its batch and stays voided.   *)
LEMMA RowsChange ==
  ASSUME PackagesInv, [PackagesNext]_packageVars
  PROVE  \/ UNCHANGED bag
         \/ \E r \in Req, g \in Barcode :
              /\ AnswerBag(r) /\ UNCHANGED status /\ bag[g] = NoBag
              /\ bagReq[r].pc = "createInsert"
              /\ bag' = [bag EXCEPT ![g] = NewRow(bagReq[r])]
         \/ \E r \in Req, row \in Row :
              /\ AnswerBag(r) /\ UNCHANGED status /\ bag[bagReq[r].code] # NoBag
              /\ bagReq[r].pc \in {"correctCommit", "voidCommit"}
              /\ bag' = [bag EXCEPT ![bagReq[r].code] = row]
              /\ row.batch = bag[bagReq[r].code].batch
              /\ bag[bagReq[r].code].status = "VOIDED" => row.status = "VOIDED"
<1> DEFINE Goal == \E r \in Req, row \in Row :
              /\ AnswerBag(r) /\ UNCHANGED status /\ bag[bagReq[r].code] # NoBag
              /\ bagReq[r].pc \in {"correctCommit", "voidCommit"}
              /\ bag' = [bag EXCEPT ![bagReq[r].code] = row]
              /\ row.batch = bag[bagReq[r].code].batch
              /\ bag[bagReq[r].code].status = "VOIDED" => row.status = "VOIDED"
<1>1. ASSUME NEW r \in Req, NEW g \in Barcode, CreateInsert(r, g)
      PROVE  UNCHANGED bag \/ (/\ AnswerBag(r) /\ UNCHANGED status /\ bag[g] = NoBag
                               /\ bagReq[r].pc = "createInsert"
                               /\ bag' = [bag EXCEPT ![g] = NewRow(bagReq[r])])
  BY <1>1 DEF CreateInsert
<1>2. ASSUME NEW r \in Req, CorrectCommit(r)
      PROVE  Goal
  <2> DEFINE row == CorrectedRow(bag[bagReq[r].code], bagReq[r])
  <2>1. /\ bagReq[r].pc = "correctCommit" /\ bag[bagReq[r].code] # NoBag
        /\ bag[bagReq[r].code] \in Row
    BY <1>2, BagRequestFields
      DEF PackagesInv, PackagesTypeOK, CorrectCommit, UnitExists, CorrectRecorded
  <2>2. row \in Row
    BY <1>2, CorrectedRowType
  <2>3. row.batch = bag[bagReq[r].code].batch /\ row.status = bag[bagReq[r].code].status
    BY <2>1 DEF CorrectedRow, Row
  <2>4. /\ bag' = [bag EXCEPT ![bagReq[r].code] = row]
        /\ AnswerBag(r) /\ UNCHANGED status
    BY <1>2 DEF CorrectCommit
  <2> HIDE DEF row
  <2> QED
    BY <2>1, <2>2, <2>3, <2>4
<1>3. ASSUME NEW r \in Req, VoidCommit(r)
      PROVE  Goal
  <2> DEFINE row == [bag[bagReq[r].code] EXCEPT !.status = "VOIDED"]
  <2>1. /\ bagReq[r].pc = "voidCommit" /\ bag[bagReq[r].code] # NoBag
        /\ bag[bagReq[r].code] \in Row
    BY <1>3, BagRequestFields DEF PackagesInv, PackagesTypeOK, VoidCommit, UnitExists, VoidRead
  <2>2. row \in Row /\ row.batch = bag[bagReq[r].code].batch /\ row.status = "VOIDED"
    BY <2>1 DEF Row
  <2>3. /\ bag' = [bag EXCEPT ![bagReq[r].code] = row]
        /\ AnswerBag(r) /\ UNCHANGED status
    BY <1>3 DEF VoidCommit
  <2> HIDE DEF row
  <2> QED
    BY <2>1, <2>2, <2>3
<1>4. ~(\/ \E r \in Req, g \in Barcode : CreateInsert(r, g)
        \/ \E r \in Req : CorrectCommit(r) \/ VoidCommit(r)) => UNCHANGED bag
  BY DEF PackagesNext, BagStep, CreateLoad, CreatePrice, CorrectLoad, CorrectPrice, CorrectRecord, VoidLoad,
         AbortBag, UpdatePackagingType, ConfirmBatch, bagVars, packageVars
<1> QED
  BY <1>1, <1>2, <1>3, <1>4

(* A voided unit never becomes active again, and never moves to another batch. *)
THEOREM VoidForGood == PackagesSpec => VoidIsFinal
<1>1. ASSUME PackagesInv, [PackagesNext]_packageVars
      PROVE  \A g \in Barcode :
               bag[g] # NoBag /\ bag[g].status = "VOIDED" =>
                 /\ bag'[g] # NoBag
                 /\ bag'[g].status = "VOIDED"
                 /\ bag'[g].batch = bag[g].batch
  <2>1. bag \in [Barcode -> Row \cup {NoBag}]
    BY <1>1 DEF PackagesInv, PackagesTypeOK
  <2> QED
    BY <1>1, <2>1, RowsChange, NoBagAssumption
<1> QED
  BY <1>1, PackagesInvariance, PTL DEF PackagesSpec, VoidIsFinal

-----------------------------------------------------------------------------
(* A unit is never deleted and never moves to another batch. *)
LEMMA BatchIsFixed ==
  ASSUME PackagesInv, [PackagesNext]_packageVars, NEW g \in Barcode, bag[g] # NoBag
  PROVE  bag'[g] # NoBag /\ bag'[g].batch = bag[g].batch
<1>1. bag \in [Barcode -> Row \cup {NoBag}]
  BY DEF PackagesInv, PackagesTypeOK
<1> QED
  BY <1>1, RowsChange, NoBagAssumption

(* A step leaves the rows of a drained batch alone: only a request in flight on *)
(* a batch changes them.                                                      *)
LEMMA RowsOfDrained ==
  ASSUME PackagesInv, [PackagesNext]_packageVars, NEW b \in Batch, Drained(b)
  PROVE  RowsOf(b)' = RowsOf(b)
<1> SUFFICES ASSUME NEW g \in Barcode
             PROVE  \/ bag'[g] = bag[g]
                    \/ /\ bag[g] = NoBag \/ bag[g].batch # b
                       /\ bag'[g] = NoBag \/ bag'[g].batch # b
  BY DEF RowsOf
<1>1. bag \in [Barcode -> Row \cup {NoBag}]
  BY DEF PackagesInv, PackagesTypeOK
<1>2. ASSUME NEW r \in Req, NEW h \in Barcode, bag[h] = NoBag, bagReq[r].pc = "createInsert",
             bag' = [bag EXCEPT ![h] = NewRow(bagReq[r])]
      PROVE  bag'[g] = bag[g] \/ (bag[g] = NoBag /\ bag'[g].batch # b)
  <2>1. bagReq[r].batch # b
    BY <1>2 DEF Drained, InFlightOn
  <2>2. NewRow(bagReq[r]).batch # b
    BY <2>1 DEF NewRow
  <2> QED
    BY <1>1, <1>2, <2>2
<1>3. ASSUME NEW r \in Req, NEW row \in Row, bag[bagReq[r].code] # NoBag,
             bagReq[r].pc \in {"correctCommit", "voidCommit"},
             bag' = [bag EXCEPT ![bagReq[r].code] = row],
             row.batch = bag[bagReq[r].code].batch
      PROVE  bag'[g] = bag[g] \/ (bag[g].batch # b /\ bag'[g].batch # b)
  <2>1. bag[bagReq[r].code].batch # b
    BY <1>3 DEF Drained, InFlightOn
  <2> QED
    BY <1>1, <1>3, <2>1
<1> QED
  BY <1>2, <1>3, RowsChange

(* A request of another batch, moving on, is still one of another batch. *)
Elsewhere(q, b) ==
  /\ q.pc \in {"createPrice", "createInsert"} => q.batch # b
  /\ q.pc \in {"correctPrice", "correctRecord", "correctCommit", "voidCommit"} =>
       q.code \in Barcode /\ bag[q.code] # NoBag /\ bag[q.code].batch # b

LEMMA MoveDrained ==
  ASSUME PackagesInv, [PackagesNext]_packageVars, NEW b \in Batch, Drained(b),
         NEW r \in Req, NEW q, BagBecomes(r, q), Elsewhere(q, b)
  PROVE  \A s \in Req : ~InFlightOn(s, b)'
<1> SUFFICES ASSUME NEW s \in Req
             PROVE  ~InFlightOn(s, b)'
  OBVIOUS
<1>1. CASE s = r
  <2>1. bagReq'[s] = q
    BY <1>1 DEF PackagesInv, PackagesTypeOK, BagBecomes
  <2>2. q.pc \in {"correctPrice", "correctRecord", "correctCommit", "voidCommit"} =>
          bag'[q.code].batch # b
    BY BatchIsFixed DEF Elsewhere
  <2> QED
    BY <2>1, <2>2 DEF InFlightOn, Elsewhere
<1>2. CASE s # r
  <2>1. bagReq'[s] = bagReq[s]
    BY <1>2 DEF PackagesInv, PackagesTypeOK, BagBecomes
  <2>2. bagReq[s].pc \in {"correctPrice", "correctRecord", "correctCommit", "voidCommit"} =>
          bagReq[s].code \in Barcode /\ bag[bagReq[s].code] # NoBag /\ bag[bagReq[s].code].batch # b
    BY BagRequestFields
       DEF PackagesInv, UnitExists, Drained, InFlightOn, CorrectRead, CorrectPriced,
           CorrectRecorded, VoidRead
  <2>3. bagReq[s].pc \in {"correctPrice", "correctRecord", "correctCommit", "voidCommit"} =>
          bag'[bagReq[s].code].batch # b
    BY <2>2, BatchIsFixed
  <2> QED
    BY <2>1, <2>3 DEF InFlightOn, Drained
<1> QED
  BY <1>1, <1>2

LEMMA AnswerDrained ==
  ASSUME PackagesInv, [PackagesNext]_packageVars, NEW b \in Batch, Drained(b),
         NEW r \in Req, AnswerBag(r)
  PROVE  \A s \in Req : ~InFlightOn(s, b)'
  BY MoveDrained DEF AnswerBag, Idle, Elsewhere

(* No step makes a request in flight on a drained batch: the first read of one  *)
(* that starts finds it confirmed.                                            *)
LEMMA NoNewRequest ==
  ASSUME PackagesInv, [PackagesNext]_packageVars, NEW b \in Batch, Drained(b)
  PROVE  \A s \in Req : ~InFlightOn(s, b)'
<1> DEFINE Quiet == \A s \in Req : ~InFlightOn(s, b)'
<1>1. ASSUME NEW r \in Req, NEW c \in Batch, NEW ask \in Ask(Gross), CreateLoad(r, c, ask)
      PROVE  Quiet
  <2>1. CASE /\ status[c] = "PENDING"
             /\ BagBecomes(r, [pc |-> "createPrice", batch |-> c, ask |-> ask])
    <3>1. Elsewhere([pc |-> "createPrice", batch |-> c, ask |-> ask], b)
      BY <2>1 DEF Elsewhere, Drained
    <3> QED
      BY <2>1, <3>1, MoveDrained
  <2> QED
    BY <1>1, <2>1, AnswerDrained DEF CreateLoad
<1>2. ASSUME NEW r \in Req, CreatePrice(r)
      PROVE  Quiet
  <2> DEFINE n == [pc |-> "createInsert", batch |-> bagReq[r].batch, ask |-> bagReq[r].ask,
                   tare |-> pack[bagReq[r].ask.type].tare, tries |-> 0]
  <2>1. Elsewhere(n, b)
    BY <1>2 DEF Elsewhere, Drained, InFlightOn, CreatePrice
  <2>2. BagBecomes(r, n) \/ AnswerBag(r)
    BY <1>2 DEF CreatePrice
  <2> HIDE DEF n
  <2> QED
    BY <2>1, <2>2, MoveDrained, AnswerDrained
<1>3. ASSUME NEW r \in Req, NEW g \in Barcode, CreateInsert(r, g)
      PROVE  Quiet
  <2> DEFINE n == [bagReq[r] EXCEPT !.tries = @ + 1]
  <2>1. bagReq[r] \in CreatePriced /\ bagReq[r].pc = "createInsert" /\ bagReq[r].batch # b
    BY <1>3, BagRequestFields DEF PackagesInv, CreateInsert, Drained, InFlightOn
  <2>2. n.pc = "createInsert" /\ n.batch = bagReq[r].batch
    BY <2>1 DEF CreatePriced
  <2>3. BagBecomes(r, n) \/ AnswerBag(r)
    BY <1>3 DEF CreateInsert
  <2> HIDE DEF n
  <2>4. Elsewhere(n, b)
    BY <2>1, <2>2 DEF Elsewhere
  <2> QED
    BY <2>3, <2>4, MoveDrained, AnswerDrained
<1>4. ASSUME NEW r \in Req, NEW g \in Barcode, CorrectLoad(r, g)
      PROVE  Quiet
  <2>1. ASSUME Correctable(g),
               NEW ask,
               BagBecomes(r, [pc |-> "correctPrice", code |-> g, old |-> bag[g], ask |-> ask])
        PROVE  Quiet
    <3>1. bag[g] # NoBag /\ bag[g].batch # b
      BY <1>4, <2>1 DEF CorrectLoad, Correctable, Drained
    <3>2. Elsewhere([pc |-> "correctPrice", code |-> g, old |-> bag[g], ask |-> ask], b)
      BY <3>1 DEF Elsewhere
    <3> QED
      BY <2>1, <3>2, MoveDrained
  <2> QED
    BY <1>4, <2>1, AnswerDrained DEF CorrectLoad
<1>5. ASSUME NEW r \in Req, CorrectPrice(r)
      PROVE  Quiet
  <2> DEFINE n == [pc |-> "correctRecord", code |-> bagReq[r].code, old |-> bagReq[r].old,
                   ask |-> bagReq[r].ask, tare |-> TareFor(bagReq[r])]
  <2>1. /\ bagReq[r] \in CorrectRead /\ bagReq[r].pc = "correctPrice"
        /\ bag[bagReq[r].code] # NoBag /\ bag[bagReq[r].code].batch # b
    BY <1>5, BagRequestFields DEF PackagesInv, UnitExists, CorrectPrice, Drained, InFlightOn
  <2>2. n.pc = "correctRecord" /\ n.code = bagReq[r].code /\ bagReq[r].code \in Barcode
    BY <2>1 DEF CorrectRead
  <2>3. BagBecomes(r, n) \/ AnswerBag(r)
    BY <1>5 DEF CorrectPrice
  <2> HIDE DEF n
  <2>4. Elsewhere(n, b)
    BY <2>1, <2>2 DEF Elsewhere
  <2> QED
    BY <2>3, <2>4, MoveDrained, AnswerDrained
<1>9. ASSUME NEW r \in Req, CorrectRecord(r)
      PROVE  Quiet
  <2> DEFINE n == [pc |-> "correctCommit", code |-> bagReq[r].code, old |-> bagReq[r].old,
                   ask |-> bagReq[r].ask, tare |-> bagReq[r].tare, at |-> clock + 1]
  <2>1. /\ bagReq[r] \in CorrectPriced /\ bagReq[r].pc = "correctRecord"
        /\ bag[bagReq[r].code] # NoBag /\ bag[bagReq[r].code].batch # b
    BY <1>9, BagRequestFields DEF PackagesInv, UnitExists, CorrectRecord, Drained, InFlightOn
  <2>2. n.pc = "correctCommit" /\ n.code = bagReq[r].code /\ bagReq[r].code \in Barcode
    BY <2>1 DEF CorrectPriced
  <2>3. BagBecomes(r, n)
    BY <1>9 DEF CorrectRecord
  <2> HIDE DEF n
  <2>4. Elsewhere(n, b)
    BY <2>1, <2>2 DEF Elsewhere
  <2> QED
    BY <2>3, <2>4, MoveDrained
<1>6. ASSUME NEW r \in Req, NEW g \in Barcode, VoidLoad(r, g)
      PROVE  Quiet
  <2>1. Correctable(g) => Elsewhere([pc |-> "voidCommit", code |-> g], b)
    BY <1>6 DEF VoidLoad, Correctable, Drained, Elsewhere
  <2> QED
    BY <1>6, <2>1, MoveDrained, AnswerDrained DEF VoidLoad
<1>7. ASSUME NEW r \in Req, CorrectCommit(r) \/ VoidCommit(r) \/ AbortBag(r)
      PROVE  Quiet
  BY <1>7, AnswerDrained DEF CorrectCommit, VoidCommit, AbortBag
<1>8. ASSUME UNCHANGED <<bag, bagReq>>
      PROVE  Quiet
  BY <1>8 DEF Drained, InFlightOn
<1> QED
  BY <1>1, <1>2, <1>3, <1>4, <1>5, <1>6, <1>7, <1>8, <1>9
     DEF PackagesNext, BagStep, UpdatePackagingType, ConfirmBatch, bagVars, packageVars

(* A confirmed batch stays confirmed. *)
LEMMA ConfirmedStays ==
  ASSUME PackagesInv, [PackagesNext]_packageVars, NEW b \in Batch, status[b] = "CONFIRMED"
  PROVE  status'[b] = "CONFIRMED"
<1>1. (\E c \in Batch : ConfirmBatch(c)) \/ UNCHANGED status
  BY DEF PackagesNext, BagStep, CreateLoad, CreatePrice, CreateInsert, CorrectLoad, CorrectPrice,
         CorrectRecord, CorrectCommit, VoidLoad, VoidCommit, AbortBag, UpdatePackagingType, packageVars
<1>2. status \in [Batch -> {"PENDING", "CONFIRMED"}]
  BY DEF PackagesInv, PackagesTypeOK
<1> QED
  BY <1>1, <1>2 DEF ConfirmBatch

(* A step keeps a drained batch drained, and its rows. *)
LEMMA DrainedStays ==
  ASSUME PackagesInv, [PackagesNext]_packageVars, NEW b \in Batch, Drained(b)
  PROVE  Drained(b)' /\ RowsOf(b)' = RowsOf(b)
<1>1. status'[b] = "CONFIRMED"
  BY ConfirmedStays DEF Drained
<1>2. \A s \in Req : ~InFlightOn(s, b)'
  BY NoNewRequest
<1>3. Drained(b)'
  BY <1>1, <1>2 DEF Drained
<1> QED
  BY <1>3, RowsOfDrained

(* A confirmed batch that has no request in flight is frozen from then on. *)
THEOREM Freeze == PackagesSpec => FreezeHoldsOnceDrained
<1>1. PackagesInv /\ [PackagesNext]_packageVars =>
        \A b \in Batch : Drained(b) => Drained(b)' /\ RowsOf(b)' = RowsOf(b)
  BY DrainedStays
<1> QED
  BY <1>1, PackagesInvariance, PTL DEF PackagesSpec, FreezeHoldsOnceDrained
=============================================================================
