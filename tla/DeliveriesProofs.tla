-------------------------- MODULE DeliveriesProofs --------------------------
(***************************************************************************)
(* Proofs about Deliveries, for any number of requests, groups and months    *)
(* and any limits.  Rows are never removed and never change, so what a       *)
(* request has seen taken stays taken; with the unique constraint on the     *)
(* group this makes every reply the same.                                   *)
(***************************************************************************)
EXTENDS Deliveries, SequenceTheorems, FiniteSetTheorems, TLAPS

(* The unique constraint on the group: no group has two batches in a delivery. *)
OneBatchPerGroup ==
  \A d \in Code : \A i, j \in 1 .. MaxBatch :
    batch[d][i] # NULL /\ batch[d][i] = batch[d][j] => i = j

(* What a request has learnt of the rows D and B: the number it tried in vain is  *)
(* taken, a refused insert has met the code or the group, a reply is of its group. *)
Learnt(q, D, B) ==
  /\ q.pc = "deliveryCode" /\ q.last # 0 => [month |-> q.month, seq |-> q.last] \in D
  /\ q.pc = "batchCode" /\ q.last # 0 => B[q.delivery][q.last] # NULL
  /\ q.pc = "raced" =>
       \/ B[q.delivery][q.seq] # NULL
       \/ \E i \in 1 .. MaxBatch : B[q.delivery][i] = q.group
  /\ q.pc = "replied" => B[q.delivery][q.seq] = q.group

(* The inductive invariant. *)
Inv ==
  /\ TypeOK
  /\ OneBatchPerGroup
  /\ \A r \in Req : Learnt(req[r], delivery, batch)

Batches == [Code -> [1 .. MaxBatch -> Group \cup {NULL}]]

(* D and B hold every row of E and C. *)
Extend(D, B, E, C) ==
  /\ E \subseteq D
  /\ \A d \in Code, i \in 1 .. MaxBatch : C[d][i] # NULL => B[d][i] = C[d][i]

(* A request in each step has the fields of that step. *)
LEMMA RequestFields ==
  ASSUME NEW q \in Request
  PROVE  /\ q.pc = "idle" => q = Idle
         /\ q.pc = "deliveryCode" => q \in Opening
         /\ q.pc = "deliveryInsert" => q \in OpeningAs
         /\ q.pc = "find" => q \in Finding
         /\ q.pc = "batchCode" => q \in Numbering
         /\ q.pc \in {"batchInsert", "raced"} => q \in Inserting
         /\ q.pc = "replied" => q \in Replied
  BY DEF Request, Idle, Opening, OpeningAs, Finding, Numbering, Inserting, Replied

(* What was learnt of the rows stays true when rows are added. *)
LEMMA LearntStays ==
  ASSUME NEW q \in Request, NEW D, NEW E, NEW B \in Batches, NEW C \in Batches,
         Extend(D, B, E, C), Learnt(q, E, C)
  PROVE  Learnt(q, D, B)
<1>1. CASE q.pc = "deliveryCode"
  BY <1>1 DEF Learnt, Extend
<1>2. CASE q.pc = "batchCode"
  <2>1. q \in Numbering
    BY <1>2, RequestFields
  <2>2. q.last # 0 => q.last \in 1 .. MaxBatch
    BY <2>1, LimitAssumption DEF Numbering
  <2> QED BY <1>2, <2>1, <2>2 DEF Learnt, Extend, Numbering
<1>3. CASE q.pc = "raced"
  <2>1. q \in Inserting
    BY <1>3, RequestFields
  <2>2. q.group # NULL
    BY <2>1, GroupAssumption DEF Inserting
  <2> QED BY <1>3, <2>1, <2>2 DEF Learnt, Extend, Inserting
<1>4. CASE q.pc = "replied"
  <2>1. q \in Replied
    BY <1>4, RequestFields
  <2>2. q.group # NULL
    BY <2>1, GroupAssumption DEF Replied
  <2> QED BY <1>4, <2>1, <2>2 DEF Learnt, Extend, Replied
<1> QED BY <1>1, <1>2, <1>3, <1>4 DEF Learnt

(* A step that moves one request, adds rows and keeps the constraint.  *)
LEMMA Moved ==
  ASSUME Inv, NEW r \in Req, NEW q \in Request, Becomes(r, q),
         month' \in Month, delivery' \subseteq Code, batch' \in Batches,
         Extend(delivery', batch', delivery, batch),
         Learnt(q, delivery', batch'),
         OneBatchPerGroup'
  PROVE  Inv'
<1>1. /\ TypeOK
      /\ \A s \in Req : Learnt(req[s], delivery, batch)
  BY DEF Inv
<1>2. req' = [req EXCEPT ![r] = q]
  BY DEF Becomes
<1>3. TypeOK'
  BY <1>1, <1>2 DEF TypeOK, Batches
<1>4. ASSUME NEW s \in Req
      PROVE  Learnt(req'[s], delivery', batch')
  <2>1. CASE s = r
    BY <1>1, <1>2, <2>1 DEF TypeOK
  <2>2. CASE s # r
    <3>1. req'[s] = req[s] /\ req[s] \in Request /\ batch \in Batches
      BY <1>1, <1>2, <2>2 DEF TypeOK, Batches
    <3>2. Learnt(req[s], delivery', batch')
      BY <1>1, <3>1, LearntStays
    <3> QED BY <3>1, <3>2
  <2> QED BY <2>1, <2>2
<1> QED BY <1>3, <1>4 DEF Inv

LEMMA InitInv == Init => Inv
<1> SUFFICES ASSUME Init PROVE Inv
  OBVIOUS
<1>1. TypeOK
  BY DEF Init, TypeOK, Request
<1>2. OneBatchPerGroup
  BY DEF Init, OneBatchPerGroup
<1>3. \A r \in Req : Learnt(req[r], delivery, batch)
  BY DEF Init, Learnt, Idle
<1> QED BY <1>1, <1>2, <1>3 DEF Inv

(* A step that only moves a request. *)
LEMMA OnlyMoved ==
  ASSUME Inv, NEW r \in Req, NEW q \in Request, Becomes(r, q),
         UNCHANGED <<month, delivery, batch>>,
         Learnt(q, delivery, batch)
  PROVE  Inv'
<1>1. TypeOK /\ OneBatchPerGroup
  BY DEF Inv
<1>2. /\ month' \in Month
      /\ delivery' \subseteq Code
      /\ batch' \in Batches
      /\ OneBatchPerGroup'
  BY <1>1 DEF TypeOK, Batches, OneBatchPerGroup
<1>3. Extend(delivery', batch', delivery, batch) /\ Learnt(q, delivery', batch')
  BY DEF Extend
<1> QED BY <1>2, <1>3, Moved

LEMMA AnswerInv ==
  ASSUME Inv, NEW r \in Req, Answer(r), UNCHANGED <<month, delivery, batch>>
  PROVE  Inv'
<1>1. Idle \in Request /\ Learnt(Idle, delivery, batch)
  BY DEF Request, Idle, Learnt
<1> QED BY <1>1, OnlyMoved DEF Answer

LEMMA NextDeliveryCodeInv ==
  ASSUME Inv, NEW r \in Req, NextDeliveryCode(r)
  PROVE  Inv'
<1>1. req[r] \in Opening
  BY RequestFields DEF NextDeliveryCode, Inv, TypeOK
<1>2. PICK n \in 0 .. MaxDelivery :
        \/ /\ n < MaxDelivery
           /\ Becomes(r, [pc |-> "deliveryInsert", month |-> req[r].month, seq |-> n + 1,
                          tries |-> req[r].tries])
        \/ Answer(r)
  BY DEF NextDeliveryCode
<1>3. UNCHANGED <<month, delivery, batch>>
  BY DEF NextDeliveryCode
<1>4. CASE Answer(r)
  BY <1>3, <1>4, AnswerInv
<1>5. CASE n < MaxDelivery /\ ~Answer(r)
  <2> DEFINE q == [pc |-> "deliveryInsert", month |-> req[r].month, seq |-> n + 1,
                   tries |-> req[r].tries]
  <2>1. n + 1 \in 1 .. MaxDelivery
    BY <1>5, LimitAssumption
  <2>2. q \in Request
    BY <1>1, <2>1 DEF Opening, OpeningAs, Request
  <2>3. Becomes(r, q) /\ Learnt(q, delivery, batch)
    BY <1>2, <1>5 DEF Learnt
  <2> QED BY <1>3, <2>2, <2>3, OnlyMoved
<1> QED BY <1>2, <1>4, <1>5

LEMMA InsertDeliveryInv ==
  ASSUME Inv, NEW r \in Req, InsertDelivery(r)
  PROVE  Inv'
<1> DEFINE q == req[r]
           code == [month |-> q.month, seq |-> q.seq]
<1>1. q \in OpeningAs /\ code \in Code
  BY RequestFields DEF InsertDelivery, Inv, TypeOK, OpeningAs, Code
<1>2. TypeOK /\ OneBatchPerGroup
  BY DEF Inv
<1>3. UNCHANGED <<month, batch>>
  BY DEF InsertDelivery
<1>4. CASE delivery' = delivery \cup {code} /\ Answer(r)
  <2>1. Idle \in Request /\ Learnt(Idle, delivery', batch')
    BY DEF Request, Idle, Learnt
  <2>2. /\ month' \in Month
        /\ delivery' \subseteq Code
        /\ batch' \in Batches
        /\ OneBatchPerGroup'
    BY <1>1, <1>2, <1>3, <1>4 DEF TypeOK, Batches, OneBatchPerGroup
  <2>3. Extend(delivery', batch', delivery, batch)
    BY <1>3, <1>4 DEF Extend
  <2> QED BY <1>4, <2>1, <2>2, <2>3, Moved DEF Answer
<1>5. CASE Answer(r) /\ UNCHANGED delivery
  BY <1>3, <1>5, AnswerInv
<1>6. CASE /\ code \in delivery
           /\ q.tries + 1 # MaxAttempts
           /\ Becomes(r, [pc |-> "deliveryCode", month |-> q.month, last |-> q.seq,
                          tries |-> q.tries + 1])
           /\ UNCHANGED delivery
  <2> DEFINE p == [pc |-> "deliveryCode", month |-> q.month, last |-> q.seq,
                   tries |-> q.tries + 1]
  <2>1. q.tries + 1 \in 0 .. MaxAttempts - 1 /\ q.seq \in 0 .. MaxDelivery
    BY <1>1, <1>6, LimitAssumption DEF OpeningAs
  <2>2. p \in Request
    BY <1>1, <2>1 DEF OpeningAs, Opening, Request
  <2>3. Learnt(p, delivery, batch)
    BY <1>6 DEF Learnt
  <2> QED BY <1>3, <1>6, <2>2, <2>3, OnlyMoved
<1>7. \/ delivery' = delivery \cup {code} /\ Answer(r)
      \/ Answer(r) /\ UNCHANGED delivery
      \/ /\ code \in delivery
         /\ q.tries + 1 # MaxAttempts
         /\ Becomes(r, [pc |-> "deliveryCode", month |-> q.month, last |-> q.seq,
                        tries |-> q.tries + 1])
         /\ UNCHANGED delivery
  BY DEF InsertDelivery
<1> QED BY <1>4, <1>5, <1>6, <1>7

LEMMA FindBatchInv ==
  ASSUME Inv, NEW r \in Req, FindBatch(r)
  PROVE  Inv'
<1> DEFINE q == req[r]
<1>1. q \in Finding
  BY RequestFields DEF FindBatch, Inv, TypeOK
<1>2. UNCHANGED <<month, delivery, batch>>
  BY DEF FindBatch
<1>3. ASSUME NEW i \in 1 .. MaxBatch, IsBatchOf(q.delivery, q.group, i), Reply(r, i)
      PROVE  Inv'
  <2> DEFINE p == [pc |-> "replied", delivery |-> q.delivery, group |-> q.group, seq |-> i]
  <2>1. p \in Request /\ Learnt(p, delivery, batch)
    BY <1>1, <1>3 DEF Finding, Replied, Request, Learnt, IsBatchOf
  <2> QED BY <1>2, <1>3, <2>1, OnlyMoved DEF Reply
<1>4. CASE Becomes(r, [pc |-> "batchCode", delivery |-> q.delivery, group |-> q.group,
                       last |-> 0, tries |-> 0])
  <2> DEFINE p == [pc |-> "batchCode", delivery |-> q.delivery, group |-> q.group,
                   last |-> 0, tries |-> 0]
  <2>1. 0 \in 0 .. MaxBatch /\ 0 \in 0 .. MaxAttempts - 1
    BY LimitAssumption
  <2>2. p \in Request /\ Learnt(p, delivery, batch)
    BY <1>1, <2>1 DEF Finding, Numbering, Request, Learnt
  <2> QED BY <1>2, <1>4, <2>2, OnlyMoved
<1> QED BY <1>3, <1>4 DEF FindBatch

LEMMA NextBatchCodeInv ==
  ASSUME Inv, NEW r \in Req, NextBatchCode(r)
  PROVE  Inv'
<1> DEFINE q == req[r]
<1>1. q \in Numbering
  BY RequestFields DEF NextBatchCode, Inv, TypeOK
<1>2. UNCHANGED <<month, delivery, batch>>
  BY DEF NextBatchCode
<1>3. PICK n \in 0 .. MaxBatch :
        \/ /\ n < MaxBatch
           /\ Becomes(r, [pc |-> "batchInsert", delivery |-> q.delivery,
                          group |-> q.group, seq |-> n + 1, tries |-> q.tries])
        \/ Answer(r)
  BY DEF NextBatchCode
<1>4. CASE Answer(r)
  BY <1>2, <1>4, AnswerInv
<1>5. CASE n < MaxBatch /\ ~Answer(r)
  <2> DEFINE p == [pc |-> "batchInsert", delivery |-> q.delivery, group |-> q.group,
                   seq |-> n + 1, tries |-> q.tries]
  <2>1. n + 1 \in 1 .. MaxBatch
    BY <1>5, LimitAssumption
  <2>2. p \in Request
    BY <1>1, <2>1 DEF Numbering, Inserting, Request
  <2>3. Becomes(r, p) /\ Learnt(p, delivery, batch)
    BY <1>3, <1>5 DEF Learnt
  <2> QED BY <1>2, <2>2, <2>3, OnlyMoved
<1> QED BY <1>3, <1>4, <1>5

LEMMA InsertBatchInv ==
  ASSUME Inv, NEW r \in Req, InsertBatch(r)
  PROVE  Inv'
<1> DEFINE q == req[r]
           free == batch[q.delivery][q.seq] = NULL /\ ~GroupTaken(q.delivery, q.group)
<1>1. q \in Inserting /\ q.pc = "batchInsert"
  BY RequestFields DEF InsertBatch, Inv, TypeOK
<1>2. /\ TypeOK
      /\ OneBatchPerGroup
      /\ batch \in Batches
  BY DEF Inv, TypeOK, Batches
<1>3. UNCHANGED <<month, delivery>>
  BY DEF InsertBatch
<1>4. q.delivery \in Code /\ q.group \in Group /\ q.seq \in 1 .. MaxBatch /\ q.group # NULL
  BY <1>1, GroupAssumption DEF Inserting
<1>5. CASE free /\ batch' = [batch EXCEPT ![q.delivery][q.seq] = q.group] /\ Reply(r, q.seq)
  <2> DEFINE p == [pc |-> "replied", delivery |-> q.delivery, group |-> q.group,
                   seq |-> q.seq]
  <2>1. batch' \in Batches /\ batch'[q.delivery][q.seq] = q.group
    BY <1>2, <1>4, <1>5 DEF Batches
  <2>2. \A d \in Code, i \in 1 .. MaxBatch :
          ~(d = q.delivery /\ i = q.seq) => batch'[d][i] = batch[d][i]
    BY <1>2, <1>4, <1>5 DEF Batches
  <2>3. Extend(delivery', batch', delivery, batch)
    BY <1>3, <1>4, <1>5, <2>2 DEF Extend
  <2>4. \A i \in 1 .. MaxBatch : batch[q.delivery][i] # q.group
    BY <1>4, <1>5 DEF GroupTaken, IsBatchOf, BatchSeqs
  <2>5. OneBatchPerGroup'
    <3> SUFFICES ASSUME NEW d \in Code, NEW i \in 1 .. MaxBatch, NEW j \in 1 .. MaxBatch,
                        batch'[d][i] # NULL, batch'[d][i] = batch'[d][j]
                 PROVE  i = j
      BY DEF OneBatchPerGroup
    <3>1. CASE d = q.delivery
      BY <1>2, <1>4, <2>1, <2>2, <2>4, <3>1 DEF OneBatchPerGroup
    <3>2. CASE d # q.delivery
      BY <1>2, <2>2, <3>2 DEF OneBatchPerGroup
    <3> QED BY <3>1, <3>2
  <2>6. p \in Request /\ Learnt(p, delivery', batch')
    BY <1>4, <2>1 DEF Replied, Request, Learnt
  <2>7. month' \in Month /\ delivery' \subseteq Code
    BY <1>2, <1>3 DEF TypeOK
  <2>8. Becomes(r, p)
    BY <1>5 DEF Reply
  <2> QED BY <2>1, <2>3, <2>5, <2>6, <2>7, <2>8, Moved
<1>6. CASE ~free /\ Becomes(r, [q EXCEPT !.pc = "raced"]) /\ UNCHANGED batch
  <2> DEFINE p == [q EXCEPT !.pc = "raced"]
  <2>1. /\ p \in Inserting
        /\ p.pc = "raced"
        /\ p.delivery = q.delivery
        /\ p.group = q.group
        /\ p.seq = q.seq
    BY <1>1 DEF Inserting
  <2>2. p \in Request
    BY <2>1 DEF Request
  <2>3. \/ batch[q.delivery][q.seq] # NULL
        \/ \E i \in 1 .. MaxBatch : batch[q.delivery][i] = q.group
    BY <1>6 DEF GroupTaken, IsBatchOf
  <2>4. Learnt(p, delivery, batch)
    BY <2>1, <2>3 DEF Learnt
  <2> QED BY <1>3, <1>6, <2>2, <2>4, OnlyMoved
<1> QED BY <1>5, <1>6 DEF InsertBatch

LEMMA AfterConflictInv ==
  ASSUME Inv, NEW r \in Req, AfterConflict(r)
  PROVE  Inv'
<1> DEFINE q == req[r]
<1>1. q \in Inserting /\ q.pc = "raced" /\ Learnt(q, delivery, batch)
  BY RequestFields DEF AfterConflict, Inv, TypeOK
<1>2. UNCHANGED <<month, delivery, batch>>
  BY DEF AfterConflict
<1>3. ASSUME NEW i \in 1 .. MaxBatch, IsBatchOf(q.delivery, q.group, i), Reply(r, i)
      PROVE  Inv'
  <2> DEFINE p == [pc |-> "replied", delivery |-> q.delivery, group |-> q.group, seq |-> i]
  <2>1. p \in Request /\ Learnt(p, delivery, batch)
    BY <1>1, <1>3 DEF Inserting, Replied, Request, Learnt, IsBatchOf
  <2> QED BY <1>2, <1>3, <2>1, OnlyMoved DEF Reply
<1>4. CASE Answer(r)
  BY <1>2, <1>4, AnswerInv
<1>5. CASE /\ ~\E i \in 1 .. MaxBatch : IsBatchOf(q.delivery, q.group, i)
           /\ q.tries + 1 # MaxAttempts
           /\ Becomes(r, [pc |-> "batchCode", delivery |-> q.delivery, group |-> q.group,
                          last |-> q.seq, tries |-> q.tries + 1])
  <2> DEFINE p == [pc |-> "batchCode", delivery |-> q.delivery, group |-> q.group,
                   last |-> q.seq, tries |-> q.tries + 1]
  <2>1. q.tries + 1 \in 0 .. MaxAttempts - 1 /\ q.seq \in 0 .. MaxBatch
    BY <1>1, <1>5, LimitAssumption DEF Inserting
  <2>2. p \in Request
    BY <1>1, <2>1 DEF Inserting, Numbering, Request
  <2>3. batch[q.delivery][q.seq] # NULL
    BY <1>1, <1>5, GroupAssumption DEF Learnt, IsBatchOf, BatchSeqs, Inserting
  <2>4. Learnt(p, delivery, batch)
    BY <2>3 DEF Learnt
  <2> QED BY <1>2, <1>5, <2>2, <2>4, OnlyMoved
<1> QED BY <1>3, <1>4, <1>5 DEF AfterConflict

LEMMA BeginInv ==
  ASSUME Inv, NEW r \in Req,
         \/ OpenDelivery(r)
         \/ \E d \in Code, g \in Group : Resolve(r, d, g)
  PROVE  Inv'
<1>1. CASE OpenDelivery(r)
  <2> DEFINE p == [pc |-> "deliveryCode", month |-> month, last |-> 0, tries |-> 0]
  <2>1. 0 \in 0 .. MaxDelivery /\ 0 \in 0 .. MaxAttempts - 1
    BY LimitAssumption
  <2>2. p \in Request /\ Learnt(p, delivery, batch)
    BY <2>1 DEF Inv, TypeOK, Opening, Request, Learnt
  <2> QED BY <1>1, <2>2, OnlyMoved DEF OpenDelivery
<1>2. ASSUME NEW d \in Code, NEW g \in Group, Resolve(r, d, g)
      PROVE  Inv'
  <2> DEFINE p == [pc |-> "find", delivery |-> d, group |-> g]
  <2>1. p \in Request /\ Learnt(p, delivery, batch)
    BY DEF Finding, Request, Learnt
  <2> QED BY <1>2, <2>1, OnlyMoved DEF Resolve
<1> QED BY <1>1, <1>2

(* The steps of a request. *)
RequestStep(r) ==
  \/ OpenDelivery(r)
  \/ NextDeliveryCode(r)
  \/ InsertDelivery(r)
  \/ \E d \in Code, g \in Group : Resolve(r, d, g)
  \/ FindBatch(r)
  \/ NextBatchCode(r)
  \/ InsertBatch(r)
  \/ AfterConflict(r)
  \/ Abort(r)

LEMMA StepInv == Inv /\ [Next]_vars => Inv'
<1> SUFFICES ASSUME Inv, [Next]_vars PROVE Inv'
  OBVIOUS
<1>1. ASSUME NEW r \in Req, RequestStep(r)
      PROVE  Inv'
  <2>1. Abort(r) => Inv'
    BY AnswerInv DEF Abort
  <2> QED BY <1>1, <2>1, BeginInv, NextDeliveryCodeInv, InsertDeliveryInv, FindBatchInv,
             NextBatchCodeInv, InsertBatchInv, AfterConflictInv DEF RequestStep
<1>2. CASE NextMonth
  BY <1>2 DEF NextMonth, Inv, TypeOK, OneBatchPerGroup
<1>3. CASE UNCHANGED vars
  BY <1>3 DEF vars, Inv, TypeOK, OneBatchPerGroup
<1> QED BY <1>1, <1>2, <1>3 DEF Next, RequestStep

(* Every step of the requests to a delivery keeps the invariant: the rows of a number or  *)
(* group stay unique and what a request has learnt of them stays true.                 *)
THEOREM Invariance == Spec => []Inv
  BY InitInv, StepInv, PTL DEF Spec

(* Types, and with them the limits of codes and attempts: MAX_DELIVERY_SEQUENCE,   *)
(* MAX_BATCH_SEQUENCE and MAX_CODE_ATTEMPTS are never passed.                   *)
THEOREM TypeCorrect == Spec => []TypeOK
<1>1. Inv => TypeOK
  BY DEF Inv
<1> QED BY <1>1, Invariance, PTL

(* Every answer of resolveBatch for one group of one delivery names one batch,     *)
(* and that batch is of the group.                                            *)
THEOREM Agreement == Spec => []RepliesAgree
<1>1. Inv => RepliesAgree
  <2> SUFFICES ASSUME Inv, NEW r \in Req, NEW s \in Req, req[r].pc = "replied"
               PROVE  /\ batch[req[r].delivery][req[r].seq] = req[r].group
                      /\ /\ req[s].pc = "replied"
                         /\ req[s].delivery = req[r].delivery
                         /\ req[s].group = req[r].group
                         => req[s].seq = req[r].seq
    BY DEF RepliesAgree
  <2>1. /\ req[r] \in Replied
        /\ req[s].pc = "replied" => req[s] \in Replied
    BY RequestFields DEF Inv, TypeOK
  <2>2. /\ batch[req[r].delivery][req[r].seq] = req[r].group
        /\ req[s].pc = "replied" => batch[req[s].delivery][req[s].seq] = req[s].group
    BY DEF Inv, Learnt
  <2> QED BY <2>1, <2>2, GroupAssumption DEF Inv, OneBatchPerGroup, Replied
<1> QED BY <1>1, Invariance, PTL

(* It moves that request only. *)
LEMMA MovesOne ==
  ASSUME NEW r \in Req, RequestStep(r)
  PROVE  \E q : Becomes(r, q)
<1>1. NextDeliveryCode(r) \/ NextBatchCode(r) => \E q : Becomes(r, q)
  BY DEF NextDeliveryCode, NextBatchCode, Answer
<1>2. InsertDelivery(r) \/ AfterConflict(r) => \E q : Becomes(r, q)
  BY DEF InsertDelivery, AfterConflict, Answer, Reply
<1>3. FindBatch(r) \/ InsertBatch(r) => \E q : Becomes(r, q)
  BY DEF FindBatch, InsertBatch, Reply
<1>4. OpenDelivery(r) \/ Abort(r) => \E q : Becomes(r, q)
  BY DEF OpenDelivery, Abort, Answer
<1>5. (\E d \in Code, g \in Group : Resolve(r, d, g)) => \E q : Becomes(r, q)
  BY DEF Resolve
<1> QED BY <1>1, <1>2, <1>3, <1>4, <1>5 DEF RequestStep

(* A retry of createDelivery or resolveBatch tries a greater number than before:    *)
(* what it collided with is still there when it reads the greatest again.        *)
THEOREM Progress == Spec => RetryReadsAhead
<1>1. ASSUME Inv, [Next]_vars
      PROVE  \A r \in Req :
               /\ req[r].pc = "batchCode" /\ req'[r].pc = "batchInsert" =>
                    req'[r].seq > req[r].last
               /\ req[r].pc = "deliveryCode" /\ req'[r].pc = "deliveryInsert" =>
                    req'[r].seq > req[r].last
  <2> SUFFICES ASSUME NEW r \in Req
               PROVE  /\ req[r].pc = "batchCode" /\ req'[r].pc = "batchInsert" =>
                           req'[r].seq > req[r].last
                      /\ req[r].pc = "deliveryCode" /\ req'[r].pc = "deliveryInsert" =>
                           req'[r].seq > req[r].last
    OBVIOUS
  <2>1. TypeOK /\ Learnt(req[r], delivery, batch)
    BY <1>1 DEF Inv
  <2>2. req[r].pc # req'[r].pc =>
          \/ req'[r] = Idle
          \/ req[r].pc \notin {"batchCode", "deliveryCode"}
          \/ NextDeliveryCode(r)
          \/ NextBatchCode(r)
    <3>1. ASSUME NEW s \in Req, RequestStep(s)
          PROVE  \/ req'[r] = req[r]
                 \/ req'[r] = Idle
                 \/ req[r].pc \notin {"batchCode", "deliveryCode"}
                 \/ NextDeliveryCode(r)
                 \/ NextBatchCode(r)
      <4>1. s # r => req'[r] = req[r]
        BY <2>1, <3>1, MovesOne DEF TypeOK, Becomes
      <4>2. Abort(r) => req'[r] = Idle
        BY <2>1 DEF Abort, Answer, Becomes, TypeOK
      <4>3. \/ OpenDelivery(r)
            \/ InsertDelivery(r)
            \/ \E d \in Code, g \in Group : Resolve(r, d, g)
            \/ FindBatch(r)
            \/ InsertBatch(r)
            \/ AfterConflict(r)
            => req[r].pc \notin {"batchCode", "deliveryCode"}
        BY DEF OpenDelivery, InsertDelivery, Resolve, FindBatch, InsertBatch, AfterConflict
      <4> QED BY <3>1, <4>1, <4>2, <4>3 DEF RequestStep
    <3>2. NextMonth \/ UNCHANGED vars => req' = req
      BY DEF NextMonth, vars
    <3>3. (\E s \in Req : RequestStep(s)) \/ NextMonth \/ UNCHANGED vars
      BY <1>1 DEF Next, RequestStep
    <3> QED BY <3>1, <3>2, <3>3
  <2>3. CASE NextBatchCode(r)
    <3>1. req[r] \in Numbering /\ req[r].pc = "batchCode"
      BY <2>1, <2>3, RequestFields DEF TypeOK, NextBatchCode
    <3>2. PICK n \in 0 .. MaxBatch :
            /\ Last(BatchSeqs(req[r].delivery), n)
            /\ req'[r].pc = "batchInsert" => req'[r].seq = n + 1
      BY <2>1, <2>3 DEF NextBatchCode, Becomes, Answer, Idle, TypeOK
    <3>3. req[r].last # 0 => req[r].last \in BatchSeqs(req[r].delivery)
      BY <2>1, <3>1, LimitAssumption DEF Learnt, BatchSeqs, Numbering
    <3>4. req[r].last <= n
      BY <3>1, <3>2, <3>3 DEF Last, Numbering
    <3> QED BY <3>1, <3>2, <3>4, LimitAssumption DEF Numbering
  <2>4. CASE NextDeliveryCode(r)
    <3>1. req[r] \in Opening /\ req[r].pc = "deliveryCode"
      BY <2>1, <2>4, RequestFields DEF TypeOK, NextDeliveryCode
    <3>2. PICK n \in 0 .. MaxDelivery :
            /\ Last(DeliverySeqs(req[r].month), n)
            /\ req'[r].pc = "deliveryInsert" => req'[r].seq = n + 1
      BY <2>1, <2>4 DEF NextDeliveryCode, Becomes, Answer, Idle, TypeOK
    <3>3. req[r].last # 0 => req[r].last \in DeliverySeqs(req[r].month)
      BY <2>1, <3>1 DEF Learnt, DeliverySeqs
    <3>4. req[r].last <= n
      BY <3>1, <3>2, <3>3 DEF Last, Opening
    <3> QED BY <3>1, <3>2, <3>4, LimitAssumption DEF Opening
  <2> QED BY <2>2, <2>3, <2>4 DEF Idle
<1> QED BY <1>1, Invariance, PTL DEF Spec, RetryReadsAhead
-----------------------------------------------------------------------------
(* Numbering.  A request that is about to insert a number has seen the number     *)
(* before it taken, and works on a delivery that exists.                        *)
Follows(q, D, B) ==
  /\ q.pc = "deliveryInsert" => q.seq = 1 \/ [month |-> q.month, seq |-> q.seq - 1] \in D
  /\ q.pc = "batchInsert" => q.seq = 1 \/ B[q.delivery][q.seq - 1] # NULL
  /\ q.pc \in {"find", "batchCode", "batchInsert", "raced"} => q.delivery \in D

(* So the numbers in use have no gap. *)
NoGaps ==
  /\ \A m \in Month : \E n \in 0 .. MaxDelivery : DeliverySeqs(m) = 1 .. n
  /\ \A d \in Code : \E n \in 0 .. MaxBatch : BatchSeqs(d) = 1 .. n

NumberInv ==
  /\ NoGaps
  /\ \A r \in Req : Follows(req[r], delivery, batch)

LEMMA FollowsStays ==
  ASSUME NEW q \in Request, NEW D, NEW E, NEW B \in Batches, NEW C \in Batches,
         Extend(D, B, E, C), Follows(q, E, C)
  PROVE  Follows(q, D, B)
<1>1. CASE q.pc = "batchInsert"
  <2>1. q \in Inserting
    BY <1>1, RequestFields
  <2>2. q.seq # 1 => q.seq - 1 \in 1 .. MaxBatch
    BY <2>1, LimitAssumption DEF Inserting
  <2> QED BY <1>1, <2>1, <2>2 DEF Follows, Extend, Inserting
<1>2. CASE q.pc # "batchInsert"
  BY <1>2 DEF Follows, Extend
<1> QED BY <1>1, <1>2

LEMMA MovedNumber ==
  ASSUME Inv, Inv', NumberInv, NEW r \in Req, NEW q, Becomes(r, q),
         Extend(delivery', batch', delivery, batch),
         Follows(q, delivery', batch'), NoGaps'
  PROVE  NumberInv'
<1> SUFFICES ASSUME NEW s \in Req PROVE Follows(req'[s], delivery', batch')
  BY DEF NumberInv
<1>1. CASE s = r
  BY <1>1 DEF Becomes, Inv, TypeOK
<1>2. CASE s # r
  <2>1. req'[s] = req[s] /\ req[s] \in Request /\ batch \in Batches /\ batch' \in Batches
    BY <1>2 DEF Becomes, Inv, TypeOK, Batches
  <2>2. Follows(req[s], delivery', batch')
    BY <2>1, FollowsStays DEF NumberInv
  <2> QED BY <2>1, <2>2
<1> QED BY <1>1, <1>2

LEMMA OnlyMovedNumber ==
  ASSUME Inv, Inv', NumberInv, NEW r \in Req, NEW q, Becomes(r, q),
         UNCHANGED <<delivery, batch>>, Follows(q, delivery, batch)
  PROVE  NumberInv'
<1>1. NoGaps'
  BY DEF NumberInv, NoGaps, DeliverySeqs, BatchSeqs
<1>2. Extend(delivery', batch', delivery, batch) /\ Follows(q, delivery', batch')
  BY DEF Extend
<1> QED BY <1>1, <1>2, MovedNumber

LEMMA InitNumber == Init => NumberInv
<1> SUFFICES ASSUME Init PROVE NumberInv
  OBVIOUS
<1>1. ASSUME NEW m \in Month PROVE \E n \in 0 .. MaxDelivery : DeliverySeqs(m) = 1 .. n
  <2>1. DeliverySeqs(m) = {} /\ 1 .. 0 = {} /\ 0 \in 0 .. MaxDelivery
    BY LimitAssumption DEF Init, DeliverySeqs
  <2> QED BY <2>1
<1>2. ASSUME NEW d \in Code PROVE \E n \in 0 .. MaxBatch : BatchSeqs(d) = 1 .. n
  <2>1. BatchSeqs(d) = {} /\ 1 .. 0 = {} /\ 0 \in 0 .. MaxBatch
    BY LimitAssumption DEF Init, BatchSeqs
  <2> QED BY <2>1
<1>3. \A r \in Req : Follows(req[r], delivery, batch)
  BY DEF Init, Follows, Idle
<1> QED BY <1>1, <1>2, <1>3 DEF NumberInv, NoGaps

(* The number after the greatest taken one follows a taken one, or is 1. *)
LEMMA NextDeliveryCodeNumber ==
  ASSUME Inv, Inv', NumberInv, NEW r \in Req, NextDeliveryCode(r)
  PROVE  NumberInv'
<1> DEFINE q(n) == [pc |-> "deliveryInsert", month |-> req[r].month, seq |-> n + 1,
                    tries |-> req[r].tries]
<1>1. PICK n \in 0 .. MaxDelivery :
        /\ Last(DeliverySeqs(req[r].month), n)
        /\ Becomes(r, q(n)) \/ Becomes(r, Idle)
  BY DEF NextDeliveryCode, Answer
<1>2. Follows(Idle, delivery, batch)
  BY DEF Follows, Idle
<1>3. Follows(q(n), delivery, batch)
  <2>1. CASE n = 0
    BY <2>1 DEF Follows
  <2>2. CASE n # 0
    <3>1. n \in DeliverySeqs(req[r].month)
      BY <1>1, <2>2 DEF Last
    <3>2. PICK d \in delivery : d.month = req[r].month /\ d.seq = n
      BY <3>1 DEF DeliverySeqs
    <3>3. d = [month |-> req[r].month, seq |-> n] /\ n + 1 - 1 = n
      BY <3>2, LimitAssumption DEF Inv, TypeOK, Code
    <3>4. q(n).pc = "deliveryInsert" /\ q(n).month = req[r].month /\ q(n).seq - 1 = n
      BY <3>3
    <3> QED BY <3>2, <3>3, <3>4 DEF Follows
  <2> QED BY <2>1, <2>2
<1> QED BY <1>1, <1>2, <1>3, OnlyMovedNumber DEF NextDeliveryCode

LEMMA NextBatchCodeNumber ==
  ASSUME Inv, Inv', NumberInv, NEW r \in Req, NextBatchCode(r)
  PROVE  NumberInv'
<1> DEFINE q(n) == [pc |-> "batchInsert", delivery |-> req[r].delivery,
                    group |-> req[r].group, seq |-> n + 1, tries |-> req[r].tries]
<1>1. PICK n \in 0 .. MaxBatch :
        /\ Last(BatchSeqs(req[r].delivery), n)
        /\ Becomes(r, q(n)) \/ Becomes(r, Idle)
  BY DEF NextBatchCode, Answer
<1>2. Follows(Idle, delivery, batch)
  BY DEF Follows, Idle
<1>3. req[r].delivery \in delivery
  BY DEF NextBatchCode, NumberInv, Follows
<1>4. Follows(q(n), delivery, batch)
  <2>1. q(n).seq = n + 1 /\ q(n).seq - 1 = n
    OBVIOUS
  <2>2. n = 0 \/ batch[req[r].delivery][n] # NULL
    BY <1>1 DEF Last, BatchSeqs
  <2> QED BY <1>3, <2>1, <2>2 DEF Follows
<1> QED BY <1>1, <1>2, <1>4, OnlyMovedNumber DEF NextBatchCode

(* The inserts: a number that is free and follows a taken one is the next. *)
LEMMA NextNumber ==
  ASSUME NEW n \in Nat, NEW i \in Nat \ {0}, i \notin 1 .. n, i = 1 \/ i - 1 \in 1 .. n
  PROVE  i = n + 1 /\ (1 .. n) \cup {i} = 1 .. n + 1
  OBVIOUS

LEMMA DeliveryNumbered ==
  ASSUME Inv, NumberInv, NEW r \in Req, InsertDelivery(r), delivery' # delivery
  PROVE  \E m \in Month, n \in 0 .. MaxDelivery - 1 :
           /\ DeliverySeqs(m) = 1 .. n
           /\ DeliverySeqs(m)' = 1 .. n + 1
           /\ \A k \in Month \ {m} : DeliverySeqs(k)' = DeliverySeqs(k)
<1>1. PICK m \in Month, i \in 1 .. MaxDelivery :
        req[r].pc = "deliveryInsert" /\ req[r].month = m /\ req[r].seq = i
  BY RequestFields DEF InsertDelivery, Inv, TypeOK, OpeningAs
<1> DEFINE code == [month |-> m, seq |-> i]
<1>2. code \notin delivery /\ delivery' = delivery \cup {code}
  BY <1>1 DEF InsertDelivery
<1>3. PICK n \in 0 .. MaxDelivery : DeliverySeqs(m) = 1 .. n
  BY <1>1 DEF NumberInv, NoGaps
<1>4. \A k \in Nat : k \in DeliverySeqs(m) <=> [month |-> m, seq |-> k] \in delivery
  BY DEF DeliverySeqs, Inv, TypeOK, Code
<1>5. i \notin DeliverySeqs(m)
  BY <1>1, <1>2, <1>4
<1>6. i = 1 \/ i - 1 \in DeliverySeqs(m)
  <2>1. i = 1 \/ [month |-> m, seq |-> i - 1] \in delivery
    BY <1>1 DEF NumberInv, Follows
  <2>2. i - 1 \in Nat
    BY <1>1
  <2> QED BY <1>4, <2>1, <2>2
<1>7. i = n + 1 /\ (1 .. n) \cup {i} = 1 .. n + 1
  <2>1. n \in Nat
    BY LimitAssumption
  <2>2. i \in Nat \ {0}
    OBVIOUS
  <2> QED BY <1>3, <1>5, <1>6, <2>1, <2>2, NextNumber
<1>8. n \in 0 .. MaxDelivery - 1
  BY <1>1, <1>7, LimitAssumption
<1>9. DeliverySeqs(m)' = DeliverySeqs(m) \cup {i}
  BY <1>2 DEF DeliverySeqs
<1>10. \A k \in Month \ {m} : DeliverySeqs(k)' = DeliverySeqs(k)
  BY <1>2 DEF DeliverySeqs
<1> QED BY <1>1, <1>3, <1>7, <1>8, <1>9, <1>10

LEMMA BatchNumbered ==
  ASSUME Inv, NumberInv, NEW r \in Req, InsertBatch(r), batch' # batch
  PROVE  \E d \in delivery, g \in Group, n \in 0 .. MaxBatch - 1 :
           /\ BatchSeqs(d) = 1 .. n
           /\ BatchSeqs(d)' = 1 .. n + 1
           /\ batch'[d][n + 1] = g
           /\ \A i \in 1 .. n : batch'[d][i] = batch[d][i] /\ batch[d][i] # g
           /\ \A e \in Code \ {d} : batch'[e] = batch[e]
<1>1. PICK d \in Code, g \in Group, i \in 1 .. MaxBatch :
        /\ req[r].pc = "batchInsert" /\ req[r].delivery = d
        /\ req[r].group = g /\ req[r].seq = i
  BY RequestFields DEF InsertBatch, Inv, TypeOK, Inserting
<1>2. /\ batch[d][i] = NULL /\ ~GroupTaken(d, g)
      /\ batch' = [batch EXCEPT ![d][i] = g]
  BY <1>1 DEF InsertBatch
<1>3. d \in delivery
  BY <1>1 DEF NumberInv, Follows
<1>4. PICK n \in 0 .. MaxBatch : BatchSeqs(d) = 1 .. n
  BY <1>1 DEF NumberInv, NoGaps
<1>5. i \notin BatchSeqs(d)
  BY <1>2 DEF BatchSeqs
<1>6. i = 1 \/ i - 1 \in BatchSeqs(d)
  <2>1. i = 1 \/ batch[d][i - 1] # NULL
    BY <1>1 DEF NumberInv, Follows
  <2>2. i # 1 => i - 1 \in 1 .. MaxBatch
    BY <1>1, LimitAssumption
  <2> QED BY <2>1, <2>2 DEF BatchSeqs
<1>7. i = n + 1 /\ (1 .. n) \cup {i} = 1 .. n + 1
  <2>1. n \in Nat
    BY LimitAssumption
  <2>2. i \in Nat \ {0}
    OBVIOUS
  <2> QED BY <1>4, <1>5, <1>6, <2>1, <2>2, NextNumber
<1>8. n \in 0 .. MaxBatch - 1
  BY <1>1, <1>7, LimitAssumption
<1>9. /\ batch'[d][i] = g
      /\ \A k \in (1 .. MaxBatch) \ {i} : batch'[d][k] = batch[d][k]
      /\ \A e \in Code \ {d} : batch'[e] = batch[e]
  BY <1>1, <1>2 DEF Inv, TypeOK
<1>10. BatchSeqs(d)' = BatchSeqs(d) \cup {i}
  <2>1. \A k \in 1 .. MaxBatch : batch'[d][k] # NULL <=> batch[d][k] # NULL \/ k = i
    BY <1>9, GroupAssumption
  <2>2. BatchSeqs(d)' = {k \in 1 .. MaxBatch : batch'[d][k] # NULL}
    BY DEF BatchSeqs
  <2> QED BY <1>1, <2>1, <2>2 DEF BatchSeqs
<1>11. \A k \in 1 .. n : batch'[d][k] = batch[d][k] /\ batch[d][k] # g
  <2> SUFFICES ASSUME NEW k \in 1 .. n
               PROVE  batch'[d][k] = batch[d][k] /\ batch[d][k] # g
    OBVIOUS
  <2>1. k \in BatchSeqs(d) /\ k \in 1 .. MaxBatch
    BY <1>4 DEF BatchSeqs
  <2> QED BY <1>2, <1>5, <1>9, <2>1 DEF GroupTaken, IsBatchOf
<1>12. BatchSeqs(d)' = 1 .. n + 1 /\ batch'[d][n + 1] = g
  BY <1>4, <1>7, <1>9, <1>10
<1> QED BY <1>3, <1>4, <1>8, <1>9, <1>11, <1>12

LEMMA InsertDeliveryNumber ==
  ASSUME Inv, Inv', NumberInv, NEW r \in Req, InsertDelivery(r)
  PROVE  NumberInv'
<1> DEFINE p == [pc |-> "deliveryCode", month |-> req[r].month, last |-> req[r].seq,
                 tries |-> req[r].tries + 1]
<1>1. PICK q \in {Idle, p} : Becomes(r, q)
  BY DEF InsertDelivery, Answer
<1>2. \A D, B : Follows(q, D, B)
  BY DEF Follows, Idle
<1>3. Extend(delivery', batch', delivery, batch)
  BY DEF InsertDelivery, Extend
<1>4. NoGaps'
  <2>1. \A d \in Code : BatchSeqs(d)' = BatchSeqs(d)
    BY DEF InsertDelivery, BatchSeqs
  <2>2. CASE delivery' = delivery
    BY <2>1, <2>2 DEF NumberInv, NoGaps, DeliverySeqs
  <2>3. CASE delivery' # delivery
    <3>1. PICK m \in Month, n \in 0 .. MaxDelivery - 1 :
            /\ DeliverySeqs(m)' = 1 .. n + 1
            /\ \A k \in Month \ {m} : DeliverySeqs(k)' = DeliverySeqs(k)
      BY <2>3, DeliveryNumbered
    <3>2. n + 1 \in 0 .. MaxDelivery
      BY LimitAssumption
    <3> QED BY <2>1, <3>1, <3>2 DEF NumberInv, NoGaps
  <2> QED BY <2>2, <2>3
<1> QED BY <1>1, <1>2, <1>3, <1>4, MovedNumber

LEMMA InsertBatchNumber ==
  ASSUME Inv, Inv', NumberInv, NEW r \in Req, InsertBatch(r)
  PROVE  NumberInv'
<1>1. req[r] \in Inserting /\ req[r].delivery \in delivery
  BY RequestFields DEF InsertBatch, Inv, TypeOK, NumberInv, Follows
<1>2. PICK q : /\ Becomes(r, q)
               /\ q.pc \in {"replied", "raced"}
               /\ q.delivery = req[r].delivery
  BY <1>1 DEF InsertBatch, Reply, Inserting
<1>3. Follows(q, delivery', batch')
  BY <1>1, <1>2 DEF Follows, InsertBatch
<1>4. \A m \in Month : DeliverySeqs(m)' = DeliverySeqs(m)
  BY DEF InsertBatch, DeliverySeqs
<1>5. CASE batch' = batch
  <2>1. NoGaps'
    BY <1>4, <1>5 DEF NumberInv, NoGaps, BatchSeqs
  <2>2. Extend(delivery', batch', delivery, batch)
    BY <1>5 DEF InsertBatch, Extend
  <2> QED BY <1>2, <1>3, <2>1, <2>2, MovedNumber
<1>6. CASE batch' # batch
  <2>1. PICK d \in delivery, n \in 0 .. MaxBatch - 1 :
          /\ BatchSeqs(d) = 1 .. n
          /\ BatchSeqs(d)' = 1 .. n + 1
          /\ \A i \in 1 .. n : batch'[d][i] = batch[d][i]
          /\ \A e \in Code \ {d} : batch'[e] = batch[e]
    BY <1>6, BatchNumbered
  <2>2. n + 1 \in 0 .. MaxBatch
    BY LimitAssumption
  <2>3. \A e \in Code \ {d} : BatchSeqs(e)' = BatchSeqs(e)
    BY <2>1 DEF BatchSeqs
  <2>4. NoGaps'
    BY <1>4, <2>1, <2>2, <2>3 DEF NumberInv, NoGaps
  <2>5. Extend(delivery', batch', delivery, batch)
    BY <2>1 DEF InsertBatch, Extend, BatchSeqs
  <2> QED BY <1>2, <1>3, <2>4, <2>5, MovedNumber
<1> QED BY <1>5, <1>6

LEMMA StepNumber ==
  ASSUME Inv, Inv', NumberInv, [Next]_vars
  PROVE  NumberInv'
<1>1. ASSUME NEW r \in Req, NEW q, Becomes(r, q), UNCHANGED <<delivery, batch>>,
             q.pc \notin {"deliveryInsert", "batchInsert"},
             q.pc \in {"find", "batchCode", "raced"} => q.delivery \in delivery
      PROVE  NumberInv'
  BY <1>1, OnlyMovedNumber DEF Follows
<1>2. ASSUME NEW r \in Req, Answer(r), UNCHANGED <<delivery, batch>> PROVE NumberInv'
  BY <1>1, <1>2 DEF Answer, Idle
<1>3. ASSUME NEW r \in Req, FindBatch(r) PROVE NumberInv'
  BY <1>1, <1>3 DEF FindBatch, Reply, NumberInv, Follows
<1>4. ASSUME NEW r \in Req, AfterConflict(r) PROVE NumberInv'
  BY <1>1, <1>2, <1>4 DEF AfterConflict, Reply, NumberInv, Follows
<1>5. ASSUME NEW r \in Req, OpenDelivery(r) PROVE NumberInv'
  BY <1>1, <1>5 DEF OpenDelivery
<1>6. ASSUME NEW r \in Req, NEW d \in Code, NEW g \in Group, Resolve(r, d, g)
      PROVE  NumberInv'
  BY <1>1, <1>6 DEF Resolve
<1>7. ASSUME NEW r \in Req, Abort(r) PROVE NumberInv'
  BY <1>2, <1>7 DEF Abort
<1>8. CASE NextMonth \/ UNCHANGED vars
  BY <1>8 DEF NextMonth, vars, NumberInv, NoGaps, DeliverySeqs, BatchSeqs
<1> QED BY <1>3, <1>4, <1>5, <1>6, <1>7, <1>8, NextDeliveryCodeNumber, InsertDeliveryNumber,
           NextBatchCodeNumber, InsertBatchNumber DEF Next

-----------------------------------------------------------------------------
(* The refinement.  The rows of a delivery, read as the sequence of its groups. *)
LEMMA Appended ==
  ASSUME NEW n \in Nat, NEW f \in [1 .. n -> Group], NEW g \in Group,
         NEW h \in [1 .. n + 1 -> Group],
         \A i \in 1 .. n : h[i] = f[i], h[n + 1] = g
  PROVE  Len(f) = n /\ h = Append(f, g)
<1>1. f \in Seq(Group) /\ Len(f) = n
  OBVIOUS
<1>2. /\ Append(f, g) \in Seq(Group) /\ Len(Append(f, g)) = n + 1
      /\ \A i \in 1 .. n : Append(f, g)[i] = f[i]
      /\ Append(f, g)[n + 1] = g
  BY <1>1
<1>3. h \in Seq(Group) /\ Len(h) = n + 1
  OBVIOUS
<1>4. \A i \in 1 .. n + 1 : Append(f, g)[i] = h[i]
  BY <1>2
<1> QED BY <1>1, <1>2, <1>3, <1>4, SeqEqual

Opened == [m \in Month |-> Cardinality(DeliverySeqs(m))]
Order == [d \in Code |-> [i \in BatchSeqs(d) |-> batch[d][i]]]

LEMMA InitRegistry == Init => Promised!Init
<1> SUFFICES ASSUME Init PROVE Promised!Init
  OBVIOUS
<1>1. \A m \in Month : Cardinality(DeliverySeqs(m)) = 0
  BY FS_EmptySet DEF Init, DeliverySeqs
<1>2. \A d \in Code : [i \in BatchSeqs(d) |-> batch[d][i]] = <<>>
  BY DEF Init, BatchSeqs
<1> QED BY <1>1, <1>2 DEF Promised!Init, Promised!Code, Code

LEMMA Counted ==
  ASSUME NumberInv, NEW m \in Month, NEW n \in Nat, DeliverySeqs(m) = 1 .. n
  PROVE  Cardinality(DeliverySeqs(m)) = n
  BY FS_Interval

LEMMA InsertDeliveryRegistry ==
  ASSUME Inv, NumberInv, NEW r \in Req, InsertDelivery(r), delivery' # delivery
  PROVE  \E m \in Month : Promised!OpenDelivery(m)
<1>1. PICK m \in Month, n \in 0 .. MaxDelivery - 1 :
        /\ DeliverySeqs(m) = 1 .. n
        /\ DeliverySeqs(m)' = 1 .. n + 1
        /\ \A k \in Month \ {m} : DeliverySeqs(k)' = DeliverySeqs(k)
  BY DeliveryNumbered
<1>2. n \in Nat /\ n < MaxDelivery
  BY LimitAssumption
<1>3. Cardinality(DeliverySeqs(m)) = n /\ Cardinality(DeliverySeqs(m)') = n + 1
  BY <1>1, <1>2, FS_Interval
<1>4. Opened[m] = n /\ Opened' = [Opened EXCEPT ![m] = n + 1]
  BY <1>1, <1>3 DEF Opened
<1>5. Order' = Order
  BY DEF InsertDelivery, Order, BatchSeqs
<1> QED BY <1>2, <1>4, <1>5 DEF Promised!OpenDelivery, Opened, Order

LEMMA InsertBatchRegistry ==
  ASSUME Inv, Inv', NumberInv, NEW r \in Req, InsertBatch(r), batch' # batch
  PROVE  \E d \in Code, g \in Group : Promised!OpenBatch(d, g)
<1>1. PICK d \in delivery, g \in Group, n \in 0 .. MaxBatch - 1 :
        /\ BatchSeqs(d) = 1 .. n
        /\ BatchSeqs(d)' = 1 .. n + 1
        /\ batch'[d][n + 1] = g
        /\ \A i \in 1 .. n : batch'[d][i] = batch[d][i] /\ batch[d][i] # g
        /\ \A e \in Code \ {d} : batch'[e] = batch[e]
  BY BatchNumbered
<1>2. n \in Nat /\ n < MaxBatch /\ d \in Code /\ d.month \in Month
  BY LimitAssumption DEF Inv, TypeOK, Code
<1> DEFINE f == [i \in 1 .. n |-> batch[d][i]]
           h == [i \in 1 .. n + 1 |-> batch'[d][i]]
<1>3. f \in [1 .. n -> Group] /\ h \in [1 .. n + 1 -> Group]
  <2>1. \A i \in BatchSeqs(d) : batch[d][i] \in Group
    BY <1>2 DEF BatchSeqs, Inv, TypeOK
  <2>2. \A i \in BatchSeqs(d)' : batch'[d][i] \in Group
    BY <1>2 DEF BatchSeqs, Inv, TypeOK
  <2> QED BY <1>1, <2>1, <2>2
<1>4. Len(f) = n /\ h = Append(f, g)
  BY <1>1, <1>2, <1>3, Appended
<1>5. Order[d] = f /\ Order'[d] = h
  BY <1>1, <1>2 DEF Order
<1>6. Order' = [Order EXCEPT ![d] = Append(f, g)]
  <2>1. \A e \in Code \ {d} : BatchSeqs(e)' = BatchSeqs(e)
    BY <1>1 DEF BatchSeqs
  <2>2. \A e \in Code \ {d} : Order'[e] = Order[e]
    BY <1>1, <2>1 DEF Order
  <2>3. Order' = [e \in Code |-> Order'[e]] /\ Order = [e \in Code |-> Order[e]]
    BY DEF Order
  <2> HIDE DEF f, h
  <2> QED BY <1>2, <1>4, <1>5, <2>2, <2>3
<1>7. g \notin Promised!Groups(Order[d])
  <2>1. g \notin {f[i] : i \in DOMAIN f}
    BY <1>1
  <2> QED BY <1>5, <2>1 DEF Promised!Groups
<1>8. d.seq <= Opened[d.month]
  <2>1. PICK k \in 0 .. MaxDelivery : DeliverySeqs(d.month) = 1 .. k
    BY <1>2 DEF NumberInv, NoGaps
  <2>2. d.seq \in 1 .. k
    BY <2>1 DEF DeliverySeqs
  <2>3. Opened[d.month] = k
    BY <1>2, <2>1, Counted, LimitAssumption DEF Opened
  <2> QED BY <2>1, <2>2, <2>3
<1>9. Opened' = Opened
  BY DEF InsertBatch, Opened, DeliverySeqs
<1>10. Order' = [Order EXCEPT ![d] = Append(Order[d], g)] /\ Len(Order[d]) < MaxBatch
  BY <1>2, <1>4, <1>5, <1>6
<1> HIDE DEF f, h
<1>11. Promised!OpenBatch(d, g)
  BY <1>7, <1>8, <1>9, <1>10 DEF Promised!OpenBatch, Opened, Order
<1> QED BY <1>2, <1>11

(* Every other step changes no row. *)
LEMMA StepRegistry ==
  ASSUME Inv, Inv', NumberInv, [Next]_vars
  PROVE  [Promised!Next]_Promised!vars
<1>1. ASSUME UNCHANGED <<delivery, batch>>
      PROVE  UNCHANGED Promised!vars
  <2>1. Opened' = Opened /\ Order' = Order
    BY <1>1 DEF Opened, Order, DeliverySeqs, BatchSeqs
  <2> QED BY <2>1 DEF Promised!vars, Opened, Order
<1>2. ASSUME NEW r \in Req, InsertDelivery(r), delivery' # delivery PROVE Promised!Next
  BY <1>2, InsertDeliveryRegistry DEF Promised!Next
<1>3. ASSUME NEW r \in Req, InsertBatch(r), batch' # batch PROVE Promised!Next
  BY <1>3, InsertBatchRegistry DEF Promised!Next, Promised!Code, Code
<1>4. \/ UNCHANGED <<delivery, batch>>
      \/ \E r \in Req : InsertDelivery(r) /\ delivery' # delivery
      \/ \E r \in Req : InsertBatch(r) /\ batch' # batch
  BY DEF Next, OpenDelivery, NextDeliveryCode, InsertDelivery, Resolve, FindBatch,
         NextBatchCode, InsertBatch, AfterConflict, Abort, NextMonth, vars
<1> QED BY <1>1, <1>2, <1>3, <1>4

(* The codes are the numbering of append-only lists: whatever requests read and    *)
(* insert in between, no number is left out, used twice or past the limit, and no  *)
(* group enters a delivery twice.                                              *)
THEOREM Refinement == Spec => ImplementsRegistry
<1>1. Init => NumberInv /\ Promised!Init
  BY InitNumber, InitRegistry
<1>2. Inv /\ Inv' /\ NumberInv /\ [Next]_vars => NumberInv' /\ [Promised!Next]_Promised!vars
  BY StepNumber, StepRegistry
<1> QED BY <1>1, <1>2, Invariance, PTL DEF Spec, ImplementsRegistry, Promised!Spec
=============================================================================
