----------------------------- MODULE Deliveries -----------------------------
(***************************************************************************)
(* Starting deliveries and resolving their batches: createDelivery,         *)
(* resolveBatch, nextDeliveryCode and nextBatchCode of BatchesService.       *)
(*                                                                         *)
(* Codes are not drawn from a sequence of the database.  A request reads    *)
(* the greatest code, adds one and inserts; unique constraints refuse the   *)
(* slower of two requests, which then starts again, MAX_CODE_ATTEMPTS times *)
(* in all.  As in Packages, a step of a request is one awaited call.         *)
(***************************************************************************)
EXTENDS Integers, FiniteSets

CONSTANTS
  Month,       \* calendar months, in order
  Group,       \* (resource, warehouse) pairs a worker registers
  Req,         \* requests in flight, or replies a client still holds
  MaxDelivery, \* MAX_DELIVERY_SEQUENCE
  MaxBatch,    \* MAX_BATCH_SEQUENCE
  MaxAttempts, \* MAX_CODE_ATTEMPTS
  NULL

ASSUME MonthAssumption == Month \subseteq Nat
ASSUME LimitAssumption ==
  /\ MaxDelivery \in Nat \ {0}
  /\ MaxBatch \in Nat \ {0}
  /\ MaxAttempts \in Nat \ {0}
ASSUME GroupAssumption == NULL \notin Group

VARIABLES
  month,    \* the month the server's clock is in
  delivery, \* IncomingDelivery rows, by their unique code
  batch,    \* Batch rows of a delivery, by their unique code in it
  req       \* the requests

vars == <<month, delivery, batch, req>>

-----------------------------------------------------------------------------
(* A delivery code: the month it was generated in and its number there.  The    *)
(* code is fixed width, so the greatest text has the greatest number.         *)
Code == [month: Month, seq: 1 .. MaxDelivery]

Idle == [pc |-> "idle"]

(* "last" remembers the number tried before, 0 on the first attempt; only          *)
(* RetryReadsAhead looks at it.                                                *)
Opening == [pc: {"deliveryCode"}, month: Month, last: 0 .. MaxDelivery,
            tries: 0 .. MaxAttempts - 1]
OpeningAs == [pc: {"deliveryInsert"}, month: Month, seq: 1 .. MaxDelivery,
              tries: 0 .. MaxAttempts - 1]
Finding == [pc: {"find"}, delivery: Code, group: Group]
Numbering == [pc: {"batchCode"}, delivery: Code, group: Group, last: 0 .. MaxBatch,
              tries: 0 .. MaxAttempts - 1]
Inserting == [pc: {"batchInsert", "raced"}, delivery: Code, group: Group,
              seq: 1 .. MaxBatch, tries: 0 .. MaxAttempts - 1]
Replied == [pc: {"replied"}, delivery: Code, group: Group, seq: 1 .. MaxBatch]
Request ==
  {Idle} \cup Opening \cup OpeningAs \cup Finding \cup Numbering \cup Inserting \cup Replied

TypeOK ==
  /\ month \in Month
  /\ delivery \subseteq Code
  /\ batch \in [Code -> [1 .. MaxBatch -> Group \cup {NULL}]]
  /\ req \in [Req -> Request]

Init ==
  /\ month \in Month
  /\ delivery = {}
  /\ batch = [d \in Code |-> [i \in 1 .. MaxBatch |-> NULL]]
  /\ req = [r \in Req |-> Idle]

Becomes(r, q) == req' = [req EXCEPT ![r] = q]
Answer(r) == Becomes(r, Idle)

(* The numbers taken in a month and in a delivery, and the greatest of a set. *)
DeliverySeqs(m) == {d.seq : d \in {e \in delivery : e.month = m}}
BatchSeqs(d) == {i \in 1 .. MaxBatch : batch[d][i] # NULL}

(* The batch of group g: the constraint allows one. *)
IsBatchOf(d, g, i) == i \in BatchSeqs(d) /\ batch[d][i] = g

(* Mutant: the first code found instead of the greatest. *)
LastIsAny(S, n) == IF S = {} THEN n = 0 ELSE n \in S

(* findFirst ordered by code, descending: n is the greatest of S, 0 of none. *)
Last(S, n) ==
  IF S = {} THEN n = 0 ELSE n \in S /\ \A k \in S : k <= n

-----------------------------------------------------------------------------
(* createDelivery: the clock is read once, before the loop. *)
OpenDelivery(r) ==
  /\ req[r].pc = "idle"
  /\ Becomes(r, [pc |-> "deliveryCode", month |-> month, last |-> 0, tries |-> 0])
  /\ UNCHANGED <<month, delivery, batch>>

(* nextDeliveryCode. *)
NextDeliveryCode(r) ==
  /\ req[r].pc = "deliveryCode"
  /\ \E n \in 0 .. MaxDelivery :
       /\ Last(DeliverySeqs(req[r].month), n)
       /\ \/ /\ n < MaxDelivery
             /\ Becomes(r, [pc |-> "deliveryInsert", month |-> req[r].month, seq |-> n + 1,
                            tries |-> req[r].tries])
          \/ /\ n = MaxDelivery
             /\ Answer(r)
  /\ UNCHANGED <<month, delivery, batch>>

InsertDelivery(r) ==
  /\ req[r].pc = "deliveryInsert"
  /\ LET q == req[r]
         code == [month |-> q.month, seq |-> q.seq]
     IN \/ /\ code \notin delivery
           /\ delivery' = delivery \cup {code}
           /\ Answer(r)
        \/ /\ code \in delivery
           /\ IF q.tries + 1 = MaxAttempts
              THEN Answer(r)
              ELSE Becomes(r, [pc |-> "deliveryCode", month |-> q.month, last |-> q.seq,
                               tries |-> q.tries + 1])
           /\ UNCHANGED delivery
  /\ UNCHANGED <<month, batch>>

-----------------------------------------------------------------------------
(* resolveBatch, up to the check that the delivery exists. *)
Resolve(r, d, g) ==
  /\ req[r].pc = "idle"
  /\ d \in delivery
  /\ Becomes(r, [pc |-> "find", delivery |-> d, group |-> g])
  /\ UNCHANGED <<month, delivery, batch>>

Reply(r, i) ==
  Becomes(r, [pc |-> "replied", delivery |-> req[r].delivery, group |-> req[r].group,
              seq |-> i])

(* An existing batch of the group is the answer. *)
FindBatch(r) ==
  /\ req[r].pc = "find"
  /\ LET q == req[r] IN
       \/ \E i \in 1 .. MaxBatch : IsBatchOf(q.delivery, q.group, i) /\ Reply(r, i)
       \/ /\ \A i \in 1 .. MaxBatch : ~IsBatchOf(q.delivery, q.group, i)
          /\ Becomes(r, [pc |-> "batchCode", delivery |-> q.delivery, group |-> q.group,
                         last |-> 0, tries |-> 0])
  /\ UNCHANGED <<month, delivery, batch>>

(* Mutant: P99 is not the last code. *)
NextBatchCodeUnlimited(r) ==
  /\ req[r].pc = "batchCode"
  /\ LET q == req[r] IN
       \E n \in 0 .. MaxBatch :
         /\ Last(BatchSeqs(q.delivery), n)
         /\ Becomes(r, [pc |-> "batchInsert", delivery |-> q.delivery,
                        group |-> q.group, seq |-> n + 1, tries |-> q.tries])
  /\ UNCHANGED <<month, delivery, batch>>

(* nextBatchCode. *)
NextBatchCode(r) ==
  /\ req[r].pc = "batchCode"
  /\ LET q == req[r] IN
       \E n \in 0 .. MaxBatch :
         /\ Last(BatchSeqs(q.delivery), n)
         /\ \/ /\ n < MaxBatch
               /\ Becomes(r, [pc |-> "batchInsert", delivery |-> q.delivery,
                              group |-> q.group, seq |-> n + 1, tries |-> q.tries])
            \/ /\ n = MaxBatch
               /\ Answer(r)
  /\ UNCHANGED <<month, delivery, batch>>

(* Mutant: no unique constraint on the group. *)
GroupNeverTaken(d, g) == FALSE

(* The unique constraint on (deliveryId, resourceId, warehouseId). *)
GroupTaken(d, g) == \E i \in 1 .. MaxBatch : IsBatchOf(d, g, i)

(* The insert, refused when the code or the group is taken. *)
InsertBatch(r) ==
  /\ req[r].pc = "batchInsert"
  /\ LET q == req[r]
         free == batch[q.delivery][q.seq] = NULL /\ ~GroupTaken(q.delivery, q.group)
     IN \/ /\ free
           /\ batch' = [batch EXCEPT ![q.delivery][q.seq] = q.group]
           /\ Reply(r, q.seq)
        \/ /\ ~free
           /\ Becomes(r, [q EXCEPT !.pc = "raced"])
           /\ UNCHANGED batch
  /\ UNCHANGED <<month, delivery>>

(* Mutant: after a conflict the request answers with the batch it tried to make. *)
AfterConflictTried(r) ==
  /\ req[r].pc = "raced"
  /\ Reply(r, req[r].seq)
  /\ UNCHANGED <<month, delivery, batch>>

(* Which of the two it was is found out by looking for the group again. *)
AfterConflict(r) ==
  /\ req[r].pc = "raced"
  /\ LET q == req[r] IN
       \/ \E i \in 1 .. MaxBatch : IsBatchOf(q.delivery, q.group, i) /\ Reply(r, i)
       \/ /\ ~\E i \in 1 .. MaxBatch : IsBatchOf(q.delivery, q.group, i)
          /\ IF q.tries + 1 = MaxAttempts
             THEN Answer(r)
             ELSE Becomes(r, [pc |-> "batchCode", delivery |-> q.delivery,
                              group |-> q.group, last |-> q.seq, tries |-> q.tries + 1])
  /\ UNCHANGED <<month, delivery, batch>>

-----------------------------------------------------------------------------
(* A failed await; or the client forgets the reply it holds. *)
Abort(r) ==
  /\ req[r].pc # "idle"
  /\ Answer(r)
  /\ UNCHANGED <<month, delivery, batch>>

(* The server's clock. *)
NextMonth ==
  /\ month + 1 \in Month
  /\ month' = month + 1
  /\ UNCHANGED <<delivery, batch, req>>

Next ==
  \/ \E r \in Req :
       \/ OpenDelivery(r)
       \/ NextDeliveryCode(r)
       \/ InsertDelivery(r)
       \/ \E d \in Code, g \in Group : Resolve(r, d, g)
       \/ FindBatch(r)
       \/ NextBatchCode(r)
       \/ InsertBatch(r)
       \/ AfterConflict(r)
       \/ Abort(r)
  \/ NextMonth

Spec == Init /\ [][Next]_vars

-----------------------------------------------------------------------------
(* Whoever asks for a group of a delivery, and however often, is sent to the   *)
(* same batch, and that batch is of the group asked for.                      *)
RepliesAgree ==
  \A r, s \in Req : req[r].pc = "replied" =>
    /\ batch[req[r].delivery][req[r].seq] = req[r].group
    /\ /\ req[s].pc = "replied"
       /\ req[s].delivery = req[r].delivery
       /\ req[s].group = req[r].group
       => req[s].seq = req[r].seq

(* A retry of createDelivery or resolveBatch never tries a number again: every  *)
(* collision means that another request has inserted one since, so the attempts  *)
(* run out only when MAX_CODE_ATTEMPTS others were faster.                       *)
RetryReadsAhead ==
  [][\A r \in Req :
       /\ req[r].pc = "batchCode" /\ req'[r].pc = "batchInsert" => req'[r].seq > req[r].last
       /\ req[r].pc = "deliveryCode" /\ req'[r].pc = "deliveryInsert" =>
            req'[r].seq > req[r].last]_vars

(* The codes are the numbering of an append-only list: no gap, no group twice,  *)
(* no number past the limit, although each is computed from a read that other   *)
(* requests overtake.                                                        *)
Promised == INSTANCE Registry WITH
  opened <- [m \in Month |-> Cardinality(DeliverySeqs(m))],
  order  <- [d \in Code |-> [i \in BatchSeqs(d) |-> batch[d][i]]]
ImplementsRegistry == Promised!Spec
=============================================================================
