----------------------------- MODULE Settlement -----------------------------
(***************************************************************************)
(* The settlement ledger of the receiving discrepancies:                    *)
(* ReceivingDiscrepanciesService.createSettlement.                          *)
(*                                                                         *)
(* A request is one transaction that locks the discrepancy's row (SELECT    *)
(* ... FOR UPDATE), derives the balance from the entries, looks at the      *)
(* source batch if one is named, inserts the entry and updates the          *)
(* discrepancy.  Each awaited statement is a step.  PostgreSQL runs it at   *)
(* READ COMMITTED: a read sees the rows committed when it runs, which is    *)
(* why the balance is read after the lock and not before.  The writes       *)
(* become visible together, when the transaction commits.                   *)
(***************************************************************************)
EXTENDS Weights, FiniteSets

CONSTANTS
  Disc,
  Difference,  \* differenceWeight: measured - document (grams), immutable
  SupplierOf,  \* the supplier of a discrepancy
  Batch,       \* batches a request may name as its source
  BatchSupplier, \* the supplier of such a batch
  Amount,      \* covered weights an administrator enters (tenths of a gram)
  Req,         \* requests in flight at the same time
  NONE

ASSUME DifferenceAssumption == Difference \in [Disc -> Int]
ASSUME AmountAssumption == Amount \subseteq Nat \ {0}
ASSUME NoneAssumption == NONE \notin Batch \cup Req

VARIABLES
  settled,   \* SUM(coveredWeightKg) of a discrepancy's entries (grams)
  source,    \* the sourceBatchId values of its entries, NONE for an entry without
  rounded,   \* discrepancies with an entry the column rounded (history)
  status,    \* ReceivingDiscrepancy.status
  stamped,   \* discrepancies whose settledAt is set
  confirmed, \* batches with status CONFIRMED
  lock,      \* the transaction that holds the row lock of a discrepancy, or NONE
  req        \* the requests

ledger == <<settled, source, rounded, status, stamped>>
vars == <<ledger, confirmed, lock, req>>

-----------------------------------------------------------------------------
Statuses == {"OPEN", "PARTIALLY_SETTLED", "SETTLED"}

Idle == [pc |-> "idle"]
Asked == [pc: {"lock", "balance"}, disc: Disc, amount: Amount, source: Batch \cup {NONE}]
Read == [pc: {"source", "write"}, disc: Disc, amount: Amount, source: Batch \cup {NONE},
         seen: Nat, stamped: BOOLEAN]
Request == {Idle} \cup Asked \cup Read

TypeOK ==
  /\ settled \in [Disc -> Nat]
  /\ \A d \in Disc : settled[d] <= Magnitude(Difference[d])
  /\ source \in [Disc -> SUBSET (Batch \cup {NONE})]
  /\ rounded \subseteq Disc
  /\ status \in [Disc -> Statuses]
  /\ stamped \subseteq Disc
  /\ confirmed \subseteq Batch
  /\ lock \in [Disc -> Req \cup {NONE}]
  /\ req \in [Req -> Request]

Init ==
  /\ settled = [d \in Disc |-> 0]
  /\ source = [d \in Disc |-> {}]
  /\ rounded = {}
  /\ status = [d \in Disc |-> "OPEN"]
  /\ stamped = {}
  /\ confirmed \in SUBSET Batch
  /\ lock = [d \in Disc |-> NONE]
  /\ req = [r \in Req |-> Idle]

Becomes(r, q) == req' = [req EXCEPT ![r] = q]

(* The end of a transaction, committed or rolled back. *)
Finish(r) ==
  /\ Becomes(r, Idle)
  /\ lock' = [lock EXCEPT ![req[r].disc] = IF @ = r THEN NONE ELSE @]

(* The rest of settlementBalance: what is left of |differenceWeight|, exactly,  *)
(* when the entries add up to "seen".                                        *)
Remaining(d, seen) == Exact(Magnitude(Difference[d]) - seen)

-----------------------------------------------------------------------------
Begin(r, d, a, b) ==
  /\ req[r].pc = "idle"
  /\ Becomes(r, [pc |-> "lock", disc |-> d, amount |-> a, source |-> b])
  /\ UNCHANGED <<ledger, confirmed, lock>>

(* Mutant: the SELECT does not lock. *)
LockUnheld(r) ==
  /\ req[r].pc = "lock"
  /\ Becomes(r, [req[r] EXCEPT !.pc = "balance"])
  /\ UNCHANGED <<ledger, confirmed, lock>>

Lock(r) ==
  /\ req[r].pc = "lock"
  /\ lock[req[r].disc] = NONE
  /\ lock' = [lock EXCEPT ![req[r].disc] = r]
  /\ Becomes(r, [req[r] EXCEPT !.pc = "balance"])
  /\ UNCHANGED <<ledger, confirmed>>

(* Mutant: any amount is accepted while something remains. *)
ReadBalanceAnyAmount(r) ==
  /\ req[r].pc = "balance"
  /\ LET q == req[r]
         left == Remaining(q.disc, settled[q.disc])
     IN \/ /\ left > 0
           /\ Becomes(r, [pc |-> "source", disc |-> q.disc, amount |-> q.amount,
                          source |-> q.source, seen |-> settled[q.disc],
                          stamped |-> q.disc \in stamped])
           /\ UNCHANGED lock
        \/ /\ left <= 0
           /\ Finish(r)
  /\ UNCHANGED <<ledger, confirmed>>

(* Mutant: a refusal leaves the transaction open. *)
ReadBalanceKeepsLock(r) ==
  /\ req[r].pc = "balance"
  /\ LET q == req[r]
         left == Remaining(q.disc, settled[q.disc])
     IN IF left > 0 /\ q.amount <= left
        THEN Becomes(r, [pc |-> "source", disc |-> q.disc, amount |-> q.amount,
                         source |-> q.source, seen |-> settled[q.disc],
                         stamped |-> q.disc \in stamped])
        ELSE Becomes(r, Idle)
  /\ UNCHANGED <<ledger, confirmed, lock>>

(* The discrepancy with its entries; DISCREPANCY_ALREADY_SETTLED and           *)
(* SETTLEMENT_EXCEEDS_REMAINING end the transaction.                          *)
ReadBalance(r) ==
  /\ req[r].pc = "balance"
  /\ LET q == req[r]
         left == Remaining(q.disc, settled[q.disc])
     IN \/ /\ left > 0 /\ q.amount <= left
           /\ Becomes(r, [pc |-> "source", disc |-> q.disc, amount |-> q.amount,
                          source |-> q.source, seen |-> settled[q.disc],
                          stamped |-> q.disc \in stamped])
           /\ UNCHANGED lock
        \/ /\ left <= 0 \/ q.amount > left
           /\ Finish(r)
  /\ UNCHANGED <<ledger, confirmed>>

(* Mutant: the supplier of the source batch is not compared. *)
UsableOfAnySupplier(q) == q.source = NONE \/ q.source \in confirmed

(* SOURCE_BATCH_NOT_CONFIRMED and SOURCE_BATCH_SUPPLIER_MISMATCH. *)
Usable(q) ==
  \/ q.source = NONE
  \/ q.source \in confirmed /\ BatchSupplier[q.source] = SupplierOf[q.disc]

CheckSource(r) ==
  /\ req[r].pc = "source"
  /\ \/ /\ Usable(req[r])
        /\ Becomes(r, [req[r] EXCEPT !.pc = "write"])
        /\ UNCHANGED lock
     \/ /\ ~Usable(req[r])
        /\ Finish(r)
  /\ UNCHANGED <<ledger, confirmed>>

(* Mutant: lt(0) for lte(0). *)
StatusAfterOffByOne(q) ==
  IF Remaining(q.disc, q.seen) - q.amount < 0 THEN "SETTLED" ELSE "PARTIALLY_SETTLED"

(* The status after q's entry, computed from the amount as entered and not from *)
(* the entry as stored.                                                      *)
StatusAfter(q) ==
  IF Remaining(q.disc, q.seen) - q.amount <= 0 THEN "SETTLED" ELSE "PARTIALLY_SETTLED"

(* The insert, the update and the commit. *)
Write(r) ==
  /\ req[r].pc = "write"
  /\ LET q == req[r] IN
       /\ settled' = [settled EXCEPT ![q.disc] = @ + Column(q.amount)]
       /\ source' = [source EXCEPT ![q.disc] = @ \cup {q.source}]
       /\ rounded' = IF Exact(Column(q.amount)) = q.amount
                     THEN rounded ELSE rounded \cup {q.disc}
       /\ status' = [status EXCEPT ![q.disc] = StatusAfter(q)]
       /\ stamped' = IF StatusAfter(q) = "SETTLED" \/ q.stamped
                     THEN stamped \cup {q.disc} ELSE stamped \ {q.disc}
  /\ Finish(r)
  /\ UNCHANGED confirmed

-----------------------------------------------------------------------------
(* A lost connection, a transaction timeout, a server restart: the transaction  *)
(* rolls back and the lock goes with it.                                     *)
Abort(r) ==
  /\ req[r].pc # "idle"
  /\ Finish(r)
  /\ UNCHANGED <<ledger, confirmed>>

(* BatchesService.reconcile confirms a batch (Reconcile.tla). *)
ConfirmBatch(b) ==
  /\ b \notin confirmed
  /\ confirmed' = confirmed \cup {b}
  /\ UNCHANGED <<ledger, lock, req>>

Next ==
  \/ \E r \in Req :
       \/ \E d \in Disc, a \in Amount, b \in Batch \cup {NONE} : Begin(r, d, a, b)
       \/ Lock(r)
       \/ ReadBalance(r)
       \/ CheckSource(r)
       \/ Write(r)
       \/ Abort(r)
  \/ \E b \in Batch : ConfirmBatch(b)

Spec == Init /\ [][Next]_vars

(* The server runs the statements of a request it accepted, and PostgreSQL      *)
(* queues the transactions that wait for a row lock, so none of them is passed  *)
(* over for ever.  Nothing obliges a client to send a request, a batch to be    *)
(* confirmed, or a request to fail.                                          *)
Fairness ==
  \A r \in Req :
    /\ SF_vars(Lock(r))
    /\ WF_vars(ReadBalance(r) \/ CheckSource(r) \/ Write(r))

FairSpec == Spec /\ Fairness

-----------------------------------------------------------------------------
Balance(d) == Magnitude(Difference[d]) - settled[d]

(* "Concurrent requests therefore cannot over-settle": the entries, as stored   *)
(* and rounded, never add up to more than the original difference, and a        *)
(* discrepancy is SETTLED, with settledAt, only when they add up to all of it.  *)
NeverOverSettled ==
  \A d \in Disc :
    /\ Balance(d) >= 0
    /\ status[d] = "SETTLED" => Balance(d) = 0
    /\ status[d] = "SETTLED" <=> d \in stamped
    /\ status[d] = "OPEN" <=> source[d] = {}

(* The status of the table in discrepancies.md, "Balance and status". *)
StatusMatches(d) ==
  /\ status[d] = "OPEN" <=> source[d] = {}
  /\ status[d] = "SETTLED" <=> Balance(d) = 0

(* It holds of a discrepancy whose entries were all whole grams. *)
StatusExactInGrams ==
  \A d \in Disc \ rounded : Difference[d] # 0 => StatusMatches(d)

(* And of every discrepancy, as the table says. *)
StatusFollowsBalance == \A d \in Disc : Difference[d] # 0 => StatusMatches(d)

(* A source batch of an entry is a confirmed one of the discrepancy's own       *)
(* supplier, although it was looked at before the entry was committed.         *)
SourceIsConfirmed ==
  \A d \in Disc : \A b \in source[d] \ {NONE} :
    b \in confirmed /\ BatchSupplier[b] = SupplierOf[d]

(* Every accepted request is answered: no early return keeps the row lock that  *)
(* the next request waits for.                                               *)
RequestsAreAnswered == \A r \in Req : req[r].pc # "idle" ~> req[r].pc = "idle"

(* The transactions of concurrent requests have the effect of single steps. *)
Abstract == INSTANCE Ledger
ImplementsLedger == Abstract!Spec
=============================================================================
