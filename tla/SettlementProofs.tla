-------------------------- MODULE SettlementProofs --------------------------
(***************************************************************************)
(* Proofs about Settlement: the safety of the settlement ledger for any      *)
(* number of discrepancies, batches and concurrent requests, any differences *)
(* and any amounts, and that the ledger implements the abstract Ledger.     *)
(***************************************************************************)
EXTENDS Settlement, TLAPS

(* Rounding to grams does not take a positive amount past a whole number of     *)
(* grams it does not exceed, and is exact on whole grams.                     *)
LEMMA ColumnBound ==
  ASSUME NEW a \in Nat, NEW m \in Int, a <= Exact(m)
  PROVE  /\ Column(a) \in Nat
         /\ Column(a) <= m
         /\ a = Exact(m) => Column(a) = m
  BY DEF Column, Exact

LEMMA MagnitudeIsNat ==
  ASSUME NEW x \in Int
  PROVE  Magnitude(x) \in Nat /\ (x # 0 => Magnitude(x) > 0)
  BY DEF Magnitude

(* The requests that have passed the SELECT ... FOR UPDATE. *)
Holds(r) == req[r].pc \in {"balance", "source", "write"}
Decided(r) == req[r].pc \in {"source", "write"}

(* Each of them holds the lock of its discrepancy, *)
LockHeld == \A r \in Req : Holds(r) => lock[req[r].disc] = r

(* so what it read of the discrepancy is still so, *)
SnapshotFresh ==
  \A r \in Req : Decided(r) =>
    /\ req[r].seen = settled[req[r].disc]
    /\ req[r].stamped <=> req[r].disc \in stamped
    /\ req[r].amount <= Remaining(req[r].disc, req[r].seen)

(* and its source batch, once confirmed, stays confirmed. *)
SourceChecked == \A r \in Req : req[r].pc = "write" => Usable(req[r])

(* The inductive invariant. *)
Inv ==
  /\ TypeOK
  /\ LockHeld
  /\ SnapshotFresh
  /\ SourceChecked
  /\ NeverOverSettled
  /\ StatusExactInGrams
  /\ SourceIsConfirmed

LEMMA RequestFields ==
  ASSUME TypeOK, NEW r \in Req
  PROVE  /\ req[r].pc \in {"idle", "lock", "balance", "source", "write"}
         /\ req[r].pc = "idle" => req[r] = Idle
         /\ req[r].pc \in {"lock", "balance"} => req[r] \in Asked
         /\ req[r].pc \in {"source", "write"} => req[r] \in Read
         /\ req[r].pc # "idle" => req[r].disc \in Disc
  BY DEF TypeOK, Request, Asked, Read, Idle

LEMMA InitInv == Init => Inv
<1> SUFFICES ASSUME Init PROVE Inv
  OBVIOUS
<1>1. \A d \in Disc : Magnitude(Difference[d]) \in Nat
                      /\ (Difference[d] # 0 => Magnitude(Difference[d]) > 0)
  BY MagnitudeIsNat, DifferenceAssumption
<1>2. TypeOK
  BY <1>1 DEF Init, TypeOK, Request, Statuses
<1>3. LockHeld /\ SnapshotFresh /\ SourceChecked
  BY DEF Init, LockHeld, SnapshotFresh, SourceChecked, Holds, Decided, Idle
<1>4. NeverOverSettled /\ StatusExactInGrams /\ SourceIsConfirmed
  BY <1>1 DEF Init, NeverOverSettled, StatusExactInGrams, SourceIsConfirmed, StatusMatches, Balance
<1> QED
  BY <1>2, <1>3, <1>4 DEF Inv

-----------------------------------------------------------------------------
(* The facts about the ledger are untouched by a step that leaves the ledger    *)
(* alone and forgets no confirmation.                                        *)
LEMMA LedgerUnchanged ==
  ASSUME Inv, UNCHANGED ledger, confirmed \subseteq confirmed'
  PROVE  NeverOverSettled' /\ StatusExactInGrams' /\ SourceIsConfirmed'
  BY DEF Inv, ledger, NeverOverSettled, StatusExactInGrams, SourceIsConfirmed, StatusMatches, Balance

LEMMA FinishType ==
  ASSUME TypeOK, NEW r \in Req, req[r].pc # "idle", Finish(r)
  PROVE  /\ lock' \in [Disc -> Req \cup {NONE}]
         /\ req' \in [Req -> Request]
  BY RequestFields DEF TypeOK, Finish, Becomes, Request

(* The end of a transaction disturbs no other request that holds a lock. *)
LEMMA FinishHeld ==
  ASSUME TypeOK, LockHeld, NEW r \in Req, req[r].pc # "idle", Finish(r)
  PROVE  LockHeld' /\ ~Holds(r)' /\ \A s \in Req \ {r} : req'[s] = req[s]
<1> USE DEF Finish, Becomes
<1>1. \A s \in Req \ {r} : req'[s] = req[s]
  BY DEF TypeOK
<1>2. req'[r] = Idle
  BY DEF TypeOK
<1>3. ASSUME NEW s \in Req, Holds(s)' PROVE lock'[req'[s].disc] = s
  <2>1. s # r /\ Holds(s) /\ req'[s] = req[s]
    BY <1>1, <1>2, <1>3 DEF Holds, Idle
  <2>2. lock[req[s].disc] = s /\ req[s].disc \in Disc
    BY <2>1, RequestFields DEF LockHeld, Holds
  <2> QED
    BY <2>1, <2>2 DEF TypeOK
<1> QED
  BY <1>1, <1>2, <1>3 DEF LockHeld, Holds, Idle

LEMMA FinishInv ==
  ASSUME Inv, NEW r \in Req, req[r].pc # "idle", Finish(r), UNCHANGED <<ledger, confirmed>>
  PROVE  Inv'
<1>1. TypeOK'
  BY FinishType DEF Inv, TypeOK, ledger
<1>2. LockHeld' /\ ~Holds(r)' /\ \A s \in Req \ {r} : req'[s] = req[s]
  BY FinishHeld DEF Inv
<1>3. SnapshotFresh' /\ SourceChecked'
  BY <1>2 DEF Inv, SnapshotFresh, SourceChecked, Decided, Holds, Remaining, Usable, ledger
<1> QED
  BY <1>1, <1>2, <1>3, LedgerUnchanged DEF Inv

LEMMA BeginInv ==
  ASSUME Inv, NEW r \in Req, NEW d \in Disc, NEW a \in Amount, NEW b \in Batch \cup {NONE},
         Begin(r, d, a, b)
  PROVE  Inv'
<1> USE DEF Begin, Becomes
<1>1. TypeOK'
  BY DEF Inv, TypeOK, Request, Asked, ledger
<1>2. req'[r].pc = "lock" /\ \A s \in Req \ {r} : req'[s] = req[s]
  BY DEF Inv, TypeOK
<1>3. LockHeld' /\ SnapshotFresh' /\ SourceChecked'
  BY <1>2 DEF Inv, LockHeld, SnapshotFresh, SourceChecked, Decided, Holds, Remaining, Usable,
              ledger
<1> QED
  BY <1>1, <1>3, LedgerUnchanged DEF Inv

LEMMA LockInv ==
  ASSUME Inv, NEW r \in Req, Lock(r)
  PROVE  Inv'
<1> USE DEF Lock, Becomes
<1>1. req[r] \in Asked
  BY RequestFields DEF Inv
<1>2. /\ req'[r] = [req[r] EXCEPT !.pc = "balance"]
      /\ \A s \in Req \ {r} : req'[s] = req[s]
      /\ req'[r].pc = "balance" /\ req'[r].disc = req[r].disc
  BY <1>1 DEF Inv, TypeOK, Asked
<1>3. TypeOK'
  BY <1>1 DEF Inv, TypeOK, Request, Asked, ledger
<1>4. SnapshotFresh' /\ SourceChecked'
  BY <1>2 DEF Inv, SnapshotFresh, SourceChecked, Decided, Remaining, Usable, ledger
<1>5. ASSUME NEW s \in Req, Holds(s)' PROVE lock'[req'[s].disc] = s
  <2>1. CASE s = r
    BY <2>1, <1>1, <1>2 DEF Inv, TypeOK, Asked
  <2>2. CASE s # r
    <3>1. req'[s] = req[s] /\ lock[req[s].disc] = s /\ s # NONE /\ req[s].disc \in Disc
      BY <1>2, <1>5, <2>2, RequestFields, NoneAssumption DEF Inv, LockHeld, Holds
    <3> QED
      BY <3>1, <1>1 DEF Inv, TypeOK, Asked
  <2> QED
    BY <2>1, <2>2
<1> QED
  BY <1>3, <1>4, <1>5, LedgerUnchanged DEF Inv, LockHeld

LEMMA ReadBalanceInv ==
  ASSUME Inv, NEW r \in Req, ReadBalance(r)
  PROVE  Inv'
<1> DEFINE q == req[r]
           left == Remaining(q.disc, settled[q.disc])
           new == [pc |-> "source", disc |-> q.disc, amount |-> q.amount,
                   source |-> q.source, seen |-> settled[q.disc],
                   stamped |-> q.disc \in stamped]
<1>1. q \in Asked /\ q.pc = "balance"
  BY RequestFields DEF Inv, ReadBalance
<1>2. CASE Finish(r)
  BY <1>1, <1>2, FinishInv DEF ReadBalance
<1>3. CASE q.amount <= left /\ Becomes(r, new) /\ UNCHANGED lock
  <2>1. req'[r] = new /\ \A s \in Req \ {r} : req'[s] = req[s]
    BY <1>3 DEF Inv, TypeOK, Becomes
  <2>2. new \in Read
    BY <1>1 DEF Inv, TypeOK, Asked, Read
  <2>3. TypeOK'
    BY <1>3, <2>2 DEF Inv, TypeOK, Becomes, Request, ReadBalance, ledger
  <2>4. LockHeld'
    BY <1>1, <1>3, <2>1 DEF Inv, LockHeld, Holds
  <2>5. SnapshotFresh'
    <3>1. \A s \in Req \ {r} : Decided(s)' =>
            /\ req'[s].seen = settled'[req'[s].disc]
            /\ req'[s].stamped <=> req'[s].disc \in stamped'
            /\ req'[s].amount <= Remaining(req'[s].disc, req'[s].seen)
      BY <1>3, <2>1 DEF Inv, SnapshotFresh, Decided, Remaining, ReadBalance, ledger
    <3>2. req'[r].seen = settled'[req'[r].disc] /\ req'[r].amount <= Remaining(req'[r].disc, req'[r].seen)
      BY <1>3, <2>1 DEF Remaining, ReadBalance, ledger
    <3>3. req'[r].stamped <=> req'[r].disc \in stamped'
      <4>1. new.stamped = (q.disc \in stamped) /\ new.disc = q.disc
        OBVIOUS
      <4> QED
        BY <2>1, <4>1, Zenon DEF ReadBalance, ledger
    <3> QED
      BY <3>1, <3>2, <3>3 DEF SnapshotFresh, Decided, Remaining
  <2>6. SourceChecked'
    BY <1>3, <2>1 DEF Inv, SourceChecked, Usable, ReadBalance
  <2> QED
    BY <2>3, <2>4, <2>5, <2>6, LedgerUnchanged DEF Inv, ReadBalance
<1> QED
  BY <1>2, <1>3 DEF ReadBalance

LEMMA CheckSourceInv ==
  ASSUME Inv, NEW r \in Req, CheckSource(r)
  PROVE  Inv'
<1>1. req[r] \in Read /\ req[r].pc = "source"
  BY RequestFields DEF Inv, CheckSource
<1>2. CASE Finish(r)
  BY <1>1, <1>2, FinishInv DEF CheckSource
<1>3. CASE Usable(req[r]) /\ Becomes(r, [req[r] EXCEPT !.pc = "write"]) /\ UNCHANGED lock
  <2>1. /\ req'[r] = [req[r] EXCEPT !.pc = "write"]
        /\ \A s \in Req \ {r} : req'[s] = req[s]
    BY <1>3 DEF Inv, TypeOK, Becomes
  <2>2. TypeOK'
    BY <1>1, <1>3 DEF Inv, TypeOK, Becomes, Request, Read, CheckSource, ledger
  <2>3. LockHeld'
    BY <1>1, <1>3, <2>1 DEF Inv, LockHeld, Holds, Read
  <2>4. SnapshotFresh'
    BY <1>1, <1>3, <2>1 DEF Inv, SnapshotFresh, Decided, Remaining, Read, CheckSource, ledger
  <2>5. SourceChecked'
    BY <1>1, <1>3, <2>1 DEF Inv, SourceChecked, Usable, Read, CheckSource
  <2> QED
    BY <2>2, <2>3, <2>4, <2>5, LedgerUnchanged DEF Inv, CheckSource
<1> QED
  BY <1>2, <1>3 DEF CheckSource

(* Recording an entry.  No other request holds this discrepancy, and the amount *)
(* was compared with the balance as it still is.                             *)
LEMMA WriteInv ==
  ASSUME Inv, NEW r \in Req, Write(r)
  PROVE  Inv' /\ Abstract!Next
<1> DEFINE q == req[r]
           d == q.disc
           w == Column(q.amount)
           size == Magnitude(Difference[d])
<1>1. q \in Read /\ q.pc = "write" /\ d \in Disc /\ q.amount \in Nat \ {0}
  BY RequestFields, AmountAssumption DEF Inv, Write, Read
<1>2. /\ q.seen = settled[d]
      /\ q.stamped <=> d \in stamped
      /\ q.amount <= Exact(size - settled[d])
      /\ lock[d] = r
      /\ Usable(q)
  BY <1>1 DEF Inv, SnapshotFresh, LockHeld, SourceChecked, Decided, Holds, Remaining
<1>3. size \in Nat /\ settled[d] \in Nat
  BY <1>1, MagnitudeIsNat, DifferenceAssumption DEF Inv, TypeOK
<1>4. /\ w \in Nat
      /\ w <= size - settled[d]
      /\ q.amount = Exact(size - settled[d]) => w = size - settled[d]
  BY <1>1, <1>2, <1>3, ColumnBound
<1>5. status[d] # "SETTLED" /\ d \notin stamped
  <2>1. settled[d] < size
    BY <1>1, <1>2, <1>3 DEF Exact
  <2> QED
    BY <1>1, <1>3, <2>1 DEF Inv, NeverOverSettled, Balance
<1>6. /\ settled' = [settled EXCEPT ![d] = @ + w]
      /\ source' = [source EXCEPT ![d] = @ \cup {q.source}]
      /\ rounded' = IF Exact(w) = q.amount THEN rounded ELSE rounded \cup {d}
      /\ status' = [status EXCEPT ![d] = StatusAfter(q)]
      /\ stamped' = IF StatusAfter(q) = "SETTLED" \/ q.stamped
                    THEN stamped \cup {d} ELSE stamped \ {d}
      /\ Finish(r) /\ UNCHANGED confirmed
  BY DEF Write
<1>7. /\ StatusAfter(q) \in {"PARTIALLY_SETTLED", "SETTLED"}
      /\ StatusAfter(q) = "SETTLED" <=> q.amount = Exact(size - settled[d])
  BY <1>1, <1>2, <1>3 DEF StatusAfter, Remaining, Exact
<1>8. stamped' = IF StatusAfter(q) = "SETTLED" THEN stamped \cup {d} ELSE stamped
  BY <1>2, <1>5, <1>6
<1>9. /\ settled'[d] = settled[d] + w
      /\ source'[d] = source[d] \cup {q.source}
      /\ status'[d] = StatusAfter(q)
      /\ \A e \in Disc \ {d} : /\ settled'[e] = settled[e]
                              /\ source'[e] = source[e]
                              /\ status'[e] = status[e]
  BY <1>1, <1>6 DEF Inv, TypeOK
<1>10. TypeOK'
  <2>1. lock' \in [Disc -> Req \cup {NONE}] /\ req' \in [Req -> Request]
    BY <1>1, <1>6, FinishType DEF Inv
  <2>2. settled' \in [Disc -> Nat] /\ \A e \in Disc : settled'[e] <= Magnitude(Difference[e])
    BY <1>1, <1>3, <1>4, <1>6, <1>9 DEF Inv, TypeOK
  <2>3. source' \in [Disc -> SUBSET (Batch \cup {NONE})]
    BY <1>1, <1>6 DEF Inv, TypeOK, Read
  <2>4. status' \in [Disc -> Statuses] /\ stamped' \subseteq Disc /\ rounded' \subseteq Disc
    BY <1>1, <1>6, <1>7, <1>8 DEF Inv, TypeOK, Statuses
  <2> QED
    BY <1>6, <2>1, <2>2, <2>3, <2>4 DEF Inv, TypeOK
<1>11. LockHeld' /\ ~Holds(r)' /\ \A s \in Req \ {r} : req'[s] = req[s]
  BY <1>1, <1>6, FinishHeld DEF Inv
<1>12. ASSUME NEW s \in Req, Decided(s)' PROVE req'[s] = req[s] /\ req[s].disc \in Disc \ {d}
  <2>1. s # r /\ req'[s] = req[s] /\ Holds(s)
    BY <1>11, <1>12 DEF Decided, Holds
  <2>2. lock[req[s].disc] = s
    BY <2>1 DEF Inv, LockHeld
  <2> QED
    BY <1>2, <2>1, <2>2, RequestFields DEF Inv, Holds
<1>13. SnapshotFresh'
  BY <1>8, <1>9, <1>12 DEF Inv, SnapshotFresh, Decided, Remaining
<1>14. SourceChecked'
  BY <1>6, <1>11 DEF Inv, SourceChecked, Usable, Holds
<1>15. NeverOverSettled'
  <2>1. ASSUME NEW e \in Disc
        PROVE  /\ Balance(e)' >= 0
               /\ status'[e] = "SETTLED" => Balance(e)' = 0
               /\ status'[e] = "SETTLED" <=> e \in stamped'
               /\ status'[e] = "OPEN" <=> source'[e] = {}
    <3>1. CASE e = d
      <4>1. Balance(e)' = size - settled[d] - w
        BY <1>3, <1>4, <1>9, <3>1 DEF Balance
      <4>2. Balance(e)' >= 0 /\ (status'[e] = "SETTLED" => Balance(e)' = 0)
        BY <1>3, <1>4, <1>7, <1>9, <3>1, <4>1
      <4>3. status'[e] = "SETTLED" <=> e \in stamped'
        BY <1>5, <1>7, <1>8, <1>9, <3>1
      <4>4. status'[e] # "OPEN" /\ source'[e] # {}
        BY <1>7, <1>9, <3>1
      <4> QED
        BY <4>2, <4>3, <4>4
    <3>2. CASE e # d
      BY <1>8, <1>9, <3>2 DEF Inv, NeverOverSettled, Balance
    <3> QED
      BY <3>1, <3>2
  <2> QED
    BY <2>1 DEF NeverOverSettled
<1>16. StatusExactInGrams'
  <2>1. ASSUME NEW e \in Disc \ rounded', Difference[e] # 0 PROVE StatusMatches(e)'
    <3>1. CASE e = d
      <4>1. Exact(w) = q.amount
        BY <1>6, <2>1, <3>1
      <4>2. Balance(e)' = size - settled[d] - w
        BY <1>3, <1>4, <1>9, <3>1 DEF Balance
      <4>3. status'[e] = "SETTLED" <=> Balance(e)' = 0
        BY <1>1, <1>3, <1>4, <1>7, <1>9, <3>1, <4>1, <4>2 DEF Exact
      <4>4. status'[e] # "OPEN" /\ source'[e] # {}
        BY <1>7, <1>9, <3>1
      <4> QED
        BY <4>3, <4>4 DEF StatusMatches
    <3>2. CASE e # d
      BY <1>6, <1>9, <2>1, <3>2 DEF Inv, StatusExactInGrams, StatusMatches, Balance
    <3> QED
      BY <3>1, <3>2
  <2> QED
    BY <2>1 DEF StatusExactInGrams
<1>17. SourceIsConfirmed'
  BY <1>1, <1>2, <1>6, <1>9 DEF Inv, SourceIsConfirmed, Usable
<1>18. Abstract!Next
  <2>1. Abstract!Original(d) = size
    BY DEF Abstract!Original, Abstract!Magnitude, Magnitude
  <2>2. w \in 0 .. size
    BY <1>3, <1>4
  <2>3. StatusAfter(q) = "SETTLED" => settled'[d] = size
    BY <1>3, <1>4, <1>7, <1>9
  <2>4. Abstract!Settle(d, w)
    <3>1. \E s \in {"PARTIALLY_SETTLED", "SETTLED"} :
            /\ s = "SETTLED" => settled'[d] = size
            /\ status' = [status EXCEPT ![d] = s]
      BY <1>6, <1>7, <2>3
    <3>2. settled[d] + w <= size
      BY <1>3, <1>4
    <3> QED
      BY <1>5, <1>6, <2>1, <3>1, <3>2, Zenon DEF Abstract!Settle
  <2> QED
    BY <1>1, <2>1, <2>2, <2>4 DEF Abstract!Next
<1> QED
  BY <1>10, <1>11, <1>13, <1>14, <1>15, <1>16, <1>17, <1>18 DEF Inv

LEMMA ConfirmBatchInv ==
  ASSUME Inv, NEW b \in Batch, ConfirmBatch(b)
  PROVE  Inv'
<1>1. TypeOK'
  BY DEF Inv, TypeOK, ConfirmBatch, ledger
<1>2. LockHeld' /\ SnapshotFresh' /\ SourceChecked'
  BY DEF Inv, LockHeld, SnapshotFresh, SourceChecked, Holds, Decided, Remaining, Usable,
         ConfirmBatch, ledger
<1> QED
  BY <1>1, <1>2, LedgerUnchanged DEF Inv, ConfirmBatch

LEMMA StutterInv == ASSUME Inv, UNCHANGED vars PROVE Inv'
  BY DEF Inv, TypeOK, LockHeld, SnapshotFresh, SourceChecked, NeverOverSettled,
         StatusExactInGrams, SourceIsConfirmed, StatusMatches, Balance, Holds, Decided,
         Remaining, Usable, vars, ledger

(* Every step keeps the invariant, and changes the ledger as one step of the    *)
(* abstract ledger or not at all.                                            *)
LEMMA NextInv ==
  ASSUME Inv, [Next]_vars
  PROVE  Inv' /\ [Abstract!Next]_(Abstract!vars)
<1>1. ASSUME NEW r \in Req, NEW d \in Disc, NEW a \in Amount, NEW b \in Batch \cup {NONE},
             Begin(r, d, a, b)
      PROVE  Inv' /\ UNCHANGED ledger
  BY <1>1, BeginInv DEF Begin
<1>2. ASSUME NEW r \in Req, Lock(r) PROVE Inv' /\ UNCHANGED ledger
  BY <1>2, LockInv DEF Lock
<1>3. ASSUME NEW r \in Req, ReadBalance(r) PROVE Inv' /\ UNCHANGED ledger
  BY <1>3, ReadBalanceInv DEF ReadBalance
<1>4. ASSUME NEW r \in Req, CheckSource(r) PROVE Inv' /\ UNCHANGED ledger
  BY <1>4, CheckSourceInv DEF CheckSource
<1>5. ASSUME NEW r \in Req, Write(r) PROVE Inv' /\ Abstract!Next
  BY <1>5, WriteInv
<1>6. ASSUME NEW r \in Req, Abort(r) PROVE Inv' /\ UNCHANGED ledger
  BY <1>6, FinishInv DEF Abort
<1>7. ASSUME NEW b \in Batch, ConfirmBatch(b) PROVE Inv' /\ UNCHANGED ledger
  BY <1>7, ConfirmBatchInv DEF ConfirmBatch
<1>8. ASSUME UNCHANGED vars PROVE Inv' /\ UNCHANGED ledger
  BY <1>8, StutterInv DEF vars
<1>9. Inv' /\ (UNCHANGED ledger \/ Abstract!Next)
  BY <1>1, <1>2, <1>3, <1>4, <1>5, <1>6, <1>7, <1>8 DEF Next
<1>10. UNCHANGED ledger => UNCHANGED Abstract!vars
  BY DEF ledger, Abstract!vars
<1> QED
  BY <1>9, <1>10

-----------------------------------------------------------------------------
(* Every step of the settlement requests keeps the invariant: the holder of the row lock   *)
(* has read the sum that is still current.                                            *)
THEOREM Invariance == Spec => []Inv
<1>1. Init => Inv
  BY InitInv
<1>2. Inv /\ [Next]_vars => Inv'
  BY NextInv
<1> QED
  BY <1>1, <1>2, PTL DEF Spec

(* Every reachable state is of the declared types, and no discrepancy's entries *)
(* add up to more than its difference.                                       *)
THEOREM TypeCorrect == Spec => []TypeOK
<1>1. Inv => TypeOK
  BY DEF Inv
<1> QED
  BY <1>1, Invariance, PTL

(* However many requests race, the entries never exceed the difference, and     *)
(* SETTLED is claimed only when they add up to all of it.                     *)
THEOREM Safety == Spec => []NeverOverSettled
<1>1. Inv => NeverOverSettled
  BY DEF Inv
<1> QED
  BY <1>1, Invariance, PTL

(* Without an entry that the column rounded, the status is exactly the one the  *)
(* documentation's table gives.                                              *)
THEOREM StatusCorrect == Spec => []StatusExactInGrams
<1>1. Inv => StatusExactInGrams
  BY DEF Inv
<1> QED
  BY <1>1, Invariance, PTL

(* An entry's source batch is a confirmed one of the discrepancy's supplier. *)
THEOREM SourceCorrect == Spec => []SourceIsConfirmed
<1>1. Inv => SourceIsConfirmed
  BY DEF Inv
<1> QED
  BY <1>1, Invariance, PTL

(* The locked transactions implement the ledger of atomic settlements. *)
THEOREM Refinement == Spec => ImplementsLedger
<1>1. Init => Abstract!Init
  BY DEF Init, Abstract!Init
<1>2. Inv /\ [Next]_vars => [Abstract!Next]_(Abstract!vars)
  BY NextInv
<1> QED
  BY <1>1, <1>2, Invariance, PTL DEF Spec, ImplementsLedger, Abstract!Spec
=============================================================================
