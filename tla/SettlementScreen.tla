-------------------------- MODULE SettlementScreen --------------------------
(***************************************************************************)
(* Entering settlements on the page of a receiving discrepancy:                *)
(* DiscrepancyDetailsPage, with the settlement transaction of Settlement as       *)
(* one step of the server.                                                    *)
(*                                                                         *)
(* What is entered is compared with the balance the page has loaded; the server  *)
(* compares it with the balance there is.  The answer clears the form and the     *)
(* discrepancy is loaded again; a load that fails leaves the old balance.         *)
(***************************************************************************)
EXTENDS Naturals

CONSTANTS
  Payer,      \* administrators, each with the page open
  Payment,    \* what suppliers made good
  Covers,     \* the weight each payment covers
  Owed,       \* the weight of the discrepancy
  Copies,     \* bound: entries of one payment
  Blank       \* nothing loaded, nothing in the form

ASSUME BlankAssumption == Blank \notin Payment
ASSUME CoversAssumption == Covers \in [Payment -> Nat \ {0}]
ASSUME OwedAssumption == Owed \in Nat /\ Copies \in Nat

VARIABLES
  owed,     \* the balance the server derives
  entered,  \* the entries of each payment
  payPage,  \* per administrator: the balance shown and the payment in the form
  paying,   \* the call each page makes
  taken,    \* history: payments administrators have entered, as far as they can tell
  misled    \* history: payments stored and reported as failed

settlementScreenVars == <<owed, entered, payPage, paying, taken, misled>>

-----------------------------------------------------------------------------
PayInit ==
  /\ owed = Owed
  /\ entered = [p \in Payment |-> 0]
  /\ payPage = [a \in Payer |-> [shown |-> Blank, draft |-> Blank]]
  /\ paying = [a \in Payer |-> [pc |-> "load"]]
  /\ taken = {}
  /\ misled = {}

PayCall(a, c) == paying' = [paying EXCEPT ![a] = c]
Free(a) == paying[a].pc = "idle"

(* load: the reply, then its place on the page. *)
ReadBalance(a) ==
  /\ paying[a].pc = "load"
  /\ PayCall(a, [pc |-> "loaded", balance |-> owed])
  /\ UNCHANGED <<owed, entered, payPage, taken, misled>>

ShowBalance(a) ==
  /\ paying[a].pc = "loaded"
  /\ payPage' = [payPage EXCEPT ![a].shown = paying[a].balance]
  /\ PayCall(a, [pc |-> "idle"])
  /\ UNCHANGED <<owed, entered, taken, misled>>

(* load shows an error of its own and does not pass it on. *)
FailLoad(a) ==
  /\ paying[a].pc \in {"load", "loaded"}
  /\ PayCall(a, [pc |-> "idle"])
  /\ UNCHANGED <<owed, entered, payPage, taken, misled>>

ReopenDiscrepancy(a) ==
  /\ Free(a)
  /\ payPage' = [payPage EXCEPT ![a] = [shown |-> Blank, draft |-> Blank]]
  /\ PayCall(a, [pc |-> "load"])
  /\ UNCHANGED <<owed, entered, taken, misled>>

(* The form is there while the discrepancy shown is not settled.  Who has a payment to   *)
(* enter enters one that nobody has.                                                  *)
EnterPayment(a, p) ==
  /\ payPage[a].shown \notin {Blank, 0}
  /\ p \notin taken
  /\ \A b \in Payer \ {a} : payPage[b].draft # p
  /\ payPage' = [payPage EXCEPT ![a].draft = p]
  /\ UNCHANGED <<owed, entered, paying, taken, misled>>

(* settlementFormError: no more than the remaining weight on the page. *)
FormAccepted(a) ==
  /\ payPage[a].draft # Blank
  /\ Covers[payPage[a].draft] <= payPage[a].shown

(* submitSettlement; its button is disabled until the handler ends. *)
SubmitSettlement(a) ==
  /\ Free(a)
  /\ payPage[a].shown \notin {Blank, 0}
  /\ FormAccepted(a)
  /\ PayCall(a, [pc |-> "post", payment |-> payPage[a].draft])
  /\ taken' = taken \cup {payPage[a].draft}
  /\ UNCHANGED <<owed, entered, payPage, misled>>

(* Settlement!Commit: against the balance there is. *)
StoreSettlement(a) ==
  /\ paying[a].pc = "post"
  /\ LET p == paying[a].payment IN
       /\ Covers[p] <= owed
       /\ entered[p] < Copies
       /\ owed' = owed - Covers[p]
       /\ entered' = [entered EXCEPT ![p] = @ + 1]
       /\ PayCall(a, [pc |-> "stored", payment |-> p])
  /\ UNCHANGED <<payPage, taken, misled>>

(* Mutant: the form is cleared once the balance has been loaded again. *)
SettledThenLoaded(a) ==
  /\ paying[a].pc = "stored"
  /\ PayCall(a, [pc |-> "load"])
  /\ UNCHANGED <<owed, entered, payPage, taken, misled>>

(* The form is cleared before the balance is loaded again. *)
AnswerSettlement(a) ==
  /\ paying[a].pc = "stored"
  /\ payPage' = [payPage EXCEPT ![a].draft = Blank]
  /\ PayCall(a, [pc |-> "load"])
  /\ UNCHANGED <<owed, entered, taken, misled>>

(* Refused, or the request or its answer is lost: the form is kept. *)
FailSettlement(a) ==
  /\ paying[a].pc \in {"post", "stored"}
  /\ misled' = IF paying[a].pc = "stored" THEN misled \cup {paying[a].payment} ELSE misled
  /\ taken' = taken \ {paying[a].payment}
  /\ PayCall(a, [pc |-> "idle"])
  /\ UNCHANGED <<owed, entered, payPage>>

PayNext ==
  \E a \in Payer :
    \/ ReadBalance(a)
    \/ ShowBalance(a)
    \/ FailLoad(a)
    \/ ReopenDiscrepancy(a)
    \/ \E p \in Payment : EnterPayment(a, p)
    \/ SubmitSettlement(a)
    \/ StoreSettlement(a)
    \/ AnswerSettlement(a)
    \/ FailSettlement(a)

PaySpec == PayInit /\ [][PayNext]_settlementScreenVars

-----------------------------------------------------------------------------
(* A payment is entered once, whatever balances the pages show and although a load that   *)
(* fails leaves the old one, unless a settlement that was stored was reported as failed.  *)
SettledOnce == \A p \in Payment : entered[p] <= 1 \/ p \in misled
=============================================================================
