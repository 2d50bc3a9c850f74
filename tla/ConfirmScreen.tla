---------------------------- MODULE ConfirmScreen ----------------------------
(***************************************************************************)
(* Confirming a batch from its page: BatchDetailsPage, the read of the batch    *)
(* it is filled from (BatchesService.get) and the part of reconcile it sees.      *)
(*                                                                         *)
(* The page shows the difference between the document and the stock as it was    *)
(* when the batch was read, and asks the administrator to acknowledge it; the    *)
(* server computes the difference again and is told only that one was            *)
(* acknowledged.  The read itself is made of two statements.                    *)
(***************************************************************************)
EXTENDS Integers

CONSTANTS
  Clerk,      \* administrators, each with the page of the batch open
  MaxWeight,  \* bound: the weight of a batch and of its document
  Unread      \* nothing loaded, no dialog, nobody, nothing acknowledged

ASSUME WeightAssumption == MaxWeight \in Nat
ASSUME UnreadAssumption ==
  Unread \notin Int \cup [confirmed: BOOLEAN, stock: 0 .. MaxWeight]
                    \cup [difference: Int, agreed: Int \cup {Unread}, shifted: BOOLEAN]

VARIABLES
  stock,     \* the sum over the active packages
  confirmed, \* the confirmation: the difference recorded and, history, how it came about
  page,      \* per clerk: the batch shown, and the document the dialog is about
  post,      \* the call each page makes
  shifted,   \* history: the stock changed after the page had read it
  late       \* history: a package was written after the confirmation

confirmVars == <<stock, confirmed, page, post, shifted, late>>

Weight == 0 .. MaxWeight

(* reconciliationFormError: a documentary weight is positive. *)
DocumentWeight == 1 .. MaxWeight

-----------------------------------------------------------------------------
(* The page has been opened: its first load is under way. *)
ConfirmInit ==
  /\ stock \in Weight
  /\ confirmed = Unread
  /\ page = [a \in Clerk |-> [shown |-> Unread, dialog |-> Unread]]
  /\ post = [a \in Clerk |-> [pc |-> "row"]]
  /\ shifted = [a \in Clerk |-> FALSE]
  /\ late = FALSE

(* Packages are registered, corrected and voided; a request the confirmation overtook   *)
(* may still write one (Reconcile).                                                  *)
ChangeTotal(w) ==
  /\ w # stock
  /\ stock' = w
  /\ shifted' = [a \in Clerk |-> page[a].shown # Unread \/ post[a].pc = "answer"]
  /\ late' = (late \/ confirmed # Unread)
  /\ UNCHANGED <<confirmed, page, post>>

Calling(a, c) == post' = [post EXCEPT ![a] = c]

-----------------------------------------------------------------------------
(* Mutant: the packages are read before the batch. *)
ReadBagsFirst(a) ==
  \/ /\ post[a].pc = "row"
     /\ Calling(a, [pc |-> "bags", stock |-> stock])
     /\ UNCHANGED <<stock, confirmed, page, shifted, late>>
  \/ /\ post[a].pc = "bags"
     /\ Calling(a, [pc |-> "answer", confirmed |-> confirmed # Unread, stock |-> post[a].stock])
     /\ shifted' = [shifted EXCEPT ![a] = stock # post[a].stock]
     /\ UNCHANGED <<stock, confirmed, page, late>>

(* get: the batch first, then its packages. *)
ReadBatch(a) ==
  \/ /\ post[a].pc = "row"
     /\ Calling(a, [pc |-> "bags", confirmed |-> confirmed # Unread])
     /\ UNCHANGED <<stock, confirmed, page, shifted, late>>
  \/ /\ post[a].pc = "bags"
     /\ Calling(a, [pc |-> "answer", confirmed |-> post[a].confirmed, stock |-> stock])
     /\ shifted' = [shifted EXCEPT ![a] = FALSE]
     /\ UNCHANGED <<stock, confirmed, page, late>>

(* setBatch, after the first load or after a confirmation. *)
ShowBatch(a) ==
  /\ post[a].pc = "answer"
  /\ page' = [page EXCEPT ![a].shown = [confirmed |-> post[a].confirmed, stock |-> post[a].stock]]
  /\ Calling(a, [pc |-> "idle"])
  /\ UNCHANGED <<stock, confirmed, shifted, late>>

-----------------------------------------------------------------------------
(* The form is there while the batch shown is pending and has packages. *)
CanReconcile(a) ==
  /\ post[a].pc = "idle"
  /\ page[a].shown # Unread
  /\ ~page[a].shown.confirmed
  /\ page[a].shown.stock > 0

(* "agreed" is the difference the dialog showed, if it was shown. *)
Posted(a, document, acknowledge, agreed) ==
  Calling(a, [pc |-> "post", document |-> document, acknowledge |-> acknowledge,
              agreed |-> agreed])

(* Mutant: the acknowledgement is sent whether the dialog was shown or not. *)
SubmitAcknowledged(a, document) ==
  /\ CanReconcile(a)
  /\ page[a].dialog = Unread
  /\ IF document # page[a].shown.stock
     THEN page' = [page EXCEPT ![a].dialog = document] /\ UNCHANGED post
     ELSE Posted(a, document, TRUE, Unread) /\ UNCHANGED page
  /\ UNCHANGED <<stock, confirmed, shifted, late>>

(* submitReconciliation *)
SubmitReconciliation(a, document) ==
  /\ CanReconcile(a)
  /\ page[a].dialog = Unread
  /\ IF document # page[a].shown.stock
     THEN page' = [page EXCEPT ![a].dialog = document] /\ UNCHANGED post
     ELSE Posted(a, document, FALSE, Unread) /\ UNCHANGED page
  /\ UNCHANGED <<stock, confirmed, shifted, late>>

AcceptDialog(a) ==
  /\ CanReconcile(a)
  /\ page[a].dialog # Unread
  /\ Posted(a, page[a].dialog, TRUE, page[a].shown.stock - page[a].dialog)
  /\ UNCHANGED <<stock, confirmed, page, shifted, late>>

(* Its other button is not disabled while the call runs. *)
CloseDialog(a) ==
  /\ page[a].dialog # Unread
  /\ page' = [page EXCEPT ![a].dialog = Unread]
  /\ UNCHANGED <<stock, confirmed, post, shifted, late>>

-----------------------------------------------------------------------------
(* reconcile up to its transaction: a confirmed batch, one without packages and a       *)
(* difference nobody acknowledged are refused.                                        *)
Measure(a) ==
  /\ post[a].pc = "post"
  /\ confirmed = Unread
  /\ stock > 0
  /\ stock = post[a].document \/ post[a].acknowledge
  /\ Calling(a, [pc |-> "commit", difference |-> stock - post[a].document,
                 agreed |-> post[a].agreed])
  /\ UNCHANGED <<stock, confirmed, page, shifted, late>>

(* The batch is updated if it is still pending; the dialog closes, the batch is read. *)
CommitReconcile(a) ==
  /\ post[a].pc = "commit"
  /\ confirmed = Unread
  /\ confirmed' = [difference |-> post[a].difference, agreed |-> post[a].agreed,
                   shifted |-> shifted[a]]
  /\ Calling(a, [pc |-> "row"])
  /\ page' = [page EXCEPT ![a].dialog = Unread]
  /\ UNCHANGED <<stock, shifted, late>>

(* A refusal, a lost answer, a reload that fails: an error is shown, the dialog closed. *)
FailCall(a) ==
  /\ post[a].pc # "idle"
  /\ Calling(a, [pc |-> "idle"])
  /\ page' = [page EXCEPT ![a].dialog = Unread]
  /\ UNCHANGED <<stock, confirmed, shifted, late>>

(* The administrator opens the page again. *)
ReopenPage(a) ==
  /\ post[a].pc = "idle"
  /\ page' = [page EXCEPT ![a] = [shown |-> Unread, dialog |-> Unread]]
  /\ Calling(a, [pc |-> "row"])
  /\ UNCHANGED <<stock, confirmed, shifted, late>>

ConfirmNext ==
  \/ \E w \in Weight : ChangeTotal(w)
  \/ \E a \in Clerk :
       \/ ReadBatch(a)
       \/ ShowBatch(a)
       \/ \E document \in DocumentWeight : SubmitReconciliation(a, document)
       \/ AcceptDialog(a)
       \/ CloseDialog(a)
       \/ Measure(a)
       \/ CommitReconcile(a)
       \/ FailCall(a)
       \/ ReopenPage(a)

ConfirmSpec == ConfirmInit /\ [][ConfirmNext]_confirmVars

-----------------------------------------------------------------------------
(* A discrepancy is recorded only if its administrator acknowledged one, and it is the   *)
(* one he was shown unless the stock changed after his page had read it.               *)
AcknowledgedDifference ==
  confirmed # Unread /\ confirmed.difference # 0 =>
    /\ confirmed.agreed # Unread
    /\ confirmed.agreed = confirmed.difference \/ confirmed.shifted

(* A page that shows the batch as confirmed shows its final stock, although the two are   *)
(* read in two statements, unless a package was written after the confirmation.         *)
ConfirmedTotalIsFinal ==
  \A a \in Clerk :
    page[a].shown # Unread /\ page[a].shown.confirmed => late \/ page[a].shown.stock = stock
=============================================================================
