--------------------------- MODULE ReceivingScreen ---------------------------
(***************************************************************************)
(* The screen at which a worker registers the packages of a delivery:         *)
(* ReceivingDeliveryPage and the state functions of lib/receiving.             *)
(*                                                                         *)
(* Every button starts an async handler: it sends a request, then reads the    *)
(* batch again, then puts what it read on the screen.  A handler keeps the      *)
(* batch of the render that started it, and only its own button is disabled     *)
(* while it runs, so its answer may find another batch on the screen.           *)
(***************************************************************************)
EXTENDS Naturals, Sequences, FiniteSets

CONSTANTS
  Batch,     \* batches of the delivery, in one warehouse
  Unit,      \* physical packages to register
  BatchOf,   \* the batch each of them belongs to
  MaxBags,   \* bound: packages registered
  MaxRunning, \* bound: handlers that run at a time
  Nothing    \* no batch, no draft, no panel, no label

ASSUME BatchOfAssumption == BatchOf \in [Unit -> Batch]
ASSUME BagsAssumption == MaxBags \in Nat /\ MaxRunning \in Nat
ASSUME NothingAssumption ==
  /\ Nothing \notin Unit \cup Nat
  /\ Nothing \notin [id: Batch, shown: UNION {[S -> {"new", "corrected", "voided"}] :
                                                S \in SUBSET (1 .. MaxBags)}]

VARIABLES
  bags,       \* the packages the server has, in the order of their creation
  screen,     \* what is on the screen
  op,         \* the handlers that run
  handled,    \* history: units saved, as far as the worker can tell
  doubtful,   \* history: units whose save was stored and reported as failed
  unseen,     \* history: batches changed by a handler that reported a failure
  overlapped, \* history: a handler was started while another one ran
  displaced   \* history: an answer put its batch under the draft or label of another

screenVars == <<bags, screen, op, handled, doubtful, unseen, overlapped, displaced>>

-----------------------------------------------------------------------------
Handler == {"resolve", "save", "correct", "void"}
BagId == 1 .. MaxBags

(* enterDelivery, once the delivery is loaded. *)
EnterDelivery ==
  [batch |-> Nothing, draft |-> Nothing, label |-> Nothing,
   correction |-> Nothing, voiding |-> Nothing]

ScreenInit ==
  /\ bags = <<>>
  /\ screen = EnterDelivery
  /\ op = [k \in Handler |-> [pc |-> "idle"]]
  /\ handled = {}
  /\ doubtful = {}
  /\ unseen = {}
  /\ overlapped = FALSE
  /\ displaced = FALSE

BatchDetail(b) ==
  [id |-> b, shown |-> [i \in {j \in DOMAIN bags : bags[j].batch = b} |-> bags[i].status]]

-----------------------------------------------------------------------------
(* The entry form is shown, for a batch or for the choice of one. *)
FormShown == screen.label = Nothing
BatchShown == FormShown /\ screen.batch # Nothing
ChoiceShown == FormShown /\ screen.batch = Nothing

(* The rows of active packages, with their buttons. *)
Offered(i) ==
  /\ BatchShown
  /\ i \in DOMAIN screen.batch.shown
  /\ screen.batch.shown[i] # "voided"

(* The panels of a correction and of a void stay open over the batch there is. *)
CorrectionShown == BatchShown /\ screen.correction # Nothing
VoidShown == BatchShown /\ screen.voiding # Nothing

Start(k, batch, bag, unit) ==
  /\ op[k].pc = "idle"
  /\ Cardinality({j \in Handler : op[j].pc # "idle"}) < MaxRunning
  /\ op' = [op EXCEPT ![k] = [pc |-> "sent", batch |-> batch, bag |-> bag,
                              unit |-> unit, view |-> Nothing]]
  /\ overlapped' = (overlapped \/ \E j \in Handler : op[j].pc # "idle")
  /\ UNCHANGED <<bags, doubtful, unseen, displaced>>

(* resolveResource *)
ResolveResource(b) ==
  /\ ChoiceShown
  /\ Start("resolve", b, Nothing, Nothing)
  /\ UNCHANGED <<screen, handled>>

(* submitBag *)
SubmitBag ==
  /\ BatchShown
  /\ screen.draft # Nothing
  /\ Start("save", screen.batch.id, Nothing, screen.draft)
  /\ handled' = handled \cup {screen.draft}
  /\ UNCHANGED screen

(* submitCorrection: of a package the batch on the screen has. *)
SubmitCorrection ==
  /\ CorrectionShown
  /\ screen.correction \in DOMAIN screen.batch.shown
  /\ Start("correct", screen.batch.id, screen.correction, Nothing)
  /\ UNCHANGED <<screen, handled>>

(* submitVoid: the panel keeps the package, whatever batch is on the screen. *)
SubmitVoid ==
  /\ VoidShown
  /\ Start("void", screen.batch.id, screen.voiding, Nothing)
  /\ UNCHANGED <<screen, handled>>

-----------------------------------------------------------------------------
OnScreen(s) ==
  /\ screen' = s
  /\ UNCHANGED <<bags, op, handled, doubtful, unseen, overlapped, displaced>>

(* The worker enters a package of the batch the screen shows, not one he has saved. *)
UpdateDraft(u) ==
  /\ BatchShown
  /\ screen.batch.id = BatchOf[u]
  /\ u \notin handled
  /\ OnScreen([screen EXCEPT !.draft = u])

AnotherResource == BatchShown /\ OnScreen(EnterDelivery)

OpenCorrection(i) == Offered(i) /\ OnScreen([screen EXCEPT !.correction = i, !.voiding = Nothing])
OpenVoid(i) == Offered(i) /\ OnScreen([screen EXCEPT !.voiding = i, !.correction = Nothing])
CancelPanel ==
  /\ CorrectionShown \/ VoidShown
  /\ OnScreen([screen EXCEPT !.voiding = Nothing, !.correction = Nothing])
ReprintUnit(i) == Offered(i) /\ OnScreen([screen EXCEPT !.label = i])
CloseLabel == ~FormShown /\ OnScreen([screen EXCEPT !.label = Nothing])

-----------------------------------------------------------------------------
(* What the API does: createBag, correctBag, voidBag (Packages), resolveBatch, or     *)
(* none of it: a batch confirmed meanwhile, a package voided, a failed validation.    *)
Serve(k) ==
  /\ op[k].pc = "sent"
  /\ \/ /\ k = "resolve"
        /\ op' = [op EXCEPT ![k].pc = "fresh", ![k].view = BatchDetail(op[k].batch)]
        /\ UNCHANGED bags
     \/ /\ k = "save"
        /\ Len(bags) < MaxBags
        /\ bags' = Append(bags, [unit |-> op[k].unit, batch |-> op[k].batch, status |-> "new"])
        /\ op' = [op EXCEPT ![k].pc = "stored", ![k].bag = Len(bags) + 1]
     \/ /\ k \in {"correct", "void"}
        /\ bags[op[k].bag].status # "voided"
        /\ bags' = [bags EXCEPT ![op[k].bag].status = IF k = "void" THEN "voided" ELSE "corrected"]
        /\ op' = [op EXCEPT ![k].pc = "stored"]
  /\ UNCHANGED <<screen, handled, doubtful, unseen, overlapped, displaced>>

(* refreshBatchAndDelivery: the batch of the handler's closure is read. *)
RefreshBatch(k) ==
  /\ op[k].pc = "stored"
  /\ op' = [op EXCEPT ![k].pc = "fresh", ![k].view = BatchDetail(op[k].batch)]
  /\ UNCHANGED <<bags, screen, handled, doubtful, unseen, overlapped, displaced>>

-----------------------------------------------------------------------------
Shows(b) == screen.batch # Nothing /\ screen.batch.id = b

(* Mutant: the label stays open. *)
EnterBatchAlone(view) == [screen EXCEPT !.batch = view, !.draft = Nothing]

EnterBatch(view) == [screen EXCEPT !.batch = view, !.draft = Nothing, !.label = Nothing]

(* Mutant: the saved package is added to the rows of the screen, not read again. *)
SavedOnScreen(q, print) ==
  [screen EXCEPT !.batch = IF @ = Nothing THEN q.view ELSE @, !.draft = Nothing,
                 !.label = IF print THEN q.bag ELSE Nothing]

(* applyUnitSaved and applyUnitSavedSilently: the next draft is for that batch. *)
UnitSaved(q, print) ==
  [screen EXCEPT !.batch = q.view, !.draft = Nothing, !.label = IF print THEN q.bag ELSE Nothing]

(* A correction or void: the draft and the label stay, the panel closes. *)
UnitEdited(k, q) ==
  [screen EXCEPT !.batch = q.view,
                 !.correction = IF k = "correct" THEN Nothing ELSE @,
                 !.voiding = IF k = "void" THEN Nothing ELSE @]

Finish(k) == op' = [op EXCEPT ![k] = [pc |-> "idle"]]

(* Mutant: a saved package leaves the draft for the worker to overwrite. *)
AnsweredKeepingDraft(k, q, print) ==
  CASE k = "resolve" -> EnterBatch(q.view)
    [] k = "save" -> [UnitSaved(q, print) EXCEPT !.draft = screen.draft]
    [] OTHER -> UnitEdited(k, q)

(* Mutant: what was entered while the save ran is not lost. *)
AnsweredKeepingNext(k, q, print) ==
  CASE k = "resolve" -> EnterBatch(q.view)
    [] k = "save" -> [UnitSaved(q, print) EXCEPT
                        !.draft = IF screen.draft = q.unit THEN Nothing ELSE screen.draft]
    [] OTHER -> UnitEdited(k, q)

Answered(k, q, print) ==
  CASE k = "resolve" -> EnterBatch(q.view)
    [] k = "save" -> UnitSaved(q, print)
    [] OTHER -> UnitEdited(k, q)

(* The answer is applied to the screen as it is by now; "print" is the button of a save. *)
Answer(k, print) ==
  /\ op[k].pc = "fresh"
  /\ LET q == op[k] IN
       /\ print => k = "save"
       /\ screen' = Answered(k, q, print)
       /\ unseen' = unseen \ {q.batch}
       /\ displaced' = (displaced \/ /\ k \in {"correct", "void"}
                                     /\ ~Shows(q.batch)
                                     /\ screen.draft # Nothing \/ screen.label # Nothing)
  /\ Finish(k)
  /\ UNCHANGED <<bags, handled, doubtful, overlapped>>

(* The request is refused, or it, its answer or one of the refresh is lost.            *)
(* applyUnitSaveFailed and handleError: the draft and the panels are kept.               *)
Fail(k) ==
  /\ op[k].pc \in {"sent", "stored"}
  /\ LET saved == op[k].pc = "stored" IN
       /\ screen' = IF k = "save" THEN [screen EXCEPT !.label = Nothing] ELSE screen
       /\ handled' = handled \ {op[k].unit}
       /\ doubtful' = IF saved /\ k = "save" THEN doubtful \cup {op[k].unit} ELSE doubtful
       /\ unseen' = IF saved THEN unseen \cup {bags[op[k].bag].batch} ELSE unseen
  /\ Finish(k)
  /\ UNCHANGED <<bags, overlapped, displaced>>

-----------------------------------------------------------------------------
ScreenNext ==
  \/ \E b \in Batch : ResolveResource(b)
  \/ SubmitBag
  \/ SubmitCorrection
  \/ SubmitVoid
  \/ \E u \in Unit : UpdateDraft(u)
  \/ AnotherResource
  \/ \E i \in BagId : OpenCorrection(i) \/ OpenVoid(i) \/ ReprintUnit(i)
  \/ CancelPanel
  \/ CloseLabel
  \/ \E k \in Handler :
       \/ Serve(k)
       \/ RefreshBatch(k)
       \/ \E print \in BOOLEAN : Answer(k, print)
       \/ Fail(k)

ScreenSpec == ScreenInit /\ [][ScreenNext]_screenVars

-----------------------------------------------------------------------------
(* A physical package has one active registration: its save is not repeated, unless   *)
(* a save the server has stored was reported to the worker as failed.                *)
RegisteredOnce ==
  \A i, j \in DOMAIN bags :
    i # j /\ bags[i].unit = bags[j].unit =>
      \/ bags[i].unit \in doubtful
      \/ bags[i].status = "voided" \/ bags[j].status = "voided"

(* A package goes into the batch it was entered for, although answers may bring        *)
(* another batch on the screen while it is entered: a save or a resolved resource       *)
(* takes the draft away with it.  The answer of a correction or void does not.          *)
EntryStaysInItsBatch ==
  displaced \/ \A i \in DOMAIN bags : bags[i].batch = BatchOf[bags[i].unit]

(* The label on the screen is printed with the resource and warehouse of its batch,     *)
(* with the same exception.                                                         *)
LabelOfItsBatch ==
  displaced \/ screen.label = Nothing \/ (screen.batch # Nothing /\ bags[screen.label].batch = screen.batch.id)

(* Once every handler has ended the screen shows the batch as the server has it, of   *)
(* what this worker has done to it, unless handlers overlapped or reported a failure.  *)
OwnWorkShown ==
  \/ screen.batch = Nothing
  \/ overlapped
  \/ \E k \in Handler : op[k].pc # "idle"
  \/ screen.batch.id \in unseen
  \/ screen.batch = BatchDetail(screen.batch.id)
=============================================================================
