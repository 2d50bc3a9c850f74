----------------------------- MODULE MasterData -----------------------------
(***************************************************************************)
(* Master data and what refers to it: partners and their roles, resource      *)
(* categories, resources, warehouses, their locations and packaging types,     *)
(* and the checks a resource, a delivery, a batch, a package or a receipt       *)
(* makes before it is written with references to them.                         *)
(*                                                                         *)
(* Rows are deactivated, never deleted.  A check and the write it is for are    *)
(* separate calls, one step each; nothing holds the row in between.             *)
(***************************************************************************)
EXTENDS Sequences, FiniteSets

CONSTANTS
  Partner,
  Category,
  Resource,
  Store,     \* warehouses, locations and packaging types
  Document,  \* "delivery", "batch", "bag", "receipt"
  Needs,     \* what a document refers to, in the order it is checked
  Choice,    \* requests in flight
  Absent     \* a row not created

Item == Partner \cup Category \cup Resource \cup Store
Owner == Resource \cup Document

ASSUME AbsentAssumption == Absent \notin BOOLEAN
ASSUME NeedsAssumption ==
  /\ Needs \in [Document -> SUBSET Seq(Item)]
  /\ \A d \in Document : <<>> \notin Needs[d]

VARIABLES
  active,    \* the rows and their active column
  suppliers, \* partners with the role SUPPLIER
  refers,    \* a resource's category; what the last document of a kind refers to
  choice

masterVars == <<active, suppliers, refers, choice>>

-----------------------------------------------------------------------------
(* "lapsed" and "moved" are history: what was retired, and whether the resource got   *)
(* another category, while the request was in flight.                               *)
Choosing == [pc: {"find", "check", "write"}, owner: Owner, items: Seq(Item),
             left: Seq(Item), lapsed: SUBSET Item, moved: BOOLEAN]
NoChoice == [pc: {"idle"}]

MasterTypeOK ==
  /\ active \in [Item -> BOOLEAN \cup {Absent}]
  /\ suppliers \subseteq Partner
  /\ refers \in [Owner -> SUBSET Item]
  /\ choice \in [Choice -> NoChoice \cup Choosing]

MasterInit ==
  /\ active = [i \in Item |-> Absent]
  /\ suppliers = {}
  /\ refers = [o \in Owner |-> {}]
  /\ choice = [c \in Choice |-> [pc |-> "idle"]]

Present(i) == active[i] # Absent
InFlight(c) == choice[c].pc # "idle"

(* Active, and a supplier where one is asked for. *)
Usable(i) == active[i] = TRUE /\ (i \in Partner => i \in suppliers)

Concerns(c, i) == InFlight(c) /\ i \in {choice[c].items[n] : n \in DOMAIN choice[c].items}

(* The requests in flight do not know that i is retired. *)
Retired(i) ==
  [c \in Choice |-> IF Concerns(c, i) THEN [choice[c] EXCEPT !.lapsed = @ \cup {i}] ELSE choice[c]]

-----------------------------------------------------------------------------
(* create of partners, categories, warehouses, locations and packaging types; a name   *)
(* taken already is refused by the database.                                         *)
CreateItem(i, on, sells) ==
  /\ i \notin Resource
  /\ ~Present(i)
  /\ active' = [active EXCEPT ![i] = on]
  /\ suppliers' = IF i \in Partner /\ sells THEN suppliers \cup {i} ELSE suppliers
  /\ UNCHANGED <<refers, choice>>

(* update; the rows are never deleted. *)
SetActiveItem(i, on) ==
  /\ Present(i)
  /\ active' = [active EXCEPT ![i] = on]
  /\ choice' = IF on THEN choice ELSE Retired(i)
  /\ UNCHANGED <<suppliers, refers>>

(* The roles of a partner are replaced by a delete and an insert; when another          *)
(* request replaces them at the same time, the rows it inserted stay.                  *)
ReplaceRoles(p, sells, stay) ==
  /\ Present(p)
  /\ IF sells \/ (stay /\ p \in suppliers)
     THEN suppliers' = suppliers \cup {p} /\ UNCHANGED choice
     ELSE suppliers' = suppliers \ {p} /\ choice' = Retired(p)
  /\ UNCHANGED <<active, refers>>

-----------------------------------------------------------------------------
Begin(c, owner, items, pc) ==
  /\ ~InFlight(c)
  /\ choice' = [choice EXCEPT ![c] = [pc |-> pc, owner |-> owner, items |-> items,
                                      left |-> items, lapsed |-> {}, moved |-> FALSE]]
  /\ UNCHANGED <<active, suppliers, refers>>

(* POST and PATCH /resources. *)
ChooseCategory(c, r, k) == Begin(c, r, <<k>>, IF Present(r) THEN "find" ELSE "check")

(* createDelivery, resolveBatch, createBag and correctBag, and the receipts. *)
RegisterDocument(c, d, items) == items \in Needs[d] /\ Begin(c, d, items, "check")

EndChoice(c) == choice' = [choice EXCEPT ![c] = [pc |-> "idle"]]

(* The category a resource has already may be inactive. *)
FindResource(c) ==
  /\ choice[c].pc = "find"
  /\ choice' = [choice EXCEPT ![c].pc =
       IF refers[choice[c].owner] = {choice[c].items[1]} THEN "write" ELSE "check"]
  /\ UNCHANGED <<active, suppliers, refers>>

Checked(c) ==
  choice' = [choice EXCEPT ![c].left = Tail(@),
                           ![c].pc = IF Len(choice[c].left) = 1 THEN "write" ELSE "check"]

(* Mutant: the row must exist, active or not. *)
CheckPresent(c) ==
  /\ choice[c].pc = "check"
  /\ IF Present(Head(choice[c].left)) THEN Checked(c) ELSE EndChoice(c)
  /\ UNCHANGED <<active, suppliers, refers>>

(* assertCategoryAssignable, assertActiveSupplier, assertActiveResource and the others. *)
CheckItem(c) ==
  /\ choice[c].pc = "check"
  /\ IF Usable(Head(choice[c].left)) THEN Checked(c) ELSE EndChoice(c)
  /\ UNCHANGED <<active, suppliers, refers>>

(* The row is inserted or updated; a resource may be retired in the same request. *)
WriteChoice(c, on) ==
  /\ choice[c].pc = "write"
  /\ LET o == choice[c].owner IN
       /\ refers' = [refers EXCEPT ![o] = {choice[c].items[n] : n \in DOMAIN choice[c].items}]
       /\ active' = IF o \in Resource THEN [active EXCEPT ![o] = on] ELSE active
       /\ choice' = [d \in Choice |->
            IF d = c THEN [pc |-> "idle"]
            ELSE IF ~InFlight(d) THEN choice[d]
            ELSE [choice[d] EXCEPT
                    !.moved = @ \/ (o \in Resource /\ choice[d].owner = o),
                    !.lapsed = IF ~on /\ Concerns(d, o) THEN @ \cup {o} ELSE @]]
  /\ UNCHANGED suppliers

AbortChoice(c) ==
  /\ InFlight(c)
  /\ EndChoice(c)
  /\ UNCHANGED <<active, suppliers, refers>>

MasterNext ==
  \/ \E i \in Item, on \in BOOLEAN :
       SetActiveItem(i, on) \/ \E sells \in BOOLEAN : CreateItem(i, on, sells)
  \/ \E p \in Partner : \E sells, stay \in BOOLEAN : ReplaceRoles(p, sells, stay)
  \/ \E c \in Choice :
       \/ \E r \in Resource, k \in Category : ChooseCategory(c, r, k)
       \/ \E d \in Document : \E items \in Needs[d] : RegisterDocument(c, d, items)
       \/ FindResource(c)
       \/ CheckItem(c)
       \/ \E on \in BOOLEAN : WriteChoice(c, on)
       \/ AbortChoice(c)

MasterSpec == MasterInit /\ [][MasterNext]_masterVars

-----------------------------------------------------------------------------
(* What is newly referred to is active, and its supplier a supplier, at the moment it   *)
(* is written: unless it was retired after the request had begun, or the request       *)
(* writes back the category the resource had before another request moved it.          *)
NewlyChosenUsable ==
  [][\A o \in Owner : \A i \in refers'[o] \ refers[o] :
       \/ Usable(i)
       \/ \E c \in Choice :
            /\ InFlight(c) /\ choice'[c].pc = "idle" /\ choice[c].owner = o
            /\ i \in choice[c].lapsed \/ choice[c].moved]_masterVars
=============================================================================
