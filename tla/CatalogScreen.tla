---------------------------- MODULE CatalogScreen ----------------------------
(***************************************************************************)
(* The pages on which an administrator keeps the master data: the lists of        *)
(* packaging types and of resource categories, which are one page with other        *)
(* words, the list of warehouses, and the page of one warehouse with its           *)
(* locations.  What the services check is in MasterData; here they store.          *)
(*                                                                         *)
(* No button is disabled while its request runs.  A change names only the fields   *)
(* it changes; after it the whole list is loaded again, except that the answer to   *)
(* a change of the warehouse itself already holds the warehouse and its locations.  *)
(***************************************************************************)
CONSTANTS
  Entry,    \* packaging types, categories, warehouses or locations
  Title,    \* what an edit changes: a name, or a name and a tare
  Heading,  \* the entry that stands for the warehouse on its own page
  Caller,   \* handlers that may run at a time
  Missing   \* no such entry, no edit open

VARIABLES
  view,     \* which page it is
  held,     \* the entries the server has
  shown,    \* the entries on the screen
  editing,  \* the entry whose row is open for editing
  loading,  \* the page of a warehouse hides itself while it loads
  pending,  \* the handlers that run
  fresh,    \* history: the handlers whose list was read after the one shown
  newer,    \* history: the handlers whose list was read after that of a handler
  older,    \* history: the list shown was overtaken by one read later
  missed    \* history: entries changed by a request the page reported as failed

catalogVars == <<view, held, shown, editing, loading, pending, fresh, newer, older, missed>>

-----------------------------------------------------------------------------
Fields == [title : Title, active : BOOLEAN]
NotPending == [pc |-> "idle"]

(* The page after its first load. *)
CatalogInit ==
  /\ view \in {"types", "warehouses", "warehouse"}
  /\ held \in [Entry -> Fields \cup {Missing}]
  /\ view = "warehouse" => held[Heading] # Missing
  /\ shown = held
  /\ editing = Missing
  /\ loading = FALSE
  /\ pending = [c \in Caller |-> NotPending]
  /\ fresh = {}
  /\ newer = [c \in Caller |-> {}]
  /\ older = FALSE
  /\ missed = {}

Running == {c \in Caller : pending[c].pc # "idle"}
OwnPage(e) == view = "warehouse" /\ e = Heading

(* The rows of a table have buttons, those of the list of warehouses have none. *)
RowButtons(e) == shown[e] # Missing /\ ~OwnPage(e) /\ view # "warehouses"

(* A request that names the fields it changes, from a page that is on the screen. *)
Request(c, e, change) ==
  /\ c \notin Running
  /\ ~loading
  /\ pending' = [pending EXCEPT ![c] = [pc |-> "sent", entry |-> e, change |-> change]]
  /\ UNCHANGED <<view, held, shown, editing, loading, fresh, newer, older, missed>>

Titled(t) == [f \in {"title"} |-> t]
Switched(on) == [f \in {"active"} |-> on]

(* onCreate, addLocation: an entry begins active. *)
CreateEntry(c, e, t) ==
  /\ shown[e] = Missing
  /\ Request(c, e, [title |-> t, active |-> TRUE])

(* toggleActive, toggleLocationActive: the opposite of what the row shows. *)
ToggleEntry(c, e) ==
  /\ RowButtons(e)
  /\ editing # e
  /\ Request(c, e, Switched(~shown[e].active))

(* saveEdit, saveLocation. *)
SaveEntry(c, t) ==
  /\ editing # Missing
  /\ shown[editing] # Missing
  /\ Request(c, editing, Titled(t))

RenameWarehouse(c, t) ==
  /\ view = "warehouse"
  /\ Request(c, Heading, Titled(t))

ToggleWarehouse(c) ==
  /\ view = "warehouse"
  /\ Request(c, Heading, Switched(~shown[Heading].active))

(* The buttons of a row. *)
OpenRow(e) ==
  /\ RowButtons(e)
  /\ ~loading
  /\ editing' = e
  /\ UNCHANGED <<view, held, shown, loading, pending, fresh, newer, older, missed>>

CloseRow ==
  /\ ~loading
  /\ editing' = Missing
  /\ UNCHANGED <<view, held, shown, loading, pending, fresh, newer, older, missed>>

-----------------------------------------------------------------------------
(* The server's entry after a change: a field that was not sent keeps its value. *)
Merged(entry, change) ==
  [f \in {"title", "active"} |-> IF f \in DOMAIN change THEN change[f] ELSE entry[f]]

(* Whether the page loads its list again after a change. *)
Reloads(e) == ~OwnPage(e)

(* History: c has read the list, later than every handler that still holds one; *)
HasRead(c) ==
  /\ fresh' = fresh \cup {c}
  /\ newer' = [d \in Caller |-> IF pending[d].pc = "read" THEN newer[d] \cup {c} ELSE {}]

(* or c no longer holds one. *)
HasEnded(c) == newer' = [d \in Caller |-> IF d = c THEN {} ELSE newer[d] \ {c}]

(* The service stores the change; the answer may be the page's whole content already. *)
StoreEntry(c) ==
  LET e == pending[c].entry
      now == [held EXCEPT ![e] = Merged(@, pending[c].change)]
  IN
  /\ pending[c].pc = "sent"
  /\ (held[e] = Missing) <=> (DOMAIN pending[c].change = {"title", "active"})
  /\ held' = now
  /\ pending' = [pending EXCEPT ![c] =
       IF Reloads(e)
       THEN [pc |-> "stored", entry |-> e, edit |-> DOMAIN pending[c].change = {"title"}]
       ELSE [pc |-> "read", entry |-> e, content |-> now]]
  /\ IF Reloads(e) THEN UNCHANGED <<fresh, newer>> ELSE HasRead(c)
  /\ UNCHANGED <<view, shown, editing, loading, older, missed>>

(* The change is answered: an edit closes the row that is open by now, and the list is  *)
(* asked for.                                                                    *)
AskAgain(c) ==
  /\ pending[c].pc = "stored"
  /\ editing' = IF pending[c].edit THEN Missing ELSE editing
  /\ loading' = (view = "warehouse")
  /\ pending' = [pending EXCEPT ![c] = [pc |-> "asked", entry |-> pending[c].entry]]
  /\ UNCHANGED <<view, held, shown, fresh, newer, older, missed>>

(* The service answers the reload. *)
ReadEntries(c) ==
  /\ pending[c].pc = "asked"
  /\ pending' = [pending EXCEPT ![c] =
                   [pc |-> "read", entry |-> pending[c].entry, content |-> held]]
  /\ HasRead(c)
  /\ UNCHANGED <<view, held, shown, editing, loading, older, missed>>

LoadsOwn(c) == Reloads(pending[c].entry)

(* Mutant: only the row that was changed is taken from the list. *)
RowDisplayed(c) == [shown EXCEPT ![pending[c].entry] = pending[c].content[pending[c].entry]]

Displayed(c) == pending[c].content

(* reload, load; or setWarehouse with the answer to a change of the warehouse. *)
ShowEntries(c) ==
  /\ pending[c].pc = "read"
  /\ shown' = Displayed(c)
  /\ older' = (c \notin fresh)
  /\ fresh' = IF c \in fresh THEN newer[c] ELSE fresh
  /\ HasEnded(c)
  /\ loading' = (loading /\ ~LoadsOwn(c))
  /\ pending' = [pending EXCEPT ![c] = NotPending]
  /\ UNCHANGED <<view, held, editing, missed>>

(* A refusal, a lost answer or a failed reload: the page shows an error. *)
FailRequest(c) ==
  /\ c \in Running
  /\ missed' = IF pending[c].pc = "sent" THEN missed ELSE missed \cup {pending[c].entry}
  /\ fresh' = fresh \ {c}
  /\ HasEnded(c)
  /\ loading' = (loading /\ pending[c].pc \in {"sent", "stored"})
  /\ pending' = [pending EXCEPT ![c] = NotPending]
  /\ UNCHANGED <<view, held, shown, editing, older>>

CatalogNext ==
  \/ CloseRow
  \/ \E e \in Entry : OpenRow(e)
  \/ \E c \in Caller :
       \/ \E e \in Entry : ToggleEntry(c, e) \/ \E t \in Title : CreateEntry(c, e, t)
       \/ \E t \in Title : SaveEntry(c, t) \/ RenameWarehouse(c, t)
       \/ ToggleWarehouse(c)
       \/ StoreEntry(c)
       \/ AskAgain(c)
       \/ ReadEntries(c)
       \/ ShowEntries(c)
       \/ FailRequest(c)

CatalogSpec == CatalogInit /\ [][CatalogNext]_catalogVars

-----------------------------------------------------------------------------
(* Once every handler has ended, the page shows what the server holds, whatever changes   *)
(* ran together and in whatever order they were stored; the exceptions are a list that      *)
(* answered after one read later, until the next one, and changes reported as failed.       *)
EntriesShown ==
  \/ older
  \/ Running # {}
  \/ \A e \in Entry : e \in missed \/ shown[e] = held[e]
=============================================================================
