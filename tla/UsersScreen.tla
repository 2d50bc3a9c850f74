----------------------------- MODULE UsersScreen -----------------------------
(***************************************************************************)
(* The administrator's list of users: UsersPage, with what UsersService does    *)
(* to a row as one step of the server (Administration has the rest).            *)
(*                                                                         *)
(* No button is disabled while its request runs.  A toggle replaces one row of    *)
(* the list there is, an edit one row of the list its handler was started with,    *)
(* and creating a user or resetting a password loads the whole list again.         *)
(***************************************************************************)
EXTENDS Naturals, FiniteSets

CONSTANTS
  Listed,   \* users
  RoleSets, \* what a row holds besides its active state
  Slot,     \* handlers that may run at a time
  NoRow     \* no such user, no edit panel

ASSUME NoRowAssumption == NoRow \notin [active: BOOLEAN, roles: RoleSets]

VARIABLES
  rows,    \* the users the server has
  list,    \* the users the page shows
  panel,   \* the user the edit panel is open for
  running, \* the handlers that run
  mixed,   \* history: a handler that replaces the whole list met another one, or two
           \* handlers the same user, and no list loaded alone has been shown since
  unknown, \* history: users changed by a request that was reported as failed
  alone    \* history: the handler that has loaded the list, no other having run since

granted == <<mixed, unknown, alone>>
usersScreenVars == <<rows, list, panel, running, granted>>

-----------------------------------------------------------------------------
UserRow == [active: BOOLEAN, roles: RoleSets]

UsersInit ==
  /\ rows \in {[u \in Listed |-> IF u = admin THEN [active |-> TRUE, roles |-> r] ELSE NoRow] :
                 admin \in Listed, r \in RoleSets}
  /\ list = rows
  /\ panel = NoRow
  /\ running = [s \in Slot |-> [pc |-> "idle"]]
  /\ mixed = FALSE
  /\ unknown = {}
  /\ alone = {}

Busy == {s \in Slot : running[s].pc # "idle"}
WholeList(kind) == kind \in {"edit", "create", "reset"}

(* A handler and the request it sends; "base" is the list of its closure. *)
StartHandler(s, kind, u, row) ==
  /\ s \notin Busy
  /\ running' = [running EXCEPT ![s] = [pc |-> "sent", kind |-> kind, user |-> u, row |-> row,
                                        base |-> IF kind \in {"edit", "toggle"} THEN list ELSE NoRow]]
  /\ mixed' = (mixed \/ \E t \in Busy :
                 WholeList(kind) \/ WholeList(running[t].kind) \/ running[t].user = u)
  /\ alone' = {}
  /\ UNCHANGED <<rows, list, unknown>>

(* onCreate *)
OnCreate(s, u, r) ==
  /\ list[u] = NoRow
  /\ StartHandler(s, "create", u, [active |-> TRUE, roles |-> r])
  /\ UNCHANGED panel

(* The buttons of a row of the table, and the panel with the edit and the reset form. *)
RowShown(u) == list[u] # NoRow
EditShown == panel # NoRow

(* startEdit, closeEdit. *)
StartEdit(u) ==
  /\ RowShown(u)
  /\ panel' = u
  /\ UNCHANGED <<rows, list, running, granted>>

CloseEdit ==
  /\ EditShown
  /\ panel' = NoRow
  /\ UNCHANGED <<rows, list, running, granted>>

(* saveEdit sends the whole panel, whatever was changed in it. *)
SaveEdit(s, row) ==
  /\ EditShown
  /\ StartHandler(s, "edit", panel, row)
  /\ UNCHANGED panel

ToggleActive(s, u) ==
  /\ RowShown(u)
  /\ StartHandler(s, "toggle", u, [list[u] EXCEPT !.active = ~@])
  /\ UNCHANGED panel

SubmitPasswordReset(s) ==
  /\ EditShown
  /\ StartHandler(s, "reset", panel, NoRow)
  /\ UNCHANGED panel

-----------------------------------------------------------------------------
(* The row a request leaves: an edit names every field, a toggle the active state. *)
Stored(q) ==
  CASE q.kind \in {"create", "edit"} -> q.row
    [] q.kind = "toggle" -> [rows[q.user] EXCEPT !.active = q.row.active]
    [] q.kind = "reset" -> rows[q.user]

StoreUser(s) ==
  /\ running[s].pc = "sent"
  /\ (running[s].kind = "create") <=> (rows[running[s].user] = NoRow)
  /\ rows' = [rows EXCEPT ![running[s].user] = Stored(running[s])]
  /\ running' = [running EXCEPT ![s] =
       [running[s] EXCEPT !.pc = "stored",
                          !.row = IF running[s].kind \in {"edit", "toggle"}
                                  THEN Stored(running[s]) ELSE NoRow]]
  /\ UNCHANGED <<list, panel, granted>>

(* reload, the second request of onCreate and submitPasswordReset. *)
ReloadUsers(s) ==
  /\ running[s].pc = "stored"
  /\ running[s].kind \in {"create", "reset"}
  /\ running' = [running EXCEPT ![s].pc = "loaded", ![s].base = rows]
  /\ alone' = IF Busy = {s} THEN {s} ELSE {}
  /\ UNCHANGED <<rows, list, panel, mixed, unknown>>

(* applyUserUpdate: the row of the user, where the list has one. *)
RowReplaced(rowsShown, q) ==
  [u \in Listed |-> IF u = q.user /\ rowsShown[u] # NoRow THEN q.row ELSE rowsShown[u]]

(* Mutant: a toggle, too, replaces a row of the list its handler was started with. *)
ListFromClosure(q) ==
  IF q.kind \in {"create", "reset"} THEN q.base ELSE RowReplaced(q.base, q)

ListAfter(q) ==
  CASE q.kind \in {"create", "reset"} -> q.base
    [] q.kind = "edit" -> RowReplaced(q.base, q)
    [] q.kind = "toggle" -> RowReplaced(list, q)

(* The answer; the edit panel that is open by then closes with an edit.  A list that   *)
(* was loaded alone and is shown alone makes up for what went wrong before.             *)
AnswerHandler(s) ==
  /\ running[s].pc = IF running[s].pc # "idle" /\ running[s].kind \in {"create", "reset"}
                     THEN "loaded" ELSE "stored"
  /\ list' = ListAfter(running[s])
  /\ panel' = IF running[s].kind = "edit" THEN NoRow ELSE panel
  /\ running' = [running EXCEPT ![s] = [pc |-> "idle"]]
  /\ mixed' = (mixed /\ s \notin alone)
  /\ unknown' = IF s \in alone THEN {} ELSE unknown
  /\ alone' = {}
  /\ UNCHANGED rows

(* A refusal, a lost answer or a failed reload: an error is shown. *)
FailHandler(s) ==
  /\ s \in Busy
  /\ unknown' = IF running[s].pc = "sent" THEN unknown ELSE unknown \cup {running[s].user}
  /\ running' = [running EXCEPT ![s] = [pc |-> "idle"]]
  /\ alone' = {}
  /\ UNCHANGED <<rows, list, panel, mixed>>

UsersNext ==
  \/ \E u \in Listed : StartEdit(u)
  \/ CloseEdit
  \/ \E s \in Slot :
       \/ \E u \in Listed : ToggleActive(s, u) \/ \E r \in RoleSets : OnCreate(s, u, r)
       \/ \E row \in UserRow : SaveEdit(s, row)
       \/ SubmitPasswordReset(s)
       \/ StoreUser(s)
       \/ ReloadUsers(s)
       \/ AnswerHandler(s)
       \/ FailHandler(s)

UsersSpec == UsersInit /\ [][UsersNext]_usersScreenVars

-----------------------------------------------------------------------------
(* The list shows what the server has once every handler has ended, toggles of several   *)
(* users in flight together included.  Except after a handler that replaces the whole      *)
(* list overlapped another one or two handlers of one user did, and except for users whose   *)
(* change was reported as failed, until a list is loaded and shown with no other handler    *)
(* running.                                                                            *)
ListFollowsServer ==
  \/ mixed
  \/ Busy # {}
  \/ \A u \in Listed : u \in unknown \/ list[u] = rows[u]
=============================================================================
