--------------------------- MODULE Administration ---------------------------
(***************************************************************************)
(* Administering users: create and update of UsersService, with the role    *)
(* normalisation of the contracts and the administrative safety check.      *)
(*                                                                         *)
(* The check reads before the transaction that writes, and the transaction  *)
(* replaces the role rows of a user by a delete and an insert under READ     *)
(* COMMITTED.  A step of a request is one awaited call; the statements of a  *)
(* transaction are one step to begin it and one to commit it.                *)
(***************************************************************************)
EXTENDS FiniteSets

CONSTANTS
  User,     \* the accounts there may be
  Role,     \* ROLE_KEYS
  Admin,    \* the role ADMIN
  Update,   \* update requests in flight
  Sent,     \* the bodies they carry
  None      \* an account not created; an active state left out of a request

ASSUME RoleAssumption == Admin \in Role
Account == [active: BOOLEAN, roles: SUBSET Role]

ASSUME NoneAssumption == None \notin BOOLEAN \cup Account

VARIABLES
  account,   \* User rows with their UserRole rows
  holder,    \* users whose browsers hold a token that names ADMIN
  update,    \* the update requests
  overtaken, \* history: the last administrator was lost to an update whose check
             \* the commit of another had made void
  unlocked   \* history: a change of roles alone met another one of the same user

administrationVars == <<account, holder, update, overtaken, unlocked>>

-----------------------------------------------------------------------------
(* The body of PATCH /users/:id; "names" stands for firstName and lastName, and   *)
(* no roles for roles left out, an empty list being refused.                      *)
Change == [names: BOOLEAN, active: BOOLEAN \cup {None}, roles: SUBSET Role]

ASSUME SentAssumption == Sent \subseteq Change

Waiting == [pc: {"idle"}]
Updating == [pc: {"find", "count", "begin", "commit"}, id: User, self: BOOLEAN,
             change: Change, stale: BOOLEAN, raced: BOOLEAN]

AdministrationTypeOK ==
  /\ account \in [User -> Account \cup {None}]
  /\ holder \subseteq User
  /\ update \in [Update -> Waiting \cup Updating]
  /\ overtaken \in BOOLEAN
  /\ unlocked \in BOOLEAN

(* bootstrap-admin has made one account. *)
AdministrationInit ==
  /\ \E u \in User :
       account = [v \in User |-> IF v = u THEN [active |-> TRUE, roles |-> {Admin}] ELSE None]
  /\ holder = {}
  /\ update = [r \in Update |-> [pc |-> "idle"]]
  /\ overtaken = FALSE
  /\ unlocked = FALSE

(* Mutant: ADMIN is stored next to the other roles. *)
StoredAsSent(roles) == roles

(* ADMIN dominates. *)
NormalizeRoleKeys(roles) == IF Admin \in roles THEN {Admin} ELSE roles

Exists(u) == account[u] # None
IsActiveAdmin(u) == Exists(u) /\ account[u].active /\ Admin \in account[u].roles

(* Mutant: a field left out of the request is written all the same. *)
ChangedToSent(row, change, roles) == [active |-> change.active, roles |-> roles]

(* The row a change leaves, with the role rows "roles". *)
Changed(row, change, roles) ==
  [active |-> IF change.active = None THEN row.active ELSE change.active, roles |-> roles]

(* The update writes the users row, and so locks it until it commits. *)
WritesRow(change) == change.names \/ change.active # None

-----------------------------------------------------------------------------
(* A login signs the roles the user has then; they are not read again. *)
SignIn(u) ==
  /\ Exists(u)
  /\ account[u].active
  /\ holder' = IF Admin \in account[u].roles THEN holder \cup {u} ELSE holder \ {u}
  /\ UNCHANGED <<account, update, overtaken, unlocked>>

(* JWT_ACCESS_TTL passes, or the user logs out. *)
SignOut(u) ==
  /\ holder' = holder \ {u}
  /\ UNCHANGED <<account, update, overtaken, unlocked>>

(* The username is unique; nothing else a concurrent request does matters. *)
CreateUser(u, active, roles) ==
  /\ holder # {}
  /\ ~Exists(u)
  /\ account' = [account EXCEPT ![u] = [active |-> active, roles |-> NormalizeRoleKeys(roles)]]
  /\ overtaken' = (overtaken /\ ~(active /\ Admin \in roles))
  /\ UNCHANGED <<holder, update, unlocked>>

-----------------------------------------------------------------------------
Continue(r, pc) == update' = [update EXCEPT ![r].pc = pc]
Done(r) == update' = [update EXCEPT ![r] = [pc |-> "idle"]]

(* The guards let any token that names ADMIN through. *)
SendUpdate(r, id, self, change) ==
  /\ update[r].pc = "idle"
  /\ IF self THEN id \in holder ELSE holder \ {id} # {}
  /\ update' = [update EXCEPT ![r] =
       [pc |-> "find", id |-> id, self |-> self, change |-> change,
        stale |-> FALSE, raced |-> FALSE]]
  /\ UNCHANGED <<account, holder, overtaken, unlocked>>

LosesAdmin(change) ==
  \/ change.active = FALSE
  \/ change.roles # {} /\ Admin \notin NormalizeRoleKeys(change.roles)

FindUser(r) ==
  /\ update[r].pc = "find"
  /\ LET q == update[r] IN
       \/ ~Exists(q.id) /\ Done(r)
       \/ Exists(q.id) /\ IsActiveAdmin(q.id) /\ LosesAdmin(q.change) /\ Continue(r, "count")
       \/ /\ Exists(q.id)
          /\ ~(IsActiveAdmin(q.id) /\ LosesAdmin(q.change))
          /\ Continue(r, "begin")
  /\ UNCHANGED <<account, holder, overtaken, unlocked>>

(* Mutant: the user to change counts as another administrator. *)
CountAnyAdmin(r) ==
  /\ update[r].pc = "count"
  /\ IF (\E u \in User : IsActiveAdmin(u)) /\ ~update[r].self THEN Continue(r, "begin") ELSE Done(r)
  /\ UNCHANGED <<account, holder, overtaken, unlocked>>

(* Another active administrator there must be, and it is not one's own account. *)
CountAdmins(r) ==
  /\ update[r].pc = "count"
  /\ LET another == \E u \in User \ {update[r].id} : IsActiveAdmin(u)
     IN IF another /\ ~update[r].self THEN Continue(r, "begin") ELSE Done(r)
  /\ UNCHANGED <<account, holder, overtaken, unlocked>>

(* Another transaction replaces the roles of the same user. *)
RolesMeet(r) ==
  /\ update[r].change.roles # {}
  /\ \E s \in Update \ {r} :
       /\ update[s].pc = "commit"
       /\ update[s].id = update[r].id
       /\ update[s].change.roles # {}

(* Mutant: the names are written outside the transaction, nothing is locked. *)
BeginUnlocked(r) ==
  /\ update[r].pc = "begin"
  /\ unlocked' = (unlocked \/ (RolesMeet(r) /\ ~WritesRow(update[r].change)))
  /\ Continue(r, "commit")
  /\ UNCHANGED <<account, holder, overtaken>>

(* The users row is updated and locked if there is something to write, then the  *)
(* role rows there are get deleted.                                              *)
BeginUpdate(r) ==
  /\ update[r].pc = "begin"
  /\ WritesRow(update[r].change) =>
       \A s \in Update \ {r} :
         ~(update[s].pc = "commit" /\ update[s].id = update[r].id /\ WritesRow(update[s].change))
  /\ unlocked' = (unlocked \/ RolesMeet(r))
  /\ Continue(r, "commit")
  /\ UNCHANGED <<account, holder, overtaken>>

(* The role rows at the commit.  The delete took the rows there were when it      *)
(* began: if another transaction has replaced those since, the new ones stay.       *)
RolesAfter(q) ==
  LET sent == NormalizeRoleKeys(q.change.roles)
  IN IF q.change.roles = {} THEN account[q.id].roles
     ELSE IF q.raced THEN account[q.id].roles \cup sent
     ELSE sent

(* A row that stayed is not inserted twice. *)
Duplicate(q) ==
  /\ q.change.roles # {}
  /\ q.raced
  /\ NormalizeRoleKeys(q.change.roles) \cap account[q.id].roles # {}

(* "stale" notes a commit that voids what a request has checked: it takes an       *)
(* administrator away that this one may have counted, or makes the account this    *)
(* one changes an administrator.                                                  *)
CommitUpdate(r) ==
  /\ update[r].pc = "commit"
  /\ LET q == update[r]
         row == Changed(account[q.id], q.change, RolesAfter(q))
         was == IsActiveAdmin(q.id)
         is == row.active = TRUE /\ Admin \in row.roles
         remains == is \/ \E u \in User \ {q.id} : IsActiveAdmin(u)
     IN \/ Duplicate(q) /\ Done(r) /\ UNCHANGED <<account, overtaken>>
        \/ /\ ~Duplicate(q)
           /\ account' = [account EXCEPT ![q.id] = row]
           /\ overtaken' = (~remains /\ (overtaken \/ q.stale))
           /\ update' = [s \in Update |->
                IF s = r THEN [pc |-> "idle"]
                ELSE IF update[s].pc \in {"idle", "find", "count"} THEN update[s]
                ELSE [update[s] EXCEPT
                        !.stale = @ \/ IF update[s].id = q.id THEN is /\ ~was ELSE was /\ ~is,
                        !.raced = @ \/ (/\ update[s].pc = "commit"
                                        /\ update[s].id = q.id
                                        /\ q.change.roles # {})]]
  /\ UNCHANGED <<holder, unlocked>>

(* An await fails; a transaction is rolled back. *)
AbortUpdate(r) ==
  /\ update[r].pc # "idle"
  /\ Done(r)
  /\ UNCHANGED <<account, holder, overtaken, unlocked>>

AdministrationNext ==
  \/ \E u \in User :
       \/ SignIn(u)
       \/ SignOut(u)
       \/ \E active \in BOOLEAN, roles \in (SUBSET Role) \ {{}} : CreateUser(u, active, roles)
  \/ \E r \in Update :
       \/ \E id \in User, self \in BOOLEAN, change \in Sent : SendUpdate(r, id, self, change)
       \/ FindUser(r)
       \/ CountAdmins(r)
       \/ BeginUpdate(r)
       \/ CommitUpdate(r)
       \/ AbortUpdate(r)

AdministrationSpec == AdministrationInit /\ [][AdministrationNext]_administrationVars

-----------------------------------------------------------------------------
(* "The system must never end up with zero active ADMIN users", whatever the     *)
(* requests and however they interleave.  Except when the update that took the    *)
(* last one away had passed its check before another one committed that took      *)
(* away the administrator it counted on, or that made its own user one; and       *)
(* until there is an active administrator again.                                  *)
SomeActiveAdmin == overtaken \/ \E u \in User : IsActiveAdmin(u)

(* Whoever is an ADMIN is nothing else.  The row lock of an update that also        *)
(* writes the user serialises the replacement of its roles, so only two changes    *)
(* of which one is of roles alone can leave both sets behind.                       *)
AdminStandsAlone ==
  unlocked \/ \A u \in User : Exists(u) /\ Admin \in account[u].roles => account[u].roles = {Admin}
=============================================================================
