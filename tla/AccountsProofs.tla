--------------------------- MODULE AccountsProofs ---------------------------
(***************************************************************************)
(* Proofs about Administration, Sessions, LoginAttempts and MasterData, for   *)
(* any number of accounts, roles, browsers, logins, rows and requests, any     *)
(* limits and any bodies and documents, whatever they refer to.               *)
(***************************************************************************)
EXTENDS MCAccounts, FiniteSetTheorems, TLAPS

-----------------------------------------------------------------------------
(* Administration. *)

(* A request past its first read changes a user there is. *)
Known == \A r \in Update : update[r].pc \in {"count", "begin", "commit"} => Exists(update[r].id)

(* A request that was let through to take an administrator away, and whose        *)
(* check no commit has voided since, leaves another one.                        *)
OtherRemains(q) ==
  q.pc \in {"begin", "commit"} /\ ~q.stale /\ IsActiveAdmin(q.id) /\ LosesAdmin(q.change) =>
    \E u \in User \ {q.id} : IsActiveAdmin(u)

(* Roles are replaced under a transaction that has begun, not before. *)
RacedLate(q) == q.pc # "idle" /\ q.raced => q.pc = "commit"

(* Two transactions that both replace the roles of one user have met. *)
ReplacesRoles(q) == q.pc = "commit" /\ q.change.roles # {}
Apart ==
  unlocked \/ \A r \in Update : ReplacesRoles(update[r]) =>
    /\ ~update[r].raced
    /\ \A s \in Update \ {r} : ReplacesRoles(update[s]) => update[s].id # update[r].id

(* The inductive invariant. *)
AdministrationInv ==
  /\ AdministrationTypeOK
  /\ Known
  /\ SomeActiveAdmin
  /\ \A r \in Update : OtherRemains(update[r])
  /\ \A r \in Update : RacedLate(update[r])
  /\ Apart
  /\ AdminStandsAlone

(* Normalised roles are roles, and ADMIN among them is alone. *)
LEMMA Normalized ==
  ASSUME NEW roles \in SUBSET Role
  PROVE  /\ NormalizeRoleKeys(roles) \in SUBSET Role
         /\ Admin \in NormalizeRoleKeys(roles) => NormalizeRoleKeys(roles) = {Admin}
         /\ roles # {} => NormalizeRoleKeys(roles) # {}
  BY RoleAssumption DEF NormalizeRoleKeys

(* A request that is not idle has the fields of one. *)
LEMMA UpdatingFields ==
  ASSUME AdministrationTypeOK, NEW r \in Update, update[r].pc # "idle"
  PROVE  update[r] \in Updating
  BY DEF AdministrationTypeOK, Waiting

(* AdministrationInv holds before the first request: bootstrap has made one administrator. *)
LEMMA AdministrationInitInv == AdministrationInit => AdministrationInv
<1> SUFFICES ASSUME AdministrationInit PROVE AdministrationInv
  OBVIOUS
<1>1. PICK u \in User :
        account = [v \in User |-> IF v = u THEN [active |-> TRUE, roles |-> {Admin}] ELSE None]
  BY DEF AdministrationInit
<1>2. AdministrationTypeOK
  BY <1>1, RoleAssumption DEF AdministrationInit, AdministrationTypeOK, Account, Waiting
<1>3. [active |-> TRUE, roles |-> {Admin}] # None
  <2>1. [active |-> TRUE, roles |-> {Admin}] \in Account
    BY RoleAssumption DEF Account
  <2> QED
    BY <2>1, NoneAssumption
<1>4. IsActiveAdmin(u)
  BY <1>1, <1>3 DEF IsActiveAdmin, Exists
<1>5. SomeActiveAdmin /\ AdminStandsAlone
  BY <1>1, <1>3, <1>4 DEF SomeActiveAdmin, AdminStandsAlone, Exists
<1>6. Known /\ Apart /\ \A r \in Update : OtherRemains(update[r]) /\ RacedLate(update[r])
  BY DEF AdministrationInit, Known, Apart, OtherRemains, RacedLate, ReplacesRoles
<1> QED
  BY <1>2, <1>5, <1>6 DEF AdministrationInv

(* A step that moves one request on and leaves the accounts keeps AdministrationInv when it keeps *)
(* what AdministrationInv says of that request.                                              *)
LEMMA AdministrationRequestStep ==
  ASSUME AdministrationInv, NEW r \in Update, NEW q \in Waiting \cup Updating,
         update' = [update EXCEPT ![r] = q],
         UNCHANGED <<account, holder, overtaken, unlocked>>,
         q.pc \in {"count", "begin", "commit"} => Exists(q.id),
         OtherRemains(q),
         RacedLate(q),
         q.pc # "commit"
  PROVE  AdministrationInv'
<1> USE DEF AdministrationInv
<1>1. /\ \A s \in Update : s # r => update'[s] = update[s]
      /\ update'[r] = q
  BY DEF AdministrationTypeOK
<1>2. AdministrationTypeOK'
  BY DEF AdministrationTypeOK
<1>3. Known'
  BY <1>1 DEF Known, Exists
<1>4. SomeActiveAdmin' /\ AdminStandsAlone'
  BY DEF SomeActiveAdmin, AdminStandsAlone, IsActiveAdmin, Exists
<1>5. (\A s \in Update : OtherRemains(update[s]))'
  BY <1>1 DEF OtherRemains, IsActiveAdmin, Exists
<1>6. (\A s \in Update : RacedLate(update[s]))'
  BY <1>1 DEF RacedLate
<1>7. Apart'
  BY <1>1 DEF Apart, ReplacesRoles
<1> QED
  BY <1>2, <1>3, <1>4, <1>5, <1>6, <1>7

(* Every step of the transaction that stores a change keeps AdministrationInv: an   *)
(* administrator it takes away leaves another one or its check was void, and its roles *)
(* are replaced alone.                                                          *)
LEMMA AdministrationCommitInv ==
  ASSUME AdministrationInv, NEW r \in Update, CommitUpdate(r)
  PROVE  AdministrationInv'
<1> USE DEF AdministrationInv
<1> DEFINE q == update[r]
           row == Changed(account[q.id], q.change, RolesAfter(q))
           was == IsActiveAdmin(q.id)
           is == row.active /\ Admin \in row.roles
           voids(s) == IF update[s].id = q.id THEN is /\ ~was ELSE was /\ ~is
<1>1. /\ q \in Updating
      /\ q.pc = "commit"
      /\ account[q.id] \in Account
      /\ q.change \in Change
  BY UpdatingFields DEF CommitUpdate, Known, Exists, AdministrationTypeOK, Updating
<1> PICK v \in User : v = q.id
  BY <1>1 DEF Updating
<1>2. CASE Duplicate(q) /\ Done(r) /\ UNCHANGED <<account, overtaken>>
  <2>1. [pc |-> "idle"] \in Waiting
    BY DEF Waiting
  <2> QED
    BY <1>2, <2>1, AdministrationRequestStep DEF CommitUpdate, Done, OtherRemains, RacedLate
<1>3. CASE ~Duplicate(q) /\ account' = [account EXCEPT ![q.id] = row]
  <2>1. /\ RolesAfter(q) \in SUBSET Role
        /\ row \in Account
        /\ row.roles = RolesAfter(q)
    BY <1>1, Normalized DEF RolesAfter, Changed, Account, Change
  <2>2. /\ account'[v] = row
        /\ \A u \in User : u # v => account'[u] = account[u]
        /\ \A u \in User : Exists(u) <=> Exists(u)'
    BY <1>1, <1>3, <2>1, NoneAssumption DEF AdministrationTypeOK, Updating, Exists
  <2>3. \A s \in Update : update'[s] =
          IF s = r THEN [pc |-> "idle"]
          ELSE IF update[s].pc \in {"idle", "find", "count"} THEN update[s]
          ELSE [update[s] EXCEPT
                  !.stale = @ \/ voids(s),
                  !.raced = @ \/ (/\ update[s].pc = "commit"
                                  /\ update[s].id = q.id
                                  /\ q.change.roles # {})]
    BY <1>3 DEF CommitUpdate
  <2>4. ASSUME NEW s \in Update, s # r, update[s].pc \notin {"idle", "find", "count"}
        PROVE  /\ update[s] \in Updating
               /\ update'[s] \in Updating
               /\ update'[s].pc = update[s].pc
               /\ update'[s].id = update[s].id
               /\ update'[s].change = update[s].change
               /\ update'[s].stale <=> update[s].stale \/ voids(s)
               /\ update'[s].raced =>
                    \/ update[s].raced
                    \/ update[s].pc = "commit" /\ update[s].id = q.id /\ q.change.roles # {}
    <3>1. update[s] \in Updating
      BY <2>4, UpdatingFields
    <3>2. update'[s] = [update[s] EXCEPT
                          !.stale = @ \/ voids(s),
                          !.raced = @ \/ (/\ update[s].pc = "commit"
                                          /\ update[s].id = q.id
                                          /\ q.change.roles # {})]
      BY <2>3, <2>4
    <3>3. voids(s) \in BOOLEAN
      BY <1>1, <2>1 DEF IsActiveAdmin, Exists, Account
    <3> HIDE DEF voids
    <3> QED
      BY <3>1, <3>2, <3>3 DEF Updating
  <2>11. ASSUME NEW s \in Update, s = r \/ update[s].pc \in {"idle", "find", "count"}
         PROVE  /\ update'[s] \in Waiting \cup Updating
                /\ update'[s].pc \in {"idle", "find", "count"}
                /\ update'[s].pc # "idle" => update'[s] = update[s]
    <3>1. CASE s = r
      <4>1. update'[s] = [pc |-> "idle"]
        BY <2>3, <3>1
      <4>2. [pc |-> "idle"] \in Waiting
        BY DEF Waiting
      <4> QED
        BY <4>1, <4>2
    <3>2. CASE s # r
      <4>1. update'[s] = update[s] /\ update[s].pc \in {"idle", "find", "count"}
        BY <2>3, <2>11, <3>2
      <4> QED
        BY <4>1 DEF AdministrationTypeOK
    <3> QED
      BY <3>1, <3>2
  <2>5. AdministrationTypeOK'
    <3>1. update' \in [Update -> Waiting \cup Updating]
      <4>1. \A s \in Update : update'[s] \in Waiting \cup Updating
        BY <2>4, <2>11
      <4>2. update' = [s \in Update |-> update'[s]]
        BY <1>3 DEF CommitUpdate
      <4> QED
        BY <4>1, <4>2
    <3>2. account' \in [User -> Account \cup {None}] /\ overtaken' \in BOOLEAN
      BY <1>1, <1>3, <2>1 DEF AdministrationTypeOK, CommitUpdate, Updating
    <3> QED
      BY <3>1, <3>2 DEF AdministrationTypeOK, CommitUpdate
  <2>6. Known'
    <3> SUFFICES ASSUME NEW s \in Update, update'[s].pc \in {"count", "begin", "commit"}
                 PROVE  account'[update'[s].id] # None
      BY DEF Known, Exists
    <3>1. update[s].pc \in {"count", "begin", "commit"} /\ update'[s].id = update[s].id
      BY <2>4, <2>11
    <3>2. update[s] \in Updating
      BY <3>1, UpdatingFields
    <3> QED
      BY <2>2, <3>1, <3>2 DEF Known, Updating, Exists
  <2>12. /\ \A u \in User : u # v => (IsActiveAdmin(u)' <=> IsActiveAdmin(u))
         /\ IsActiveAdmin(v)' <=> is
    BY <2>1, <2>2, NoneAssumption DEF IsActiveAdmin, Exists
  <2>7. SomeActiveAdmin'
    <3> SUFFICES ASSUME ~overtaken' PROVE \E u \in User : IsActiveAdmin(u)'
      BY DEF SomeActiveAdmin
    <3>1. \/ is \/ \E u \in User \ {q.id} : IsActiveAdmin(u)
          \/ ~overtaken /\ ~q.stale
      BY <1>3 DEF CommitUpdate
    <3>2. CASE is \/ \E u \in User \ {q.id} : IsActiveAdmin(u)
      BY <2>12, <3>2
    <3>3. CASE ~overtaken /\ ~q.stale /\ LosesAdmin(q.change)
      BY <1>1, <2>12, <3>3 DEF OtherRemains, SomeActiveAdmin
    <3>4. CASE ~overtaken /\ ~LosesAdmin(q.change)
      <4>1. IsActiveAdmin(v) => is
        BY <1>1, <3>4 DEF LosesAdmin, RolesAfter, Changed, IsActiveAdmin, Change, Account
      <4> QED
        BY <2>12, <3>4, <4>1 DEF SomeActiveAdmin
    <3> QED
      BY <3>1, <3>2, <3>3, <3>4
  <2>8. \A s \in Update : OtherRemains(update[s])' /\ RacedLate(update[s])'
    <3> TAKE s \in Update
    <3>1. CASE s = r \/ update[s].pc \in {"idle", "find", "count"}
      BY <2>11, <3>1 DEF OtherRemains, RacedLate
    <3>2. CASE s # r /\ update[s].pc \notin {"idle", "find", "count"}
      <4>1. PICK w \in User : w = update[s].id /\ w = update'[s].id
        BY <2>4, <3>2 DEF Updating
      <4>2. RacedLate(update[s])'
        BY <2>4, <3>2 DEF RacedLate
      <4>3. ASSUME ~update[s].stale, ~voids(s), IsActiveAdmin(w)', LosesAdmin(update[s].change)
            PROVE  \E u \in User \ {w} : IsActiveAdmin(u)'
        <5>1. IsActiveAdmin(w)
          BY <2>12, <4>1, <4>3
        <5>2. PICK u \in User \ {w} : IsActiveAdmin(u)
          BY <2>4, <3>2, <4>1, <4>3, <5>1 DEF OtherRemains, Updating
        <5> QED
          BY <2>12, <4>1, <4>3, <5>2
      <4>4. OtherRemains(update[s])'
        <5> HIDE DEF voids
        <5>1. (w = update[s].id)'
          BY <4>1
        <5> QED
          BY <2>4, <3>2, <4>1, <4>3, <5>1 DEF OtherRemains
      <4> QED
        BY <4>2, <4>4
    <3> QED
      BY <3>1, <3>2
  <2>9. Apart'
    <3> SUFFICES ASSUME ~unlocked, NEW s \in Update, ReplacesRoles(update'[s])
                 PROVE  /\ ~update'[s].raced
                        /\ \A t \in Update \ {s} :
                             ReplacesRoles(update'[t]) => update'[t].id # update'[s].id
      BY <1>3 DEF Apart, ReplacesRoles, CommitUpdate
    <3>1. ASSUME NEW t \in Update, ReplacesRoles(update'[t])
          PROVE  /\ t # r
                 /\ update[t].pc = "commit"
                 /\ ReplacesRoles(update[t])
                 /\ update'[t].id = update[t].id
      BY <2>4, <2>11, <3>1 DEF ReplacesRoles
    <3>2. ~update[s].raced /\ (q.change.roles # {} => update[s].id # q.id)
      BY <1>1, <3>1 DEF Apart, ReplacesRoles
    <3>3. ~update'[s].raced
      BY <2>4, <3>1, <3>2
    <3> QED
      BY <3>1, <3>3 DEF Apart
  <2>10. AdminStandsAlone'
    <3> SUFFICES ASSUME ~unlocked, NEW u \in User, Exists(u)', Admin \in account'[u].roles
                 PROVE  account'[u].roles = {Admin}
      BY <1>3 DEF AdminStandsAlone, CommitUpdate
    <3>1. CASE u # v
      BY <2>2, <3>1 DEF AdminStandsAlone
    <3>2. CASE u = v
      <4>1. account'[u].roles = RolesAfter(q)
        BY <2>1, <2>2, <3>2
      <4>2. q.change.roles = {} \/ ~q.raced
        BY <1>1 DEF Apart, ReplacesRoles
      <4> QED
        BY <1>1, <3>2, <4>1, <4>2, <2>2, Normalized DEF RolesAfter, AdminStandsAlone, Change
    <3> QED
      BY <3>1, <3>2
  <2> QED
    BY <2>5, <2>6, <2>7, <2>8, <2>9, <2>10
<1> QED
  BY <1>2, <1>3 DEF CommitUpdate

(* Creating a user adds no row to the ADMIN of an account and takes none away. *)
LEMMA AdministrationCreateInv ==
  ASSUME AdministrationInv, NEW u \in User, NEW on \in BOOLEAN, NEW roles \in SUBSET Role,
         CreateUser(u, on, roles)
  PROVE  AdministrationInv'
<1> USE DEF AdministrationInv
<1> DEFINE row == [active |-> on, roles |-> NormalizeRoleKeys(roles)]
<1>1. /\ row \in Account
      /\ account'[u] = row
      /\ \A v \in User : v # u => account'[v] = account[v]
      /\ account' \in [User -> Account \cup {None}]
  BY Normalized DEF CreateUser, AdministrationTypeOK, Account
<1>2. row # None
  BY <1>1, NoneAssumption
<1>3. /\ AdministrationTypeOK'
      /\ UNCHANGED <<update, unlocked>>
      /\ overtaken' = (overtaken /\ ~(on /\ Admin \in roles))
      /\ \A v \in User : Exists(v) => v # u
  BY <1>1 DEF AdministrationTypeOK, CreateUser
<1>4. \A v \in User : /\ Exists(v) => Exists(v)'
                      /\ IsActiveAdmin(v) => IsActiveAdmin(v)'
  BY <1>1, <1>3 DEF Exists, IsActiveAdmin
<1>9. on /\ Admin \in roles => IsActiveAdmin(u)'
  BY <1>1, <1>2 DEF IsActiveAdmin, Exists, NormalizeRoleKeys
<1>5. Known' /\ SomeActiveAdmin'
  <2>1. \A r \in Update : update[r].pc \in {"count", "begin", "commit"} => update[r].id \in User
    BY UpdatingFields DEF Updating
  <2> QED
    BY <1>3, <1>4, <1>9, <2>1 DEF Known, SomeActiveAdmin, Exists
<1>6. (\A r \in Update : OtherRemains(update[r]))'
  <2> SUFFICES ASSUME NEW r \in Update,
                      update[r].pc \in {"begin", "commit"}, ~update[r].stale,
                      account'[update[r].id] # None, account'[update[r].id].active,
                      Admin \in account'[update[r].id].roles,
                      LosesAdmin(update[r].change)
               PROVE  \E v \in User \ {update[r].id} : IsActiveAdmin(v)'
    BY <1>3 DEF OtherRemains, IsActiveAdmin, Exists
  <2>1. update[r].id \in User /\ Exists(update[r].id)
    BY UpdatingFields DEF Updating, Known
  <2>2. IsActiveAdmin(update[r].id)
    BY <1>1, <1>3, <2>1 DEF IsActiveAdmin, Exists
  <2> QED
    BY <1>4, <2>2 DEF OtherRemains
<1>7. (\A r \in Update : RacedLate(update[r]))' /\ Apart'
  BY <1>3 DEF RacedLate, Apart, ReplacesRoles
<1>8. AdminStandsAlone'
  BY <1>1, <1>3, Normalized DEF AdminStandsAlone, Exists
<1> QED
  BY <1>3, <1>5, <1>6, <1>7, <1>8

(* A transaction that begins may meet another one that replaces the same roles. *)
LEMMA AdministrationBeginInv ==
  ASSUME AdministrationInv, NEW r \in Update, BeginUpdate(r)
  PROVE  AdministrationInv'
<1> USE DEF AdministrationInv
<1> DEFINE q == [update[r] EXCEPT !.pc = "commit"]
<1>1. update[r] \in Updating /\ Exists(update[r].id)
  BY UpdatingFields DEF BeginUpdate, Known
<1>2. /\ q \in Updating
      /\ q.pc = "commit"
      /\ q.id = update[r].id /\ q.change = update[r].change
      /\ q.stale = update[r].stale /\ q.raced = update[r].raced
  BY <1>1 DEF Updating
<1>3. /\ update'[r] = q
      /\ \A s \in Update : s # r => update'[s] = update[s]
      /\ update' \in [Update -> Waiting \cup Updating]
      /\ UNCHANGED <<account, holder, overtaken>>
      /\ unlocked' = (unlocked \/ RolesMeet(r))
  BY <1>2 DEF BeginUpdate, Continue, AdministrationTypeOK
<1>4. AdministrationTypeOK'
  BY <1>3 DEF AdministrationTypeOK, RolesMeet
<1>5. Known' /\ SomeActiveAdmin' /\ AdminStandsAlone'
  <2>1. Known'
    BY <1>1, <1>2, <1>3 DEF Known, Exists
  <2>2. SomeActiveAdmin'
    BY <1>3 DEF SomeActiveAdmin, IsActiveAdmin, Exists
  <2>3. AdminStandsAlone'
    BY <1>3 DEF AdminStandsAlone, Exists
  <2> QED
    BY <2>1, <2>2, <2>3
<1>6. (\A s \in Update : OtherRemains(update[s]))'
  <2> SUFFICES ASSUME NEW s \in Update, OtherRemains(update[s])
               PROVE  OtherRemains(update[s])'
    BY <1>3
  <2>1. /\ update'[s].id = update[s].id
        /\ update'[s].change = update[s].change
        /\ update'[s].pc \in {"begin", "commit"} =>
             update[s].pc \in {"begin", "commit"} /\ update'[s].stale = update[s].stale
    BY <1>2, <1>3 DEF BeginUpdate
  <2> QED
    BY <1>3, <2>1 DEF OtherRemains, IsActiveAdmin, Exists
<1>7. \A s \in Update : RacedLate(update'[s])
  BY <1>1, <1>2, <1>3 DEF RacedLate, BeginUpdate
<1>8. Apart'
  <2> SUFFICES ASSUME ~unlocked, ~RolesMeet(r), NEW s \in Update, ReplacesRoles(update'[s])
               PROVE  /\ ~update'[s].raced
                      /\ \A t \in Update \ {s} :
                           ReplacesRoles(update'[t]) => update'[t].id # update'[s].id
    BY <1>3 DEF Apart, ReplacesRoles
  <2>1. ~update[r].raced
    BY <1>1 DEF RacedLate, BeginUpdate
  <2>2. update[r].change.roles # {} =>
          \A t \in Update \ {r} : ReplacesRoles(update[t]) => update[t].id # update[r].id
    BY DEF RolesMeet, ReplacesRoles
  <2>3. \A t \in Update : /\ update'[t].id = update[t].id
                          /\ update'[t].change = update[t].change
                          /\ update'[t].raced = update[t].raced
                          /\ t # r => update'[t].pc = update[t].pc
    BY <1>2, <1>3
  <2>4. CASE s = r
    BY <2>1, <2>2, <2>3, <2>4 DEF ReplacesRoles
  <2>5. CASE s # r
    <3>1. ReplacesRoles(update[s])
      BY <2>3, <2>5 DEF ReplacesRoles
    <3> QED
      BY <2>2, <2>3, <2>5, <3>1 DEF Apart, ReplacesRoles
  <2> QED
    BY <2>4, <2>5
<1>9. (\A s \in Update : RacedLate(update[s]))'
  BY <1>7 DEF RacedLate
<1> QED
  BY <1>4, <1>5, <1>6, <1>8, <1>9

(* Every step keeps AdministrationInv. *)
LEMMA AdministrationStepInv ==
  AdministrationInv /\ [AdministrationNext]_administrationVars => AdministrationInv'
<1> SUFFICES ASSUME AdministrationInv, [AdministrationNext]_administrationVars
             PROVE  AdministrationInv'
  OBVIOUS
<1> USE DEF AdministrationInv
<1>1. ASSUME UNCHANGED <<account, update, overtaken, unlocked>>, holder' \in SUBSET User
      PROVE  AdministrationInv'
  BY <1>1 DEF AdministrationTypeOK, Known, SomeActiveAdmin, OtherRemains, RacedLate, Apart,
     ReplacesRoles, AdminStandsAlone, IsActiveAdmin, Exists
<1>2. ASSUME NEW u \in User, SignIn(u) \/ SignOut(u)
      PROVE  AdministrationInv'
  BY <1>1, <1>2 DEF SignIn, SignOut, AdministrationTypeOK
<1>3. ASSUME NEW u \in User, NEW on \in BOOLEAN, NEW roles \in SUBSET Role,
             CreateUser(u, on, roles)
      PROVE  AdministrationInv'
  BY <1>3, AdministrationCreateInv
<1>4. [pc |-> "idle"] \in Waiting
  BY DEF Waiting
<1>5. ASSUME NEW r \in Update, NEW id \in User, NEW self \in BOOLEAN, NEW change \in Sent,
             SendUpdate(r, id, self, change)
      PROVE  AdministrationInv'
  <2> DEFINE q == [pc |-> "find", id |-> id, self |-> self, change |-> change,
                   stale |-> FALSE, raced |-> FALSE]
  <2>1. q \in Updating
    BY SentAssumption DEF Updating
  <2> QED
    BY <1>5, <2>1, AdministrationRequestStep DEF SendUpdate, OtherRemains, RacedLate
<1>6. ASSUME NEW r \in Update, update[r].pc \in {"find", "count"}, Done(r),
             UNCHANGED <<account, holder, overtaken, unlocked>>
      PROVE  AdministrationInv'
  BY <1>4, <1>6, AdministrationRequestStep DEF Done, OtherRemains, RacedLate
<1>7. ASSUME NEW r \in Update, FindUser(r)
      PROVE  AdministrationInv'
  <2>1. update[r] \in Updating /\ update[r].pc = "find"
    BY <1>7, UpdatingFields DEF FindUser
  <2>2. ASSUME Exists(update[r].id), NEW pc \in {"count", "begin"}, Continue(r, pc),
               pc = "begin" => ~(IsActiveAdmin(update[r].id) /\ LosesAdmin(update[r].change))
        PROVE  AdministrationInv'
    <3> DEFINE q == [update[r] EXCEPT !.pc = pc]
    <3>1. /\ q \in Updating /\ q.pc = pc
          /\ q.id = update[r].id /\ q.change = update[r].change /\ q.raced = update[r].raced
      BY <2>1 DEF Updating
    <3>2. OtherRemains(q) /\ RacedLate(q)
      BY <2>1, <2>2, <3>1 DEF OtherRemains, RacedLate
    <3> QED
      BY <1>7, <2>2, <3>1, <3>2, AdministrationRequestStep DEF FindUser, Continue
  <2> QED
    BY <1>6, <1>7, <2>1, <2>2 DEF FindUser
<1>8. ASSUME NEW r \in Update, CountAdmins(r)
      PROVE  AdministrationInv'
  <2>1. update[r] \in Updating /\ update[r].pc = "count" /\ Exists(update[r].id)
    BY <1>8, UpdatingFields DEF CountAdmins, Known
  <2>2. CASE (\E u \in User \ {update[r].id} : IsActiveAdmin(u)) /\ Continue(r, "begin")
    <3> DEFINE q == [update[r] EXCEPT !.pc = "begin"]
    <3>1. /\ q \in Updating /\ q.pc = "begin"
          /\ q.id = update[r].id /\ q.raced = update[r].raced
      BY <2>1 DEF Updating
    <3>2. OtherRemains(q) /\ RacedLate(q)
      BY <2>1, <2>2, <3>1 DEF OtherRemains, RacedLate
    <3> QED
      BY <1>8, <2>1, <2>2, <3>1, <3>2, AdministrationRequestStep DEF CountAdmins, Continue
  <2> QED
    BY <1>6, <1>8, <2>1, <2>2 DEF CountAdmins
<1>9. ASSUME NEW r \in Update, AbortUpdate(r)
      PROVE  AdministrationInv'
  BY <1>4, <1>9, AdministrationRequestStep DEF AbortUpdate, Done, OtherRemains, RacedLate
<1>10. CASE UNCHANGED administrationVars
  BY <1>1, <1>10 DEF administrationVars, AdministrationTypeOK
<1> QED
  BY <1>2, <1>3, <1>5, <1>7, <1>8, <1>9, <1>10, AdministrationBeginInv, AdministrationCommitInv
    DEF AdministrationNext

(* AdministrationInv is an invariant of the specification. *)
LEMMA AdministrationInvariance == AdministrationSpec => []AdministrationInv
  BY AdministrationInitInv, AdministrationStepInv, PTL DEF AdministrationSpec

(* Every reachable state of user administration is well typed. *)
THEOREM AdministrationTypeCorrect == AdministrationSpec => []AdministrationTypeOK
<1>1. AdministrationInv => AdministrationTypeOK
  BY DEF AdministrationInv
<1> QED
  BY <1>1, AdministrationInvariance, PTL

(* An active administrator is left, unless the update that took the last one away     *)
(* had passed its check before another one committed that took away the               *)
(* administrator it counted on, or that made its own user one.                        *)
THEOREM AdminRemains == AdministrationSpec => []SomeActiveAdmin
<1>1. AdministrationInv => SomeActiveAdmin
  BY DEF AdministrationInv
<1> QED
  BY <1>1, AdministrationInvariance, PTL

(* ADMIN is the only role of whoever has it, unless two transactions that both        *)
(* replace a user's roles overlapped, which the row lock of one that also writes the  *)
(* user rules out with another such.                                               *)
THEOREM AdminAlone == AdministrationSpec => []AdminStandsAlone
<1>1. AdministrationInv => AdminStandsAlone
  BY DEF AdministrationInv
<1> QED
  BY <1>1, AdministrationInvariance, PTL

-----------------------------------------------------------------------------
(* Sessions and LoginAttempts. *)

(* A version of an account that was read with a password: unless a reset has come *)
(* since, it is a password the account has had since its last reset.             *)
Dated(u, version, password) ==
  /\ version <= login[u].version
  /\ version = login[u].version => password \in earned[u]

HonestToken(token) == Dated(token.sub, token.ver, token.with)

(* The inductive invariant of Sessions. *)
SessionsInv ==
  /\ SessionsTypeOK
  /\ \A u \in Person : login[u].password \in earned[u]
  /\ \A b \in Browser :
       /\ cookie[b] # NoToken => HonestToken(cookie[b])
       /\ call[b].pc = "verify" =>
            Dated(call[b].user, call[b].found.version, call[b].found.password)
       /\ call[b].pc \in {"guard", "profile", "write"} => HonestToken(call[b].token)

(* A call in each step has the fields of that step. *)
LEMMA CallFields ==
  ASSUME SessionsTypeOK, NEW b \in Browser
  PROVE  /\ call[b].pc = "login" => call[b] \in SigningIn
         /\ call[b].pc = "verify" => call[b] \in Verifying
         /\ call[b].pc \in {"guard", "profile"} => call[b] \in Guarded
         /\ call[b].pc = "write" => call[b] \in Hashing
  BY DEF SessionsTypeOK, NoCall, SigningIn, Verifying, Guarded, Hashing

(* No one has signed in and every account has its first password. *)
LEMMA SessionsInitInv == SessionsInit => SessionsInv
<1> SUFFICES ASSUME SessionsInit PROVE SessionsInv
  OBVIOUS
<1>1. SessionsTypeOK
  <2>1. login \in [Person -> Row]
    <3>1. /\ login = [u \in Person |-> login[u]]
          /\ \A u \in Person : login[u] \in [active: {TRUE}, password: Password, version: {0}]
      BY DEF SessionsInit
    <3>2. 0 \in 0 .. MaxVersion
      BY VersionAssumption
    <3>3. [active: {TRUE}, password: Password, version: {0}] \subseteq Row
      BY <3>2 DEF Row
    <3> QED
      BY <3>1, <3>3
  <2>2. \A u \in Person : {login[u].password} \in SUBSET Password
    BY <2>1 DEF Row
  <2>3. earned \in [Person -> SUBSET Password]
    BY <2>2 DEF SessionsInit
  <2>4. [pc |-> "idle"] \in NoCall
    BY DEF NoCall
  <2> QED
    BY <2>1, <2>3, <2>4 DEF SessionsInit, SessionsTypeOK
<1>2. \A u \in Person : login[u].password \in earned[u]
  BY DEF SessionsInit
<1> QED
  BY <1>1, <1>2 DEF SessionsInit, SessionsInv

(* A step that gives one browser another cookie or call keeps the invariant when *)
(* both are honest.                                                          *)
LEMMA BrowserStep ==
  ASSUME SessionsInv, NEW b \in Browser, UNCHANGED <<login, earned>>,
         NEW t \in Token \cup {NoToken},
         NEW c \in NoCall \cup SigningIn \cup Verifying \cup Guarded \cup Hashing,
         cookie' = [cookie EXCEPT ![b] = t],
         call' = [call EXCEPT ![b] = c],
         t # NoToken => HonestToken(t),
         c.pc = "verify" => Dated(c.user, c.found.version, c.found.password),
         c.pc \in {"guard", "profile", "write"} => HonestToken(c.token)
  PROVE  SessionsInv'
<1>1. SessionsTypeOK'
  BY DEF SessionsInv, SessionsTypeOK
<1>2. \A a \in Browser : /\ a # b => cookie'[a] = cookie[a] /\ call'[a] = call[a]
                         /\ cookie'[b] = t /\ call'[b] = c
  BY DEF SessionsInv, SessionsTypeOK
<1> QED
  BY <1>1, <1>2 DEF SessionsInv, HonestToken, Dated

(* A step that writes one account keeps the invariant when its version does not  *)
(* fall, and when it stays no password is forgotten.                            *)
LEMMA AccountStep ==
  ASSUME SessionsInv, NEW u \in Person, NEW row \in Row, NEW known \in SUBSET Password,
         UNCHANGED cookie,
         login' = [login EXCEPT ![u] = row],
         earned' = [earned EXCEPT ![u] = known],
         call' \in [Browser -> NoCall \cup SigningIn \cup Verifying \cup Guarded \cup Hashing],
         \A b \in Browser : call'[b] = call[b] \/ call'[b].pc = "idle",
         row.version >= login[u].version,
         row.version = login[u].version => earned[u] \subseteq known,
         row.password \in known
  PROVE  SessionsInv'
<1> USE DEF SessionsInv
<1>1. SessionsTypeOK'
  BY DEF SessionsTypeOK
<1>2. /\ login'[u] = row /\ earned'[u] = known
      /\ \A v \in Person : v # u => login'[v] = login[v] /\ earned'[v] = earned[v]
      /\ login[u].version \in Int /\ row.version \in Int
  BY DEF SessionsTypeOK, Row
<1>3. ASSUME NEW v \in Person, NEW version \in 0 .. MaxVersion, NEW p \in Password,
             Dated(v, version, p)
      PROVE  Dated(v, version, p)'
  BY <1>2, <1>3 DEF Dated
<1>4. ASSUME NEW token \in Token, HonestToken(token) PROVE HonestToken(token)'
  BY <1>3, <1>4 DEF HonestToken, Token
<1>5. \A v \in Person : login'[v].password \in earned'[v]
  BY <1>2
<1>6. ASSUME NEW b \in Browser
      PROVE  /\ cookie'[b] # NoToken => HonestToken(cookie[b])'
             /\ call'[b].pc = "verify" =>
                  Dated(call[b].user, call[b].found.version, call[b].found.password)'
             /\ call'[b].pc \in {"guard", "profile", "write"} => HonestToken(call[b].token)'
  <2>1. cookie[b] # NoToken => cookie[b] \in Token /\ HonestToken(cookie[b])
    BY DEF SessionsTypeOK
  <2>2. cookie'[b] # NoToken => HonestToken(cookie[b])'
    BY <1>4, <2>1 DEF HonestToken, Dated
  <2>3. CASE call'[b].pc = "idle"
    BY <2>2, <2>3
  <2>4. CASE call'[b] = call[b]
    <3>1. ASSUME call[b].pc = "verify"
          PROVE  Dated(call[b].user, call[b].found.version, call[b].found.password)'
      <4>1. /\ call[b].user \in Person
            /\ call[b].found.version \in 0 .. MaxVersion
            /\ call[b].found.password \in Password
        BY <3>1, CallFields DEF Verifying, Row
      <4> QED
        BY <1>3, <2>4, <3>1, <4>1 DEF Dated
    <3>2. ASSUME call[b].pc \in {"guard", "profile", "write"}
          PROVE  HonestToken(call[b].token)'
      <4>1. call[b].token \in Token
        BY <3>2, CallFields DEF Guarded, Hashing
      <4> QED
        BY <1>4, <2>4, <3>2, <4>1 DEF HonestToken, Dated
    <3> QED
      BY <2>2, <2>4, <3>1, <3>2
  <2> QED
    BY <2>3, <2>4
<1> QED
  BY <1>1, <1>5, <1>6

(* Every step keeps the invariant: what a login or profile update read before a   *)
(* reset has the version from before it.                                        *)
LEMMA SessionsStepInv == SessionsInv /\ [SessionsNext]_sessionVars => SessionsInv'
<1> SUFFICES ASSUME SessionsInv, [SessionsNext]_sessionVars PROVE SessionsInv'
  OBVIOUS
<1> USE DEF SessionsInv
<1>1. SessionsTypeOK /\ [pc |-> "idle"] \in NoCall
  BY DEF NoCall
<1>2. ASSUME NEW b \in Browser, EndCall(b), UNCHANGED <<login, cookie, earned>>
      PROVE  SessionsInv'
  <2>1. cookie' = [cookie EXCEPT ![b] = cookie[b]] /\ cookie[b] \in Token \cup {NoToken}
    BY <1>2 DEF SessionsTypeOK
  <2> QED
    BY <1>1, <1>2, <2>1, BrowserStep DEF EndCall, Calls
<1>3. ASSUME NEW b \in Browser,
             NEW c \in SigningIn \cup Verifying \cup Guarded \cup Hashing,
             Calls(b, c), UNCHANGED <<login, cookie, earned>>,
             c.pc = "verify" => Dated(c.user, c.found.version, c.found.password),
             c.pc \in {"guard", "profile", "write"} => HonestToken(c.token)
      PROVE  SessionsInv'
  <2>1. cookie' = [cookie EXCEPT ![b] = cookie[b]] /\ cookie[b] \in Token \cup {NoToken}
    BY <1>3 DEF SessionsTypeOK
  <2> QED
    BY <1>3, <2>1, BrowserStep DEF Calls
<1>4. ASSUME NEW b \in Browser, NEW u \in Person, NEW p \in Password, SendLogin(b, u, p)
      PROVE  SessionsInv'
  <2>1. [pc |-> "login", user |-> u, password |-> p] \in SigningIn
    BY DEF SigningIn
  <2> QED
    BY <1>3, <1>4, <2>1 DEF SendLogin
<1>5. ASSUME NEW b \in Browser, ReadCredentials(b)
      PROVE  SessionsInv'
  <2> DEFINE q == call[b]
             c == [pc |-> "verify", user |-> q.user, password |-> q.password,
                   found |-> login[q.user]]
  <2>1. q.user \in Person /\ q.password \in Password /\ login[q.user] \in Row
    BY <1>1, <1>5, CallFields DEF ReadCredentials, SigningIn, SessionsTypeOK
  <2>2. c \in Verifying /\ Dated(c.user, c.found.version, c.found.password)
    BY <2>1 DEF Verifying, Dated, Row
  <2> QED
    BY <1>2, <1>3, <1>5, <2>2 DEF ReadCredentials
<1>6. ASSUME NEW b \in Browser, AnswerLogin(b)
      PROVE  SessionsInv'
  <2>1. call[b] \in Verifying /\ call[b].pc = "verify"
    BY <1>1, <1>6, CallFields DEF AnswerLogin
  <2>2. CASE call[b].password = call[b].found.password
    <3>1. Signed(call[b]) \in Token /\ HonestToken(Signed(call[b]))
      BY <2>1, <2>2 DEF Signed, Token, HonestToken, Verifying, Row
    <3> QED
      BY <1>1, <1>6, <2>2, <3>1, BrowserStep DEF AnswerLogin, EndCall, Calls
  <2>3. CASE call[b].password # call[b].found.password
    BY <1>2, <1>6, <2>3 DEF AnswerLogin
  <2> QED
    BY <2>2, <2>3
<1>7. ASSUME NEW b \in Browser, Logout(b)
      PROVE  SessionsInv'
  <2>1. call' = [call EXCEPT ![b] = call[b]]
    BY <1>7 DEF Logout, SessionsTypeOK
  <2>2. call[b] \in NoCall \cup SigningIn \cup Verifying \cup Guarded \cup Hashing
    BY DEF SessionsTypeOK
  <2> QED
    BY <1>7, <2>1, <2>2, BrowserStep DEF Logout
<1>8. ASSUME NEW b \in Browser, NEW current \in Password, NEW new \in Password,
             SendProfile(b, current, new)
      PROVE  SessionsInv'
  <2>1. cookie[b] \in Token /\ HonestToken(cookie[b])
    BY <1>8 DEF SendProfile, SessionsTypeOK
  <2>2. [pc |-> "guard", token |-> cookie[b], current |-> current, new |-> new] \in Guarded
    BY <2>1 DEF Guarded
  <2> QED
    BY <1>3, <1>8, <2>1, <2>2 DEF SendProfile
<1>9. ASSUME NEW b \in Browser, Guard(b)
      PROVE  SessionsInv'
  <2> DEFINE c == [call[b] EXCEPT !.pc = "profile"]
  <2>1. call[b] \in Guarded /\ HonestToken(call[b].token)
    BY <1>1, <1>9, CallFields DEF Guard
  <2>2. c \in Guarded /\ c.token = call[b].token /\ c.pc = "profile"
    BY <2>1 DEF Guarded
  <2> QED
    BY <1>2, <1>3, <1>9, <2>1, <2>2 DEF Guard
<1>10. ASSUME NEW b \in Browser, ReadProfile(b)
       PROVE  SessionsInv'
  <2> DEFINE q == call[b]
             row == login[q.token.sub]
             c == [pc |-> "write", token |-> q.token, current |-> q.current,
                   new |-> q.new, found |-> row]
  <2>1. q \in Guarded /\ HonestToken(q.token)
    BY <1>1, <1>10, CallFields DEF ReadProfile
  <2>2. row \in Row
    BY <2>1 DEF Guarded, Token, SessionsTypeOK
  <2>3. c \in Hashing
    BY <2>1, <2>2 DEF Guarded, Hashing
  <2> QED
    BY <1>2, <1>3, <1>10, <2>1, <2>3 DEF ReadProfile
<1>11. ASSUME NEW b \in Browser, WriteProfile(b)
       PROVE  SessionsInv'
  <2> DEFINE q == call[b]
             u == q.token.sub
             row == ProfileWritten(q)
  <2>1. q \in Hashing
    BY <1>1, <1>11, CallFields DEF WriteProfile
  <2>2. u \in Person /\ q.new \in Password
    BY <2>1 DEF Hashing, Token
  <2>3. /\ row \in Row /\ row.version = login[u].version /\ row.password = q.new
        /\ row.version \in Int
    BY <2>2 DEF ProfileWritten, Row, SessionsTypeOK
  <2>4. /\ call' \in [Browser -> NoCall \cup SigningIn \cup Verifying \cup Guarded \cup Hashing]
        /\ \A a \in Browser : call'[a] = call[a] \/ call'[a].pc = "idle"
    BY <1>1, <1>11 DEF WriteProfile, EndCall, Calls, SessionsTypeOK
  <2>5. earned[u] \cup {q.new} \in SUBSET Password
    BY <2>2 DEF SessionsTypeOK
  <2>6. CASE q.current = q.found.password
    <3>1. /\ login' = [login EXCEPT ![u] = row]
          /\ earned' = [earned EXCEPT ![u] = earned[u] \cup {q.new}]
          /\ UNCHANGED cookie
      BY <1>11, <2>6 DEF WriteProfile
    <3>2. row.version >= login[u].version /\ row.password \in earned[u] \cup {q.new}
      BY <2>3
    <3>3. earned[u] \subseteq earned[u] \cup {q.new}
      OBVIOUS
    <3> QED
      BY <2>2, <2>3, <2>4, <2>5, <3>1, <3>2, <3>3, AccountStep
  <2>7. CASE q.current # q.found.password
    BY <1>2, <1>11, <2>7 DEF WriteProfile
  <2> QED
    BY <2>6, <2>7
<1>12. ASSUME NEW b \in Browser, AbortCall(b)
       PROVE  SessionsInv'
  BY <1>2, <1>12 DEF AbortCall
<1>13. ASSUME NEW u \in Person, NEW p \in Password, ResetPassword(u, p)
       PROVE  SessionsInv'
  <2> DEFINE row == [login[u] EXCEPT !.password = p, !.version = @ + 1]
  <2>1. login[u] \in Row
    BY DEF SessionsTypeOK
  <2>2. /\ row \in Row /\ row.password = p
        /\ row.version = login[u].version + 1 /\ login[u].version \in Int
    <3>1. login[u].version \in 0 .. MaxVersion /\ login[u].version < MaxVersion
      BY <1>13, <2>1 DEF ResetPassword, Row
    <3>2. login[u].version + 1 \in 0 .. MaxVersion /\ login[u].version \in Int
      BY <3>1, VersionAssumption
    <3> QED
      BY <2>1, <3>2 DEF Row
  <2>3. /\ login' = [login EXCEPT ![u] = row]
        /\ earned' = [earned EXCEPT ![u] = {p}]
        /\ UNCHANGED <<cookie, call>>
    BY <1>13 DEF ResetPassword
  <2>4. call' \in [Browser -> NoCall \cup SigningIn \cup Verifying \cup Guarded \cup Hashing]
    BY <2>3 DEF SessionsTypeOK
  <2>5. row.version >= login[u].version /\ row.version # login[u].version
    BY <2>2
  <2>6. {p} \in SUBSET Password /\ row.password \in {p}
    BY <2>2
  <2> QED
    BY <2>2, <2>3, <2>4, <2>5, <2>6, AccountStep
<1>14. ASSUME NEW u \in Person, NEW on \in BOOLEAN, SetActive(u, on)
       PROVE  SessionsInv'
  <2> DEFINE row == [login[u] EXCEPT !.active = on]
  <2>1. /\ login[u] \in Row /\ earned[u] \in SUBSET Password
        /\ login[u].password \in earned[u]
    BY DEF SessionsTypeOK
  <2>2. /\ row \in Row /\ row.password = login[u].password
        /\ row.version = login[u].version /\ login[u].version \in Int
    BY <2>1 DEF Row
  <2>3. /\ login' = [login EXCEPT ![u] = row]
        /\ earned' = [earned EXCEPT ![u] = earned[u]]
        /\ call' \in [Browser -> NoCall \cup SigningIn \cup Verifying \cup Guarded \cup Hashing]
    BY <1>14 DEF SetActive, SessionsTypeOK
  <2>4. UNCHANGED <<cookie, call>> /\ row.version >= login[u].version
    BY <1>14, <2>2 DEF SetActive
  <2> QED
    BY <2>1, <2>2, <2>3, <2>4, AccountStep
<1>15. CASE UNCHANGED sessionVars
  BY <1>15 DEF sessionVars, SessionsTypeOK, HonestToken, Dated
<1> QED
  BY <1>4, <1>5, <1>6, <1>7, <1>8, <1>9, <1>10, <1>11, <1>12, <1>13, <1>14, <1>15
     DEF SessionsNext

LEMMA SessionsInvariance == SessionsSpec => []SessionsInv
  BY SessionsInitInv, SessionsStepInv, PTL DEF SessionsSpec

(* A reset ends every session there was, whatever logins and profile updates it       *)
(* overtakes: the guard accepts no token obtained with a password of before it.       *)
THEOREM Revocation == SessionsSpec => []ResetEndsSessions
<1>1. SessionsInv => ResetEndsSessions
  <2> SUFFICES ASSUME SessionsInv, NEW b \in Browser,
                      NEW token \in ({cookie[b]} \ {NoToken})
                        \cup (IF call[b].pc = "guard" THEN {call[b].token} ELSE {}),
                      Accepted(token)
               PROVE  token.with \in earned[token.sub]
    BY DEF ResetEndsSessions
  <2>1. HonestToken(token)
    BY DEF SessionsInv
  <2> QED
    BY <2>1 DEF HonestToken, Dated, Accepted
<1> QED
  BY <1>1, SessionsInvariance, PTL

-----------------------------------------------------------------------------
(* Logins on the key k whose credentials are being checked. *)
Trying(k) == {l \in Login : k \in KeysOf(attempt[l])}

(* A record that is not locked has not had more failures than the limit. *)
LockedInTime ==
  \A k \in Key :
    record[k] # NoRecord /\ record[k].lockedUntil = 0 => record[k].failures <= MaxAttempts

(* The inductive invariant of LoginAttempts. *)
AttemptsInv == AttemptsTypeOK /\ LockedInTime /\ AttemptsBounded

(* What there is to know of the number of logins in a set of them. *)
LEMMA LoginCount ==
  ASSUME NEW S \in SUBSET Login, NEW l \in Login
  PROVE  /\ Cardinality(S) \in Nat
         /\ Cardinality(Login) \in Nat
         /\ Cardinality(S) <= Cardinality(Login)
         /\ l \notin S => /\ Cardinality(S \cup {l}) = Cardinality(S) + 1
                          /\ Cardinality(S) + 1 <= Cardinality(Login)
         /\ l \in S => Cardinality(S \ {l}) = Cardinality(S) - 1
<1>1. IsFiniteSet(S) /\ IsFiniteSet(S \cup {l})
  BY LoginAssumption, FS_Subset, FS_AddElement
<1>2. /\ Cardinality(S) \in Nat /\ Cardinality(Login) \in Nat
      /\ Cardinality(S) <= Cardinality(Login)
      /\ Cardinality(S \cup {l}) <= Cardinality(Login)
  BY <1>1, LoginAssumption, FS_CardinalityType, FS_Subset
<1>3. l \notin S => Cardinality(S \cup {l}) = Cardinality(S) + 1
  BY <1>1, FS_AddElement
<1>4. l \in S => Cardinality(S \ {l}) = Cardinality(S) - 1
  BY <1>1, FS_RemoveElement
<1> QED
  BY <1>2, <1>3, <1>4

(* The bound in terms of the logins that try a key. *)
LEMMA BoundedTries ==
  AttemptsBounded <=>
    \A k \in Key : record[k] # NoRecord =>
      record[k].failures + Cardinality(Trying(k)) <= MaxAttempts + Cardinality(Login)
  BY DEF AttemptsBounded, Trying

(* No key of a login that is let in is locked, and the expired records are gone. *)
LEMMA BeginLoginInv ==
  ASSUME AttemptsInv, NEW l \in Login, NEW ks \in KeyLists, BeginLogin(l, ks)
  PROVE  AttemptsInv'
<1> USE DEF AttemptsInv
<1>1. /\ attempt' \in [Login -> KeyLists \cup {<<>>}]
      /\ record' \in [Key -> Record \cup {NoRecord}]
      /\ AttemptsTypeOK'
  BY DEF BeginLogin, AttemptsTypeOK
<1>2. ASSUME NEW k \in Key, record'[k] # NoRecord
      PROVE  /\ record'[k] = record[k]
             /\ ~(k \in LookedAt(ks) /\ Expired(k))
  BY <1>2 DEF BeginLogin
<1>3. LockedInTime'
  BY <1>2 DEF LockedInTime
<1>4. ASSUME NEW k \in Key, record[k] # NoRecord, record'[k] = record[k],
             ~(k \in LookedAt(ks) /\ Expired(k))
      PROVE  record[k].failures + Cardinality(Trying(k)') <= MaxAttempts + Cardinality(Login)
  <2>1. record[k].failures + Cardinality(Trying(k)) <= MaxAttempts + Cardinality(Login)
    BY <1>4, BoundedTries
  <2>2. CASE AnyLocked(ks) \/ k \notin KeysOf(ks)
    <3>1. Trying(k)' = Trying(k)
      BY <2>2 DEF BeginLogin, Trying, KeysOf, AttemptsTypeOK
    <3> QED
      BY <2>1, <3>1
  <2>3. CASE ~AnyLocked(ks) /\ k \in KeysOf(ks)
    <3>1. k \in LookedAt(ks) /\ ~Locked(k)
      <4>1. PICK i \in DOMAIN ks : k = ks[i]
        BY <2>3 DEF KeysOf
      <4>2. DOMAIN ks = 1 .. Len(ks) /\ Len(ks) \in Nat
        BY KeyListsAssumption
      <4>3. \A h \in DOMAIN ks : ~Locked(ks[h])
        BY <2>3 DEF AnyLocked, KeysOf
      <4>4. \A h \in 1 .. i - 1 : h \in DOMAIN ks
        BY <4>2
      <4>5. i \in {j \in DOMAIN ks : \A h \in 1 .. j - 1 : ~Locked(ks[h])}
        BY <4>3, <4>4
      <4> QED
        BY <4>1, <4>3, <4>5 DEF LookedAt
    <3>2. record[k].lockedUntil = 0
      BY <1>4, <3>1, LimitsAssumption DEF Expired, Locked, AttemptsTypeOK, Record
    <3>3. l \notin Trying(k) /\ Trying(k)' = Trying(k) \cup {l}
      BY <2>3 DEF BeginLogin, Trying, KeysOf, AttemptsTypeOK
    <3>4. record[k].failures <= MaxAttempts /\ record[k].failures \in Nat
      BY <1>4, <3>2 DEF LockedInTime, AttemptsTypeOK, Record
    <3>5. /\ Cardinality(Trying(k)') <= Cardinality(Login)
          /\ Cardinality(Trying(k)') \in Nat /\ Cardinality(Login) \in Nat
      <4>1. Trying(k) \in SUBSET Login /\ Trying(k)' \in SUBSET Login
        BY DEF Trying
      <4> QED
        BY <4>1, LoginCount
    <3> QED
      BY <3>4, <3>5, LimitsAssumption
  <2> QED
    BY <2>2, <2>3
<1>5. AttemptsBounded'
  BY <1>2, <1>4 DEF AttemptsBounded, Trying
<1> QED
  BY <1>1, <1>3, <1>5

(* A failure moves one login from those that try a key to those that failed. *)
LEMMA FailLoginInv ==
  ASSUME AttemptsInv, NEW l \in Login, FailLogin(l)
  PROVE  AttemptsInv'
<1> USE DEF AttemptsInv
<1>1. ASSUME NEW k \in Key
      PROVE  /\ Counted(k) \in Record
             /\ Counted(k).failures =
                  IF record[k] = NoRecord \/ PastWindow(k) THEN 1 ELSE record[k].failures + 1
             /\ Counted(k).lockedUntil = 0 => Counted(k).failures <= MaxAttempts
  <2>1. CASE record[k] = NoRecord \/ PastWindow(k)
    BY <2>1, LimitsAssumption DEF Counted, Record, AttemptsTypeOK
  <2>2. CASE ~(record[k] = NoRecord \/ PastWindow(k))
    <3>1. /\ record[k] \in Record
          /\ record[k].failures \in Nat
          /\ clock \in Nat /\ clock <= MaxTime
      BY <2>2 DEF AttemptsTypeOK, Record
    <3>2. clock + Lockout \in 0 .. MaxTime + Lockout /\ clock + Lockout > 0
      BY <3>1, LimitsAssumption
    <3> DEFINE until == IF record[k].failures + 1 >= MaxAttempts THEN clock + Lockout
                        ELSE record[k].lockedUntil
    <3>3. Counted(k) = [record[k] EXCEPT !.failures = record[k].failures + 1, !.lockedUntil = until]
      BY <2>2 DEF Counted
    <3>4. /\ until \in 0 .. MaxTime + Lockout
          /\ until = 0 => record[k].failures + 1 <= MaxAttempts
      BY <3>1, <3>2, LimitsAssumption DEF Record
    <3>5. record[k].failures + 1 \in Nat \ {0}
      BY <3>1
    <3> HIDE DEF until
    <3> QED
      BY <2>2, <3>1, <3>3, <3>4, <3>5 DEF Record
  <2> QED
    BY <2>1, <2>2
<1>2. /\ AttemptsTypeOK'
      /\ \A k \in Key : record'[k] = IF k \in KeysOf(attempt[l]) THEN Counted(k) ELSE record[k]
  <2>1. /\ record' = [k \in Key |-> IF k \in KeysOf(attempt[l]) THEN Counted(k) ELSE record[k]]
        /\ attempt' = [attempt EXCEPT ![l] = <<>>]
        /\ UNCHANGED clock
    BY DEF FailLogin
  <2>2. record' \in [Key -> Record \cup {NoRecord}]
    BY <1>1, <2>1 DEF AttemptsTypeOK
  <2> QED
    BY <2>1, <2>2 DEF AttemptsTypeOK
<1>3. LockedInTime'
  BY <1>1, <1>2 DEF LockedInTime
<1>4. ASSUME NEW k \in Key, record'[k] # NoRecord
      PROVE  record'[k].failures + Cardinality(Trying(k)') <= MaxAttempts + Cardinality(Login)
  <2>1. Trying(k) \in SUBSET Login /\ Trying(k)' = Trying(k) \ {l}
    BY DEF FailLogin, Trying, KeysOf, AttemptsTypeOK
  <2>2. CASE k \in KeysOf(attempt[l])
    <3>1. l \in Trying(k)
      BY <2>2 DEF Trying
    <3>2. /\ Cardinality(Trying(k)') = Cardinality(Trying(k)) - 1
          /\ Cardinality(Trying(k)) \in Nat /\ Cardinality(Login) \in Nat
          /\ Cardinality(Trying(k)) <= Cardinality(Login)
      BY <2>1, <3>1, LoginCount
    <3>3. CASE record[k] = NoRecord \/ PastWindow(k)
      BY <1>1, <1>2, <2>2, <3>2, <3>3, LimitsAssumption
    <3>4. CASE ~(record[k] = NoRecord \/ PastWindow(k))
      <4>1. record[k].failures + Cardinality(Trying(k)) <= MaxAttempts + Cardinality(Login)
        BY <3>4, BoundedTries
      <4>2. record[k].failures \in Nat
        BY <3>4 DEF AttemptsTypeOK, Record
      <4>3. record'[k].failures = record[k].failures + 1
        BY <1>1, <1>2, <2>2, <3>4
      <4> QED
        BY <3>2, <4>1, <4>2, <4>3, LimitsAssumption
    <3> QED
      BY <3>3, <3>4
  <2>3. CASE k \notin KeysOf(attempt[l])
    <3>1. Trying(k)' = Trying(k) /\ record'[k] = record[k]
      BY <1>2, <2>1, <2>3 DEF Trying
    <3> QED
      BY <1>4, <3>1, BoundedTries
  <2> QED
    BY <2>2, <2>3
<1>5. AttemptsBounded'
  BY <1>4 DEF AttemptsBounded, Trying
<1> QED
  BY <1>2, <1>3, <1>5

(* A step that forgets records and ends logins keeps the invariant. *)
LEMMA ForgetInv ==
  ASSUME AttemptsInv, AttemptsTypeOK',
         \A k \in Key : record'[k] \in {record[k], NoRecord},
         \A l \in Login : attempt'[l] \in {attempt[l], <<>>}
  PROVE  AttemptsInv'
<1> USE DEF AttemptsInv
<1>1. LockedInTime'
  BY DEF LockedInTime
<1>2. ASSUME NEW k \in Key, record'[k] # NoRecord
      PROVE  record'[k].failures + Cardinality(Trying(k)') <= MaxAttempts + Cardinality(Login)
  <2>1. record'[k] = record[k]
    BY <1>2
  <2>2. record[k].failures \in Nat
    BY <1>2, <2>1 DEF AttemptsTypeOK, Record
  <2>3. Trying(k)' \subseteq Trying(k) /\ Trying(k) \in SUBSET Login
    BY DEF Trying, KeysOf
  <2>4. /\ Cardinality(Trying(k)') <= Cardinality(Trying(k))
        /\ Cardinality(Trying(k)') \in Nat /\ Cardinality(Trying(k)) \in Nat
        /\ Cardinality(Login) \in Nat
    BY <2>3, LoginAssumption, FS_Subset, FS_CardinalityType
  <2>5. record[k].failures + Cardinality(Trying(k)) <= MaxAttempts + Cardinality(Login)
    BY <1>2, <2>1, BoundedTries
  <2> QED
    BY <2>1, <2>2, <2>4, <2>5, LimitsAssumption
<1>3. AttemptsBounded'
  BY <1>2 DEF AttemptsBounded, Trying
<1> QED
  BY <1>1, <1>3

LEMMA AttemptsInitInv == AttemptsInit => AttemptsInv
  BY LimitsAssumption DEF AttemptsInit, AttemptsInv, AttemptsTypeOK, LockedInTime, AttemptsBounded

LEMMA AttemptsStepInv == AttemptsInv /\ [AttemptsNext]_attemptVars => AttemptsInv'
<1> SUFFICES ASSUME AttemptsInv, [AttemptsNext]_attemptVars PROVE AttemptsInv'
  OBVIOUS
<1>1. ASSUME NEW l \in Login, PassLogin(l) PROVE AttemptsInv'
  <2>1. AttemptsTypeOK'
    BY <1>1 DEF PassLogin, AttemptsInv, AttemptsTypeOK
  <2>2. /\ \A k \in Key : record'[k] \in {record[k], NoRecord}
        /\ \A m \in Login : attempt'[m] \in {attempt[m], <<>>}
    BY <1>1 DEF PassLogin, AttemptsInv, AttemptsTypeOK
  <2> QED
    BY <2>1, <2>2, ForgetInv
<1>2. CASE RestartProcess
  BY <1>2, ForgetInv DEF RestartProcess, AttemptsInv, AttemptsTypeOK
<1>3. CASE Tick
  BY <1>3, ForgetInv, LimitsAssumption DEF Tick, AttemptsInv, AttemptsTypeOK
<1>4. CASE UNCHANGED attemptVars
  BY <1>4, ForgetInv DEF attemptVars, AttemptsInv, AttemptsTypeOK
<1> QED
  BY <1>1, <1>2, <1>3, <1>4, BeginLoginInv, FailLoginInv DEF AttemptsNext

LEMMA AttemptsInvariance == AttemptsSpec => []AttemptsInv
  BY AttemptsInitInv, AttemptsStepInv, PTL DEF AttemptsSpec

(* No more passwords are tried on a name or from an address than the limit and the    *)
(* logins in flight allow, whatever locks run out, windows start again and restarts.  *)
THEOREM Bounded == AttemptsSpec => []AttemptsBounded
<1>1. AttemptsInv => AttemptsBounded
  BY DEF AttemptsInv
<1> QED
  BY <1>1, AttemptsInvariance, PTL

-----------------------------------------------------------------------------
(* MasterData. *)

Elems(s) == {s[n] : n \in DOMAIN s}

(* What a request may still count on: it is usable or was retired since it began. *)
Sound(c, i) == Usable(i) \/ i \in choice[c].lapsed

(* A request has checked what is not left to check, or writes back the category the *)
(* resource has.                                                              *)
CheckedSoFar(c) ==
  /\ choice[c].pc = "find" => choice[c].owner \in Resource /\ Len(choice[c].items) = 1
  /\ choice[c].pc = "find" => choice[c].left = choice[c].items
  /\ choice[c].pc \in {"find", "check"} => choice[c].left # <<>>
  /\ choice[c].pc = "check" =>
       \A i \in Elems(choice[c].items) : i \in Elems(choice[c].left) \/ Sound(c, i)
  /\ choice[c].pc = "write" =>
       \/ choice[c].moved
       \/ \A i \in Elems(choice[c].items) : Sound(c, i)
       \/ /\ choice[c].owner \in Resource
          /\ Elems(choice[c].items) \subseteq refers[choice[c].owner]

(* The inductive invariant. *)
MasterInv == MasterTypeOK /\ \A c \in Choice : CheckedSoFar(c)

(* The elements of a sequence are its head and those of its tail. *)
LEMMA TailElements ==
  ASSUME NEW S, NEW s \in Seq(S), s # <<>>
  PROVE  /\ Head(s) \in S /\ Tail(s) \in Seq(S)
         /\ Elems(s) \subseteq {Head(s)} \cup Elems(Tail(s))
         /\ Len(s) = 1 => Elems(Tail(s)) = {}
         /\ Len(s) # 1 => Tail(s) # <<>>
<1>1. Len(s) \in Nat /\ Len(s) > 0 /\ DOMAIN s = 1 .. Len(s) /\ Head(s) = s[1]
  OBVIOUS
<1>2. /\ Tail(s) \in Seq(S) /\ Len(Tail(s)) = Len(s) - 1
      /\ DOMAIN Tail(s) = 1 .. Len(s) - 1
      /\ \A n \in 1 .. Len(s) - 1 : Tail(s)[n] = s[n + 1]
  BY <1>1
<1>3. Elems(s) \subseteq {Head(s)} \cup Elems(Tail(s))
  <2> SUFFICES ASSUME NEW n \in 1 .. Len(s), n # 1 PROVE s[n] \in Elems(Tail(s))
    BY <1>1 DEF Elems
  <2>1. n - 1 \in 1 .. Len(s) - 1 /\ Tail(s)[n - 1] = s[n]
    BY <1>1, <1>2
  <2> QED
    BY <1>2, <2>1 DEF Elems
<1>4. Len(s) = 1 => Elems(Tail(s)) = {}
  BY <1>2 DEF Elems
<1>5. Len(s) # 1 => Tail(s) # <<>>
  <2>1. Len(<<>>) = 0
    OBVIOUS
  <2>2. Len(s) # 1 => Len(Tail(s)) # 0
    BY <1>1, <1>2
  <2> QED
    BY <2>1, <2>2, Zenon
<1> QED
  BY <1>1, <1>2, <1>3, <1>4, <1>5

(* A request in flight has the fields of one. *)
LEMMA ChoosingFields ==
  ASSUME MasterTypeOK, NEW c \in Choice
  PROVE  /\ InFlight(c) <=> choice[c] \in Choosing
         /\ choice[c].pc \in {"idle", "find", "check", "write"}
  BY DEF MasterTypeOK, Choosing, NoChoice, InFlight

LEMMA MasterInitInv == MasterInit => MasterInv
<1> SUFFICES ASSUME MasterInit PROVE MasterInv
  OBVIOUS
<1>1. [pc |-> "idle"] \in NoChoice
  BY DEF NoChoice
<1>2. MasterTypeOK
  BY <1>1 DEF MasterInit, MasterTypeOK
<1> QED
  BY <1>2 DEF MasterInit, MasterInv, CheckedSoFar

(* A request keeps what it has checked when what it loses is known to have lapsed. *)
LEMMA CheckedStays ==
  ASSUME MasterTypeOK, NEW c \in Choice, CheckedSoFar(c),
         choice[c].pc # "idle" =>
           /\ choice'[c].pc = choice[c].pc
           /\ choice'[c].owner = choice[c].owner
           /\ choice'[c].items = choice[c].items
           /\ choice'[c].left = choice[c].left
           /\ choice[c].moved => choice'[c].moved
           /\ choice[c].lapsed \subseteq choice'[c].lapsed
           /\ choice[c].owner \in Resource =>
                choice'[c].moved \/ refers'[choice[c].owner] = refers[choice[c].owner]
           /\ \A j \in Elems(choice[c].items) : Usable(j) => Usable(j)' \/ j \in choice'[c].lapsed,
         choice[c].pc = "idle" => choice'[c] = choice[c]
  PROVE  CheckedSoFar(c)'
<1>1. CASE choice[c].pc = "idle"
  BY <1>1 DEF CheckedSoFar
<1>2. CASE choice[c].pc # "idle"
  <2>1. \A j \in Elems(choice[c].items) : Sound(c, j) => Sound(c, j)'
    BY <1>2 DEF Sound
  <2>2. (choice[c].pc = "check" =>
           \A i \in Elems(choice[c].items) : i \in Elems(choice[c].left) \/ Sound(c, i))'
    BY <1>2, <2>1 DEF CheckedSoFar
  <2>3. (choice[c].pc = "write" =>
           \/ choice[c].moved
           \/ \A i \in Elems(choice[c].items) : Sound(c, i)
           \/ /\ choice[c].owner \in Resource
              /\ Elems(choice[c].items) \subseteq refers[choice[c].owner])'
    BY <1>2, <2>1 DEF CheckedSoFar
  <2> QED
    BY <1>2, <2>2, <2>3 DEF CheckedSoFar
<1> QED
  BY <1>1, <1>2

(* A step that changes rows keeps what requests have checked when it tells those it   *)
(* concerns what they have lost.                                                  *)
LEMMA MasterRowsStep ==
  ASSUME MasterInv, MasterTypeOK', UNCHANGED refers,
         NEW i \in Item,
         \A j : j # i /\ Usable(j) => Usable(j)',
         \/ UNCHANGED choice /\ (Usable(i) => Usable(i)')
         \/ choice' = Retired(i)
  PROVE  MasterInv'
<1> SUFFICES ASSUME NEW c \in Choice PROVE CheckedSoFar(c)'
  BY DEF MasterInv
<1>1. MasterTypeOK /\ CheckedSoFar(c)
  BY DEF MasterInv
<1>2. CASE choice' = Retired(i) /\ Concerns(c, i)
  <2>1. choice[c] \in Choosing
    BY <1>1, <1>2, ChoosingFields DEF Concerns
  <2>2. choice'[c] = [choice[c] EXCEPT !.lapsed = choice[c].lapsed \cup {i}]
    BY <1>2 DEF Retired
  <2>3. /\ choice'[c].pc = choice[c].pc /\ choice'[c].owner = choice[c].owner
        /\ choice'[c].items = choice[c].items /\ choice'[c].left = choice[c].left
        /\ choice'[c].moved = choice[c].moved
        /\ choice'[c].lapsed = choice[c].lapsed \cup {i}
    BY <2>1, <2>2 DEF Choosing
  <2>4. choice[c].pc # "idle"
    BY <2>1 DEF Choosing
  <2> QED
    BY <1>1, <2>3, <2>4, CheckedStays
<1>3. CASE choice' = Retired(i) /\ ~Concerns(c, i)
  <2>1. choice'[c] = choice[c] /\ (InFlight(c) => i \notin Elems(choice[c].items))
    BY <1>3 DEF Retired, Concerns, Elems
  <2> QED
    BY <1>1, <2>1, CheckedStays DEF InFlight
<1>4. CASE UNCHANGED choice /\ (Usable(i) => Usable(i)')
  BY <1>1, <1>4, CheckedStays
<1> QED
  BY <1>2, <1>3, <1>4

(* A step of one request keeps the invariant when that of the request does. *)
LEMMA MasterChoiceStep ==
  ASSUME MasterInv, NEW c \in Choice, NEW q \in NoChoice \cup Choosing,
         choice' = [choice EXCEPT ![c] = q],
         UNCHANGED <<active, suppliers, refers>>,
         CheckedSoFar(c)'
  PROVE  MasterInv'
<1> USE DEF MasterInv
<1>1. MasterTypeOK'
  BY DEF MasterTypeOK
<1>2. ASSUME NEW d \in Choice, d # c PROVE CheckedSoFar(d)'
  <2>1. choice'[d] = choice[d] /\ CheckedSoFar(d)
    BY <1>2 DEF MasterTypeOK
  <2>2. \A j : Usable(j) => Usable(j)'
    BY DEF Usable
  <2> QED
    BY <2>1, <2>2, CheckedStays
<1> QED
  BY <1>1, <1>2

LEMMA MasterIdleStep ==
  ASSUME MasterInv, NEW c \in Choice, EndChoice(c), UNCHANGED <<active, suppliers, refers>>
  PROVE  MasterInv'
<1>1. [pc |-> "idle"] \in NoChoice
  BY DEF NoChoice
<1>2. choice'[c] = [pc |-> "idle"]
  BY DEF EndChoice, MasterInv, MasterTypeOK
<1>3. CheckedSoFar(c)'
  BY <1>2 DEF CheckedSoFar
<1> QED
  BY <1>1, <1>3, MasterChoiceStep DEF EndChoice

(* Requests begin with everything to check. *)
LEMMA MasterBeginInv ==
  ASSUME MasterInv, NEW c \in Choice, NEW o \in Owner, NEW items \in Seq(Item), NEW pc,
         Begin(c, o, items, pc),
         items # <<>>,
         pc = "check" \/ (pc = "find" /\ o \in Resource /\ Len(items) = 1)
  PROVE  MasterInv'
<1> DEFINE q == [pc |-> pc, owner |-> o, items |-> items, left |-> items,
                 lapsed |-> {}, moved |-> FALSE]
<1>1. q \in Choosing
  BY DEF Choosing
<1>2. choice'[c] = q
  BY DEF Begin, MasterInv, MasterTypeOK
<1>3. CheckedSoFar(c)'
  BY <1>2 DEF CheckedSoFar
<1> QED
  BY <1>1, <1>3, MasterChoiceStep DEF Begin

LEMMA MasterFindInv ==
  ASSUME MasterInv, NEW c \in Choice, FindResource(c)
  PROVE  MasterInv'
<1> DEFINE pc == IF refers[choice[c].owner] = {choice[c].items[1]} THEN "write" ELSE "check"
           q == [choice[c] EXCEPT !.pc = pc]
<1>1. choice[c] \in Choosing /\ choice[c].pc = "find" /\ CheckedSoFar(c) /\ MasterTypeOK
  BY ChoosingFields DEF FindResource, InFlight, MasterInv
<1>2. /\ q \in Choosing /\ q.pc = pc /\ q.owner = choice[c].owner /\ q.items = choice[c].items
      /\ q.left = choice[c].left
  BY <1>1 DEF Choosing
<1>3. choice' = [choice EXCEPT ![c] = q] /\ choice'[c] = q
  BY <1>1 DEF FindResource, MasterTypeOK
<1>4. CheckedSoFar(c)'
  <2>1. Elems(choice[c].items) = {choice[c].items[1]}
    <3>1. choice[c].items \in Seq(Item) /\ Len(choice[c].items) = 1
      BY <1>1 DEF CheckedSoFar, Choosing
    <3>2. DOMAIN choice[c].items = {1}
      BY <3>1
    <3> QED
      BY <3>2 DEF Elems
  <2> QED
    BY <1>1, <1>2, <1>3, <2>1 DEF CheckedSoFar, FindResource
<1> QED
  BY <1>2, <1>3, <1>4, MasterChoiceStep DEF FindResource

(* What is checked is the head of what is left, and it is usable then. *)
LEMMA MasterCheckInv ==
  ASSUME MasterInv, NEW c \in Choice, CheckItem(c)
  PROVE  MasterInv'
<1> DEFINE left == choice[c].left
           pc == IF Len(left) = 1 THEN "write" ELSE "check"
           q == [choice[c] EXCEPT !.left = Tail(left), !.pc = pc]
<1>1. /\ choice[c] \in Choosing /\ choice[c].pc = "check"
      /\ CheckedSoFar(c) /\ MasterTypeOK
  BY ChoosingFields DEF CheckItem, InFlight, MasterInv
<1>2. /\ left \in Seq(Item) /\ left # <<>>
      /\ Tail(left) \in Seq(Item)
      /\ Elems(left) \subseteq {Head(left)} \cup Elems(Tail(left))
      /\ Len(left) = 1 => Elems(Tail(left)) = {}
      /\ Len(left) # 1 => Tail(left) # <<>>
  BY <1>1, TailElements DEF CheckedSoFar, Choosing
<1>3. CASE Usable(Head(left))
  <2>1. /\ q \in Choosing /\ q.pc = pc /\ q.left = Tail(left)
        /\ q.items = choice[c].items /\ q.owner = choice[c].owner
        /\ q.lapsed = choice[c].lapsed /\ q.moved = choice[c].moved
    BY <1>1, <1>2 DEF Choosing
  <2>2. choice' = [choice EXCEPT ![c] = q] /\ choice'[c] = q
    BY <1>1, <1>3 DEF CheckItem, Checked, MasterTypeOK
  <2>3. \A i \in Elems(choice[c].items) : i \in Elems(Tail(left)) \/ Sound(c, i)
    BY <1>1, <1>2, <1>3 DEF CheckedSoFar, Sound
  <2>4. \A i : Sound(c, i) => Sound(c, i)'
    BY <2>1, <2>2 DEF Sound, Usable, CheckItem
  <2>5. CheckedSoFar(c)'
    <3>1. CASE Len(left) = 1
      <4>1. (\A i \in Elems(choice[c].items) : Sound(c, i))'
        BY <1>2, <2>1, <2>2, <2>3, <2>4, <3>1 DEF Elems
      <4>2. choice'[c].pc = "write"
        BY <2>1, <2>2, <3>1
      <4> QED
        BY <4>1, <4>2 DEF CheckedSoFar
    <3>2. CASE Len(left) # 1
      <4>1. (\A i \in Elems(choice[c].items) : i \in Elems(choice[c].left) \/ Sound(c, i))'
        BY <1>2, <2>1, <2>2, <2>3, <2>4, <3>2 DEF Elems
      <4>2. choice'[c].pc = "check" /\ choice'[c].left # <<>>
        BY <1>2, <2>1, <2>2, <3>2
      <4> QED
        BY <4>1, <4>2 DEF CheckedSoFar
    <3> QED
      BY <3>1, <3>2
  <2> QED
    BY <2>1, <2>2, <2>5, MasterChoiceStep DEF CheckItem
<1>4. CASE ~Usable(Head(left))
  BY <1>4, MasterIdleStep DEF CheckItem
<1> QED
  BY <1>3, <1>4

(* The write of one request: the others are told what it retired or moved. *)
LEMMA MasterWriteInv ==
  ASSUME MasterInv, NEW c \in Choice, NEW on \in BOOLEAN, WriteChoice(c, on)
  PROVE  MasterInv'
<1> DEFINE o == choice[c].owner
           told(d) == [choice[d] EXCEPT
                         !.moved = @ \/ (o \in Resource /\ choice[d].owner = o),
                         !.lapsed = IF ~on /\ Concerns(d, o) THEN @ \cup {o} ELSE @]
<1>1. MasterTypeOK /\ choice[c] \in Choosing /\ \A d \in Choice : CheckedSoFar(d)
  BY ChoosingFields DEF WriteChoice, InFlight, MasterInv
<1>2. /\ refers' = [refers EXCEPT ![o] = Elems(choice[c].items)]
      /\ active' = IF o \in Resource THEN [active EXCEPT ![o] = on] ELSE active
      /\ choice' = [d \in Choice |-> IF d = c THEN [pc |-> "idle"]
                                     ELSE IF ~InFlight(d) THEN choice[d] ELSE told(d)]
      /\ UNCHANGED suppliers
  BY DEF WriteChoice, Elems
<1>3. ASSUME NEW d \in Choice, d # c, InFlight(d)
      PROVE  /\ choice[d] \in Choosing /\ choice'[d] \in Choosing
             /\ choice'[d].pc = choice[d].pc /\ choice'[d].owner = choice[d].owner
             /\ choice'[d].items = choice[d].items /\ choice'[d].left = choice[d].left
             /\ choice[d].moved => choice'[d].moved
             /\ o \in Resource /\ choice[d].owner = o => choice'[d].moved
             /\ choice[d].lapsed \subseteq choice'[d].lapsed
             /\ ~on /\ Concerns(d, o) /\ o \in Resource => o \in choice'[d].lapsed
  <2>1. choice[d] \in Choosing /\ choice'[d] = told(d)
    BY <1>1, <1>2, <1>3, ChoosingFields
  <2>2. Concerns(d, o) => o \in Item
    <3>1. choice[d].items \in Seq(Item)
      BY <2>1 DEF Choosing
    <3> QED
      BY <3>1 DEF Concerns
  <2> DEFINE m == choice[d].moved \/ (o \in Resource /\ choice[d].owner = o)
             l == IF ~on /\ Concerns(d, o) THEN choice[d].lapsed \cup {o} ELSE choice[d].lapsed
  <2>3. choice'[d] = [choice[d] EXCEPT !.moved = m, !.lapsed = l]
    BY <2>1
  <2>4. m \in BOOLEAN /\ l \in SUBSET Item
    BY <2>1, <2>2 DEF Choosing
  <2>5. /\ choice'[d] \in Choosing
        /\ choice'[d].pc = choice[d].pc /\ choice'[d].owner = choice[d].owner
        /\ choice'[d].items = choice[d].items /\ choice'[d].left = choice[d].left
        /\ choice'[d].moved = m /\ choice'[d].lapsed = l
    <3> HIDE DEF m, l
    <3> QED
      BY <2>1, <2>3, <2>4 DEF Choosing
  <2> QED
    BY <2>1, <2>5
<1>4. MasterTypeOK'
  <2>1. o \in Owner /\ Elems(choice[c].items) \in SUBSET Item
    BY <1>1 DEF Choosing, Elems
  <2>2. refers' \in [Owner -> SUBSET Item] /\ active' \in [Item -> BOOLEAN \cup {Absent}]
    BY <1>1, <1>2, <2>1 DEF MasterTypeOK, Item
  <2>3. [pc |-> "idle"] \in NoChoice
    BY DEF NoChoice
  <2>4. \A d \in Choice : choice'[d] \in NoChoice \cup Choosing
    BY <1>1, <1>2, <1>3, <2>3 DEF MasterTypeOK
  <2>5. choice' \in [Choice -> NoChoice \cup Choosing]
    BY <1>2, <2>4
  <2> QED
    BY <1>1, <1>2, <2>2, <2>5 DEF MasterTypeOK
<1>5. ASSUME NEW d \in Choice PROVE CheckedSoFar(d)'
  <2>1. CASE d = c
    BY <1>2, <2>1 DEF CheckedSoFar
  <2>2. CASE d # c /\ ~InFlight(d)
    BY <1>1, <1>2, <2>2, CheckedStays DEF InFlight
  <2>3. CASE d # c /\ InFlight(d)
    <3>1. choice[d].pc # "idle" /\ choice[d].owner \in Owner
      BY <1>3, <2>3 DEF InFlight, Choosing
    <3>2. choice[d].owner \in Resource =>
            choice'[d].moved \/ refers'[choice[d].owner] = refers[choice[d].owner]
      BY <1>1, <1>2, <1>3, <2>3, <3>1 DEF MasterTypeOK
    <3>3. ASSUME NEW j \in Elems(choice[d].items), Usable(j)
          PROVE  Usable(j)' \/ j \in choice'[d].lapsed
      <4>1. Concerns(d, j)
        BY <2>3, <3>3 DEF Concerns, Elems
      <4>2. CASE j = o /\ o \in Resource /\ ~on
        BY <1>3, <2>3, <4>1, <4>2
      <4>3. CASE ~(j = o /\ o \in Resource /\ ~on)
        <5>1. active'[j] = active[j] \/ active'[j] = TRUE
          <6>1. CASE o \in Resource
            <7>1. active' = [active EXCEPT ![o] = on] /\ active \in [Item -> BOOLEAN \cup {Absent}]
              BY <1>1, <1>2, <6>1 DEF MasterTypeOK
            <7>2. j \in Item
              BY <1>3, <2>3, <3>3 DEF Choosing, Elems
            <7> QED
              BY <4>3, <6>1, <7>1, <7>2
          <6>2. CASE o \notin Resource
            BY <1>2, <6>2
          <6> QED
            BY <6>1, <6>2
        <5> QED
          BY <1>2, <3>3, <5>1 DEF Usable
      <4> QED
        BY <4>2, <4>3
    <3> QED
      BY <1>1, <1>3, <2>3, <3>1, <3>2, <3>3, CheckedStays
  <2> QED
    BY <2>1, <2>2, <2>3
<1> QED
  BY <1>4, <1>5 DEF MasterInv

LEMMA MasterStepInv == MasterInv /\ [MasterNext]_masterVars => MasterInv'
<1> SUFFICES ASSUME MasterInv, [MasterNext]_masterVars PROVE MasterInv'
  OBVIOUS
<1>1. MasterTypeOK
  BY DEF MasterInv
<1>2. ASSUME NEW i \in Item PROVE Retired(i) \in [Choice -> NoChoice \cup Choosing]
  <2>1. ASSUME NEW c \in Choice, Concerns(c, i)
        PROVE  [choice[c] EXCEPT !.lapsed = @ \cup {i}] \in Choosing
    BY <1>1, <2>1, ChoosingFields DEF Concerns, Choosing
  <2> QED
    BY <1>1, <2>1 DEF Retired, MasterTypeOK
<1>3. ASSUME NEW i \in Item, NEW on \in BOOLEAN, NEW sells \in BOOLEAN, CreateItem(i, on, sells)
      PROVE  MasterInv'
  <2>1. MasterTypeOK'
    BY <1>1, <1>3 DEF CreateItem, MasterTypeOK, Item
  <2>2. UNCHANGED <<refers, choice>> /\ ~Present(i)
    BY <1>3 DEF CreateItem
  <2>3. \A j : j # i /\ Usable(j) => Usable(j)'
    BY <1>1, <1>3 DEF CreateItem, Usable, MasterTypeOK
  <2>4. Usable(i) => Usable(i)'
    BY <2>2, AbsentAssumption DEF Usable, Present
  <2> QED
    BY <2>1, <2>2, <2>3, <2>4, MasterRowsStep
<1>4. ASSUME NEW i \in Item, NEW on \in BOOLEAN, SetActiveItem(i, on)
      PROVE  MasterInv'
  <2>1. MasterTypeOK'
    BY <1>1, <1>2, <1>4 DEF SetActiveItem, MasterTypeOK
  <2>2. \A j : j # i /\ Usable(j) => Usable(j)'
    BY <1>1, <1>4 DEF SetActiveItem, Usable, MasterTypeOK
  <2>3. on => (Usable(i) => Usable(i)') /\ UNCHANGED choice
    BY <1>1, <1>4 DEF SetActiveItem, Usable, MasterTypeOK
  <2> QED
    BY <1>4, <2>1, <2>2, <2>3, MasterRowsStep DEF SetActiveItem
<1>5. ASSUME NEW p \in Partner, NEW sells \in BOOLEAN, NEW stay \in BOOLEAN,
             ReplaceRoles(p, sells, stay)
      PROVE  MasterInv'
  <2>1. MasterTypeOK' /\ p \in Item
    BY <1>1, <1>2, <1>5 DEF ReplaceRoles, MasterTypeOK, Item
  <2>2. \A j : j # p /\ Usable(j) => Usable(j)'
    BY <1>5 DEF ReplaceRoles, Usable
  <2>3. \/ (Usable(p) => Usable(p)') /\ UNCHANGED choice
        \/ choice' = Retired(p)
    BY <1>5 DEF ReplaceRoles, Usable
  <2> QED
    BY <1>5, <2>1, <2>2, <2>3, MasterRowsStep DEF ReplaceRoles
<1>6. ASSUME NEW c \in Choice, NEW r \in Resource, NEW k \in Category, ChooseCategory(c, r, k)
      PROVE  MasterInv'
  <2>1. <<k>> \in Seq(Item) /\ <<k>> # <<>> /\ Len(<<k>>) = 1 /\ r \in Owner
    BY DEF Item, Owner
  <2> QED
    BY <1>6, <2>1, MasterBeginInv DEF ChooseCategory
<1>7. ASSUME NEW c \in Choice, NEW d \in Document, NEW items \in Needs[d],
             RegisterDocument(c, d, items)
      PROVE  MasterInv'
  <2>1. items \in Seq(Item) /\ items # <<>> /\ d \in Owner
    BY NeedsAssumption DEF Owner
  <2> QED
    BY <1>7, <2>1, MasterBeginInv DEF RegisterDocument
<1>8. ASSUME NEW c \in Choice, AbortChoice(c)
      PROVE  MasterInv'
  BY <1>8, MasterIdleStep DEF AbortChoice
<1>9. CASE UNCHANGED masterVars
  <2>1. \A c \in Choice : CheckedSoFar(c) => CheckedSoFar(c)'
    BY <1>9 DEF masterVars, CheckedSoFar, Sound, Usable
  <2> QED
    BY <1>9, <2>1 DEF masterVars, MasterInv, MasterTypeOK
<1> QED
  BY <1>3, <1>4, <1>5, <1>6, <1>7, <1>8, <1>9, MasterFindInv, MasterCheckInv, MasterWriteInv
    DEF MasterNext

LEMMA MasterInvariance == MasterSpec => []MasterInv
  BY MasterInitInv, MasterStepInv, PTL DEF MasterSpec

(* Whatever is edited while requests run, what a document or resource newly refers to  *)
(* was usable when it was checked or when it was written.                            *)
THEOREM ChosenUsable == MasterSpec => NewlyChosenUsable
<1> DEFINE Chosen ==
      \A o \in Owner : \A i \in refers'[o] \ refers[o] :
        \/ Usable(i)
        \/ \E c \in Choice :
             /\ InFlight(c) /\ choice'[c].pc = "idle" /\ choice[c].owner = o
             /\ i \in choice[c].lapsed \/ choice[c].moved
<1>1. MasterInv /\ [MasterNext]_masterVars => [Chosen]_masterVars
  <2> SUFFICES ASSUME MasterInv, MasterNext, NEW o \in Owner, NEW i \in refers'[o] \ refers[o]
               PROVE  \/ Usable(i)
                      \/ \E c \in Choice :
                           /\ InFlight(c) /\ choice'[c].pc = "idle" /\ choice[c].owner = o
                           /\ i \in choice[c].lapsed \/ choice[c].moved
    OBVIOUS
  <2>1. PICK c \in Choice, on \in BOOLEAN : WriteChoice(c, on)
    BY DEF MasterNext, CreateItem, SetActiveItem, ReplaceRoles, ChooseCategory, RegisterDocument,
       Begin, FindResource, CheckItem, AbortChoice
  <2>2. /\ choice[c] \in Choosing /\ choice[c].pc = "write" /\ InFlight(c)
        /\ MasterTypeOK /\ CheckedSoFar(c)
    BY <2>1, ChoosingFields DEF WriteChoice, InFlight, MasterInv
  <2>3. choice[c].owner = o /\ i \in Elems(choice[c].items) /\ choice'[c].pc = "idle"
    BY <2>1, <2>2 DEF WriteChoice, MasterTypeOK, Elems
  <2> QED
    BY <2>2, <2>3 DEF CheckedSoFar, Sound
<1> QED
  BY <1>1, MasterInvariance, PTL DEF MasterSpec, NewlyChosenUsable
-----------------------------------------------------------------------------
(* All four over one set of variables. *)

(* A step of one part leaves the variables of the others alone, so that each       *)
(* keeps its own invariant and, with it, its types.                              *)
THEOREM AccountsTypes == AccountsSpec => []AccountsTypeOK
<1> DEFINE All == AdministrationInv /\ SessionsInv /\ AttemptsInv /\ MasterInv
<1>1. AccountsInit => All
  BY AdministrationInitInv, SessionsInitInv, AttemptsInitInv, MasterInitInv DEF AccountsInit
<1>2. All /\ [AccountsNext]_<<part, administrationVars, sessionVars, attemptVars, masterVars>>
        => All'
  BY AdministrationStepInv, SessionsStepInv, AttemptsStepInv, MasterStepInv DEF AccountsNext
<1>3. All => AccountsTypeOK
  BY DEF AdministrationInv, SessionsInv, AttemptsInv, MasterInv, AccountsTypeOK
<1> QED
  BY <1>1, <1>2, <1>3, PTL DEF AccountsSpec
=============================================================================
