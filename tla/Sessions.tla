------------------------------ MODULE Sessions ------------------------------
(***************************************************************************)
(* Signing in, the guard every request passes, changing one's own password   *)
(* and its reset by an administrator: AuthService, AuthController, the        *)
(* JwtAuthGuard and UsersService.resetPassword.                              *)
(*                                                                         *)
(* A token is stateless; what revokes it is the version of the account it    *)
(* carries, which only a reset bumps.  A handler reads the account, hashes    *)
(* or verifies, and then signs or writes: a reset may come in between.        *)
(***************************************************************************)
EXTENDS Naturals

CONSTANTS
  Person,     \* accounts
  Browser,    \* browsers, each with one cookie and one call in flight
  Password,
  MaxVersion, \* bound: resets of one account
  NoToken

ASSUME VersionAssumption == MaxVersion \in Nat

(* "with" is history: the password the token was obtained with. *)
Token == [sub: Person, ver: 0 .. MaxVersion, with: Password]

ASSUME NoTokenAssumption == NoToken \notin Token

VARIABLES
  login,  \* User rows: active, passwordHash, tokenVersion
  cookie, \* the access token each browser holds
  call,   \* the call each browser has in flight
  earned  \* history: the passwords each account has had since its last reset

sessionVars == <<login, cookie, call, earned>>

-----------------------------------------------------------------------------
Row == [active: BOOLEAN, password: Password, version: 0 .. MaxVersion]

NoCall == [pc: {"idle"}]
SigningIn == [pc: {"login"}, user: Person, password: Password]
Verifying == [pc: {"verify"}, user: Person, password: Password, found: Row]
Guarded == [pc: {"guard", "profile"}, token: Token, current: Password, new: Password]
Hashing == [pc: {"write"}, token: Token, current: Password, new: Password, found: Row]

SessionsTypeOK ==
  /\ login \in [Person -> Row]
  /\ cookie \in [Browser -> Token \cup {NoToken}]
  /\ call \in [Browser -> NoCall \cup SigningIn \cup Verifying \cup Guarded \cup Hashing]
  /\ earned \in [Person -> SUBSET Password]

SessionsInit ==
  /\ login \in [Person -> [active: {TRUE}, password: Password, version: {0}]]
  /\ cookie = [b \in Browser |-> NoToken]
  /\ call = [b \in Browser |-> [pc |-> "idle"]]
  /\ earned = [u \in Person |-> {login[u].password}]

Calls(b, c) == call' = [call EXCEPT ![b] = c]
EndCall(b) == Calls(b, [pc |-> "idle"])

-----------------------------------------------------------------------------
(* POST /auth/login of a key that is not locked (LoginAttempts). *)
SendLogin(b, u, p) ==
  /\ call[b].pc = "idle"
  /\ Calls(b, [pc |-> "login", user |-> u, password |-> p])
  /\ UNCHANGED <<login, cookie, earned>>

ReadCredentials(b) ==
  /\ call[b].pc = "login"
  /\ LET q == call[b] IN
       IF login[q.user].active
       THEN Calls(b, [pc |-> "verify", user |-> q.user, password |-> q.password,
                      found |-> login[q.user]])
       ELSE EndCall(b)
  /\ UNCHANGED <<login, cookie, earned>>

(* Mutant: the version is read again when the token is signed. *)
SignedNow(q) == [sub |-> q.user, ver |-> login[q.user].version, with |-> q.password]

(* The claims come from the row the password was verified against. *)
Signed(q) == [sub |-> q.user, ver |-> q.found.version, with |-> q.password]

AnswerLogin(b) ==
  /\ call[b].pc = "verify"
  /\ IF call[b].password = call[b].found.password
     THEN cookie' = [cookie EXCEPT ![b] = Signed(call[b])]
     ELSE UNCHANGED cookie
  /\ EndCall(b)
  /\ UNCHANGED <<login, earned>>

(* POST /auth/logout, or the end of the cookie's maxAge.  The calls another tab of   *)
(* the browser has sent carry the token all the same.                             *)
Logout(b) ==
  /\ cookie' = [cookie EXCEPT ![b] = NoToken]
  /\ UNCHANGED <<login, call, earned>>

-----------------------------------------------------------------------------
(* PATCH /auth/me. *)
SendProfile(b, current, new) ==
  /\ call[b].pc = "idle"
  /\ cookie[b] # NoToken
  /\ Calls(b, [pc |-> "guard", token |-> cookie[b], current |-> current, new |-> new])
  /\ UNCHANGED <<login, cookie, earned>>

Accepted(token) == token.ver = login[token.sub].version

Guard(b) ==
  /\ call[b].pc = "guard"
  /\ IF Accepted(call[b].token) THEN Calls(b, [call[b] EXCEPT !.pc = "profile"]) ELSE EndCall(b)
  /\ UNCHANGED <<login, cookie, earned>>

ReadProfile(b) ==
  /\ call[b].pc = "profile"
  /\ LET q == call[b]
         row == login[q.token.sub]
     IN IF row.active
        THEN Calls(b, [pc |-> "write", token |-> q.token, current |-> q.current,
                       new |-> q.new, found |-> row])
        ELSE EndCall(b)
  /\ UNCHANGED <<login, cookie, earned>>

(* Mutant: the whole row is written back, as an entity is saved. *)
ProfileSaved(q) == [q.found EXCEPT !.password = q.new]

(* The update names the hash alone. *)
ProfileWritten(q) == [login[q.token.sub] EXCEPT !.password = q.new]

(* The current password is checked against the row that was read. *)
WriteProfile(b) ==
  /\ call[b].pc = "write"
  /\ LET q == call[b] IN
       IF q.current = q.found.password
       THEN /\ login' = [login EXCEPT ![q.token.sub] = ProfileWritten(q)]
            /\ earned' = [earned EXCEPT ![q.token.sub] = @ \cup {q.new}]
       ELSE UNCHANGED <<login, earned>>
  /\ EndCall(b)
  /\ UNCHANGED cookie

AbortCall(b) ==
  /\ call[b].pc # "idle"
  /\ EndCall(b)
  /\ UNCHANGED <<login, cookie, earned>>

-----------------------------------------------------------------------------
(* PATCH /users/:id/password: the update increments the version in place. *)
ResetPassword(u, p) ==
  /\ login[u].version < MaxVersion
  /\ login' = [login EXCEPT ![u] = [login[u] EXCEPT !.password = p, !.version = @ + 1]]
  /\ earned' = [earned EXCEPT ![u] = {p}]
  /\ UNCHANGED <<cookie, call>>

(* The other writer of the rows: Administration!CommitUpdate. *)
SetActive(u, active) ==
  /\ login' = [login EXCEPT ![u].active = active]
  /\ UNCHANGED <<cookie, call, earned>>

SessionsNext ==
  \/ \E b \in Browser :
       \/ \E u \in Person, p \in Password : SendLogin(b, u, p)
       \/ ReadCredentials(b)
       \/ AnswerLogin(b)
       \/ Logout(b)
       \/ \E current, new \in Password : SendProfile(b, current, new)
       \/ Guard(b)
       \/ ReadProfile(b)
       \/ WriteProfile(b)
       \/ AbortCall(b)
  \/ \E u \in Person :
       \/ \E p \in Password : ResetPassword(u, p)
       \/ \E active \in BOOLEAN : SetActive(u, active)

SessionsSpec == SessionsInit /\ [][SessionsNext]_sessionVars

-----------------------------------------------------------------------------
(* A reset ends every session there was: a token the guard accepts was obtained    *)
(* with a password the account has had since its last reset, although a login or a *)
(* profile update may have read the account before the reset and ended after it.    *)
ResetEndsSessions ==
  \A b \in Browser :
    \A token \in ({cookie[b]} \ {NoToken})
                   \cup (IF call[b].pc = "guard" THEN {call[b].token} ELSE {}) :
      Accepted(token) => token.with \in earned[token.sub]
=============================================================================
