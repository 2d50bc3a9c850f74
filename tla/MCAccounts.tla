----------------------------- MODULE MCAccounts -----------------------------
(***************************************************************************)
(* One instance for the four components about accounts and master data.  They   *)
(* share no variable here: a behaviour is one of one part, the others keep      *)
(* their initial values, so that the state spaces add and do not multiply.       *)
(***************************************************************************)
EXTENDS Administration, Sessions, LoginAttempts, MasterData, TLC

(* Requests and browsers are one set of values: one permutation serves all parts.      *)
CONSTANTS adm, wrk, n1, n2, ip, p1, r1, w1

VARIABLE part

MCSent ==
  LET ch(names, on, roles) == [names |-> names, active |-> on, roles |-> roles]
  IN {ch(FALSE, FALSE, {}), ch(FALSE, TRUE, {wrk}), ch(TRUE, TRUE, {adm, wrk}),
      ch(FALSE, None, {wrk})}

MCKeyLists == {<<n1, ip>>, <<n2, ip>>, <<n1>>}

MCNeeds == [delivery |-> {<<p1>>}, batch |-> {<<r1, w1>>}]

AccountsInit ==
  /\ part \in {"administration", "sessions", "attempts", "master"}
  /\ AdministrationInit
  /\ SessionsInit
  /\ AttemptsInit
  /\ MasterInit

AccountsNext ==
  \/ /\ part = "administration" /\ AdministrationNext
     /\ UNCHANGED <<part, sessionVars, attemptVars, masterVars>>
  \/ /\ part = "sessions" /\ SessionsNext
     /\ UNCHANGED <<part, administrationVars, attemptVars, masterVars>>
  \/ /\ part = "attempts" /\ AttemptsNext
     /\ UNCHANGED <<part, administrationVars, sessionVars, masterVars>>
  \/ /\ part = "master" /\ MasterNext
     /\ UNCHANGED <<part, administrationVars, sessionVars, attemptVars>>

AccountsSpec ==
  AccountsInit
    /\ [][AccountsNext]_<<part, administrationVars, sessionVars, attemptVars, masterVars>>

(* The variables of all four parts have values of their kind. *)
AccountsTypeOK ==
  /\ part = "administration" => AdministrationTypeOK
  /\ part = "sessions" => SessionsTypeOK
  /\ part = "attempts" => AttemptsTypeOK
  /\ part = "master" => MasterTypeOK

AccountsSymmetry ==
  Permutations(Update) \cup Permutations(User) \cup Permutations(Password) \cup Permutations(Category)
=============================================================================
