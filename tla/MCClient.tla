------------------------------ MODULE MCClient ------------------------------
(***************************************************************************)
(* One instance for the six components of the browser.  They share no variable:   *)
(* a behaviour is one of one part and the others keep their initial values, one    *)
(* value each where there are several, so that the state spaces add and do not      *)
(* multiply.                                                                      *)
(***************************************************************************)
EXTENDS ReceivingScreen, ConfirmScreen, SettlementScreen, UsersScreen,
  CatalogScreen, SessionClient, TLC

CONSTANTS b1, b2, u1, u2, l1, r1, i1

VARIABLE part

clientPartVars ==
  <<part, screenVars, confirmVars, settlementScreenVars, usersScreenVars,
    catalogVars, clientVars>>

MCBatchOf == (u1 :> b1) @@ (u2 :> b2)
MCCovers == [p \in Payment |-> p]

MCInit ==
  /\ part \in {"receiving", "confirm", "settlement", "users", "catalog", "session"}
  /\ ScreenInit
  /\ ConfirmInit
  /\ PayInit
  /\ UsersInit
  /\ CatalogInit
  /\ ClientInit
  /\ part # "confirm" => stock = 0
  /\ rows[l1] # NoRow  \* the users are alike
  /\ part # "catalog" => view = "types" /\ held = [e \in Entry |-> Missing]
  /\ part # "session" => jar = Nobody

MCNext ==
  \/ /\ part = "receiving" /\ ScreenNext
     /\ UNCHANGED <<part, confirmVars, settlementScreenVars, usersScreenVars, catalogVars,
                    clientVars>>
  \/ /\ part = "confirm" /\ ConfirmNext
     /\ UNCHANGED <<part, screenVars, settlementScreenVars, usersScreenVars, catalogVars,
                    clientVars>>
  \/ /\ part = "settlement" /\ PayNext
     /\ UNCHANGED <<part, screenVars, confirmVars, usersScreenVars, catalogVars, clientVars>>
  \/ /\ part = "users" /\ UsersNext
     /\ UNCHANGED <<part, screenVars, confirmVars, settlementScreenVars, catalogVars, clientVars>>
  \/ /\ part = "catalog" /\ CatalogNext
     /\ UNCHANGED <<part, screenVars, confirmVars, settlementScreenVars, usersScreenVars,
                    clientVars>>
  \/ /\ part = "session" /\ ClientNext
     /\ UNCHANGED <<part, screenVars, confirmVars, settlementScreenVars, usersScreenVars,
                    catalogVars>>

MCSpec == MCInit /\ [][MCNext]_clientPartVars

(* What these histories have granted they grant for good. *)
MCBound == ~displaced /\ missed = {}

(* The two batches are alike, each with its package; so are the administrators and the titles. *)
MCSwap ==
  [x \in {b1, b2, u1, u2} |->
     CASE x = b1 -> b2 [] x = b2 -> b1 [] x = u1 -> u2 [] x = u2 -> u1]
MCSymmetry == {MCSwap, [x \in {b1, b2, u1, u2} |-> x]}
  \cup Permutations(Clerk) \cup Permutations(Title)
=============================================================================
