---------------------------- MODULE ClientProofs ----------------------------
(***************************************************************************)
(* Proofs about SettlementScreen, SessionClient, ConfirmScreen, ReceivingScreen *)
(* and UsersScreen, for any number of administrators, payments, accounts,       *)
(* packages, handlers and users and any weights.                             *)
(***************************************************************************)
EXTENDS SettlementScreen, SessionClient, ConfirmScreen, ReceivingScreen, UsersScreen, TLAPS

(* The payment a page is sending. *)
Pays(a, p) == paying[a].pc \in {"post", "stored"} /\ paying[a].payment = p

PayTypeOK ==
  /\ entered \in [Payment -> Nat]
  /\ payPage \in [Payer -> [shown: Nat \cup {Blank}, draft: Payment \cup {Blank}]]
  /\ paying \in [Payer -> [pc: {"idle", "load"}] \cup [pc: {"loaded"}, balance: Nat]
                            \cup [pc: {"post", "stored"}, payment: Payment]]
  /\ owed \in Nat

(* A payment is in one form, and is sent by one page: the one whose form it is in, if   *)
(* it has been entered already; what was stored and not reported as failed is not sent. *)
PayInv ==
  /\ PayTypeOK
  /\ \A a, b \in Payer : payPage[a].draft \in Payment /\ payPage[a].draft = payPage[b].draft => a = b
  /\ \A a, b \in Payer, p \in Payment : Pays(a, p) /\ Pays(b, p) => a = b
  /\ \A a \in Payer, p \in Payment : Pays(a, p) => p \in taken
  /\ \A a \in Payer : payPage[a].draft \in taken => Pays(a, payPage[a].draft)
  /\ \A p \in Payment \ misled :
       /\ entered[p] > 0 => p \in taken
       /\ \A a \in Payer : Pays(a, p) /\ paying[a].pc = "post" => entered[p] = 0
  /\ SettledOnce
  /\ taken \subseteq Payment

LEMMA PayInitInv == PayInit => PayInv
<1> SUFFICES ASSUME PayInit PROVE PayInv
  OBVIOUS
<1>1. PayTypeOK
  BY OwedAssumption DEF PayInit, PayTypeOK
<1> QED
  BY <1>1, BlankAssumption DEF PayInit, PayInv, Pays, SettledOnce

(* A step that moves one page on without storing anything keeps the invariant when what *)
(* the page sends then is what it sent.                                            *)
LEMMA PageStep ==
  ASSUME PayInv, NEW a \in Payer,
         UNCHANGED <<owed, entered, taken, misled>>,
         NEW sheet \in [shown: Nat \cup {Blank}, draft: Payment \cup {Blank}],
         NEW c \in [pc: {"idle", "load"}] \cup [pc: {"loaded"}, balance: Nat]
                     \cup [pc: {"post", "stored"}, payment: Payment],
         payPage' = [payPage EXCEPT ![a] = sheet],
         paying' = [paying EXCEPT ![a] = c],
         \/ c = paying[a]
         \/ c.pc \in {"idle", "load", "loaded"} /\ sheet.draft \notin taken,
         \/ sheet.draft \in {payPage[a].draft, Blank}
         \/ sheet.draft \notin taken /\ \A b \in Payer \ {a} : payPage[b].draft # sheet.draft
  PROVE  PayInv'
<1> USE DEF PayInv
<1>1. PayTypeOK'
  BY DEF PayTypeOK
<1>2. /\ payPage'[a] = sheet /\ paying'[a] = c
      /\ \A b \in Payer : b # a => payPage'[b] = payPage[b] /\ paying'[b] = paying[b]
  BY DEF PayTypeOK
<1>3. \A b \in Payer, p \in Payment : Pays(b, p)' => Pays(b, p) /\ paying'[b] = paying[b]
  BY <1>2 DEF Pays
<1>4. Blank \notin taken
  BY BlankAssumption
<1>5. \A b \in Payer : payPage'[b].draft \in taken => Pays(b, payPage[b].draft)'
  BY <1>2, <1>4 DEF Pays
<1>6. \A b, d \in Payer : payPage'[b].draft \in Payment /\ payPage'[b].draft = payPage'[d].draft => b = d
  BY <1>2, BlankAssumption
<1> QED
  BY <1>1, <1>3, <1>5, <1>6 DEF SettledOnce, Pays

LEMMA SubmitSettlementInv ==
  ASSUME PayInv, NEW a \in Payer, SubmitSettlement(a)
  PROVE  PayInv'
<1> USE DEF PayInv
<1> DEFINE p == payPage[a].draft
           c == [pc |-> "post", payment |-> p]
<1>1. p \in Payment /\ ~Pays(a, p)
  BY DEF SubmitSettlement, FormAccepted, Free, Pays, PayTypeOK
<1>2. p \notin taken /\ \A b \in Payer : ~Pays(b, p)
  BY <1>1
<1>3. /\ paying'[a] = c
      /\ \A b \in Payer : b # a => paying'[b] = paying[b]
      /\ taken' = taken \cup {p}
      /\ UNCHANGED <<owed, entered, payPage, misled>>
  BY DEF SubmitSettlement, FormAccepted, PayCall, PayTypeOK
<1>4. PayTypeOK'
  BY <1>1, <1>3 DEF PayTypeOK, SubmitSettlement, FormAccepted, PayCall
<1>5. p \in misled \/ entered[p] = 0
  BY <1>1, <1>2 DEF PayTypeOK
<1>6. \A b \in Payer, r \in Payment : Pays(b, r)' <=> IF b = a THEN r = p ELSE Pays(b, r)
  BY <1>3 DEF Pays
<1>7. \A b \in Payer : payPage[b].draft = p => b = a
  BY <1>1
<1>8. /\ \A b, d \in Payer, r \in Payment : Pays(b, r)' /\ Pays(d, r)' => b = d
      /\ \A b \in Payer, r \in Payment : Pays(b, r)' => r \in taken'
  BY <1>2, <1>3, <1>6
<1>9. ASSUME NEW b \in Payer, payPage'[b].draft \in taken'
      PROVE  Pays(b, payPage[b].draft)'
  <2>1. CASE b = a
    BY <1>3, <2>1 DEF Pays
  <2>2. CASE b # a
    <3>1. payPage[b].draft \in taken
      BY <1>3, <1>7, <1>9, <2>2
    <3> QED
      BY <1>3, <2>2, <3>1 DEF Pays
  <2> QED
    BY <2>1, <2>2
<1>10. \A r \in Payment \ misled :
         /\ entered[r] > 0 => r \in taken'
         /\ \A b \in Payer : Pays(b, r)' /\ paying'[b].pc = "post" => entered[r] = 0
  BY <1>3, <1>5, <1>6
<1> QED
  BY <1>1, <1>3, <1>4, <1>8, <1>9, <1>10 DEF SettledOnce

LEMMA StoreSettlementInv ==
  ASSUME PayInv, NEW a \in Payer, StoreSettlement(a)
  PROVE  PayInv'
<1> USE DEF PayInv
<1> DEFINE p == paying[a].payment
<1>1. p \in Payment /\ Pays(a, p) /\ paying[a].pc = "post"
  BY DEF StoreSettlement, Pays, PayTypeOK
<1>2. /\ paying'[a] = [pc |-> "stored", payment |-> p]
      /\ \A b \in Payer : b # a => paying'[b] = paying[b]
      /\ entered'[p] = entered[p] + 1
      /\ \A r \in Payment : r # p => entered'[r] = entered[r]
      /\ UNCHANGED <<payPage, taken, misled>>
  BY <1>1 DEF StoreSettlement, PayCall, PayTypeOK
<1>3. PayTypeOK'
  <2>1. Covers[p] \in Nat /\ Covers[p] <= owed /\ owed \in Nat
    BY <1>1, CoversAssumption DEF StoreSettlement, PayTypeOK
  <2>2. owed' \in Nat
    BY <2>1 DEF StoreSettlement
  <2> QED
    BY <1>1, <1>2, <2>2 DEF PayTypeOK, StoreSettlement, PayCall
<1>4. \A b \in Payer, r \in Payment : Pays(b, r)' <=> Pays(b, r)
  BY <1>1, <1>2 DEF Pays
<1>5. p \in misled \/ entered[p] = 0
  BY <1>1
<1>6. ASSUME NEW b \in Payer, payPage'[b].draft \in taken'
      PROVE  Pays(b, payPage[b].draft)'
  BY <1>1, <1>2, <1>6 DEF Pays
<1>7. ASSUME NEW r \in Payment \ misled
      PROVE  /\ entered'[r] > 0 => r \in taken
             /\ \A b \in Payer : Pays(b, r)' /\ paying'[b].pc = "post" => entered'[r] = 0
             /\ entered'[r] <= 1
  <2>1. CASE r = p
    BY <1>1, <1>2, <1>4, <1>5, <2>1
  <2>2. CASE r # p
    BY <1>1, <1>2, <1>4, <2>2 DEF SettledOnce, Pays
  <2> QED
    BY <2>1, <2>2
<1> QED
  BY <1>2, <1>3, <1>4, <1>6, <1>7 DEF SettledOnce

LEMMA FailSettlementInv ==
  ASSUME PayInv, NEW a \in Payer, FailSettlement(a)
  PROVE  PayInv'
<1> USE DEF PayInv
<1> DEFINE p == paying[a].payment
<1>1. p \in Payment /\ Pays(a, p)
  BY DEF FailSettlement, Pays, PayTypeOK
<1>2. /\ paying'[a] = [pc |-> "idle"]
      /\ \A b \in Payer : b # a => paying'[b] = paying[b]
      /\ taken' = taken \ {p}
      /\ misled' = IF paying[a].pc = "stored" THEN misled \cup {p} ELSE misled
      /\ UNCHANGED <<owed, entered, payPage>>
  BY <1>1 DEF FailSettlement, PayCall, PayTypeOK
<1>3. PayTypeOK'
  BY <1>1, <1>2 DEF PayTypeOK, FailSettlement, PayCall
<1>4. \A b \in Payer, r \in Payment : Pays(b, r)' => b # a /\ r # p /\ Pays(b, r)
  BY <1>1, <1>2 DEF Pays
<1>5. ASSUME NEW b \in Payer, payPage'[b].draft \in taken'
      PROVE  Pays(b, payPage[b].draft)'
  <2>1. Pays(b, payPage[b].draft) /\ payPage[b].draft # p
    BY <1>2, <1>5
  <2>2. b # a
    BY <1>1, <2>1 DEF Pays
  <2> QED
    BY <1>2, <2>1, <2>2 DEF Pays
<1>6. ASSUME NEW r \in Payment \ misled'
      PROVE  /\ entered'[r] > 0 => r \in taken'
             /\ \A b \in Payer : Pays(b, r)' /\ paying'[b].pc = "post" => entered'[r] = 0
             /\ entered'[r] <= 1
  <2>1. r = p => paying[a].pc = "post" /\ entered[r] = 0
    BY <1>1, <1>2, <1>6 DEF Pays
  <2> QED
    BY <1>2, <1>4, <1>6, <2>1 DEF SettledOnce, PayTypeOK
<1> QED
  BY <1>2, <1>3, <1>4, <1>5, <1>6 DEF SettledOnce

LEMMA PayStepInv == PayInv /\ [PayNext]_settlementScreenVars => PayInv'
<1> SUFFICES ASSUME PayInv, [PayNext]_settlementScreenVars PROVE PayInv'
  OBVIOUS
<1> USE DEF PayInv
<1>1. ASSUME NEW a \in Payer
      PROVE  /\ payPage[a] \in [shown: Nat \cup {Blank}, draft: Payment \cup {Blank}]
             /\ [payPage[a] EXCEPT !.draft = Blank] \in [shown: Nat \cup {Blank}, draft: Payment \cup {Blank}]
             /\ payPage[a].draft \in Payment \cup {Blank}
             /\ payPage' = payPage => payPage' = [payPage EXCEPT ![a] = payPage[a]]
             /\ paying[a].pc \in {"idle", "load", "loaded"} => payPage[a].draft \notin taken
             /\ Blank \notin taken
  BY BlankAssumption DEF PayTypeOK, Pays
<1>2. ASSUME NEW a \in Payer, ReadBalance(a) PROVE PayInv'
  <2>1. [pc |-> "loaded", balance |-> owed] \in [pc: {"loaded"}, balance: Nat]
    BY DEF PayTypeOK
  <2> QED
    BY <1>1, <1>2, <2>1, PageStep DEF ReadBalance, PayCall
<1>3. ASSUME NEW a \in Payer, ShowBalance(a) PROVE PayInv'
  <2> DEFINE page1 == [payPage[a] EXCEPT !.shown = paying[a].balance]
  <2>1. /\ page1 \in [shown: Nat \cup {Blank}, draft: Payment \cup {Blank}]
        /\ page1.draft = payPage[a].draft
    BY <1>1, <1>3 DEF ShowBalance, PayTypeOK
  <2>2. payPage' = [payPage EXCEPT ![a] = page1]
    BY <1>3 DEF ShowBalance
  <2>3. /\ paying' = [paying EXCEPT ![a] = [pc |-> "idle"]]
        /\ UNCHANGED <<owed, entered, taken, misled>>
        /\ page1.draft \notin taken
    BY <1>1, <1>3, <2>1 DEF ShowBalance, PayCall
  <2> HIDE DEF page1
  <2> QED
    BY <2>1, <2>2, <2>3, PageStep
<1>4. ASSUME NEW a \in Payer, FailLoad(a) PROVE PayInv'
  BY <1>1, <1>4, PageStep DEF FailLoad, PayCall
<1>5. ASSUME NEW a \in Payer, ReopenDiscrepancy(a) PROVE PayInv'
  BY <1>1, <1>5, PageStep DEF ReopenDiscrepancy, PayCall, Free
<1>6. ASSUME NEW a \in Payer, NEW p \in Payment, EnterPayment(a, p) PROVE PayInv'
  <2> DEFINE page1 == [payPage[a] EXCEPT !.draft = p]
  <2>1. page1 \in [shown: Nat \cup {Blank}, draft: Payment \cup {Blank}] /\ page1.draft = p
    BY <1>1
  <2>2. payPage' = [payPage EXCEPT ![a] = page1] /\ paying' = [paying EXCEPT ![a] = paying[a]]
    BY <1>6 DEF EnterPayment, PayTypeOK
  <2>3. paying[a] \in [pc: {"idle", "load"}] \cup [pc: {"loaded"}, balance: Nat]
                        \cup [pc: {"post", "stored"}, payment: Payment]
    BY DEF PayTypeOK
  <2>4. /\ UNCHANGED <<owed, entered, taken, misled>>
        /\ p \notin taken /\ \A b \in Payer \ {a} : payPage[b].draft # p
    BY <1>6 DEF EnterPayment
  <2> HIDE DEF page1
  <2> QED
    BY <2>1, <2>2, <2>3, <2>4, PageStep
<1>7. ASSUME NEW a \in Payer, AnswerSettlement(a) PROVE PayInv'
  <2> DEFINE page1 == [payPage[a] EXCEPT !.draft = Blank]
  <2>1. page1.draft = Blank
    BY <1>1
  <2>2. payPage' = [payPage EXCEPT ![a] = page1]
    BY <1>7 DEF AnswerSettlement
  <2>3. /\ paying' = [paying EXCEPT ![a] = [pc |-> "load"]]
        /\ UNCHANGED <<owed, entered, taken, misled>>
        /\ page1 \in [shown: Nat \cup {Blank}, draft: Payment \cup {Blank}]
        /\ page1.draft \notin taken
    BY <1>1, <1>7, <2>1 DEF AnswerSettlement, PayCall
  <2> HIDE DEF page1
  <2> QED
    BY <2>1, <2>2, <2>3, PageStep
<1>8. CASE UNCHANGED settlementScreenVars
  BY <1>8 DEF settlementScreenVars, PayTypeOK, Pays, SettledOnce
<1> QED
  BY <1>2, <1>3, <1>4, <1>5, <1>6, <1>7, <1>8, SubmitSettlementInv, StoreSettlementInv,
     FailSettlementInv DEF PayNext

LEMMA PayInvariance == PaySpec => []PayInv
  BY PayInitInv, PayStepInv, PTL DEF PaySpec

(* However many administrators enter settlements on pages that show old balances, a    *)
(* payment is entered twice only if a settlement that was stored was reported as failed. *)
THEOREM EnteredOnce == PaySpec => []SettledOnce
<1>1. PayInv => SettledOnce
  BY DEF PayInv
<1> QED
  BY <1>1, PayInvariance, PTL

-----------------------------------------------------------------------------
(* A call in flight. *)
Visit == [pc: {"sent", "headers"}, who: Somebody \cup {Nobody}, old: BOOLEAN, lapsed: BOOLEAN]

ClientTypeOK ==
  /\ jar \in Somebody \cup {Nobody}
  /\ user \in Somebody \cup {Nobody}
  /\ visit \in [CallKind -> [pc: {"idle"}] \cup Visit]
  /\ expired \in BOOLEAN

(* A call whose answer no login or logout has crossed; its answer is for the cookie      *)
(* there is, or for the one that has run out.                                       *)
Current(k) ==
  /\ visit[k].pc = (IF k \in {"load", "profile"} THEN "sent" ELSE "headers")
  /\ ~visit[k].old

Promised(k) == IF k = "logout" THEN Nobody ELSE visit[k].who

(* The inductive invariant: an answer that will come makes up for the difference. *)
SessionInv ==
  /\ ClientTypeOK
  /\ \A k \in CallKind : Current(k) =>
       IF visit[k].lapsed THEN jar = Nobody ELSE jar = Promised(k)
  /\ \/ crossed
     \/ expired
     \/ user = jar
     \/ \E k \in {"load", "login", "logout"} : Current(k)

LEMMA MountedType ==
  ASSUME NEW cookie \in Somebody \cup {Nobody}
  PROVE  Mounted(cookie) \in [CallKind -> [pc: {"idle"}] \cup Visit]
<1>1. NotCalling \in [pc: {"idle"}]
  BY DEF NotCalling
<1>2. Sending(cookie) \in Visit
  BY DEF Sending, Visit
<1> QED
  BY <1>1, <1>2 DEF Mounted

LEMMA SessionInitInv == ClientInit => SessionInv
<1> SUFFICES ASSUME ClientInit PROVE SessionInv
  OBVIOUS
<1>1. jar \in Somebody \cup {Nobody} /\ user = Nobody /\ visit = Mounted(jar) /\ ~crossed /\ ~expired
  BY DEF ClientInit
<1>2. ClientTypeOK
  BY <1>1, MountedType DEF ClientTypeOK, ClientInit
<1>3. \A k \in CallKind : Current(k) => jar = Promised(k) /\ ~visit[k].lapsed
  BY <1>1 DEF Current, Promised, Mounted, Sending, NotCalling, CallKind
<1>4. Current("load")
  BY <1>1 DEF Current, Mounted, Sending, CallKind
<1> QED
  BY <1>2, <1>3, <1>4 DEF SessionInv

(* A new call belongs to the cookie there is. *)
LEMMA CallInv ==
  ASSUME SessionInv, NEW k \in CallKind, NEW who \in Somebody \cup {Nobody}, Call(k, who),
         k \in {"login", "logout"} \/ who = jar
  PROVE  SessionInv'
<1> USE DEF SessionInv
<1>1. Sending(who) \in Visit /\ visit[k].pc = "idle"
  BY DEF Sending, Visit, Call
<1>2. /\ visit'[k] = Sending(who)
      /\ \A j \in CallKind : j # k => visit'[j] = visit[j]
      /\ UNCHANGED <<jar, user, expired, crossed>>
  BY DEF Call, ClientTypeOK
<1>3. ClientTypeOK'
  BY <1>1, <1>2 DEF ClientTypeOK, Call
<1>4. \A j \in CallKind : j # k => (Current(j)' <=> Current(j)) /\ Promised(j)' = Promised(j)
  BY <1>2 DEF Current, Promised
<1>5. ~Current(k)
  BY <1>1 DEF Current
<1>6. Current(k)' => jar = Promised(k)' /\ ~visit'[k].lapsed
  BY <1>2 DEF Current, Promised, Sending
<1>7. \A j \in CallKind : Current(j)' =>
        IF visit'[j].lapsed THEN jar = Nobody ELSE jar = Promised(j)'
  BY <1>2, <1>4, <1>6
<1>8. \A j \in {"load", "login", "logout"} : Current(j) => Current(j)'
  BY <1>4, <1>5 DEF CallKind
<1> QED
  BY <1>2, <1>3, <1>7, <1>8

(* The calls that a login or logout crosses are no longer current, it is. *)
LEMMA SetCookieInv ==
  ASSUME SessionInv, NEW k \in CallKind, SetCookie(k)
  PROVE  SessionInv'
<1> USE DEF SessionInv
<1>1. visit[k] \in Visit /\ k \in {"login", "logout"}
  BY DEF SetCookie, ClientTypeOK
<1>2. /\ visit'[k] = [visit[k] EXCEPT !.pc = "headers", !.old = FALSE, !.lapsed = FALSE]
      /\ jar' = IF k = "login" THEN visit[k].who ELSE Nobody
  BY DEF SetCookie
<1>3. Current(k)' /\ jar' = Promised(k)' /\ ~visit'[k].lapsed /\ visit'[k] \in Visit
  BY <1>1, <1>2 DEF Current, Promised, Visit
<1>4. ASSUME NEW j \in CallKind, j # k
      PROVE  visit'[j] \in [pc: {"idle"}] \cup Visit /\ ~Current(j)'
  <2>1. visit'[j] = IF visit[j].pc = "idle" THEN visit[j] ELSE [visit[j] EXCEPT !.old = TRUE]
    BY <1>4 DEF SetCookie
  <2>2. visit[j] \in [pc: {"idle"}] \cup Visit
    BY DEF ClientTypeOK
  <2> QED
    BY <2>1, <2>2 DEF Current, Visit
<1>5. ClientTypeOK'
  <2>1. visit' \in [CallKind -> [pc: {"idle"}] \cup Visit]
    BY <1>3, <1>4 DEF SetCookie
  <2> QED
    BY <1>1, <1>2, <2>1 DEF ClientTypeOK, SetCookie, Visit
<1> QED
  BY <1>1, <1>3, <1>4, <1>5

(* Once the cookie has run out nobody is what the API would say. *)
LEMMA ExpireInv ==
  ASSUME SessionInv, ExpireCookie
  PROVE  SessionInv'
<1> USE DEF SessionInv
<1>1. ASSUME NEW j \in CallKind
      PROVE  visit'[j] \in [pc: {"idle"}] \cup Visit /\ (Current(j)' => visit'[j].lapsed)
  <2>1. visit'[j] = IF visit[j].pc = "idle" THEN visit[j] ELSE [visit[j] EXCEPT !.lapsed = TRUE]
    BY DEF ExpireCookie
  <2>2. visit[j] \in [pc: {"idle"}] \cup Visit
    BY DEF ClientTypeOK
  <2> QED
    BY <2>1, <2>2 DEF Current, Visit
<1>2. visit' \in [CallKind -> [pc: {"idle"}] \cup Visit]
  BY <1>1 DEF ExpireCookie
<1> QED
  BY <1>1, <1>2 DEF ClientTypeOK, ExpireCookie

(* A call that ends leaves the others as they are. *)
LEMMA EndedCall ==
  ASSUME SessionInv, NEW k \in CallKind, UNCHANGED jar,
         visit' = [visit EXCEPT ![k] = NotCalling],
         user' \in Somebody \cup {Nobody}, expired' \in BOOLEAN,
         crossed' \/ expired' \/ user' = jar
           \/ \E j \in {"load", "login", "logout"} : j # k /\ Current(j)
  PROVE  SessionInv'
<1> USE DEF SessionInv
<1>1. /\ visit'[k] = NotCalling
      /\ \A j \in CallKind : j # k => visit'[j] = visit[j]
  BY DEF ClientTypeOK
<1>2. ClientTypeOK'
  BY DEF ClientTypeOK, NotCalling
<1>3. /\ ~Current(k)'
      /\ \A j \in CallKind : j # k => (Current(j)' <=> Current(j)) /\ Promised(j)' = Promised(j)
  BY <1>1 DEF Current, Promised, NotCalling
<1> QED
  BY <1>1, <1>2, <1>3 DEF CallKind

LEMMA SessionStepInv == SessionInv /\ [ClientNext]_clientVars => SessionInv'
<1> SUFFICES ASSUME SessionInv, [ClientNext]_clientVars PROVE SessionInv'
  OBVIOUS
<1> USE DEF SessionInv
<1>1. ClientTypeOK /\ CallKind = {"load", "login", "logout", "profile"}
  BY DEF CallKind
<1>2. CASE ReloadPage
  <2>1. visit' = Mounted(jar) /\ user' = Nobody /\ UNCHANGED jar /\ ~crossed' /\ ~expired'
    BY <1>2 DEF ReloadPage
  <2>2. ClientTypeOK'
    <3>1. visit' \in [CallKind -> [pc: {"idle"}] \cup Visit]
      BY <1>1, <2>1, MountedType DEF ClientTypeOK
    <3>2. expired' = FALSE
      BY <1>2 DEF ReloadPage
    <3> QED
      BY <1>1, <2>1, <3>1, <3>2 DEF ClientTypeOK
  <2>3. \A k \in CallKind : Current(k)' => jar' = Promised(k)' /\ ~visit'[k].lapsed
    BY <1>1, <2>1 DEF Current, Promised, Mounted, Sending, NotCalling
  <2>4. Current("load")'
    BY <1>1, <2>1 DEF Current, Mounted, Sending
  <2> QED
    BY <2>2, <2>3, <2>4
<1>3. ASSUME NEW who \in Somebody, SubmitLogin(who) PROVE SessionInv'
  BY <1>1, <1>3, CallInv DEF SubmitLogin
<1>4. CASE RequestLogout
  BY <1>1, <1>4, CallInv DEF RequestLogout, ClientTypeOK
<1>5. CASE SaveProfile
  BY <1>1, <1>5, CallInv DEF SaveProfile, ClientTypeOK
<1>6. ASSUME NEW k \in CallKind, AnswerWhoami(k) PROVE SessionInv'
  <2>1. /\ visit[k] \in Visit /\ visit[k].pc = "sent" /\ k \in {"load", "profile"}
        /\ user' = visit[k].who
        /\ crossed' = visit[k].old
        /\ expired' = (visit[k].who # Nobody /\ (expired \/ visit[k].lapsed))
        /\ visit' = [visit EXCEPT ![k] = NotCalling]
        /\ UNCHANGED jar
    BY <1>1, <1>6 DEF AnswerWhoami, UserAfter, ClientTypeOK
  <2>2. user' \in Somebody \cup {Nobody} /\ expired' \in BOOLEAN
    BY <1>1, <2>1 DEF Visit, ClientTypeOK
  <2>3. CASE crossed'
    BY <2>1, <2>2, <2>3, EndedCall
  <2>4. CASE ~crossed'
    <3>1. Current(k) /\ Promised(k) = visit[k].who
      BY <2>1, <2>4 DEF Current, Promised
    <3>2. IF visit[k].lapsed THEN jar = Nobody ELSE jar = visit[k].who
      BY <2>1, <2>4, <3>1
    <3>3. expired' \/ user' = jar
      BY <2>1, <3>2
    <3> QED
      BY <2>1, <2>2, <3>3, EndedCall
  <2> QED
    BY <2>3, <2>4
<1>7. CASE AnswerSignIn
  <2>1. /\ visit["login"] \in Visit /\ visit["login"].pc = "headers"
        /\ user' = visit["login"].who
        /\ crossed' = visit["login"].old
        /\ expired' = (expired \/ visit["login"].lapsed)
        /\ visit' = [visit EXCEPT !["login"] = NotCalling]
        /\ UNCHANGED jar
    BY <1>1, <1>7 DEF AnswerSignIn, UserAfter, ClientTypeOK
  <2>2. user' \in Somebody \cup {Nobody} /\ expired' \in BOOLEAN
    BY <1>1, <2>1 DEF Visit, ClientTypeOK
  <2>3. ~crossed' => Current("login") /\ Promised("login") = visit["login"].who
    BY <2>1 DEF Current, Promised
  <2>4. crossed' \/ expired' \/ user' = jar
    BY <1>1, <2>1, <2>3
  <2> QED
    BY <1>1, <2>1, <2>2, <2>4, EndedCall
<1>8. CASE AnswerLogout
  <2>1. /\ user' = Nobody
        /\ crossed' = (visit["logout"].old \/ visit["logout"].pc = "sent")
        /\ visit["logout"].pc \in {"sent", "headers"}
        /\ visit' = [visit EXCEPT !["logout"] = NotCalling]
        /\ UNCHANGED <<jar, expired>>
    BY <1>8 DEF AnswerLogout
  <2>2. ~crossed' => Current("logout") /\ Promised("logout") = Nobody
    BY <2>1 DEF Current, Promised
  <2>3. crossed' \/ user' = jar
    BY <1>1, <2>1, <2>2
  <2>4. expired' \in BOOLEAN
    BY <1>1, <2>1 DEF ClientTypeOK
  <2> QED
    BY <1>1, <2>1, <2>3, <2>4, EndedCall
<1>9. ASSUME NEW k \in CallKind, FailCallTo(k) PROVE SessionInv'
  <2>1. /\ user' = IF k = "load" THEN Nobody ELSE user
        /\ crossed' = (crossed \/ k = "load" \/ visit[k].pc = "headers")
        /\ visit' = [visit EXCEPT ![k] = NotCalling]
        /\ UNCHANGED <<jar, expired>>
        /\ k # "logout"
    BY <1>9 DEF FailCallTo
  <2>2. user' \in Somebody \cup {Nobody} /\ expired' \in BOOLEAN
    BY <1>1, <2>1 DEF ClientTypeOK
  <2>3. ~crossed' => ~(k \in {"load", "login", "logout"} /\ Current(k))
    BY <2>1 DEF Current
  <2> QED
    BY <2>1, <2>2, <2>3, EndedCall
<1>10. CASE UNCHANGED clientVars
  BY <1>10 DEF clientVars, ClientTypeOK, Current, Promised
<1> QED
  BY <1>1, <1>2, <1>3, <1>4, <1>5, <1>6, <1>7, <1>8, <1>9, <1>10, SetCookieInv, ExpireInv
     DEF ClientNext

LEMMA SessionInvariance == ClientSpec => []SessionInv
  BY SessionInitInv, SessionStepInv, PTL DEF ClientSpec

(* For any number of accounts: between requests the screen shows the user whose cookie   *)
(* the browser holds, unless the answer applied last is of a call that a login or logout    *)
(* overtook, or the answer of a load, login or logout has been lost since.                 *)
THEOREM ShownUser == ClientSpec => []SessionIsCookies
<1>1. SessionInv => SessionIsCookies
  BY DEF SessionInv, SessionIsCookies, Current, CallKind
<1> QED
  BY <1>1, SessionInvariance, PTL

-----------------------------------------------------------------------------
Shown == [confirmed: BOOLEAN, stock: Weight]
Confirmation == [difference: Int, agreed: Int \cup {Unread}, shifted: BOOLEAN]
ConfirmCall ==
  [pc: {"idle", "row"}]
    \cup [pc: {"bags"}, confirmed: BOOLEAN]
    \cup [pc: {"answer"}, confirmed: BOOLEAN, stock: Weight]
    \cup [pc: {"post"}, document: DocumentWeight, acknowledge: BOOLEAN, agreed: Int \cup {Unread}]
    \cup [pc: {"commit"}, difference: Int, agreed: Int \cup {Unread}]

ConfirmTypeOK ==
  /\ stock \in Weight
  /\ confirmed \in Confirmation \cup {Unread}
  /\ page \in [Clerk -> [shown: Shown \cup {Unread}, dialog: DocumentWeight \cup {Unread}]]
  /\ post \in [Clerk -> ConfirmCall]
  /\ shifted \in [Clerk -> BOOLEAN]
  /\ late \in BOOLEAN

(* What a clerk's page and call say of the batch: a confirmation that was read is there,  *)
(* and the stock read after it is the final one ...                                    *)
SeesFinal(a) ==
  /\ page[a].shown # Unread /\ page[a].shown.confirmed =>
       confirmed # Unread /\ (late \/ page[a].shown.stock = stock)
  /\ post[a].pc \in {"bags", "answer"} /\ post[a].confirmed => confirmed # Unread
  /\ post[a].pc = "answer" /\ post[a].confirmed => late \/ post[a].stock = stock

(* ... and until the batch is confirmed the page shows the stock and the call carries the  *)
(* difference, unless the stock changed; a page reads again only after it confirmed.      *)
SeesStock(a) ==
  /\ post[a].pc \in {"row", "bags", "answer"} /\ page[a].shown # Unread => confirmed # Unread
  /\ post[a].pc \in {"post", "commit"} => page[a].shown # Unread
  /\ confirmed = Unread /\ ~shifted[a] =>
       /\ page[a].shown # Unread => page[a].shown.stock = stock
       /\ post[a].pc = "answer" => post[a].stock = stock
  /\ post[a].pc = "post" /\ post[a].acknowledge =>
       /\ post[a].agreed \in Int
       /\ confirmed = Unread /\ ~shifted[a] => post[a].agreed = stock - post[a].document
  /\ post[a].pc = "commit" /\ post[a].difference # 0 =>
       /\ post[a].agreed \in Int
       /\ confirmed = Unread /\ ~shifted[a] => post[a].agreed = post[a].difference

ConfirmInv ==
  /\ ConfirmTypeOK
  /\ \A a \in Clerk : SeesFinal(a) /\ SeesStock(a)
  /\ AcknowledgedDifference

LEMMA UnreadOther ==
  /\ Unread \notin Int
  /\ Unread \notin Shown
  /\ Unread \notin Confirmation
  BY UnreadAssumption DEF Shown, Confirmation, Weight

LEMMA ConfirmInitInv == ConfirmInit => ConfirmInv
<1> SUFFICES ASSUME ConfirmInit PROVE ConfirmInv
  OBVIOUS
<1>1. [pc |-> "row"] \in ConfirmCall
  BY DEF ConfirmCall
<1>2. ConfirmTypeOK
  BY <1>1 DEF ConfirmInit, ConfirmTypeOK
<1> QED
  BY <1>2 DEF ConfirmInit, ConfirmInv, SeesFinal, SeesStock, AcknowledgedDifference

(* What a step of clerk a has to say for the invariant to hold after it. *)
LEMMA ClerkStep ==
  ASSUME ConfirmInv, NEW a \in Clerk, NEW p, NEW c \in ConfirmCall, NEW s \in BOOLEAN,
         p \in [shown: Shown \cup {Unread}, dialog: DocumentWeight \cup {Unread}],
         page' = [page EXCEPT ![a] = p],
         post' = [post EXCEPT ![a] = c],
         shifted' = [shifted EXCEPT ![a] = s],
         UNCHANGED <<stock, late>>,
         confirmed' \in Confirmation \cup {Unread},
         confirmed # Unread => confirmed' # Unread,
         AcknowledgedDifference',
         SeesFinal(a)', SeesStock(a)'
  PROVE  ConfirmInv'
<1> USE DEF ConfirmInv
<1>1. ConfirmTypeOK'
  BY DEF ConfirmTypeOK
<1>2. ASSUME NEW b \in Clerk, b # a
      PROVE  page'[b] = page[b] /\ post'[b] = post[b] /\ shifted'[b] = shifted[b]
  BY <1>2 DEF ConfirmTypeOK
<1>3. ASSUME NEW b \in Clerk, b # a
      PROVE  SeesFinal(b)' /\ SeesStock(b)'
  BY <1>2, <1>3 DEF SeesFinal, SeesStock
<1> QED
  BY <1>1, <1>3

LEMMA ConfirmStepInv == ConfirmInv /\ [ConfirmNext]_confirmVars => ConfirmInv'
<1> SUFFICES ASSUME ConfirmInv, [ConfirmNext]_confirmVars PROVE ConfirmInv'
  OBVIOUS
<1> USE DEF ConfirmInv
<1> DEFINE Page == [shown: Shown \cup {Unread}, dialog: DocumentWeight \cup {Unread}]
<1>1. ASSUME NEW w \in Weight, ChangeTotal(w) PROVE ConfirmInv'
  <2>1. /\ stock' = w
        /\ late' = (late \/ confirmed # Unread)
        /\ UNCHANGED <<confirmed, page, post>>
        /\ \A a \in Clerk : shifted'[a] = (page[a].shown # Unread \/ post[a].pc = "answer")
    BY <1>1 DEF ChangeTotal
  <2>2. ConfirmTypeOK'
    BY <1>1, <2>1 DEF ConfirmTypeOK, ChangeTotal
  <2>3. ASSUME NEW a \in Clerk PROVE SeesFinal(a)' /\ SeesStock(a)'
    BY <2>1 DEF SeesFinal, SeesStock
  <2> QED
    BY <2>1, <2>2, <2>3 DEF AcknowledgedDifference
<1>2. ASSUME NEW a \in Clerk
      PROVE  /\ page[a] \in Page
             /\ page' = page => page' = [page EXCEPT ![a] = page[a]]
             /\ post' = post => post' = [post EXCEPT ![a] = post[a]]
             /\ shifted' = shifted => shifted' = [shifted EXCEPT ![a] = shifted[a]]
             /\ post[a] \in ConfirmCall /\ shifted[a] \in BOOLEAN
             /\ SeesFinal(a) /\ SeesStock(a)
  BY DEF ConfirmTypeOK
<1>3. UNCHANGED confirmed => AcknowledgedDifference' /\ confirmed' \in Confirmation \cup {Unread}
  BY DEF AcknowledgedDifference, ConfirmTypeOK
<1>4. ASSUME NEW a \in Clerk, ReadBatch(a) PROVE ConfirmInv'
  <2>1. CASE post[a].pc = "row"
    <3> DEFINE c == [pc |-> "bags", confirmed |-> confirmed # Unread]
    <3>1. c \in ConfirmCall
      BY DEF ConfirmCall
    <3>2. post' = [post EXCEPT ![a] = c] /\ UNCHANGED <<stock, confirmed, page, shifted, late>>
      BY <1>4, <2>1 DEF ReadBatch, Calling
    <3>3. post'[a].pc = "bags" /\ (post'[a].confirmed <=> confirmed # Unread)
      BY <3>2 DEF ConfirmTypeOK
    <3>4. SeesFinal(a)'
      BY <1>2, <3>2, <3>3 DEF SeesFinal
    <3>5. SeesStock(a)'
      BY <1>2, <2>1, <3>2, <3>3 DEF SeesStock
    <3> HIDE DEF c, Page
    <3> QED
      BY <1>2, <1>3, <3>1, <3>2, <3>4, <3>5, ClerkStep DEF Page
  <2>2. CASE post[a].pc = "bags"
    <3> DEFINE c == [pc |-> "answer", confirmed |-> post[a].confirmed, stock |-> stock]
    <3>1. c \in ConfirmCall /\ post[a].confirmed \in BOOLEAN
      BY <1>2, <2>2 DEF ConfirmCall, ConfirmTypeOK
    <3>2. /\ post' = [post EXCEPT ![a] = c]
          /\ shifted' = [shifted EXCEPT ![a] = FALSE]
          /\ UNCHANGED <<stock, confirmed, page, late>>
      BY <1>4, <2>2 DEF ReadBatch, Calling
    <3>3. /\ post'[a].pc = "answer" /\ post'[a].stock = stock /\ ~shifted'[a]
          /\ post'[a].confirmed = post[a].confirmed
      BY <3>2 DEF ConfirmTypeOK
    <3>4. SeesFinal(a)'
      BY <1>2, <2>2, <3>2, <3>3 DEF SeesFinal
    <3>5. page[a].shown # Unread => confirmed # Unread
      BY <1>2, <2>2 DEF SeesStock
    <3>6. SeesStock(a)'
      BY <3>2, <3>3, <3>5 DEF SeesStock
    <3> HIDE DEF c, Page
    <3> QED
      BY <1>2, <1>3, <3>1, <3>2, <3>4, <3>6, ClerkStep DEF Page
  <2> QED
    BY <1>4, <2>1, <2>2 DEF ReadBatch
<1>5. ASSUME NEW a \in Clerk, ShowBatch(a) PROVE ConfirmInv'
  <2> DEFINE p == [page[a] EXCEPT !.shown = [confirmed |-> post[a].confirmed, stock |-> post[a].stock]]
             c == [pc |-> "idle"]
  <2>1. post[a].confirmed \in BOOLEAN /\ post[a].stock \in Weight /\ post[a].pc = "answer"
    BY <1>2, <1>5 DEF ShowBatch, ConfirmCall
  <2>2. [confirmed |-> post[a].confirmed, stock |-> post[a].stock] \in Shown
    BY <2>1 DEF Shown
  <2>3. p \in Page /\ p.shown = [confirmed |-> post[a].confirmed, stock |-> post[a].stock]
    BY <1>2, <2>2
  <2>4. /\ page' = [page EXCEPT ![a] = p] /\ post' = [post EXCEPT ![a] = c]
        /\ UNCHANGED <<stock, confirmed, shifted, late>>
    BY <1>5 DEF ShowBatch, Calling
  <2>5. page'[a] = p /\ post'[a] = c /\ c \in ConfirmCall
    BY <2>4 DEF ConfirmTypeOK, ConfirmCall
  <2>6. SeesFinal(a)' /\ SeesStock(a)'
    BY <1>2, <2>1, <2>3, <2>4, <2>5 DEF SeesFinal, SeesStock
  <2> HIDE DEF p, c, Page
  <2> QED
    BY <1>2, <1>3, <2>3, <2>4, <2>5, <2>6, ClerkStep DEF Page
<1>6. ASSUME NEW a \in Clerk, NEW document \in DocumentWeight, SubmitReconciliation(a, document)
      PROVE  ConfirmInv'
  <2>1. CanReconcile(a) /\ UNCHANGED <<stock, confirmed, shifted, late>>
    BY <1>6 DEF SubmitReconciliation
  <2>2. CASE document # page[a].shown.stock
    <3> DEFINE p == [page[a] EXCEPT !.dialog = document]
    <3>1. p \in Page /\ p.shown = page[a].shown
      BY <1>2
    <3>2. page' = [page EXCEPT ![a] = p] /\ UNCHANGED post
      BY <1>6, <2>2 DEF SubmitReconciliation
    <3>3. page'[a] = p
      BY <3>2 DEF ConfirmTypeOK
    <3>4. SeesFinal(a)' /\ SeesStock(a)'
      BY <1>2, <2>1, <3>1, <3>2, <3>3 DEF SeesFinal, SeesStock
    <3> HIDE DEF p, Page
    <3> QED
      BY <1>2, <1>3, <2>1, <3>1, <3>2, <3>4, ClerkStep DEF Page
  <2>3. CASE document = page[a].shown.stock
    <3> DEFINE c == [pc |-> "post", document |-> document, acknowledge |-> FALSE, agreed |-> Unread]
    <3>1. c \in ConfirmCall
      BY DEF ConfirmCall
    <3>2. post' = [post EXCEPT ![a] = c] /\ UNCHANGED page
      BY <1>6, <2>3 DEF SubmitReconciliation, Posted, Calling
    <3>3. post'[a] = c
      BY <3>2 DEF ConfirmTypeOK
    <3>4. SeesFinal(a)' /\ SeesStock(a)'
      BY <1>2, <2>1, <3>2, <3>3 DEF SeesFinal, SeesStock, CanReconcile
    <3> HIDE DEF c, Page
    <3> QED
      BY <1>2, <1>3, <2>1, <3>1, <3>2, <3>4, ClerkStep DEF Page
  <2> QED
    BY <2>2, <2>3
<1>7. ASSUME NEW a \in Clerk, AcceptDialog(a) PROVE ConfirmInv'
  <2> DEFINE agreed == page[a].shown.stock - page[a].dialog
             c == [pc |-> "post", document |-> page[a].dialog, acknowledge |-> TRUE, agreed |-> agreed]
  <2>1. /\ page[a].shown # Unread /\ page[a].dialog # Unread
        /\ UNCHANGED <<stock, confirmed, page, shifted, late>>
        /\ post' = [post EXCEPT ![a] = c]
    BY <1>7 DEF AcceptDialog, CanReconcile, Posted, Calling
  <2>2. page[a].shown \in Shown /\ page[a].dialog \in DocumentWeight
    BY <1>2, <2>1
  <2>3. agreed \in Int /\ c \in ConfirmCall
    BY <2>2, WeightAssumption DEF Shown, Weight, DocumentWeight, ConfirmCall
  <2>4. post'[a] = c
    BY <2>1 DEF ConfirmTypeOK
  <2>5. SeesFinal(a)'
    BY <1>2, <2>1, <2>4 DEF SeesFinal
  <2>6. SeesStock(a)'
    BY <1>2, <2>1, <2>3, <2>4 DEF SeesStock
  <2> HIDE DEF agreed, c, Page
  <2> QED
    BY <1>2, <1>3, <2>1, <2>3, <2>5, <2>6, ClerkStep DEF Page
<1>8. ASSUME NEW a \in Clerk, CloseDialog(a) PROVE ConfirmInv'
  <2> DEFINE p == [page[a] EXCEPT !.dialog = Unread]
  <2>1. p \in Page /\ p.shown = page[a].shown
    BY <1>2
  <2>2. page' = [page EXCEPT ![a] = p] /\ UNCHANGED <<stock, confirmed, post, shifted, late>>
    BY <1>8 DEF CloseDialog
  <2>3. page'[a] = p
    BY <2>2 DEF ConfirmTypeOK
  <2>4. SeesFinal(a)' /\ SeesStock(a)'
    BY <1>2, <2>1, <2>2, <2>3 DEF SeesFinal, SeesStock
  <2> HIDE DEF p, Page
  <2> QED
    BY <1>2, <1>3, <2>1, <2>2, <2>4, ClerkStep DEF Page
<1>9. ASSUME NEW a \in Clerk, Measure(a) PROVE ConfirmInv'
  <2> DEFINE difference == stock - post[a].document
             c == [pc |-> "commit", difference |-> difference, agreed |-> post[a].agreed]
  <2>1. /\ post[a].pc = "post" /\ stock \in Weight
        /\ stock = post[a].document \/ post[a].acknowledge
        /\ UNCHANGED <<stock, confirmed, page, shifted, late>>
        /\ post' = [post EXCEPT ![a] = c]
    BY <1>9 DEF Measure, Calling, ConfirmTypeOK
  <2>2. post[a].document \in DocumentWeight /\ post[a].agreed \in Int \cup {Unread}
    BY <1>2, <2>1 DEF ConfirmCall
  <2>3. difference \in Int /\ c \in ConfirmCall
    BY <2>1, <2>2, WeightAssumption DEF Weight, DocumentWeight, ConfirmCall
  <2>4. post'[a] = c
    BY <2>1 DEF ConfirmTypeOK
  <2>5. difference # 0 => post[a].acknowledge
    BY <2>1, <2>2, WeightAssumption DEF Weight, DocumentWeight
  <2>6. SeesFinal(a)'
    BY <1>2, <2>1, <2>4 DEF SeesFinal
  <2>7. SeesStock(a)'
    BY <1>2, <2>1, <2>4, <2>5 DEF SeesStock
  <2> HIDE DEF difference, c, Page
  <2> QED
    BY <1>2, <1>3, <2>1, <2>3, <2>6, <2>7, ClerkStep DEF Page
<1>10. ASSUME NEW a \in Clerk, CommitReconcile(a) PROVE ConfirmInv'
  <2> DEFINE p == [page[a] EXCEPT !.dialog = Unread]
             c == [pc |-> "row"]
             now == [difference |-> post[a].difference, agreed |-> post[a].agreed,
                     shifted |-> shifted[a]]
  <2>1. /\ post[a].pc = "commit" /\ confirmed = Unread /\ confirmed' = now
        /\ page' = [page EXCEPT ![a] = p] /\ post' = [post EXCEPT ![a] = c]
        /\ UNCHANGED <<stock, shifted, late>>
    BY <1>10 DEF CommitReconcile, Calling
  <2>2. post[a].difference \in Int /\ post[a].agreed \in Int \cup {Unread}
    BY <1>2, <2>1 DEF ConfirmCall
  <2>3. now \in Confirmation /\ confirmed' # Unread
    <3>1. shifted[a] \in BOOLEAN
      BY <1>2
    <3>2. now \in Confirmation
      BY <2>2, <3>1 DEF Confirmation
    <3> QED
      BY <2>1, <3>2, UnreadOther
  <2>4. p \in Page /\ p.shown = page[a].shown
    BY <1>2
  <2>5. page'[a] = p /\ post'[a] = c /\ c \in ConfirmCall
    BY <2>1 DEF ConfirmTypeOK, ConfirmCall
  <2>6. AcknowledgedDifference'
    BY <1>2, <2>1, <2>2, UnreadOther DEF AcknowledgedDifference, SeesStock
  <2>7. SeesFinal(a)' /\ SeesStock(a)'
    BY <1>2, <2>1, <2>3, <2>4, <2>5 DEF SeesFinal, SeesStock
  <2> HIDE DEF p, c, now, Page
  <2> QED
    BY <1>2, <2>1, <2>3, <2>4, <2>5, <2>6, <2>7, ClerkStep DEF Page
<1>11. ASSUME NEW a \in Clerk, FailCall(a) PROVE ConfirmInv'
  <2> DEFINE p == [page[a] EXCEPT !.dialog = Unread]
             c == [pc |-> "idle"]
  <2>1. p \in Page /\ p.shown = page[a].shown
    BY <1>2
  <2>2. /\ page' = [page EXCEPT ![a] = p] /\ post' = [post EXCEPT ![a] = c]
        /\ UNCHANGED <<stock, confirmed, shifted, late>>
    BY <1>11 DEF FailCall, Calling
  <2>3. page'[a] = p /\ post'[a] = c /\ c \in ConfirmCall
    BY <2>2 DEF ConfirmTypeOK, ConfirmCall
  <2>4. SeesFinal(a)' /\ SeesStock(a)'
    BY <1>2, <2>1, <2>2, <2>3 DEF SeesFinal, SeesStock
  <2> HIDE DEF p, c, Page
  <2> QED
    BY <1>2, <1>3, <2>1, <2>2, <2>3, <2>4, ClerkStep DEF Page
<1>12. ASSUME NEW a \in Clerk, ReopenPage(a) PROVE ConfirmInv'
  <2> DEFINE p == [shown |-> Unread, dialog |-> Unread]
             c == [pc |-> "row"]
  <2>1. /\ page' = [page EXCEPT ![a] = p] /\ post' = [post EXCEPT ![a] = c]
        /\ UNCHANGED <<stock, confirmed, shifted, late>>
    BY <1>12 DEF ReopenPage, Calling
  <2>2. page'[a] = p /\ post'[a] = c /\ c \in ConfirmCall /\ p \in Page
    BY <2>1 DEF ConfirmTypeOK, ConfirmCall
  <2>3. SeesFinal(a)' /\ SeesStock(a)'
    BY <1>2, <2>1, <2>2 DEF SeesFinal, SeesStock
  <2> HIDE DEF p, c, Page
  <2> QED
    BY <1>2, <1>3, <2>1, <2>2, <2>3, ClerkStep DEF Page
<1>13. CASE UNCHANGED confirmVars
  BY <1>13 DEF confirmVars, ConfirmTypeOK, SeesFinal, SeesStock, AcknowledgedDifference
<1> QED
  BY <1>1, <1>4, <1>5, <1>6, <1>7, <1>8, <1>9, <1>10, <1>11, <1>12, <1>13 DEF ConfirmNext

LEMMA ConfirmInvariance == ConfirmSpec => []ConfirmInv
  BY ConfirmInitInv, ConfirmStepInv, PTL DEF ConfirmSpec

(* Whatever the administrators' pages showed when they were opened, a discrepancy is      *)
(* confirmed only if its administrator acknowledged one, and it is the one he was shown    *)
(* unless the stock changed after his page had read it.                                *)
THEOREM Acknowledged == ConfirmSpec => []AcknowledgedDifference
<1>1. ConfirmInv => AcknowledgedDifference
  BY DEF ConfirmInv
<1> QED
  BY <1>1, ConfirmInvariance, PTL

(* For any weights and any number of pages: what a page shows as confirmed is the final    *)
(* stock, because the batch is read before its packages.                               *)
THEOREM ConfirmedFinal == ConfirmSpec => []ConfirmedTotalIsFinal
<1>1. ConfirmInv => ConfirmedTotalIsFinal
  BY DEF ConfirmInv, ConfirmedTotalIsFinal, SeesFinal
<1> QED
  BY <1>1, ConfirmInvariance, PTL

-----------------------------------------------------------------------------
(* The fields that the screen and a handler that runs have. *)
Status == {"new", "corrected", "voided"}
Bag == [unit: Unit, batch: Batch, status: Status]

(* A reading of a batch has packages of that batch only. *)
ReadingOf(seen, b) ==
  /\ seen # Nothing
  /\ seen.id = b
  /\ \A i \in DOMAIN seen.shown : i \in DOMAIN bags /\ bags[i].batch = b

HandlerShape(k, q) ==
  q.pc # "idle" =>
    /\ q = [pc |-> q.pc, batch |-> q.batch, bag |-> q.bag, unit |-> q.unit, view |-> q.view]
    /\ q.pc \in {"sent", "stored", "fresh"}
    /\ q.batch \in Batch
    /\ IF k = "save" THEN q.unit \in Unit ELSE q.unit = Nothing
    /\ q.pc = "fresh" => ReadingOf(q.view, q.batch)

ScreenFields(s) ==
  /\ s = [batch |-> s.batch, draft |-> s.draft, label |-> s.label,
          correction |-> s.correction, voiding |-> s.voiding]
  /\ s.batch # Nothing => s.batch.id \in Batch /\ ReadingOf(s.batch, s.batch.id)
  /\ s.draft \in Unit \cup {Nothing}

ScreenShape ==
  /\ bags \in Seq(Bag) /\ Len(bags) <= MaxBags
  /\ ScreenFields(screen)
  /\ op = [k \in Handler |-> op[k]]
  /\ \A k \in Handler : HandlerShape(k, op[k])

(* A draft, a label and a save belong to the batch on the screen or of the call. *)
InPlace ==
  /\ \/ displaced
     \/ /\ screen.draft # Nothing => screen.batch # Nothing /\ screen.batch.id = BatchOf[screen.draft]
        /\ screen.label # Nothing => /\ screen.batch # Nothing
                                     /\ screen.label \in DOMAIN bags
                                     /\ bags[screen.label].batch = screen.batch.id
        /\ op["save"].pc = "sent" => op["save"].batch = BatchOf[op["save"].unit]
  /\ op["save"].pc \in {"stored", "fresh"} =>
       op["save"].bag \in DOMAIN bags /\ bags[op["save"].bag].batch = op["save"].batch
  /\ EntryStaysInItsBatch

(* A unit that is stored or being saved is not in the form for another save. *)
SavedOnce ==
  /\ \A i \in DOMAIN bags : bags[i].unit \in handled \cup doubtful
  /\ screen.draft \in handled => op["save"].pc # "idle" /\ op["save"].unit = screen.draft
  /\ op["save"].pc # "idle" => op["save"].unit \in handled
  /\ op["save"].pc = "sent" =>
       \A i \in DOMAIN bags : bags[i].unit = op["save"].unit => bags[i].unit \in doubtful
  /\ handled \cup doubtful \subseteq Unit
  /\ RegisteredOnce

(* While handlers follow one another the screen is at most one change of its batch     *)
(* behind, of which the handler that runs still has to read.                        *)
OneRuns == \A j, k \in Handler : op[j].pc # "idle" /\ op[k].pc # "idle" => j = k
ReadsNow == \A k \in Handler : op[k].pc = "fresh" => op[k].view = BatchDetail(op[k].batch)
ShowsNow ==
  \/ screen.batch = Nothing
  \/ screen.batch.id \in unseen
  \/ screen.batch = BatchDetail(screen.batch.id)
  \/ \E k \in Handler : op[k].pc = "fresh"
  \/ \E k \in Handler : op[k].pc = "stored" /\ bags[op[k].bag].batch = screen.batch.id
OneBehind == overlapped \/ (OneRuns /\ ReadsNow /\ ShowsNow)

ScreenInv == ScreenShape /\ InPlace /\ SavedOnce /\ OneBehind

(* The packages of the server: one is added at the end, or the state of one changes. *)
BagsKept ==
  /\ bags' \in Seq(Bag) /\ Len(bags') <= MaxBags
  /\ DOMAIN bags \subseteq DOMAIN bags'
  /\ \A i \in DOMAIN bags : bags'[i].unit = bags[i].unit /\ bags'[i].batch = bags[i].batch

LEMMA ReadBatchDetail ==
  ASSUME ScreenShape, NEW b \in Batch
  PROVE  ReadingOf(BatchDetail(b), b)
<1> DEFINE S == {j \in DOMAIN bags : bags[j].batch = b}
           f == [i \in S |-> bags[i].status]
<1>1. DOMAIN bags = 1 .. Len(bags) /\ Len(bags) \in Nat /\ \A i \in DOMAIN bags : bags[i] \in Bag
  BY DEF ScreenShape
<1>2. S \in SUBSET (1 .. MaxBags)
  BY <1>1, BagsAssumption DEF ScreenShape
<1>3. f \in [S -> Status]
  BY <1>1 DEF Bag
<1>4. f \in UNION {[R -> Status] : R \in SUBSET (1 .. MaxBags)}
  BY <1>2, <1>3
<1>5. BatchDetail(b) = [id |-> b, shown |-> f]
  BY DEF BatchDetail
<1>6. BatchDetail(b) \in [id: Batch, shown: UNION {[R -> Status] : R \in SUBSET (1 .. MaxBags)}]
  <2> HIDE DEF f
  <2> QED
    BY <1>4, <1>5
<1>7. BatchDetail(b) # Nothing
  BY <1>6, NothingAssumption DEF Status
<1> QED
  BY <1>5, <1>7 DEF ReadingOf

LEMMA BagsStep ==
  ASSUME ScreenShape, NEW k \in Handler, Serve(k)
  PROVE  BagsKept
<1>1. DOMAIN bags = 1 .. Len(bags) /\ Len(bags) \in Nat /\ \A i \in DOMAIN bags : bags[i] \in Bag
  BY DEF ScreenShape
<1>2. CASE UNCHANGED bags
  BY <1>2 DEF ScreenShape, BagsKept
<1>3. ASSUME k = "save", Len(bags) < MaxBags,
             bags' = Append(bags, [unit |-> op[k].unit, batch |-> op[k].batch, status |-> "new"])
      PROVE  BagsKept
  <2>1. op[k].unit \in Unit /\ op[k].batch \in Batch
    BY <1>3 DEF Serve, ScreenShape, HandlerShape
  <2>2. [unit |-> op[k].unit, batch |-> op[k].batch, status |-> "new"] \in Bag
    BY <2>1 DEF Bag, Status
  <2>3. /\ bags' \in Seq(Bag) /\ Len(bags') = Len(bags) + 1
        /\ \A i \in 1 .. Len(bags) : bags'[i] = bags[i]
    BY <1>3, <2>2 DEF ScreenShape
  <2> QED
    BY <1>1, <1>3, <2>3, BagsAssumption DEF BagsKept
<1>4. ASSUME NEW i, NEW s \in Status, bags' = [bags EXCEPT ![i].status = s]
      PROVE  BagsKept
  <2>1. bags' = [j \in 1 .. Len(bags) |-> IF j = i THEN [bags[j] EXCEPT !.status = s] ELSE bags[j]]
    BY <1>1, <1>4
  <2>2. \A j \in 1 .. Len(bags) : [bags[j] EXCEPT !.status = s] \in Bag
    BY <1>1 DEF Bag
  <2>3. bags' \in [1 .. Len(bags) -> Bag]
    BY <1>1, <2>1, <2>2
  <2>4. bags' \in Seq(Bag) /\ Len(bags') = Len(bags)
    BY <1>1, <2>3
  <2>5. \A j \in 1 .. Len(bags) : bags'[j].unit = bags[j].unit /\ bags'[j].batch = bags[j].batch
    BY <1>1, <2>1 DEF Bag
  <2> QED
    BY <1>1, <2>4, <2>5 DEF BagsKept, ScreenShape
<1> QED
  BY <1>2, <1>3, <1>4 DEF Serve, Status

LEMMA BagsStay ==
  ASSUME ScreenShape, UNCHANGED bags
  PROVE  BagsKept
  BY DEF ScreenShape, BagsKept

LEMMA ReadingKept ==
  ASSUME BagsKept, NEW seen, NEW b, ReadingOf(seen, b)
  PROVE  ReadingOf(seen, b)'
  BY DEF BagsKept, ReadingOf

(* What a step does to the screen and to one handler keeps the shape. *)
LEMMA ShapeStep ==
  ASSUME ScreenShape, BagsKept, NEW k \in Handler, NEW q, NEW s,
         op' = [op EXCEPT ![k] = q], screen' = s,
         HandlerShape(k, q)', ScreenFields(s)'
  PROVE  /\ ScreenShape'
         /\ op'[k] = q
         /\ \A j \in Handler : j # k => op'[j] = op[j]
<1>1. op'[k] = q /\ \A j \in Handler : j # k => op'[j] = op[j]
  BY DEF ScreenShape
<1>2. op' = [j \in Handler |-> op'[j]]
  BY <1>1 DEF ScreenShape
<1>3. ASSUME NEW j \in Handler, j # k
      PROVE  HandlerShape(j, op[j])'
  <2>1. HandlerShape(j, op[j])
    BY DEF ScreenShape
  <2>2. op'[j] = op[j]
    BY <1>1, <1>3
  <2>3. op[j].pc = "fresh" => ReadingOf(op[j].view, op[j].batch)'
    BY <2>1, <2>2, ReadingKept DEF HandlerShape, ReadingOf, BagsKept
  <2> QED
    BY <2>1, <2>2, <2>3 DEF HandlerShape
<1>4. ScreenFields(screen)'
  BY DEF ScreenFields, ReadingOf
<1>5. \A j \in Handler : HandlerShape(j, op[j])'
  BY <1>1, <1>3 DEF HandlerShape, ReadingOf
<1> QED
  BY <1>1, <1>2, <1>4, <1>5 DEF ScreenShape, BagsKept

LEMMA ScreenInitInv == ScreenInit => ScreenInv
<1> SUFFICES ASSUME ScreenInit PROVE ScreenInv
  OBVIOUS
<1>1. /\ bags = <<>> /\ handled = {} /\ screen = EnterDelivery
      /\ op = [k \in Handler |-> [pc |-> "idle"]]
  BY DEF ScreenInit
<1>2. "save" \in Handler /\ DOMAIN bags = {}
  BY <1>1 DEF Handler
<1>3. ScreenShape
  BY <1>1, BagsAssumption DEF ScreenShape, ScreenFields, HandlerShape, EnterDelivery
<1>4. InPlace
  BY <1>1, <1>2 DEF InPlace, EntryStaysInItsBatch, EnterDelivery
<1>5. SavedOnce
  BY <1>1, <1>2 DEF SavedOnce, RegisteredOnce, ScreenInit
<1>6. OneBehind
  BY <1>1 DEF OneBehind, OneRuns, ReadsNow, ShowsNow, EnterDelivery
<1> QED
  BY <1>3, <1>4, <1>5, <1>6 DEF ScreenInv

(* A button that changes the screen alone. *)
LEMMA ScreenOnly ==
  ASSUME ScreenInv, NEW s, OnScreen(s),
         s = [batch |-> s.batch, draft |-> s.draft, label |-> s.label,
              correction |-> s.correction, voiding |-> s.voiding],
         s.batch = screen.batch \/ (s.batch = Nothing /\ s.draft = Nothing /\ s.label = Nothing),
         \/ s.draft \in {screen.draft, Nothing}
         \/ /\ s.draft \in Unit \ handled
            /\ s.batch # Nothing /\ s.batch.id = BatchOf[s.draft],
         \/ s.label \in {screen.label, Nothing}
         \/ /\ s.label \in DOMAIN bags /\ s.batch # Nothing
            /\ bags[s.label].batch = s.batch.id
  PROVE  ScreenInv'
<1> USE DEF ScreenInv
<1>1. screen' = s /\ UNCHANGED <<bags, op, handled, doubtful, unseen, overlapped, displaced>>
  BY DEF OnScreen
<1>2. ScreenShape'
  <2>1. ScreenFields(s)
    BY DEF ScreenShape, ScreenFields
  <2>2. ScreenFields(s)'
    BY <1>1, <2>1 DEF ScreenFields, ReadingOf
  <2>3. \A k \in Handler : HandlerShape(k, op[k])'
    BY <1>1 DEF ScreenShape, HandlerShape, ReadingOf
  <2> QED
    BY <1>1, <2>2, <2>3 DEF ScreenShape, ScreenFields, ReadingOf
<1>3. InPlace'
  BY <1>1 DEF InPlace, EntryStaysInItsBatch
<1>4. SavedOnce'
  <2>1. Nothing \notin handled
    BY NothingAssumption DEF SavedOnce
  <2>2. s.draft \in handled => s.draft = screen.draft
    BY <2>1
  <2> QED
    BY <1>1, <2>2 DEF SavedOnce, RegisteredOnce
<1>5. OneBehind'
  <2>1. ASSUME NEW b PROVE BatchDetail(b)' = BatchDetail(b)
    BY <1>1 DEF BatchDetail
  <2> QED
    BY <1>1, <2>1 DEF OneBehind, OneRuns, ReadsNow, ShowsNow
<1> QED
  BY <1>2, <1>3, <1>4, <1>5

(* A button that starts a handler. *)
LEMMA StartStep ==
  ASSUME ScreenInv, NEW k \in Handler, NEW b \in Batch, NEW i, NEW u,
         Start(k, b, i, u), UNCHANGED screen,
         IF k = "save"
         THEN /\ u = screen.draft /\ u \in Unit
              /\ screen.batch # Nothing /\ b = screen.batch.id
              /\ handled' = handled \cup {u}
         ELSE u = Nothing /\ UNCHANGED handled
  PROVE  ScreenInv'
<1> USE DEF ScreenInv
<1> DEFINE q == [pc |-> "sent", batch |-> b, bag |-> i, unit |-> u, view |-> Nothing]
<1>1. /\ op[k].pc = "idle"
      /\ op' = [op EXCEPT ![k] = q]
      /\ overlapped' = (overlapped \/ \E j \in Handler : op[j].pc # "idle")
      /\ UNCHANGED <<bags, doubtful, unseen, displaced, screen>>
  BY DEF Start
<1>2. BagsKept
  BY <1>1, BagsStay
<1>3. q = [pc |-> q.pc, batch |-> q.batch, bag |-> q.bag, unit |-> q.unit, view |-> q.view]
  OBVIOUS
<1>4. HandlerShape(k, q)'
  BY <1>3 DEF HandlerShape
<1>5. ScreenFields(screen)'
  BY <1>1 DEF ScreenShape, ScreenFields, ReadingOf
<1>6. PICK s : s = screen
  OBVIOUS
<1>7. screen' = s /\ ScreenFields(s)'
  BY <1>1, <1>5, <1>6 DEF ScreenFields, ReadingOf
<1>8. /\ ScreenShape'
      /\ op'[k] = q
      /\ \A j \in Handler : j # k => op'[j] = op[j]
  <2> HIDE DEF q
  <2> QED
    BY <1>1, <1>2, <1>4, <1>7, ShapeStep
<1>9. "save" \in Handler
  BY DEF Handler
<1>10. InPlace'
  <2>1. CASE k = "save"
    BY <1>1, <1>8, <2>1, NothingAssumption DEF InPlace, EntryStaysInItsBatch
  <2>2. CASE k # "save"
    BY <1>1, <1>8, <1>9, <2>2 DEF InPlace, EntryStaysInItsBatch
  <2> QED
    BY <2>1, <2>2
<1>11. SavedOnce'
  <2>1. CASE k = "save"
    <3>1. u \notin handled
      BY <1>1, <2>1 DEF SavedOnce
    <3> QED
      BY <1>1, <1>8, <2>1, <3>1 DEF SavedOnce, RegisteredOnce
  <2>2. CASE k # "save"
    BY <1>1, <1>8, <1>9, <2>2 DEF SavedOnce, RegisteredOnce
  <2> QED
    BY <2>1, <2>2
<1>12. OneBehind'
  <2>1. ASSUME NEW c PROVE BatchDetail(c)' = BatchDetail(c)
    BY <1>1 DEF BatchDetail
  <2>2. CASE overlapped'
    BY <2>2 DEF OneBehind, OneRuns, ReadsNow, ShowsNow
  <2>3. CASE ~overlapped'
    <3>1. ~overlapped /\ \A j \in Handler : op[j].pc = "idle"
      BY <1>1, <2>3
    <3>2. \A j \in Handler : op'[j].pc # "idle" => j = k
      BY <1>8, <3>1
    <3>3. \A j \in Handler : op'[j].pc # "fresh"
      BY <1>8, <3>1
    <3> QED
      BY <1>1, <2>1, <3>1, <3>2, <3>3 DEF OneBehind, OneRuns, ReadsNow, ShowsNow
  <2> QED
    BY <2>2, <2>3
<1> QED
  BY <1>8, <1>10, <1>11, <1>12

LEMMA RecordOf ==
  ASSUME NEW p, NEW b, NEW i, NEW u, NEW v,
         NEW r \in [pc: {p}, batch: {b}, bag: {i}, unit: {u}, view: {v}]
  PROVE  r = [pc |-> p, batch |-> b, bag |-> i, unit |-> u, view |-> v]
  OBVIOUS

(* What the server does with a request, by the button it came from. *)
LEMMA ServeEffect ==
  ASSUME ScreenShape, NEW k \in Handler, Serve(k)
  PROVE  \E q :
           /\ op' = [op EXCEPT ![k] = q]
           /\ op'[k] = q
           /\ q = [pc |-> q.pc, batch |-> q.batch, bag |-> q.bag, unit |-> q.unit, view |-> q.view]
           /\ q.batch = op[k].batch /\ q.unit = op[k].unit
           /\ q.pc = IF k = "resolve" THEN "fresh" ELSE "stored"
           /\ k = "resolve" => q.view = BatchDetail(q.batch) /\ UNCHANGED bags
           /\ k = "save" =>
                /\ bags' = Append(bags, [unit |-> q.unit, batch |-> q.batch, status |-> "new"])
                /\ q.bag = Len(bags) + 1
           /\ k # "resolve" /\ k # "save" => q.bag = op[k].bag
<1>1. PICK r, p, b, i, u, v :
        r = op[k] /\ r = [pc |-> p, batch |-> b, bag |-> i, unit |-> u, view |-> v]
  BY DEF Serve, ScreenShape, HandlerShape
<1>7. r \in [pc: {p}, batch: {b}, bag: {i}, unit: {u}, view: {v}]
  BY <1>1
<1>2. b = op[k].batch /\ i = op[k].bag /\ u = op[k].unit
  BY <1>1
<1>3. ASSUME NEW q, op' = [op EXCEPT ![k] = q]
      PROVE  op'[k] = q
  BY <1>3 DEF ScreenShape
<1>4. CASE k = "resolve"
  <2>1. PICK q : q = [r EXCEPT !.pc = "fresh", !.view = BatchDetail(b)]
    OBVIOUS
  <2>4. q \in [pc: {"fresh"}, batch: {b}, bag: {i}, unit: {u}, view: {BatchDetail(b)}]
    BY <1>7, <2>1
  <2>6. q = [pc |-> "fresh", batch |-> b, bag |-> i, unit |-> u, view |-> BatchDetail(b)]
    BY <2>4, RecordOf
  <2>2. op' = [op EXCEPT ![k].pc = "fresh", ![k].view = BatchDetail(op[k].batch)] /\ UNCHANGED bags
    BY <1>4 DEF Serve
  <2>3. op' = [op EXCEPT ![k] = [r EXCEPT !.pc = "fresh", !.view = BatchDetail(b)]]
    BY <1>1, <1>2, <2>2 DEF ScreenShape
  <2>5. op' = [op EXCEPT ![k] = q]
    BY <2>1, <2>3, Zenon
  <2> QED
    BY <1>2, <1>3, <1>4, <2>2, <2>5, <2>6
<1>5. CASE k = "save"
  <2>1. PICK q : q = [r EXCEPT !.pc = "stored", !.bag = Len(bags) + 1]
    OBVIOUS
  <2>4. q \in [pc: {"stored"}, batch: {b}, bag: {Len(bags) + 1}, unit: {u}, view: {v}]
    BY <1>7, <2>1
  <2>6. q = [pc |-> "stored", batch |-> b, bag |-> Len(bags) + 1, unit |-> u, view |-> v]
    BY <2>4, RecordOf
  <2>2. /\ op' = [op EXCEPT ![k].pc = "stored", ![k].bag = Len(bags) + 1]
        /\ bags' = Append(bags, [unit |-> op[k].unit, batch |-> op[k].batch, status |-> "new"])
    BY <1>5 DEF Serve
  <2>3. op' = [op EXCEPT ![k] = [r EXCEPT !.pc = "stored", !.bag = Len(bags) + 1]]
    BY <1>1, <1>2, <2>2 DEF ScreenShape
  <2>5. op' = [op EXCEPT ![k] = q]
    BY <2>1, <2>3, Zenon
  <2> QED
    BY <1>2, <1>3, <1>5, <2>2, <2>5, <2>6
<1>6. CASE k \in {"correct", "void"}
  <2>1. PICK q : q = [r EXCEPT !.pc = "stored"]
    OBVIOUS
  <2>4. q \in [pc: {"stored"}, batch: {b}, bag: {i}, unit: {u}, view: {v}]
    BY <1>7, <2>1
  <2>6. q = [pc |-> "stored", batch |-> b, bag |-> i, unit |-> u, view |-> v]
    BY <2>4, RecordOf
  <2>2. op' = [op EXCEPT ![k].pc = "stored"]
    BY <1>6 DEF Serve
  <2>3. op' = [op EXCEPT ![k] = [r EXCEPT !.pc = "stored"]]
    BY <1>1, <1>2, <2>2 DEF ScreenShape
  <2>5. op' = [op EXCEPT ![k] = q]
    BY <2>1, <2>3, Zenon
  <2>7. k # "resolve" /\ k # "save"
    BY <1>6
  <2>8. /\ q.pc = "stored" /\ q.batch = b /\ q.unit = u /\ q.bag = i
        /\ q = [pc |-> q.pc, batch |-> q.batch, bag |-> q.bag, unit |-> q.unit, view |-> q.view]
    BY <2>6
  <2> QED
    BY <1>2, <1>3, <2>5, <2>7, <2>8
<1> QED
  BY <1>4, <1>5, <1>6 DEF Handler

(* A batch without the package that a handler stored or changed is read as before. *)
LEMMA OtherBatches ==
  ASSUME ScreenShape, NEW k \in Handler, Serve(k), op'[k].pc = "stored", op'[k].batch = op[k].batch,
         NEW b, bags'[op'[k].bag].batch # b
  PROVE  BatchDetail(b)' = BatchDetail(b)
<1>1. DOMAIN bags = 1 .. Len(bags) /\ Len(bags) \in Nat /\ \A i \in DOMAIN bags : bags[i] \in Bag
  BY DEF ScreenShape
<1> DEFINE S == {j \in DOMAIN bags : bags[j].batch = b}
<1>2. /\ S = {j \in DOMAIN bags' : bags'[j].batch = b}
      /\ \A j \in S : bags'[j].status = bags[j].status
  <2>1. CASE k = "save"
    <3>1. /\ bags' = Append(bags, [unit |-> op[k].unit, batch |-> op[k].batch, status |-> "new"])
          /\ op'[k].bag = Len(bags) + 1
      <4>1. PICK q : /\ op'[k] = q /\ q.bag = Len(bags) + 1
                     /\ q.batch = op[k].batch /\ q.unit = op[k].unit
                     /\ bags' = Append(bags, [unit |-> q.unit, batch |-> q.batch, status |-> "new"])
        BY <2>1, ServeEffect
      <4> QED
        BY <4>1
    <3>2. /\ op[k].unit \in Unit /\ op[k].batch \in Batch
      BY <2>1 DEF Serve, ScreenShape, HandlerShape
    <3>3. [unit |-> op[k].unit, batch |-> op[k].batch, status |-> "new"] \in Bag
      BY <3>2 DEF Bag, Status
    <3>4. /\ DOMAIN bags' = 1 .. Len(bags) + 1
          /\ \A i \in 1 .. Len(bags) : bags'[i] = bags[i]
      BY <1>1, <3>1, <3>3 DEF ScreenShape
    <3>5. bags'[Len(bags) + 1].batch # b
      BY <3>1
    <3> QED
      BY <1>1, <3>4, <3>5
  <2>2. CASE k \in {"correct", "void"}
    <3>1. PICK s \in Status : bags' = [bags EXCEPT ![op[k].bag].status = s]
      BY <2>2 DEF Serve, Status
    <3>2. op'[k].bag = op[k].bag
      <4>1. k # "resolve" /\ k # "save"
        BY <2>2
      <4>2. \E q : op'[k] = q /\ q.bag = op[k].bag
        BY <4>1, ServeEffect
      <4> QED
        BY <4>2
    <3>3. DOMAIN bags' = DOMAIN bags
      BY <1>1, <3>1
    <3>4. \A j \in DOMAIN bags :
            bags'[j].batch = bags[j].batch /\ (j # op[k].bag => bags'[j] = bags[j])
      BY <1>1, <3>1 DEF Bag
    <3> QED
      BY <3>2, <3>3, <3>4
  <2>3. CASE k = "resolve"
    <3>1. op'[k].pc = "fresh"
      BY <2>3, ServeEffect
    <3> QED
      BY <3>1
  <2> QED
    BY <2>1, <2>2, <2>3 DEF Handler
<1>3. [j \in S |-> bags[j].status] = [j \in S |-> bags'[j].status]
  BY <1>2
<1> QED
  BY <1>2, <1>3 DEF BatchDetail

(* What the server and the reading of it do leaves the screen alone. *)
LEMMA ServeInv ==
  ASSUME ScreenInv, NEW k \in Handler, Serve(k)
  PROVE  ScreenInv'
<1> USE DEF ScreenInv
<1>1. /\ op[k].pc = "sent"
      /\ UNCHANGED <<screen, handled, doubtful, unseen, overlapped, displaced>>
      /\ HandlerShape(k, op[k])
      /\ "save" \in Handler
  BY DEF Serve, ScreenShape, Handler
<1>2. BagsKept
  BY BagsStep
<1>3. PICK q : /\ op' = [op EXCEPT ![k] = q]
               /\ q = [pc |-> q.pc, batch |-> q.batch, bag |-> q.bag, unit |-> q.unit, view |-> q.view]
               /\ q.batch = op[k].batch /\ q.unit = op[k].unit
               /\ q.pc = IF k = "resolve" THEN "fresh" ELSE "stored"
               /\ k = "resolve" => q.view = BatchDetail(q.batch) /\ UNCHANGED bags
               /\ k = "save" =>
                    /\ bags' = Append(bags, [unit |-> q.unit, batch |-> q.batch, status |-> "new"])
                    /\ q.bag = Len(bags) + 1
               /\ k # "resolve" /\ k # "save" => q.bag = op[k].bag
  BY ServeEffect
<1>4. HandlerShape(k, q)'
  <2>1. k = "resolve" => ReadingOf(q.view, q.batch)
    BY <1>1, <1>3, ReadBatchDetail DEF HandlerShape
  <2>2. k = "resolve" => ReadingOf(q.view, q.batch)'
    BY <1>2, <2>1, ReadingKept
  <2> QED
    BY <1>1, <1>3, <2>2 DEF HandlerShape
<1>5. PICK s : s = screen
  OBVIOUS
<1>6. screen' = s /\ ScreenFields(s)'
  <2>1. s.batch # Nothing => ReadingOf(s.batch, s.batch.id)'
    BY <1>2, <1>5, ReadingKept DEF ScreenShape, ScreenFields
  <2> QED
    BY <1>1, <1>5, <2>1 DEF ScreenShape, ScreenFields
<1>7. /\ ScreenShape'
      /\ op'[k] = q
      /\ \A j \in Handler : j # k => op'[j] = op[j]
  BY <1>2, <1>3, <1>4, <1>6, ShapeStep
<1>8. ASSUME k = "save"
      PROVE  /\ DOMAIN bags' = DOMAIN bags \cup {q.bag}
             /\ bags'[q.bag] = [unit |-> q.unit, batch |-> q.batch, status |-> "new"]
             /\ \A i \in DOMAIN bags : bags'[i] = bags[i]
  <2>1. [unit |-> q.unit, batch |-> q.batch, status |-> "new"] \in Bag
    BY <1>1, <1>3, <1>8 DEF Bag, Status, HandlerShape
  <2>2. bags \in Seq(Bag)
    BY DEF ScreenShape
  <2> QED
    BY <1>3, <1>8, <2>1, <2>2
<1>9. k # "save" => DOMAIN bags' = DOMAIN bags
  BY <1>1 DEF Serve, ScreenShape
<1>10. InPlace'
  <2>1. CASE k = "save"
    <3>1. displaced \/ q.batch = BatchOf[q.unit]
      BY <1>1, <1>3, <2>1 DEF InPlace
    <3> QED
      BY <1>1, <1>2, <1>3, <1>7, <1>8, <2>1, <3>1 DEF InPlace, EntryStaysInItsBatch
  <2>2. CASE k # "save"
    BY <1>1, <1>2, <1>7, <1>9, <2>2 DEF InPlace, EntryStaysInItsBatch, BagsKept
  <2> QED
    BY <2>1, <2>2
<1>11. SavedOnce'
  <2>1. CASE k = "save"
    <3>1. q.unit \in handled /\ \A i \in DOMAIN bags : bags[i].unit = q.unit => q.unit \in doubtful
      BY <1>1, <1>3, <2>1 DEF SavedOnce
    <3> QED
      BY <1>1, <1>3, <1>7, <1>8, <2>1, <3>1 DEF SavedOnce, RegisteredOnce
  <2>2. CASE k # "save"
    <3>1. \A i \in DOMAIN bags : bags[i].status = "voided" => bags'[i].status = "voided"
      BY <1>1, <2>2 DEF Serve, ScreenShape, Bag
    <3> QED
      BY <1>1, <1>2, <1>3, <1>7, <1>9, <2>2, <3>1 DEF SavedOnce, RegisteredOnce, BagsKept
  <2> QED
    BY <2>1, <2>2
<1>12. OneBehind'
  <2>1. CASE overlapped
    BY <1>1, <2>1 DEF OneBehind
  <2>2. CASE ~overlapped
    <3>1. /\ \A j, h \in Handler : op'[j].pc # "idle" /\ op'[h].pc # "idle" => j = h
          /\ \A j \in Handler : j # k => op'[j].pc = "idle"
      BY <1>1, <1>7, <2>2 DEF OneBehind, OneRuns, ReadsNow, ShowsNow
    <3>2. \/ screen.batch = Nothing
          \/ screen.batch.id \in unseen
          \/ screen.batch = BatchDetail(screen.batch.id)
      BY <1>1, <2>2 DEF OneBehind, OneRuns, ReadsNow, ShowsNow
    <3>3. CASE k = "resolve"
      <4>1. op'[k].pc = "fresh" /\ op'[k].view = q.view /\ op'[k].batch = q.batch
        BY <1>3, <1>7, <3>3
      <4>2. q.view = BatchDetail(q.batch)'
        BY <1>3, <3>3 DEF BatchDetail
      <4>3. ReadsNow'
        BY <3>1, <4>1, <4>2 DEF ReadsNow, BatchDetail
      <4>4. OneRuns'
        BY <3>1 DEF OneRuns
      <4>5. ShowsNow'
        BY <4>1 DEF ShowsNow
      <4> QED
        BY <4>3, <4>4, <4>5 DEF OneBehind
    <3>4. CASE k # "resolve"
      <4>1. q.pc = "stored"
        BY <1>3, <3>4
      <4>2. PICK b : b = screen.batch.id
        OBVIOUS
      <4>3. bags'[q.bag].batch = b \/ BatchDetail(b)' = BatchDetail(b)
        BY <1>3, <1>7, <4>1, OtherBatches
      <4>4. \/ screen'.batch = Nothing
            \/ screen'.batch.id \in unseen'
            \/ screen'.batch = (BatchDetail(screen.batch.id))'
            \/ op'[k].pc = "stored" /\ bags'[op'[k].bag].batch = screen'.batch.id
        BY <1>1, <1>7, <3>2, <4>1, <4>2, <4>3
      <4>5. ReadsNow'
        BY <1>7, <3>1, <4>1 DEF ReadsNow
      <4>6. OneRuns'
        BY <3>1 DEF OneRuns
      <4>7. ShowsNow'
        BY <4>4 DEF ShowsNow
      <4> QED
        BY <4>5, <4>6, <4>7 DEF OneBehind
    <3> QED
      BY <3>3, <3>4
  <2> QED
    BY <2>1, <2>2
<1> QED
  BY <1>7, <1>10, <1>11, <1>12

(* The batch of the closure is read: the screen waits for the answer. *)
LEMMA RefreshInv ==
  ASSUME ScreenInv, NEW k \in Handler, RefreshBatch(k)
  PROVE  ScreenInv'
<1> USE DEF ScreenInv
<1>1. /\ op[k].pc = "stored"
      /\ op' = [op EXCEPT ![k].pc = "fresh", ![k].view = BatchDetail(op[k].batch)]
      /\ UNCHANGED <<bags, screen, handled, doubtful, unseen, overlapped, displaced>>
      /\ HandlerShape(k, op[k])
      /\ "save" \in Handler
  BY DEF RefreshBatch, ScreenShape, Handler
<1>2. BagsKept
  BY <1>1, BagsStay
<1>3. PICK r, p, b, g, u, v :
        r = op[k] /\ r = [pc |-> p, batch |-> b, bag |-> g, unit |-> u, view |-> v]
  BY <1>1 DEF HandlerShape
<1>4. b = op[k].batch /\ g = op[k].bag /\ u = op[k].unit
  BY <1>3
<1>5. PICK w : w = BatchDetail(b)
  OBVIOUS
<1>6. PICK q : q = [r EXCEPT !.pc = "fresh", !.view = w]
  OBVIOUS
<1>7. r \in [pc: {p}, batch: {b}, bag: {g}, unit: {u}, view: {v}]
  BY <1>3
<1>8. q \in [pc: {"fresh"}, batch: {b}, bag: {g}, unit: {u}, view: {w}]
  BY <1>6, <1>7
<1>9. q = [pc |-> "fresh", batch |-> b, bag |-> g, unit |-> u, view |-> w]
  BY <1>8, RecordOf
<1>10. op' = [op EXCEPT ![k] = [r EXCEPT !.pc = "fresh", !.view = w]]
  BY <1>1, <1>3, <1>4, <1>5 DEF ScreenShape
<1>11. op' = [op EXCEPT ![k] = q]
  BY <1>6, <1>10, Zenon
<1>12. ReadingOf(w, b)'
  <2>1. ReadingOf(w, b)
    BY <1>1, <1>4, <1>5, ReadBatchDetail DEF HandlerShape
  <2> QED
    BY <1>2, <2>1, ReadingKept
<1>13. q = [pc |-> q.pc, batch |-> q.batch, bag |-> q.bag, unit |-> q.unit, view |-> q.view]
  BY <1>9
<1>14. q.pc = "fresh" /\ q.batch = b /\ q.bag = g /\ q.unit = u /\ q.view = w
  BY <1>9
<1>15. HandlerShape(k, q)'
  BY <1>1, <1>4, <1>12, <1>13, <1>14 DEF HandlerShape
<1>16. PICK s : s = screen
  OBVIOUS
<1>17. screen' = s /\ ScreenFields(s)'
  <2>1. s.batch # Nothing => ReadingOf(s.batch, s.batch.id)'
    BY <1>2, <1>16, ReadingKept DEF ScreenShape, ScreenFields
  <2> QED
    BY <1>1, <1>16, <2>1 DEF ScreenShape, ScreenFields
<1>18. /\ ScreenShape'
       /\ op'[k] = q
       /\ \A j \in Handler : j # k => op'[j] = op[j]
  BY <1>2, <1>11, <1>15, <1>17, ShapeStep
<1>19. InPlace'
  <2>1. op'["save"].pc \in {"sent", "idle"} => op'["save"] = op["save"]
    BY <1>1, <1>14, <1>18
  <2>2. /\ op'["save"].pc \in {"stored", "fresh"} => op["save"].pc \in {"stored", "fresh"}
        /\ op'["save"].pc \in {"stored", "fresh"} =>
             op'["save"].bag = op["save"].bag /\ op'["save"].batch = op["save"].batch
    BY <1>1, <1>4, <1>14, <1>18
  <2> QED
    BY <1>1, <2>1, <2>2 DEF InPlace, EntryStaysInItsBatch
<1>20. SavedOnce'
  <2>1. op'["save"].pc = "sent" => op["save"].pc = "sent"
    BY <1>1, <1>14, <1>18
  <2>2. /\ (op'["save"].pc = "idle") = (op["save"].pc = "idle")
        /\ op'["save"].unit = op["save"].unit
    <3>1. CASE k = "save"
      BY <1>1, <1>4, <1>14, <1>18, <3>1
    <3>2. CASE k # "save"
      BY <1>1, <1>18, <3>2
    <3> QED
      BY <3>1, <3>2
  <2>3. RegisteredOnce'
    BY <1>1 DEF SavedOnce, RegisteredOnce
  <2>4. /\ (op["save"].pc # "idle" => op["save"].unit \in handled)'
        /\ (screen.draft \in handled => op["save"].pc # "idle" /\ op["save"].unit = screen.draft)'
    BY <1>1, <2>2 DEF SavedOnce
  <2>5. (op["save"].pc = "sent" =>
           \A i \in DOMAIN bags : bags[i].unit = op["save"].unit => bags[i].unit \in doubtful)'
    BY <1>1, <2>1, <2>2 DEF SavedOnce
  <2>6. /\ (\A i \in DOMAIN bags : bags[i].unit \in handled \cup doubtful)'
        /\ (handled \cup doubtful \subseteq Unit)'
    BY <1>1 DEF SavedOnce
  <2> QED
    BY <2>3, <2>4, <2>5, <2>6 DEF SavedOnce
<1>21. OneBehind'
  <2>1. CASE overlapped
    BY <1>1, <2>1 DEF OneBehind
  <2>2. CASE ~overlapped
    <3>1. \A j \in Handler : j # k => op'[j].pc = "idle"
      BY <1>1, <1>18, <2>2 DEF OneBehind, OneRuns
    <3>2. op'[k].pc = "fresh" /\ op'[k].view = w /\ op'[k].batch = b
      BY <1>14, <1>18
    <3>3. w = BatchDetail(b)'
      BY <1>1, <1>5 DEF BatchDetail
    <3>4. OneRuns'
      BY <3>1 DEF OneRuns
    <3>5. ReadsNow'
      BY <3>1, <3>2, <3>3 DEF ReadsNow, BatchDetail
    <3>6. ShowsNow'
      BY <3>2 DEF ShowsNow
    <3> QED
      BY <3>4, <3>5, <3>6 DEF OneBehind
  <2> QED
    BY <2>1, <2>2
<1> QED
  BY <1>18, <1>19, <1>20, <1>21

(* A handler that ends leaves the others as they are. *)
LEMMA FinishStep ==
  ASSUME ScreenShape, NEW k \in Handler, Finish(k), UNCHANGED bags, ScreenFields(screen)'
  PROVE  /\ ScreenShape'
         /\ op'[k].pc = "idle"
         /\ \A j \in Handler : j # k => op'[j] = op[j]
<1>1. PICK q : q = [pc |-> "idle"]
  OBVIOUS
<1>2. op' = [op EXCEPT ![k] = q]
  BY <1>1 DEF Finish
<1>3. HandlerShape(k, q)'
  BY <1>1 DEF HandlerShape
<1>4. PICK s : s = screen'
  OBVIOUS
<1>5. ScreenFields(s)'
  BY <1>4 DEF ScreenFields, ReadingOf
<1>6. BagsKept
  BY BagsStay
<1>7. ScreenShape' /\ op'[k] = q /\ \A j \in Handler : j # k => op'[j] = op[j]
  BY <1>2, <1>3, <1>4, <1>5, <1>6, ShapeStep
<1> QED
  BY <1>1, <1>7

(* What an answer makes of the screen, by its handler. *)
LEMMA AnsweredEffect ==
  ASSUME ScreenShape, NEW k \in Handler, NEW q, NEW print \in BOOLEAN
  PROVE  LET s == Answered(k, q, print) IN
           /\ s = [batch |-> s.batch, draft |-> s.draft, label |-> s.label,
                   correction |-> s.correction, voiding |-> s.voiding]
           /\ s.batch = q.view
           /\ s.draft = IF k \in {"resolve", "save"} THEN Nothing ELSE screen.draft
           /\ s.label = IF k = "resolve" \/ (k = "save" /\ ~print) THEN Nothing
                        ELSE IF k = "save" THEN q.bag ELSE screen.label
<1>1. screen = [batch |-> screen.batch, draft |-> screen.draft, label |-> screen.label,
                correction |-> screen.correction, voiding |-> screen.voiding]
  BY DEF ScreenShape, ScreenFields
<1>2. CASE k = "resolve"
  BY <1>1, <1>2 DEF Answered, EnterBatch
<1>3. CASE k = "save"
  BY <1>1, <1>3 DEF Answered, UnitSaved
<1>4. CASE k \in {"correct", "void"}
  BY <1>1, <1>4 DEF Answered, UnitEdited
<1> QED
  BY <1>2, <1>3, <1>4 DEF Handler


(* An answer puts its batch on the screen: the draft goes, is of that batch, or displaced. *)
LEMMA AnswerInv ==
  ASSUME ScreenInv, NEW k \in Handler, NEW print \in BOOLEAN, Answer(k, print)
  PROVE  ScreenInv'
<1> USE DEF ScreenInv
<1>1. PICK q : q = op[k]
  OBVIOUS
<1>2. /\ q.pc = "fresh"
      /\ screen' = Answered(k, q, print)
      /\ unseen' = unseen \ {q.batch}
      /\ displaced' = (displaced \/ /\ k \in {"correct", "void"}
                                    /\ ~Shows(q.batch)
                                    /\ screen.draft # Nothing \/ screen.label # Nothing)
      /\ Finish(k)
      /\ UNCHANGED <<bags, handled, doubtful, overlapped>>
  BY <1>1 DEF Answer
<1>3. /\ ReadingOf(q.view, q.batch)
      /\ q.batch \in Batch
      /\ k = "save" => q.unit \in Unit
      /\ "save" \in Handler
      /\ k \in {"resolve", "save", "correct", "void"}
  BY <1>1, <1>2 DEF ScreenShape, HandlerShape, Handler
<1>4. /\ screen' = [batch |-> screen'.batch, draft |-> screen'.draft, label |-> screen'.label,
                    correction |-> screen'.correction, voiding |-> screen'.voiding]
      /\ screen'.batch = q.view
      /\ screen'.draft = IF k \in {"resolve", "save"} THEN Nothing ELSE screen.draft
      /\ screen'.label = IF k = "resolve" \/ (k = "save" /\ ~print) THEN Nothing
                         ELSE IF k = "save" THEN q.bag ELSE screen.label
  BY <1>2, AnsweredEffect
<1>5. screen'.batch # Nothing /\ screen'.batch.id = q.batch
  BY <1>3, <1>4 DEF ReadingOf
<1>6. ReadingOf(q.view, q.batch)'
  <2>1. BagsKept
    BY <1>2, BagsStay
  <2> QED
    BY <1>3, <2>1, ReadingKept
<1>7. ScreenFields(screen)'
  BY <1>3, <1>4, <1>5, <1>6 DEF ScreenShape, ScreenFields, ReadingOf
<1>8. ScreenShape' /\ op'[k].pc = "idle" /\ \A j \in Handler : j # k => op'[j] = op[j]
  BY <1>2, <1>7, FinishStep
<1>9. op'["save"].pc # "idle" => k # "save" /\ op'["save"] = op["save"]
  BY <1>3, <1>8
<1>10. InPlace'
  <2>1. CASE k \in {"resolve", "save"}
    <3>1. screen'.draft = Nothing
      BY <1>4, <2>1
    <3>2. screen'.label # Nothing => k = "save" /\ screen'.label = q.bag
      BY <1>4, <2>1
    <3>3. k = "save" => q.bag \in DOMAIN bags /\ bags[q.bag].batch = q.batch
      BY <1>1, <1>2 DEF InPlace
    <3>4. displaced' <=> displaced
      BY <1>2, <2>1
    <3> QED
      BY <1>2, <1>5, <1>9, <3>1, <3>2, <3>3, <3>4 DEF InPlace, EntryStaysInItsBatch
  <2>2. CASE k \in {"correct", "void"}
    <3>1. screen'.draft = screen.draft /\ screen'.label = screen.label
      BY <1>4, <2>2
    <3>2. CASE displaced'
      <4>1. EntryStaysInItsBatch'
        BY <3>2 DEF EntryStaysInItsBatch
      <4> QED
        BY <1>2, <1>9, <3>2, <4>1 DEF InPlace
    <3>3. CASE ~displaced'
      <4>1. ~displaced /\ (Shows(q.batch) \/ (screen.draft = Nothing /\ screen.label = Nothing))
        BY <1>2, <2>2, <3>3
      <4> QED
        BY <1>2, <1>5, <1>9, <3>1, <4>1 DEF InPlace, EntryStaysInItsBatch, Shows
    <3> QED
      BY <3>2, <3>3
  <2> QED
    BY <1>3, <2>1, <2>2
<1>11. SavedOnce'
  <2>1. RegisteredOnce'
    BY <1>2 DEF SavedOnce, RegisteredOnce
  <2>2. Nothing \notin handled
    BY NothingAssumption DEF SavedOnce
  <2>3. screen'.draft \in handled => k \in {"correct", "void"} /\ screen'.draft = screen.draft
    BY <1>3, <1>4, <2>2
  <2>4. k # "save" => op'["save"] = op["save"]
    BY <1>3, <1>8
  <2>5. (screen.draft \in handled => op["save"].pc # "idle" /\ op["save"].unit = screen.draft)'
    BY <1>2, <2>3, <2>4 DEF SavedOnce
  <2> QED
    BY <1>2, <1>9, <2>1, <2>5 DEF SavedOnce
<1>12. OneBehind'
  <2>1. CASE overlapped
    BY <1>2, <2>1 DEF OneBehind
  <2>2. CASE ~overlapped
    <3>1. \A j \in Handler : op'[j].pc = "idle"
      BY <1>1, <1>2, <1>8, <2>2 DEF OneBehind, OneRuns
    <3>2. q.view = BatchDetail(q.batch)
      BY <1>1, <1>2, <2>2 DEF OneBehind, ReadsNow
    <3>3. PICK b : b = q.batch
      OBVIOUS
    <3>4. BatchDetail(b)' = BatchDetail(b)
      BY <1>2 DEF BatchDetail
    <3>5. (screen.batch = BatchDetail(screen.batch.id))'
      BY <1>4, <1>5, <3>2, <3>3, <3>4
    <3>6. OneRuns' /\ ReadsNow'
      BY <3>1 DEF OneRuns, ReadsNow
    <3>7. ShowsNow'
      BY <3>5 DEF ShowsNow
    <3> QED
      BY <3>6, <3>7 DEF OneBehind
  <2> QED
    BY <2>1, <2>2
<1> QED
  BY <1>8, <1>10, <1>11, <1>12

(* A failure: what was stored is doubtful, and its batch is not what the screen shows. *)
LEMMA FailInv ==
  ASSUME ScreenInv, NEW k \in Handler, Fail(k)
  PROVE  ScreenInv'
<1> USE DEF ScreenInv
<1>1. PICK q : q = op[k]
  OBVIOUS
<1>2. /\ q.pc \in {"sent", "stored"}
      /\ screen' = IF k = "save" THEN [screen EXCEPT !.label = Nothing] ELSE screen
      /\ handled' = handled \ {q.unit}
      /\ doubtful' = IF q.pc = "stored" /\ k = "save" THEN doubtful \cup {q.unit} ELSE doubtful
      /\ unseen' = IF q.pc = "stored" THEN unseen \cup {bags[q.bag].batch} ELSE unseen
      /\ Finish(k)
      /\ UNCHANGED <<bags, overlapped, displaced>>
  BY <1>1 DEF Fail
<1>3. /\ IF k = "save" THEN q.unit \in Unit ELSE q.unit = Nothing
      /\ "save" \in Handler
  BY <1>1, <1>2 DEF ScreenShape, HandlerShape, Handler
<1>4. /\ screen' = [batch |-> screen'.batch, draft |-> screen'.draft, label |-> screen'.label,
                    correction |-> screen'.correction, voiding |-> screen'.voiding]
      /\ screen'.batch = screen.batch /\ screen'.draft = screen.draft
      /\ screen'.label \in {screen.label, Nothing}
  BY <1>2 DEF ScreenShape, ScreenFields
<1>5. ScreenFields(screen)'
  <2>1. BagsKept
    BY <1>2, BagsStay
  <2>2. PICK v : v = screen.batch
    OBVIOUS
  <2>3. v # Nothing => ReadingOf(v, v.id)' /\ v.id \in Batch
    BY <2>1, <2>2, ReadingKept DEF ScreenShape, ScreenFields
  <2> QED
    BY <1>4, <2>2, <2>3 DEF ScreenShape, ScreenFields, ReadingOf
<1>6. ScreenShape' /\ op'[k].pc = "idle" /\ \A j \in Handler : j # k => op'[j] = op[j]
  BY <1>2, <1>5, FinishStep
<1>7. op'["save"].pc # "idle" => k # "save" /\ op'["save"] = op["save"]
  BY <1>3, <1>6
<1>8. InPlace'
  BY <1>2, <1>4, <1>7 DEF InPlace, EntryStaysInItsBatch
<1>9. SavedOnce'
  <2>1. Nothing \notin handled
    BY NothingAssumption DEF SavedOnce
  <2>2. CASE k = "save"
    <3>1. q.unit \in handled /\ (q.pc = "sent" => \A i \in DOMAIN bags : bags[i].unit = q.unit => q.unit \in doubtful)
      BY <1>1, <1>2, <2>2 DEF SavedOnce
    <3>2. screen.draft \in handled => screen.draft = q.unit
      BY <1>1, <2>2 DEF SavedOnce
    <3>3. (\A i \in DOMAIN bags : bags[i].unit \in handled \cup doubtful)'
      BY <1>2, <2>2, <3>1 DEF SavedOnce
    <3>4. screen'.draft \notin handled'
      BY <1>2, <1>4, <3>2
    <3>5. (handled \cup doubtful \subseteq Unit)'
      BY <1>2, <1>3, <2>2 DEF SavedOnce
    <3>6. RegisteredOnce'
      BY <1>2 DEF SavedOnce, RegisteredOnce
    <3> QED
      BY <1>7, <2>2, <3>3, <3>4, <3>5, <3>6 DEF SavedOnce
  <2>3. CASE k # "save"
    <3>1. handled' = handled /\ doubtful' = doubtful /\ op'["save"] = op["save"]
      BY <1>2, <1>3, <1>6, <2>1, <2>3
    <3> QED
      BY <1>2, <1>4, <3>1 DEF SavedOnce, RegisteredOnce
  <2> QED
    BY <2>2, <2>3
<1>10. OneBehind'
  <2>1. CASE overlapped
    BY <1>2, <2>1 DEF OneBehind
  <2>2. CASE ~overlapped
    <3>1. \A j \in Handler : op'[j].pc = "idle" /\ (j # k => op[j].pc = "idle")
      BY <1>1, <1>2, <1>6, <2>2 DEF OneBehind, OneRuns
    <3>2. PICK b : b = screen.batch.id
      OBVIOUS
    <3>3. BatchDetail(b)' = BatchDetail(b)
      BY <1>2 DEF BatchDetail
    <3>4. \/ screen.batch = Nothing \/ b \in unseen \/ screen.batch = BatchDetail(b)
          \/ q.pc = "stored" /\ bags[q.bag].batch = b
      BY <1>1, <1>2, <2>2, <3>1, <3>2 DEF OneBehind, ShowsNow
    <3>5. (\/ screen.batch = Nothing \/ screen.batch.id \in unseen
           \/ screen.batch = BatchDetail(screen.batch.id))'
      BY <1>2, <1>4, <3>2, <3>3, <3>4
    <3>6. OneRuns' /\ ReadsNow'
      BY <3>1 DEF OneRuns, ReadsNow
    <3>7. ShowsNow'
      BY <3>5 DEF ShowsNow
    <3> QED
      BY <3>6, <3>7 DEF OneBehind
  <2> QED
    BY <2>1, <2>2
<1> QED
  BY <1>6, <1>8, <1>9, <1>10


LEMMA ScreenStepInv == ScreenInv /\ [ScreenNext]_screenVars => ScreenInv'
<1> SUFFICES ASSUME ScreenInv, [ScreenNext]_screenVars
             PROVE  ScreenInv'
  OBVIOUS
<1> USE DEF ScreenInv
<1>1. /\ {"resolve", "save", "correct", "void"} \subseteq Handler
      /\ screen = [batch |-> screen.batch, draft |-> screen.draft, label |-> screen.label,
                   correction |-> screen.correction, voiding |-> screen.voiding]
      /\ screen.batch # Nothing => screen.batch.id \in Batch
      /\ screen.draft # Nothing => screen.draft \in Unit
  BY DEF ScreenShape, ScreenFields, Handler
<1>2. ASSUME NEW b \in Batch, ResolveResource(b)
      PROVE  ScreenInv'
  BY <1>1, <1>2, StartStep DEF ResolveResource
<1>3. CASE SubmitBag
  <2>1. /\ screen.batch # Nothing /\ screen.draft # Nothing
        /\ Start("save", screen.batch.id, Nothing, screen.draft)
        /\ handled' = handled \cup {screen.draft}
        /\ UNCHANGED screen
    BY <1>3 DEF SubmitBag, BatchShown
  <2> QED
    BY <1>1, <2>1, StartStep
<1>4. CASE SubmitCorrection
  <2>1. /\ screen.batch # Nothing
        /\ Start("correct", screen.batch.id, screen.correction, Nothing)
        /\ UNCHANGED <<screen, handled>>
    BY <1>4 DEF SubmitCorrection, CorrectionShown, BatchShown
  <2> QED
    BY <1>1, <2>1, StartStep
<1>5. CASE SubmitVoid
  <2>1. /\ screen.batch # Nothing
        /\ Start("void", screen.batch.id, screen.voiding, Nothing)
        /\ UNCHANGED <<screen, handled>>
    BY <1>5 DEF SubmitVoid, VoidShown, BatchShown
  <2> QED
    BY <1>1, <2>1, StartStep
<1>6. ASSUME NEW u \in Unit, UpdateDraft(u)
      PROVE  ScreenInv'
  <2>1. PICK s : s = [screen EXCEPT !.draft = u]
    OBVIOUS
  <2>2. /\ s = [batch |-> s.batch, draft |-> s.draft, label |-> s.label,
                correction |-> s.correction, voiding |-> s.voiding]
        /\ s.batch = screen.batch /\ s.draft = u /\ s.label = screen.label
    BY <1>1, <2>1
  <2>3. OnScreen(s) /\ u \notin handled /\ screen.batch # Nothing /\ screen.batch.id = BatchOf[u]
    BY <1>6, <2>1 DEF UpdateDraft, BatchShown
  <2> QED
    BY <2>2, <2>3, ScreenOnly
<1>7. CASE AnotherResource
  BY <1>7, ScreenOnly DEF AnotherResource, EnterDelivery
<1>8. ASSUME NEW i, OpenCorrection(i) \/ OpenVoid(i) \/ CancelPanel \/ CloseLabel
      PROVE  ScreenInv'
  <2>1. PICK s : /\ OnScreen(s)
                 /\ s = [batch |-> s.batch, draft |-> s.draft, label |-> s.label,
                         correction |-> s.correction, voiding |-> s.voiding]
                 /\ s.batch = screen.batch /\ s.draft = screen.draft
                 /\ s.label \in {screen.label, Nothing}
    <3>1. CASE OpenCorrection(i)
      <4>1. PICK s : s = [screen EXCEPT !.correction = i, !.voiding = Nothing]
        OBVIOUS
      <4>2. OnScreen(s)
        BY <3>1, <4>1 DEF OpenCorrection
      <4>3. /\ s = [batch |-> s.batch, draft |-> s.draft, label |-> s.label,
                    correction |-> s.correction, voiding |-> s.voiding]
            /\ s.batch = screen.batch /\ s.draft = screen.draft
            /\ s.label \in {screen.label, Nothing}
        BY <1>1, <4>1
      <4> QED
        BY <4>2, <4>3
    <3>2. CASE OpenVoid(i)
      <4>1. PICK s : s = [screen EXCEPT !.voiding = i, !.correction = Nothing]
        OBVIOUS
      <4>2. OnScreen(s)
        BY <3>2, <4>1 DEF OpenVoid
      <4>3. /\ s = [batch |-> s.batch, draft |-> s.draft, label |-> s.label,
                    correction |-> s.correction, voiding |-> s.voiding]
            /\ s.batch = screen.batch /\ s.draft = screen.draft
            /\ s.label \in {screen.label, Nothing}
        BY <1>1, <4>1
      <4> QED
        BY <4>2, <4>3
    <3>3. CASE CancelPanel
      <4>1. PICK s : s = [screen EXCEPT !.voiding = Nothing, !.correction = Nothing]
        OBVIOUS
      <4>2. OnScreen(s)
        BY <3>3, <4>1 DEF CancelPanel
      <4>3. /\ s = [batch |-> s.batch, draft |-> s.draft, label |-> s.label,
                    correction |-> s.correction, voiding |-> s.voiding]
            /\ s.batch = screen.batch /\ s.draft = screen.draft
            /\ s.label \in {screen.label, Nothing}
        BY <1>1, <4>1
      <4> QED
        BY <4>2, <4>3
    <3>4. CASE CloseLabel
      <4>1. PICK s : s = [screen EXCEPT !.label = Nothing]
        OBVIOUS
      <4>2. OnScreen(s)
        BY <3>4, <4>1 DEF CloseLabel
      <4>3. /\ s = [batch |-> s.batch, draft |-> s.draft, label |-> s.label,
                    correction |-> s.correction, voiding |-> s.voiding]
            /\ s.batch = screen.batch /\ s.draft = screen.draft
            /\ s.label \in {screen.label, Nothing}
        BY <1>1, <4>1
      <4> QED
        BY <4>2, <4>3
    <3> QED
      BY <1>8, <3>1, <3>2, <3>3, <3>4
  <2> QED
    BY <2>1, ScreenOnly
<1>9. ASSUME NEW i, ReprintUnit(i)
      PROVE  ScreenInv'
  <2>1. PICK s : s = [screen EXCEPT !.label = i]
    OBVIOUS
  <2>2. /\ s = [batch |-> s.batch, draft |-> s.draft, label |-> s.label,
                correction |-> s.correction, voiding |-> s.voiding]
        /\ s.batch = screen.batch /\ s.draft = screen.draft /\ s.label = i
    BY <1>1, <2>1
  <2>3. OnScreen(s) /\ screen.batch # Nothing /\ i \in DOMAIN screen.batch.shown
    BY <1>9, <2>1 DEF ReprintUnit, Offered, BatchShown
  <2>4. i \in DOMAIN bags /\ bags[i].batch = screen.batch.id
    BY <2>3 DEF ScreenShape, ScreenFields, ReadingOf
  <2> QED
    BY <2>2, <2>3, <2>4, ScreenOnly
<1>10. ASSUME NEW k \in Handler, NEW print \in BOOLEAN,
              Serve(k) \/ RefreshBatch(k) \/ Answer(k, print) \/ Fail(k)
       PROVE  ScreenInv'
  BY <1>10, ServeInv, RefreshInv, AnswerInv, FailInv
<1>11. CASE UNCHANGED screenVars
  <2>1. screen' = screen /\ UNCHANGED <<bags, op, handled, doubtful, unseen, overlapped, displaced>>
    BY <1>11 DEF screenVars
  <2>2. OnScreen(screen)
    BY <2>1 DEF OnScreen
  <2> QED
    BY <1>1, <2>2, ScreenOnly
<1> QED
  BY <1>2, <1>3, <1>4, <1>5, <1>6, <1>7, <1>8, <1>9, <1>10, <1>11 DEF ScreenNext

LEMMA ScreenInvariance == ScreenSpec => []ScreenInv
  BY ScreenInitInv, ScreenStepInv, PTL DEF ScreenSpec

(* A physical package has one active registration, unless its save was stored and      *)
(* reported to the worker as failed: the button of a save is disabled while it runs,    *)
(* and an answer takes the saved draft off the form (submitBag, applyUnitSaved).         *)
THEOREM RegisteredOnceAlways == ScreenSpec => []RegisteredOnce
<1>1. ScreenInv => RegisteredOnce
  BY DEF ScreenInv, SavedOnce
<1> QED
  BY <1>1, ScreenInvariance, PTL

(* A package is stored in the batch it was entered for, unless a correction or void     *)
(* has put its batch under the draft: the other answers take the draft away (enterBatch,  *)
(* applyUnitSaved).                                                                *)
THEOREM EntryStays == ScreenSpec => []EntryStaysInItsBatch
<1>1. ScreenInv => EntryStaysInItsBatch
  BY DEF ScreenInv, InPlace
<1> QED
  BY <1>1, ScreenInvariance, PTL

(* The label panel prints a package of the batch on the screen, with the same exception.  *)
THEOREM LabelOfBatch == ScreenSpec => []LabelOfItsBatch
<1>1. ScreenInv => LabelOfItsBatch
  BY DEF ScreenInv, InPlace, LabelOfItsBatch
<1> QED
  BY <1>1, ScreenInvariance, PTL

(* With no handler running the screen shows the batch as the server has it, of what this  *)
(* worker has done, unless handlers overlapped or the refresh of a change failed         *)
(* (refreshBatchAndDelivery reads the batch after the change).                          *)
THEOREM OwnWork == ScreenSpec => []OwnWorkShown
<1>1. ScreenInv => OwnWorkShown
  <2> SUFFICES ASSUME ScreenInv, ~overlapped, \A k \in Handler : op[k].pc = "idle"
               PROVE  \/ screen.batch = Nothing
                      \/ screen.batch.id \in unseen
                      \/ screen.batch = BatchDetail(screen.batch.id)
    BY DEF OwnWorkShown
  <2> QED
    BY DEF ScreenInv, OneBehind, ShowsNow
<1> QED
  BY <1>1, ScreenInvariance, PTL


-----------------------------------------------------------------------------
Rows == [Listed -> UserRow \cup {NoRow}]
UserCall == [pc: {"sent", "stored", "loaded"}, kind: {"create", "edit", "reset", "toggle"},
             user: Listed, row: UserRow \cup {NoRow}, base: Rows \cup {NoRow}]
CallShape(q) ==
  q.pc # "idle" =>
    /\ q \in UserCall
    /\ q.pc = "sent" /\ q.kind # "reset" => q.row \in UserRow
    /\ q.pc = "stored" /\ q.kind \in {"edit", "toggle"} => q.row \in UserRow
    /\ q.kind = "edit" => q.base \in Rows
    /\ q.pc = "loaded" => q.kind \in {"create", "reset"} /\ q.base \in Rows

UsersTypeOK ==
  /\ rows \in Rows
  /\ list \in Rows
  /\ panel \in Listed \cup {NoRow}
  /\ running = [s \in Slot |-> running[s]]
  /\ \A s \in Slot : CallShape(running[s])

(* Handlers in flight together are toggles of different users. *)
Apart ==
  \A s, t \in Busy : s # t => ~WholeList(running[s].kind) /\ running[s].user # running[t].user

(* What a handler is going to put into the list is what the server has. *)
Carries(q) ==
  /\ q.pc = "stored" /\ q.kind \in {"edit", "toggle"} => q.row = rows[q.user]
  /\ q.kind \in {"edit", "toggle"} => list[q.user] # NoRow
  /\ q.kind = "edit" => q.base = list
  /\ q.pc = "loaded" => q.base = rows

(* A row differs from the server's while the handler that changed it has not answered. *)
Behind(u) ==
  \/ u \in unknown
  \/ list[u] = rows[u]
  \/ \E s \in Slot : running[s].pc \in {"stored", "loaded"} /\ running[s].user = u

(* No user is removed, so whoever is in a list that will be shown is there. *)
Within(shown) == \A u \in Listed : shown[u] # NoRow => rows[u] # NoRow
NobodyGone ==
  /\ Within(list)
  /\ panel # NoRow => rows[panel] # NoRow
  /\ \A s \in Busy :
       running[s].kind = "edit" \/ running[s].pc = "loaded" => Within(running[s].base)

(* What is going to make up for handlers that overlapped. *)
Heals == \A s \in alone : Busy = {s} /\ running[s].pc = "loaded" /\ running[s].base = rows

UsersInv ==
  /\ UsersTypeOK
  /\ NobodyGone
  /\ Heals
  /\ mixed \/ /\ Apart
              /\ \A s \in Busy : Carries(running[s])
              /\ \A u \in Listed : Behind(u)
              /\ panel # NoRow => list[panel] # NoRow

LEMMA UsersInitInv == UsersInit => UsersInv
<1> SUFFICES ASSUME UsersInit PROVE UsersInv
  OBVIOUS
<1>1. PICK admin \in Listed, r \in RoleSets :
        rows = [u \in Listed |-> IF u = admin THEN [active |-> TRUE, roles |-> r] ELSE NoRow]
  BY DEF UsersInit
<1>2. rows \in Rows
  BY <1>1 DEF Rows, UserRow
<1>3. /\ list = rows /\ panel = NoRow /\ unknown = {} /\ alone = {}
      /\ running = [s \in Slot |-> [pc |-> "idle"]]
  BY DEF UsersInit
<1>4. UsersTypeOK
  BY <1>2, <1>3 DEF UsersTypeOK, CallShape
<1>5. Busy = {}
  BY <1>3 DEF Busy
<1> QED
  BY <1>3, <1>4, <1>5 DEF UsersInv, Apart, Behind, NobodyGone, Within, Heals

(* A step of one handler. *)
LEMMA HandlerStep ==
  ASSUME UsersTypeOK, NEW s \in Slot, NEW q, running' = [running EXCEPT ![s] = q], CallShape(q),
         rows' \in Rows, list' \in Rows, panel' \in Listed \cup {NoRow}
  PROVE  /\ UsersTypeOK'
         /\ running'[s] = q
         /\ \A t \in Slot : t # s => running'[t] = running[t]
         /\ Busy' = IF q.pc = "idle" THEN Busy \ {s} ELSE Busy \cup {s}
<1>1. running'[s] = q /\ \A t \in Slot : t # s => running'[t] = running[t]
  BY DEF UsersTypeOK
<1>2. running' = [t \in Slot |-> running'[t]]
  BY <1>1 DEF UsersTypeOK
<1>3. \A t \in Slot : CallShape(running[t])'
  <2>1. \A t \in Slot : CallShape(running'[t])
    BY <1>1 DEF UsersTypeOK
  <2> QED
    BY <2>1 DEF CallShape, UserCall, Rows, UserRow
<1>4. Busy' = IF q.pc = "idle" THEN Busy \ {s} ELSE Busy \cup {s}
  BY <1>1 DEF Busy
<1> QED
  BY <1>1, <1>2, <1>3, <1>4 DEF UsersTypeOK, Rows, UserRow

LEMMA StartHandlerInv ==
  ASSUME UsersInv, NEW s \in Slot, NEW kind \in {"create", "edit", "reset", "toggle"},
         NEW u \in Listed, NEW row,
         StartHandler(s, kind, u, row), UNCHANGED panel,
         IF kind = "reset" THEN row = NoRow ELSE row \in UserRow,
         kind \in {"edit", "toggle"} => mixed \/ list[u] # NoRow
  PROVE  UsersInv'
<1> USE DEF UsersInv
<1>1. PICK q : q = [pc |-> "sent", kind |-> kind, user |-> u, row |-> row,
                    base |-> IF kind \in {"edit", "toggle"} THEN list ELSE NoRow]
  OBVIOUS
<1>2. /\ s \notin Busy
      /\ running' = [running EXCEPT ![s] = q]
      /\ mixed' = (mixed \/ \E t \in Busy :
                     WholeList(kind) \/ WholeList(running[t].kind) \/ running[t].user = u)
      /\ alone' = {}
      /\ UNCHANGED <<rows, list, unknown>>
  BY <1>1 DEF StartHandler
<1>3. q.pc = "sent" /\ q.kind = kind /\ q.user = u /\ q.row = row
      /\ (kind \in {"edit", "toggle"} => q.base = list)
  BY <1>1
<1>4. CallShape(q)
  <2>1. q \in UserCall
    BY <1>1 DEF UsersTypeOK, UserCall
  <2> QED
    BY <1>3, <2>1 DEF CallShape, UsersTypeOK
<1>5. /\ UsersTypeOK'
      /\ running'[s] = q
      /\ \A t \in Slot : t # s => running'[t] = running[t]
      /\ Busy' = Busy \cup {s}
  BY <1>2, <1>3, <1>4, HandlerStep DEF UsersTypeOK
<1>6. ASSUME ~mixed'
      PROVE  /\ Apart'
             /\ (\A t \in Busy : Carries(running[t]))'
             /\ (\A v \in Listed : Behind(v))'
  <2>1. /\ ~mixed
        /\ \A t \in Busy : ~WholeList(kind) /\ ~WholeList(running[t].kind) /\ running[t].user # u
    BY <1>2, <1>6
  <2>2. Busy \subseteq Slot /\ \A t \in Busy : t # s /\ running'[t] = running[t]
    BY <1>2, <1>5 DEF Busy
  <2>3. Apart'
    BY <1>3, <1>5, <2>1, <2>2 DEF Apart
  <2>4. (\A t \in Busy : Carries(running[t]))'
    <3>1. Carries(running[s])'
      BY <1>2, <1>3, <1>5, <2>1 DEF Carries
    <3>2. \A t \in Busy : Carries(running[t])'
      BY <1>2, <2>1, <2>2 DEF Carries
    <3> QED
      BY <1>5, <3>1, <3>2
  <2>5. ASSUME NEW v \in Listed PROVE Behind(v)'
    <3>1. running[s].pc = "idle"
      BY <1>2 DEF Busy
    <3> QED
      BY <1>2, <1>5, <2>1, <3>1 DEF Behind
  <2> QED
    BY <2>3, <2>4, <2>5
<1>7. mixed => mixed'
  BY <1>2
<1>8. NobodyGone' /\ Heals'
  <2>1. \A t \in Busy : t # s /\ running'[t] = running[t]
    BY <1>2, <1>5 DEF Busy
  <2> QED
    BY <1>2, <1>3, <1>5, <2>1 DEF NobodyGone, Within, Heals
<1> QED
  BY <1>2, <1>5, <1>6, <1>7, <1>8


LEMMA StoreUserInv ==
  ASSUME UsersInv, NEW s \in Slot, StoreUser(s)
  PROVE  UsersInv'
<1> USE DEF UsersInv
<1>1. PICK q : q = running[s]
  OBVIOUS
<1>2. PICK row : row = Stored(q)
  OBVIOUS
<1>3. PICK p : p = [q EXCEPT !.pc = "stored",
                             !.row = IF q.kind \in {"edit", "toggle"} THEN row ELSE NoRow]
  OBVIOUS
<1>4. /\ q.pc = "sent"
      /\ (q.kind = "create") <=> (rows[q.user] = NoRow)
      /\ rows' = [rows EXCEPT ![q.user] = row]
      /\ running' = [running EXCEPT ![s] = p]
      /\ UNCHANGED <<list, panel, granted>>
  BY <1>1, <1>2, <1>3, Zenon DEF StoreUser
<1>5. /\ q \in UserCall /\ q.user \in Listed
      /\ q.kind # "reset" => q.row \in UserRow
      /\ q.kind = "edit" => q.base \in Rows
      /\ rows[q.user] \in UserRow \cup {NoRow}
      /\ q.kind # "create" => rows[q.user] \in UserRow
  BY <1>1, <1>4 DEF UsersTypeOK, CallShape, UserCall, Rows
<1>6. row \in UserRow
  <2>1. CASE q.kind = "toggle"
    <3>1. q.row.active \in BOOLEAN
      BY <1>5, <2>1 DEF UserRow
    <3>2. row = [rows[q.user] EXCEPT !.active = q.row.active]
      BY <1>2, <2>1 DEF Stored
    <3> QED
      BY <1>5, <2>1, <3>1, <3>2 DEF UserRow
  <2> QED
    BY <1>2, <1>5, <2>1 DEF Stored, UserCall
<1>7. /\ p \in UserCall
      /\ p.pc = "stored" /\ p.kind = q.kind /\ p.user = q.user /\ p.base = q.base
      /\ q.kind \in {"edit", "toggle"} => p.row = row
  BY <1>3, <1>5, <1>6 DEF UserCall
<1>8. CallShape(p)
  BY <1>5, <1>6, <1>7 DEF CallShape
<1>9. rows' \in Rows
  BY <1>4, <1>5, <1>6 DEF UsersTypeOK, Rows
<1>10. /\ UsersTypeOK'
       /\ running'[s] = p
       /\ \A t \in Slot : t # s => running'[t] = running[t]
       /\ Busy' = Busy
  <2>1. s \in Busy
    BY <1>1, <1>4 DEF Busy
  <2>2. rows' \in Rows /\ list' \in Rows /\ panel' \in Listed \cup {NoRow}
    BY <1>4, <1>9 DEF UsersTypeOK
  <2>3. p.pc # "idle" /\ Busy \cup {s} = Busy
    BY <1>7, <2>1
  <2> QED
    BY <1>4, <1>8, <2>2, <2>3, HandlerStep
<1>11. /\ rows'[q.user] = row
       /\ \A u \in Listed : u # q.user => rows'[u] = rows[u]
  BY <1>4, <1>5 DEF UsersTypeOK, Rows
<1>12. ASSUME ~mixed
       PROVE  /\ Apart'
              /\ (\A t \in Busy : Carries(running[t]))'
              /\ (\A u \in Listed : Behind(u))'
  <2>1. Busy \subseteq Slot /\ s \in Busy
    BY <1>1, <1>4 DEF Busy
  <2>2. Apart'
    BY <1>1, <1>7, <1>10, <1>12, <2>1 DEF Apart
  <2>3. Carries(p)'
    BY <1>1, <1>4, <1>7, <1>11, <1>12, <2>1 DEF Carries
  <2>4. ASSUME NEW t \in Busy, t # s PROVE Carries(running[t])'
    <3>1. /\ running[t].user \in Listed /\ running[t].user # q.user
          /\ ~WholeList(running[t].kind) /\ running'[t] = running[t]
          /\ Carries(running[t])
          /\ running[t].pc = "loaded" => WholeList(running[t].kind)
      BY <1>1, <1>10, <1>12, <2>1, <2>4
         DEF Apart, UsersTypeOK, CallShape, UserCall, Busy, WholeList
    <3>2. running[t].kind # "edit" /\ running[t].pc # "loaded"
      BY <3>1 DEF WholeList
    <3> QED
      BY <1>4, <1>11, <3>1, <3>2 DEF Carries
  <2>5. (\A t \in Busy : Carries(running[t]))'
    BY <1>10, <2>3, <2>4 DEF Carries
  <2>6. ASSUME NEW u \in Listed PROVE Behind(u)'
    BY <1>1, <1>4, <1>7, <1>10, <1>11, <1>12 DEF Behind, granted
  <2> QED
    BY <1>4, <2>2, <2>5, <2>6
<1>13. NobodyGone'
  <2>1. \A u \in Listed : rows[u] # NoRow => rows'[u] # NoRow
    BY <1>6, <1>11, NoRowAssumption DEF UserRow
  <2>2. \A t \in Busy : t \in Slot /\ running'[t].kind = running[t].kind
                       /\ running'[t].base = running[t].base
                       /\ (running'[t].pc = "loaded" => running[t].pc = "loaded")
    BY <1>1, <1>7, <1>10 DEF Busy
  <2>3. panel # NoRow => panel \in Listed
    BY DEF UsersTypeOK
  <2> QED
    BY <1>4, <1>10, <2>1, <2>2, <2>3 DEF NobodyGone, Within
<1>14. Heals'
  <2>1. s \in Busy /\ running[s].pc # "loaded"
    BY <1>1, <1>4 DEF Busy
  <2>2. alone = {}
    BY <2>1 DEF Heals
  <2> QED
    BY <1>4, <2>2 DEF Heals, granted
<1> QED
  BY <1>4, <1>10, <1>12, <1>13, <1>14 DEF granted

LEMMA ReloadUsersInv ==
  ASSUME UsersInv, NEW s \in Slot, ReloadUsers(s)
  PROVE  UsersInv'
<1> USE DEF UsersInv
<1>1. PICK q : q = running[s]
  OBVIOUS
<1>2. PICK p : p = [q EXCEPT !.pc = "loaded", !.base = rows]
  OBVIOUS
<1>3. /\ q.pc = "stored" /\ q.kind \in {"create", "reset"}
      /\ alone' = IF Busy = {s} THEN {s} ELSE {}
      /\ UNCHANGED <<rows, list, panel, mixed, unknown>>
  BY <1>1 DEF ReloadUsers
<1>4. running' = [running EXCEPT ![s] = p]
  <2>1. running' = [running EXCEPT ![s] = [q EXCEPT !.pc = "loaded", !.base = rows]]
    BY <1>1 DEF ReloadUsers, UsersTypeOK
  <2> QED
    BY <1>2, <2>1, Zenon
<1>5. /\ q \in UserCall
  BY <1>1, <1>3 DEF UsersTypeOK, CallShape
<1>6. /\ p \in UserCall
      /\ p.pc = "loaded" /\ p.kind = q.kind /\ p.user = q.user /\ p.base = rows
  BY <1>2, <1>5 DEF UserCall, UsersTypeOK
<1>7. CallShape(p)
  BY <1>3, <1>6 DEF CallShape, UsersTypeOK
<1>8. /\ UsersTypeOK'
      /\ running'[s] = p
      /\ \A t \in Slot : t # s => running'[t] = running[t]
      /\ Busy' = Busy
  <2>1. s \in Busy
    BY <1>1, <1>3 DEF Busy
  <2>2. rows' \in Rows /\ list' \in Rows /\ panel' \in Listed \cup {NoRow}
    BY <1>3 DEF UsersTypeOK
  <2>3. p.pc # "idle" /\ Busy \cup {s} = Busy
    BY <1>6, <2>1
  <2> QED
    BY <1>4, <1>7, <2>2, <2>3, HandlerStep
<1>9. ASSUME ~mixed
      PROVE  /\ Apart'
             /\ (\A t \in Busy : Carries(running[t]))'
             /\ (\A u \in Listed : Behind(u))'
  <2>1. Busy \subseteq Slot
    BY DEF Busy
  <2>2. Apart'
    BY <1>1, <1>6, <1>8, <1>9, <2>1 DEF Apart
  <2>3. Carries(p)'
    BY <1>3, <1>6 DEF Carries
  <2>4. \A t \in Busy : t # s => Carries(running[t])'
    BY <1>3, <1>8, <1>9, <2>1 DEF Carries
  <2>5. \A u \in Listed : Behind(u)'
    BY <1>1, <1>3, <1>6, <1>8, <1>9 DEF Behind
  <2> QED
    BY <1>8, <2>1, <2>2, <2>3, <2>4, <2>5 DEF Carries
<1>10. NobodyGone'
  <2>1. Within(rows) /\ \A t \in Busy : t \in Slot
    BY DEF Within, Busy
  <2> QED
    BY <1>3, <1>6, <1>8, <2>1 DEF NobodyGone, Within
<1>11. Heals'
  BY <1>3, <1>6, <1>8 DEF Heals
<1> QED
  BY <1>3, <1>8, <1>9, <1>10, <1>11

LEMMA AnswerHandlerInv ==
  ASSUME UsersInv, NEW s \in Slot, AnswerHandler(s)
  PROVE  UsersInv'
<1> USE DEF UsersInv
<1>1. PICK q : q = running[s]
  OBVIOUS
<1>2. /\ q.pc = IF q.pc # "idle" /\ q.kind \in {"create", "reset"} THEN "loaded" ELSE "stored"
      /\ list' = ListAfter(q)
      /\ panel' = IF q.kind = "edit" THEN NoRow ELSE panel
      /\ running' = [running EXCEPT ![s] = [pc |-> "idle"]]
      /\ mixed' = (mixed /\ s \notin alone)
      /\ unknown' = IF s \in alone THEN {} ELSE unknown
      /\ alone' = {}
      /\ UNCHANGED rows
  BY <1>1 DEF AnswerHandler
<1>3. /\ q \in UserCall /\ q.user \in Listed /\ s \in Busy
      /\ q.kind \in {"edit", "toggle"} => q.pc = "stored" /\ q.row \in UserRow
      /\ q.kind \in {"create", "reset"} => q.pc = "loaded" /\ q.base \in Rows
      /\ q.kind = "edit" => q.base \in Rows
  BY <1>1, <1>2 DEF UsersTypeOK, CallShape, UserCall, Busy
<1>4. q.kind \in {"create", "edit", "reset", "toggle"}
  BY <1>3 DEF UserCall
<1>5. /\ q.kind \in {"create", "reset"} => list' = q.base
      /\ q.kind = "edit" => list' = RowReplaced(q.base, q)
      /\ q.kind = "toggle" => list' = RowReplaced(list, q)
  BY <1>2 DEF ListAfter
<1>6. list' \in Rows
  BY <1>3, <1>4, <1>5 DEF RowReplaced, Rows, UsersTypeOK
<1>7. /\ UsersTypeOK'
      /\ running'[s].pc = "idle"
      /\ \A t \in Slot : t # s => running'[t] = running[t]
      /\ Busy' = Busy \ {s}
  <2>1. PICK p : p = [pc |-> "idle"]
    OBVIOUS
  <2>2. CallShape(p) /\ p.pc = "idle"
    BY <2>1 DEF CallShape
  <2>3. panel' \in Listed \cup {NoRow} /\ rows' \in Rows
    BY <1>2 DEF UsersTypeOK
  <2>4. running' = [running EXCEPT ![s] = p]
    BY <1>2, <2>1
  <2> QED
    BY <1>6, <2>2, <2>3, <2>4, HandlerStep
<1>8. ASSUME ~mixed
      PROVE  /\ \A u \in Listed : IF q.kind \in {"create", "reset"} \/ u = q.user
                                  THEN list'[u] = rows[u] ELSE list'[u] = list[u]
             /\ list[q.user] # NoRow \/ q.kind \in {"create", "reset"}
  <2>1. Carries(q)
    BY <1>1, <1>3, <1>8
  <2>2. CASE q.kind \in {"create", "reset"}
    BY <1>3, <1>5, <2>1, <2>2 DEF Carries
  <2>3. CASE q.kind \in {"edit", "toggle"}
    <3>1. list' = RowReplaced(list, q) /\ q.row = rows[q.user] /\ list[q.user] # NoRow
      BY <1>3, <1>5, <2>1, <2>3 DEF Carries
    <3> QED
      BY <2>3, <3>1 DEF RowReplaced
  <2> QED
    BY <1>4, <2>2, <2>3
<1>10. NobodyGone' /\ Heals'
  <2>1. Within(list')
    <3>1. CASE q.kind = "toggle"
      BY <1>5, <3>1 DEF RowReplaced, Within, NobodyGone
    <3>2. CASE q.kind # "toggle"
      <4>1. Within(q.base)
        BY <1>1, <1>3, <1>4, <3>2 DEF NobodyGone
      <4> QED
        BY <1>4, <1>5, <3>2, <4>1 DEF RowReplaced, Within
    <3> QED
      BY <3>1, <3>2
  <2>2. \A t \in Busy' : t \in Busy /\ running'[t] = running[t]
    BY <1>7 DEF Busy
  <2>3. panel' # NoRow => panel' = panel
    BY <1>2
  <2>4. Within(list)'
    BY <1>2, <2>1 DEF Within
  <2> QED
    BY <1>2, <2>2, <2>3, <2>4 DEF NobodyGone, Within, Heals
<1>11. CASE s \in alone
  <2>1. list' = rows /\ Busy' = {}
    BY <1>1, <1>3, <1>4, <1>5, <1>7, <1>11 DEF Heals
  <2>2. Apart' /\ (\A t \in Busy : Carries(running[t]))'
    BY <2>1 DEF Apart
  <2>3. (\A u \in Listed : Behind(u))'
    BY <1>2, <2>1 DEF Behind
  <2>4. (panel # NoRow => list[panel] # NoRow)'
    BY <1>2, <2>1 DEF NobodyGone
  <2> QED
    BY <1>7, <1>10, <2>2, <2>3, <2>4
<1>9. ASSUME ~mixed, s \notin alone
      PROVE  /\ Apart'
             /\ (\A t \in Busy : Carries(running[t]))'
             /\ (\A u \in Listed : Behind(u))'
             /\ (panel # NoRow => list[panel] # NoRow)'
  <2>1. Busy \subseteq Slot
    BY DEF Busy
  <2>2. Apart'
    BY <1>7, <1>9, <2>1 DEF Apart
  <2>3. ASSUME NEW t \in Busy, t # s PROVE Carries(running[t])'
    <3>1. /\ running[t].user \in Listed /\ running[t].user # q.user
          /\ ~WholeList(running[t].kind) /\ ~WholeList(q.kind) /\ running'[t] = running[t]
          /\ Carries(running[t])
          /\ running[t].pc = "loaded" => WholeList(running[t].kind)
      BY <1>1, <1>3, <1>7, <1>9, <2>1, <2>3
         DEF Apart, UsersTypeOK, CallShape, UserCall, Busy, WholeList
    <3>2. running[t].kind # "edit" /\ running[t].pc # "loaded" /\ q.kind \notin {"create", "reset"}
      BY <3>1 DEF WholeList
    <3>3. list'[running[t].user] = list[running[t].user]
      BY <1>8, <1>9, <3>1, <3>2
    <3> QED
      BY <1>2, <3>1, <3>2, <3>3 DEF Carries
  <2>4. ASSUME NEW u \in Listed PROVE Behind(u)'
    <3>1. CASE list'[u] = rows[u]
      BY <1>2, <3>1 DEF Behind
    <3>2. CASE list'[u] = list[u] /\ u # q.user
      BY <1>1, <1>2, <1>7, <1>9, <3>2 DEF Behind
    <3> QED
      BY <1>8, <1>9, <3>1, <3>2
  <2>6. panel' # NoRow => panel' = panel /\ panel \in Listed /\ rows[panel] # NoRow /\ list[panel] # NoRow
    BY <1>2, <1>9 DEF UsersTypeOK, NobodyGone
  <2>7. (panel # NoRow => list[panel] # NoRow)'
    BY <1>8, <1>9, <2>6
  <2> QED
    BY <1>7, <2>2, <2>3, <2>4, <2>7
<1> QED
  BY <1>2, <1>7, <1>9, <1>10, <1>11

LEMMA FailHandlerInv ==
  ASSUME UsersInv, NEW s \in Slot, FailHandler(s)
  PROVE  UsersInv'
<1> USE DEF UsersInv
<1>1. /\ s \in Busy
      /\ unknown' = IF running[s].pc = "sent" THEN unknown ELSE unknown \cup {running[s].user}
      /\ running' = [running EXCEPT ![s] = [pc |-> "idle"]]
      /\ alone' = {}
      /\ UNCHANGED <<rows, list, panel, mixed>>
  BY DEF FailHandler
<1>2. /\ UsersTypeOK'
      /\ running'[s].pc = "idle"
      /\ \A t \in Slot : t # s => running'[t] = running[t]
      /\ Busy' = Busy \ {s}
  <2>1. PICK p : p = [pc |-> "idle"]
    OBVIOUS
  <2>2. CallShape(p) /\ p.pc = "idle"
    BY <2>1 DEF CallShape
  <2>3. panel' \in Listed \cup {NoRow} /\ rows' \in Rows /\ list' \in Rows
    BY <1>1 DEF UsersTypeOK
  <2>4. running' = [running EXCEPT ![s] = p]
    BY <1>1, <2>1
  <2> QED
    BY <2>2, <2>3, <2>4, HandlerStep
<1>3. ASSUME ~mixed
      PROVE  /\ Apart'
             /\ (\A t \in Busy : Carries(running[t]))'
             /\ (\A u \in Listed : Behind(u))'
  <2>1. Busy \subseteq Slot
    BY DEF Busy
  <2>2. Apart'
    BY <1>2, <1>3, <2>1 DEF Apart
  <2>3. \A t \in Busy : t # s => Carries(running[t])'
    BY <1>1, <1>2, <1>3, <2>1 DEF Carries
  <2>4. ASSUME NEW u \in Listed PROVE Behind(u)'
    BY <1>1, <1>2, <1>3 DEF Behind
  <2> QED
    BY <1>2, <2>2, <2>3, <2>4
<1>4. NobodyGone' /\ Heals'
  <2>1. \A t \in Busy' : t \in Busy /\ running'[t] = running[t]
    BY <1>2 DEF Busy
  <2> QED
    BY <1>1, <2>1 DEF NobodyGone, Within, Heals
<1> QED
  BY <1>1, <1>2, <1>3, <1>4


LEMMA UsersStepInv == UsersInv /\ [UsersNext]_usersScreenVars => UsersInv'
<1> SUFFICES ASSUME UsersInv, [UsersNext]_usersScreenVars
             PROVE  UsersInv'
  OBVIOUS
<1>1. UsersTypeOK
  BY DEF UsersInv
<1>2. ASSUME UNCHANGED <<rows, list, running, granted>>,
             panel' = panel \/ panel' = NoRow \/ (panel' \in Listed /\ list[panel'] # NoRow)
      PROVE  UsersInv'
  <2>1. UsersTypeOK' /\ Busy' = Busy
    BY <1>2 DEF UsersInv, UsersTypeOK, CallShape, UserCall, Rows, UserRow, Busy
  <2>2. NobodyGone' /\ Heals'
    BY <1>2, <2>1 DEF UsersInv, NobodyGone, Within, Heals, granted
  <2>3. (mixed \/ /\ Apart
                  /\ \A s \in Busy : Carries(running[s])
                  /\ \A u \in Listed : Behind(u)
                  /\ panel # NoRow => list[panel] # NoRow)'
    BY <1>2, <2>1 DEF UsersInv, Apart, Carries, Behind, granted
  <2> QED
    BY <2>1, <2>2, <2>3 DEF UsersInv
<1>3. ASSUME NEW s \in Slot, NEW u \in Listed, NEW r \in RoleSets, OnCreate(s, u, r)
      PROVE  UsersInv'
  <2>1. [active |-> TRUE, roles |-> r] \in UserRow
    BY DEF UserRow
  <2> QED
    BY <1>3, <2>1, StartHandlerInv DEF OnCreate
<1>4. ASSUME NEW s \in Slot, NEW row \in UserRow, SaveEdit(s, row)
      PROVE  UsersInv'
  <2>1. panel \in Listed /\ (mixed \/ list[panel] # NoRow)
    BY <1>1, <1>4 DEF SaveEdit, EditShown, UsersInv, UsersTypeOK
  <2> QED
    BY <1>4, <2>1, StartHandlerInv DEF SaveEdit, EditShown
<1>5. ASSUME NEW s \in Slot, NEW u \in Listed, ToggleActive(s, u)
      PROVE  UsersInv'
  <2>1. list[u] # NoRow /\ list[u] \in UserRow
    BY <1>1, <1>5 DEF ToggleActive, RowShown, UsersTypeOK, Rows
  <2>2. [list[u] EXCEPT !.active = ~@] \in UserRow
    BY <2>1 DEF UserRow
  <2> QED
    BY <1>5, <2>1, <2>2, StartHandlerInv DEF ToggleActive, RowShown
<1>6. ASSUME NEW s \in Slot, SubmitPasswordReset(s)
      PROVE  UsersInv'
  <2>1. panel \in Listed
    BY <1>1, <1>6 DEF SubmitPasswordReset, EditShown, UsersTypeOK
  <2> QED
    BY <1>6, <2>1, StartHandlerInv DEF SubmitPasswordReset, EditShown
<1>7. ASSUME NEW s \in Slot, StoreUser(s) \/ ReloadUsers(s) \/ AnswerHandler(s) \/ FailHandler(s)
      PROVE  UsersInv'
  BY <1>7, StoreUserInv, ReloadUsersInv, AnswerHandlerInv, FailHandlerInv
<1>8. ASSUME NEW u \in Listed, StartEdit(u)
      PROVE  UsersInv'
  BY <1>2, <1>8 DEF StartEdit, RowShown
<1>9. CASE CloseEdit \/ UNCHANGED usersScreenVars
  BY <1>2, <1>9 DEF CloseEdit, usersScreenVars
<1> QED
  BY <1>3, <1>4, <1>5, <1>6, <1>7, <1>8, <1>9 DEF UsersNext

LEMMA UsersInvariance == UsersSpec => []UsersInv
  BY UsersInitInv, UsersStepInv, PTL DEF UsersSpec

(* With no handler running the list is what the server has, toggles of several users in  *)
(* flight together included: each replaces its row of the list there is (applyUserUpdate   *)
(* in ToggleActive).  Excepted, until a list is loaded and shown with no other handler      *)
(* running, is the list after a handler that replaces the whole list overlapped another     *)
(* one or two handlers of one user did, and every user whose change was reported as failed.  *)
THEOREM ListFollows == UsersSpec => []ListFollowsServer
<1>1. UsersInv => ListFollowsServer
  BY DEF UsersInv, ListFollowsServer, Behind, Busy
<1> QED
  BY <1>1, UsersInvariance, PTL
=============================================================================
