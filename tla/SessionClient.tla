---------------------------- MODULE SessionClient ----------------------------
(***************************************************************************)
(* The session as the browser sees it: AuthProvider, the pages that use it      *)
(* (login, profile, whatever answers 401) and the cookie, which JavaScript        *)
(* cannot read.  One tab; the API's side is in Sessions.                        *)
(*                                                                         *)
(* A response sets or clears the cookie when its headers arrive; its handler      *)
(* goes on when it has read the body.                                          *)
(***************************************************************************)
CONSTANTS
  Somebody, \* accounts
  Nobody    \* no cookie, no user

VARIABLES
  jar,      \* whose token the cookie holds
  user,     \* the user of AuthProvider
  visit,    \* the calls in flight
  expired,  \* history: the cookie ran out and no answer has said so yet
  crossed   \* history: the answer applied last was one that an earlier cookie had earned,
            \* or that of a load, a login or a logout has been lost since

clientVars == <<jar, user, visit, expired, crossed>>

-----------------------------------------------------------------------------
CallKind == {"load", "login", "logout", "profile"}
NotCalling == [pc |-> "idle"]

(* "old" and "lapsed" are history: a login or logout, or the end of the cookie, since. *)
Sending(who) == [pc |-> "sent", who |-> who, old |-> FALSE, lapsed |-> FALSE]

(* A page load: AuthProvider asks who the cookie belongs to. *)
Mounted(cookie) == [k \in CallKind |-> IF k = "load" THEN Sending(cookie) ELSE NotCalling]

ClientInit ==
  /\ jar \in Somebody \cup {Nobody}
  /\ user = Nobody
  /\ visit = Mounted(jar)
  /\ expired = FALSE
  /\ crossed = FALSE

(* The browser reloads the page; what was in flight is dropped. *)
ReloadPage ==
  /\ user' = Nobody
  /\ visit' = Mounted(jar)
  /\ expired' = FALSE
  /\ crossed' = FALSE
  /\ UNCHANGED jar

(* JWT_ACCESS_TTL. *)
ExpireCookie ==
  /\ jar # Nobody
  /\ jar' = Nobody
  /\ expired' = TRUE
  /\ visit' = [k \in CallKind |->
       IF visit[k].pc = "idle" THEN visit[k] ELSE [visit[k] EXCEPT !.lapsed = TRUE]]
  /\ UNCHANGED <<user, crossed>>

-----------------------------------------------------------------------------
Call(k, who) ==
  /\ visit[k].pc = "idle"
  /\ visit' = [visit EXCEPT ![k] = Sending(who)]
  /\ UNCHANGED <<jar, user, expired, crossed>>

(* The login page is left as soon as there is a user; it is not while one is loaded. *)
SubmitLogin(who) == user = Nobody /\ Call("login", who)

RequestLogout == user # Nobody /\ Call("logout", jar)

(* saveName, or any other request of a page: the answer may be 401. *)
SaveProfile == user # Nobody /\ Call("profile", jar)

(* The headers of a login or logout; the other calls now belong to another cookie. *)
SetCookie(k) ==
  /\ k \in {"login", "logout"}
  /\ visit[k].pc = "sent"
  /\ jar' = IF k = "login" THEN visit[k].who ELSE Nobody
  /\ visit' = [j \in CallKind |->
       IF j = k THEN [visit[j] EXCEPT !.pc = "headers", !.old = FALSE, !.lapsed = FALSE]
       ELSE IF visit[j].pc = "idle" THEN visit[j] ELSE [visit[j] EXCEPT !.old = TRUE]]
  /\ expired' = FALSE
  /\ UNCHANGED <<user, crossed>>

(* Mutant: the page shows the error of a 401 and leaves the user be. *)
UserKept(k, who) == IF k = "profile" /\ who = Nobody THEN user ELSE who

(* setUser of the load and the login, replaceUser, and clearSession on a 401. *)
UserAfter(k, who) == who

(* The answer of a load, or of another request, to the cookie it was sent with. *)
AnswerWhoami(k) ==
  /\ k \in {"load", "profile"}
  /\ visit[k].pc = "sent"
  /\ user' = UserAfter(k, visit[k].who)
  /\ crossed' = visit[k].old
  /\ expired' = (visit[k].who # Nobody /\ (expired \/ visit[k].lapsed))
  /\ visit' = [visit EXCEPT ![k] = NotCalling]
  /\ UNCHANGED jar

AnswerSignIn ==
  /\ visit["login"].pc = "headers"
  /\ user' = UserAfter("login", visit["login"].who)
  /\ crossed' = visit["login"].old
  /\ expired' = (expired \/ visit["login"].lapsed)
  /\ visit' = [visit EXCEPT !["login"] = NotCalling]
  /\ UNCHANGED jar

(* logout drops the user, whether the API was reached or not. *)
AnswerLogout ==
  /\ visit["logout"].pc \in {"sent", "headers"}
  /\ user' = Nobody
  /\ crossed' = (visit["logout"].old \/ visit["logout"].pc = "sent")
  /\ visit' = [visit EXCEPT !["logout"] = NotCalling]
  /\ UNCHANGED <<jar, expired>>

(* A failed load counts as signed out; a failed login or profile change shows an error. *)
FailCallTo(k) ==
  /\ k # "logout"
  /\ visit[k].pc # "idle"
  /\ user' = IF k = "load" THEN Nobody ELSE user
  /\ crossed' = (crossed \/ k = "load" \/ visit[k].pc = "headers")
  /\ visit' = [visit EXCEPT ![k] = NotCalling]
  /\ UNCHANGED <<jar, expired>>

ClientNext ==
  \/ ReloadPage
  \/ ExpireCookie
  \/ \E who \in Somebody : SubmitLogin(who)
  \/ RequestLogout
  \/ SaveProfile
  \/ \E k \in CallKind : SetCookie(k) \/ AnswerWhoami(k) \/ FailCallTo(k)
  \/ AnswerSignIn
  \/ AnswerLogout

ClientSpec == ClientInit /\ [][ClientNext]_clientVars

-----------------------------------------------------------------------------
(* Between requests the user on the screen is the one the cookie belongs to: the answer  *)
(* of a load, a login, a logout or a 401 makes it so, and an expiry is noticed by the      *)
(* next answer.  Except while the answer applied last is of a call that a login or logout   *)
(* overtook, or after a load, login or logout whose answer was lost, until the next one.    *)
SessionIsCookies ==
  \/ expired
  \/ crossed
  \/ \E k \in CallKind : visit[k].pc # "idle"
  \/ user = jar
=============================================================================
