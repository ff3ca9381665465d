------------------------------- MODULE Session ------------------------------
(* The admin's session in the browser: the token in a cookie that all tabs  *)
(* share (frontend/lib/auth/storage.ts), a tab with its user                *)
(* (lib/auth/context.tsx), the interceptors that attach the token and react *)
(* to a 401 (lib/api/client.ts), the gate in front of /admin                *)
(* (middleware.ts) and the login page (app/admin/login/page.tsx).           *)
(*                                                                          *)
(* A request carries the token there was when it was sent, and its answer   *)
(* is handled by the tab as it is when the answer arrives.  A full load of  *)
(* a page drops the tab's state and its requests; router.push keeps both.   *)
(* One tab is modelled, and what the others do to the cookie at any time.   *)
EXTENDS Integers, FiniteSets

CONSTANTS MaxLogins,   \* bound of the model: successful logins
          MaxFailures  \* bound of the model: requests that get no answer

ASSUME SessionLimits == MaxLogins \in Nat \ {0} /\ MaxFailures \in Nat

VARIABLES cookie,    \* the token in it, or NoToken
          issued,    \* tokens issued, 1..issued
          live,      \* those that have not expired
          known,     \* those whose user the panel still has
          at,        \* the page of the tab: "public", "login" or "panel"
          going,     \* the page it is on the way to, or "stay"
          reload,    \* going there with a full load
          user,      \* whether it has a user
          restoring, \* its `loading'
          due,       \* it has yet to look for the cookie
          me,        \* token of the request for the user that is out, or Idle
          data,      \* token of another request of the page, or Idle
          form,      \* a login ("login"), a logout ("logout") or none is out
          failures

tokenVars == <<cookie, issued, live, known>>
navVars == <<at, going, reload>>
stateVars == <<user, restoring, due>>
reqVars == <<me, data, form>>
seVars == <<tokenVars, navVars, stateVars, reqVars, failures>>

NoToken == 0
Idle == -1

SEInit ==
  /\ cookie = NoToken /\ issued = 0 /\ live = {} /\ known = {}
  /\ at = "public" /\ going = "stay" /\ reload = FALSE
  /\ user = FALSE /\ restoring = FALSE /\ due = FALSE
  /\ me = Idle /\ data = Idle
  /\ form = "none" /\ failures = 0

-----------------------------------------------------------------------------
(* The token expires; the cookie is kept as long, and set a little later.   *)
Expire(k) ==
  /\ k \in live /\ live' = live \ {k}
  /\ UNCHANGED <<cookie, issued, known, navVars, stateVars, reqVars, failures>>

CookieExpires ==
  /\ cookie # NoToken /\ cookie \notin live /\ cookie' = NoToken
  /\ UNCHANGED <<issued, live, known, navVars, stateVars, reqVars, failures>>

(* Other tabs log in, log out, or are answered with a 401.                  *)
LoginElsewhere ==
  /\ issued < MaxLogins
  /\ issued' = issued + 1 /\ cookie' = issued'
  /\ live' = live \cup {issued'} /\ known' = known \cup {issued'}
  /\ UNCHANGED <<navVars, stateVars, reqVars, failures>>

ClearedElsewhere ==
  /\ cookie # NoToken /\ cookie' = NoToken
  /\ UNCHANGED <<issued, live, known, navVars, stateVars, reqVars, failures>>

(* A restarted panel has its account under a new id: tokens issued before   *)
(* are still good for anything but the request for the user.                *)
PanelRestart ==
  /\ known # {} /\ known' = {}
  /\ UNCHANGED <<cookie, issued, live, navVars, stateVars, reqVars, failures>>

(* An address is entered or the page is reloaded, by a user who waits for   *)
(* it to come up (to interrupt that starts the page anew).                  *)
Visit(p) ==
  /\ going = "stay" /\ ~ restoring
  /\ going' = p /\ reload' = TRUE
  /\ UNCHANGED <<tokenVars, at, stateVars, reqVars, failures>>

(* middleware: with a cookie past the login page, without one to it.        *)
Gate(p) == CASE p = "login" /\ cookie # NoToken -> "panel"
             [] p = "panel" /\ cookie = NoToken -> "login"
             [] OTHER -> p

Redirected ==
  /\ going # "stay" /\ Gate(going) # going
  /\ going' = Gate(going)
  /\ UNCHANGED <<tokenVars, at, reload, stateVars, reqVars, failures>>

Arrive ==
  /\ going # "stay" /\ Gate(going) = going
  /\ at' = going
  /\ going' = "stay" /\ reload' = FALSE
  /\ IF reload
     THEN /\ user' = FALSE /\ restoring' = TRUE /\ due' = TRUE
          /\ me' = Idle /\ data' = Idle
          /\ form' = "none"
     ELSE UNCHANGED <<stateVars, reqVars>>
  /\ UNCHANGED <<tokenVars, failures>>

-----------------------------------------------------------------------------
(* AuthProvider mounts: with a token in the cookie it asks for the user.    *)
Restore ==
  /\ due /\ due' = FALSE
  /\ IF cookie = NoToken
     THEN restoring' = FALSE /\ UNCHANGED me
     ELSE me' = cookie /\ UNCHANGED restoring
  /\ UNCHANGED <<tokenVars, navVars, user, data, form, failures>>

(* A password change has the user fetched again.                            *)
Refresh ==
  /\ at = "panel" /\ ~ restoring /\ me = Idle
  /\ me' = cookie
  /\ UNCHANGED <<tokenVars, navVars, stateVars, data, form, failures>>

(* Pages of the panel ask for more when they open, and some poll.           *)
Poll ==
  /\ at = "panel" /\ data = Idle
  /\ data' = cookie
  /\ UNCHANGED <<tokenVars, navVars, stateVars, me, form, failures>>

SubmitLogin ==
  /\ at = "login" /\ form = "none" /\ issued < MaxLogins
  /\ form' = "login"
  /\ UNCHANGED <<tokenVars, navVars, stateVars, me, data, failures>>

Logout ==
  /\ at = "panel" /\ form = "none"
  /\ form' = "logout"
  /\ UNCHANGED <<tokenVars, navVars, stateVars, me, data, failures>>

(* Mutant of On401: on to the login page, with the token still there.       *)
On401KeepsToken(restores) ==
  /\ cookie' = IF restores THEN NoToken ELSE cookie
  /\ IF at = "panel" THEN going' = "login" /\ reload' = TRUE /\ UNCHANGED at
                     ELSE UNCHANGED navVars

(* A 401: on a page of the panel the interceptor clears the cookie and      *)
(* loads the login page; the restore's own handler clears it anywhere.      *)
On401(restores) ==
  /\ cookie' = IF at = "panel" \/ restores THEN NoToken ELSE cookie
  /\ IF at = "panel" THEN going' = "login" /\ reload' = TRUE /\ UNCHANGED at
                     ELSE UNCHANGED navVars

UserAnswered ==
  /\ me \in live \cap known /\ me' = Idle
  /\ user' = TRUE /\ restoring' = FALSE
  /\ UNCHANGED <<tokenVars, navVars, due, data, form, failures>>

UserRefused ==
  /\ me # Idle /\ me \notin live \cap known /\ me' = Idle
  /\ restoring' = FALSE
  /\ On401(restoring)
  /\ UNCHANGED <<issued, live, known, user, due, data, form, failures>>

(* No answer within ten seconds: the restore clears the cookie as well.     *)
UserUnreachable ==
  /\ me # Idle /\ failures < MaxFailures /\ failures' = failures + 1
  /\ me' = Idle /\ restoring' = FALSE
  /\ cookie' = IF restoring THEN NoToken ELSE cookie
  /\ UNCHANGED <<issued, live, known, navVars, user, due, data, form>>

DataAnswered ==
  /\ data # Idle /\ data' = Idle
  /\ IF data \in live THEN UNCHANGED <<cookie, navVars>> ELSE On401(FALSE)
  /\ UNCHANGED <<issued, live, known, stateVars, me, form, failures>>

(* A login is accepted: cookie, user, and to the panel.                     *)
LoggedIn ==
  /\ form = "login" /\ issued < MaxLogins
  /\ form' = "none"
  /\ issued' = issued + 1 /\ cookie' = issued'
  /\ live' = live \cup {issued'} /\ known' = known \cup {issued'}
  /\ user' = TRUE /\ going' = "panel"
  /\ UNCHANGED <<at, reload, restoring, due, me, data, failures>>

LoginFails ==
  /\ form = "login" /\ form' = "none"
  /\ UNCHANGED <<tokenVars, navVars, stateVars, me, data, failures>>

(* Whatever a logout is answered: no cookie, no user, and to the login page.*)
LoggedOut ==
  /\ form = "logout" /\ form' = "none"
  /\ cookie' = NoToken /\ user' = FALSE /\ going' = "login"
  /\ reload' \in {reload, TRUE}
  /\ UNCHANGED <<issued, live, known, at, restoring, due, me, data, failures>>

Navigation == Redirected \/ Arrive
UserRequest == UserAnswered \/ UserRefused
FormRequest == LoggedIn \/ LoginFails \/ LoggedOut

SENext ==
  \/ (\E k \in live : Expire(k)) \/ CookieExpires \/ PanelRestart
  \/ LoginElsewhere \/ ClearedElsewhere
  \/ \E p \in {"public", "login", "panel"} : Visit(p)
  \/ Navigation \/ Restore \/ Refresh \/ Poll \/ SubmitLogin \/ Logout
  \/ UserRequest \/ UserUnreachable \/ DataAnswered \/ FormRequest

SESpec == SEInit /\ [][SENext]_seVars

(* Browsers follow redirects and run effects, and the panel answers or      *)
(* requests time out.                                                       *)
SEFairness ==
  /\ WF_seVars(Navigation) /\ WF_seVars(Restore)
  /\ WF_seVars(UserRequest) /\ WF_seVars(DataAnswered)

-----------------------------------------------------------------------------
SETypeOK ==
  /\ cookie \in NoToken..issued
  /\ live \subseteq 1..issued /\ known \subseteq 1..issued
  /\ me \in Idle..issued /\ data \in Idle..issued
  /\ at \in {"public", "login", "panel"}
  /\ going \in {"stay", "public", "login", "panel"}
  /\ reload => going # "stay"
  /\ due => restoring
  /\ user \in BOOLEAN /\ form \in {"none", "login", "logout"}

(* A tab that shows it is loading has a request out, or its effect to come, *)
(* whose end will have it show a page.                                      *)
RestoreUnderWay == restoring => due \/ me # Idle

Refused == at = "panel" /\ data # Idle /\ data \notin live
Settled == going = "stay" /\ ~ restoring

(* No tab stays on a panel that has refused its token, nor is it sent round *)
(* in circles between the panel and its login page, whatever expires and    *)
(* whatever other tabs do to the cookie meanwhile: it comes to rest.        *)
VisitSettles ==
  /\ Refused ~> (going # "stay" \/ at # "panel")
  /\ (going # "stay" \/ restoring) ~> Settled
=============================================================================
