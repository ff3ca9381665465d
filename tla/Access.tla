------------------------------- MODULE Access -------------------------------
(* Who may do what on the panel, and what is noted of it: the account       *)
(* (database/user_store.go), API tokens and the audit trail                 *)
(* (database/system_store.go), the middlewares (middleware/auth.go,         *)
(* admin_only.go, audit.go) and the handlers behind them (handlers/auth.go, *)
(* handlers/system.go, the groups in api/routes.go).                        *)
(*                                                                          *)
(* Requests are constants used once.  A request is authenticated, handled   *)
(* and noted in steps between which others act: bcrypt alone takes a tenth  *)
(* of a second, and no lock is held meanwhile.  There is one account; the   *)
(* roles in tokens and sessions are "admin" throughout.                     *)
EXTENDS Integers, Sequences

CONSTANTS Request,    \* bound of the model: requests
          ApiToken,   \* values CreateToken draws
          Password, DefaultPassword,
          MaxAudit    \* entries the trail keeps (1000 in the code)

ASSUME AuditAssumption == MaxAudit \in Nat \ {0}
ASSUME PasswordAssumption == DefaultPassword \in Password

VARIABLES password,   \* whose hash the account has
          mustChange, \* MustChangePassword
          apiTokens,  \* stored tokens, as [value, scope]
          drawn,      \* values of tokens that were ever created
          audit,      \* requests the entries are about, oldest first
          phase,      \* of each request
          ask,        \* what it asks for
          failed,     \* requests answered with a status of 400 or more
          noted       \* history: all entries ever made, in their order

acctVars == <<password, mustChange>>
tokenVars == <<apiTokens, drawn>>
auVars == <<acctVars, tokenVars, audit, phase, ask, failed, noted>>

Scope == {"read", "full"}

(* A request: a login with a password; a change of the password; or one to  *)
(* an admin route, with a session or an API token: a GET, a token to create *)
(* or revoke, or any other write.                                           *)
Caller == {[by |-> "session"]} \cup [by : {"token"}, value : ApiToken]
Ask ==
  [route : {"login"}, old : Password]
  \cup [route : {"change"}, from : Caller, old : Password, new : Password]
  \cup [route : {"read", "write"}, from : Caller]
  \cup [route : {"create"}, from : Caller, scope : Scope]
  \cup [route : {"revoke"}, from : Caller, value : ApiToken]

Audited(a) == a.route \in {"write", "create", "revoke"}

NoAsk == [route |-> "none"]

AUInit ==
  /\ password = DefaultPassword /\ mustChange = TRUE
  /\ apiTokens = {} /\ drawn = {} /\ audit = <<>> /\ noted = <<>>
  /\ phase = [r \in Request |-> "unsent"] /\ ask = [r \in Request |-> NoAsk]
  /\ failed = {}

Goes(r, from, to) == phase[r] = from /\ phase' = [phase EXCEPT ![r] = to]

Send(r, a) ==
  /\ Goes(r, "unsent", IF a.route = "login" THEN "verify" ELSE "auth")
  /\ ask' = [ask EXCEPT ![r] = a]
  /\ UNCHANGED <<acctVars, tokenVars, audit, failed, noted>>

Refuse(r, from) ==
  /\ Goes(r, from, "done") /\ failed' = failed \cup {r}
  /\ UNCHANGED <<acctVars, tokenVars, audit, ask, noted>>

-----------------------------------------------------------------------------
(* AuthRequired and AdminOnly.  Sessions are signed and not looked up; API  *)
(* tokens are, and those for reading may only GET.                          *)
Admitted(a) ==
  \/ a.from.by = "session"
  \/ /\ a.from.by = "token"
     /\ \E t \in apiTokens :
          t.value = a.from.value /\ (t.scope = "full" \/ a.route = "read")

AuthRequired(r) ==
  \/ /\ Goes(r, "auth", "handle") /\ Admitted(ask[r])
     /\ UNCHANGED <<acctVars, tokenVars, audit, ask, failed, noted>>
  \/ Refuse(r, "auth") /\ ~ Admitted(ask[r])

(* An entry for request r; the oldest entries are cut.                      *)
Trimmed(s) == IF Len(s) > MaxAudit THEN SubSeq(s, Len(s) - MaxAudit + 1, Len(s)) ELSE s

(* Mutant of Trimmed: the newest entries are cut.                           *)
TrimmedAtEnd(s) == IF Len(s) > MaxAudit THEN SubSeq(s, 1, MaxAudit) ELSE s

Audit(r) ==
  /\ audit' = Trimmed(Append(audit, r))
  /\ noted' = Append(noted, r)

(* Handlers of admin routes.  Reads and other writes (of which some fail)   *)
(* touch nothing here.                                                      *)
Handled(r) ==
  /\ ask[r].route \in {"read", "write"}
  /\ Goes(r, "handle", "respond")
  /\ failed' \in {failed, failed \cup {r}}
  /\ UNCHANGED <<acctVars, tokenVars, audit, ask, noted>>

CreateToken(r, v) ==
  /\ ask[r].route = "create" /\ v \notin drawn
  /\ Goes(r, "handle", "respond")
  /\ apiTokens' = apiTokens \cup {[value |-> v, scope |-> ask[r].scope]}
  /\ drawn' = drawn \cup {v}
  /\ UNCHANGED <<acctVars, audit, ask, failed, noted>>

RevokeToken(r) ==
  /\ ask[r].route = "revoke"
  /\ Goes(r, "handle", "respond")
  /\ apiTokens' = {t \in apiTokens : t.value # ask[r].value}
  /\ failed' = IF apiTokens' = apiTokens THEN failed \cup {r} ELSE failed
  /\ UNCHANGED <<acctVars, drawn, audit, ask, noted>>

(* Mutant of AuditLog: the status is not looked at.                         *)
AuditLogAll(r) ==
  /\ Goes(r, "respond", "done")
  /\ IF Audited(ask[r]) THEN Audit(r) ELSE UNCHANGED <<audit, noted>>
  /\ UNCHANGED <<acctVars, tokenVars, ask, failed>>

(* The audit middleware, after the handler.                                 *)
AuditLog(r) ==
  /\ Goes(r, "respond", "done")
  /\ IF Audited(ask[r]) /\ r \notin failed THEN Audit(r) ELSE UNCHANGED <<audit, noted>>
  /\ UNCHANGED <<acctVars, tokenVars, ask, failed>>

-----------------------------------------------------------------------------
(* VerifyPassword compares with the hash the account has at this moment;    *)
(* the login's entry is made before it is answered.                         *)
VerifyPassword(r) ==
  \/ /\ Goes(r, "verify", "login") /\ ask[r].old = password
     /\ UNCHANGED <<acctVars, tokenVars, audit, ask, failed, noted>>
  \/ Refuse(r, "verify") /\ ask[r].old # password

Login(r) ==
  /\ Goes(r, "login", "done")
  /\ Audit(r)
  /\ UNCHANGED <<acctVars, tokenVars, ask, failed>>

(* ChangePassword compares, hashes the new password, and sets it.  An API   *)
(* token has no account.                                                    *)
MayChange(a) == a.from.by = "session" /\ a.old = password

ComparePassword(r) ==
  /\ ask[r].route = "change"
  /\ \/ /\ MayChange(ask[r]) /\ Goes(r, "handle", "set")
        /\ UNCHANGED <<acctVars, tokenVars, audit, ask, failed, noted>>
     \/ ~ MayChange(ask[r]) /\ Refuse(r, "handle")

SetPassword(r) ==
  /\ Goes(r, "set", "done")
  /\ password' = ask[r].new /\ mustChange' = FALSE
  /\ UNCHANGED <<tokenVars, audit, ask, failed, noted>>

(* The model's requests, or its values of tokens, are used up.              *)
Quiet ==
  /\ \A r \in Request :
       \/ phase[r] = "done"
       \/ phase[r] = "handle" /\ ask[r].route = "create" /\ drawn = ApiToken
  /\ UNCHANGED auVars

AdminRoute(r) ==
  \/ AuthRequired(r) \/ Handled(r) \/ AuditLog(r)
  \/ (\E v \in ApiToken : CreateToken(r, v)) \/ RevokeToken(r)

AUNext ==
  \/ \E r \in Request :
       \/ \E a \in Ask : Send(r, a)
       \/ AdminRoute(r) \/ VerifyPassword(r) \/ Login(r)
       \/ ComparePassword(r) \/ SetPassword(r)
  \/ Quiet

AUSpec == AUInit /\ [][AUNext]_auVars

-----------------------------------------------------------------------------
AUTypeOK ==
  /\ password \in Password
  /\ \A t, u \in apiTokens : t.value \in drawn /\ (t.value = u.value => t = u)
  /\ Len(audit) <= MaxAudit
  /\ failed \subseteq Request

(* The trail "records mutating admin requests after they complete           *)
(* successfully" (audit.go:8) and logins: each exactly once, none of those  *)
(* that were refused or failed, and the newest MaxAudit of all.             *)
AuditTrail ==
  /\ \A r \in Request :
       (/\ r \notin failed /\ phase[r] = "done"
        /\ Audited(ask[r]) \/ ask[r].route = "login")
         <=> \E i \in DOMAIN noted : noted[i] = r
  /\ \A i, j \in DOMAIN noted : noted[i] = noted[j] => i = j
  /\ \A i \in DOMAIN noted : i > Len(noted) - MaxAudit
                              <=> \E j \in DOMAIN audit : audit[j] = noted[i]
=============================================================================
