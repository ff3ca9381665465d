----------------------------- MODULE TokensPage -----------------------------
(* The tokens page of the admin panel                                       *)
(* (frontend/app/admin/(panel)/users/page.tsx): a list that is loaded when  *)
(* the page is opened and after each change made on it, and a dialog that   *)
(* asks for a name and then, when the panel has created the token, shows    *)
(* its secret instead of the form.  What the panel does with tokens is in   *)
(* Access; here it only has them.                                           *)
(*                                                                          *)
(* A token stands for its secret; the name is blank or not, the scope is    *)
(* left out.  Calls of a page that was left go on as if they were somebody  *)
(* else's, and what they answer is dropped.                                 *)
CONSTANTS Token,      \* tokens that may be created
          NoToken,
          TokenLoad,  \* requests for the list under way at a time
          Revocation  \* revocations under way at a time

ASSUME TokenAssumption == NoToken \notin Token

VARIABLES valid,      \* tokens the panel has
          made,       \* ... and has created so far
          tokens,     \* the rows of the page
          listing,    \* the list was not loaded yet
          tokenForm,  \* the dialog is open
          newSecret,  \* the token whose secret it shows; NoToken: the form
          tokenName,  \* the name is not blank
          creation,   \* the call that creates: Idle, Sent, or the token created
          revoked,    \* each revocation: Idle, or its token and how far it is
          tokenLoads, \* each request for the list: Idle, Sent, or the tokens
          putAway     \* history: tokens whose secret was shown, and is no more

tokenView == <<tokens, listing, tokenForm, newSecret, tokenName>>
tokenCalls == <<creation, revoked, tokenLoads>>
tkVars == <<valid, made, tokenView, tokenCalls, putAway>>

Idle == [at |-> "idle"]
Sent == [at |-> "sent"]
Asks(l) == tokenLoads[l] = Idle /\ tokenLoads' = [tokenLoads EXCEPT ![l] = Sent]

(* load(), when the page comes up.                                          *)
FirstLoad == {[m \in TokenLoad |-> IF m = l THEN Sent ELSE Idle] : l \in TokenLoad}

TKInit ==
  /\ valid = {} /\ made = {} /\ putAway = {}
  /\ tokens = {} /\ listing = TRUE
  /\ tokenForm = FALSE /\ newSecret = NoToken /\ tokenName = FALSE
  /\ creation = Idle /\ revoked = [r \in Revocation |-> Idle] /\ tokenLoads \in FirstLoad

SecretShown == IF tokenForm /\ newSecret # NoToken THEN {newSecret} ELSE {}
FormShown == tokenForm /\ newSecret = NoToken

-----------------------------------------------------------------------------
(* Mutant of GenerateToken: the dialog comes up as it was closed.           *)
GenerateAgain ==
  /\ ~tokenForm /\ tokenForm' = TRUE
  /\ UNCHANGED <<valid, made, tokens, listing, newSecret, tokenName, tokenCalls, putAway>>

(* The button that opens the dialog, which covers the page.                 *)
GenerateToken ==
  /\ ~tokenForm /\ tokenForm' = TRUE
  /\ newSecret' = NoToken
  /\ UNCHANGED <<valid, made, tokens, listing, tokenName, tokenCalls, putAway>>

(* Done, Escape, or a click beside it, also while the panel is at work.     *)
ClosesTokenForm ==
  /\ tokenForm /\ tokenForm' = FALSE
  /\ putAway' = putAway \cup SecretShown
  /\ UNCHANGED <<valid, made, tokens, listing, newSecret, tokenName, tokenCalls>>

TokenNamed ==
  /\ FormShown /\ tokenName' = ~tokenName
  /\ UNCHANGED <<valid, made, tokens, listing, tokenForm, newSecret, tokenCalls, putAway>>

(* create(), up to its await; its button is disabled until the answer.      *)
CreatesToken ==
  /\ FormShown /\ tokenName /\ creation = Idle
  /\ creation' = Sent
  /\ UNCHANGED <<valid, made, tokenView, revoked, tokenLoads, putAway>>

PanelCreatesToken(t) ==
  /\ creation = Sent /\ t \notin made
  /\ made' = made \cup {t} /\ valid' = valid \cup {t}
  /\ creation' = [at |-> "created", token |-> t]
  /\ UNCHANGED <<tokenView, revoked, tokenLoads, putAway>>

(* The rest of create: the secret waits for the dialog, open or not.        *)
TokenCreated(l) ==
  /\ creation.at = "created" /\ creation' = Idle
  /\ newSecret' = creation.token /\ tokenName' = FALSE
  /\ putAway' = putAway \cup SecretShown
  /\ Asks(l)
  /\ UNCHANGED <<valid, made, tokens, listing, tokenForm, revoked>>

TokenNotCreated ==
  /\ creation # Idle /\ creation' = Idle
  /\ UNCHANGED <<valid, made, tokenView, revoked, tokenLoads, putAway>>

-----------------------------------------------------------------------------
(* The button of a row; the list is loaded when the panel has revoked it.   *)
RevokesToken(r, t) ==
  /\ ~tokenForm /\ ~listing /\ t \in tokens
  /\ revoked[r] = Idle /\ revoked' = [revoked EXCEPT ![r] = [at |-> "sent", token |-> t]]
  /\ UNCHANGED <<valid, made, tokenView, creation, tokenLoads, putAway>>

PanelRevokesToken(r) ==
  /\ revoked[r].at = "sent" /\ revoked[r].token \in valid
  /\ valid' = valid \ {revoked[r].token}
  /\ revoked' = [revoked EXCEPT ![r] = [at |-> "revoked", token |-> revoked[r].token]]
  /\ UNCHANGED <<made, tokenView, creation, tokenLoads, putAway>>

TokenRevoked(r, l) ==
  /\ revoked[r].at = "revoked" /\ revoked' = [revoked EXCEPT ![r] = Idle]
  /\ Asks(l)
  /\ UNCHANGED <<valid, made, tokenView, creation, putAway>>

(* It is gone, or a message is lost: nothing is caught, nothing loaded.     *)
TokenNotRevoked(r) ==
  /\ revoked[r] # Idle /\ revoked' = [revoked EXCEPT ![r] = Idle]
  /\ UNCHANGED <<valid, made, tokenView, creation, tokenLoads, putAway>>

-----------------------------------------------------------------------------
(* The requests for the list, whose answers may overtake each other.        *)
TokensRead(l) ==
  /\ tokenLoads[l] = Sent
  /\ tokenLoads' = [tokenLoads EXCEPT ![l] = [at |-> "read", tokens |-> valid]]
  /\ UNCHANGED <<valid, made, tokenView, creation, revoked, putAway>>

TokensListed(l) ==
  /\ tokenLoads[l].at = "read" /\ tokenLoads' = [tokenLoads EXCEPT ![l] = Idle]
  /\ tokens' = tokenLoads[l].tokens /\ listing' = FALSE
  /\ UNCHANGED <<valid, made, tokenForm, newSecret, tokenName, creation, revoked, putAway>>

TokensNotListed(l) ==
  /\ tokenLoads[l] # Idle /\ tokenLoads' = [tokenLoads EXCEPT ![l] = Idle]
  /\ listing' = FALSE
  /\ UNCHANGED <<valid, made, tokens, tokenForm, newSecret, tokenName, creation, revoked, putAway>>

(* The page is left, also by the browser's button while the dialog is open, *)
(* and comes up anew.                                                       *)
TokensReopened ==
  /\ tokens' = {} /\ listing' = TRUE
  /\ tokenForm' = FALSE /\ newSecret' = NoToken /\ tokenName' = FALSE
  /\ creation' = Idle /\ revoked' = [r \in Revocation |-> Idle] /\ tokenLoads' \in FirstLoad
  /\ putAway' = putAway \cup SecretShown
  /\ UNCHANGED <<valid, made>>

(* Another admin, or a page that was left, creates or revokes a token.      *)
OthersToken(t) ==
  /\ \/ t \notin made /\ made' = made \cup {t} /\ valid' = valid \cup {t}
     \/ t \in valid /\ valid' = valid \ {t} /\ UNCHANGED made
  /\ UNCHANGED <<tokenView, tokenCalls, putAway>>

TKNext ==
  \/ GenerateToken \/ ClosesTokenForm \/ TokenNamed \/ CreatesToken \/ TokenNotCreated
  \/ TokensReopened
  \/ \E t \in Token : PanelCreatesToken(t) \/ OthersToken(t)
  \/ \E l \in TokenLoad : TokenCreated(l) \/ TokensRead(l) \/ TokensListed(l) \/ TokensNotListed(l)
  \/ \E r \in Revocation :
       \/ PanelRevokesToken(r) \/ TokenNotRevoked(r)
       \/ \E t \in Token : RevokesToken(r, t)
       \/ \E l \in TokenLoad : TokenRevoked(r, l)

TKSpec == TKInit /\ [][TKNext]_tkVars

-----------------------------------------------------------------------------
(* What the panel has, the page lists or shows was created.                 *)
TKTypeOK ==
  /\ made \subseteq Token /\ valid \subseteq made /\ tokens \subseteq made
  /\ newSecret \in made \cup {NoToken} /\ putAway \subseteq made
  /\ tokenForm \in BOOLEAN /\ listing \in BOOLEAN /\ tokenName \in BOOLEAN

(* "Copy it now -- it will not be shown again." (users/page.tsx:184): a     *)
(* secret that the dialog showed and shows no more does not come back, in   *)
(* whatever order the dialog is closed and opened and the answers arrive.   *)
SecretShownOnce == SecretShown \cap putAway = {}
=============================================================================
