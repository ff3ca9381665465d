---------------------------- MODULE ChainWizard -----------------------------
(* The wizard that creates and edits relay chains                           *)
(* (frontend/components/admin/chain-wizard-dialog.tsx), over the chains     *)
(* page, which keeps it mounted: a name, then servers in traffic order,     *)
(* then a review.  It asks for the servers whenever it opens; answers may   *)
(* overtake each other, and servers come and go.  How the list of chains is *)
(* loaded is in AdminLists: here it is as some load has left it.            *)
(*                                                                          *)
(* A name is blank or not; the description is left out.                     *)
EXTENDS Naturals, Sequences

CONSTANTS Relay,     \* servers
          RelayChain,\* chains that can be edited
          NewChain,  \* what the wizard works on when it creates one
          Query,     \* requests for the servers under way at a time
          MaxTurns,  \* bound of the model: servers that come or go
          MaxSaves   \* bound of the model: saves

ASSUME WizardAssumption == NewChain \notin RelayChain /\ MaxTurns \in Nat /\ MaxSaves \in Nat

VARIABLES live,      \* servers the panel has
          chainHops, \* the servers of each chain
          chainList, \* as the list of chains has them
          open, editing, \* the dialog and what it is for
          wizardStep,\* 1, 2 or 3
          named,     \* the name is not blank
          picked,    \* selectedIds
          listed,    \* the servers the wizard knows
          queries,   \* each request: "none", "asked" or the servers answered
          busy,      \* a save waits for its answer
          request,   \* the save: [chain, named, servers]; Nothing if there is none
          turns, saves

wizardVars == <<open, editing, wizardStep, named, picked>>
cwVars == <<live, chainHops, chainList, wizardVars, listed, queries, busy, request, turns, saves>>

Nothing == <<>>
None == [at |-> "none"]
Asked == [at |-> "asked"]
Got(ss) == [at |-> "answered", servers |-> ss]

Pairs == {h \in Relay \X Relay : h[1] # h[2]}

CWInit ==
  /\ live = Relay /\ chainHops \in [RelayChain -> Pairs]
  /\ chainList = chainHops
  /\ open = FALSE /\ editing = NewChain /\ wizardStep = 1 /\ named = FALSE /\ picked = <<>>
  /\ listed = {} /\ queries = [a \in Query |-> None] /\ busy = FALSE /\ request = Nothing
  /\ turns = 0 /\ saves = 0

-----------------------------------------------------------------------------
(* Mutant of OpensWizard: it comes up at the step it was left at.           *)
OpensWhereLeft(c, a) ==
  /\ ~open /\ open' = TRUE /\ editing' = c
  /\ named' = (c # NewChain)
  /\ picked' = (IF c = NewChain THEN <<>> ELSE chainList[c])
  /\ queries[a] = None /\ queries' = [queries EXCEPT ![a] = Asked]
  /\ UNCHANGED <<live, chainHops, chainList, wizardStep, listed, busy, request, turns, saves>>

(* The wizard opens, for a new chain or with the name and chainHops of one.      *)
OpensWizard(c, a) ==
  /\ ~open /\ open' = TRUE /\ editing' = c
  /\ wizardStep' = 1
  /\ named' = (c # NewChain)
  /\ picked' = (IF c = NewChain THEN <<>> ELSE chainList[c])
  /\ queries[a] = None /\ queries' = [queries EXCEPT ![a] = Asked]
  /\ UNCHANGED <<live, chainHops, chainList, listed, busy, request, turns, saves>>

(* Cancel, Escape, or a click beside it, at any step.                       *)
ClosesWizard ==
  /\ open /\ open' = FALSE
  /\ UNCHANGED <<live, chainHops, chainList, editing, wizardStep, named, picked, listed, queries, busy, request, turns, saves>>

(* The panel answers with its servers, the answer arrives, or none does.    *)
ServersAnswered(a) ==
  /\ queries[a] = Asked /\ queries' = [queries EXCEPT ![a] = Got(live)]
  /\ UNCHANGED <<live, chainHops, chainList, wizardVars, listed, busy, request, turns, saves>>

ServersArrive(a) ==
  /\ queries[a] \notin {None, Asked} /\ queries' = [queries EXCEPT ![a] = None]
  /\ listed' = queries[a].servers
  /\ UNCHANGED <<live, chainHops, chainList, wizardVars, busy, request, turns, saves>>

ServersLost(a) ==
  /\ queries[a] # None /\ queries' = [queries EXCEPT ![a] = None]
  /\ UNCHANGED <<live, chainHops, chainList, wizardVars, listed, busy, request, turns, saves>>

-----------------------------------------------------------------------------
Fixed == UNCHANGED <<live, chainHops, chainList, open, editing, listed, queries, busy, request, turns, saves>>

(* Step 1: the name.                                                        *)
Names ==
  /\ open /\ wizardStep = 1
  /\ named' = ~named
  /\ Fixed /\ UNCHANGED <<wizardStep, picked>>

(* Step 2: the available servers, and a row for each one picked that the    *)
(* wizard knows; others have no buttons.                                    *)
Available == {s \in listed : \A i \in DOMAIN picked : picked[i] # s}
AtRow(i) == open /\ wizardStep = 2 /\ i \in DOMAIN picked /\ picked[i] \in listed

Picks(s) ==
  /\ open /\ wizardStep = 2 /\ s \in Available
  /\ picked' = Append(picked, s)
  /\ Fixed /\ UNCHANGED <<wizardStep, named>>

Swapped(ss, i, j) == [ss EXCEPT ![i] = ss[j], ![j] = ss[i]]

MovesUp(i) ==
  /\ AtRow(i) /\ i > 1
  /\ picked' = Swapped(picked, i, i - 1)
  /\ Fixed /\ UNCHANGED <<wizardStep, named>>

MovesDown(i) ==
  /\ AtRow(i) /\ i < Len(picked)
  /\ picked' = Swapped(picked, i, i + 1)
  /\ Fixed /\ UNCHANGED <<wizardStep, named>>

Removes(i) ==
  /\ AtRow(i)
  /\ picked' = SubSeq(picked, 1, i - 1) \o SubSeq(picked, i + 1, Len(picked))
  /\ Fixed /\ UNCHANGED <<wizardStep, named>>

(* The buttons at the bottom.                                               *)
Steps1 == wizardStep = 1 /\ named
Steps2 == wizardStep = 2 /\ Len(picked) >= 2

GoesOn ==
  /\ open /\ (Steps1 \/ Steps2)
  /\ wizardStep' = wizardStep + 1
  /\ Fixed /\ UNCHANGED <<named, picked>>

GoesBack ==
  /\ open /\ wizardStep > 1
  /\ wizardStep' = wizardStep - 1
  /\ Fixed /\ UNCHANGED <<named, picked>>

-----------------------------------------------------------------------------
(* Step 3: save sends what was picked, listed or not, for the chain that is *)
(* edited; the button is disabled until the answer.                         *)
Saves ==
  /\ open /\ wizardStep = 3 /\ ~busy
  /\ saves < MaxSaves /\ saves' = saves + 1
  /\ busy' = TRUE
  /\ request' = [chain |-> editing, named |-> named, servers |-> picked, done |-> FALSE]
  /\ UNCHANGED <<live, chainHops, chainList, wizardVars, listed, queries, turns>>

(* The panel looks every server up; one that is gone fails the request.     *)
PanelSavesChain ==
  /\ request # Nothing /\ ~request.done
  /\ \A i \in DOMAIN request.servers : request.servers[i] \in live
  /\ request' = [request EXCEPT !.done = TRUE]
  /\ chainHops' = IF request.chain = NewChain THEN chainHops ELSE [chainHops EXCEPT ![request.chain] = request.servers]
  /\ UNCHANGED <<live, chainList, wizardVars, listed, queries, busy, turns, saves>>

(* The answer closes the wizard, whatever it is open for by then.           *)
ChainSaved ==
  /\ request # Nothing /\ request.done
  /\ request' = Nothing /\ busy' = FALSE /\ open' = FALSE
  /\ UNCHANGED <<live, chainHops, chainList, editing, wizardStep, named, picked, listed, queries, turns, saves>>

(* Refused, or the answer is lost: the wizard stays as it is.               *)
ChainRefused ==
  /\ request # Nothing
  /\ request' = Nothing /\ busy' = FALSE
  /\ UNCHANGED <<live, chainHops, chainList, wizardVars, listed, queries, turns, saves>>

(* The list of chains is loaded.                                            *)
ChainsListed ==
  /\ chainList # chainHops /\ chainList' = chainHops
  /\ UNCHANGED <<live, chainHops, wizardVars, listed, queries, busy, request, turns, saves>>

(* Somebody adds or deletes a server.                                       *)
ServerTurns(s) ==
  /\ turns < MaxTurns /\ turns' = turns + 1
  /\ live' = IF s \in live THEN live \ {s} ELSE live \cup {s}
  /\ UNCHANGED <<chainHops, chainList, wizardVars, listed, queries, busy, request, saves>>

CWNext ==
  \/ \E c \in RelayChain \cup {NewChain}, a \in Query : OpensWizard(c, a)
  \/ ClosesWizard \/ Names \/ GoesOn \/ GoesBack
  \/ \E a \in Query : ServersAnswered(a) \/ ServersArrive(a) \/ ServersLost(a)
  \/ \E s \in Relay : Picks(s) \/ ServerTurns(s)
  \/ \E i \in DOMAIN picked : MovesUp(i) \/ MovesDown(i) \/ Removes(i)
  \/ Saves \/ PanelSavesChain \/ ChainSaved \/ ChainRefused \/ ChainsListed

CWSpec == CWInit /\ [][CWNext]_cwVars

-----------------------------------------------------------------------------
(* The wizard is at one of its steps, for a chain; a request waits exactly  *)
(* while the button is disabled.                                            *)
CWTypeOK ==
  /\ live \subseteq Relay /\ listed \subseteq Relay
  /\ wizardStep \in 1 .. 3 /\ editing \in RelayChain \cup {NewChain}
  /\ picked \in Seq(Relay)
  /\ busy <=> request # Nothing

EachOnce(ss) == \A i, j \in DOMAIN ss : ss[i] = ss[j] => i = j
Relays(ss) == Len(ss) >= 2 /\ EachOnce(ss)

(* Whatever way through the steps, back and forth, over closed and reopened *)
(* dialogs: a request has a name and at least two servers, each once, and a *)
(* chain never comes to have less (the guards of Next, the effect on open). *)
SavesAreValid ==
  /\ request # Nothing => request.named /\ Relays(request.servers)
  /\ \A c \in RelayChain : Relays(chainHops[c])
=============================================================================
