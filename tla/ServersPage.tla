---------------------------- MODULE ServersPage -----------------------------
(* The servers page of the admin panel                                      *)
(* (frontend/app/admin/(panel)/servers/page.tsx), with the dialog that adds *)
(* and edits a server (components/admin/server-form-dialog.tsx): a list     *)
(* polled every 15 s, filtered and cut into pages, whose rows are selected  *)
(* and deleted, one or many, while the panel's servers change.              *)
(*                                                                          *)
(* A row is a server and its kind, which stands for what the four filters   *)
(* look at.  The panel answers the rows in any order: it iterates a map.    *)
EXTENDS Integers, Sequences, FiniteSets, QueryCache

CONSTANTS Srv,       \* servers
          Kind,      \* what a filter tells apart
          Sizes,     \* rows per page: 10, 25, 50 or 100 in the code
          DefaultSize, \* of these, the one at first: 10 in the code
          Batch,     \* deletions under way at a time
          Submission, \* saves of the form under way at a time
          NoSrv,     \* no server is edited or to be deleted
          Stays      \* bounds of the model: the servers there are at first and
                     \* those that may be added, the kinds and sizes in use, and how
                     \* many changes others make, saves and deletions are sent,
                     \* and calls and loads fail

ASSUME SizesAssumption == Sizes \subseteq Nat \ {0} /\ DefaultSize \in Sizes /\ NoSrv \notin Srv
ASSUME SubmissionAssumption == Batch \cap Submission = {}
ASSUME StaysAssumption ==
  Stays \subseteq [there : SUBSET Srv, fresh : SUBSET Srv, kinds : SUBSET Kind,
                   sizes : SUBSET Sizes, edits : Nat, calls : Nat, faults : Nat]
ASSUME FreshAssumption == \A s \in Stays : s.there \cap s.fresh = {} /\ IsFiniteSet(s.there)

VARIABLES stay,      \* the bounds of this stay
          table,     \* the panel's servers, each with its kind
          fresh,     \* servers that were not added yet
          opened,    \* the page is on screen
          filter,    \* the kinds that match
          pageNo, pageSize,
          selected,  \* checked servers
          dialog,    \* "none", "form", "delete" or "bulk"
          target,    \* the server edited or to be deleted
          submitting, \* isSubmitting of the form, which disables its button
          saveStep,  \* of each save: "idle", "sent" or "saved"
          saveOf,    \* the server it is for
          deletion,  \* each of them: what has come of each of its calls
          mine,      \* deletions and saves that were sent since the page was opened
          gone,      \* history: servers whose deletion the page was told of
          edits, calls, faults   \* what the bounds count

viewVars == <<filter, pageNo, pageSize, selected>>
dialogVars == <<dialog, target>>
saveVars == <<submitting, saveStep, saveOf>>
spBounds == <<edits, calls, faults>>
panelRows == <<table, fresh>>
spVars == <<qcVars, stay, panelRows, opened, viewVars, dialogVars, saveVars, deletion, mine, gone, spBounds>>

Servers == "servers"
ASSUME ServersAssumption == Servers \in Key
Screen == IF opened THEN {Servers} ELSE {}

(* The page as it is when it is opened.                                     *)
NewView == filter = stay.kinds /\ pageNo = 1 /\ pageSize = DefaultSize /\ selected = {}

SPInit ==
  /\ EmptyCache
  /\ stay \in Stays /\ table \in [stay.there -> stay.kinds] /\ fresh = stay.fresh /\ opened = FALSE /\ NewView
  /\ dialog = "none" /\ target = NoSrv
  /\ submitting = FALSE /\ saveStep = [f \in Submission |-> "idle"] /\ saveOf = [f \in Submission |-> NoSrv]
  /\ deletion = [b \in Batch |-> <<>>] /\ mine = {} /\ gone = {}
  /\ edits = 0 /\ calls = 0 /\ faults = 0

-----------------------------------------------------------------------------
(* What the page shows: the rows that match, by their place in the list,    *)
(* and of these the page's, counted in the order of the list.               *)
Listed == IF HasData(Servers) THEN cached[Servers] ELSE <<>>
Matches(row) == row.kind \in filter
Filtered == {i \in DOMAIN Listed : Matches(Listed[i])}
Nth(i) == Cardinality({j \in Filtered : j <= i})

TotalPages == IF Filtered = {} THEN 1 ELSE (Cardinality(Filtered) + pageSize - 1) \div pageSize

(* Mutant of CurrentPage: the page that was chosen.                         *)
ChosenPage == pageNo

CurrentPage == IF pageNo < TotalPages THEN pageNo ELSE TotalPages
OnPage(p) == {i \in Filtered : (p - 1) * pageSize < Nth(i) /\ Nth(i) <= p * pageSize}
ItemsOf(p) == {Listed[i].id : i \in OnPage(p)}
PageItems == ItemsOf(CurrentPage)
AllPageSelected == PageItems # {} /\ PageItems \subseteq selected

(* The admin uses the page when no dialog covers it.                        *)
Usable == opened /\ dialog = "none"
Looks == UNCHANGED <<qcVars, stay, panelRows, opened, dialogVars, saveVars, deletion, mine, gone, spBounds>>

(* A search or filter, and the rows per page, start at the first page.      *)
Filters(ks) ==
  /\ Usable /\ filter' = ks /\ pageNo' = 1
  /\ Looks /\ UNCHANGED <<pageSize, selected>>

PicksSize(n) ==
  /\ Usable /\ pageSize' = n /\ pageNo' = 1
  /\ Looks /\ UNCHANGED <<filter, selected>>

Previous ==
  /\ Usable /\ CurrentPage > 1 /\ pageNo' = CurrentPage - 1
  /\ Looks /\ UNCHANGED <<filter, pageSize, selected>>

NextPage ==
  /\ Usable /\ CurrentPage < TotalPages /\ pageNo' = CurrentPage + 1
  /\ Looks /\ UNCHANGED <<filter, pageSize, selected>>

ToggleSelect(s) ==
  /\ Usable /\ s \in PageItems
  /\ selected' = IF s \in selected THEN selected \ {s} ELSE selected \cup {s}
  /\ Looks /\ UNCHANGED <<filter, pageNo, pageSize>>

TogglePage ==
  /\ Usable
  /\ selected' = IF AllPageSelected THEN selected \ PageItems ELSE selected \cup PageItems
  /\ Looks /\ UNCHANGED <<filter, pageNo, pageSize>>

(* The refresh button.                                                      *)
ReloadsServers ==
  /\ Usable /\ Invalidates({Servers}, Screen)
  /\ UNCHANGED <<stay, panelRows, opened, viewVars, dialogVars, saveVars, deletion, mine, gone, spBounds>>

-----------------------------------------------------------------------------
(* The dialogs: a form for a new server or that of a row, the question      *)
(* before a row is deleted, and that before all selected ones are.  The     *)
(* form is reset when it opens, also if a save of it is still under way:    *)
(* its button is then enabled again.                                        *)
OpensDialog(d, s) ==
  /\ Usable /\ calls < stay.calls
  /\ \/ d = "form" /\ s \in PageItems \cup {NoSrv}
     \/ d = "delete" /\ s \in PageItems
     \/ d = "bulk" /\ selected # {} /\ s = NoSrv
  /\ dialog' = d /\ target' = s /\ submitting' = (submitting /\ d # "form")
  /\ UNCHANGED <<qcVars, stay, panelRows, opened, viewVars, saveStep, saveOf, deletion, mine, gone, spBounds>>

Closes ==
  /\ opened /\ dialog # "none" /\ dialog' = "none" /\ target' = NoSrv
  /\ UNCHANGED <<qcVars, stay, panelRows, opened, viewVars, saveVars, deletion, mine, gone, spBounds>>

(* doDelete sends one call for each server, and waits for all of them.      *)
DoDelete(b, ss) ==
  /\ deletion[b] = <<>> /\ calls < stay.calls /\ calls' = calls + 1
  /\ deletion' = [deletion EXCEPT ![b] = [s \in ss |-> "sent"]]
  /\ mine' = mine \cup {b}
  /\ dialog' = "none" /\ target' = NoSrv
  /\ UNCHANGED <<qcVars, stay, panelRows, opened, viewVars, saveVars, gone, edits, faults>>

ConfirmsDelete(b) == dialog = "delete" /\ DoDelete(b, {target})
ConfirmsBulk(b) == dialog = "bulk" /\ selected # {} /\ DoDelete(b, selected)

(* Another deletion has ended while the question was asked, and cleared the *)
(* selection.                                                               *)
ConfirmsNothing ==
  /\ dialog = "bulk" /\ selected = {}
  /\ dialog' = "none" /\ target' = NoSrv
  /\ Invalidates({Servers}, Screen)
  /\ UNCHANGED <<stay, panelRows, opened, viewVars, saveVars, deletion, mine, gone, spBounds>>

Outcome(b, s, o) == deletion' = [deletion EXCEPT ![b] = [@ EXCEPT ![s] = o]]
InBatch(b, s, o) == s \in DOMAIN deletion[b] /\ deletion[b][s] = o
Elsewhere == UNCHANGED <<qcVars, opened, viewVars, dialogVars, saveVars>>

(* The panel deletes a server; it refuses one it does not have.             *)
PanelDeletes(b, s) ==
  /\ InBatch(b, s, "sent")
  /\ IF s \in DOMAIN table
     THEN table' = [r \in DOMAIN table \ {s} |-> table[r]] /\ Outcome(b, s, "deleted")
     ELSE UNCHANGED table /\ Outcome(b, s, "failed")
  /\ Elsewhere /\ UNCHANGED <<stay, fresh, mine, gone, spBounds>>

CallLost(b, s) ==
  /\ InBatch(b, s, "sent") \/ InBatch(b, s, "deleted")
  /\ faults < stay.faults /\ faults' = faults + 1
  /\ Outcome(b, s, "failed")
  /\ Elsewhere /\ UNCHANGED <<stay, panelRows, mine, gone, edits, calls>>

Settled(b) == deletion[b] # <<>> /\ \A s \in DOMAIN deletion[b] : deletion[b][s] \in {"deleted", "failed"}
ToldOf(b) == {s \in DOMAIN deletion[b] : deletion[b][s] = "deleted" /\ opened /\ HasData(Servers)}

(* Mutant of DeletionDone: the list is loaded anew if no call failed.       *)
DeletionDoneIfAll(b) ==
  /\ Settled(b) /\ deletion' = [deletion EXCEPT ![b] = <<>>]
  /\ selected' = (IF b \in mine THEN {} ELSE selected)
  /\ mine' = mine \ {b} /\ gone' = gone \cup ToldOf(b)
  /\ IF \E s \in DOMAIN deletion[b] : deletion[b][s] = "failed"
     THEN UNCHANGED qcVars ELSE Invalidates({Servers}, Screen)
  /\ UNCHANGED <<stay, panelRows, opened, filter, pageNo, pageSize, dialogVars, saveVars, spBounds>>

(* All calls are over, whatever came of each: the selection is cleared and  *)
(* the list loaded anew.                                                    *)
DeletionDone(b) ==
  /\ Settled(b) /\ deletion' = [deletion EXCEPT ![b] = <<>>]
  /\ selected' = (IF b \in mine THEN {} ELSE selected)
  /\ mine' = mine \ {b} /\ gone' = gone \cup ToldOf(b)
  /\ Invalidates({Servers}, Screen)
  /\ UNCHANGED <<stay, panelRows, opened, filter, pageNo, pageSize, dialogVars, saveVars, spBounds>>

-----------------------------------------------------------------------------
(* The form is sent for a new server or the one edited; its button is       *)
(* disabled until an answer, which closes the form, by then perhaps that of *)
(* another server, and loads the list.                                      *)
SubmitsServer(f) ==
  /\ dialog = "form" /\ ~submitting /\ saveStep[f] = "idle" /\ calls < stay.calls /\ calls' = calls + 1
  /\ submitting' = TRUE /\ saveStep' = [saveStep EXCEPT ![f] = "sent"]
  /\ saveOf' = [saveOf EXCEPT ![f] = target] /\ mine' = mine \cup {f}
  /\ UNCHANGED <<qcVars, stay, panelRows, opened, viewVars, dialogVars, deletion, gone, edits, faults>>

PanelSaves(f, s, k) ==
  /\ saveStep[f] = "sent" /\ saveStep' = [saveStep EXCEPT ![f] = "saved"]
  /\ IF saveOf[f] = NoSrv THEN s \in fresh ELSE s = saveOf[f] /\ s \in DOMAIN table
  /\ table' = [r \in DOMAIN table \cup {s} |-> IF r = s THEN k ELSE table[r]] /\ fresh' = fresh \ {s}
  /\ UNCHANGED <<qcVars, stay, opened, viewVars, dialogVars, submitting, saveOf, deletion, mine, gone, spBounds>>

SaveOver(f) ==
  /\ saveStep' = [saveStep EXCEPT ![f] = "idle"] /\ saveOf' = [saveOf EXCEPT ![f] = NoSrv]
  /\ mine' = mine \ {f} /\ submitting' = (submitting /\ f \notin mine)

FormAnswered(f) ==
  /\ saveStep[f] = "saved" /\ SaveOver(f)
  /\ IF f \in mine /\ dialog = "form" THEN dialog' = "none" /\ target' = NoSrv
                                       ELSE UNCHANGED dialogVars
  /\ Invalidates({Servers}, Screen)
  /\ UNCHANGED <<stay, panelRows, opened, viewVars, deletion, gone, spBounds>>

(* The save fails: the form stays as it is.                                 *)
FormRefused(f) ==
  /\ saveStep[f] # "idle" /\ SaveOver(f)
  /\ UNCHANGED <<qcVars, stay, panelRows, opened, viewVars, dialogVars, deletion, gone, spBounds>>

-----------------------------------------------------------------------------
(* The page is opened and left; what it had sent goes on without it: a save *)
(* or a deletion that ends later still invalidates the list.                *)
OpensServers ==
  /\ ~opened /\ opened' = TRUE
  /\ dialog' \in (IF calls < stay.calls THEN {"none", "form"} ELSE {"none"}) /\ target' = NoSrv
  /\ Opens({Servers})
  /\ UNCHANGED <<stay, panelRows, viewVars, saveVars, deletion, mine, gone, spBounds>>

LeavesServers ==
  /\ opened /\ opened' = FALSE
  /\ filter' = stay.kinds /\ pageNo' = 1 /\ pageSize' = DefaultSize /\ selected' = {}
  /\ dialog' = "none" /\ target' = NoSrv /\ submitting' = FALSE /\ mine' = {}
  /\ UNCHANGED <<qcVars, stay, panelRows, saveStep, saveOf, deletion, gone, spBounds>>

(* Another admin or an agent: a server comes, goes or changes its kind.     *)
OthersChange(s, k) ==
  /\ edits < stay.edits /\ edits' = edits + 1
  /\ fresh' = fresh \ {s}
  /\ \/ s \in DOMAIN table \cup fresh /\ table' = [r \in DOMAIN table \cup {s} |-> IF r = s THEN k ELSE table[r]]
     \/ s \in DOMAIN table /\ table' = [r \in DOMAIN table \ {s} |-> table[r]]
  /\ Elsewhere /\ UNCHANGED <<stay, deletion, mine, gone, calls, faults>>

-----------------------------------------------------------------------------
(* The loads of the list.                                                   *)
Answers == {r \in [1 .. Cardinality(DOMAIN table) -> {[id |-> s, kind |-> table[s]] : s \in DOMAIN table}] :
              \A i, j \in DOMAIN r : r[i].id = r[j].id => i = j}
ListVars == <<stay, panelRows, opened, viewVars, dialogVars, saveVars, deletion, mine, gone, edits, calls>>

LoadsServers ==
  /\ \/ opened /\ Polls(Servers)
     \/ \E r \in Answers : PanelReads(Servers, r)
     \/ LoadDone(Servers)
     \/ GoesStale(Servers)
     \/ ~opened /\ Dropped(Servers)
  /\ UNCHANGED <<ListVars, faults>>

ServersFail ==
  /\ faults < stay.faults /\ faults' = faults + 1
  /\ LoadFails(Servers, Screen) /\ UNCHANGED ListVars

SPNext ==
  \/ OpensServers \/ LeavesServers
  \/ \E ks \in SUBSET stay.kinds \ {{}} : Filters(ks)
  \/ \E n \in stay.sizes : PicksSize(n)
  \/ Previous \/ NextPage \/ TogglePage \/ ReloadsServers \/ Closes \/ ConfirmsNothing
  \/ \E s \in Srv : ToggleSelect(s)
  \/ \E d \in {"form", "delete", "bulk"}, s \in Srv \cup {NoSrv} : OpensDialog(d, s)
  \/ \E b \in Batch : ConfirmsDelete(b) \/ ConfirmsBulk(b) \/ DeletionDone(b)
  \/ \E b \in Batch, s \in Srv : PanelDeletes(b, s) \/ CallLost(b, s)
  \/ \E f \in Submission : SubmitsServer(f) \/ FormAnswered(f) \/ FormRefused(f)
  \/ \E f \in Submission, s \in Srv, k \in stay.kinds : PanelSaves(f, s, k)
  \/ \E s \in Srv, k \in stay.kinds : OthersChange(s, k)
  \/ LoadsServers \/ ServersFail

SPSpec == SPInit /\ [][SPNext]_spVars

-----------------------------------------------------------------------------
(* The list is of rows that were stored, each once; what is selected, asked *)
(* about or being deleted was listed.                                       *)
SPTypeOK ==
  /\ DOMAIN table \subseteq Srv /\ opened \in BOOLEAN
  /\ filter \subseteq Kind /\ pageNo \in Nat \ {0} /\ pageSize \in Nat \ {0}
  /\ selected \subseteq Srv /\ target \in Srv \cup {NoSrv}
  /\ dialog \in {"none", "form", "delete", "bulk"} /\ (dialog = "delete" => target # NoSrv)
  /\ \A i, j \in DOMAIN Listed : Listed[i].id = Listed[j].id => i = j
  /\ submitting \in BOOLEAN /\ saveStep \in [Submission -> {"idle", "sent", "saved"}]
  /\ mine \subseteq Batch \cup Submission
  /\ gone \cap (DOMAIN table \cup fresh) = {}

(* However the list shrinks, grows or is reordered under the page that was  *)
(* chosen, the pages hold every matching row once, and the one shown is not *)
(* empty while any row matches (currentPage, totalPages).                   *)
PagesCover ==
  /\ \A i \in Filtered :
       \E p \in 1 .. TotalPages : \A q \in 1 .. TotalPages : Listed[i].id \in ItemsOf(q) <=> q = p
  /\ Filtered # {} => PageItems # {}

(* A server whose deletion the page was told of is not listed any more, or  *)
(* the list is on its way or marked to be loaded: also when other calls of  *)
(* the same deletion failed, and whatever loads were under way (doDelete).  *)
DeletedGone ==
  \A s \in gone : \/ fetch[Servers] # "idle" \/ stale[Servers]
                  \/ \A i \in DOMAIN Listed : Listed[i].id # s
=============================================================================
