----------------------------- MODULE AdminLists -----------------------------
(* The lists of the admin panel and of two public pages, in one browser tab *)
(* (frontend/app/admin/(panel)/<page>/page.tsx, app/service-status,         *)
(* app/chains), over the shared cache of QueryCache.                        *)
(*                                                                          *)
(* What the panel stores of a list is the number of the change that it saw  *)
(* last.  Each button sends one API call; several may be under way, and an  *)
(* answer finds the page as it was left, or another one.  Rows, fields and  *)
(* toasts are left out; a form that is submitted is filled in.              *)
EXTENDS Naturals, QueryCache

CONSTANTS Tours,       \* visits: the pages, those of their lists that are
                       \* followed (the others count as loaded), the calls, and
                       \* a bound of the model, how often something is clicked
          ApiCall,     \* API calls under way at a time
          MaxChanges,  \* bound of the model: changes made by others
          MaxLostLoads \* bound of the model: loads that fail

VARIABLES tour,     \* this visit
          onPage,   \* the page on screen
          formOpen, \* its create dialog is open,
          saving,   \* ... and its submit button disabled
          confirm,  \* its delete dialog is open
          lastChange, \* of each list: the last change the panel made to it
          own,      \* history: the last change this page made and was told of
          changes,  \* changes so far
          others, clicks, lostLoads, \* what the bounds count
          step,     \* of each call: "idle", "sent" or "applied" by the panel
          what,     \* [changes, reload: sets of keys, ends: what it ends]
          ver,      \* the change it made
          mounted   \* calls whose page has not been left since

tabVars == <<tour, onPage, formOpen, saving, confirm>>
listVars == <<lastChange, changes, others>>
callVars == <<step, what, ver, mounted>>
boundVars == <<clicks, lostLoads>>
lsVars == <<qcVars, tabVars, listVars, callVars, boundVars, own>>

-----------------------------------------------------------------------------
(* The pages: the lists each shows, those it loads by interval, and those   *)
(* its reload() invalidates.                                                *)
AlertsPage == [shows |-> {"rules", "events", "channels"}, polls |-> {"events"},
               reloads |-> {"rules", "events"}]
CronPage == [shows |-> {"tasks", "executions"}, polls |-> {},
             reloads |-> {"tasks", "executions"}]
ServicesPage == [shows |-> {"services"}, polls |-> {"services"}, reloads |-> {"services"}]
ChainsPage == [shows |-> {"chains"}, polls |-> {}, reloads |-> {"chains"}]
ChannelsPage == [shows |-> {"channels"}, polls |-> {}, reloads |-> {"channels"}]
ProbesPage == [shows |-> {"probes"}, polls |-> {}, reloads |-> {"probes"}]
StatusPage == [shows |-> {"services"}, polls |-> {"services"}, reloads |-> {}]
RoutesPage == [shows |-> {"chains"}, polls |-> {"chains"}, reloads |-> {}]
Pages == [alerts |-> AlertsPage, cron |-> CronPage, services |-> ServicesPage,
          chains |-> ChainsPage, notifications |-> ChannelsPage, probes |-> ProbesPage,
          status |-> StatusPage, routes |-> RoutesPage,
          elsewhere |-> [shows |-> {}, polls |-> {}, reloads |-> {}]]

Lists == {"rules", "events", "channels", "tasks", "executions", "services", "chains", "probes"}

ASSUME PagesAssumption ==
  /\ Lists \subseteq Key
  /\ Tours \subseteq [pages : SUBSET DOMAIN Pages, lists : SUBSET Lists,
                      calls : SUBSET ApiCall, clicks : Nat]
  /\ MaxChanges \in Nat /\ MaxLostLoads \in Nat
ASSUME NoDataAssumption == NoData \notin Nat

PolledLists == UNION {Pages[p].polls : p \in DOMAIN Pages}
OnScreen == Pages[onPage].shows \cap tour.lists
Polled == Pages[onPage].polls \cap tour.lists
Offered(k) == k \in tour.lists => HasData(k)
PageReload == Pages[onPage].reloads

(* What the panel changes when it serves a call of the API.                 *)
AlertsApi == [createRule |-> {"rules"}, updateRule |-> {"rules"}, deleteRule |-> {"rules"}]
ChannelsApi == [create |-> {"channels"}, delete |-> {"channels"}, test |-> {}]
CronApi == [create |-> {"tasks"}, update |-> {"tasks"}, delete |-> {"tasks"},
            trigger |-> {"tasks", "executions"}]
ServicesApi == [create |-> {"services"}, delete |-> {"services"}]
ChainsApi == [save |-> {"chains"}, test |-> {"chains"}, delete |-> {"chains"}]
ProbesApi == [create |-> {"probes"}, delete |-> {"probes"}]

NoWork == [changes |-> {}, reload |-> {}, ends |-> "row"]

LSInit ==
  /\ EmptyCache
  /\ tour \in Tours /\ onPage = "elsewhere"
  /\ formOpen = FALSE /\ saving = FALSE /\ confirm = FALSE
  /\ lastChange = [k \in Lists |-> 0] /\ own = [k \in Lists |-> 0]
  /\ changes = 0 /\ others = 0 /\ clicks = 0 /\ lostLoads = 0
  /\ step = [c \in ApiCall |-> "idle"] /\ what = [c \in ApiCall |-> NoWork]
  /\ ver = [c \in ApiCall |-> 0] /\ mounted = [c \in ApiCall |-> FALSE]

-----------------------------------------------------------------------------
(* The admin goes to another page; the chains page may come up with its     *)
(* wizard open.                                                             *)
GoTo(p) ==
  /\ p \in tour.pages \cup {"elsewhere"} /\ p # onPage
  /\ onPage' = p
  /\ formOpen' \in (IF p = "chains" THEN BOOLEAN ELSE {FALSE})
  /\ saving' = FALSE /\ confirm' = FALSE
  /\ mounted' = [c \in ApiCall |-> FALSE]
  /\ Opens(Pages[p].shows \cap tour.lists)
  /\ UNCHANGED <<tour, listVars, step, what, ver, boundVars, own>>

(* The dialogs are opened and closed; a row must be there to be deleted.    *)
HasForm == onPage \in {"alerts", "cron", "services", "chains", "notifications", "probes"}
HasConfirm == \/ onPage = "services" /\ Offered("services")
              \/ onPage = "chains" /\ Offered("chains")

OpensForm ==
  /\ HasForm /\ ~formOpen /\ formOpen' = TRUE
  /\ UNCHANGED <<qcVars, tour, onPage, saving, confirm, listVars, callVars, boundVars, own>>

ClosesForm ==
  /\ formOpen /\ formOpen' = FALSE
  /\ UNCHANGED <<qcVars, tour, onPage, saving, confirm, listVars, callVars, boundVars, own>>

AsksToDelete ==
  /\ HasConfirm /\ ~confirm /\ confirm' = TRUE
  /\ UNCHANGED <<qcVars, tour, onPage, formOpen, saving, listVars, callVars, boundVars, own>>

Cancels ==
  /\ confirm /\ confirm' = FALSE
  /\ UNCHANGED <<qcVars, tour, onPage, formOpen, saving, listVars, callVars, boundVars, own>>

-----------------------------------------------------------------------------
(* A handler sends its call and waits.  The submit button of a form is      *)
(* disabled meanwhile; the delete dialog closes.                            *)
Sends(c, w) ==
  /\ c \in tour.calls /\ step[c] = "idle" /\ clicks < tour.clicks /\ clicks' = clicks + 1
  /\ step' = [step EXCEPT ![c] = "sent"] /\ what' = [what EXCEPT ![c] = w]
  /\ mounted' = [mounted EXCEPT ![c] = TRUE]
  /\ saving' = (saving \/ w.ends = "form")
  /\ confirm' = (confirm /\ w.ends # "confirm")
  /\ UNCHANGED <<qcVars, tour, onPage, formOpen, listVars, ver, lostLoads, own>>

Submits(c, ks) == Sends(c, [changes |-> ks, reload |-> PageReload, ends |-> "form"])
Confirms(c, ks) == confirm /\ Sends(c, [changes |-> ks, reload |-> PageReload, ends |-> "confirm"])
Clicks(c, ks) == Sends(c, [changes |-> ks, reload |-> PageReload, ends |-> "row"])

(* Alert rules.                                                             *)
AlertsRows == onPage = "alerts" /\ Offered("rules")
AlertsDialog == onPage = "alerts" /\ formOpen /\ ~saving
CreatesRule(c) == AlertsDialog /\ Submits(c, AlertsApi.createRule)
TogglesRule(c) == AlertsRows /\ Clicks(c, AlertsApi.updateRule)
DeletesRule(c) == AlertsRows /\ Clicks(c, AlertsApi.deleteRule)

(* Scheduled tasks.                                                         *)
CronRows == onPage = "cron" /\ Offered("tasks")
CronDialog == onPage = "cron" /\ formOpen /\ ~saving
SavesTask(c) == CronDialog /\ Submits(c, CronApi.create)
TriggersTask(c) == CronRows /\ Clicks(c, CronApi.trigger)
EnablesTask(c) == CronRows /\ Clicks(c, CronApi.update)
DeletesTask(c) == CronRows /\ Clicks(c, CronApi.delete)

(* Monitored services.                                                      *)
ServicesDialog == onPage = "services" /\ formOpen /\ ~saving
CreatesService(c) == ServicesDialog /\ Submits(c, ServicesApi.create)
DeletesService(c) == onPage = "services" /\ Confirms(c, ServicesApi.delete)

(* Relay chains; the wizard is a module of its own (ChainWizard).           *)
ChainsRows == onPage = "chains" /\ Offered("chains")
SavesChain(c) == onPage = "chains" /\ formOpen /\ ~saving /\ Submits(c, ChainsApi.save)
TestsChain(c) == ChainsRows /\ Clicks(c, ChainsApi.test)
DeletesChain(c) == onPage = "chains" /\ Confirms(c, ChainsApi.delete)

(* Notification channels; a test changes and reloads nothing.               *)
ChannelsRows == onPage = "notifications" /\ Offered("channels")
ChannelsDialog == onPage = "notifications" /\ formOpen /\ ~saving
SavesChannel(c) == ChannelsDialog /\ Submits(c, ChannelsApi.create)
TestsChannel(c) ==
  ChannelsRows /\ Sends(c, [changes |-> ChannelsApi.test, reload |-> {}, ends |-> "row"])
DeletesChannel(c) == ChannelsRows /\ Clicks(c, ChannelsApi.delete)

(* Probes.                                                                  *)
ProbesRows == onPage = "probes" /\ Offered("probes")
ProbesDialog == onPage = "probes" /\ formOpen /\ ~saving
SavesProbe(c) == ProbesDialog /\ Submits(c, ProbesApi.create)
DeletesProbe(c) == ProbesRows /\ Clicks(c, ProbesApi.delete)

Clicked(c) ==
  \/ CreatesRule(c) \/ TogglesRule(c) \/ DeletesRule(c)
  \/ SavesTask(c) \/ TriggersTask(c) \/ EnablesTask(c) \/ DeletesTask(c)
  \/ CreatesService(c) \/ DeletesService(c)
  \/ SavesChain(c) \/ TestsChain(c) \/ DeletesChain(c)
  \/ SavesChannel(c) \/ TestsChannel(c) \/ DeletesChannel(c)
  \/ SavesProbe(c) \/ DeletesProbe(c)

-----------------------------------------------------------------------------
(* The panel serves a call, ...                                             *)
Applies(c) ==
  /\ step[c] = "sent" /\ step' = [step EXCEPT ![c] = "applied"]
  /\ changes' = changes + 1 /\ ver' = [ver EXCEPT ![c] = changes + 1]
  /\ lastChange' = [k \in Lists |-> IF k \in what[c].changes THEN changes + 1 ELSE lastChange[k]]
  /\ UNCHANGED <<qcVars, tabVars, others, what, mounted, boundVars, own>>

(* ... and somebody else, or the panel itself, changes a list.              *)
Others(k) ==
  /\ others < MaxChanges /\ others' = others + 1 /\ changes' = changes + 1
  /\ k \in tour.lists
  /\ lastChange' = [lastChange EXCEPT ![k] = changes + 1]
  /\ UNCHANGED <<qcVars, tabVars, callVars, boundVars, own>>

Finished(c) ==
  /\ step' = [step EXCEPT ![c] = "idle"] /\ what' = [what EXCEPT ![c] = NoWork]
  /\ ver' = [ver EXCEPT ![c] = 0] /\ mounted' = [mounted EXCEPT ![c] = FALSE]

(* The answer arrives: the dialog of the page that sent the call closes,    *)
(* and its lists are invalidated wherever the admin is by now.              *)
Answered(c) ==
  /\ step[c] = "applied" /\ Finished(c)
  /\ formOpen' = (formOpen /\ ~(mounted[c] /\ what[c].ends = "form"))
  /\ saving' = (saving /\ ~(mounted[c] /\ what[c].ends = "form"))
  /\ confirm' = (confirm /\ ~(mounted[c] /\ what[c].ends = "confirm"))
  /\ Invalidates(what[c].reload, OnScreen)
  /\ own' = [k \in Lists |-> IF k \in what[c].changes \cap OnScreen /\ HasData(k) /\ own[k] < ver[c]
                             THEN ver[c] ELSE own[k]]
  /\ UNCHANGED <<tour, onPage, listVars, boundVars>>

(* The panel refuses the call, or its answer is lost: nothing is reloaded,  *)
(* a form stays open to try again.                                          *)
CallFails(c) ==
  /\ step[c] # "idle" /\ Finished(c)
  /\ saving' = (saving /\ ~(mounted[c] /\ what[c].ends = "form"))
  /\ confirm' = (confirm /\ ~(mounted[c] /\ what[c].ends = "confirm"))
  /\ UNCHANGED <<qcVars, tour, onPage, formOpen, listVars, boundVars, own>>

(* The refresh button of the services page.                                 *)
Refreshes ==
  /\ onPage = "services" /\ Invalidates(PageReload, OnScreen)
  /\ clicks < tour.clicks /\ clicks' = clicks + 1
  /\ UNCHANGED <<tabVars, listVars, callVars, lostLoads, own>>

-----------------------------------------------------------------------------
(* The loads of the lists.                                                  *)
PollsList(k) == k \in Polled /\ Polls(k)
ReadsList(k) == PanelReads(k, lastChange[k])
OtherVars == <<tabVars, listVars, callVars, own, clicks>>

ListFails(k) == lostLoads < MaxLostLoads /\ lostLoads' = lostLoads + 1 /\ LoadFails(k, OnScreen)

Loads(k) == /\ PollsList(k) \/ ReadsList(k) \/ LoadDone(k)
            /\ UNCHANGED <<OtherVars, lostLoads>>
Ages(k) == \/ (GoesStale(k) \/ (k \notin OnScreen /\ Dropped(k))) /\ UNCHANGED <<OtherVars, lostLoads>>
           \/ ListFails(k) /\ UNCHANGED OtherVars

LSNext ==
  \/ \E p \in DOMAIN Pages : GoTo(p)
  \/ OpensForm \/ ClosesForm \/ AsksToDelete \/ Cancels \/ Refreshes
  \/ \E c \in ApiCall : Clicked(c) \/ Applies(c) \/ Answered(c) \/ CallFails(c)
  \/ \E k \in Lists : Others(k) \/ Loads(k) \/ Ages(k)

(* The tab is looked at: its timers fire; requests are answered.            *)
LSFairness ==
  \A k \in PolledLists : /\ WF_lsVars(PollsList(k) /\ UNCHANGED <<OtherVars, lostLoads>>)
                         /\ WF_lsVars(ReadsList(k) /\ UNCHANGED <<OtherVars, lostLoads>>)
                         /\ WF_lsVars(LoadDone(k) /\ UNCHANGED <<OtherVars, lostLoads>>)

LSSpec == LSInit /\ [][LSNext]_lsVars

-----------------------------------------------------------------------------
Steps == {"idle", "sent", "applied"}
Works == [changes : SUBSET Lists, reload : SUBSET Lists, ends : {"form", "confirm", "row"}]

(* The lists are at changes that were made, loads and calls in steps they   *)
(* have.                                                                    *)
LSTypeOK ==
  /\ onPage \in DOMAIN Pages /\ tour \in Tours
  /\ formOpen \in BOOLEAN /\ saving \in BOOLEAN /\ confirm \in BOOLEAN
  /\ lastChange \in [Lists -> Nat] /\ own \in [Lists -> Nat] /\ changes \in Nat
  /\ stale \in [Key -> BOOLEAN] /\ fetch \in [Key -> {"idle", "asked", "read"}]
  /\ retried \in [Key -> BOOLEAN]
  /\ \A k \in Lists : cached[k] \in Nat \cup {NoData} /\ reply[k] \in Nat \cup {NoData}
  /\ step \in [ApiCall -> Steps] /\ what \in [ApiCall -> Works]
  /\ ver \in [ApiCall -> Nat] /\ mounted \in [ApiCall -> BOOLEAN]

(* What the admin was told has been done shows: when a call of a page was   *)
(* answered while its list was on screen, that list holds the change, is    *)
(* being loaded, or is marked to be: no answer of a load that was under way *)
(* earlier passes for the state after it (the `reload' of every page).      *)
OwnChangesShown ==
  \A k \in Lists :
    HasData(k) => \/ cached[k] >= own[k]
                  \/ fetch[k] # "idle"
                  \/ stale[k]

(* A list with an interval catches up with whatever anybody changes, also   *)
(* after loads that failed, as long as its page stays on screen             *)
(* (refetchInterval).                                                       *)
PolledListsFollow ==
  \A k \in PolledLists : k \in Polled ~> (cached[k] = lastChange[k] \/ k \notin Polled)
=============================================================================
