---------------------------- MODULE PagesProofs -----------------------------
(* What the pages of the panel show, while requests overlap and what they   *)
(* show changes: that each of the invariants of AdminLists, ServersPage,    *)
(* FilesPage, TokensPage and ChainWizard holds for every value of their     *)
(* constants, and the types of these modules.                               *)
EXTENDS AdminLists, ServersPage, FilesPage, TokensPage, ChainWizard,
        FiniteSetTheorems, SequenceTheorems, TLAPS

-----------------------------------------------------------------------------
(* Why the admin sees what he changed (OwnChangesShown of AdminLists), for  *)
(* any lists that are followed, any number of calls, of changes by others   *)
(* and of loads that fail.                                                  *)
(*                                                                          *)
(* OwnChangesShown is not inductive: it says nothing of what a load that is *)
(* under way will bring.  The invariant adds that a reply on its way is not *)
(* older than what the page was told of (an invalidation starts anew any    *)
(* load that is), that the panel had made each change before it answered,   *)
(* and that every button reloads the lists which its call changes.          *)
CacheTyped ==
  /\ cached \in [Key -> Nat \cup {NoData}] /\ reply \in [Key -> Nat \cup {NoData}]
  /\ stale \in [Key -> BOOLEAN] /\ fetch \in [Key -> {"idle", "asked", "read"}]

CallsTyped ==
  /\ step \in [ApiCall -> Steps] /\ what \in [ApiCall -> Works] /\ ver \in [ApiCall -> Nat]

ListsTyped ==
  /\ lastChange \in [Lists -> Nat] /\ own \in [Lists -> Nat] /\ changes \in Nat

RepliesNew ==
  \A k \in Lists : fetch[k] = "read" => reply[k] \in Nat /\ own[k] <= reply[k]

CallsMade ==
  /\ \A k \in Lists : own[k] <= lastChange[k] /\ lastChange[k] <= changes
  /\ \A c \in ApiCall : step[c] = "applied" => \A k \in what[c].changes : ver[c] <= lastChange[k]

CallsReload == \A c \in ApiCall : what[c].changes \subseteq what[c].reload

LSInv == /\ CacheTyped /\ CallsTyped /\ ListsTyped
         /\ RepliesNew /\ CallsMade /\ CallsReload /\ OwnChangesShown

LEMMA LSInitInv == LSInit => LSInv
<1> SUFFICES ASSUME LSInit PROVE LSInv
  OBVIOUS
<1>1. CacheTyped /\ CallsTyped /\ ListsTyped
  BY DEF LSInit, EmptyCache, CacheTyped, CallsTyped, ListsTyped, NoWork, Works, Steps
<1>2. RepliesNew /\ CallsMade /\ CallsReload /\ OwnChangesShown
  BY PagesAssumption
     DEF LSInit, EmptyCache, RepliesNew, CallsMade, CallsReload, OwnChangesShown, HasData, NoWork
<1>3. QED
  BY <1>1, <1>2 DEF LSInv

-----------------------------------------------------------------------------
(* Loads that are started, or started anew, take nothing away: what is      *)
(* loaded is on its way, and the rest is as it was.                         *)
LEMMA FetchSound ==
  ASSUME CacheTyped, RepliesNew, OwnChangesShown, NEW ks \in SUBSET Key, Fetch(ks),
         UNCHANGED <<cached, own>>,
         stale' \in [Key -> BOOLEAN], \A k \in Key : stale[k] => stale'[k]
  PROVE  CacheTyped' /\ RepliesNew' /\ OwnChangesShown'
<1>1. CacheTyped'
  BY DEF CacheTyped, Fetch
<1>2. RepliesNew'
  BY PagesAssumption DEF RepliesNew, Fetch
<1>3. OwnChangesShown'
  BY PagesAssumption DEF OwnChangesShown, Fetch, HasData, CacheTyped
<1>4. QED
  BY <1>1, <1>2, <1>3

(* The pages, and what each of their buttons changes.                       *)
LEMMA PageReloads ==
  /\ onPage = "alerts" => PageReload = {"rules", "events"}
  /\ onPage = "cron" => PageReload = {"tasks", "executions"}
  /\ onPage = "services" => PageReload = {"services"}
  /\ onPage = "chains" => PageReload = {"chains"}
  /\ onPage = "notifications" => PageReload = {"channels"}
  /\ onPage = "probes" => PageReload = {"probes"}
BY DEF PageReload, Pages, AlertsPage, CronPage, ServicesPage, ChainsPage, ChannelsPage, ProbesPage

LEMMA ApiChanges ==
  /\ AlertsApi.createRule = {"rules"} /\ AlertsApi.updateRule = {"rules"} /\ AlertsApi.deleteRule = {"rules"}
  /\ CronApi.create = {"tasks"} /\ CronApi.update = {"tasks"} /\ CronApi.delete = {"tasks"}
  /\ CronApi.trigger = {"tasks", "executions"}
  /\ ServicesApi.create = {"services"} /\ ServicesApi.delete = {"services"}
  /\ ChainsApi.save = {"chains"} /\ ChainsApi.test = {"chains"} /\ ChainsApi.delete = {"chains"}
  /\ ChannelsApi.create = {"channels"} /\ ChannelsApi.delete = {"channels"} /\ ChannelsApi.test = {}
  /\ ProbesApi.create = {"probes"} /\ ProbesApi.delete = {"probes"}
BY DEF AlertsApi, CronApi, ServicesApi, ChainsApi, ChannelsApi, ProbesApi

(* A button sends a call that reloads whatever it changes.                  *)
LEMMA SendsReload ==
  ASSUME NEW c \in ApiCall, NEW ks \in SUBSET Lists, ks \subseteq PageReload,
         PageReload \subseteq Lists,
         Submits(c, ks) \/ Confirms(c, ks) \/ Clicks(c, ks)
  PROVE  \E w \in Works : w.changes \subseteq w.reload /\ Sends(c, w)
<1>1. CASE Submits(c, ks)
  <2> DEFINE w == [changes |-> ks, reload |-> PageReload, ends |-> "form"]
  <2>1. w \in Works /\ w.changes \subseteq w.reload
    BY DEF Works
  <2>2. Sends(c, w)
    BY <1>1 DEF Submits
  <2> QED
    BY <2>1, <2>2
<1>2. CASE Confirms(c, ks)
  <2> DEFINE w == [changes |-> ks, reload |-> PageReload, ends |-> "confirm"]
  <2>1. w \in Works /\ w.changes \subseteq w.reload
    BY DEF Works
  <2>2. Sends(c, w)
    BY <1>2 DEF Confirms
  <2> QED
    BY <2>1, <2>2
<1>3. CASE Clicks(c, ks)
  <2> DEFINE w == [changes |-> ks, reload |-> PageReload, ends |-> "row"]
  <2>1. w \in Works /\ w.changes \subseteq w.reload
    BY DEF Works
  <2>2. Sends(c, w)
    BY <1>3 DEF Clicks
  <2> QED
    BY <2>1, <2>2
<1> QED
  BY <1>1, <1>2, <1>3

LEMMA ClicksReload ==
  ASSUME NEW c \in ApiCall, Clicked(c)
  PROVE  \E w \in Works : w.changes \subseteq w.reload /\ Sends(c, w)
<1> USE PageReloads, ApiChanges DEF Lists
<1>1. CASE CreatesRule(c) \/ TogglesRule(c) \/ DeletesRule(c)
  BY <1>1, SendsReload DEF CreatesRule, TogglesRule, DeletesRule, AlertsDialog, AlertsRows
<1>2. CASE SavesTask(c) \/ TriggersTask(c) \/ EnablesTask(c) \/ DeletesTask(c)
  BY <1>2, SendsReload DEF SavesTask, TriggersTask, EnablesTask, DeletesTask, CronDialog, CronRows
<1>3. CASE CreatesService(c) \/ DeletesService(c)
  BY <1>3, SendsReload DEF CreatesService, DeletesService, ServicesDialog
<1>4. CASE SavesChain(c) \/ TestsChain(c) \/ DeletesChain(c)
  BY <1>4, SendsReload DEF SavesChain, TestsChain, DeletesChain, ChainsRows
<1>5. CASE SavesChannel(c) \/ DeletesChannel(c)
  BY <1>5, SendsReload DEF SavesChannel, DeletesChannel, ChannelsDialog, ChannelsRows
<1>6. CASE SavesProbe(c) \/ DeletesProbe(c)
  BY <1>6, SendsReload DEF SavesProbe, DeletesProbe, ProbesDialog, ProbesRows
<1>7. CASE TestsChannel(c)
  <2> DEFINE w == [changes |-> ChannelsApi.test, reload |-> {}, ends |-> "row"]
  <2>1. w \in Works /\ w.changes \subseteq w.reload
    BY DEF Works
  <2>2. Sends(c, w)
    BY <1>7 DEF TestsChannel
  <2> QED
    BY <2>1, <2>2
<1> QED
  BY <1>1, <1>2, <1>3, <1>4, <1>5, <1>6, <1>7 DEF Clicked

-----------------------------------------------------------------------------
(* What the calls and the lists are typed and reload does not change while  *)
(* only the tab, the cache or the bounds do.                                *)
LEMMA PanelAtRest ==
  ASSUME LSInv, UNCHANGED <<lastChange, changes, own, step, what, ver>>
  PROVE  CallsTyped' /\ ListsTyped' /\ CallsMade' /\ CallsReload'
BY DEF LSInv, CallsTyped, ListsTyped, CallsMade, CallsReload

LEMMA CacheAtRest ==
  ASSUME LSInv, UNCHANGED <<qcVars, own>>
  PROVE  CacheTyped' /\ RepliesNew' /\ OwnChangesShown'
BY DEF LSInv, qcVars, CacheTyped, RepliesNew, OwnChangesShown, HasData

LEMMA GoToStep == ASSUME LSInv, NEW p \in DOMAIN Pages, GoTo(p) PROVE LSInv'
<1>1. PICK ks \in SUBSET Key : Fetch(ks) /\ UNCHANGED <<cached, stale>>
  <2> DEFINE ks == {k \in Pages[p].shows \cap tour.lists : fetch[k] = "idle" /\ (stale[k] \/ ~HasData(k))}
  <2>1. Pages[p].shows \subseteq Lists
    BY DEF Pages, AlertsPage, CronPage, ServicesPage, ChainsPage, ChannelsPage, ProbesPage,
           StatusPage, RoutesPage, Lists
  <2>2. ks \in SUBSET Key
    BY <2>1, PagesAssumption
  <2>3. Fetch(ks) /\ UNCHANGED <<cached, stale>>
    BY DEF GoTo, Opens
  <2> QED
    BY <2>2, <2>3
<1>2. UNCHANGED <<lastChange, changes, own, step, what, ver>>
  BY DEF GoTo, listVars
<1>3. CacheTyped' /\ RepliesNew' /\ OwnChangesShown'
  BY <1>1, <1>2, FetchSound DEF LSInv, CacheTyped
<1> QED
  BY <1>2, <1>3, PanelAtRest DEF LSInv

LEMMA AdminDialogStep ==
  ASSUME LSInv, OpensForm \/ ClosesForm \/ AsksToDelete \/ Cancels
  PROVE  LSInv'
<1>1. UNCHANGED <<qcVars, lastChange, changes, own, step, what, ver>>
  BY DEF OpensForm, ClosesForm, AsksToDelete, Cancels, listVars, callVars
<1> QED
  BY <1>1, PanelAtRest, CacheAtRest DEF LSInv

LEMMA RefreshStep == ASSUME LSInv, Refreshes PROVE LSInv'
<1> DEFINE ks == {k \in PageReload \cap OnScreen : fetch[k] = "idle" \/ HasData(k)}
<1>1. ks \in SUBSET Key
  BY PagesAssumption, PageReloads DEF Refreshes, Lists
<1>2. /\ Fetch(ks) /\ UNCHANGED cached
      /\ stale' = [k \in Key |-> stale[k] \/ k \in PageReload]
  BY DEF Refreshes, Invalidates
<1>3. UNCHANGED <<lastChange, changes, own, step, what, ver>>
  BY DEF Refreshes, listVars, callVars
<1>4. CacheTyped' /\ RepliesNew' /\ OwnChangesShown'
  BY <1>1, <1>2, <1>3, FetchSound DEF LSInv, CacheTyped
<1> QED
  BY <1>3, <1>4, PanelAtRest DEF LSInv

LEMMA ClickStep == ASSUME LSInv, NEW c \in ApiCall, Clicked(c) PROVE LSInv'
<1>1. PICK w \in Works : w.changes \subseteq w.reload /\ Sends(c, w)
  BY ClicksReload
<1>2. /\ step' = [step EXCEPT ![c] = "sent"] /\ what' = [what EXCEPT ![c] = w]
      /\ UNCHANGED <<qcVars, lastChange, changes, own, ver>>
  BY <1>1 DEF Sends, listVars
<1>3. CallsTyped' /\ ListsTyped' /\ CallsReload'
  BY <1>1, <1>2 DEF LSInv, CallsTyped, ListsTyped, CallsReload, Steps
<1>4. CallsMade'
  BY <1>2 DEF LSInv, CallsTyped, CallsMade
<1> QED
  BY <1>2, <1>3, <1>4, CacheAtRest DEF LSInv

(* The panel makes a change: it is the last of each list it is made to.     *)
LEMMA AppliesStep == ASSUME LSInv, NEW c \in ApiCall, Applies(c) PROVE LSInv'
<1>1. /\ step' = [step EXCEPT ![c] = "applied"] /\ UNCHANGED <<what, qcVars, own>>
      /\ changes' = changes + 1 /\ ver' = [ver EXCEPT ![c] = changes + 1]
      /\ lastChange' = [k \in Lists |-> IF k \in what[c].changes THEN changes + 1 ELSE lastChange[k]]
  BY DEF Applies
<1>2. CallsTyped' /\ ListsTyped' /\ CallsReload'
  BY <1>1 DEF LSInv, CallsTyped, ListsTyped, CallsReload, Steps
<1>3. \A k \in Lists : lastChange[k] <= lastChange'[k] /\ lastChange'[k] <= changes'
  BY <1>1 DEF LSInv, ListsTyped, CallsMade
<1>4. \A d \in ApiCall : what[d].changes \subseteq Lists
  BY DEF LSInv, CallsTyped, Works
<1>5. CallsMade'
  BY <1>1, <1>3, <1>4 DEF LSInv, CallsMade, CallsTyped, ListsTyped
<1> QED
  BY <1>1, <1>2, <1>5, CacheAtRest DEF LSInv

LEMMA AdminOthersStep == ASSUME LSInv, NEW k \in Lists, Others(k) PROVE LSInv'
<1>1. /\ changes' = changes + 1 /\ lastChange' = [lastChange EXCEPT ![k] = changes + 1]
      /\ UNCHANGED <<qcVars, own, step, what, ver>>
  BY DEF Others, callVars
<1>2. CallsTyped' /\ ListsTyped' /\ CallsReload'
  BY <1>1 DEF LSInv, CallsTyped, ListsTyped, CallsReload
<1>3. \A d \in ApiCall : what[d].changes \subseteq Lists
  BY DEF LSInv, CallsTyped, Works
<1>4. CallsMade'
  BY <1>1, <1>3 DEF LSInv, CallsMade, CallsTyped, ListsTyped
<1> QED
  BY <1>1, <1>2, <1>4, CacheAtRest DEF LSInv

LEMMA FailsStep == ASSUME LSInv, NEW c \in ApiCall, CallFails(c) PROVE LSInv'
<1>1. /\ step' = [step EXCEPT ![c] = "idle"] /\ what' = [what EXCEPT ![c] = NoWork]
      /\ ver' = [ver EXCEPT ![c] = 0] /\ UNCHANGED <<qcVars, lastChange, changes, own>>
  BY DEF CallFails, Finished, listVars
<1>2. CallsTyped' /\ ListsTyped' /\ CallsReload'
  BY <1>1 DEF LSInv, CallsTyped, ListsTyped, CallsReload, Steps, Works, NoWork
<1>3. CallsMade'
  BY <1>1 DEF LSInv, CallsTyped, CallsMade
<1> QED
  BY <1>1, <1>2, <1>3, CacheAtRest DEF LSInv

(* A call is answered: where the admin is told that a list has changed, the *)
(* load of the list starts anew.                                            *)
LEMMA AnsweredStep == ASSUME LSInv, NEW c \in ApiCall, Answered(c) PROVE LSInv'
<1> DEFINE ks == {k \in what[c].reload \cap OnScreen : fetch[k] = "idle" \/ HasData(k)}
           Told(k) == k \in what[c].changes \cap OnScreen /\ HasData(k) /\ own[k] < ver[c]
<1>1. /\ step[c] = "applied" /\ step' = [step EXCEPT ![c] = "idle"]
      /\ what' = [what EXCEPT ![c] = NoWork] /\ ver' = [ver EXCEPT ![c] = 0]
      /\ UNCHANGED <<lastChange, changes, cached>>
      /\ own' = [k \in Lists |-> IF Told(k) THEN ver[c] ELSE own[k]]
  BY DEF Answered, Finished, listVars, Invalidates
<1>2. Fetch(ks) /\ stale' = [k \in Key |-> stale[k] \/ k \in what[c].reload]
  BY DEF Answered, Invalidates
<1>3. what[c].changes \subseteq what[c].reload /\ what[c].reload \subseteq Lists /\ Lists \subseteq Key
  BY PagesAssumption DEF LSInv, CallsReload, CallsTyped, Works
<1>4. \A k \in Lists : Told(k) => k \in ks
  BY <1>3
<1>5. CallsTyped' /\ ListsTyped' /\ CallsReload'
  BY <1>1 DEF LSInv, CallsTyped, ListsTyped, CallsReload, Steps, Works, NoWork
<1>6. CallsMade'
  BY <1>1 DEF LSInv, CallsTyped, ListsTyped, CallsMade
<1>7. CacheTyped'
  BY <1>1, <1>2 DEF LSInv, CacheTyped, Fetch
<1>8. \A k \in Lists : /\ k \in ks => fetch'[k] = "asked"
                       /\ k \notin ks => own'[k] = own[k] /\ fetch'[k] = fetch[k] /\ reply'[k] = reply[k]
                       /\ stale[k] => stale'[k]
  BY <1>1, <1>2, <1>3, <1>4 DEF Fetch
<1>9. RepliesNew'
  BY <1>8 DEF LSInv, RepliesNew
<1>10. OwnChangesShown'
  BY <1>1, <1>8 DEF LSInv, OwnChangesShown, HasData
<1> QED
  BY <1>5, <1>6, <1>7, <1>9, <1>10 DEF LSInv

(* A load goes on or ends: what arrives is not older than what the admin    *)
(* was told of.                                                             *)
LEMMA LoadsStep == ASSUME LSInv, NEW k \in Lists, Loads(k) PROVE LSInv'
<1>1. UNCHANGED <<lastChange, changes, own, step, what, ver>>
  BY DEF Loads, OtherVars, listVars, callVars
<1>2. k \in Key /\ lastChange[k] \in Nat /\ own[k] \in Nat /\ own[k] <= lastChange[k]
  BY PagesAssumption DEF LSInv, ListsTyped, CallsMade
<1>3. CASE PollsList(k)
  BY <1>1, <1>2, <1>3, FetchSound, PanelAtRest DEF LSInv, PollsList, Polls, CacheTyped
<1>4. CASE ReadsList(k)
  <2>1. /\ fetch' = [fetch EXCEPT ![k] = "read"] /\ reply' = [reply EXCEPT ![k] = lastChange[k]]
        /\ UNCHANGED <<cached, stale>>
    BY <1>4 DEF ReadsList, PanelReads
  <2>2. CacheTyped'
    BY <1>2, <2>1 DEF LSInv, CacheTyped
  <2>3. RepliesNew' /\ OwnChangesShown'
    BY <1>1, <1>2, <2>1 DEF LSInv, CacheTyped, RepliesNew, OwnChangesShown, HasData
  <2> QED
    BY <1>1, <2>2, <2>3, PanelAtRest DEF LSInv
<1>5. CASE LoadDone(k)
  <2>1. /\ fetch[k] = "read" /\ fetch' = [fetch EXCEPT ![k] = "idle"]
        /\ cached' = [cached EXCEPT ![k] = reply[k]]
        /\ stale' = [stale EXCEPT ![k] = FALSE] /\ reply' = [reply EXCEPT ![k] = NoData]
    BY <1>5 DEF LoadDone
  <2>2. reply[k] \in Nat /\ own[k] <= reply[k]
    BY <2>1 DEF LSInv, RepliesNew
  <2>3. CacheTyped'
    BY <1>2, <2>1, <2>2 DEF LSInv, CacheTyped
  <2>4. RepliesNew'
    BY <1>1, <2>1 DEF LSInv, CacheTyped, RepliesNew
  <2>5. OwnChangesShown'
    BY <1>1, <1>2, <2>1, <2>2 DEF LSInv, CacheTyped, OwnChangesShown, HasData
  <2> QED
    BY <1>1, <2>3, <2>4, <2>5, PanelAtRest DEF LSInv
<1> QED
  BY <1>3, <1>4, <1>5 DEF Loads

LEMMA AgesStep == ASSUME LSInv, NEW k \in Lists, Ages(k) PROVE LSInv'
<1>1. UNCHANGED <<lastChange, changes, own, step, what, ver>>
  BY DEF Ages, OtherVars, listVars, callVars
<1>2. k \in Key
  BY PagesAssumption
<1>3. CASE GoesStale(k)
  <2>1. stale' = [stale EXCEPT ![k] = TRUE] /\ UNCHANGED <<cached, fetch, reply>>
    BY <1>3 DEF GoesStale
  <2>2. CacheTyped' /\ RepliesNew' /\ OwnChangesShown'
    BY <1>1, <1>2, <2>1 DEF LSInv, CacheTyped, RepliesNew, OwnChangesShown, HasData
  <2> QED
    BY <1>1, <2>2, PanelAtRest DEF LSInv
<1>4. CASE Dropped(k)
  <2>1. /\ cached' = [cached EXCEPT ![k] = NoData] /\ stale' = [stale EXCEPT ![k] = TRUE]
        /\ UNCHANGED <<fetch, reply>>
    BY <1>4 DEF Dropped
  <2>2. CacheTyped' /\ RepliesNew' /\ OwnChangesShown'
    BY <1>1, <1>2, <2>1 DEF LSInv, CacheTyped, RepliesNew, OwnChangesShown, HasData
  <2> QED
    BY <1>1, <2>2, PanelAtRest DEF LSInv
<1>5. CASE ListFails(k)
  <2>1. /\ reply' = [reply EXCEPT ![k] = NoData] /\ UNCHANGED cached
        /\ \/ fetch' = [fetch EXCEPT ![k] = "asked"] /\ UNCHANGED stale
           \/ fetch' = [fetch EXCEPT ![k] = "idle"] /\ stale' = [stale EXCEPT ![k] = TRUE]
    BY <1>5 DEF ListFails, LoadFails
  <2>2. CacheTyped'
    <3>1. cached' \in [Key -> Nat \cup {NoData}] /\ reply' \in [Key -> Nat \cup {NoData}]
      BY <1>2, <2>1 DEF LSInv, CacheTyped
    <3>2. stale' \in [Key -> BOOLEAN] /\ fetch' \in [Key -> {"idle", "asked", "read"}]
      <4>1. stale \in [Key -> BOOLEAN] /\ fetch \in [Key -> {"idle", "asked", "read"}]
        BY DEF LSInv, CacheTyped
      <4>2. [stale EXCEPT ![k] = TRUE] \in [Key -> BOOLEAN]
        BY <1>2, <4>1
      <4>3. [fetch EXCEPT ![k] = "asked"] \in [Key -> {"idle", "asked", "read"}]
        BY <1>2, <4>1
      <4>4. [fetch EXCEPT ![k] = "idle"] \in [Key -> {"idle", "asked", "read"}]
        BY <1>2, <4>1
      <4> QED
        BY <2>1, <4>1, <4>2, <4>3, <4>4
    <3> QED
      BY <3>1, <3>2 DEF CacheTyped
  <2>3. RepliesNew'
    <3> SUFFICES ASSUME NEW l \in Lists, fetch'[l] = "read"
                 PROVE  reply'[l] \in Nat /\ own[l] <= reply'[l]
      BY <1>1 DEF RepliesNew
    <3>1. l # k /\ fetch[l] = "read"
      BY <1>2, <2>1, PagesAssumption DEF LSInv, CacheTyped
    <3>2. reply'[l] = reply[l]
      BY <2>1, <3>1, PagesAssumption DEF LSInv, CacheTyped
    <3> QED
      BY <3>1, <3>2 DEF LSInv, RepliesNew
  <2>4. OwnChangesShown'
    <3> SUFFICES ASSUME NEW l \in Lists, HasData(l)
                 PROVE  cached[l] >= own[l] \/ fetch'[l] # "idle" \/ stale'[l]
      BY <1>1, <2>1 DEF OwnChangesShown, HasData
    <3>1. l \in Key /\ (cached[l] >= own[l] \/ fetch[l] # "idle" \/ stale[l])
      BY PagesAssumption DEF LSInv, OwnChangesShown
    <3>2. CASE fetch' = [fetch EXCEPT ![k] = "asked"] /\ UNCHANGED stale
      BY <3>1, <3>2 DEF LSInv, CacheTyped
    <3>3. CASE fetch' = [fetch EXCEPT ![k] = "idle"] /\ stale' = [stale EXCEPT ![k] = TRUE]
      BY <3>1, <3>3 DEF LSInv, CacheTyped
    <3> QED
      BY <2>1, <3>2, <3>3
  <2> QED
    BY <1>1, <2>2, <2>3, <2>4, PanelAtRest DEF LSInv
<1> QED
  BY <1>3, <1>4, <1>5 DEF Ages

-----------------------------------------------------------------------------
LEMMA LSNextInv == ASSUME LSInv, [LSNext]_lsVars PROVE LSInv'
<1>1. CASE UNCHANGED lsVars
  <2>1. UNCHANGED <<qcVars, lastChange, changes, own, step, what, ver>>
    BY <1>1 DEF lsVars, listVars, callVars
  <2> QED
    BY <2>1, PanelAtRest, CacheAtRest DEF LSInv
<1>2. CASE LSNext
  BY <1>2, GoToStep, AdminDialogStep, RefreshStep, ClickStep, AppliesStep, AnsweredStep, FailsStep,
     AdminOthersStep, LoadsStep, AgesStep DEF LSNext
<1> QED
  BY <1>1, <1>2

(* Whatever the admin was told has been done shows, or is on its way: for   *)
(* any pages and lists that are followed, calls, loads that fail and        *)
(* changes by others (the `reload' of every page).                          *)
THEOREM OwnChangesAreShown == LSSpec => []OwnChangesShown
<1>1. LSInv => OwnChangesShown
  BY DEF LSInv
<1>2. QED
  BY LSInitInv, LSNextInv, <1>1, PTL DEF LSSpec

-----------------------------------------------------------------------------
(* Why deleted servers leave the list (DeletedGone of ServersPage), for any *)
(* servers, deletions under way, page sizes and stays.                      *)
(*                                                                          *)
(* DeletedGone is not inductive.  The invariant adds that what was deleted  *)
(* never comes back (it is in neither the panel's table nor among those to  *)
(* be added), from the panel's deletion on, before the page is told; and    *)
(* that an answer on its way lists nothing whose deletion the page was told *)
(* of: the invalidation starts anew any load that had been under way.       *)
CallsKept == DOMAIN deletion = Batch
ListKept ==
  /\ Servers \in DOMAIN cached /\ Servers \in DOMAIN stale
  /\ Servers \in DOMAIN fetch /\ Servers \in DOMAIN reply

(* What has been deleted is nowhere.                                        *)
FreshNotThere == DOMAIN table \cap fresh = {}
DeletedNowhere ==
  \A b \in Batch : \A s \in DOMAIN deletion[b] :
    deletion[b][s] = "deleted" => s \notin DOMAIN table \cup fresh
GoneNowhere == gone \cap (DOMAIN table \cup fresh) = {}

AnswerNew ==
  fetch[Servers] = "read" => \A i \in DOMAIN reply[Servers] : reply[Servers][i].id \notin gone

DeletionInv == CallsKept /\ FreshNotThere /\ DeletedNowhere /\ GoneNowhere
ListInv == ListKept /\ AnswerNew /\ DeletedGone
SPInv == DeletionInv /\ ListInv

LEMMA SPInitInv == SPInit => SPInv
<1> SUFFICES ASSUME SPInit PROVE SPInv
  OBVIOUS
<1>1. DeletionInv
  BY FreshAssumption
     DEF SPInit, DeletionInv, CallsKept, FreshNotThere, DeletedNowhere, GoneNowhere
<1>2. ListInv
  BY ServersAssumption DEF SPInit, EmptyCache, ListInv, ListKept, AnswerNew, DeletedGone
<1> QED
  BY <1>1, <1>2 DEF SPInv

-----------------------------------------------------------------------------
(* What loads do to the list while nothing is deleted.                      *)
LEMMA RowsCacheAtRest == ASSUME ListInv, UNCHANGED <<cached, stale, fetch, reply, gone>> PROVE ListInv'
BY DEF ListInv, ListKept, AnswerNew, DeletedGone, Listed, HasData

LEMMA RowsFetchSound ==
  ASSUME ListInv, NEW ks, Fetch(ks), UNCHANGED <<cached, gone>>,
         Servers \in DOMAIN stale', stale[Servers] => stale'[Servers]
  PROVE  ListInv'
<1>1. ListKept'
  BY ServersAssumption DEF ListInv, ListKept, Fetch
<1>2. AnswerNew'
  BY ServersAssumption DEF ListInv, AnswerNew, Fetch
<1>3. DeletedGone'
  BY ServersAssumption DEF ListInv, DeletedGone, Fetch, Listed, HasData
<1> QED
  BY <1>1, <1>2, <1>3 DEF ListInv

LEMMA InvalidatesSound ==
  ASSUME ListInv, NEW ks, NEW shown, Invalidates(ks, shown), UNCHANGED gone
  PROVE  ListInv'
<1>1. /\ Fetch({k \in ks \cap shown : fetch[k] = "idle" \/ HasData(k)})
      /\ Servers \in DOMAIN stale' /\ (stale[Servers] => stale'[Servers]) /\ UNCHANGED cached
  BY ServersAssumption DEF Invalidates
<1> QED
  BY <1>1, RowsFetchSound

LEMMA OpensSound ==
  ASSUME ListInv, NEW ks, Opens(ks), UNCHANGED gone
  PROVE  ListInv'
BY RowsFetchSound DEF Opens, ListInv, ListKept

LEMMA DeletionAtRest ==
  ASSUME DeletionInv, UNCHANGED <<deletion, gone>>, FreshNotThere',
         DOMAIN table' \cup fresh' \subseteq DOMAIN table \cup fresh
  PROVE  DeletionInv'
BY DEF DeletionInv, CallsKept, DeletedNowhere, GoneNowhere

LEMMA PanelRowsAtRest == ASSUME DeletionInv, UNCHANGED <<deletion, gone, panelRows>> PROVE DeletionInv'
<1>1. UNCHANGED <<table, fresh>>
  BY DEF panelRows
<1> QED
  BY <1>1 DEF DeletionInv, CallsKept, FreshNotThere, DeletedNowhere, GoneNowhere

LEMMA QcAtRest == ASSUME ListInv, UNCHANGED <<qcVars, gone>> PROVE ListInv'
BY RowsCacheAtRest DEF qcVars

-----------------------------------------------------------------------------
(* Looking, dialogs and the form leave servers, deletions and list alone.   *)
LEMMA LookStep ==
  ASSUME SPInv,
         \/ \E ks \in SUBSET stay.kinds \ {{}} : Filters(ks)
         \/ \E n \in stay.sizes : PicksSize(n)
         \/ \E s \in Srv : ToggleSelect(s)
         \/ Previous \/ NextPage \/ TogglePage
  PROVE  SPInv'
<1>1. UNCHANGED <<qcVars, panelRows, deletion, gone>>
  BY DEF Filters, PicksSize, ToggleSelect, Previous, NextPage, TogglePage, Looks
<1> QED
  BY <1>1, PanelRowsAtRest, QcAtRest DEF SPInv

LEMMA RowDialogStep ==
  ASSUME SPInv,
         \/ LeavesServers \/ Closes
         \/ \E f \in Submission : SubmitsServer(f) \/ FormRefused(f)
         \/ \E d \in {"form", "delete", "bulk"}, s \in Srv \cup {NoSrv} : OpensDialog(d, s)
  PROVE  SPInv'
<1>1. UNCHANGED <<qcVars, panelRows, deletion, gone>>
  BY DEF LeavesServers, Closes, SubmitsServer, FormRefused, OpensDialog
<1> QED
  BY <1>1, PanelRowsAtRest, QcAtRest DEF SPInv

LEMMA ReloadStep ==
  ASSUME SPInv, ConfirmsNothing \/ ReloadsServers \/ OpensServers \/ \E f \in Submission : FormAnswered(f)
  PROVE  SPInv'
<1>1. UNCHANGED <<panelRows, deletion, gone>>
  BY DEF ConfirmsNothing, ReloadsServers, FormAnswered, OpensServers
<1>2. Invalidates({Servers}, Screen) \/ Opens({Servers})
  BY DEF ConfirmsNothing, ReloadsServers, FormAnswered, OpensServers
<1>3. ListInv'
  BY <1>1, <1>2, InvalidatesSound, OpensSound DEF SPInv
<1> QED
  BY <1>1, <1>3, PanelRowsAtRest DEF SPInv

-----------------------------------------------------------------------------
(* A deletion is sent, ...                                                  *)
LEMMA DeletionSendStep ==
  ASSUME SPInv, NEW b \in Batch, ConfirmsDelete(b) \/ ConfirmsBulk(b)
  PROVE  SPInv'
<1>1. PICK ss : DoDelete(b, ss)
  BY DEF ConfirmsDelete, ConfirmsBulk
<1>2. /\ deletion' = [deletion EXCEPT ![b] = [s \in ss |-> "sent"]]
      /\ UNCHANGED <<qcVars, table, fresh, gone>>
  BY <1>1 DEF DoDelete, panelRows
<1>3. DeletedNowhere'
  <2> SUFFICES ASSUME NEW c \in Batch, NEW s \in DOMAIN deletion'[c], deletion'[c][s] = "deleted"
               PROVE  s \notin DOMAIN table \cup fresh
    BY <1>2 DEF DeletedNowhere
  <2>1. c # b
    BY <1>2 DEF SPInv, DeletionInv, CallsKept
  <2>2. deletion'[c] = deletion[c]
    BY <1>2, <2>1 DEF SPInv, DeletionInv, CallsKept
  <2> QED
    BY <2>2 DEF SPInv, DeletionInv, DeletedNowhere
<1>4. DeletionInv'
  BY <1>2, <1>3 DEF SPInv, DeletionInv, CallsKept, FreshNotThere, GoneNowhere
<1> QED
  BY <1>2, <1>4, QcAtRest DEF SPInv

(* ... the panel deletes one server after the other, ...                    *)
LEMMA OutcomeKept ==
  ASSUME CallsKept, NEW b \in Batch, NEW s \in DOMAIN deletion[b], NEW o, Outcome(b, s, o),
         NEW c \in Batch
  PROVE  /\ DOMAIN deletion' = Batch
         /\ DOMAIN deletion'[c] = DOMAIN deletion[c]
         /\ \A r \in DOMAIN deletion[c] :
              deletion'[c][r] = IF c = b /\ r = s THEN o ELSE deletion[c][r]
<1>1. deletion' = [deletion EXCEPT ![b] = [deletion[b] EXCEPT ![s] = o]]
  BY DEF Outcome
<1>2. DOMAIN deletion' = Batch
  BY <1>1 DEF CallsKept
<1>3. deletion'[c] = IF c = b THEN [deletion[b] EXCEPT ![s] = o] ELSE deletion[c]
  BY <1>1 DEF CallsKept
<1>4. CASE c = b
  BY <1>2, <1>3, <1>4
<1>5. CASE c # b
  BY <1>2, <1>3, <1>5
<1> QED
  BY <1>4, <1>5

LEMMA PanelDeletesStep ==
  ASSUME SPInv, NEW b \in Batch, NEW s \in Srv, PanelDeletes(b, s)
  PROVE  SPInv'
<1>1. s \in DOMAIN deletion[b] /\ UNCHANGED <<qcVars, fresh, gone>>
  BY DEF PanelDeletes, InBatch, Elsewhere
<1>2. DOMAIN table' \subseteq DOMAIN table
  BY DEF PanelDeletes
<1>3. CASE s \in DOMAIN table
  <2>1. table' = [r \in DOMAIN table \ {s} |-> table[r]] /\ Outcome(b, s, "deleted")
    BY <1>3 DEF PanelDeletes
  <2>2. DeletedNowhere'
    <3> SUFFICES ASSUME NEW c \in Batch, NEW r \in DOMAIN deletion'[c], deletion'[c][r] = "deleted"
                 PROVE  r \notin DOMAIN table' \cup fresh'
      BY DEF DeletedNowhere
    <3>1. /\ r \in DOMAIN deletion[c]
          /\ deletion'[c][r] = IF c = b /\ r = s THEN "deleted" ELSE deletion[c][r]
      BY <1>1, <2>1, OutcomeKept DEF SPInv, DeletionInv
    <3>2. CASE c = b /\ r = s
      BY <1>1, <1>3, <2>1, <3>2 DEF SPInv, DeletionInv, FreshNotThere
    <3>3. CASE ~(c = b /\ r = s)
      BY <1>1, <1>2, <3>1, <3>3 DEF SPInv, DeletionInv, DeletedNowhere
    <3> QED
      BY <3>2, <3>3
  <2>3. CallsKept'
    BY <1>1, <2>1, OutcomeKept DEF SPInv, DeletionInv, CallsKept
  <2>4. FreshNotThere' /\ GoneNowhere'
    BY <1>1, <1>2 DEF SPInv, DeletionInv, FreshNotThere, GoneNowhere
  <2> QED
    BY <1>1, <2>2, <2>3, <2>4, QcAtRest DEF SPInv, DeletionInv
<1>4. CASE s \notin DOMAIN table
  <2>1. Outcome(b, s, "failed") /\ UNCHANGED table
    BY <1>4 DEF PanelDeletes
  <2>2. DeletedNowhere'
    BY <1>1, <2>1, OutcomeKept DEF SPInv, DeletionInv, DeletedNowhere
  <2>3. CallsKept'
    BY <1>1, <2>1, OutcomeKept DEF SPInv, DeletionInv, CallsKept
  <2>4. FreshNotThere' /\ GoneNowhere'
    BY <1>1, <2>1 DEF SPInv, DeletionInv, FreshNotThere, GoneNowhere
  <2> QED
    BY <1>1, <2>2, <2>3, <2>4, QcAtRest DEF SPInv, DeletionInv
<1> QED
  BY <1>3, <1>4

LEMMA CallLostStep ==
  ASSUME SPInv, NEW b \in Batch, NEW s \in Srv, CallLost(b, s)
  PROVE  SPInv'
<1>1. s \in DOMAIN deletion[b] /\ Outcome(b, s, "failed") /\ UNCHANGED <<qcVars, table, fresh, gone>>
  BY DEF CallLost, InBatch, Elsewhere, panelRows
<1>2. DeletedNowhere'
  BY <1>1, OutcomeKept DEF SPInv, DeletionInv, DeletedNowhere
<1>3. CallsKept'
  BY <1>1, OutcomeKept DEF SPInv, DeletionInv, CallsKept
<1>4. FreshNotThere' /\ GoneNowhere'
  BY <1>1 DEF SPInv, DeletionInv, FreshNotThere, GoneNowhere
<1> QED
  BY <1>1, <1>2, <1>3, <1>4, QcAtRest DEF SPInv, DeletionInv

(* ... and the page, told of all outcomes, loads the list anew.             *)
LEMMA DeletionDoneStep ==
  ASSUME SPInv, NEW b \in Batch, DeletionDone(b)
  PROVE  SPInv'
<1>1. /\ deletion' = [deletion EXCEPT ![b] = <<>>] /\ gone' = gone \cup ToldOf(b)
      /\ Invalidates({Servers}, Screen) /\ UNCHANGED <<table, fresh>>
  BY DEF DeletionDone, panelRows
<1>2. ToldOf(b) \cap (DOMAIN table \cup fresh) = {}
  BY DEF ToldOf, SPInv, DeletionInv, DeletedNowhere
<1>3. DeletionInv'
  <2>1. DeletedNowhere'
    <3> SUFFICES ASSUME NEW c \in Batch, NEW s \in DOMAIN deletion'[c], deletion'[c][s] = "deleted"
                 PROVE  s \notin DOMAIN table \cup fresh
      BY <1>1 DEF DeletedNowhere
    <3>1. c # b
      BY <1>1 DEF SPInv, DeletionInv, CallsKept
    <3>2. deletion'[c] = deletion[c]
      BY <1>1, <3>1 DEF SPInv, DeletionInv, CallsKept
    <3> QED
      BY <3>2 DEF SPInv, DeletionInv, DeletedNowhere
  <2>2. CallsKept' /\ FreshNotThere'
    BY <1>1 DEF SPInv, DeletionInv, CallsKept, FreshNotThere
  <2>3. GoneNowhere'
    BY <1>1, <1>2 DEF SPInv, DeletionInv, GoneNowhere
  <2> QED
    BY <2>1, <2>2, <2>3 DEF DeletionInv
<1>4. CASE ToldOf(b) = {}
  <2>1. UNCHANGED gone
    BY <1>1, <1>4
  <2> QED
    BY <1>1, <1>3, <2>1, InvalidatesSound DEF SPInv
<1>5. CASE ToldOf(b) # {}
  <2>1. opened /\ HasData(Servers)
    BY <1>5 DEF ToldOf
  <2>2. fetch'[Servers] = "asked"
    BY <1>1, <2>1, ServersAssumption DEF Invalidates, Fetch, Screen
  <2>3. ListKept'
    BY <1>1, ServersAssumption DEF SPInv, ListInv, ListKept, Invalidates, Fetch
  <2>4. AnswerNew' /\ DeletedGone'
    BY <2>2 DEF AnswerNew, DeletedGone
  <2> QED
    BY <1>3, <2>3, <2>4 DEF SPInv, ListInv
<1> QED
  BY <1>4, <1>5

-----------------------------------------------------------------------------
(* Servers come, go and change otherwise; none that is gone comes back.     *)
LEMMA RowSaveStep ==
  ASSUME SPInv, NEW f \in Submission, NEW s \in Srv, NEW k \in stay.kinds, PanelSaves(f, s, k)
  PROVE  SPInv'
<1>1. /\ UNCHANGED <<qcVars, deletion, gone>> /\ s \in DOMAIN table \cup fresh
      /\ DOMAIN table' = DOMAIN table \cup {s} /\ fresh' = fresh \ {s}
  BY DEF PanelSaves
<1>2. DeletionInv'
  BY <1>1, DeletionAtRest DEF SPInv, DeletionInv, FreshNotThere
<1> QED
  BY <1>1, <1>2, QcAtRest DEF SPInv

LEMMA RowsChangeStep ==
  ASSUME SPInv, NEW s \in Srv, NEW k \in stay.kinds, OthersChange(s, k)
  PROVE  SPInv'
<1>1. /\ UNCHANGED <<qcVars, deletion, gone>> /\ fresh' = fresh \ {s}
      /\ DOMAIN table' \subseteq DOMAIN table \cup {s} /\ s \in DOMAIN table \cup fresh
  BY DEF OthersChange, Elsewhere
<1>2. DeletionInv'
  BY <1>1, DeletionAtRest DEF SPInv, DeletionInv, FreshNotThere
<1> QED
  BY <1>1, <1>2, QcAtRest DEF SPInv

(* An answer lists what the panel has when it is read.                      *)
LEMMA AnswersListServers ==
  ASSUME NEW r \in Answers, NEW i \in DOMAIN r
  PROVE  r[i].id \in DOMAIN table
<1> DEFINE Rows == {[id |-> s, kind |-> table[s]] : s \in DOMAIN table}
<1>1. r[i] \in Rows
  BY DEF Answers
<1>2. PICK s \in DOMAIN table : r[i] = [id |-> s, kind |-> table[s]]
  BY <1>1
<1> QED
  BY <1>2

LEMMA LoadStep == ASSUME SPInv, LoadsServers PROVE SPInv'
<1>1. UNCHANGED <<panelRows, deletion, gone>>
  BY DEF LoadsServers, ListVars
<1>2. DeletionInv'
  BY <1>1, PanelRowsAtRest DEF SPInv
<1>3. CASE Polls(Servers)
  <2>1. Fetch({Servers}) /\ UNCHANGED <<cached, stale>>
    BY <1>3 DEF Polls
  <2> QED
    BY <1>1, <1>2, <2>1, RowsFetchSound DEF SPInv, ListInv, ListKept
<1>4. ASSUME NEW r \in Answers, PanelReads(Servers, r)
      PROVE  SPInv'
  <2>1. /\ fetch' = [fetch EXCEPT ![Servers] = "read"] /\ reply' = [reply EXCEPT ![Servers] = r]
        /\ UNCHANGED <<cached, stale>>
    BY <1>4 DEF PanelReads
  <2>2. ListKept' /\ reply'[Servers] = r /\ fetch'[Servers] = "read"
    BY <2>1 DEF SPInv, ListInv, ListKept
  <2>3. AnswerNew'
    BY <1>1, <2>2, AnswersListServers DEF AnswerNew, SPInv, DeletionInv, GoneNowhere
  <2>4. DeletedGone'
    BY <2>2 DEF DeletedGone
  <2> QED
    BY <1>2, <2>2, <2>3, <2>4 DEF SPInv, ListInv
<1>5. CASE LoadDone(Servers)
  <2>1. /\ fetch[Servers] = "read" /\ fetch' = [fetch EXCEPT ![Servers] = "idle"]
        /\ cached' = [cached EXCEPT ![Servers] = reply[Servers]]
        /\ stale' = [stale EXCEPT ![Servers] = FALSE]
        /\ reply' = [reply EXCEPT ![Servers] = NoData]
    BY <1>5 DEF LoadDone
  <2>2. ListKept' /\ cached'[Servers] = reply[Servers] /\ fetch'[Servers] = "idle"
    BY <2>1 DEF SPInv, ListInv, ListKept
  <2>3. AnswerNew'
    BY <2>2 DEF AnswerNew
  <2>4. DeletedGone'
    BY <1>1, <2>1, <2>2 DEF DeletedGone, Listed, HasData, SPInv, ListInv, AnswerNew
  <2> QED
    BY <1>2, <2>2, <2>3, <2>4 DEF SPInv, ListInv
<1>6. CASE GoesStale(Servers)
  <2>1. stale' = [stale EXCEPT ![Servers] = TRUE] /\ UNCHANGED <<cached, fetch, reply>>
    BY <1>6 DEF GoesStale
  <2>2. ListInv'
    BY <1>1, <2>1 DEF SPInv, ListInv, ListKept, AnswerNew, DeletedGone
  <2> QED
    BY <1>2, <2>2 DEF SPInv
<1>7. CASE Dropped(Servers)
  <2>1. /\ cached' = [cached EXCEPT ![Servers] = NoData] /\ stale' = [stale EXCEPT ![Servers] = TRUE]
        /\ UNCHANGED <<fetch, reply>>
    BY <1>7 DEF Dropped
  <2>2. ListInv'
    BY <1>1, <2>1 DEF SPInv, ListInv, ListKept, AnswerNew, DeletedGone
  <2> QED
    BY <1>2, <2>2 DEF SPInv
<1> QED
  BY <1>3, <1>4, <1>5, <1>6, <1>7 DEF LoadsServers

LEMMA FailStep == ASSUME SPInv, ServersFail PROVE SPInv'
<1>1. UNCHANGED <<panelRows, deletion, gone>> /\ LoadFails(Servers, Screen)
  BY DEF ServersFail, ListVars
<1>2. DeletionInv'
  BY <1>1, PanelRowsAtRest DEF SPInv
<1>3. CASE fetch' = [fetch EXCEPT ![Servers] = "asked"]
  <2>1. /\ reply' = [reply EXCEPT ![Servers] = NoData]
        /\ stale' = stale \/ stale' = [stale EXCEPT ![Servers] = TRUE]
        /\ UNCHANGED cached
    BY <1>1 DEF LoadFails
  <2>2. ListInv'
    BY <1>3, <2>1 DEF SPInv, ListInv, ListKept, AnswerNew, DeletedGone
  <2> QED
    BY <1>2, <2>2 DEF SPInv
<1>4. CASE fetch' = [fetch EXCEPT ![Servers] = "idle"] /\ stale' = [stale EXCEPT ![Servers] = TRUE]
  <2>1. reply' = [reply EXCEPT ![Servers] = NoData] /\ UNCHANGED cached
    BY <1>1 DEF LoadFails
  <2>2. ListInv'
    BY <1>4, <2>1 DEF SPInv, ListInv, ListKept, AnswerNew, DeletedGone
  <2> QED
    BY <1>2, <2>2 DEF SPInv
<1> QED
  BY <1>1, <1>3, <1>4 DEF LoadFails

-----------------------------------------------------------------------------
LEMMA SPNextInv == ASSUME SPInv, [SPNext]_spVars PROVE SPInv'
<1>1. CASE UNCHANGED spVars
  <2>1. UNCHANGED <<qcVars, panelRows, deletion, gone>>
    BY <1>1 DEF spVars
  <2> QED
    BY <2>1, PanelRowsAtRest, QcAtRest DEF SPInv
<1>2. CASE SPNext
  BY <1>2, LookStep, RowDialogStep, ReloadStep, DeletionSendStep, PanelDeletesStep, CallLostStep,
     DeletionDoneStep, RowSaveStep, RowsChangeStep, LoadStep, FailStep DEF SPNext
<1> QED
  BY <1>1, <1>2

(* A server whose deletion the page was told of leaves the list, also when  *)
(* other calls of the same deletion failed (doDelete).                      *)
THEOREM DeletedServersGone == SPSpec => []DeletedGone
<1>1. SPInv => DeletedGone
  BY DEF SPInv, ListInv
<1>2. QED
  BY SPInitInv, SPNextInv, <1>1, PTL DEF SPSpec

-----------------------------------------------------------------------------
(* Why the pages hold every matching row once, and the one shown is not     *)
(* empty (PagesCover), for any list, filter, page size and page chosen.     *)
(*                                                                          *)
(* What the steps have to keep is little: the list that is shown, or on its *)
(* way, is finite and numbers its rows, each once.  The rest is counting:   *)
(* the places of the matching rows, counted in order, are 1, 2, ... without *)
(* a gap (NthOnto), and each number is on one page of those there are       *)
(* (OnePage).                                                               *)
Rows == [id : Srv, kind : Kind]
IsListing(l) ==
  /\ DOMAIN l \subseteq Nat /\ IsFiniteSet(DOMAIN l)
  /\ \A i \in DOMAIN l : l[i].id \in Srv
  /\ \A i, j \in DOMAIN l : l[i].id = l[j].id => i = j

TableTyped == DOMAIN table \subseteq Srv /\ IsFiniteSet(DOMAIN table) /\ fresh \subseteq Srv
ListTyped == ListKept /\ IsListing(Listed) /\ (fetch[Servers] = "read" => IsListing(reply[Servers]))

-----------------------------------------------------------------------------
(* Counting.                                                                *)
LEMMA FilteredFinite ==
  ASSUME IsListing(Listed)
  PROVE  /\ Filtered \subseteq Nat /\ IsFiniteSet(Filtered) /\ Cardinality(Filtered) \in Nat
         /\ Filtered = {} <=> Cardinality(Filtered) = 0
<1>1. Filtered \subseteq DOMAIN Listed
  BY DEF Filtered
<1>2. IsFiniteSet(Filtered)
  BY <1>1, FS_Subset DEF IsListing
<1> QED
  BY <1>1, <1>2, FS_CardinalityType, FS_EmptySet DEF IsListing

LEMMA NthRange ==
  ASSUME IsListing(Listed), NEW i \in Filtered
  PROVE  Nth(i) \in 1 .. Cardinality(Filtered)
<1> DEFINE Upto == {j \in Filtered : j <= i}
<1>1. Upto \subseteq Filtered /\ i \in Upto
  BY FilteredFinite
<1>2. IsFiniteSet(Upto) /\ Cardinality(Upto) <= Cardinality(Filtered)
  BY <1>1, FilteredFinite, FS_Subset
<1>3. Cardinality(Upto) \in Nat /\ Cardinality(Upto) # 0
  BY <1>1, <1>2, FS_CardinalityType, FS_EmptySet
<1> QED
  BY <1>2, <1>3, FilteredFinite DEF Nth

LEMMA NthGrows ==
  ASSUME IsListing(Listed), NEW i \in Filtered, NEW k \in Filtered, i < k
  PROVE  Nth(i) < Nth(k)
<1> DEFINE Upto(n) == {j \in Filtered : j <= n}
<1>1. Upto(i) \subseteq Upto(k) /\ Upto(k) \subseteq Filtered /\ k \in Upto(k) /\ k \notin Upto(i)
  BY FilteredFinite
<1>2. IsFiniteSet(Upto(k)) /\ IsFiniteSet(Upto(i))
  BY <1>1, FilteredFinite, FS_Subset
<1>3. Cardinality(Upto(i)) <= Cardinality(Upto(k)) /\ Cardinality(Upto(i)) # Cardinality(Upto(k))
  BY <1>1, <1>2, FS_Subset
<1>4. Cardinality(Upto(i)) \in Nat /\ Cardinality(Upto(k)) \in Nat
  BY <1>2, FS_CardinalityType
<1> QED
  BY <1>3, <1>4 DEF Nth

(* Every number up to that of the matching rows is that of one of them.     *)
LEMMA NthOnto ==
  ASSUME IsListing(Listed), NEW n \in 1 .. Cardinality(Filtered)
  PROVE  \E i \in Filtered : Nth(i) = n
<1> DEFINE N == Cardinality(Filtered)
           f == [i \in Filtered |-> Nth(i)]
<1>1. f \in [Filtered -> 1 .. N]
  BY NthRange
<1>2. \A i, k \in Filtered : f[i] = f[k] => i = k
  <2> SUFFICES ASSUME NEW i \in Filtered, NEW k \in Filtered, f[i] = f[k], i # k PROVE FALSE
    OBVIOUS
  <2>1. Nth(i) = Nth(k) /\ Nth(i) \in Int /\ i \in Nat /\ k \in Nat
    BY NthRange, FilteredFinite
  <2>2. i < k \/ k < i
    BY <2>1
  <2> QED
    BY <2>1, <2>2, NthGrows
<1>3. f \in Injection(Filtered, 1 .. N)
  BY <1>1, <1>2 DEF Injection, IsInjective
<1>4. N \in Nat /\ IsFiniteSet(1 .. N) /\ Cardinality(1 .. N) = N
  BY FilteredFinite, FS_Interval
<1>5. f \in Surjection(Filtered, 1 .. N)
  BY <1>3, <1>4, FS_Injection
<1> QED
  BY <1>5 DEF Surjection

LEMMA ProductGrows ==
  ASSUME NEW s \in Nat, NEW x \in Int, NEW y \in Int, x <= y
  PROVE  x * s <= y * s
<1>1. (y - x) * s >= 0
  OBVIOUS
<1>2. (y - x) * s = (y * s) - (x * s)
  OBVIOUS
<1> QED
  BY <1>1, <1>2

LEMMA Division ==
  ASSUME NEW s \in Nat \ {0}, NEW n \in Nat
  PROVE  n \div s \in Nat /\ (n \div s) * s <= n /\ n < ((n \div s) + 1) * s
<1> DEFINE d == n \div s
<1>1. d \in Int /\ n = (s * d) + (n % s) /\ (n % s) \in 0 .. (s - 1)
  OBVIOUS
<1> HIDE DEF d
<1>2. d * s <= n /\ n < (d + 1) * s
  BY <1>1
<1>3. d \in Nat
  <2> SUFFICES ASSUME d < 0 PROVE FALSE
    BY <1>1
  <2>1. (d + 1) * s <= 0 * s
    BY <1>1, ProductGrows
  <2> QED
    BY <1>1, <1>2, <2>1
<1> QED
  BY <1>2, <1>3 DEF d

(* Each of n numbers is on one page of s, of those there are.               *)
LEMMA OnePage ==
  ASSUME NEW s \in Nat \ {0}, NEW n \in Nat \ {0}, NEW i \in 1 .. n
  PROVE  \E p \in 1 .. ((n + s - 1) \div s) :
           /\ (p - 1) * s < i /\ i <= p * s
           /\ \A q \in Int : (q - 1) * s < i /\ i <= q * s => q = p
<1> DEFINE d == (i - 1) \div s
           T == (n + s - 1) \div s
<1>1. d \in Nat /\ d * s <= i - 1 /\ i - 1 < (d + 1) * s
  BY Division
<1>2. T \in Nat /\ n + s - 1 < (T + 1) * s
  BY Division
<1> HIDE DEF d, T
<1>3. i <= n /\ i \in Int /\ (T + 1) * s = (T * s) + s
  BY <1>2
<1>4. n <= T * s
  BY <1>2, <1>3
<1>5. d < T
  <2> SUFFICES ASSUME T <= d PROVE FALSE
    BY <1>1, <1>2
  <2>1. T * s <= d * s
    BY <1>1, <1>2, ProductGrows
  <2> QED
    BY <1>1, <1>2, <1>3, <1>4, <2>1
<1>6. ASSUME NEW q \in Int, (q - 1) * s < i, i <= q * s
      PROVE  q = d + 1
  <2>1. CASE q <= d
    <3>1. q * s <= d * s
      BY <1>1, <2>1, ProductGrows
    <3> QED
      BY <1>1, <1>3, <1>6, <3>1
  <2>2. CASE d + 1 <= q - 1
    <3>1. (d + 1) * s <= (q - 1) * s
      BY <1>1, <2>2, ProductGrows
    <3> QED
      BY <1>1, <1>3, <1>6, <3>1
  <2> QED
    BY <1>1, <2>1, <2>2
<1>7. d + 1 \in 1 .. T /\ ((d + 1) - 1) * s < i /\ i <= (d + 1) * s
  BY <1>1, <1>2, <1>3, <1>5
<1> QED
  BY <1>6, <1>7 DEF T

LEMMA PagesThereAre ==
  ASSUME IsListing(Listed), pageSize \in Nat \ {0}, pageNo \in Nat \ {0}
  PROVE  TotalPages \in Nat \ {0} /\ CurrentPage \in 1 .. TotalPages
<1>1. TotalPages \in Nat \ {0}
  <2>1. CASE Filtered = {}
    BY <2>1 DEF TotalPages
  <2>2. CASE Filtered # {}
    <3>1. Cardinality(Filtered) \in Nat \ {0}
      BY <2>2, FilteredFinite
    <3>2. PICK p \in 1 .. ((Cardinality(Filtered) + pageSize - 1) \div pageSize) : TRUE
      BY <3>1, OnePage
    <3>3. (Cardinality(Filtered) + pageSize - 1) \div pageSize \in Nat
      BY <3>1, Division
    <3> QED
      BY <2>2, <3>2, <3>3 DEF TotalPages
  <2> QED
    BY <2>1, <2>2
<1> QED
  BY <1>1 DEF CurrentPage

LEMMA PagesSound ==
  ASSUME IsListing(Listed), pageSize \in Nat \ {0}, pageNo \in Nat \ {0}
  PROVE  PagesCover
<1> DEFINE N == Cardinality(Filtered)
<1>1. ASSUME NEW i \in Filtered, NEW q \in Int
      PROVE  Listed[i].id \in ItemsOf(q) <=> (q - 1) * pageSize < Nth(i) /\ Nth(i) <= q * pageSize
  <2>1. Listed[i].id \in ItemsOf(q) <=> i \in OnPage(q)
    BY DEF ItemsOf, OnPage, Filtered, IsListing
  <2> QED
    BY <2>1 DEF OnPage
<1>2. ASSUME Filtered # {} PROVE N \in Nat \ {0} /\ TotalPages = (N + pageSize - 1) \div pageSize
  BY <1>2, FilteredFinite DEF TotalPages
<1>3. ASSUME NEW i \in Filtered
      PROVE  \E p \in 1 .. TotalPages : \A q \in 1 .. TotalPages : Listed[i].id \in ItemsOf(q) <=> q = p
  <2>1. PICK p \in 1 .. TotalPages :
          /\ (p - 1) * pageSize < Nth(i) /\ Nth(i) <= p * pageSize
          /\ \A q \in Int : (q - 1) * pageSize < Nth(i) /\ Nth(i) <= q * pageSize => q = p
    BY <1>2, <1>3, NthRange, OnePage
  <2>2. \A q \in 1 .. TotalPages : q \in Int
    OBVIOUS
  <2> QED
    BY <1>1, <1>3, <2>1, <2>2
<1>4. ASSUME Filtered # {} PROVE PageItems # {}
  <2> DEFINE n == ((CurrentPage - 1) * pageSize) + 1
  <2>1. CurrentPage \in 1 .. TotalPages /\ TotalPages \in Nat
    BY PagesThereAre
  <2>2. N \in Nat \ {0} /\ TotalPages * pageSize <= N + pageSize - 1
    BY <1>2, <1>4, Division
  <2>3. CurrentPage * pageSize <= TotalPages * pageSize
    BY <2>1, ProductGrows
  <2>4. (CurrentPage - 1) * pageSize = (CurrentPage * pageSize) - pageSize
    BY <2>1
  <2>5. 0 * pageSize <= (CurrentPage - 1) * pageSize
    BY <2>1, ProductGrows
  <2>6. CurrentPage * pageSize \in Int /\ TotalPages * pageSize \in Int
    BY <2>1
  <2>7. n \in 1 .. N /\ n <= CurrentPage * pageSize
    BY <2>2, <2>3, <2>4, <2>5, <2>6
  <2>8. PICK i \in Filtered : Nth(i) = n
    BY <2>7, NthOnto
  <2>9. (CurrentPage - 1) * pageSize < Nth(i) /\ Nth(i) <= CurrentPage * pageSize
    BY <2>4, <2>6, <2>7, <2>8
  <2> QED
    BY <1>1, <2>1, <2>9 DEF PageItems
<1> QED
  BY <1>3, <1>4 DEF PagesCover

-----------------------------------------------------------------------------
(* The table, the list and the page as they are kept.                       *)
PageTyped ==
  /\ stay \in Stays /\ opened \in BOOLEAN
  /\ filter \subseteq Kind /\ pageNo \in Nat \ {0} /\ pageSize \in Nat \ {0}
  /\ selected \subseteq Srv /\ target \in Srv \cup {NoSrv}
  /\ dialog \in {"none", "form", "delete", "bulk"} /\ (dialog = "delete" => target # NoSrv)
  /\ submitting \in BOOLEAN /\ saveStep \in [Submission -> {"idle", "sent", "saved"}]
  /\ mine \subseteq Batch \cup Submission

SPTyped == TableTyped /\ ListTyped /\ PageTyped

LEMMA StayBounds ==
  ASSUME stay \in Stays
  PROVE  /\ stay.there \subseteq Srv /\ IsFiniteSet(stay.there) /\ stay.fresh \subseteq Srv
         /\ stay.kinds \subseteq Kind /\ stay.sizes \subseteq Nat \ {0}
<1>1. stay \in [there : SUBSET Srv, fresh : SUBSET Srv, kinds : SUBSET Kind,
                sizes : SUBSET Sizes, edits : Nat, calls : Nat, faults : Nat]
  BY StaysAssumption
<1> QED
  BY <1>1, FreshAssumption, SizesAssumption

LEMMA NothingListed == IsListing(<<>>)
<1>1. DOMAIN <<>> = {}
  OBVIOUS
<1> QED
  BY <1>1, FS_EmptySet DEF IsListing

LEMMA SPInitTyped == SPInit => SPTyped
<1> SUFFICES ASSUME SPInit PROVE SPTyped
  OBVIOUS
<1> USE StayBounds
<1>1. stay \in Stays /\ table \in [stay.there -> stay.kinds] /\ fresh = stay.fresh
  BY DEF SPInit
<1>2. TableTyped
  BY <1>1 DEF TableTyped
<1>3. ListTyped
  <2>1. ListKept /\ cached[Servers] = NoData /\ fetch[Servers] = "idle"
    BY ServersAssumption DEF SPInit, EmptyCache, ListKept
  <2>2. Listed = <<>>
    BY <2>1 DEF Listed, HasData
  <2> QED
    BY <2>1, <2>2, NothingListed DEF ListTyped
<1>4. PageTyped
  <2>1. stay.kinds \subseteq Kind
    BY <1>1
  <2>2. filter = stay.kinds /\ pageNo = 1 /\ pageSize = DefaultSize /\ selected = {} /\ mine = {}
    BY DEF SPInit, NewView
  <2>3. /\ opened = FALSE /\ dialog = "none" /\ target = NoSrv
        /\ submitting = FALSE /\ saveStep = [f \in Submission |-> "idle"]
    BY DEF SPInit
  <2>4. filter \subseteq Kind /\ selected \subseteq Srv /\ mine \subseteq Batch \cup Submission
    BY <2>1, <2>2, <1>1 DEF SPInit
  <2>5. opened \in BOOLEAN /\ submitting \in BOOLEAN
    BY <2>3
  <2>6. /\ pageNo \in Nat \ {0} /\ pageSize \in Nat \ {0} /\ target \in Srv \cup {NoSrv}
        /\ dialog \in {"none", "form", "delete", "bulk"} /\ dialog # "delete"
        /\ saveStep \in [Submission -> {"idle", "sent", "saved"}]
    BY <2>2, <2>3, SizesAssumption
  <2> QED
    BY <1>1, <2>4, <2>5, <2>6 DEF PageTyped
<1> QED
  BY <1>2, <1>3, <1>4 DEF SPTyped

(* Servers come one at a time, those that are new once.                     *)
LEMMA TableNext == ASSUME TableTyped, [SPNext]_spVars PROVE TableTyped'
<1>1. CASE UNCHANGED <<table, fresh>>
  BY <1>1 DEF TableTyped
<1>2. ASSUME NEW s \in Srv, DOMAIN table' \subseteq DOMAIN table \cup {s}, fresh' \subseteq fresh
      PROVE  TableTyped'
  <2>1. IsFiniteSet(DOMAIN table \cup {s})
    BY FS_AddElement DEF TableTyped
  <2> QED
    BY <1>2, <2>1, FS_Subset DEF TableTyped
<1>3. ASSUME NEW b \in Batch, NEW s \in Srv, PanelDeletes(b, s)
      PROVE  DOMAIN table' \subseteq DOMAIN table \cup {s} /\ fresh' \subseteq fresh
  BY <1>3 DEF PanelDeletes
<1>4. ASSUME NEW s \in Srv, NEW k \in stay.kinds,
             OthersChange(s, k) \/ \E f \in Submission : PanelSaves(f, s, k)
      PROVE  DOMAIN table' \subseteq DOMAIN table \cup {s} /\ fresh' \subseteq fresh
  BY <1>4 DEF PanelSaves, OthersChange
<1>5. CASE \/ OpensServers \/ LeavesServers \/ ReloadsServers
           \/ \E f \in Submission : SubmitsServer(f) \/ FormAnswered(f) \/ FormRefused(f)
  BY <1>1, <1>5 DEF OpensServers, LeavesServers, ReloadsServers, SubmitsServer, FormAnswered, FormRefused,
                    panelRows
<1>6. CASE \/ \E ks \in SUBSET stay.kinds \ {{}} : Filters(ks)
           \/ \E n \in stay.sizes : PicksSize(n)
           \/ Previous \/ NextPage \/ TogglePage
           \/ \E s \in Srv : ToggleSelect(s)
  BY <1>1, <1>6 DEF Filters, PicksSize, Previous, NextPage, TogglePage, ToggleSelect, Looks, panelRows
<1>7. CASE \/ Closes \/ ConfirmsNothing
           \/ \E d \in {"form", "delete", "bulk"}, s \in Srv \cup {NoSrv} : OpensDialog(d, s)
           \/ \E b \in Batch : ConfirmsDelete(b) \/ ConfirmsBulk(b) \/ DeletionDone(b)
           \/ \E b \in Batch, s \in Srv : CallLost(b, s)
  BY <1>1, <1>7 DEF Closes, ConfirmsNothing, OpensDialog, ConfirmsDelete, ConfirmsBulk, DoDelete,
                    DeletionDone, CallLost, panelRows
<1>8. CASE LoadsServers \/ ServersFail \/ UNCHANGED spVars
  BY <1>1, <1>8 DEF LoadsServers, ServersFail, ListVars, spVars, panelRows
<1> QED
  BY <1>2, <1>3, <1>4, <1>5, <1>6, <1>7, <1>8 DEF SPNext

-----------------------------------------------------------------------------
(* The list: what the panel answers is a listing, and so is what is shown.  *)
LEMMA AnswersAreListings == ASSUME TableTyped, NEW r \in Answers PROVE IsListing(r)
<1> DEFINE n == Cardinality(DOMAIN table)
<1>1. n \in Nat
  BY FS_CardinalityType DEF TableTyped
<1>2. DOMAIN r = 1 .. n /\ \A i, j \in DOMAIN r : r[i].id = r[j].id => i = j
  BY DEF Answers
<1>3. DOMAIN r \subseteq Nat /\ IsFiniteSet(DOMAIN r)
  BY <1>1, <1>2, FS_Interval
<1>4. \A i \in DOMAIN r : r[i].id \in Srv
  BY AnswersListServers DEF TableTyped
<1> QED
  BY <1>2, <1>3, <1>4 DEF IsListing

LEMMA ListAtRest == ASSUME ListTyped, UNCHANGED qcVars PROVE ListTyped'
BY DEF ListTyped, ListKept, Listed, HasData, qcVars

LEMMA ListFetches ==
  ASSUME ListTyped, NEW ks, Fetch(ks), UNCHANGED cached, Servers \in DOMAIN stale'
  PROVE  ListTyped'
<1>1. ListKept' /\ Listed' = Listed
  BY ServersAssumption DEF ListTyped, ListKept, Fetch, Listed, HasData
<1>2. fetch'[Servers] = "read" => fetch[Servers] = "read" /\ reply'[Servers] = reply[Servers]
  BY ServersAssumption DEF Fetch
<1> QED
  BY <1>1, <1>2 DEF ListTyped

LEMMA ListReloads ==
  ASSUME ListTyped, NEW ks, NEW shown, Invalidates(ks, shown) \/ Opens(ks)
  PROVE  ListTyped'
<1>1. PICK js : Fetch(js)
  BY DEF Invalidates, Opens
<1>2. UNCHANGED cached /\ Servers \in DOMAIN stale'
  BY ServersAssumption DEF Invalidates, Opens, ListTyped, ListKept
<1> QED
  BY <1>1, <1>2, ListFetches

LEMMA ListLoads == ASSUME TableTyped, ListTyped, LoadsServers \/ ServersFail PROVE ListTyped'
<1> USE DEF ListTyped
<1>1. CASE Polls(Servers)
  BY <1>1, ListFetches DEF Polls, ListKept
<1>2. ASSUME NEW r \in Answers, PanelReads(Servers, r) PROVE ListTyped'
  <2>1. /\ reply' = [reply EXCEPT ![Servers] = r] /\ fetch' = [fetch EXCEPT ![Servers] = "read"]
        /\ UNCHANGED <<cached, stale>>
    BY <1>2 DEF PanelReads
  <2>2. ListKept' /\ Listed' = Listed /\ reply'[Servers] = r
    BY <2>1 DEF ListKept, Listed, HasData
  <2> QED
    BY <2>2, AnswersAreListings
<1>3. CASE LoadDone(Servers)
  <2>1. /\ fetch[Servers] = "read" /\ fetch' = [fetch EXCEPT ![Servers] = "idle"]
        /\ cached' = [cached EXCEPT ![Servers] = reply[Servers]]
        /\ stale' = [stale EXCEPT ![Servers] = FALSE] /\ reply' = [reply EXCEPT ![Servers] = NoData]
    BY <1>3 DEF LoadDone
  <2>2. ListKept' /\ fetch'[Servers] # "read" /\ cached'[Servers] = reply[Servers]
    BY <2>1 DEF ListKept
  <2>3. Listed' = reply[Servers] \/ Listed' = <<>>
    BY <2>2 DEF Listed, HasData
  <2> QED
    BY <2>1, <2>2, <2>3, NothingListed
<1>4. CASE GoesStale(Servers)
  BY <1>4 DEF GoesStale, ListKept, Listed, HasData
<1>5. CASE Dropped(Servers)
  <2>1. /\ cached' = [cached EXCEPT ![Servers] = NoData] /\ stale' = [stale EXCEPT ![Servers] = TRUE]
        /\ UNCHANGED <<fetch, reply>>
    BY <1>5 DEF Dropped
  <2>2. ListKept' /\ Listed' = <<>>
    BY <2>1 DEF ListKept, Listed, HasData
  <2> QED
    BY <2>1, <2>2, NothingListed
<1>6. CASE LoadFails(Servers, Screen)
  <2>1. /\ fetch' = [fetch EXCEPT ![Servers] = "asked"] \/ fetch' = [fetch EXCEPT ![Servers] = "idle"]
        /\ stale' = stale \/ stale' = [stale EXCEPT ![Servers] = TRUE]
        /\ reply' = [reply EXCEPT ![Servers] = NoData] /\ UNCHANGED cached
    BY <1>6 DEF LoadFails
  <2>2. ListKept' /\ Listed' = Listed /\ fetch'[Servers] # "read"
    BY <2>1 DEF ListKept, Listed, HasData
  <2> QED
    BY <2>2
<1> QED
  BY <1>1, <1>2, <1>3, <1>4, <1>5, <1>6 DEF LoadsServers, ServersFail

LEMMA ListNext == ASSUME TableTyped, ListTyped, [SPNext]_spVars PROVE ListTyped'
<1>1. CASE \/ LeavesServers \/ Closes \/ UNCHANGED spVars
           \/ \E f \in Submission : SubmitsServer(f) \/ FormRefused(f)
           \/ \E d \in {"form", "delete", "bulk"}, s \in Srv \cup {NoSrv} : OpensDialog(d, s)
           \/ \E b \in Batch : ConfirmsDelete(b) \/ ConfirmsBulk(b)
  BY <1>1, ListAtRest DEF LeavesServers, SubmitsServer, FormRefused, Closes, OpensDialog,
                          ConfirmsDelete, ConfirmsBulk, DoDelete, spVars
<1>2. CASE \/ \E b \in Batch, s \in Srv : PanelDeletes(b, s) \/ CallLost(b, s)
           \/ \E f \in Submission, s \in Srv, k \in stay.kinds : PanelSaves(f, s, k)
           \/ \E s \in Srv, k \in stay.kinds : OthersChange(s, k)
  BY <1>2, ListAtRest DEF PanelDeletes, CallLost, PanelSaves, OthersChange, Elsewhere
<1>3. CASE \/ \E ks \in SUBSET stay.kinds \ {{}} : Filters(ks)
           \/ \E n \in stay.sizes : PicksSize(n)
           \/ Previous \/ NextPage \/ TogglePage
           \/ \E s \in Srv : ToggleSelect(s)
  BY <1>3, ListAtRest DEF Filters, PicksSize, Previous, NextPage, TogglePage, ToggleSelect, Looks
<1>4. CASE \/ OpensServers \/ ReloadsServers \/ ConfirmsNothing
           \/ \E f \in Submission : FormAnswered(f)
           \/ \E b \in Batch : DeletionDone(b)
  BY <1>4, ListReloads DEF OpensServers, ReloadsServers, FormAnswered, ConfirmsNothing, DeletionDone
<1>5. CASE LoadsServers \/ ServersFail
  BY <1>5, ListLoads
<1> QED
  BY <1>1, <1>2, <1>3, <1>4, <1>5 DEF SPNext

-----------------------------------------------------------------------------
(* The page: rows that are chosen are those of the list.                    *)
LEMMA ItemsAreServers == ASSUME IsListing(Listed) PROVE PageItems \subseteq Srv
BY DEF PageItems, ItemsOf, OnPage, Filtered, IsListing

LEMMA ViewNext ==
  ASSUME PageTyped, IsListing(Listed),
         \/ \E ks \in SUBSET stay.kinds \ {{}} : Filters(ks)
         \/ \E n \in stay.sizes : PicksSize(n)
         \/ Previous \/ NextPage \/ TogglePage
         \/ \E s \in Srv : ToggleSelect(s)
  PROVE  PageTyped'
<1> USE DEF PageTyped, Looks, dialogVars, saveVars
<1>1. PageItems \subseteq Srv /\ TotalPages \in Nat \ {0} /\ CurrentPage \in 1 .. TotalPages
  BY ItemsAreServers, PagesThereAre
<1>2. CASE \E ks \in SUBSET stay.kinds \ {{}} : Filters(ks)
  BY <1>2, StayBounds DEF Filters
<1>3. CASE \E n \in stay.sizes : PicksSize(n)
  BY <1>3, StayBounds DEF PicksSize
<1>4. CASE Previous \/ NextPage
  BY <1>1, <1>4 DEF Previous, NextPage
<1>5. CASE TogglePage
  BY <1>1, <1>5 DEF TogglePage
<1>6. ASSUME NEW s \in Srv, ToggleSelect(s) PROVE PageTyped'
  BY <1>6 DEF ToggleSelect
<1> QED
  BY <1>2, <1>3, <1>4, <1>5, <1>6

LEMMA PageNext == ASSUME ListTyped, PageTyped, [SPNext]_spVars PROVE PageTyped'
<1> USE DEF PageTyped, viewVars, dialogVars, saveVars
<1>1. IsListing(Listed)
  BY DEF ListTyped
<1>2. PageItems \subseteq Srv
  BY <1>1, ItemsAreServers
<1>3. CASE UNCHANGED <<stay, opened, viewVars, dialogVars, saveVars, mine>>
  BY <1>3
<1>4. CASE \/ \E ks \in SUBSET stay.kinds \ {{}} : Filters(ks)
           \/ \E n \in stay.sizes : PicksSize(n)
           \/ Previous \/ NextPage \/ TogglePage
           \/ \E s \in Srv : ToggleSelect(s)
  BY <1>1, <1>4, ViewNext
<1>5. ASSUME NEW d \in {"form", "delete", "bulk"}, NEW s \in Srv \cup {NoSrv}, OpensDialog(d, s)
      PROVE  PageTyped'
  <2>1. dialog' = d /\ target' = s /\ (d = "delete" => s \in PageItems)
    BY <1>5 DEF OpensDialog
  <2> QED
    BY <1>2, <1>5, <2>1, SizesAssumption DEF OpensDialog
<1>6. CASE Closes \/ ConfirmsNothing \/ OpensServers \/ ReloadsServers
  BY <1>6 DEF Closes, ConfirmsNothing, OpensServers, ReloadsServers
<1>11. CASE LeavesServers
  <2>1. stay.kinds \subseteq Kind
    BY StayBounds
  <2>2. /\ filter' = stay.kinds /\ pageNo' = 1 /\ pageSize' = DefaultSize /\ selected' = {} /\ mine' = {}
        /\ opened' = FALSE /\ dialog' = "none" /\ target' = NoSrv /\ submitting' = FALSE
        /\ UNCHANGED <<stay, saveStep>>
    BY <1>11 DEF LeavesServers
  <2>3. filter' \subseteq Kind /\ selected' \subseteq Srv /\ mine' \subseteq Batch \cup Submission
    BY <2>1, <2>2
  <2>4. opened' \in BOOLEAN /\ submitting' \in BOOLEAN
    BY <2>2
  <2>5. /\ pageNo' \in Nat \ {0} /\ pageSize' \in Nat \ {0} /\ target' \in Srv \cup {NoSrv}
        /\ dialog' \in {"none", "form", "delete", "bulk"} /\ dialog' # "delete"
    BY <2>2, SizesAssumption
  <2> QED
    BY <2>2, <2>3, <2>4, <2>5
<1>7. CASE \E b \in Batch : ConfirmsDelete(b) \/ ConfirmsBulk(b) \/ DeletionDone(b)
  BY <1>7 DEF ConfirmsDelete, ConfirmsBulk, DoDelete, DeletionDone
<1>8. ASSUME NEW f \in Submission, SubmitsServer(f) PROVE PageTyped'
  BY <1>8 DEF SubmitsServer
<1>9. ASSUME NEW f \in Submission, FormAnswered(f) \/ FormRefused(f) PROVE PageTyped'
  <2>1. submitting' \in BOOLEAN /\ mine' \subseteq mine
        /\ saveStep' = [saveStep EXCEPT ![f] = "idle"]
    BY <1>9 DEF FormAnswered, FormRefused, SaveOver
  <2>2. /\ UNCHANGED <<stay, opened, viewVars>> /\ target' \in {target, NoSrv}
        /\ UNCHANGED dialogVars \/ dialog' = "none"
    BY <1>9 DEF FormAnswered, FormRefused
  <2> QED
    BY <2>1, <2>2
<1>12. ASSUME NEW f \in Submission, NEW s \in Srv, NEW k \in stay.kinds, PanelSaves(f, s, k) PROVE PageTyped'
  BY <1>12 DEF PanelSaves
<1>10. CASE \/ \E b \in Batch, s \in Srv : PanelDeletes(b, s) \/ CallLost(b, s)
            \/ \E s \in Srv, k \in stay.kinds : OthersChange(s, k)
            \/ LoadsServers \/ ServersFail \/ UNCHANGED spVars
  BY <1>3, <1>10 DEF PanelDeletes, CallLost, OthersChange, LoadsServers, ServersFail, ListVars,
                     Elsewhere, spVars
<1> QED
  BY <1>4, <1>5, <1>6, <1>7, <1>8, <1>9, <1>10, <1>11, <1>12 DEF SPNext

LEMMA SPNextTyped == ASSUME SPTyped, [SPNext]_spVars PROVE SPTyped'
BY TableNext, ListNext, PageNext DEF SPTyped

(* However the list shrinks, grows or is reordered under the page that was  *)
(* chosen, the pages hold every matching row once, and the one shown is not *)
(* empty while any row matches (currentPage, totalPages).                   *)
THEOREM PagesCoverList == SPSpec => []PagesCover
<1>1. SPTyped => PagesCover
  BY PagesSound DEF SPTyped, ListTyped, PageTyped
<1>2. QED
  BY SPInitTyped, SPNextTyped, <1>1, PTL DEF SPSpec

LEMMA SPTypes == SPInv /\ SPTyped => SPTypeOK
BY DEF SPInv, DeletionInv, GoneNowhere, SPTyped, TableTyped, ListTyped, IsListing, PageTyped, SPTypeOK

-----------------------------------------------------------------------------
(* What three dialogs of the panel show and save while requests overlap.    *)
(*                                                                          *)
(* Why the rows of the file manager are those of the directory named above  *)
(* them (ListingOfPath of FilesPage), for any tree of files and any number  *)
(* of requests that overtake each other.  ListingOfPath alone says nothing  *)
(* of the answers that are on their way.  The invariant adds that each of   *)
(* them brings entries of the directory it names; path and files are set    *)
(* together, from one answer.                                               *)
(*                                                                          *)
(* Why a token's secret is shown once (SecretShownOnce of TokensPage), for  *)
(* any tokens, revocations, and requests for the list.  The property is     *)
(* about the dialog only; the secret comes from an answer that may wait,    *)
(* and stays in the state of a closed dialog.  The invariant adds that a    *)
(* secret on its way was never shown, and that a secret which a closed      *)
(* dialog holds is only dropped: the dialog opens on the form.              *)
LoadsTyped == loads = [l \in Load |-> loads[l]]

AnswersTrue ==
  \A l \in Load : loads[l].at = "listed" => \A e \in loads[l].files : Parent[e] = loads[l].dir

FMInv == LoadsTyped /\ AnswersTrue /\ ListingOfPath

LEMMA FMInitInv == FMInit => FMInv
<1> SUFFICES ASSUME FMInit PROVE FMInv
  OBVIOUS
<1>1. PICK l \in Load : loads = [m \in Load |-> IF m = l THEN [at |-> "sent", dir |-> Root] ELSE NoCall]
  BY DEF FMInit
<1>2. LoadsTyped
  BY <1>1 DEF LoadsTyped
<1>3. AnswersTrue
  <2> SUFFICES ASSUME NEW m \in Load PROVE loads[m].at # "listed"
    BY DEF AnswersTrue
  <2>1. loads[m] = [at |-> "sent", dir |-> Root] \/ loads[m] = NoCall
    BY <1>1
  <2> QED
    BY <2>1 DEF NoCall
<1>4. ListingOfPath
  BY DEF FMInit, ListingOfPath
<1> QED
  BY <1>2, <1>3, <1>4 DEF FMInv

(* A request that changes to one that has no answer yet, has failed or is   *)
(* done with, takes nothing from the others.                                *)
LEMMA UnansweredSound ==
  ASSUME LoadsTyped, AnswersTrue, NEW l \in Load, NEW r,
         loads' = [loads EXCEPT ![l] = r], r.at # "listed"
  PROVE  LoadsTyped' /\ AnswersTrue'
<1>1. loads' = [m \in Load |-> IF m = l THEN r ELSE loads[m]]
  BY DEF LoadsTyped
<1>2. LoadsTyped'
  BY <1>1 DEF LoadsTyped
<1>3. AnswersTrue'
  BY <1>1 DEF AnswersTrue
<1> QED
  BY <1>2, <1>3

LEMMA StartLoadStep ==
  ASSUME FMInv, NEW l \in Load, NEW d, StartLoad(l, d)
  PROVE  FMInv'
<1>1. LoadsTyped' /\ AnswersTrue'
  <2> DEFINE r == [at |-> "sent", dir |-> d]
  <2>1. loads' = [loads EXCEPT ![l] = r] /\ r.at # "listed"
    BY DEF StartLoad
  <2> HIDE DEF r
  <2> QED
    BY <2>1, UnansweredSound DEF FMInv
<1>2. ListingOfPath'
  BY DEF FMInv, ListingOfPath, StartLoad
<1> QED
  BY <1>1, <1>2 DEF FMInv

(* ListFiles answers with entries of the directory that was asked for.      *)
LEMMA ListFilesStep ==
  ASSUME FMInv, NEW l \in Load, ListFiles(l)
  PROVE  FMInv'
<1> DEFINE d == loads[l].dir
           ok == [at |-> "listed", dir |-> d, files |-> {e \in disk : Parent[e] = d}]
           bad == [at |-> "failed", dir |-> d]
           r == IF d \in disk \cup {Root} THEN ok ELSE bad
<1>1. loads' = [loads EXCEPT ![l] = r] /\ UNCHANGED <<path, files>>
  BY DEF ListFiles, fmPage
<1>2. r.at = "listed" => \A e \in r.files : Parent[e] = r.dir
  <2>1. CASE d \in disk \cup {Root}
    <3>1. r = ok /\ ok.files = {e \in disk : Parent[e] = d} /\ ok.dir = d
      BY <2>1
    <3> QED
      BY <3>1
  <2>2. CASE d \notin disk \cup {Root}
    <3>1. r = bad /\ bad.at = "failed"
      BY <2>2
    <3> QED
      BY <3>1
  <2> QED
    BY <2>1, <2>2
<1> HIDE DEF r
<1>3. loads' = [m \in Load |-> IF m = l THEN r ELSE loads[m]]
  BY <1>1 DEF FMInv, LoadsTyped
<1>4. LoadsTyped' /\ AnswersTrue'
  BY <1>2, <1>3 DEF FMInv, LoadsTyped, AnswersTrue
<1>5. ListingOfPath'
  BY <1>1 DEF FMInv, ListingOfPath
<1> QED
  BY <1>4, <1>5 DEF FMInv

LEMMA ListingFailsStep ==
  ASSUME FMInv, NEW l \in Load, ListingFails(l)
  PROVE  FMInv'
<1> DEFINE r == [at |-> "failed", dir |-> loads[l].dir]
<1>1. loads' = [loads EXCEPT ![l] = r] /\ r.at # "listed" /\ UNCHANGED <<path, files>>
  BY DEF ListingFails, fmPage
<1> HIDE DEF r
<1>2. LoadsTyped' /\ AnswersTrue'
  BY <1>1, UnansweredSound DEF FMInv
<1>3. ListingOfPath'
  BY <1>1 DEF FMInv, ListingOfPath
<1> QED
  BY <1>2, <1>3 DEF FMInv

(* The page takes path and files from the same answer.                      *)
LEMMA LoadEndsStep ==
  ASSUME FMInv, NEW l \in Load, LoadEnds(l)
  PROVE  FMInv'
<1>1. LoadsTyped' /\ AnswersTrue'
  <2>1. loads' = [loads EXCEPT ![l] = NoCall] /\ NoCall.at # "listed"
    BY DEF LoadEnds, NoCall
  <2> QED
    BY <2>1, UnansweredSound DEF FMInv
<1>2. CASE loads[l].at = "listed"
  <2>1. path' = loads[l].dir /\ files' = loads[l].files
    BY <1>2 DEF LoadEnds
  <2>2. ListingOfPath'
    BY <1>2, <2>1 DEF FMInv, AnswersTrue, ListingOfPath
  <2> QED
    BY <1>1, <2>2 DEF FMInv
<1>3. CASE loads[l].at # "listed"
  <2>1. UNCHANGED <<path, files>>
    BY <1>3 DEF LoadEnds
  <2>2. ListingOfPath'
    BY <2>1 DEF FMInv, ListingOfPath
  <2> QED
    BY <1>1, <2>2 DEF FMInv
<1> QED
  BY <1>2, <1>3

LEMMA FMAtRest ==
  ASSUME FMInv, UNCHANGED <<loads, path, files>>
  PROVE  FMInv'
BY DEF FMInv, LoadsTyped, AnswersTrue, ListingOfPath

LEMMA FMNextInv == ASSUME FMInv, [FMNext]_fmVars PROVE FMInv'
<1>1. CASE UNCHANGED fmVars
  BY <1>1, FMAtRest DEF fmVars, fmPage, fmCalls
<1>2. ASSUME NEW l \in Load, ListFiles(l) \/ ListingFails(l) \/ LoadEnds(l)
      PROVE  FMInv'
  BY <1>2, ListFilesStep, ListingFailsStep, LoadEndsStep
<1>3. ASSUME NEW l \in Load, Refreshed(l) \/ GoesUp(l) \/ Uploaded(l) \/ Deleted(l)
      PROVE  FMInv'
  BY <1>3, StartLoadStep DEF Refreshed, GoesUp, Uploaded, Deleted
<1>4. ASSUME NEW l \in Load, NEW e \in Folder, Enters(l, e)
      PROVE  FMInv'
  BY <1>4, StartLoadStep DEF Enters
<1>5. ASSUME NEW e \in Entry, Uploads(e) \/ Deletes(e) \/ DiskChanges(e)
      PROVE  FMInv'
  BY <1>5, FMAtRest DEF Uploads, Deletes, DiskChanges, fmPage, fmCalls
<1>6. CASE UploadFile \/ UploadFails \/ DeleteFile \/ DeleteFails
  BY <1>6, FMAtRest DEF UploadFile, UploadFails, DeleteFile, DeleteFails, fmPage
<1> QED
  BY <1>1, <1>2, <1>3, <1>4, <1>5, <1>6 DEF FMNext

(* The rows are those of the path above them, however many listings are     *)
(* under way and in whatever order they are answered (setPath, setFiles).   *)
THEOREM ListingIsOfPath == FMSpec => []ListingOfPath
<1>1. FMInv => ListingOfPath
  BY DEF FMInv
<1>2. QED
  BY FMInitInv, FMNextInv, <1>1, PTL DEF FMSpec

-----------------------------------------------------------------------------
(* The secrets that may still come to be shown, and were not put away: one  *)
(* that is on its way, created and different from the one the page has.     *)
CreationNew ==
  creation.at = "created" =>
    creation.token \in made /\ creation.token \notin putAway /\ creation.token # newSecret

SecretsMade == newSecret \in made \cup {NoToken} /\ putAway \subseteq made /\ made \subseteq Token

TKInv == CreationNew /\ SecretsMade /\ SecretShownOnce

LEMMA TKInitInv == TKInit => TKInv
BY DEF TKInit, TKInv, CreationNew, SecretsMade, SecretShownOnce, SecretShown, Idle

(* Steps that leave the dialog and the creation alone.                      *)
LEMMA DialogAtRest ==
  ASSUME TKInv, UNCHANGED <<tokenForm, newSecret, creation, putAway>>,
         made \subseteq made', made' \subseteq Token
  PROVE  TKInv'
BY DEF TKInv, CreationNew, SecretsMade, SecretShownOnce, SecretShown

LEMMA GenerateStep == ASSUME TKInv, GenerateToken PROVE TKInv'
<1>1. newSecret' = NoToken /\ UNCHANGED <<made, creation, putAway>>
  BY DEF GenerateToken, tokenCalls
<1>2. CreationNew' /\ SecretsMade'
  BY <1>1, TokenAssumption DEF TKInv, CreationNew, SecretsMade
<1>3. SecretShownOnce'
  BY <1>1 DEF SecretShownOnce, SecretShown
<1> QED
  BY <1>2, <1>3 DEF TKInv

LEMMA CloseStep == ASSUME TKInv, ClosesTokenForm PROVE TKInv'
<1>1. /\ tokenForm' = FALSE /\ putAway' = putAway \cup SecretShown
      /\ UNCHANGED <<made, newSecret, creation>>
  BY DEF ClosesTokenForm, tokenCalls
<1>2. SecretShown \subseteq {newSecret} /\ SecretShown \subseteq made
  BY DEF SecretShown, TKInv, SecretsMade
<1>3. CreationNew' /\ SecretsMade'
  BY <1>1, <1>2 DEF TKInv, CreationNew, SecretsMade
<1>4. SecretShownOnce'
  BY <1>1 DEF SecretShownOnce, SecretShown
<1> QED
  BY <1>3, <1>4 DEF TKInv

LEMMA SendStep == ASSUME TKInv, CreatesToken \/ TokenNotCreated PROVE TKInv'
<1>1. creation' = Sent \/ creation' = Idle
  BY DEF CreatesToken, TokenNotCreated
<1>2. UNCHANGED <<made, tokenForm, newSecret, putAway>>
  BY DEF CreatesToken, TokenNotCreated, tokenView
<1>3. CreationNew'
  BY <1>1 DEF CreationNew, Sent, Idle
<1> QED
  BY <1>2, <1>3 DEF TKInv, SecretsMade, SecretShownOnce, SecretShown

(* The panel creates a token that never was.                                *)
LEMMA PanelCreatesStep ==
  ASSUME TKInv, NEW t \in Token, PanelCreatesToken(t)
  PROVE  TKInv'
<1>1. /\ t \notin made /\ made' = made \cup {t} /\ creation' = [at |-> "created", token |-> t]
      /\ UNCHANGED <<tokenForm, newSecret, putAway>>
  BY DEF PanelCreatesToken, tokenView
<1>2. t \notin putAway /\ t # newSecret
  BY <1>1, TokenAssumption DEF TKInv, SecretsMade
<1>3. creation'.token = t
  BY <1>1
<1>4. CreationNew'
  BY <1>1, <1>2, <1>3 DEF CreationNew
<1>5. SecretsMade'
  BY <1>1 DEF TKInv, SecretsMade
<1> QED
  BY <1>1, <1>4, <1>5 DEF TKInv, SecretShownOnce, SecretShown

(* The answer replaces the secret that was shown, if one was.               *)
LEMMA CreatedStep ==
  ASSUME TKInv, NEW l \in TokenLoad, TokenCreated(l)
  PROVE  TKInv'
<1>1. /\ creation.at = "created" /\ creation' = Idle /\ newSecret' = creation.token
      /\ putAway' = putAway \cup SecretShown
      /\ UNCHANGED <<made, tokenForm>>
  BY DEF TokenCreated
<1>2. /\ creation.token \in made /\ creation.token \notin putAway
      /\ creation.token # newSecret
  BY <1>1 DEF TKInv, CreationNew
<1>3. SecretShown \subseteq {newSecret} /\ SecretShown \subseteq made
  BY DEF SecretShown, TKInv, SecretsMade
<1>4. CreationNew'
  BY <1>1 DEF CreationNew, Idle
<1>5. SecretsMade'
  BY <1>1, <1>2, <1>3 DEF TKInv, SecretsMade
<1>6. SecretShownOnce'
  <2>1. newSecret' \notin putAway'
    BY <1>1, <1>2, <1>3
  <2> QED
    BY <2>1 DEF SecretShownOnce, SecretShown
<1> QED
  BY <1>4, <1>5, <1>6 DEF TKInv

LEMMA ReopenStep == ASSUME TKInv, TokensReopened PROVE TKInv'
<1>1. /\ tokenForm' = FALSE /\ newSecret' = NoToken /\ creation' = Idle
      /\ putAway' = putAway \cup SecretShown /\ UNCHANGED made
  BY DEF TokensReopened
<1>2. SecretShown \subseteq made
  BY DEF SecretShown, TKInv, SecretsMade
<1>3. CreationNew'
  BY <1>1 DEF CreationNew, Idle
<1>4. SecretsMade' /\ SecretShownOnce'
  BY <1>1, <1>2 DEF TKInv, SecretsMade, SecretShownOnce, SecretShown
<1> QED
  BY <1>3, <1>4 DEF TKInv

LEMMA TKNextInv == ASSUME TKInv, [TKNext]_tkVars PROVE TKInv'
<1>0. made \subseteq Token
  BY DEF TKInv, SecretsMade
<1>1. CASE UNCHANGED tkVars
  BY <1>0, <1>1, DialogAtRest DEF tkVars, tokenView, tokenCalls
<1>2. CASE TokenNamed
  BY <1>0, <1>2, DialogAtRest DEF TokenNamed, tokenCalls
<1>3. CASE GenerateToken \/ ClosesTokenForm \/ CreatesToken \/ TokenNotCreated \/ TokensReopened
  BY <1>3, GenerateStep, CloseStep, SendStep, ReopenStep
<1>4. ASSUME NEW t \in Token, PanelCreatesToken(t) \/ OthersToken(t)
      PROVE  TKInv'
  BY <1>0, <1>4, PanelCreatesStep, DialogAtRest DEF OthersToken, tokenView, tokenCalls
<1>5. ASSUME NEW l \in TokenLoad,
             TokenCreated(l) \/ TokensRead(l) \/ TokensListed(l) \/ TokensNotListed(l)
      PROVE  TKInv'
  BY <1>0, <1>5, CreatedStep, DialogAtRest DEF TokensRead, TokensListed, TokensNotListed, tokenView
<1>6. ASSUME NEW r \in Revocation,
             \/ PanelRevokesToken(r) \/ TokenNotRevoked(r)
             \/ \E t \in Token : RevokesToken(r, t)
             \/ \E l \in TokenLoad : TokenRevoked(r, l)
      PROVE  TKInv'
  BY <1>0, <1>6, DialogAtRest
     DEF PanelRevokesToken, TokenNotRevoked, RevokesToken, TokenRevoked, tokenView
<1> QED
  BY <1>1, <1>2, <1>3, <1>4, <1>5, <1>6 DEF TKNext

(* "Copy it now -- it will not be shown again." (users/page.tsx:184): a     *)
(* secret that was put away does not come back.                             *)
THEOREM SecretsShownOnce == TKSpec => []SecretShownOnce
<1>1. TKInv => SecretShownOnce
  BY DEF TKInv
<1>2. QED
  BY TKInitInv, TKNextInv, <1>1, PTL DEF TKSpec
-----------------------------------------------------------------------------
(* The wizard.  The property is about requests and stored chains; the       *)
(* invariant adds what each step may rely on whichever way it was reached:  *)
(* a name from the second on, two servers at the third, each once always,   *)
(* and that the list the wizard copies from holds valid chains, too.        *)
StepsSound ==
  /\ wizardStep \in 1 .. 3 /\ picked \in Seq(Relay) /\ EachOnce(picked)
  /\ wizardStep >= 2 => named
  /\ wizardStep = 3 => Len(picked) >= 2

ChainsSound(f) == f \in [RelayChain -> Seq(Relay)] /\ \A c \in RelayChain : Relays(f[c])

RequestSound ==
  request # Nothing =>
    /\ request = [chain |-> request.chain, named |-> request.named,
                  servers |-> request.servers, done |-> request.done]
    /\ request.named /\ request.servers \in Seq(Relay) /\ Relays(request.servers)

CWInv == StepsSound /\ ChainsSound(chainHops) /\ ChainsSound(chainList) /\ RequestSound

(* What the buttons of a row do to the servers picked.                      *)
LEMMA SwapKeeps ==
  ASSUME NEW ss \in Seq(Relay), EachOnce(ss), NEW i \in DOMAIN ss, NEW j \in DOMAIN ss
  PROVE  Swapped(ss, i, j) \in Seq(Relay) /\ EachOnce(Swapped(ss, i, j))
<1> DEFINE tt == Swapped(ss, i, j)
<1>1. DOMAIN tt = DOMAIN ss /\ tt \in Seq(Relay)
  BY DEF Swapped
<1>2. \A k \in DOMAIN ss : tt[k] = IF k = j THEN ss[i] ELSE IF k = i THEN ss[j] ELSE ss[k]
  BY DEF Swapped
<1>3. EachOnce(tt)
  BY <1>1, <1>2 DEF EachOnce
<1> QED
  BY <1>1, <1>3

LEMMA RemovalKeeps ==
  ASSUME NEW ss \in Seq(Relay), EachOnce(ss), NEW i \in DOMAIN ss
  PROVE  LET tt == SubSeq(ss, 1, i - 1) \o SubSeq(ss, i + 1, Len(ss))
         IN  tt \in Seq(Relay) /\ EachOnce(tt)
<1> DEFINE n == Len(ss)
           front == SubSeq(ss, 1, i - 1)
           back == SubSeq(ss, i + 1, n)
           tt == front \o back
<1>1. n \in Nat /\ i \in 1 .. n /\ DOMAIN ss = 1 .. n
  OBVIOUS
<1>2. front \in Seq(Relay) /\ Len(front) = i - 1 /\ \A k \in 1 .. i - 1 : front[k] = ss[k]
  BY <1>1
<1>3. back \in Seq(Relay) /\ Len(back) = n - i /\ \A k \in 1 .. n - i : back[k] = ss[k + i]
  BY <1>1
<1> HIDE DEF front, back, n
<1>a. /\ tt \in Seq(Relay) /\ Len(tt) = Len(front) + Len(back)
      /\ \A k \in 1 .. Len(front) + Len(back) :
           tt[k] = IF k <= Len(front) THEN front[k] ELSE back[k - Len(front)]
  BY <1>2, <1>3, ConcatProperties, Zenon
<1> HIDE DEF tt
<1>4. tt \in Seq(Relay) /\ Len(tt) = n - 1 /\ DOMAIN tt = 1 .. n - 1
  BY <1>1, <1>2, <1>3, <1>a
<1>5. ASSUME NEW k \in 1 .. n - 1 PROVE tt[k] = IF k < i THEN ss[k] ELSE ss[k + 1]
  <2>0. /\ i \in Int /\ k \in 1 .. (i - 1) + (n - i)
        /\ tt[k] = IF k <= i - 1 THEN front[k] ELSE back[k - (i - 1)]
    <3>1. k \in 1 .. (i - 1) + (n - i) /\ i \in Int
      BY <1>1
    <3>2. /\ Len(front) = i - 1 /\ Len(back) = n - i
          /\ \A m \in 1 .. Len(front) + Len(back) :
               tt[m] = IF m <= Len(front) THEN front[m] ELSE back[m - Len(front)]
      BY <1>2, <1>3, <1>a, Zenon
    <3> QED
      BY <3>1, <3>2, Zenon
  <2>1. CASE k < i
    <3>1. k <= i - 1 /\ k \in 1 .. i - 1
      BY <1>1, <2>0, <2>1
    <3> QED
      BY <1>2, <2>0, <2>1, <3>1, Zenon
  <2>2. CASE ~ k < i
    <3>1. k - (i - 1) \in 1 .. n - i /\ tt[k] = back[k - (i - 1)]
      <4>1. k - (i - 1) \in 1 .. n - i /\ ~ k <= i - 1
        BY <1>1, <2>0, <2>2
      <4> QED
        BY <2>0, <4>1, Zenon
    <3>2. back[k - (i - 1)] = ss[(k - (i - 1)) + i]
      BY <1>3, <3>1
    <3>3. (k - (i - 1)) + i = k + 1
      BY <1>1, <1>5
    <3> QED
      BY <2>2, <3>1, <3>2, <3>3
  <2> QED
    BY <2>1, <2>2
<1>6. ASSUME NEW k \in 1 .. n - 1, NEW l \in 1 .. n - 1, tt[k] = tt[l] PROVE k = l
  <2> DEFINE at(m) == IF m < i THEN m ELSE m + 1
  <2>1. at(k) \in 1 .. n /\ at(l) \in 1 .. n /\ tt[k] = ss[at(k)] /\ tt[l] = ss[at(l)]
    BY <1>1, <1>5
  <2>2. at(k) = at(l)
    BY <1>1, <1>6, <2>1 DEF EachOnce
  <2> QED
    BY <1>1, <2>2
<1>7. EachOnce(tt)
  BY <1>4, <1>6 DEF EachOnce
<1> QED
  BY <1>4, <1>7 DEF tt, front, back, n

LEMMA PickKeeps ==
  ASSUME NEW ss \in Seq(Relay), EachOnce(ss), NEW s \in Relay, \A i \in DOMAIN ss : ss[i] # s
  PROVE  Append(ss, s) \in Seq(Relay) /\ EachOnce(Append(ss, s))
<1>1. /\ DOMAIN Append(ss, s) = 1 .. Len(ss) + 1 /\ DOMAIN ss = 1 .. Len(ss) /\ Len(ss) \in Nat
      /\ \A k \in 1 .. Len(ss) + 1 : Append(ss, s)[k] = IF k = Len(ss) + 1 THEN s ELSE ss[k]
  OBVIOUS
<1>2. EachOnce(Append(ss, s))
  BY <1>1 DEF EachOnce
<1> QED
  BY <1>2

LEMMA CWInitInv == CWInit => CWInv
<1> SUFFICES ASSUME CWInit PROVE CWInv
  OBVIOUS
<1>1. ASSUME NEW h \in Pairs PROVE h \in Seq(Relay) /\ Relays(h)
  <2>1. h[1] \in Relay /\ h[2] \in Relay /\ h = <<h[1], h[2]>> /\ h[1] # h[2]
    BY <1>1 DEF Pairs
  <2>a. ASSUME NEW x \in Relay, NEW y \in Relay
        PROVE  <<x, y>> \in Seq(Relay) /\ Len(<<x, y>>) = 2 /\ DOMAIN <<x, y>> = 1 .. 2
    OBVIOUS
  <2>b. \A x, y \in Relay : h = <<x, y>> => h \in Seq(Relay) /\ Len(h) = 2 /\ DOMAIN h = 1 .. 2
    BY <2>a, Zenon
  <2>2. h \in Seq(Relay) /\ Len(h) = 2 /\ DOMAIN h = 1 .. 2
    BY <2>1, <2>b, Zenon
  <2>3. EachOnce(h)
    BY <2>1, <2>2 DEF EachOnce
  <2> QED
    BY <2>2, <2>3 DEF Relays
<1>2. ChainsSound(chainHops) /\ ChainsSound(chainList)
  BY <1>1 DEF CWInit, ChainsSound
<1>3. StepsSound /\ RequestSound
  BY DEF CWInit, StepsSound, RequestSound, EachOnce
<1> QED
  BY <1>2, <1>3 DEF CWInv

LEMMA WizardAtRest ==
  ASSUME CWInv, UNCHANGED <<wizardStep, named, picked, chainHops, chainList, request>>
  PROVE  CWInv'
BY DEF CWInv, StepsSound, ChainsSound, RequestSound

LEMMA OpensWizardStep ==
  ASSUME CWInv, NEW c \in RelayChain \cup {NewChain}, NEW a \in Query, OpensWizard(c, a)
  PROVE  CWInv'
<1>1. /\ wizardStep' = 1 /\ picked' = IF c = NewChain THEN <<>> ELSE chainList[c]
      /\ UNCHANGED <<chainHops, chainList, request>>
  BY DEF OpensWizard
<1>2. picked' \in Seq(Relay) /\ EachOnce(picked')
  BY <1>1 DEF CWInv, ChainsSound, Relays, EachOnce
<1>3. StepsSound'
  BY <1>1, <1>2 DEF StepsSound, EachOnce
<1> QED
  BY <1>1, <1>3 DEF CWInv, ChainsSound, RequestSound

(* The steps of the dialog.                                                 *)
LEMMA NamesStep == ASSUME CWInv, Names \/ GoesOn \/ GoesBack PROVE CWInv'
<1>1. UNCHANGED <<picked, chainHops, chainList, request>>
  BY DEF Names, GoesOn, GoesBack, Fixed
<1>2. StepsSound'
  BY <1>1 DEF CWInv, StepsSound, EachOnce, Names, GoesOn, GoesBack, Steps1, Steps2
<1> QED
  BY <1>1, <1>2 DEF CWInv, ChainsSound, RequestSound

LEMMA PicksStep ==
  ASSUME CWInv, \/ \E s \in Relay : Picks(s)
                \/ \E i \in DOMAIN picked : MovesUp(i) \/ MovesDown(i) \/ Removes(i)
  PROVE  CWInv'
<1>0. picked \in Seq(Relay) /\ EachOnce(picked)
  BY DEF CWInv, StepsSound
<1>1. /\ wizardStep = 2
      /\ UNCHANGED <<wizardStep, named, chainHops, chainList, request>>
  BY DEF Picks, MovesUp, MovesDown, Removes, AtRow, Fixed
<1>2. picked' \in Seq(Relay) /\ EachOnce(picked')
  <2>1. ASSUME NEW s \in Relay, Picks(s) PROVE picked' \in Seq(Relay) /\ EachOnce(picked')
    <3>1. picked' = Append(picked, s) /\ \A i \in DOMAIN picked : picked[i] # s
      BY <2>1 DEF Picks, Available
    <3> QED
      BY <1>0, <3>1, PickKeeps
  <2>2. ASSUME NEW i \in DOMAIN picked, MovesUp(i) \/ MovesDown(i)
        PROVE  picked' \in Seq(Relay) /\ EachOnce(picked')
    <3>1. \E j \in DOMAIN picked : picked' = Swapped(picked, i, j)
      BY <1>0, <2>2 DEF MovesUp, MovesDown
    <3> QED
      BY <1>0, <3>1, SwapKeeps
  <2>3. ASSUME NEW i \in DOMAIN picked, Removes(i) PROVE picked' \in Seq(Relay) /\ EachOnce(picked')
    BY <1>0, <2>3, RemovalKeeps DEF Removes
  <2> QED
    BY <2>1, <2>2, <2>3
<1>3. StepsSound'
  BY <1>1, <1>2 DEF CWInv, StepsSound
<1> QED
  BY <1>1, <1>3 DEF CWInv, ChainsSound, RequestSound

(* A save, from the last step to the panel.                                 *)
LEMMA SaveStep == ASSUME CWInv, Saves \/ ChainSaved \/ ChainRefused PROVE CWInv'
<1>1. UNCHANGED <<wizardStep, named, picked, chainHops, chainList>>
  BY DEF Saves, ChainSaved, ChainRefused, wizardVars
<1>2. RequestSound'
  BY DEF CWInv, StepsSound, RequestSound, Relays, Saves, ChainSaved, ChainRefused
<1> QED
  BY <1>1, <1>2 DEF CWInv, StepsSound, ChainsSound

LEMMA PanelSavesStep == ASSUME CWInv, PanelSavesChain PROVE CWInv'
<1>1. /\ request # Nothing /\ request' = [request EXCEPT !.done = TRUE]
      /\ chainHops' = IF request.chain = NewChain THEN chainHops
                      ELSE [chainHops EXCEPT ![request.chain] = request.servers]
      /\ UNCHANGED <<wizardStep, named, picked, chainList>>
  BY DEF PanelSavesChain, wizardVars
<1>2. /\ request = [chain |-> request.chain, named |-> request.named,
                    servers |-> request.servers, done |-> request.done]
      /\ request.named /\ request.servers \in Seq(Relay) /\ Relays(request.servers)
  BY <1>1 DEF CWInv, RequestSound
<1>3. /\ request' = [chain |-> request.chain, named |-> request.named,
                     servers |-> request.servers, done |-> TRUE]
  BY <1>1, <1>2
<1>4. RequestSound'
  BY <1>2, <1>3 DEF RequestSound
<1>5. ChainsSound(chainHops')
  BY <1>1, <1>2 DEF CWInv, ChainsSound
<1> QED
  BY <1>1, <1>4, <1>5 DEF CWInv, StepsSound, ChainsSound

LEMMA CWNextInv == ASSUME CWInv, [CWNext]_cwVars PROVE CWInv'
<1>1. CASE UNCHANGED cwVars \/ ClosesWizard
  BY <1>1, WizardAtRest DEF cwVars, wizardVars, ClosesWizard
<1>2. ASSUME NEW a \in Query, ServersAnswered(a) \/ ServersArrive(a) \/ ServersLost(a)
      PROVE  CWInv'
  BY <1>2, WizardAtRest DEF ServersAnswered, ServersArrive, ServersLost, wizardVars
<1>3. ASSUME NEW s \in Relay, ServerTurns(s) PROVE CWInv'
  BY <1>3, WizardAtRest DEF ServerTurns, wizardVars
<1>4. CASE ChainsListed
  BY <1>4 DEF ChainsListed, wizardVars, CWInv, StepsSound, ChainsSound, RequestSound
<1> QED
  BY <1>1, <1>2, <1>3, <1>4, OpensWizardStep, NamesStep, PicksStep, SaveStep, PanelSavesStep
     DEF CWNext

(* For any servers and chains, however many steps back and forth: a save    *)
(* has a name and two servers or more, each once, and so has every chain.   *)
THEOREM WizardSavesValid == CWSpec => []SavesAreValid
<1>1. CWInv => SavesAreValid
  BY DEF CWInv, RequestSound, ChainsSound, SavesAreValid
<1>2. QED
  BY CWInitInv, CWNextInv, <1>1, PTL DEF CWSpec

-----------------------------------------------------------------------------
(* The types of the pages (of SPTypeOK: SPTypes).  Those of the lists: the  *)
(* cache and the calls are in LSInv, this is the tab.                       *)
LSTab ==
  /\ onPage \in DOMAIN Pages /\ tour \in Tours
  /\ formOpen \in BOOLEAN /\ saving \in BOOLEAN /\ confirm \in BOOLEAN
  /\ retried \in [Key -> BOOLEAN] /\ mounted \in [ApiCall -> BOOLEAN]

LEMMA LSInitTab == LSInit => LSTab
BY DEF LSInit, EmptyCache, LSTab, Pages

LEMMA FetchRetried == ASSUME retried \in [Key -> BOOLEAN], NEW ks, Fetch(ks) PROVE retried' \in [Key -> BOOLEAN]
BY DEF Fetch

LEMMA LSNextTab == ASSUME LSTab, [LSNext]_lsVars PROVE LSTab'
<1> USE DEF LSTab, tabVars, callVars
<1>1. ASSUME NEW p \in DOMAIN Pages, GoTo(p) PROVE LSTab'
  <2>1. retried' \in [Key -> BOOLEAN]
    BY <1>1, FetchRetried DEF GoTo, Opens
  <2>2. formOpen' \in BOOLEAN /\ saving' \in BOOLEAN /\ confirm' \in BOOLEAN
    BY <1>1 DEF GoTo
  <2>3. mounted' \in [ApiCall -> BOOLEAN] /\ onPage' \in DOMAIN Pages /\ tour' \in Tours
    BY <1>1 DEF GoTo
  <2> QED
    BY <2>1, <2>2, <2>3
<1>2. CASE OpensForm \/ ClosesForm \/ AsksToDelete \/ Cancels \/ UNCHANGED lsVars
  BY <1>2 DEF OpensForm, ClosesForm, AsksToDelete, Cancels, lsVars, qcVars
<1>3. CASE Refreshes
  BY <1>3, FetchRetried DEF Refreshes, Invalidates
<1>4. ASSUME NEW c \in ApiCall, Clicked(c) PROVE LSTab'
  <2>1. PICK w \in Works : Sends(c, w)
    BY <1>4, ClicksReload
  <2>2. saving' \in BOOLEAN /\ confirm' \in BOOLEAN
    BY <2>1 DEF Sends
  <2> QED
    BY <2>1, <2>2 DEF Sends, qcVars
<1>5. ASSUME NEW c \in ApiCall, Applies(c) PROVE LSTab'
  BY <1>5 DEF Applies, qcVars
<1>6. ASSUME NEW c \in ApiCall, Answered(c) PROVE LSTab'
  <2>1. retried' \in [Key -> BOOLEAN]
    BY <1>6, FetchRetried DEF Answered, Invalidates
  <2>2. formOpen' \in BOOLEAN /\ saving' \in BOOLEAN /\ confirm' \in BOOLEAN
    BY <1>6 DEF Answered
  <2>3. mounted' \in [ApiCall -> BOOLEAN] /\ UNCHANGED <<onPage, tour>>
    BY <1>6 DEF Answered, Finished
  <2> QED
    BY <2>1, <2>2, <2>3
<1>7. ASSUME NEW c \in ApiCall, CallFails(c) PROVE LSTab'
  <2>1. saving' \in BOOLEAN /\ confirm' \in BOOLEAN
    BY <1>7 DEF CallFails
  <2>2. mounted' \in [ApiCall -> BOOLEAN] /\ UNCHANGED <<onPage, tour, formOpen, retried>>
    BY <1>7 DEF CallFails, Finished, qcVars
  <2> QED
    BY <2>1, <2>2
<1>8. ASSUME NEW k \in Lists, Others(k) PROVE LSTab'
  BY <1>8 DEF Others, qcVars
<1>9. ASSUME NEW k \in Lists, Loads(k) \/ Ages(k) PROVE LSTab'
  <2>1. retried' \in [Key -> BOOLEAN]
    BY <1>9, FetchRetried DEF Loads, Ages, PollsList, Polls, ReadsList, PanelReads, LoadDone, GoesStale,
                              Dropped, ListFails, LoadFails
  <2>2. UNCHANGED <<tabVars, mounted>>
    BY <1>9 DEF Loads, Ages, OtherVars
  <2> QED
    BY <2>1, <2>2
<1> QED
  BY <1>1, <1>2, <1>3, <1>4, <1>5, <1>6, <1>7, <1>8, <1>9 DEF LSNext

LEMMA LSTypes == LSInv /\ LSTab => LSTypeOK
BY PagesAssumption DEF LSInv, CacheTyped, CallsTyped, ListsTyped, LSTab, LSTypeOK

-----------------------------------------------------------------------------
(* The file manager: the tree stays one, since what is uploaded goes to a   *)
(* directory that is there and what is removed is empty; every directory    *)
(* asked for is in the tree.                                                *)
DiskSound == disk \subseteq Entry /\ \A e \in disk : Parent[e] \in disk \cup {Root}
PageSound == path \in Dir /\ files \subseteq Entry /\ error \in BOOLEAN
LoadsSound ==
  \A l \in Load :
    /\ loads[l] # NoCall => loads[l].dir \in Dir
    /\ loads[l].at = "listed" => loads[l].files \subseteq Entry
UploadSound ==
  upload # NoCall => /\ upload = [at |-> upload.at, entry |-> upload.entry, dir |-> upload.dir]
                     /\ upload.entry \in Entry /\ upload.dir \in Dir /\ Parent[upload.entry] = upload.dir
RemovalSound ==
  removal # NoCall => /\ removal = [at |-> removal.at, entry |-> removal.entry, dir |-> removal.dir]
                      /\ removal.dir \in Dir
LoadingSound == loading => \E l \in Load : loads[l] # NoCall

FMTyped == LoadsTyped /\ DiskSound /\ PageSound /\ LoadsSound /\ UploadSound /\ RemovalSound /\ LoadingSound

LEMMA FMInitTyped == FMInit => FMTyped
<1> SUFFICES ASSUME FMInit PROVE FMTyped
  OBVIOUS
<1>1. PICK l \in Load : loads = [m \in Load |-> IF m = l THEN [at |-> "sent", dir |-> Root] ELSE NoCall]
  BY DEF FMInit
<1>2. loads[l] # NoCall
  <2>1. loads[l].at = "sent" /\ NoCall.at = "none"
    BY <1>1 DEF NoCall
  <2> QED
    BY <2>1
<1>3. \A m \in Load : loads[m] # NoCall => loads[m].dir = Root
  BY <1>1
<1>4. \A m \in Load : loads[m].at # "listed"
  BY <1>1 DEF NoCall
<1>5. LoadsTyped /\ LoadsSound /\ LoadingSound
  BY <1>1, <1>2, <1>3, <1>4 DEF LoadsTyped, LoadsSound, LoadingSound, Dir
<1>6. DiskSound
  BY TreeAssumption DEF FMInit, DiskSound, Dir
<1>7. PageSound /\ UploadSound /\ RemovalSound
  BY DEF FMInit, PageSound, UploadSound, RemovalSound, Dir
<1> QED
  BY <1>5, <1>6, <1>7 DEF FMTyped

(* A request starts for a directory of the tree.                            *)
LEMMA StartLoadTyped ==
  ASSUME FMTyped, NEW l \in Load, NEW d \in Dir, StartLoad(l, d)
  PROVE  LoadsTyped' /\ LoadsSound' /\ LoadingSound' /\ PageSound'
<1>1. loads' = [loads EXCEPT ![l] = [at |-> "sent", dir |-> d]] /\ UNCHANGED <<path, files>> /\ error' = FALSE
  BY DEF StartLoad
<1>2. loads'[l] = [at |-> "sent", dir |-> d] /\ \A m \in Load : m # l => loads'[m] = loads[m]
  BY <1>1 DEF FMTyped, LoadsTyped
<1>3. loads'[l] # NoCall
  <2>1. loads'[l].at = "sent" /\ NoCall.at = "none"
    BY <1>2 DEF NoCall
  <2> QED
    BY <2>1
<1>4. LoadsTyped'
  BY <1>1 DEF FMTyped, LoadsTyped
<1>5. LoadsSound'
  BY <1>2 DEF FMTyped, LoadsSound
<1>6. LoadingSound'
  BY <1>3 DEF LoadingSound
<1>7. PageSound'
  BY <1>1 DEF FMTyped, PageSound
<1> QED
  BY <1>4, <1>5, <1>6, <1>7

LEMMA StartsTyped ==
  ASSUME FMTyped, NEW l \in Load,
         \/ Refreshed(l) \/ GoesUp(l) \/ Uploaded(l) \/ Deleted(l)
         \/ \E e \in Folder : Enters(l, e)
  PROVE  FMTyped'
<1> USE DEF FMTyped
<1>1. PICK d \in Dir : StartLoad(l, d)
  <2>1. CASE Refreshed(l)
    BY <2>1 DEF Refreshed, PageSound
  <2>2. CASE GoesUp(l)
    <3>1. path \in Folder /\ Parent[path] \in Dir
      BY <2>2, TreeAssumption DEF GoesUp, PageSound, Dir
    <3> QED
      BY <2>2, <3>1 DEF GoesUp
  <2>3. CASE Uploaded(l)
    <3>1. upload.at = "stored" /\ NoCall.at = "none"
      BY <2>3 DEF Uploaded, NoCall
    <3> QED
      BY <2>3, <3>1 DEF Uploaded, UploadSound
  <2>4. CASE Deleted(l)
    <3>1. removal.at = "removed" /\ NoCall.at = "none"
      BY <2>4 DEF Deleted, NoCall
    <3> QED
      BY <2>4, <3>1 DEF Deleted, RemovalSound
  <2>5. CASE \E e \in Folder : Enters(l, e)
    BY <2>5 DEF Enters, Dir
  <2> QED
    BY <2>1, <2>2, <2>3, <2>4, <2>5
<1>2. LoadsTyped' /\ LoadsSound' /\ LoadingSound' /\ PageSound'
  BY <1>1, StartLoadTyped
<1>3. UNCHANGED disk /\ (upload' = upload \/ upload' = NoCall) /\ (removal' = removal \/ removal' = NoCall)
  BY DEF Refreshed, GoesUp, Uploaded, Deleted, Enters
<1>4. DiskSound' /\ UploadSound' /\ RemovalSound'
  BY <1>3 DEF DiskSound, UploadSound, RemovalSound
<1> QED
  BY <1>2, <1>4

LEMMA AnswerTyped == ASSUME FMTyped, NEW l \in Load, ListFiles(l) \/ ListingFails(l) PROVE FMTyped'
<1> USE DEF FMTyped
<1>1. loads[l] # NoCall /\ loads[l].dir \in Dir
  <2>1. loads[l].at # "none" /\ NoCall.at = "none"
    BY DEF ListFiles, ListingFails, NoCall
  <2> QED
    BY <2>1 DEF LoadsSound
<1>2. PICK a : /\ loads' = [loads EXCEPT ![l] = a]
               /\ \/ a = [at |-> "listed", dir |-> loads[l].dir, files |-> {e \in disk : Parent[e] = loads[l].dir}]
                  \/ a = [at |-> "failed", dir |-> loads[l].dir]
  BY DEF ListFiles, ListingFails, LoadsTyped
<1>3. a.dir \in Dir /\ (a.at = "listed" => a.files \subseteq Entry) /\ a # NoCall
  <2>1. a.dir \in Dir /\ a.at # "none" /\ NoCall.at = "none"
    BY <1>1, <1>2 DEF NoCall
  <2>2. {e \in disk : Parent[e] = loads[l].dir} \subseteq Entry
    BY DEF DiskSound
  <2>3. a.at = "listed" => a.files \subseteq Entry
    BY <1>2, <2>2
  <2> QED
    BY <2>1, <2>3
<1>4. loads'[l] = a /\ \A m \in Load : m # l => loads'[m] = loads[m]
  BY <1>2 DEF LoadsTyped
<1>5. LoadsTyped' /\ LoadsSound'
  BY <1>2, <1>3, <1>4 DEF LoadsTyped, LoadsSound
<1>6. UNCHANGED <<disk, path, files, loading, error, upload, removal>>
  BY DEF ListFiles, ListingFails, fmPage
<1>7. LoadingSound'
  BY <1>3, <1>4 DEF LoadingSound
<1> QED
  BY <1>5, <1>6, <1>7 DEF DiskSound, PageSound, UploadSound, RemovalSound

LEMMA LoadEndsTyped == ASSUME FMTyped, NEW l \in Load, LoadEnds(l) PROVE FMTyped'
<1> USE DEF FMTyped
<1>1. loads' = [loads EXCEPT ![l] = NoCall] /\ loading' = FALSE /\ UNCHANGED <<disk, upload, removal>>
  BY DEF LoadEnds
<1>2. loads'[l] = NoCall /\ \A m \in Load : m # l => loads'[m] = loads[m]
  BY <1>1 DEF LoadsTyped
<1>3. LoadsTyped' /\ LoadsSound'
  BY <1>1, <1>2 DEF LoadsTyped, LoadsSound, NoCall
<1>4. loads[l].at = "listed" => loads[l] # NoCall
  BY DEF NoCall
<1>5. PageSound'
  <2>1. CASE loads[l].at = "listed"
    BY <1>4, <2>1 DEF LoadEnds, LoadsSound, PageSound
  <2>2. CASE loads[l].at # "listed"
    BY <2>2 DEF LoadEnds, PageSound
  <2> QED
    BY <2>1, <2>2
<1> QED
  BY <1>1, <1>3, <1>5 DEF DiskSound, UploadSound, RemovalSound, LoadingSound

(* Entries come to directories that are there; only leaves go.              *)
LEMMA DiskTyped ==
  ASSUME DiskSound, NEW e \in Entry,
         \/ Parent[e] \in disk \cup {Root} /\ disk' = disk \cup {e}
         \/ Empty(e) /\ disk' = disk \ {e}
         \/ UNCHANGED disk
  PROVE  DiskSound'
BY DEF DiskSound, Empty

LEMMA ActionsTyped ==
  ASSUME FMTyped,
         \/ \E e \in Entry : Uploads(e) \/ Deletes(e) \/ DiskChanges(e)
         \/ UploadFile \/ UploadFails \/ DeleteFile \/ DeleteFails
  PROVE  FMTyped'
<1> USE DEF FMTyped
<1>1. UNCHANGED <<path, files, loading, error, loads>>
  BY DEF Uploads, Deletes, DiskChanges, UploadFile, UploadFails, DeleteFile, DeleteFails, fmPage, fmCalls
<1>2. LoadsTyped' /\ LoadsSound' /\ PageSound' /\ LoadingSound'
  BY <1>1 DEF LoadsTyped, LoadsSound, PageSound, LoadingSound
<1>3. ASSUME NEW e \in Entry, Uploads(e) PROVE DiskSound' /\ UploadSound' /\ RemovalSound'
  BY <1>3 DEF Uploads, DiskSound, UploadSound, RemovalSound, PageSound
<1>4. ASSUME NEW e \in Entry, Deletes(e) PROVE DiskSound' /\ UploadSound' /\ RemovalSound'
  BY <1>4 DEF Deletes, DiskSound, UploadSound, RemovalSound, PageSound
<1>5. ASSUME NEW e \in Entry, DiskChanges(e) PROVE DiskSound' /\ UploadSound' /\ RemovalSound'
  BY <1>5, DiskTyped DEF DiskChanges, fmCalls, UploadSound, RemovalSound
<1>6. CASE UploadFile
  <2>1. upload.at = "sent" /\ NoCall.at = "none"
    BY <1>6 DEF UploadFile, NoCall
  <2>2. upload # NoCall
    BY <2>1
  <2>3. disk' = disk \cup {upload.entry} /\ upload.dir \in disk \cup {Root} /\ UNCHANGED removal
        /\ upload' = [upload EXCEPT !.at = "stored"]
    BY <1>6 DEF UploadFile
  <2>4. DiskSound'
    BY <2>2, <2>3, DiskTyped DEF UploadSound
  <2>5. UploadSound'
    BY <2>2, <2>3 DEF UploadSound
  <2> QED
    BY <1>2, <2>3, <2>4, <2>5 DEF RemovalSound
<1>7. CASE DeleteFile
  <2>1. removal.at = "sent" /\ NoCall.at = "none"
    BY <1>7 DEF DeleteFile, NoCall
  <2>2. removal # NoCall
    BY <2>1
  <2>3. /\ removal.entry \in disk /\ Empty(removal.entry) /\ disk' = disk \ {removal.entry}
        /\ removal' = [removal EXCEPT !.at = "removed"] /\ UNCHANGED upload
    BY <1>7 DEF DeleteFile
  <2>4. DiskSound'
    BY <2>3, DiskTyped DEF DiskSound
  <2>5. RemovalSound'
    BY <2>2, <2>3 DEF RemovalSound
  <2> QED
    BY <1>2, <2>3, <2>4, <2>5 DEF UploadSound
<1>8. CASE UploadFails \/ DeleteFails
  BY <1>2, <1>8 DEF UploadFails, DeleteFails, DiskSound, UploadSound, RemovalSound
<1> QED
  BY <1>2, <1>3, <1>4, <1>5, <1>6, <1>7, <1>8

LEMMA FMNextTyped == ASSUME FMTyped, [FMNext]_fmVars PROVE FMTyped'
<1>1. CASE UNCHANGED fmVars
  BY <1>1 DEF fmVars, fmPage, fmCalls, FMTyped, LoadsTyped, DiskSound, PageSound, LoadsSound, UploadSound,
              RemovalSound, LoadingSound
<1> QED
  BY <1>1, StartsTyped, AnswerTyped, LoadEndsTyped, ActionsTyped DEF FMNext

LEMMA FMTypes == FMTyped => FMTypeOK
BY DEF FMTyped, DiskSound, PageSound, LoadingSound, FMTypeOK

-----------------------------------------------------------------------------
(* The tokens page lists and shows what was created: so do the answers that *)
(* are on their way.                                                        *)
TokenLoadsSound ==
  /\ DOMAIN tokenLoads = TokenLoad
  /\ \A l \in TokenLoad : tokenLoads[l].at = "read" => tokenLoads[l].tokens \subseteq made
CreatedSound == creation.at = "created" => creation.token \in made

TKTyped == TKTypeOK /\ TokenLoadsSound /\ CreatedSound

LEMMA FirstLoadSound ==
  ASSUME NEW q \in FirstLoad
  PROVE  DOMAIN q = TokenLoad /\ \A l \in TokenLoad : q[l].at # "read"
BY DEF FirstLoad, Sent, Idle

LEMMA TKInitTyped == TKInit => TKTyped
<1> SUFFICES ASSUME TKInit PROVE TKTyped
  OBVIOUS
<1>1. TokenLoadsSound
  BY FirstLoadSound DEF TKInit, TokenLoadsSound
<1>2. CreatedSound
  BY DEF TKInit, CreatedSound, Idle
<1>3. TKTypeOK
  BY DEF TKInit, TKTypeOK
<1> QED
  BY <1>1, <1>2, <1>3 DEF TKTyped

LEMMA AsksTyped ==
  ASSUME TokenLoadsSound, NEW l \in TokenLoad, Asks(l), UNCHANGED made
  PROVE  TokenLoadsSound'
BY DEF TokenLoadsSound, Asks, Sent

LEMMA MadeGrows ==
  ASSUME TokenLoadsSound, UNCHANGED tokenLoads, made \subseteq made'
  PROVE  TokenLoadsSound'
BY DEF TokenLoadsSound

LEMMA TKNextTyped == ASSUME TKTyped, [TKNext]_tkVars PROVE TKTyped'
<1> USE DEF TKTyped, tokenView, tokenCalls
<1>0. SecretShown \subseteq made
  BY DEF SecretShown, TKTypeOK
<1>1. CASE GenerateToken \/ ClosesTokenForm \/ TokenNamed \/ UNCHANGED tkVars
  <2>1. UNCHANGED <<made, valid, tokens, listing, tokenCalls>>
    BY <1>1 DEF GenerateToken, ClosesTokenForm, TokenNamed, tkVars
  <2>2. TokenLoadsSound' /\ CreatedSound'
    BY <2>1, MadeGrows DEF CreatedSound
  <2>3. TKTypeOK'
    BY <1>0, <1>1, <2>1 DEF GenerateToken, ClosesTokenForm, TokenNamed, tkVars, TKTypeOK
  <2> QED
    BY <2>2, <2>3
<1>2. CASE CreatesToken \/ TokenNotCreated
  <2>1. /\ UNCHANGED <<made, valid, tokenView, tokenLoads, putAway>>
        /\ creation' = Sent \/ creation' = Idle
    BY <1>2 DEF CreatesToken, TokenNotCreated
  <2>2. TokenLoadsSound' /\ CreatedSound'
    BY <2>1, MadeGrows DEF CreatedSound, Sent, Idle
  <2> QED
    BY <2>1, <2>2 DEF TKTypeOK
<1>3. ASSUME NEW t \in Token, PanelCreatesToken(t) \/ OthersToken(t) PROVE TKTyped'
  <2>1. /\ made' = made \cup {t} \/ made' = made
        /\ UNCHANGED <<tokenView, tokenLoads, putAway>>
        /\ creation' = creation \/ (creation' = [at |-> "created", token |-> t] /\ made' = made \cup {t})
    BY <1>3 DEF PanelCreatesToken, OthersToken
  <2>2. TokenLoadsSound' /\ CreatedSound'
    BY <2>1, MadeGrows DEF CreatedSound
  <2>3. valid' \subseteq made' /\ made' \subseteq Token
    BY <1>3 DEF PanelCreatesToken, OthersToken, TKTypeOK
  <2> QED
    BY <2>1, <2>2, <2>3 DEF TKTypeOK
<1>4. ASSUME NEW l \in TokenLoad, TokenCreated(l) PROVE TKTyped'
  <2>1. creation.token \in made
    BY <1>4 DEF TokenCreated, CreatedSound
  <2>2. TokenLoadsSound'
    BY <1>4, AsksTyped DEF TokenCreated
  <2>3. CreatedSound'
    BY <1>4 DEF TokenCreated, CreatedSound, Idle
  <2> QED
    BY <1>0, <1>4, <2>1, <2>2, <2>3 DEF TokenCreated, TKTypeOK
<1>5. ASSUME NEW l \in TokenLoad, TokensRead(l) \/ TokensListed(l) \/ TokensNotListed(l) PROVE TKTyped'
  <2>1. UNCHANGED <<made, valid, tokenForm, newSecret, tokenName, creation, putAway>>
    BY <1>5 DEF TokensRead, TokensListed, TokensNotListed
  <2>2. TokenLoadsSound'
    BY <1>5 DEF TokensRead, TokensListed, TokensNotListed, TokenLoadsSound, TKTypeOK, Idle
  <2>3. tokens' \subseteq made /\ listing' \in BOOLEAN
    BY <1>5 DEF TokensRead, TokensListed, TokensNotListed, TokenLoadsSound, TKTypeOK
  <2> QED
    BY <2>1, <2>2, <2>3 DEF TKTypeOK, CreatedSound
<1>6. ASSUME NEW r \in Revocation, PanelRevokesToken(r) \/ TokenNotRevoked(r) \/ \E t \in Token : RevokesToken(r, t)
      PROVE  TKTyped'
  <2>1. UNCHANGED <<made, tokenView, creation, tokenLoads, putAway>> /\ valid' \subseteq valid
    BY <1>6 DEF PanelRevokesToken, TokenNotRevoked, RevokesToken
  <2> QED
    BY <2>1, MadeGrows DEF TKTypeOK, CreatedSound
<1>7. ASSUME NEW r \in Revocation, NEW l \in TokenLoad, TokenRevoked(r, l) PROVE TKTyped'
  <2>1. UNCHANGED <<made, valid, tokenView, creation, putAway>> /\ Asks(l)
    BY <1>7 DEF TokenRevoked
  <2> QED
    BY <2>1, AsksTyped DEF TKTypeOK, CreatedSound
<1>8. CASE TokensReopened
  <2>1. TokenLoadsSound' /\ CreatedSound'
    BY <1>8, FirstLoadSound DEF TokensReopened, TokenLoadsSound, CreatedSound, Idle
  <2> QED
    BY <1>0, <1>8, <2>1 DEF TokensReopened, TKTypeOK
<1> QED
  BY <1>1, <1>2, <1>3, <1>4, <1>5, <1>6, <1>7, <1>8 DEF TKNext

-----------------------------------------------------------------------------
(* The wizard knows servers there are or were, and its button waits exactly *)
(* for the request that is out.                                             *)
QueriesSound ==
  /\ DOMAIN queries = Query
  /\ \A q \in Query : queries[q] \notin {None, Asked} => queries[q].servers \subseteq Relay
WizardSound ==
  /\ live \subseteq Relay /\ listed \subseteq Relay /\ editing \in RelayChain \cup {NewChain}
  /\ busy <=> request # Nothing

CWTyped == CWInv /\ QueriesSound /\ WizardSound

LEMMA CWInitTyped == CWInit => CWTyped
<1> SUFFICES ASSUME CWInit PROVE CWTyped
  OBVIOUS
<1>1. QueriesSound /\ WizardSound
  BY DEF CWInit, QueriesSound, WizardSound
<1> QED
  BY <1>1, CWInitInv DEF CWTyped

(* A request is something.                                                  *)
LEMMA RequestThere ==
  ASSUME NEW r, "done" \in DOMAIN r
  PROVE  r # Nothing
<1>1. DOMAIN <<>> = {}
  OBVIOUS
<1> QED
  BY <1>1 DEF Nothing

LEMMA CWNextTyped == ASSUME CWTyped, [CWNext]_cwVars PROVE CWTyped'
<1> USE DEF CWTyped
<1>1. CWInv'
  BY CWNextInv
<1>2. QueriesSound'
  <2>1. CASE UNCHANGED queries
    BY <2>1 DEF QueriesSound
  <2>2. ASSUME NEW c \in RelayChain \cup {NewChain}, NEW a \in Query, OpensWizard(c, a) PROVE QueriesSound'
    BY <2>2 DEF OpensWizard, QueriesSound, Asked
  <2>3. ASSUME NEW a \in Query, ServersAnswered(a) PROVE QueriesSound'
    <3>1. queries' = [queries EXCEPT ![a] = Got(live)] /\ Got(live).servers \subseteq Relay
      BY <2>3 DEF ServersAnswered, Got, WizardSound
    <3> QED
      BY <3>1 DEF QueriesSound
  <2>4. ASSUME NEW a \in Query, ServersArrive(a) \/ ServersLost(a) PROVE QueriesSound'
    BY <2>4 DEF ServersArrive, ServersLost, QueriesSound
  <2>5. CASE ClosesWizard \/ Saves \/ PanelSavesChain \/ ChainSaved \/ ChainRefused \/ ChainsListed \/ UNCHANGED cwVars
    BY <2>1, <2>5 DEF ClosesWizard, Saves, PanelSavesChain, ChainSaved, ChainRefused, ChainsListed, cwVars
  <2>6. CASE \/ Names \/ GoesOn \/ GoesBack
             \/ \E s \in Relay : Picks(s) \/ ServerTurns(s)
             \/ \E i \in DOMAIN picked : MovesUp(i) \/ MovesDown(i) \/ Removes(i)
    BY <2>1, <2>6 DEF Names, GoesOn, GoesBack, Picks, ServerTurns, MovesUp, MovesDown, Removes, Fixed
  <2> QED
    BY <2>2, <2>3, <2>4, <2>5, <2>6 DEF CWNext
<1>3. WizardSound'
  <2> USE DEF WizardSound, wizardVars
  <2>1. ASSUME NEW c \in RelayChain \cup {NewChain}, NEW a \in Query, OpensWizard(c, a) PROVE WizardSound'
    BY <2>1 DEF OpensWizard
  <2>2. ASSUME NEW a \in Query, ServersAnswered(a) \/ ServersArrive(a) \/ ServersLost(a) PROVE WizardSound'
    BY <2>2 DEF ServersAnswered, ServersArrive, ServersLost, QueriesSound
  <2>3. CASE ClosesWizard \/ ChainsListed \/ UNCHANGED cwVars
    BY <2>3 DEF ClosesWizard, ChainsListed, cwVars
  <2>4. CASE \/ Names \/ GoesOn \/ GoesBack
             \/ \E s \in Relay : Picks(s)
             \/ \E i \in DOMAIN picked : MovesUp(i) \/ MovesDown(i) \/ Removes(i)
    BY <2>4 DEF Names, GoesOn, GoesBack, Picks, MovesUp, MovesDown, Removes, Fixed
  <2>5. ASSUME NEW s \in Relay, ServerTurns(s) PROVE WizardSound'
    BY <2>5 DEF ServerTurns
  <2>6. CASE Saves
    <3>1. request' # Nothing
      BY <2>6, RequestThere DEF Saves
    <3> QED
      BY <2>6, <3>1 DEF Saves
  <2>7. CASE PanelSavesChain
    <3>1. request # Nothing /\ request' = [request EXCEPT !.done = TRUE]
      BY <2>7 DEF PanelSavesChain
    <3>2. "done" \in DOMAIN request'
      BY <3>1 DEF CWInv, RequestSound
    <3> QED
      BY <2>7, <3>1, <3>2, RequestThere DEF PanelSavesChain
  <2>8. CASE ChainSaved \/ ChainRefused
    BY <2>8 DEF ChainSaved, ChainRefused
  <2> QED
    BY <2>1, <2>2, <2>3, <2>4, <2>5, <2>6, <2>7, <2>8 DEF CWNext
<1> QED
  BY <1>1, <1>2, <1>3

LEMMA CWTypes == CWTyped => CWTypeOK
BY DEF CWTyped, CWInv, StepsSound, WizardSound, CWTypeOK
=============================================================================
