------------------------------ MODULE MCStores ------------------------------
(* TLC instance of the panel's stores that handlers write -- the servers    *)
(* (ServerStore), the tasks (TaskStore) of those that are not samples, the  *)
(* relay chains (Chains), account, tokens and audit trail (Access) -- and   *)
(* of the pages that show and edit what others change meanwhile: those over *)
(* cached lists (AdminLists), the servers page (ServersPage), the chain     *)
(* wizard (ChainWizard), the file manager (FilesPage), the tokens page       *)
(* (TokensPage).                                                            *)
(*                                                                          *)
(* They share no state -- a page has its own abstraction of the store it    *)
(* shows -- so that each is explored with the others at rest: `part' says   *)
(* which one moves.                                                         *)
EXTENDS ServerStore, TaskStore, Chains, Access,
        AdminLists, ServersPage, ChainWizard, FilesPage, TokensPage, TLC

CONSTANTS one, two, third,  \* the servers of the servers page
          folder, file, inner, root  \* a directory, a file beside it, one in it

VARIABLE part

-----------------------------------------------------------------------------
(* The visits: a list with the pages that show it.  Calls overlap on the    *)
(* services and status pages, which have a form and a delete dialog.        *)
OneCall == {CHOOSE call \in ApiCall : TRUE}
Visited(ps, k, cs, n) == [pages |-> ps, lists |-> {k}, calls |-> cs, clicks |-> n]
MCTours ==
  {Visited({"alerts"}, "rules", OneCall, 2), Visited({"alerts"}, "events", OneCall, 1),
   Visited({"alerts", "notifications"}, "channels", OneCall, 1),
   Visited({"cron"}, "tasks", OneCall, 1), Visited({"cron"}, "executions", OneCall, 1),
   Visited({"services", "status"}, "services", ApiCall, 2),
   Visited({"chains", "routes"}, "chains", OneCall, 1),
   Visited({"probes"}, "probes", OneCall, 1)}

(* The stays at the servers page: one with filters, sizes and a change by   *)
(* others; one with two calls of the admin, one with two that fail.         *)
Stay(ss, new, ks, ns, e, n, f) ==
  [there |-> ss, fresh |-> new, kinds |-> ks, sizes |-> ns, edits |-> e, calls |-> n, faults |-> f]
OneKind == {CHOOSE k \in Kind : TRUE}
MCStays == {Stay({one, two}, {third}, Kind, {1, 2}, 1, 0, 0),
            Stay({one}, {third}, OneKind, {2}, 0, 2, 1),
            Stay({one, two}, {}, OneKind, {2}, 0, 1, 2)}

MCParent == folder :> root @@ file :> root @@ inner :> folder

-----------------------------------------------------------------------------
storesVars == <<ssVars, tsVars, chVars, auVars>>
listsRest == <<tabVars, listVars, callVars, boundVars, own>>
serversRest == <<stay, panelRows, opened, viewVars, dialogVars, saveVars, deletion, mine, gone, spBounds>>
pagesVars == <<lsVars, serversRest, cwVars, fmVars, tkVars>>
vars == <<part, storesVars, pagesVars>>

(* What is at rest rests in one state.                                      *)
Init ==
  /\ part \in {"servers", "tasks", "chains", "access", "lists", "rows", "wizard", "files", "tokens"}
  /\ SSInit /\ TSInit /\ CHInit /\ AUInit
  /\ LSInit /\ SPInit /\ CWInit /\ FMInit /\ TKInit
  /\ part # "lists" => tour = CHOOSE t \in Tours : TRUE
  /\ part # "rows" => stay = CHOOSE t \in Stays : TRUE
  /\ part # "rows" => table = CHOOSE r \in [stay.there -> stay.kinds] : TRUE
  /\ part # "wizard" => chainHops = [k \in RelayChain |-> CHOOSE h \in Pairs : TRUE]
  /\ part # "files" => loads[CHOOSE l \in Load : TRUE] # NoCall
  /\ part # "tokens" => tokenLoads = CHOOSE q \in FirstLoad : TRUE

ServerTable == part = "servers" /\ SSNext /\ UNCHANGED <<part, tsVars, chVars, auVars, pagesVars>>
Tasks == part = "tasks" /\ TSNext /\ UNCHANGED <<part, ssVars, chVars, auVars, pagesVars>>
RelayChains == part = "chains" /\ CHNext /\ UNCHANGED <<part, ssVars, tsVars, auVars, pagesVars>>
Accounts == part = "access" /\ AUNext /\ UNCHANGED <<part, ssVars, tsVars, chVars, pagesVars>>

CachedLists == part = "lists" /\ LSNext /\ UNCHANGED <<part, storesVars, serversRest, cwVars, fmVars, tkVars>>
ServerRows == part = "rows" /\ SPNext /\ UNCHANGED <<part, storesVars, listsRest, cwVars, fmVars, tkVars>>
Wizard == part = "wizard" /\ CWNext /\ UNCHANGED <<part, storesVars, lsVars, serversRest, fmVars, tkVars>>
FileManager == part = "files" /\ FMNext /\ UNCHANGED <<part, storesVars, lsVars, serversRest, cwVars, tkVars>>

ApiTokens == part = "tokens" /\ TKNext /\ UNCHANGED <<part, storesVars, lsVars, serversRest, cwVars, fmVars>>

Stores == ServerTable \/ Tasks \/ RelayChains \/ Accounts
AdminPages == CachedLists \/ ServerRows \/ Wizard \/ FileManager \/ ApiTokens

Spec == Init /\ [][Stores \/ AdminPages]_vars

(* Types of all parts: a task in the store was created since the process    *)
(* started, the flags of a row are those of one that is stored, hops are of *)
(* chains that exist, a token's value is stored once; the lists of the      *)
(* pages are at changes that were made, and a request of the wizard waits   *)
(* exactly while its button is disabled.                                    *)
StoresTypeOK == /\ SSTypeOK /\ TSTypeOK /\ CHTypeOK /\ AUTypeOK
                /\ LSTypeOK /\ SPTypeOK /\ CWTypeOK /\ FMTypeOK /\ TKTypeOK
=============================================================================
