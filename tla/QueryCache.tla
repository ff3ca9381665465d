----------------------------- MODULE QueryCache -----------------------------
(* The cache behind the lists of the web pages: one react-query client for  *)
(* the tab (frontend/lib/query-provider.tsx), an external library, modelled *)
(* as the pages use it: useQuery with a key, a GET, and for some an         *)
(* interval, and invalidateQueries with a key.                              *)
(*                                                                          *)
(* A load is asked, the panel reads what it answers, and the reply fills    *)
(* the cache.  There is one load of a key at a time: a second ask joins it, *)
(* but an invalidation of a key that has data cancels it and starts anew.   *)
CONSTANTS Key,     \* keys of lists
          NoData   \* what is cached of a key that was not loaded

VARIABLES cached,  \* the data of each key
          stale,   \* keys to be loaded anew when a page next shows them
          fetch,   \* of the load: "idle", "asked" or "read" by the panel
          reply,   \* what the panel answered
          retried  \* the load has failed once

qcVars == <<cached, stale, fetch, reply, retried>>

(* A new QueryClient.                                                       *)
EmptyCache ==
  /\ cached = [k \in Key |-> NoData] /\ stale = [k \in Key |-> TRUE]
  /\ fetch = [k \in Key |-> "idle"] /\ reply = [k \in Key |-> NoData]
  /\ retried = [k \in Key |-> FALSE]

HasData(k) == cached[k] # NoData

(* The loads of ks start, or start anew.                                    *)
Fetch(ks) ==
  /\ fetch' = [k \in Key |-> IF k \in ks THEN "asked" ELSE fetch[k]]
  /\ reply' = [k \in Key |-> IF k \in ks THEN NoData ELSE reply[k]]
  /\ retried' = [k \in Key |-> IF k \in ks THEN FALSE ELSE retried[k]]

(* A page that shows ks is opened: what is not there or stale is loaded.    *)
Opens(ks) ==
  /\ Fetch({k \in ks : fetch[k] = "idle" /\ (stale[k] \/ ~HasData(k))})
  /\ UNCHANGED <<cached, stale>>

(* Mutant of Polls: a list whose load failed is left alone.                 *)
PollsUnlessFailed(k) ==
  /\ fetch[k] = "idle" /\ ~stale[k]
  /\ Fetch({k})
  /\ UNCHANGED <<cached, stale>>

(* The interval of a list on screen: a load that runs is joined.            *)
Polls(k) ==
  /\ fetch[k] = "idle"
  /\ Fetch({k})
  /\ UNCHANGED <<cached, stale>>

(* Mutant of Invalidates: a load that runs is joined.                       *)
InvalidatesIdle(ks, shown) ==
  /\ Fetch({k \in ks \cap shown : fetch[k] = "idle"})
  /\ stale' = [k \in Key |-> stale[k] \/ k \in ks]
  /\ UNCHANGED cached

(* invalidateQueries of ks: those on screen are loaded anew, at once; the   *)
(* first load of a list is joined.                                          *)
Invalidates(ks, shown) ==
  /\ Fetch({k \in ks \cap shown : fetch[k] = "idle" \/ HasData(k)})
  /\ stale' = [k \in Key |-> stale[k] \/ k \in ks]
  /\ UNCHANGED cached

(* The panel answers the request of k with v.                               *)
PanelReads(k, v) ==
  /\ fetch[k] = "asked"
  /\ fetch' = [fetch EXCEPT ![k] = "read"]
  /\ reply' = [reply EXCEPT ![k] = v]
  /\ UNCHANGED <<cached, stale, retried>>

(* The reply arrives: the list counts as fresh, also when it was            *)
(* invalidated on the way.                                                  *)
LoadDone(k) ==
  /\ fetch[k] = "read"
  /\ fetch' = [fetch EXCEPT ![k] = "idle"]
  /\ cached' = [cached EXCEPT ![k] = reply[k]]
  /\ stale' = [stale EXCEPT ![k] = FALSE]
  /\ reply' = [reply EXCEPT ![k] = NoData]
  /\ UNCHANGED retried

(* The request fails: retry is 1, unless no page shows the list any more.   *)
LoadFails(k, shown) ==
  /\ fetch[k] # "idle"
  /\ reply' = [reply EXCEPT ![k] = NoData]
  /\ \/ /\ k \in shown /\ ~retried[k]
        /\ fetch' = [fetch EXCEPT ![k] = "asked"]
        /\ retried' = [retried EXCEPT ![k] = TRUE]
        /\ UNCHANGED stale
     \/ /\ ~(k \in shown /\ ~retried[k])
        /\ fetch' = [fetch EXCEPT ![k] = "idle"]
        /\ stale' = [stale EXCEPT ![k] = TRUE]
        /\ UNCHANGED retried
  /\ UNCHANGED cached

(* staleTime has passed since k was loaded.                                 *)
GoesStale(k) ==
  /\ HasData(k) /\ ~stale[k]
  /\ stale' = [stale EXCEPT ![k] = TRUE]
  /\ UNCHANGED <<cached, fetch, reply, retried>>

(* No page has shown k for five minutes.                                    *)
Dropped(k) ==
  /\ HasData(k) /\ fetch[k] = "idle"
  /\ cached' = [cached EXCEPT ![k] = NoData]
  /\ stale' = [stale EXCEPT ![k] = TRUE]
  /\ UNCHANGED <<fetch, reply, retried>>
=============================================================================
