------------------------------- MODULE Chains -------------------------------
(* Relay chains: backend/internal/database/chain_store.go with its handlers *)
(* (handlers/chain.go).  A request that changes a chain holds the chain     *)
(* store's lock throughout, but looks the servers up one by one in a store  *)
(* with a lock of its own, so that servers come and go meanwhile.  The      *)
(* store hands out pointers: an answer is encoded after the lock is         *)
(* released, hop by hop, while the next request changes the same chain.     *)
(*                                                                          *)
(* A chain is an object; `chained' is the map of the store, ids stand for   *)
(* their objects.  A hop is whether it is hidden and whether its latency is *)
(* a tested one; names, descriptions, what is copied from servers and the   *)
(* sum of the latencies are left out, and a look-up finds its server or not.*)
EXTENDS Integers, Sequences

CONSTANTS Chain,      \* chain objects
          SampleChain,\* the one that is there at the start
          Viewer,     \* requests that read a chain
          MaxHops     \* bound of the model: hops asked for

ASSUME ChainLimits == MaxHops \in Nat /\ MaxHops >= 3
ASSUME SampleAssumption == SampleChain \in Chain

VARIABLES chained,  \* chains in the store
          hops,     \* of each chain
          job,      \* the request that holds the store's lock, or NoJob
          view      \* the answer each viewer is at: the chain, how many hops
                    \* the encoder is to visit, and those it has written

chVars == <<chained, hops, job, view>>

NoJob == [op |-> "none"]
NoView == [at |-> "idle"]
Unlocked == job = NoJob

(* An object that neither the store nor an answer refers to.                *)
Unused(c) ==
  /\ c \notin chained
  /\ \A v \in Viewer : view[v].at = "reading" => view[v].chain # c

(* Mutant of NextHop: the main node at the end is shown as well.            *)
NextHopShowsMain(i, last) == [tested |-> FALSE, hidden |-> i \notin {1, last}]

(* One turn of buildHops' loop, at place i of `last'.                       *)
NextHop(i, last) == [tested |-> FALSE, hidden |-> i # 1]

(* seedChains: a chain over the three sample servers.                       *)
CHInit ==
  /\ chained = {SampleChain}
  /\ hops = [c \in Chain |->
       IF c # SampleChain THEN <<>>
       ELSE [i \in 1..3 |-> [tested |-> FALSE, hidden |-> i # 1]]]
  /\ job = NoJob /\ view = [v \in Viewer |-> NoView]

-----------------------------------------------------------------------------
(* CreateChain takes the lock; the binding asks for two servers at least.   *)
CreateChain(c, n) ==
  /\ Unlocked /\ Unused(c) /\ n >= 2
  /\ job' = [op |-> "create", chain |-> c, len |-> n, built |-> <<>>]
  /\ UNCHANGED <<chained, hops, view>>

(* UpdateChain with new servers; less than two are refused, with the name   *)
(* already changed.                                                         *)
UpdateChain(c, n) ==
  /\ Unlocked /\ c \in chained /\ n >= 2
  /\ job' = [op |-> "update", chain |-> c, len |-> n, built |-> <<>>]
  /\ UNCHANGED <<chained, hops, view>>

Building == job.op \in {"create", "update"}

(* The next server is looked up.                                            *)
LookUp ==
  /\ Building /\ Len(job.built) < job.len
  /\ job' = [job EXCEPT !.built = Append(@, NextHop(Len(@) + 1, job.len))]
  /\ UNCHANGED <<chained, hops, view>>

(* It is not there (any more): the request fails.                           *)
NotFound ==
  /\ Building /\ Len(job.built) < job.len
  /\ job' = NoJob
  /\ UNCHANGED <<chained, hops, view>>

Built == Building /\ Len(job.built) = job.len

Created ==
  /\ Built /\ job.op = "create"
  /\ hops' = [hops EXCEPT ![job.chain] = job.built]
  /\ chained' = chained \cup {job.chain}
  /\ job' = NoJob
  /\ UNCHANGED view

(* The slice of a stored chain's hops is replaced as a whole.               *)
HopsReplaced ==
  /\ Built /\ job.op = "update"
  /\ hops' = [hops EXCEPT ![job.chain] = job.built]
  /\ job' = NoJob
  /\ UNCHANGED <<chained, view>>

(* TestChain goes over the hops in place.                                   *)
TestChain(c) ==
  /\ Unlocked /\ c \in chained
  /\ job' = [op |-> "test", chain |-> c, next |-> 1]
  /\ UNCHANGED <<chained, hops, view>>

TestHop ==
  /\ job.op = "test" /\ job.next <= Len(hops[job.chain])
  /\ hops' = [hops EXCEPT ![job.chain][job.next].tested = TRUE]
  /\ job' = [job EXCEPT !.next = @ + 1]
  /\ UNCHANGED <<chained, view>>

Tested ==
  /\ job.op = "test" /\ job.next > Len(hops[job.chain])
  /\ job' = NoJob
  /\ UNCHANGED <<chained, hops, view>>

DeleteChain(c) ==
  /\ Unlocked /\ c \in chained
  /\ chained' = chained \ {c}
  /\ UNCHANGED <<hops, job, view>>

(* A backup that was exported before replaces all: chains as a viewer got   *)
(* them, in new objects.                                                    *)
RestoreChains(c, v) ==
  /\ Unlocked /\ Unused(c) /\ view[v].at = "answered"
  /\ chained' = {c}
  /\ hops' = [hops EXCEPT ![c] = view[v].out]
  /\ UNCHANGED <<job, view>>

-----------------------------------------------------------------------------
(* GetChainByID, GetAllChains: a pointer is got under the lock ...          *)
GetChain(v, c) ==
  /\ view[v].at # "reading" /\ Unlocked /\ c \in chained
  /\ view' = [view EXCEPT
                 ![v] = [at |-> "reading", chain |-> c, len |-> 0, out |-> <<>>]]
  /\ UNCHANGED <<chained, hops, job>>

(* ... and encoded without it: the encoder takes the list's length, ...     *)
EncodeLength(v) ==
  /\ view[v].at = "reading" /\ view[v].len = 0
  /\ view' = [view EXCEPT ![v].len = Len(hops[view[v].chain])]
  /\ UNCHANGED <<chained, hops, job>>

(* ... a hop at a time, which panics where the list has become shorter (the *)
(* request then ends with status 500), ...                                  *)
EncodeHop(v) ==
  /\ view[v].at = "reading" /\ Len(view[v].out) < view[v].len
  /\ LET list == hops[view[v].chain]
         sent == view[v].out
         i == Len(sent) + 1
     IN  view' = [view EXCEPT ![v] =
           IF i <= Len(list) THEN [view[v] EXCEPT !.out = Append(sent, list[i])] ELSE NoView]
  /\ UNCHANGED <<chained, hops, job>>

(* ... and is done with the last one.                                       *)
EncodeEnd(v) ==
  /\ view[v].at = "reading" /\ view[v].len > 0 /\ Len(view[v].out) = view[v].len
  /\ view' = [view EXCEPT ![v] = [at |-> "answered", out |-> view[v].out]]
  /\ UNCHANGED <<chained, hops, job>>

Read(v) == \/ \E c \in Chain : GetChain(v, c)
           \/ EncodeLength(v) \/ EncodeHop(v) \/ EncodeEnd(v)

CHNext ==
  \/ \E c \in Chain :
       \/ \E n \in 0..MaxHops : CreateChain(c, n) \/ UpdateChain(c, n)
       \/ TestChain(c) \/ DeleteChain(c) \/ \E v \in Viewer : RestoreChains(c, v)
  \/ LookUp \/ NotFound \/ Created \/ HopsReplaced
  \/ TestHop \/ Tested
  \/ \E v \in Viewer : Read(v)

CHSpec == CHInit /\ [][CHNext]_chVars

-----------------------------------------------------------------------------
CHTypeOK ==
  /\ chained \subseteq Chain
  /\ \A c \in Chain :
       /\ DOMAIN hops[c] = 1..Len(hops[c]) /\ Len(hops[c]) <= MaxHops
       /\ \A i \in DOMAIN hops[c] : hops[c][i] \in [tested : BOOLEAN, hidden : BOOLEAN]

(* What the public chain page may show: of at least two nodes the first,    *)
(* and only the first.                                                      *)
EntryOnly(list) == Len(list) >= 2 /\ \A i \in DOMAIN list : list[i].hidden <=> i # 1

(* Chains and answers show their entry and hide every node behind it, also  *)
(* an answer that is put together while the chain is rebuilt or tested, or  *)
(* after its deletion.                                                      *)
OnlyEntryShown ==
  /\ \A c \in chained : EntryOnly(hops[c])
  /\ \A v \in Viewer : view[v].at = "answered" => EntryOnly(view[v].out)
=============================================================================
