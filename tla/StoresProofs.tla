---------------------------- MODULE StoresProofs ----------------------------
(* Theorems about the panel's stores and the pages over them (MCStores), for*)
(* any sets, lengths and limits: relay chains (Chains), the audit trail     *)
(* (Access), and the types of all parts of the instance.                    *)
(*                                                                          *)
(* Chains.  OnlyEntryShown speaks of stored chains and finished answers.    *)
(* The invariant adds the hops that a request is building, which begin with *)
(* the shown one, and that a chain which an answer is read from is sound    *)
(* also when the store has dropped it.                                      *)
EXTENDS MCStores, TaskStoreProofs, ServerStoreProofs, PagesProofs

Hop == [tested : BOOLEAN, hidden : BOOLEAN]
EntryFirst(list) == list \in Seq(Hop) /\ \A i \in 1..Len(list) : list[i].hidden <=> i # 1

JobSound(j) ==
  /\ j.op \in {"create", "update"} =>
       /\ j = [op |-> j.op, chain |-> j.chain, len |-> j.len, built |-> j.built]
       /\ j.chain \in Chain /\ j.len \in Nat /\ j.len >= 2 /\ EntryFirst(j.built)
  /\ j.op = "test" => /\ j = [op |-> j.op, chain |-> j.chain, next |-> j.next]
                      /\ j.chain \in Chain /\ j.next \in Nat \ {0}

Reading(w) == w.at = "reading"
ViewSound(w) ==
  /\ Reading(w) => /\ w = [at |-> w.at, chain |-> w.chain, len |-> w.len, out |-> w.out]
                   /\ w.chain \in Chain /\ w.len \in Nat /\ w.len # 1 /\ EntryFirst(w.out)
  /\ w.at = "answered" => EntryFirst(w.out) /\ Len(w.out) >= 2

Held(c) == c \in chained \/ \E v \in Viewer : Reading(view[v]) /\ view[v].chain = c

HopsSound ==
  /\ DOMAIN hops = Chain
  /\ \A c \in Chain : Held(c) => EntryFirst(hops[c]) /\ Len(hops[c]) >= 2
ViewsSound == DOMAIN view = Viewer /\ view = [v \in Viewer |-> view[v]] /\ \A v \in Viewer : ViewSound(view[v])

CHInv == chained \subseteq Chain /\ HopsSound /\ ViewsSound /\ JobSound(job)

LEMMA EntryShown == ASSUME NEW l, EntryFirst(l), Len(l) >= 2 PROVE EntryOnly(l)
<1>1. DOMAIN l = 1..Len(l)
  BY DEF EntryFirst
<1> QED
  BY <1>1 DEF EntryFirst, EntryOnly

LEMMA EntryAppended ==
  ASSUME NEW l, EntryFirst(l), NEW h \in Hop, h.hidden <=> Len(l) + 1 # 1
  PROVE  EntryFirst(Append(l, h)) /\ Len(Append(l, h)) = Len(l) + 1
<1>1. l \in Seq(Hop) /\ Len(l) \in Nat
  BY DEF EntryFirst
<1>2. Append(l, h) \in Seq(Hop) /\ Len(Append(l, h)) = Len(l) + 1
  BY <1>1
<1>3. ASSUME NEW i \in 1..(Len(l) + 1) PROVE Append(l, h)[i].hidden <=> i # 1
  <2>1. CASE i <= Len(l)
    <3>1. i \in 1..Len(l) /\ Append(l, h)[i] = l[i]
      BY <1>1, <2>1
    <3> QED
      BY <3>1 DEF EntryFirst
  <2>2. CASE i = Len(l) + 1
    <3>1. Append(l, h)[i] = h
      BY <1>1, <2>2
    <3> QED
      BY <2>2, <3>1
  <2> QED
    BY <1>1, <2>1, <2>2
<1> QED
  BY <1>2, <1>3 DEF EntryFirst

LEMMA HopTested ==
  ASSUME NEW h \in Hop
  PROVE  [h EXCEPT !.tested = TRUE] \in Hop /\ [h EXCEPT !.tested = TRUE].hidden = h.hidden
BY DEF Hop

LEMMA EntryTested ==
  ASSUME NEW l, EntryFirst(l), NEW n \in 1..Len(l)
  PROVE  LET m == [l EXCEPT ![n].tested = TRUE] IN EntryFirst(m) /\ Len(m) = Len(l)
<1> DEFINE m == [l EXCEPT ![n].tested = TRUE]
           h == [l[n] EXCEPT !.tested = TRUE]
<1>1. l \in Seq(Hop) /\ l[n] \in Hop
  BY DEF EntryFirst
<1>2. h \in Hop /\ h.hidden = l[n].hidden
  BY <1>1, HopTested
<1>3. m = [l EXCEPT ![n] = h]
  OBVIOUS
<1> HIDE DEF h, m
<1>4. m \in Seq(Hop) /\ Len(m) = Len(l)
  BY <1>1, <1>2, <1>3
<1>5. \A i \in 1..Len(l) : m[i] = IF i = n THEN h ELSE l[i]
  BY <1>1, <1>3
<1>6. EntryFirst(m)
  BY <1>2, <1>4, <1>5 DEF EntryFirst
<1> QED
  BY <1>4, <1>6 DEF m

LEMMA CHInitInv == CHInit => CHInv
<1> SUFFICES ASSUME CHInit PROVE CHInv
  OBVIOUS
<1> DEFINE sample == [i \in 1..3 |-> [tested |-> FALSE, hidden |-> i # 1]]
<1>1. sample \in Seq(Hop) /\ Len(sample) = 3
  <2>1. \A i \in 1..3 : [tested |-> FALSE, hidden |-> i # 1] \in Hop
    BY DEF Hop
  <2> QED
    BY <2>1
<1>2. EntryFirst(sample)
  BY <1>1 DEF EntryFirst
<1>3. /\ chained = {SampleChain} /\ hops = [c \in Chain |-> IF c # SampleChain THEN <<>> ELSE sample]
      /\ job = NoJob /\ view = [v \in Viewer |-> NoView]
  BY DEF CHInit
<1> HIDE DEF sample
<1>4. \A v \in Viewer : view[v].at = "idle"
  BY <1>3 DEF NoView
<1>5. ViewsSound
  BY <1>3, <1>4 DEF ViewsSound, ViewSound, Reading
<1>6. HopsSound
  BY <1>1, <1>2, <1>3, <1>4, SampleAssumption DEF HopsSound, Held, Reading
<1>7. JobSound(job)
  <2>1. job.op = "none"
    BY <1>3 DEF NoJob
  <2> QED
    BY <2>1 DEF JobSound
<1> QED
  BY <1>3, <1>5, <1>6, <1>7, SampleAssumption DEF CHInv

(* Only the request under way changes.                                      *)
LEMMA JobStep ==
  ASSUME CHInv, UNCHANGED <<chained, hops, view>>, JobSound(job')
  PROVE  CHInv'
<1>1. HopsSound' /\ ViewsSound'
  BY DEF CHInv, HopsSound, ViewsSound, Held
<1> QED
  BY <1>1 DEF CHInv

LEMMA NoJobSound == JobSound(NoJob)
<1>1. NoJob.op = "none"
  BY DEF NoJob
<1> QED
  BY <1>1 DEF JobSound

LEMMA BeginStep ==
  ASSUME CHInv, NEW c \in Chain, NEW n \in 0..MaxHops, CreateChain(c, n) \/ UpdateChain(c, n)
  PROVE  CHInv'
<1>1. PICK op \in {"create", "update"} : job' = [op |-> op, chain |-> c, len |-> n, built |-> <<>>]
  BY DEF CreateChain, UpdateChain
<1>2. n >= 2 /\ n \in Nat /\ UNCHANGED <<chained, hops, view>>
  BY ChainLimits DEF CreateChain, UpdateChain
<1>3. EntryFirst(<<>>)
  BY DEF EntryFirst
<1>4. job'.op = op /\ job'.chain = c /\ job'.len = n /\ job'.built = <<>>
  BY <1>1
<1>5. JobSound(job')
  BY <1>1, <1>2, <1>3, <1>4 DEF JobSound
<1> QED
  BY <1>2, <1>5, JobStep

(* The first hop is shown, and every later one hidden.                      *)
LEMMA LookUpStep == ASSUME CHInv, LookUp PROVE CHInv'
<1> DEFINE b == job.built
           h == NextHop(Len(b) + 1, job.len)
           r == [op |-> job.op, chain |-> job.chain, len |-> job.len, built |-> Append(b, h)]
<1>1. /\ job.op \in {"create", "update"} /\ UNCHANGED <<chained, hops, view>>
      /\ job' = [job EXCEPT !.built = Append(b, h)]
  BY DEF LookUp, Building
<1>2. /\ job = [op |-> job.op, chain |-> job.chain, len |-> job.len, built |-> b]
      /\ job.chain \in Chain /\ job.len \in Nat /\ job.len >= 2 /\ EntryFirst(b)
  BY <1>1 DEF CHInv, JobSound
<1>3. h \in Hop /\ (h.hidden <=> Len(b) + 1 # 1)
  BY DEF NextHop, Hop
<1>4. EntryFirst(Append(b, h))
  <2> HIDE DEF b, h
  <2> QED
    BY <1>2, <1>3, EntryAppended
<1>5. job' = r
  <2> HIDE DEF h
  <2> QED
    BY <1>1, <1>2
<1>6. /\ r.op = job.op /\ r.chain = job.chain /\ r.len = job.len /\ r.built = Append(b, h)
      /\ r = [op |-> r.op, chain |-> r.chain, len |-> r.len, built |-> r.built]
  OBVIOUS
<1> HIDE DEF r, h
<1>7. JobSound(r)
  BY <1>1, <1>2, <1>4, <1>6 DEF JobSound
<1> QED
  BY <1>1, <1>5, <1>7, JobStep

(* The hops that were built are put in, for a chain new or old.             *)
LEMMA BuiltStep == ASSUME CHInv, Created \/ HopsReplaced PROVE CHInv'
<1> DEFINE d == job.chain
<1>1. /\ job.op \in {"create", "update"} /\ Len(job.built) = job.len
      /\ hops' = [hops EXCEPT ![d] = job.built]
      /\ job' = NoJob /\ UNCHANGED view
  BY DEF Created, HopsReplaced, Built, Building
<1>2. chained' \subseteq chained \cup {d}
  BY DEF Created, HopsReplaced
<1>3. d \in Chain /\ EntryFirst(job.built) /\ Len(job.built) >= 2
  BY <1>1 DEF CHInv, JobSound
<1> HIDE DEF d
<1>4. /\ DOMAIN hops' = Chain /\ hops'[d] = job.built
      /\ \A c \in Chain : c # d => hops'[c] = hops[c]
  BY <1>1, <1>3 DEF CHInv, HopsSound
<1>5. ASSUME NEW c \in Chain, Held(c)' PROVE EntryFirst(hops'[c]) /\ Len(hops'[c]) >= 2
  <2>1. CASE c = d
    BY <1>3, <1>4, <2>1
  <2>2. CASE c # d
    <3>1. Held(c)
      BY <1>1, <1>2, <1>5, <2>2 DEF Held
    <3> QED
      BY <1>4, <2>2, <3>1 DEF CHInv, HopsSound
  <2> QED
    BY <2>1, <2>2
<1>6. HopsSound'
  BY <1>4, <1>5 DEF HopsSound, EntryFirst
<1>7. ViewsSound' /\ JobSound(job') /\ chained' \subseteq Chain
  BY <1>1, <1>2, <1>3, NoJobSound DEF CHInv, ViewsSound
<1> QED
  BY <1>6, <1>7 DEF CHInv

(* A test changes latencies, not what is hidden.                            *)
LEMMA TestHopStep == ASSUME CHInv, TestHop PROVE CHInv'
<1> DEFINE d == job.chain
           n == job.next
           list == [hops[d] EXCEPT ![n].tested = TRUE]
           r == [op |-> job.op, chain |-> d, next |-> n + 1]
<1>1. /\ job.op = "test" /\ n <= Len(hops[d])
      /\ hops' = [hops EXCEPT ![d][n].tested = TRUE]
      /\ job' = [job EXCEPT !.next = n + 1]
      /\ UNCHANGED <<chained, view>>
  BY DEF TestHop
<1>2. /\ d \in Chain /\ n \in Nat \ {0} /\ job = [op |-> job.op, chain |-> d, next |-> n]
  BY <1>1 DEF CHInv, JobSound
<1>3. hops' = [hops EXCEPT ![d] = list]
  BY <1>1
<1>4. job' = r
  BY <1>1, <1>2
<1>5. /\ r.op = job.op /\ r.chain = d /\ r.next = n + 1
      /\ r = [op |-> r.op, chain |-> r.chain, next |-> r.next]
  OBVIOUS
<1>6. EntryFirst(hops[d]) => EntryFirst(list) /\ Len(list) = Len(hops[d])
  <2> SUFFICES ASSUME EntryFirst(hops[d]) PROVE EntryFirst(list) /\ Len(list) = Len(hops[d])
    OBVIOUS
  <2>1. Len(hops[d]) \in Nat
    BY DEF EntryFirst
  <2>2. n \in 1..Len(hops[d])
    BY <1>1, <1>2, <2>1
  <2> HIDE DEF d, n
  <2> QED
    BY <2>2, EntryTested
<1> HIDE DEF r, d, n, list
<1>7. JobSound(job')
  BY <1>1, <1>2, <1>4, <1>5 DEF JobSound
<1>8. /\ DOMAIN hops' = Chain /\ hops'[d] = list
      /\ \A c \in Chain : c # d => hops'[c] = hops[c]
  BY <1>2, <1>3 DEF CHInv, HopsSound
<1>9. HopsSound'
  <2> SUFFICES ASSUME NEW c \in Chain, Held(c)' PROVE EntryFirst(hops'[c]) /\ Len(hops'[c]) >= 2
    BY <1>8 DEF HopsSound, EntryFirst
  <2>1. EntryFirst(hops[c]) /\ Len(hops[c]) >= 2
    BY <1>1 DEF Held, CHInv, HopsSound
  <2>2. CASE c = d
    BY <1>6, <1>8, <2>1, <2>2
  <2>3. CASE c # d
    BY <1>8, <2>1, <2>3
  <2> QED
    BY <2>2, <2>3
<1> QED
  BY <1>1, <1>7, <1>9 DEF CHInv, ViewsSound

(* Chains go, or come back from an answer.                                  *)
LEMMA DeleteChainStep ==
  ASSUME CHInv, NEW c \in Chain, DeleteChain(c)
  PROVE  CHInv'
<1>1. chained' \subseteq chained /\ UNCHANGED <<hops, job, view>>
  BY DEF DeleteChain
<1>2. HopsSound' /\ ViewsSound'
  BY <1>1 DEF CHInv, HopsSound, ViewsSound, Held
<1> QED
  BY <1>1, <1>2 DEF CHInv

LEMMA RestoreStep ==
  ASSUME CHInv, NEW d \in Chain, NEW v \in Viewer, RestoreChains(d, v)
  PROVE  CHInv'
<1>1. /\ view[v].at = "answered" /\ chained' = {d}
      /\ hops' = [hops EXCEPT ![d] = view[v].out] /\ UNCHANGED <<job, view>>
  BY DEF RestoreChains
<1>2. EntryFirst(view[v].out) /\ Len(view[v].out) >= 2
  BY <1>1 DEF CHInv, ViewsSound, ViewSound
<1>3. /\ DOMAIN hops' = Chain /\ hops'[d] = view[v].out
      /\ \A c \in Chain : c # d => hops'[c] = hops[c]
  BY <1>1 DEF CHInv, HopsSound
<1>4. HopsSound'
  <2> SUFFICES ASSUME NEW c \in Chain, Held(c)' PROVE EntryFirst(hops'[c]) /\ Len(hops'[c]) >= 2
    BY <1>3 DEF HopsSound, EntryFirst
  <2>1. CASE c = d
    BY <1>2, <1>3, <2>1
  <2>2. CASE c # d
    <3>1. Held(c)
      BY <1>1, <2>2 DEF Held
    <3> QED
      BY <1>3, <2>2, <3>1 DEF CHInv, HopsSound
  <2> QED
    BY <2>1, <2>2
<1> QED
  BY <1>1, <1>4 DEF CHInv, ViewsSound

(* An answer advances: it may only begin with a chain that is held.         *)
LEMMA ViewStep ==
  ASSUME CHInv, NEW v \in Viewer, NEW w, view' = [view EXCEPT ![v] = w],
         UNCHANGED <<chained, hops, job>>, ViewSound(w), Reading(w) => Held(w.chain)
  PROVE  CHInv'
<1>1. view' = [u \in Viewer |-> IF u = v THEN w ELSE view[u]]
  BY DEF CHInv, ViewsSound
<1>2. ViewsSound'
  BY <1>1 DEF CHInv, ViewsSound
<1>3. ASSUME NEW c \in Chain, Held(c)' PROVE Held(c)
  <2>1. CASE c \in chained
    BY <2>1 DEF Held
  <2>2. CASE c \notin chained
    <3>1. PICK u \in Viewer : Reading(view'[u]) /\ view'[u].chain = c
      BY <1>3, <2>2 DEF Held, Reading
    <3>2. CASE u = v
      BY <1>1, <3>1, <3>2
    <3>3. CASE u # v
      BY <1>1, <3>1, <3>3 DEF Held
    <3> QED
      BY <3>2, <3>3
  <2> QED
    BY <2>1, <2>2
<1>4. HopsSound'
  BY <1>3 DEF CHInv, HopsSound
<1> QED
  BY <1>2, <1>4 DEF CHInv

LEMMA GetChainStep ==
  ASSUME CHInv, NEW v \in Viewer, NEW c \in Chain, GetChain(v, c)
  PROVE  CHInv'
<1> DEFINE w == [at |-> "reading", chain |-> c, len |-> 0, out |-> <<>>]
<1>1. view' = [view EXCEPT ![v] = w] /\ c \in chained /\ UNCHANGED <<chained, hops, job>>
  BY DEF GetChain
<1>2. /\ w.at = "reading" /\ w.chain = c /\ w.len = 0 /\ w.out = <<>>
      /\ w = [at |-> w.at, chain |-> w.chain, len |-> w.len, out |-> w.out]
  OBVIOUS
<1>3. EntryFirst(<<>>)
  BY DEF EntryFirst
<1> HIDE DEF w
<1>4. ViewSound(w)
  BY <1>2, <1>3 DEF ViewSound, Reading
<1>5. Held(w.chain)
  BY <1>1, <1>2 DEF Held
<1> QED
  BY <1>1, <1>4, <1>5, ViewStep

LEMMA ReadingHeld ==
  ASSUME CHInv, NEW v \in Viewer, Reading(view[v])
  PROVE  LET c == view[v].chain IN Held(c) /\ EntryFirst(hops[c]) /\ Len(hops[c]) >= 2
<1>1. view[v].chain \in Chain /\ Held(view[v].chain)
  BY DEF CHInv, ViewsSound, ViewSound, Held
<1> QED
  BY <1>1 DEF CHInv, HopsSound

LEMMA EncodeLengthStep ==
  ASSUME CHInv, NEW v \in Viewer, EncodeLength(v)
  PROVE  CHInv'
<1> DEFINE c == view[v].chain
           n == Len(hops[c])
           w == [at |-> "reading", chain |-> c, len |-> n, out |-> view[v].out]
<1>1. /\ view[v].at = "reading" /\ view' = [view EXCEPT ![v].len = n]
      /\ UNCHANGED <<chained, hops, job>>
  BY DEF EncodeLength
<1>2. /\ view[v] = [at |-> "reading", chain |-> c, len |-> view[v].len, out |-> view[v].out]
      /\ c \in Chain /\ EntryFirst(view[v].out)
  BY <1>1 DEF CHInv, ViewsSound, ViewSound, Reading
<1>3. Held(c) /\ EntryFirst(hops[c]) /\ n >= 2
  BY <1>1, ReadingHeld DEF Reading
<1>4. n \in Nat
  BY <1>3 DEF EntryFirst
<1>5. [view[v] EXCEPT !.len = n] = w
  BY <1>2
<1>6. view' = [view EXCEPT ![v] = w]
  BY <1>1, <1>5
<1>7. /\ w.at = "reading" /\ w.chain = c /\ w.len = n /\ w.out = view[v].out
      /\ w = [at |-> w.at, chain |-> w.chain, len |-> w.len, out |-> w.out]
  OBVIOUS
<1> HIDE DEF w, n, c
<1>8. ViewSound(w) /\ Held(w.chain)
  BY <1>2, <1>3, <1>4, <1>7 DEF ViewSound, Reading
<1> QED
  BY <1>1, <1>6, <1>8, ViewStep

(* The next hop of the list that is there now.                              *)
LEMMA EncodeHopStep ==
  ASSUME CHInv, NEW v \in Viewer, EncodeHop(v)
  PROVE  CHInv'
<1> DEFINE c == view[v].chain
           o == view[v].out
           list == hops[c]
           i == Len(o) + 1
           w == [at |-> "reading", chain |-> c, len |-> view[v].len, out |-> Append(o, list[i])]
<1>1. /\ view[v].at = "reading" /\ UNCHANGED <<chained, hops, job>>
      /\ view' = [view EXCEPT ![v] = IF i <= Len(list)
                                     THEN [view[v] EXCEPT !.out = Append(o, list[i])] ELSE NoView]
  BY DEF EncodeHop
<1>2. /\ view[v] = [at |-> "reading", chain |-> c, len |-> view[v].len, out |-> o]
      /\ c \in Chain /\ EntryFirst(o) /\ view[v].len \in Nat /\ view[v].len # 1
  BY <1>1 DEF CHInv, ViewsSound, ViewSound, Reading
<1>3. Held(c) /\ EntryFirst(list)
  BY <1>1, ReadingHeld DEF Reading
<1>4. [view[v] EXCEPT !.out = Append(o, list[i])] = w
  BY <1>2
<1>5. CASE i <= Len(list)
  <2>1. view' = [view EXCEPT ![v] = w]
    BY <1>1, <1>4, <1>5
  <2>2. /\ w.at = "reading" /\ w.chain = c /\ w.len = view[v].len /\ w.out = Append(o, list[i])
        /\ w = [at |-> w.at, chain |-> w.chain, len |-> w.len, out |-> w.out]
    OBVIOUS
  <2> HIDE DEF w, list, o, c
  <2>3. Len(o) \in Nat /\ Len(list) \in Nat /\ list \in Seq(Hop)
    BY <1>2, <1>3 DEF EntryFirst
  <2>4. i \in 1..Len(list)
    BY <1>5, <2>3
  <2>5. list[i] \in Hop /\ (list[i].hidden <=> Len(o) + 1 # 1)
    BY <1>3, <2>3, <2>4 DEF EntryFirst
  <2>6. EntryFirst(Append(o, list[i]))
    <3> HIDE DEF i
    <3> QED
      BY <1>2, <2>5, EntryAppended
  <2>7. ViewSound(w) /\ Held(w.chain)
    BY <1>2, <1>3, <2>2, <2>6 DEF ViewSound, Reading
  <2> QED
    BY <1>1, <2>1, <2>7, ViewStep
<1>6. CASE ~ (i <= Len(list))
  <2>1. view' = [view EXCEPT ![v] = NoView] /\ NoView.at = "idle"
    BY <1>1, <1>6 DEF NoView
  <2> QED
    BY <1>1, <2>1, ViewStep DEF ViewSound, Reading
<1> QED
  BY <1>5, <1>6

LEMMA EncodeEndStep ==
  ASSUME CHInv, NEW v \in Viewer, EncodeEnd(v)
  PROVE  CHInv'
<1> DEFINE w == [at |-> "answered", out |-> view[v].out]
<1>1. /\ view[v].at = "reading" /\ view[v].len > 0 /\ Len(view[v].out) = view[v].len
      /\ view' = [view EXCEPT ![v] = w] /\ UNCHANGED <<chained, hops, job>>
  BY DEF EncodeEnd
<1>2. EntryFirst(view[v].out) /\ view[v].len \in Nat /\ view[v].len # 1
  BY <1>1 DEF CHInv, ViewsSound, ViewSound, Reading
<1>3. Len(view[v].out) >= 2
  BY <1>1, <1>2
<1>4. w.at = "answered" /\ w.out = view[v].out
  OBVIOUS
<1> HIDE DEF w
<1>5. ViewSound(w) /\ ~ Reading(w)
  BY <1>2, <1>3, <1>4 DEF ViewSound, Reading
<1> QED
  BY <1>1, <1>5, ViewStep

LEMMA CHNextInv == ASSUME CHInv, [CHNext]_chVars PROVE CHInv'
<1>1. CASE UNCHANGED chVars
  BY <1>1, JobStep DEF chVars, CHInv
<1>2. ASSUME NEW c \in Chain, TestChain(c) PROVE CHInv'
  <2> DEFINE r == [op |-> "test", chain |-> c, next |-> 1]
  <2>1. job' = r /\ UNCHANGED <<chained, hops, view>>
    BY <1>2 DEF TestChain
  <2>2. /\ r.op = "test" /\ r.chain = c /\ r.next = 1
        /\ r = [op |-> r.op, chain |-> r.chain, next |-> r.next]
    OBVIOUS
  <2> HIDE DEF r
  <2>3. JobSound(r)
    BY <2>2 DEF JobSound
  <2> QED
    BY <2>1, <2>3, JobStep
<1>3. CASE NotFound \/ Tested
  BY <1>3, JobStep, NoJobSound DEF NotFound, Tested
<1>4. ASSUME NEW v \in Viewer, Read(v) PROVE CHInv'
  BY <1>4, GetChainStep, EncodeLengthStep, EncodeHopStep, EncodeEndStep DEF Read
<1>5. ASSUME NEW c \in Chain, \/ \E n \in 0..MaxHops : CreateChain(c, n) \/ UpdateChain(c, n)
                              \/ DeleteChain(c) \/ \E v \in Viewer : RestoreChains(c, v)
      PROVE  CHInv'
  BY <1>5, BeginStep, DeleteChainStep, RestoreStep
<1> QED
  BY <1>1, <1>2, <1>3, <1>4, <1>5, LookUpStep, BuiltStep, TestHopStep DEF CHNext

(* The public page shows of every chain the entry node alone, for any       *)
(* chains and lengths, also in an answer that is encoded while the chain is *)
(* rebuilt, tested, deleted or restored.                                    *)
THEOREM OnlyEntryPublic == CHSpec => []OnlyEntryShown
<1>1. ASSUME CHInv PROVE OnlyEntryShown
  <2>1. \A c \in chained : EntryOnly(hops[c])
    BY <1>1, EntryShown DEF CHInv, HopsSound, Held
  <2>2. \A v \in Viewer : view[v].at = "answered" => EntryOnly(view[v].out)
    BY <1>1, EntryShown DEF CHInv, ViewsSound, ViewSound
  <2> QED
    BY <2>1, <2>2 DEF OnlyEntryShown
<1>2. QED
  BY CHInitInv, CHNextInv, <1>1, PTL DEF CHSpec

-----------------------------------------------------------------------------
(* The types of chains.  A list is as long as was asked for, at most: also  *)
(* one that is built or sent.                                               *)
Short(list) == list \in Seq(Hop) /\ Len(list) <= MaxHops
JobShort(j) == j.op \in {"create", "update"} => j.len <= MaxHops /\ Len(j.built) <= j.len
ViewShort(w) == /\ Reading(w) => w.len <= MaxHops /\ Len(w.out) <= w.len
                /\ w.at = "answered" => Len(w.out) <= MaxHops

AllShort == \A c \in Chain : Short(hops[c])
CHTyped == AllShort /\ JobShort(job) /\ \A v \in Viewer : ViewShort(view[v])

LEMMA CHTypes == CHInv /\ CHTyped => CHTypeOK
<1> SUFFICES ASSUME CHInv, CHTyped PROVE CHTypeOK
  OBVIOUS
<1>1. ASSUME NEW c \in Chain
      PROVE  /\ DOMAIN hops[c] = 1..Len(hops[c]) /\ Len(hops[c]) <= MaxHops
             /\ \A i \in DOMAIN hops[c] : hops[c][i] \in [tested : BOOLEAN, hidden : BOOLEAN]
  <2>1. hops[c] \in Seq(Hop) /\ Len(hops[c]) <= MaxHops
    BY DEF CHTyped, AllShort, Short
  <2>2. DOMAIN hops[c] = 1..Len(hops[c]) /\ \A i \in 1..Len(hops[c]) : hops[c][i] \in Hop
    BY <2>1
  <2> QED
    BY <2>1, <2>2 DEF Hop
<1> QED
  BY <1>1 DEF CHInv, CHTypeOK

LEMMA CHInitTyped == CHInit => CHTyped
<1> SUFFICES ASSUME CHInit PROVE CHTyped
  OBVIOUS
<1> DEFINE sample == [i \in 1..3 |-> [tested |-> FALSE, hidden |-> i # 1]]
<1>1. \A i \in 1..3 : [tested |-> FALSE, hidden |-> i # 1] \in Hop
  BY DEF Hop
<1>2. Short(sample)
  BY <1>1, ChainLimits DEF Short
<1>3. Short(<<>>)
  BY ChainLimits DEF Short
<1>4. /\ hops = [c \in Chain |-> IF c # SampleChain THEN <<>> ELSE sample]
      /\ job.op = "none" /\ \A v \in Viewer : view[v].at = "idle"
  BY DEF CHInit, NoJob, NoView
<1> HIDE DEF sample
<1> QED
  BY <1>2, <1>3, <1>4 DEF CHTyped, AllShort, JobShort, ViewShort, Reading

LEMMA HopTestedShort ==
  ASSUME NEW l, Short(l), NEW n \in 1..Len(l)
  PROVE  Short([l EXCEPT ![n].tested = TRUE])
<1> DEFINE h == [l[n] EXCEPT !.tested = TRUE]
<1>1. l \in Seq(Hop) /\ l[n] \in Hop
  BY DEF Short
<1>2. h \in Hop
  BY <1>1, HopTested
<1>3. [l EXCEPT ![n].tested = TRUE] = [l EXCEPT ![n] = h]
  OBVIOUS
<1> HIDE DEF h
<1>4. [l EXCEPT ![n] = h] \in Seq(Hop) /\ Len([l EXCEPT ![n] = h]) = Len(l)
  BY <1>1, <1>2
<1> QED
  BY <1>3, <1>4 DEF Short

(* One chain's list is replaced by another short one.                       *)
LEMMA HopsShort ==
  ASSUME CHInv, CHTyped, NEW c \in Chain, NEW l, Short(l), hops' = [hops EXCEPT ![c] = l]
  PROVE  AllShort'
<1>1. \A b \in Chain : hops'[b] = IF b = c THEN l ELSE hops[b]
  BY DEF CHInv, HopsSound
<1> QED
  BY <1>1 DEF CHTyped, AllShort, Short

LEMMA HopsNextShort == ASSUME CHInv, CHTyped, [CHNext]_chVars PROVE AllShort'
<1>1. CASE UNCHANGED hops
  BY <1>1 DEF CHTyped, AllShort, Short
<1>2. CASE Created \/ HopsReplaced
  <2>1. /\ job.op \in {"create", "update"} /\ Len(job.built) = job.len
        /\ hops' = [hops EXCEPT ![job.chain] = job.built]
    BY <1>2 DEF Created, HopsReplaced, Built, Building
  <2>2. job.chain \in Chain /\ job.built \in Seq(Hop) /\ job.len <= MaxHops
    BY <2>1 DEF CHInv, JobSound, EntryFirst, CHTyped, JobShort
  <2>3. Short(job.built)
    BY <2>1, <2>2 DEF Short
  <2> QED
    BY <2>1, <2>2, <2>3, HopsShort
<1>3. CASE TestHop
  <2> DEFINE d == job.chain
             n == job.next
             list == [hops[d] EXCEPT ![n].tested = TRUE]
  <2>1. job.op = "test" /\ n <= Len(hops[d]) /\ hops' = [hops EXCEPT ![d] = list]
    BY <1>3 DEF TestHop
  <2>2. d \in Chain /\ n \in Nat \ {0} /\ Short(hops[d])
    BY <2>1 DEF CHInv, JobSound, CHTyped, AllShort
  <2>3. n \in 1..Len(hops[d])
    <3>1. Len(hops[d]) \in Nat
      BY <2>2 DEF Short
    <3> QED
      BY <2>1, <2>2, <3>1
  <2> HIDE DEF d, n
  <2>4. Short(list)
    BY <2>2, <2>3, HopTestedShort
  <2> HIDE DEF list
  <2> QED
    BY <2>1, <2>2, <2>4, HopsShort
<1>4. ASSUME NEW c \in Chain, NEW v \in Viewer, RestoreChains(c, v) PROVE AllShort'
  <2>1. view[v].at = "answered" /\ hops' = [hops EXCEPT ![c] = view[v].out]
    BY <1>4 DEF RestoreChains
  <2>2. Short(view[v].out)
    BY <2>1 DEF CHInv, ViewsSound, ViewSound, EntryFirst, CHTyped, ViewShort, Short
  <2> QED
    BY <2>1, <2>2, HopsShort
<1>5. ASSUME NEW c \in Chain, \/ \E n \in 0..MaxHops : CreateChain(c, n) \/ UpdateChain(c, n)
                              \/ TestChain(c) \/ DeleteChain(c)
      PROVE  UNCHANGED hops
  BY <1>5 DEF CreateChain, UpdateChain, TestChain, DeleteChain
<1>6. ASSUME NEW v \in Viewer, Read(v) PROVE UNCHANGED hops
  BY <1>6 DEF Read, GetChain, EncodeLength, EncodeHop, EncodeEnd
<1>7. CASE LookUp \/ NotFound \/ Tested \/ UNCHANGED chVars
  BY <1>1, <1>7 DEF LookUp, NotFound, Tested, chVars
<1> QED
  BY <1>1, <1>2, <1>3, <1>4, <1>5, <1>6, <1>7 DEF CHNext

LEMMA JobNextShort == ASSUME CHInv, CHTyped, [CHNext]_chVars PROVE JobShort(job')
<1>1. CASE UNCHANGED job
  BY <1>1 DEF CHTyped
<1>2. ASSUME NEW c \in Chain, NEW n \in 0..MaxHops, CreateChain(c, n) \/ UpdateChain(c, n)
      PROVE  JobShort(job')
  <2>1. job'.len = n /\ job'.built = <<>> /\ Len(<<>>) = 0
    BY <1>2 DEF CreateChain, UpdateChain
  <2> QED
    BY <2>1, ChainLimits DEF JobShort
<1>3. CASE LookUp
  <2> DEFINE b == job.built
             h == NextHop(Len(b) + 1, job.len)
  <2>1. /\ job.op \in {"create", "update"} /\ Len(b) < job.len
        /\ job' = [job EXCEPT !.built = Append(b, h)]
    BY <1>3 DEF LookUp, Building
  <2>2. /\ job = [op |-> job.op, chain |-> job.chain, len |-> job.len, built |-> b]
        /\ job.len \in Nat /\ EntryFirst(b) /\ job.len <= MaxHops
    BY <2>1 DEF CHInv, JobSound, CHTyped, JobShort
  <2>3. h \in Hop
    BY DEF NextHop, Hop
  <2> HIDE DEF h
  <2>4. job'.len = job.len /\ job'.built = Append(b, h)
    BY <2>1, <2>2
  <2>5. Len(Append(b, h)) = Len(b) + 1 /\ Len(b) \in Nat
    BY <2>2, <2>3 DEF EntryFirst
  <2> QED
    BY <2>1, <2>2, <2>4, <2>5 DEF JobShort
<1>4. CASE TestHop
  <2>1. job.op = "test" /\ job' = [job EXCEPT !.next = job.next + 1]
    BY <1>4 DEF TestHop
  <2>2. job = [op |-> job.op, chain |-> job.chain, next |-> job.next]
    BY <2>1 DEF CHInv, JobSound
  <2>3. job'.op = "test"
    BY <2>1, <2>2
  <2> QED
    BY <2>3 DEF JobShort
<1>5. CASE job' = NoJob \/ \E c \in Chain : TestChain(c)
  <2>1. job'.op \in {"none", "test"}
    BY <1>5 DEF NoJob, TestChain
  <2> QED
    BY <2>1 DEF JobShort
<1>6. CASE NotFound \/ Tested \/ Created \/ HopsReplaced
  BY <1>5, <1>6 DEF NotFound, Tested, Created, HopsReplaced
<1>7. ASSUME NEW v \in Viewer, Read(v) \/ \E c \in Chain : RestoreChains(c, v)
      PROVE  UNCHANGED job
  BY <1>7 DEF Read, GetChain, EncodeLength, EncodeHop, EncodeEnd, RestoreChains
<1>8. ASSUME NEW c \in Chain, DeleteChain(c) PROVE UNCHANGED job
  BY <1>8 DEF DeleteChain
<1>9. CASE UNCHANGED chVars
  BY <1>1, <1>9 DEF chVars
<1> QED
  BY <1>1, <1>2, <1>3, <1>4, <1>5, <1>6, <1>7, <1>8, <1>9 DEF CHNext

LEMMA ViewsNextShort ==
  ASSUME CHInv, CHTyped, [CHNext]_chVars, NEW u \in Viewer
  PROVE  ViewShort(view'[u])
<1>1. CASE UNCHANGED view
  BY <1>1 DEF CHTyped
<1>2. ASSUME NEW v \in Viewer, NEW w, view' = [view EXCEPT ![v] = w], ViewShort(w)
      PROVE  ViewShort(view'[u])
  BY <1>2 DEF CHInv, ViewsSound, CHTyped
<1>3. ASSUME NEW v \in Viewer, NEW c \in Chain, GetChain(v, c) PROVE ViewShort(view'[u])
  <2> DEFINE w == [at |-> "reading", chain |-> c, len |-> 0, out |-> <<>>]
  <2>1. w.at = "reading" /\ w.len = 0 /\ w.out = <<>> /\ Len(<<>>) = 0
    OBVIOUS
  <2>2. view' = [view EXCEPT ![v] = w]
    BY <1>3 DEF GetChain
  <2> HIDE DEF w
  <2>3. ViewShort(w)
    BY <2>1, ChainLimits DEF ViewShort
  <2> QED
    BY <1>2, <2>2, <2>3
<1>4. ASSUME NEW v \in Viewer, EncodeLength(v) PROVE ViewShort(view'[u])
  <2> DEFINE c == view[v].chain
             n == Len(hops[c])
             w == [view[v] EXCEPT !.len = n]
  <2>1. view[v].at = "reading" /\ view[v].len = 0 /\ view' = [view EXCEPT ![v] = w]
    BY <1>4 DEF EncodeLength
  <2>2. /\ view[v] = [at |-> "reading", chain |-> c, len |-> view[v].len, out |-> view[v].out]
        /\ c \in Chain /\ EntryFirst(view[v].out) /\ Len(view[v].out) <= 0
    BY <2>1 DEF CHInv, ViewsSound, ViewSound, Reading, CHTyped, ViewShort
  <2>3. n \in Nat /\ n <= MaxHops /\ Len(view[v].out) \in Nat
    BY <2>2 DEF CHTyped, AllShort, Short, EntryFirst
  <2>4. w.at = "reading" /\ w.len = n /\ w.out = view[v].out
    BY <2>2
  <2> HIDE DEF w, n
  <2>5. ViewShort(w)
    BY <2>2, <2>3, <2>4 DEF ViewShort
  <2> QED
    BY <1>2, <2>1, <2>5
<1>5. ASSUME NEW v \in Viewer, EncodeHop(v) PROVE ViewShort(view'[u])
  <2> DEFINE c == view[v].chain
             o == view[v].out
             i == Len(o) + 1
             x == Append(o, hops[c][i])
             w == [view[v] EXCEPT !.out = x]
  <2>1. /\ view[v].at = "reading" /\ Len(o) < view[v].len
        /\ view' = [view EXCEPT ![v] = IF i <= Len(hops[c]) THEN w ELSE NoView]
    BY <1>5 DEF EncodeHop
  <2>2. /\ view[v] = [at |-> "reading", chain |-> c, len |-> view[v].len, out |-> o]
        /\ EntryFirst(o) /\ view[v].len \in Nat /\ view[v].len <= MaxHops /\ c \in Chain
    BY <2>1 DEF CHInv, ViewsSound, ViewSound, Reading, CHTyped, ViewShort
  <2>3. CASE i <= Len(hops[c])
    <3>1. Len(o) \in Nat /\ hops[c] \in Seq(Hop) /\ o \in Seq(Hop)
      BY <2>2 DEF EntryFirst, CHTyped, AllShort, Short
    <3>2. Len(x) = Len(o) + 1
      BY <2>3, <3>1
    <3>3. w.at = "reading" /\ w.len = view[v].len /\ w.out = x
      BY <2>2
    <3>4. view' = [view EXCEPT ![v] = w]
      BY <2>1, <2>3
    <3> HIDE DEF w, x
    <3>5. ViewShort(w)
      BY <2>1, <2>2, <3>1, <3>2, <3>3 DEF ViewShort
    <3> QED
      BY <1>2, <3>4, <3>5
  <2>4. CASE ~ (i <= Len(hops[c]))
    <3>1. view' = [view EXCEPT ![v] = NoView] /\ NoView.at = "idle"
      BY <2>1, <2>4 DEF NoView
    <3>2. ViewShort(NoView)
      BY <3>1 DEF ViewShort, Reading
    <3> QED
      BY <1>2, <3>1, <3>2
  <2> QED
    BY <2>3, <2>4
<1>6. ASSUME NEW v \in Viewer, EncodeEnd(v) PROVE ViewShort(view'[u])
  <2> DEFINE w == [at |-> "answered", out |-> view[v].out]
  <2>1. /\ view[v].at = "reading" /\ Len(view[v].out) = view[v].len
        /\ view' = [view EXCEPT ![v] = w]
    BY <1>6 DEF EncodeEnd
  <2>2. w.at = "answered" /\ w.out = view[v].out
    OBVIOUS
  <2> HIDE DEF w
  <2>3. ViewShort(w)
    BY <2>1, <2>2 DEF CHTyped, ViewShort, Reading
  <2> QED
    BY <1>2, <2>1, <2>3
<1>7. ASSUME NEW c \in Chain, \/ \E n \in 0..MaxHops : CreateChain(c, n) \/ UpdateChain(c, n)
                              \/ TestChain(c) \/ DeleteChain(c)
                              \/ \E v \in Viewer : RestoreChains(c, v)
      PROVE  UNCHANGED view
  BY <1>7 DEF CreateChain, UpdateChain, TestChain, DeleteChain, RestoreChains
<1>8. CASE \/ LookUp \/ NotFound \/ Created \/ HopsReplaced \/ TestHop \/ Tested
           \/ UNCHANGED chVars
  BY <1>1, <1>8 DEF LookUp, NotFound, Created, HopsReplaced, TestHop, Tested, chVars
<1> QED
  BY <1>1, <1>3, <1>4, <1>5, <1>6, <1>7, <1>8 DEF CHNext, Read

LEMMA CHNextTyped == ASSUME CHInv, CHTyped, [CHNext]_chVars PROVE CHTyped'
BY HopsNextShort, JobNextShort, ViewsNextShort DEF CHTyped

(* Chains are lists of at most as many hops as servers were asked for.      *)
THEOREM CHTypeCorrect == CHSpec => []CHTypeOK
BY CHInitInv, CHNextInv, CHInitTyped, CHNextTyped, CHTypes, PTL DEF CHSpec

-----------------------------------------------------------------------------
(* The audit trail.  AuditTrail is about requests that have ended; the      *)
(* invariant adds which routes are at which step, that a request which      *)
(* failed is answered as such, and where in what was noted the trail begins.*)
Noting(a) == Audited(a) \/ a.route = "login"

PhasesSound ==
  /\ DOMAIN phase = Request /\ DOMAIN ask = Request
  /\ \A r \in Request :
       /\ phase[r] \in {"verify", "login"} => ask[r].route = "login"
       /\ phase[r] \in {"auth", "handle", "respond"} => ask[r].route # "login"
       /\ phase[r] = "set" => ask[r].route = "change"
       /\ r \in failed => phase[r] \in {"respond", "done"}

Through(r) == r \notin failed /\ phase[r] = "done" /\ Noting(ask[r])
NotedThrough ==
  /\ noted \in Seq(Request)
  /\ \A r \in Request : Through(r) <=> \E i \in 1..Len(noted) : noted[i] = r
NotedOnce == \A i, j \in 1..Len(noted) : noted[i] = noted[j] => i = j

(* The trail is the end of what was noted.                                  *)
NewestKept ==
  /\ audit \in Seq(Request)
  /\ Len(audit) = IF Len(noted) <= MaxAudit THEN Len(noted) ELSE MaxAudit
  /\ \A j \in 1..Len(audit) : audit[j] = noted[Len(noted) - Len(audit) + j]

AUInv == PhasesSound /\ NotedThrough /\ NotedOnce /\ NewestKept

LEMMA AUInitInv == AUInit => AUInv
BY AuditAssumption DEF AUInit, AUInv, PhasesSound, NotedThrough, NotedOnce, NewestKept, Through, NoAsk

(* A request goes on, or ends in a way that is not noted.                   *)
LEMMA UnnotedStep ==
  ASSUME AUInv, NEW r \in Request, NEW p, phase' = [phase EXCEPT ![r] = p],
         DOMAIN ask' = Request, \A q \in Request : q # r => ask'[q] = ask[q],
         \A q \in Request : q # r => (q \in failed' <=> q \in failed),
         phase[r] # "done",
         p = "done" => r \in failed' \/ ~ Noting(ask'[r]),
         p \in {"verify", "login"} => ask'[r].route = "login",
         p \in {"auth", "handle", "respond"} => ask'[r].route # "login",
         p = "set" => ask'[r].route = "change",
         r \in failed' => p \in {"respond", "done"},
         UNCHANGED <<audit, noted>>
  PROVE  AUInv'
<1>1. /\ DOMAIN phase' = Request /\ phase'[r] = p
      /\ \A q \in Request : q # r => phase'[q] = phase[q]
  BY DEF AUInv, PhasesSound
<1>2. PhasesSound'
  BY <1>1 DEF AUInv, PhasesSound
<1>3. \A q \in Request : Through(q)' <=> Through(q)
  BY <1>1 DEF Through
<1>4. NotedThrough'
  BY <1>3 DEF AUInv, NotedThrough
<1> QED
  BY <1>2, <1>4 DEF AUInv, NotedOnce, NewestKept

LEMMA TrimmedEnd ==
  ASSUME NEW s \in Seq(Request), Len(s) <= MaxAudit, NEW r \in Request
  PROVE  LET t == Trimmed(Append(s, r))
         IN /\ t \in Seq(Request)
            /\ Len(t) = IF Len(s) < MaxAudit THEN Len(s) + 1 ELSE MaxAudit
            /\ t[Len(t)] = r
            /\ \A j \in 1..(Len(t) - 1) : t[j] = s[Len(s) + 1 - Len(t) + j]
<1> DEFINE a == Append(s, r)
           n == Len(s) + 1
<1>1. /\ a \in Seq(Request) /\ Len(s) \in Nat /\ Len(a) = n
      /\ a[n] = r /\ \A j \in 1..Len(s) : a[j] = s[j]
  OBVIOUS
<1>2. MaxAudit \in Nat \ {0}
  BY AuditAssumption
<1> HIDE DEF a
<1>3. CASE Len(s) < MaxAudit
  <2>1. Trimmed(a) = a
    BY <1>1, <1>2, <1>3 DEF Trimmed
  <2> QED
    BY <1>1, <1>2, <1>3, <2>1 DEF a
<1>4. CASE Len(s) = MaxAudit
  <2> DEFINE t == SubSeq(a, 2, n)
  <2>1. Trimmed(a) = t
    BY <1>1, <1>2, <1>4 DEF Trimmed
  <2>2. t \in Seq(Request) /\ Len(t) = MaxAudit /\ \A j \in 1..MaxAudit : t[j] = a[j + 1]
    BY <1>1, <1>2, <1>4
  <2> HIDE DEF t
  <2>3. t[MaxAudit] = r
    BY <1>1, <1>2, <1>4, <2>2
  <2>4. \A j \in 1..(MaxAudit - 1) : t[j] = s[1 + j]
    BY <1>1, <1>2, <1>4, <2>2
  <2> QED
    BY <1>2, <1>4, <2>1, <2>2, <2>3, <2>4 DEF a
<1> QED
  BY <1>1, <1>2, <1>3, <1>4

(* A request ends and is noted.                                             *)
LEMMA NotedStep ==
  ASSUME AUInv, NEW r \in Request, phase[r] # "done", phase' = [phase EXCEPT ![r] = "done"],
         r \notin failed, Noting(ask[r]), Audit(r), UNCHANGED <<ask, failed>>
  PROVE  AUInv'
<1>1. audit' = Trimmed(Append(audit, r)) /\ noted' = Append(noted, r)
  BY DEF Audit
<1>2. /\ audit \in Seq(Request) /\ noted \in Seq(Request) /\ MaxAudit \in Nat \ {0}
      /\ Len(audit) \in Nat /\ Len(noted) \in Nat /\ Len(audit) <= MaxAudit
  BY AuditAssumption DEF AUInv, NotedThrough, NewestKept
<1>3. /\ noted' \in Seq(Request) /\ Len(noted') = Len(noted) + 1 /\ noted'[Len(noted) + 1] = r
      /\ \A i \in 1..Len(noted) : noted'[i] = noted[i]
  BY <1>1, <1>2
<1>4. /\ audit' \in Seq(Request)
      /\ Len(audit') = IF Len(audit) < MaxAudit THEN Len(audit) + 1 ELSE MaxAudit
      /\ audit'[Len(audit')] = r
      /\ \A j \in 1..(Len(audit') - 1) : audit'[j] = audit[Len(audit) + 1 - Len(audit') + j]
  BY <1>1, <1>2, TrimmedEnd
<1>5. /\ DOMAIN phase' = Request /\ phase'[r] = "done"
      /\ \A q \in Request : q # r => phase'[q] = phase[q]
  BY DEF AUInv, PhasesSound
<1>6. PhasesSound'
  BY <1>5 DEF AUInv, PhasesSound
<1>7. \A i \in 1..Len(noted) : noted[i] # r
  BY DEF AUInv, NotedThrough, Through
<1>8. NotedThrough'
  <2> SUFFICES ASSUME NEW q \in Request
               PROVE  Through(q)' <=> \E i \in 1..Len(noted') : noted'[i] = q
    BY <1>3 DEF NotedThrough
  <2>1. CASE q = r
    BY <1>2, <1>3, <1>5, <2>1 DEF Through, Noting
  <2>2. CASE q # r
    <3>1. Through(q)' <=> Through(q)
      BY <1>5, <2>2 DEF Through
    <3>2. (\E i \in 1..Len(noted') : noted'[i] = q) <=> (\E i \in 1..Len(noted) : noted[i] = q)
      BY <1>2, <1>3, <2>2
    <3> QED
      BY <3>1, <3>2 DEF AUInv, NotedThrough
  <2> QED
    BY <2>1, <2>2
<1>9. NotedOnce'
  BY <1>2, <1>3, <1>7 DEF AUInv, NotedOnce
<1>10. NewestKept'
  <2>1. Len(audit) = IF Len(noted) <= MaxAudit THEN Len(noted) ELSE MaxAudit
    BY DEF AUInv, NewestKept
  <2>2. Len(audit') = IF Len(noted') <= MaxAudit THEN Len(noted') ELSE MaxAudit
    BY <1>2, <1>3, <1>4, <2>1
  <2> DEFINE m == Len(audit)
             n == Len(noted)
             l == Len(audit')
  <2>3. /\ m \in Nat /\ n \in Nat /\ l \in Nat /\ Len(noted') = n + 1
        /\ m = IF n <= MaxAudit THEN n ELSE MaxAudit
        /\ l = IF m < MaxAudit THEN m + 1 ELSE MaxAudit
    BY <1>2, <1>3, <1>4, <2>1
  <2>4. ASSUME NEW j \in 1..l
        PROVE  audit'[j] = noted'[(n + 1) - l + j]
    <3>1. CASE j = l
      <4>1. (n + 1) - l + j = n + 1
        BY <2>3, <3>1
      <4> QED
        BY <1>3, <1>4, <3>1, <4>1
    <3>2. CASE j # l
      <4> DEFINE k == m + 1 - l + j
                 i == n - m + k
      <4> HIDE DEF m, n, l
      <4>1. /\ j \in 1..(l - 1) /\ k \in 1..m /\ i \in 1..n
            /\ i = (n + 1) - l + j
        BY <1>2, <2>3, <3>2
      <4> HIDE DEF i, k
      <4>2. audit'[j] = audit[k] /\ audit[k] = noted[i] /\ noted'[i] = noted[i]
        <5>1. audit'[j] = audit[k]
          BY <1>4, <4>1 DEF k, l, m
        <5>2. audit[k] = noted[i]
          BY <4>1 DEF i, m, n, AUInv, NewestKept
        <5> QED
          BY <1>3, <4>1, <5>1, <5>2 DEF n
      <4> QED
        BY <4>1, <4>2
    <3> QED
      BY <3>1, <3>2
  <2> QED
    BY <1>4, <2>2, <2>3, <2>4 DEF NewestKept
<1> QED
  BY <1>6, <1>8, <1>9, <1>10 DEF AUInv

LEMMA AUAtRest == ASSUME AUInv, UNCHANGED auVars PROVE AUInv'
BY DEF auVars, AUInv, PhasesSound, NotedThrough, NotedOnce, NewestKept, Through

LEMMA RefuseStep ==
  ASSUME AUInv, NEW r \in Request, NEW from \in {"auth", "verify", "handle"}, Refuse(r, from)
  PROVE  AUInv'
<1>1. /\ phase[r] = from /\ phase' = [phase EXCEPT ![r] = "done"] /\ failed' = failed \cup {r}
      /\ UNCHANGED <<ask, audit, noted>>
  BY DEF Refuse, Goes
<1> QED
  BY <1>1, UnnotedStep DEF AUInv, PhasesSound

(* Writes that did not fail, and logins, are noted as they end.             *)
LEMMA AuditLogStep ==
  ASSUME AUInv, NEW r \in Request, AuditLog(r)
  PROVE  AUInv'
<1>1. /\ phase[r] = "respond" /\ phase' = [phase EXCEPT ![r] = "done"]
      /\ UNCHANGED <<ask, failed>>
  BY DEF AuditLog, Goes
<1>2. CASE Audited(ask[r]) /\ r \notin failed
  <2>1. Audit(r) /\ Noting(ask[r])
    BY <1>2 DEF AuditLog, Noting
  <2> QED
    BY <1>1, <1>2, <2>1, NotedStep
<1>3. CASE ~ (Audited(ask[r]) /\ r \notin failed)
  <2>1. UNCHANGED <<audit, noted>>
    BY <1>3 DEF AuditLog
  <2>2. ask[r].route # "login"
    BY <1>1 DEF AUInv, PhasesSound
  <2> QED
    BY <1>1, <1>3, <2>1, <2>2, UnnotedStep DEF AUInv, PhasesSound, Noting
<1> QED
  BY <1>2, <1>3

LEMMA LoginStep == ASSUME AUInv, NEW r \in Request, Login(r) PROVE AUInv'
<1>1. /\ phase[r] = "login" /\ phase' = [phase EXCEPT ![r] = "done"]
      /\ Audit(r) /\ UNCHANGED <<ask, failed>>
  BY DEF Login, Goes
<1>2. r \notin failed /\ Noting(ask[r])
  BY <1>1 DEF AUInv, PhasesSound, Noting
<1> QED
  BY <1>1, <1>2, NotedStep

(* Requests on their way to an answer.                                      *)
LEMMA AskStep ==
  ASSUME AUInv, NEW r \in Request, NEW a \in Ask, Send(r, a)
  PROVE  AUInv'
<1> DEFINE p == IF a.route = "login" THEN "verify" ELSE "auth"
<1>1. /\ phase[r] = "unsent" /\ phase' = [phase EXCEPT ![r] = p]
      /\ ask' = [ask EXCEPT ![r] = a] /\ UNCHANGED <<audit, failed, noted>>
  BY DEF Send, Goes
<1>2. /\ DOMAIN ask' = Request /\ ask'[r] = a /\ r \notin failed
      /\ \A q \in Request : q # r => ask'[q] = ask[q]
  BY <1>1 DEF AUInv, PhasesSound
<1> QED
  BY <1>1, <1>2, UnnotedStep

LEMMA HandlerStep ==
  ASSUME AUInv, NEW r \in Request,
         Handled(r) \/ RevokeToken(r) \/ \E v \in ApiToken : CreateToken(r, v)
  PROVE  AUInv'
<1>1. /\ phase[r] = "handle" /\ phase' = [phase EXCEPT ![r] = "respond"]
      /\ UNCHANGED <<ask, audit, noted>>
  BY DEF Handled, RevokeToken, CreateToken, Goes
<1>2. failed' = failed \/ failed' = failed \cup {r}
  BY DEF Handled, RevokeToken, CreateToken
<1>3. ask[r].route # "login"
  BY <1>1 DEF AUInv, PhasesSound
<1> QED
  BY <1>1, <1>2, <1>3, UnnotedStep DEF AUInv, PhasesSound

LEMMA GuardStep ==
  ASSUME AUInv, NEW r \in Request, AuthRequired(r) \/ VerifyPassword(r) \/ ComparePassword(r)
  PROVE  AUInv'
<1>1. CASE \E from \in {"auth", "verify", "handle"} : Refuse(r, from)
  BY <1>1, RefuseStep
<1>2. CASE ~ \E from \in {"auth", "verify", "handle"} : Refuse(r, from)
  <2>1. /\ \/ Goes(r, "auth", "handle")
           \/ Goes(r, "verify", "login")
           \/ Goes(r, "handle", "set") /\ ask[r].route = "change"
        /\ UNCHANGED <<ask, audit, failed, noted>>
    BY <1>2 DEF AuthRequired, VerifyPassword, ComparePassword
  <2>2. PICK from \in {"auth", "verify", "handle"}, p \in {"handle", "login", "set"} :
          /\ phase[r] = from /\ phase' = [phase EXCEPT ![r] = p]
          /\ p = "handle" => from = "auth"
          /\ p = "login" => from = "verify"
          /\ p = "set" => ask[r].route = "change"
    BY <2>1 DEF Goes
  <2>3. r \notin failed
    BY <2>2 DEF AUInv, PhasesSound
  <2>4. /\ p = "handle" => ask[r].route # "login"
        /\ p = "login" => ask[r].route = "login"
    BY <2>2 DEF AUInv, PhasesSound
  <2> QED
    BY <2>1, <2>2, <2>3, <2>4, UnnotedStep DEF AUInv, PhasesSound
<1> QED
  BY <1>1, <1>2

(* A change of the password is not noted.                                   *)
LEMMA SetPasswordStep == ASSUME AUInv, NEW r \in Request, SetPassword(r) PROVE AUInv'
<1>1. /\ phase[r] = "set" /\ phase' = [phase EXCEPT ![r] = "done"]
      /\ UNCHANGED <<ask, audit, failed, noted>>
  BY DEF SetPassword, Goes
<1>2. ~ Noting(ask[r])
  BY <1>1 DEF AUInv, PhasesSound, Noting, Audited
<1> QED
  BY <1>1, <1>2, UnnotedStep DEF AUInv, PhasesSound

LEMMA AUNextInv == ASSUME AUInv, [AUNext]_auVars PROVE AUInv'
<1>1. CASE UNCHANGED auVars \/ Quiet
  BY <1>1, AUAtRest DEF Quiet
<1>2. ASSUME NEW r \in Request, AdminRoute(r) PROVE AUInv'
  BY <1>2, GuardStep, HandlerStep, AuditLogStep DEF AdminRoute
<1> QED
  BY <1>1, <1>2, AskStep, GuardStep, LoginStep, SetPasswordStep DEF AUNext

(* The trail "records mutating admin requests after they complete           *)
(* successfully" (audit.go:8) and logins, once each and the newest of them, *)
(* for any requests, lengths of the trail and orders of their steps.        *)
THEOREM TrailComplete == AUSpec => []AuditTrail
<1>1. ASSUME AUInv PROVE AuditTrail
  <2>1. DOMAIN noted = 1..Len(noted) /\ Len(noted) \in Nat
    BY <1>1 DEF AUInv, NotedThrough
  <2>2. DOMAIN audit = 1..Len(audit) /\ Len(audit) \in Nat
    BY <1>1 DEF AUInv, NewestKept
  <2>3. \A r \in Request :
          (/\ r \notin failed /\ phase[r] = "done"
           /\ Audited(ask[r]) \/ ask[r].route = "login")
            <=> \E i \in DOMAIN noted : noted[i] = r
    BY <1>1, <2>1 DEF AUInv, NotedThrough, Through, Noting
  <2>4. \A i, j \in DOMAIN noted : noted[i] = noted[j] => i = j
    BY <1>1, <2>1 DEF AUInv, NotedOnce
  <2>5. ASSUME NEW i \in DOMAIN noted
        PROVE  i > Len(noted) - MaxAudit <=> \E j \in DOMAIN audit : audit[j] = noted[i]
    <3> DEFINE m == Len(audit)
               n == Len(noted)
    <3>1. /\ i \in 1..n /\ m \in Nat /\ n \in Nat /\ MaxAudit \in Nat
          /\ m = IF n <= MaxAudit THEN n ELSE MaxAudit
      BY <1>1, <2>1, <2>2, AuditAssumption DEF AUInv, NewestKept
    <3>2. \A j \in 1..m : audit[j] = noted[n - m + j]
      BY <1>1 DEF AUInv, NewestKept
    <3>3. \A k, l \in 1..n : noted[k] = noted[l] => k = l
      BY <1>1 DEF AUInv, NotedOnce
    <3> HIDE DEF m, n
    <3>4. ASSUME i > n - MaxAudit PROVE \E j \in 1..m : audit[j] = noted[i]
      <4> DEFINE j == i - (n - m)
      <4>1. j \in 1..m /\ n - m + j = i
        BY <3>1, <3>4
      <4> HIDE DEF j
      <4> QED
        BY <3>2, <4>1
    <3>5. ASSUME NEW j \in 1..m, audit[j] = noted[i] PROVE i > n - MaxAudit
      <4>1. n - m + j \in 1..n
        BY <3>1
      <4>2. i = n - m + j
        BY <3>1, <3>2, <3>3, <3>5, <4>1
      <4> QED
        BY <3>1, <4>2
    <3> QED
      BY <2>2, <3>4, <3>5 DEF m, n
  <2> QED
    BY <2>3, <2>4, <2>5 DEF AuditTrail
<1>2. QED
  BY AUInitInv, AUNextInv, <1>1, PTL DEF AUSpec


-----------------------------------------------------------------------------
(* The types of account and tokens: a value is stored once, since it was    *)
(* not drawn before, and a password that is set was asked for.              *)
ChangesTyped == \A r \in Request : ask[r].route = "change" => ask[r].new \in Password
ValuesOnce == \A t, u \in apiTokens : t.value \in drawn /\ (t.value = u.value => t = u)
AUTyped == password \in Password /\ ChangesTyped /\ ValuesOnce /\ failed \subseteq Request

LEMMA AUTypes == AUInv /\ AUTyped => AUTypeOK
<1> SUFFICES ASSUME AUInv, AUTyped PROVE AUTypeOK
  OBVIOUS
<1>1. Len(audit) <= MaxAudit
  <2>1. noted \in Seq(Request) /\ Len(noted) \in Nat /\ MaxAudit \in Nat
    BY AuditAssumption DEF AUInv, NotedThrough
  <2> QED
    BY <2>1 DEF AUInv, NewestKept
<1> QED
  BY <1>1 DEF AUTyped, ValuesOnce, AUTypeOK

LEMMA AUInitTyped == AUInit => AUTyped
BY PasswordAssumption DEF AUInit, NoAsk, AUTyped, ChangesTyped, ValuesOnce

LEMMA ChangeAsked == ASSUME AUInv, AUTyped, [AUNext]_auVars PROVE ChangesTyped'
<1>1. CASE UNCHANGED ask
  BY <1>1 DEF AUTyped, ChangesTyped
<1>2. ASSUME NEW r \in Request, NEW a \in Ask, Send(r, a) PROVE ChangesTyped'
  <2>1. a.route = "change" => a.new \in Password
    BY DEF Ask
  <2>2. DOMAIN ask = Request /\ ask' = [ask EXCEPT ![r] = a]
    BY <1>2 DEF Send, AUInv, PhasesSound
  <2> QED
    BY <2>1, <2>2 DEF AUTyped, ChangesTyped
<1>3. ASSUME NEW r \in Request, \/ AdminRoute(r) \/ VerifyPassword(r) \/ Login(r)
                                \/ ComparePassword(r) \/ SetPassword(r)
      PROVE  UNCHANGED ask
  BY <1>3 DEF AdminRoute, AuthRequired, Handled, AuditLog, CreateToken, RevokeToken,
              VerifyPassword, Login, ComparePassword, SetPassword, Refuse
<1> QED
  BY <1>1, <1>2, <1>3 DEF AUNext, Quiet, auVars

LEMMA PasswordTyped ==
  ASSUME AUInv, AUTyped, [AUNext]_auVars
  PROVE  password' \in Password
<1>1. CASE UNCHANGED acctVars
  BY <1>1 DEF acctVars, AUTyped
<1>2. ASSUME NEW r \in Request, SetPassword(r) PROVE password' \in Password
  <2>1. phase[r] = "set" /\ password' = ask[r].new
    BY <1>2 DEF SetPassword, Goes
  <2> QED
    BY <2>1 DEF AUInv, PhasesSound, AUTyped, ChangesTyped
<1>3. ASSUME NEW r \in Request, \/ \E a \in Ask : Send(r, a)
                                \/ AdminRoute(r) \/ VerifyPassword(r) \/ Login(r)
                                \/ ComparePassword(r)
      PROVE  UNCHANGED acctVars
  BY <1>3 DEF Send, AdminRoute, AuthRequired, Handled, AuditLog, CreateToken, RevokeToken,
              VerifyPassword, Login, ComparePassword, Refuse
<1> QED
  BY <1>1, <1>2, <1>3 DEF AUNext, Quiet, auVars

LEMMA TokensTyped == ASSUME AUTyped, [AUNext]_auVars PROVE ValuesOnce'
<1>1. CASE UNCHANGED tokenVars
  BY <1>1 DEF tokenVars, AUTyped, ValuesOnce
<1>2. ASSUME NEW r \in Request, NEW v \in ApiToken, CreateToken(r, v) PROVE ValuesOnce'
  <2> DEFINE t == [value |-> v, scope |-> ask[r].scope]
  <2>1. v \notin drawn /\ apiTokens' = apiTokens \cup {t} /\ drawn' = drawn \cup {v}
    BY <1>2 DEF CreateToken
  <2>2. t.value = v
    OBVIOUS
  <2> HIDE DEF t
  <2> QED
    BY <2>1, <2>2 DEF AUTyped, ValuesOnce
<1>3. ASSUME NEW r \in Request, RevokeToken(r) PROVE ValuesOnce'
  <2>1. apiTokens' \subseteq apiTokens /\ drawn' = drawn
    BY <1>3 DEF RevokeToken
  <2> QED
    BY <2>1 DEF AUTyped, ValuesOnce
<1>4. ASSUME NEW r \in Request, \/ \E a \in Ask : Send(r, a)
                                \/ AuthRequired(r) \/ Handled(r) \/ AuditLog(r)
                                \/ VerifyPassword(r) \/ Login(r)
                                \/ ComparePassword(r) \/ SetPassword(r)
      PROVE  UNCHANGED tokenVars
  BY <1>4 DEF Send, AuthRequired, Handled, AuditLog,
              VerifyPassword, Login, ComparePassword, SetPassword, Refuse
<1> QED
  BY <1>1, <1>2, <1>3, <1>4 DEF AUNext, AdminRoute, Quiet, auVars

LEMMA FailedTyped == ASSUME AUTyped, [AUNext]_auVars PROVE failed' \subseteq Request
<1>1. ASSUME NEW r \in Request, \/ \E a \in Ask : Send(r, a)
                                \/ AdminRoute(r) \/ VerifyPassword(r) \/ Login(r)
                                \/ ComparePassword(r) \/ SetPassword(r)
      PROVE  failed' \subseteq failed \cup {r}
  BY <1>1 DEF Send, AdminRoute, AuthRequired, Handled, AuditLog, CreateToken, RevokeToken,
              VerifyPassword, Login, ComparePassword, SetPassword, Refuse
<1>2. CASE UNCHANGED failed
  BY <1>2 DEF AUTyped
<1> QED
  BY <1>1, <1>2 DEF AUTyped, AUNext, Quiet, auVars

LEMMA AUNextTyped == ASSUME AUInv, AUTyped, [AUNext]_auVars PROVE AUTyped'
BY ChangeAsked, PasswordTyped, TokensTyped, FailedTyped DEF AUTyped

(* Every stored token has a value of its own, whatever else is created and  *)
(* revoked meanwhile, and the trail keeps within its limit.                 *)
THEOREM AUTypeCorrect == AUSpec => []AUTypeOK
BY AUInitInv, AUNextInv, AUInitTyped, AUNextTyped, AUTypes, PTL DEF AUSpec
-----------------------------------------------------------------------------
(* The types of the whole.  Most parts keep their state to themselves: what *)
(* happens to it is a behaviour of the part.                                *)
LEMMA StoreParts == Spec => SSSpec /\ TSSpec /\ CHSpec /\ AUSpec
<1>1. Init => SSInit /\ TSInit /\ CHInit /\ AUInit
  BY DEF Init
<1>2. ASSUME [Stores \/ AdminPages]_vars
      PROVE  [SSNext]_ssVars /\ [TSNext]_tsVars /\ [CHNext]_chVars /\ [AUNext]_auVars
  <2>1. CASE AdminPages \/ UNCHANGED vars
    BY <2>1 DEF AdminPages, CachedLists, ServerRows, Wizard, FileManager, ApiTokens, vars, storesVars
  <2>2. CASE Stores
    BY <2>2 DEF Stores, ServerTable, Tasks, RelayChains, Accounts
  <2> QED
    BY <1>2, <2>1, <2>2
<1> QED
  BY <1>1, <1>2, PTL DEF Spec, SSSpec, TSSpec, CHSpec, AUSpec

LEMMA DialogParts == Spec => CWSpec /\ FMSpec /\ TKSpec
<1>1. Init => CWInit /\ FMInit /\ TKInit
  BY DEF Init
<1>2. ASSUME [Stores \/ AdminPages]_vars
      PROVE  [CWNext]_cwVars /\ [FMNext]_fmVars /\ [TKNext]_tkVars
  <2>1. CASE Stores \/ UNCHANGED vars
    BY <2>1 DEF Stores, ServerTable, Tasks, RelayChains, Accounts, vars, pagesVars
  <2>2. CASE AdminPages
    BY <2>2 DEF AdminPages, CachedLists, ServerRows, Wizard, FileManager, ApiTokens
  <2> QED
    BY <1>2, <2>1, <2>2
<1> QED
  BY <1>1, <1>2, PTL DEF Spec, CWSpec, FMSpec, TKSpec

(* The pages over lists and the servers page are over one cache.  The first *)
(* leave the list of the servers alone, and the other leaves the lists.     *)
ServersUncached == cached[Servers] = NoData
RowsKept == TableTyped /\ PageTyped /\ GoneNowhere

ListsUncached ==
  /\ DOMAIN cached = Key /\ DOMAIN reply = Key
  /\ stale \in [Key -> BOOLEAN] /\ retried \in [Key -> BOOLEAN]
  /\ fetch \in [Key -> {"idle", "asked", "read"}]
  /\ \A k \in Lists : cached[k] = NoData /\ reply[k] = NoData
ListsKept ==
  /\ onPage \in DOMAIN Pages /\ tour \in Tours
  /\ formOpen \in BOOLEAN /\ saving \in BOOLEAN /\ confirm \in BOOLEAN
  /\ mounted \in [ApiCall -> BOOLEAN] /\ CallsTyped /\ ListsTyped

SharedCache ==
  /\ part # "rows" => LSInv /\ LSTab
  /\ part # "lists" => SPInv /\ SPTyped
  /\ part = "lists" => ServersUncached /\ RowsKept
  /\ part = "rows" => ListsUncached /\ ListsKept

LEMMA ServersNotList == Servers \notin Lists
BY DEF Servers, Lists

LEMMA ServersStayUncached ==
  ASSUME LSInv, ServersUncached, [LSNext]_lsVars
  PROVE  ServersUncached'
<1>1. DOMAIN cached = Key
  BY DEF LSInv, CacheTyped
<1>2. CASE UNCHANGED cached
  BY <1>2 DEF ServersUncached
<1>3. ASSUME NEW k \in Lists, Loads(k) \/ Ages(k) PROVE ServersUncached'
  <2>1. UNCHANGED cached \/ \E d : cached' = [cached EXCEPT ![k] = d]
    BY <1>3 DEF Loads, Ages, PollsList, Polls, ReadsList, PanelReads, LoadDone, GoesStale, Dropped,
                ListFails, LoadFails
  <2> QED
    BY <1>1, <1>2, <2>1, ServersNotList, ServersAssumption DEF ServersUncached
<1>4. ASSUME NEW c \in ApiCall, Clicked(c) PROVE UNCHANGED cached
  <2>1. PICK w \in Works : Sends(c, w)
    BY <1>4, ClicksReload DEF LSInv
  <2> QED
    BY <2>1 DEF Sends, qcVars
<1>5. ASSUME NEW c \in ApiCall, Applies(c) \/ Answered(c) \/ CallFails(c) PROVE UNCHANGED cached
  BY <1>5 DEF Applies, Answered, CallFails, Invalidates, qcVars
<1>6. ASSUME NEW p \in DOMAIN Pages, GoTo(p) PROVE UNCHANGED cached
  BY <1>6 DEF GoTo, Opens
<1>7. CASE \/ OpensForm \/ ClosesForm \/ AsksToDelete \/ Cancels \/ Refreshes
           \/ \E k \in Lists : Others(k)
  BY <1>2, <1>7 DEF OpensForm, ClosesForm, AsksToDelete, Cancels, Refreshes, Others, Invalidates, qcVars
<1>8. CASE UNCHANGED lsVars
  BY <1>2, <1>8 DEF lsVars, qcVars
<1> QED
  BY <1>2, <1>3, <1>4, <1>5, <1>6, <1>7, <1>8 DEF LSNext

LEMMA ListsFetched ==
  ASSUME ListsUncached, NEW ks, Fetch(ks), UNCHANGED cached, stale' \in [Key -> BOOLEAN]
  PROVE  ListsUncached'
<1>1. retried' \in [Key -> BOOLEAN] /\ fetch' \in [Key -> {"idle", "asked", "read"}]
  BY DEF Fetch, ListsUncached
<1>2. DOMAIN reply' = Key /\ \A k \in Lists : reply'[k] = NoData
  BY PagesAssumption DEF Fetch, ListsUncached
<1> QED
  BY <1>1, <1>2 DEF ListsUncached

LEMMA ListsInvalidated ==
  ASSUME ListsUncached, NEW ks, NEW shown, Invalidates(ks, shown)
  PROVE  ListsUncached'
<1>1. PICK ls : Fetch(ls)
  BY DEF Invalidates
<1>2. stale' \in [Key -> BOOLEAN] /\ UNCHANGED cached
  BY DEF Invalidates, ListsUncached
<1> QED
  BY <1>1, <1>2, ListsFetched

(* One turn of the load of the servers.                                     *)
LEMMA ListsTurn ==
  ASSUME ListsUncached, LoadsServers \/ ServersFail
  PROVE  ListsUncached'
<1> USE ServersAssumption, ServersNotList, PagesAssumption
<1>1. CASE Polls(Servers)
  <2>1. Fetch({Servers}) /\ UNCHANGED <<cached, stale>>
    BY <1>1 DEF Polls
  <2>2. stale' \in [Key -> BOOLEAN]
    BY <2>1 DEF ListsUncached
  <2> QED
    BY <2>1, <2>2, ListsFetched
<1>2. ASSUME NEW r, PanelReads(Servers, r) PROVE ListsUncached'
  BY <1>2 DEF PanelReads, ListsUncached
<1>3. CASE LoadDone(Servers)
  BY <1>3 DEF LoadDone, ListsUncached
<1>4. CASE GoesStale(Servers) \/ Dropped(Servers)
  BY <1>4 DEF GoesStale, Dropped, ListsUncached
<1>5. CASE LoadFails(Servers, Screen)
  BY <1>5 DEF LoadFails, ListsUncached
<1> QED
  BY <1>1, <1>2, <1>3, <1>4, <1>5 DEF LoadsServers, ServersFail

LEMMA ListsStayUncached == ASSUME ListsUncached, [SPNext]_spVars PROVE ListsUncached'
<1>1. CASE UNCHANGED qcVars
  BY <1>1 DEF qcVars, ListsUncached
<1>2. CASE OpensServers
  <2>1. PICK ls : Fetch(ls)
    BY <1>2 DEF OpensServers, Opens
  <2>2. stale' \in [Key -> BOOLEAN] /\ UNCHANGED cached
    BY <1>2 DEF OpensServers, Opens, ListsUncached
  <2> QED
    BY <2>1, <2>2, ListsFetched
<1>3. CASE \/ ConfirmsNothing \/ ReloadsServers
           \/ \E f \in Submission : FormAnswered(f)
           \/ \E b \in Batch : DeletionDone(b)
  BY <1>3, ListsInvalidated DEF ConfirmsNothing, ReloadsServers, FormAnswered, DeletionDone
<1>4. CASE LoadsServers \/ ServersFail
  BY <1>4, ListsTurn
<1>5. CASE \/ LeavesServers \/ Previous \/ NextPage \/ TogglePage \/ Closes
           \/ \E f \in Submission : SubmitsServer(f) \/ FormRefused(f)
  BY <1>1, <1>5 DEF LeavesServers, Previous, NextPage, TogglePage, Looks, Closes, SubmitsServer, FormRefused
<1>6. CASE \/ \E ks \in SUBSET stay.kinds \ {{}} : Filters(ks)
           \/ \E n \in stay.sizes : PicksSize(n)
           \/ \E s \in Srv : ToggleSelect(s)
           \/ \E d \in {"form", "delete", "bulk"}, s \in Srv \cup {NoSrv} : OpensDialog(d, s)
  BY <1>1, <1>6 DEF Filters, PicksSize, ToggleSelect, Looks, OpensDialog
<1>7. CASE \/ \E b \in Batch : ConfirmsDelete(b) \/ ConfirmsBulk(b)
           \/ \E b \in Batch, s \in Srv : PanelDeletes(b, s) \/ CallLost(b, s)
           \/ \E f \in Submission, s \in Srv, k \in stay.kinds : PanelSaves(f, s, k)
           \/ \E s \in Srv, k \in stay.kinds : OthersChange(s, k)
           \/ UNCHANGED spVars
  BY <1>1, <1>7 DEF ConfirmsDelete, ConfirmsBulk, DoDelete, PanelDeletes, CallLost, Elsewhere,
                    PanelSaves, OthersChange, spVars
<1> QED
  BY <1>2, <1>3, <1>4, <1>5, <1>6, <1>7 DEF SPNext

LEMMA SharedInit == Init => SharedCache
<1> SUFFICES ASSUME Init PROVE SharedCache
  OBVIOUS
<1>1. LSInv /\ LSTab
  BY LSInitInv, LSInitTab DEF Init
<1>2. SPInv /\ SPTyped
  BY SPInitInv, SPInitTyped DEF Init
<1>3. EmptyCache
  BY DEF Init, LSInit
<1>4. ServersUncached /\ ListsUncached
  BY <1>3, ServersAssumption, PagesAssumption DEF EmptyCache, ServersUncached, ListsUncached
<1>5. RowsKept
  BY <1>2 DEF SPInv, DeletionInv, SPTyped, RowsKept
<1>6. ListsKept
  BY <1>1 DEF LSInv, LSTab, ListsKept
<1> QED
  BY <1>1, <1>2, <1>4, <1>5, <1>6 DEF SharedCache

LEMMA SharedNext == ASSUME SharedCache, [Stores \/ AdminPages]_vars PROVE SharedCache'
<1>1. CASE part = "lists" /\ CachedLists
  <2>1. [LSNext]_lsVars /\ part' = "lists" /\ UNCHANGED serversRest
    BY <1>1 DEF CachedLists
  <2>2. LSInv' /\ LSTab'
    BY <1>1, <2>1, LSNextInv, LSNextTab DEF SharedCache
  <2>3. ServersUncached'
    BY <1>1, <2>1, ServersStayUncached DEF SharedCache
  <2>4. RowsKept'
    <3>1. RowsKept
      BY <1>1 DEF SharedCache
    <3>2. UNCHANGED <<stay, table, fresh, opened, filter, pageNo, pageSize, selected, dialog, target,
                      submitting, saveStep, mine, gone>>
      BY <2>1 DEF serversRest, panelRows, viewVars, dialogVars, saveVars
    <3> QED
      BY <3>1, <3>2 DEF RowsKept, TableTyped, PageTyped, GoneNowhere
  <2> QED
    BY <2>1, <2>2, <2>3, <2>4 DEF SharedCache
<1>2. CASE part = "rows" /\ ServerRows
  <2>1. [SPNext]_spVars /\ part' = "rows" /\ UNCHANGED listsRest
    BY <1>2 DEF ServerRows
  <2>2. SPInv' /\ SPTyped'
    BY <1>2, <2>1, SPNextInv, SPNextTyped DEF SharedCache
  <2>3. ListsUncached'
    BY <1>2, <2>1, ListsStayUncached DEF SharedCache
  <2>4. ListsKept'
    <3>1. ListsKept
      BY <1>2 DEF SharedCache
    <3>2. UNCHANGED <<tour, onPage, formOpen, saving, confirm, lastChange, changes, own,
                      step, what, ver, mounted>>
      BY <2>1 DEF listsRest, tabVars, listVars, callVars
    <3> QED
      BY <3>1, <3>2 DEF ListsKept, CallsTyped, ListsTyped
  <2> QED
    BY <2>1, <2>2, <2>3, <2>4 DEF SharedCache
<1>3. CASE UNCHANGED <<part, lsVars, serversRest>>
  <2>1. UNCHANGED lsVars /\ UNCHANGED spVars
    BY <1>3 DEF serversRest, spVars, lsVars
  <2>2. part # "rows" => LSInv' /\ LSTab'
    BY <2>1, LSNextInv, LSNextTab DEF SharedCache
  <2>3. part # "lists" => SPInv' /\ SPTyped'
    BY <2>1, SPNextInv, SPNextTyped DEF SharedCache
  <2>4. part = "lists" => ServersUncached' /\ RowsKept'
    BY <2>1 DEF SharedCache, ServersUncached, RowsKept, TableTyped, PageTyped, GoneNowhere,
                spVars, qcVars, panelRows, viewVars, dialogVars, saveVars
  <2>5. part = "rows" => ListsUncached' /\ ListsKept'
    BY <2>1 DEF SharedCache, ListsUncached, ListsKept, CallsTyped, ListsTyped,
                lsVars, qcVars, tabVars, listVars, callVars
  <2> QED
    BY <1>3, <2>2, <2>3, <2>4, <2>5 DEF SharedCache
<1>4. CASE Stores \/ UNCHANGED vars
  BY <1>3, <1>4 DEF Stores, ServerTable, Tasks, RelayChains, Accounts, vars, pagesVars
<1>5. CASE Wizard \/ FileManager \/ ApiTokens
  BY <1>3, <1>5 DEF Wizard, FileManager, ApiTokens
<1>6. CASE CachedLists \/ ServerRows
  BY <1>1, <1>2, <1>6 DEF CachedLists, ServerRows
<1> QED
  BY <1>4, <1>5, <1>6 DEF AdminPages

LEMMA SharedTypes == SharedCache => LSTypeOK /\ SPTypeOK
<1> SUFFICES ASSUME SharedCache PROVE LSTypeOK /\ SPTypeOK
  OBVIOUS
<1>1. LSTypeOK
  <2>1. CASE part # "rows"
    BY <2>1, LSTypes DEF SharedCache
  <2>2. CASE part = "rows"
    BY <2>2 DEF SharedCache, ListsUncached, ListsKept, CallsTyped, ListsTyped, LSTypeOK
  <2> QED
    BY <2>1, <2>2
<1>2. SPTypeOK
  <2>1. CASE part # "lists"
    BY <2>1, SPTypes DEF SharedCache
  <2>2. CASE part = "lists"
    <3>1. RowsKept /\ Listed = <<>> /\ DOMAIN <<>> = {}
      BY <2>2 DEF SharedCache, ServersUncached, Listed, HasData
    <3> QED
      BY <3>1 DEF RowsKept, TableTyped, PageTyped, GoneNowhere, SPTypeOK
  <2> QED
    BY <2>1, <2>2
<1> QED
  BY <1>1, <1>2

(* Everything that the stores and the pages keep has its type, whichever    *)
(* part moves, for all constants of the parts: servers, tasks, chains,      *)
(* requests, lists, files and tokens in any numbers.                        *)
THEOREM StoresTypeCorrect == Spec => []StoresTypeOK
<1>1. Spec => [](SSTypeOK /\ TSTypeOK /\ CHTypeOK /\ AUTypeOK)
  BY StoreParts, SSTypeCorrect, TSTypeCorrect, CHTypeCorrect, AUTypeCorrect, PTL
<1>2. Spec => [](CWTypeOK /\ FMTypeOK /\ TKTypeOK)
  <2>1. CWSpec => []CWTypeOK
    BY CWInitTyped, CWNextTyped, CWTypes, PTL DEF CWSpec
  <2>2. FMSpec => []FMTypeOK
    BY FMInitTyped, FMNextTyped, FMTypes, PTL DEF FMSpec
  <2>3. TKTyped => TKTypeOK
    BY DEF TKTyped
  <2>4. TKSpec => []TKTypeOK
    BY TKInitTyped, TKNextTyped, <2>3, PTL DEF TKSpec
  <2> QED
    BY DialogParts, <2>1, <2>2, <2>4, PTL
<1>3. Spec => [](LSTypeOK /\ SPTypeOK)
  BY SharedInit, SharedNext, SharedTypes, PTL DEF Spec
<1>4. /\ SSTypeOK /\ TSTypeOK /\ CHTypeOK /\ AUTypeOK
      /\ CWTypeOK /\ FMTypeOK /\ TKTypeOK /\ LSTypeOK /\ SPTypeOK
      => StoresTypeOK
  BY DEF StoresTypeOK
<1> QED
  BY <1>1, <1>2, <1>3, <1>4, PTL

(* Pages that share the cache keep what they promise: while one shows its   *)
(* lists the other has none.                                                *)
LEMMA SharedSafe == SharedCache => OwnChangesShown /\ PagesCover /\ DeletedGone
<1> SUFFICES ASSUME SharedCache PROVE OwnChangesShown /\ PagesCover /\ DeletedGone
  OBVIOUS
<1>1. OwnChangesShown
  <2>1. CASE part # "rows"
    BY <2>1 DEF SharedCache, LSInv
  <2>2. CASE part = "rows"
    BY <2>2 DEF SharedCache, ListsUncached, OwnChangesShown, HasData
  <2> QED
    BY <2>1, <2>2
<1>2. PagesCover /\ DeletedGone
  <2>1. CASE part # "lists"
    BY <2>1, PagesSound DEF SharedCache, SPTyped, ListTyped, PageTyped, SPInv, ListInv
  <2>2. CASE part = "lists"
    <3>1. Listed = <<>> /\ DOMAIN <<>> = {}
      BY <2>2 DEF SharedCache, ServersUncached, Listed, HasData
    <3>2. Filtered = {}
      BY <3>1 DEF Filtered
    <3> QED
      BY <3>1, <3>2 DEF PagesCover, DeletedGone
  <2> QED
    BY <2>1, <2>2
<1> QED
  BY <1>1, <1>2

(* The stores keep their promises together: the newest results are kept and *)
(* nothing is dropped before an older one, entry nodes alone are public,    *)
(* every privileged change is in the trail, and what was deleted stays so.  *)
THEOREM StoresSafe ==
  Spec => /\ [](RetentionWindow /\ OnlyEntryShown /\ AuditTrail)
          /\ NoResurrection /\ TaskLifecycle /\ DropsOldestFirst
<1>1. Spec => SSSpec /\ TSSpec /\ CHSpec /\ AUSpec
  BY StoreParts
<1> QED
  BY <1>1, DeletedStayDeleted, Retention, Lifecycle, OldestFirst, OnlyEntryPublic, TrailComplete, PTL

(* And so do the pages, over the cache that they share.                     *)
THEOREM PagesSafe ==
  Spec => [](/\ OwnChangesShown /\ PagesCover /\ DeletedGone
             /\ SavesAreValid /\ ListingOfPath /\ SecretShownOnce)
<1>1. Spec => CWSpec /\ FMSpec /\ TKSpec
  BY DialogParts
<1>2. Spec => [](OwnChangesShown /\ PagesCover /\ DeletedGone)
  BY SharedInit, SharedNext, SharedSafe, PTL DEF Spec
<1> QED
  BY <1>1, <1>2, WizardSavesValid, ListingIsOfPath, SecretsShownOnce, PTL
=============================================================================
