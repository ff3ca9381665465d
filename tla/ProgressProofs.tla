--------------------------- MODULE ProgressProofs ---------------------------
(* Theorems about what comes to a good end by itself (MCProgress), for any  *)
(* sets, lengths and limits: the results of service checks (ServiceChecks), *)
(* and the types of all parts of the instance.                              *)
(*                                                                          *)
(* Service checks.  For the time since the last check the invariant adds    *)
(* that a service which is late is being probed, or will be by the scan of  *)
(* this unit.                                                               *)
EXTENDS MCProgress, FiniteSetTheorems, TLAPS

ProbesTyped == probing \subseteq ProbeRecord

SCTyped ==
  /\ services \subseteq used /\ used \subseteq Service
  /\ interval \in [Service -> Intervals] /\ age \in [Service -> Nat]
  /\ DOMAIN status = Service /\ DOMAIN history = Service /\ DOMAIN uptime = Service
  /\ \A s \in Service : history[s] \in Seq(Result) /\ Len(history[s]) <= MaxHistory
  /\ scanned \in BOOLEAN /\ ProbesTyped

ShownOf(s) ==
  /\ status[s] = "pending" <=> history[s] = <<>>
  /\ history[s] # <<>> => /\ status[s] = StatusOf(history[s][Len(history[s])])
                          /\ uptime[s] = <<UpIn(history[s]), Len(history[s])>>
AllShown == \A s \in Service : ShownOf(s)

(* A stored service was checked within the longest interval and the unit    *)
(* until the scan, or a probe of it is under way that began in time.        *)
Coming(s) == \E p \in probing : p.svc = s /\ age[s] <= Longest + 1 + p.age
InTime(s) == \/ age[s] <= Longest
             \/ age[s] = Longest + 1 /\ ~ scanned
             \/ Coming(s)
AllInTime == \A s \in services : InTime(s)

SCInv == SCTyped /\ AllShown /\ AllInTime

LEMMA LongestInterval == Longest \in Nat /\ \A i \in Intervals : i <= Longest /\ CheckTimeout < Longest
<1>1. \E i \in Intervals : \A j \in Intervals : j <= i
  BY IntervalsAssumption
<1>2. Longest \in Intervals /\ \A i \in Intervals : i <= Longest
  BY <1>1 DEF Longest
<1>3. Longest \in Nat /\ CheckTimeout < Longest
  BY <1>2, IntervalsAssumption, LimitsAssumption
<1> QED
  BY <1>2, <1>3

LEMMA SCInitInv == SCInit => SCInv
<1> SUFFICES ASSUME SCInit PROVE SCInv
  OBVIOUS
<1>1. Longest \in Intervals
  BY IntervalsAssumption DEF Longest
<1>2. SCTyped
  <2>1. interval \in [Service -> Intervals] /\ age \in [Service -> Nat]
    BY <1>1 DEF SCInit
  <2>2. \A s \in Service : history[s] \in Seq(Result) /\ Len(history[s]) <= MaxHistory
    BY LimitsAssumption DEF SCInit
  <2>3. services \subseteq used /\ used \subseteq Service
    BY SamplesAssumption DEF SCInit
  <2> QED
    BY <2>1, <2>2, <2>3 DEF SCInit, SCTyped, ProbesTyped
<1>3. AllShown
  BY DEF SCInit, AllShown, ShownOf
<1>4. AllInTime
  BY LongestInterval, SamplesAssumption DEF SCInit, AllInTime, InTime
<1> QED
  BY <1>2, <1>3, <1>4 DEF SCInv

(* Results come and go with the status.                                     *)
LEMMA CreateStep ==
  ASSUME SCInv, NEW s \in Service, NEW i \in Intervals, Create(s, i)
  PROVE  SCInv'
<1>1. /\ services' = services \cup {s} /\ used' = used \cup {s}
      /\ interval' = [interval EXCEPT ![s] = i] /\ age' = [age EXCEPT ![s] = 0]
      /\ UNCHANGED <<status, history, uptime, probing, scanned>>
  BY DEF Create
<1>2. SCTyped'
  BY <1>1 DEF SCInv, SCTyped, ProbesTyped
<1>3. AllShown'
  BY <1>1 DEF SCInv, AllShown, ShownOf
<1>4. AllInTime'
  <2> SUFFICES ASSUME NEW z \in services' PROVE InTime(z)'
    BY DEF AllInTime
  <2>1. CASE z = s
    <3>1. age'[z] = 0
      BY <1>1, <2>1 DEF SCInv, SCTyped
    <3> QED
      BY <3>1, LongestInterval DEF InTime
  <2>2. CASE z # s
    <3>1. InTime(z) /\ age'[z] = age[z]
      BY <1>1, <2>2 DEF SCInv, SCTyped, AllInTime
    <3> QED
      BY <1>1, <3>1 DEF InTime, Coming
  <2> QED
    BY <2>1, <2>2
<1> QED
  BY <1>2, <1>3, <1>4 DEF SCInv

LEMMA DeleteStep ==
  ASSUME SCInv, NEW s \in Service, Delete(s)
  PROVE  SCInv'
<1>1. /\ services' = services \ {s}
      /\ status' = [status EXCEPT ![s] = "pending"] /\ history' = [history EXCEPT ![s] = <<>>]
      /\ uptime' = [uptime EXCEPT ![s] = <<0, 0>>] /\ age' = [age EXCEPT ![s] = 0]
      /\ UNCHANGED <<used, interval, probing, scanned>>
  BY DEF Delete
<1>2. SCTyped'
  BY <1>1, LimitsAssumption DEF SCInv, SCTyped, ProbesTyped
<1>3. AllShown'
  BY <1>1 DEF SCInv, SCTyped, AllShown, ShownOf
<1>4. AllInTime'
  <2> SUFFICES ASSUME NEW z \in services' PROVE InTime(z)'
    BY DEF AllInTime
  <2>1. InTime(z) /\ age'[z] = age[z]
    BY <1>1 DEF SCInv, SCTyped, AllInTime
  <2> QED
    BY <1>1, <2>1 DEF InTime, Coming
<1> QED
  BY <1>2, <1>3, <1>4 DEF SCInv

(* What a goroutine's record is after a unit, or an edit of the target.     *)
LEMMA ProbeAged ==
  ASSUME NEW p \in ProbeRecord
  PROVE  /\ p.svc \in Service /\ p.age \in 0..CheckTimeout
         /\ LET q == [p EXCEPT !.old = TRUE] IN q \in ProbeRecord /\ q.svc = p.svc /\ q.age = p.age
         /\ p.age < CheckTimeout =>
              LET q == [p EXCEPT !.age = @ + 1]
              IN q \in ProbeRecord /\ q.svc = p.svc /\ q.age = p.age + 1
<1>1. /\ p = [svc |-> p.svc, age |-> p.age, old |-> p.old]
      /\ p.svc \in Service /\ p.age \in 0..CheckTimeout /\ p.old \in BOOLEAN
  BY DEF ProbeRecord
<1>2. [p EXCEPT !.age = @ + 1] = [svc |-> p.svc, age |-> p.age + 1, old |-> p.old]
  BY <1>1
<1>3. LET q == [p EXCEPT !.old = TRUE] IN q \in ProbeRecord /\ q.svc = p.svc /\ q.age = p.age
  BY DEF ProbeRecord
<1>4. p.age < CheckTimeout => p.age + 1 \in 0..CheckTimeout
  BY <1>1, LimitsAssumption
<1>5. p.age < CheckTimeout =>
        LET q == [svc |-> p.svc, age |-> p.age + 1, old |-> p.old]
        IN q \in ProbeRecord /\ q.svc = p.svc /\ q.age = p.age + 1
  BY <1>1, <1>4 DEF ProbeRecord
<1> QED
  BY <1>1, <1>2, <1>3, <1>5

LEMMA UpdateStep ==
  ASSUME SCInv, NEW s \in Service, NEW i \in Intervals, NEW newTarget, Update(s, i, newTarget)
  PROVE  SCInv'
<1>1. /\ interval' = [interval EXCEPT ![s] = i]
      /\ UNCHANGED <<services, used, uptime, age, scanned>>
      /\ \/ Retarget(s)
         \/ UNCHANGED <<status, history, probing>>
  BY DEF Update
<1>2. CASE Retarget(s)
  <2>1. /\ status' = [status EXCEPT ![s] = "pending"] /\ history' = [history EXCEPT ![s] = <<>>]
        /\ probing' = {IF p.svc = s THEN [p EXCEPT !.old = TRUE] ELSE p : p \in probing}
    BY <1>2 DEF Retarget
  <2>2. ASSUME NEW p \in probing
        PROVE  LET q == IF p.svc = s THEN [p EXCEPT !.old = TRUE] ELSE p
               IN q \in ProbeRecord /\ q \in probing' /\ q.svc = p.svc /\ q.age = p.age
    <3>1. p \in ProbeRecord
      BY DEF SCInv, SCTyped, ProbesTyped
    <3> DEFINE q == IF p.svc = s THEN [p EXCEPT !.old = TRUE] ELSE p
    <3>2. q \in ProbeRecord /\ q.svc = p.svc /\ q.age = p.age
      BY <3>1, ProbeAged
    <3>3. q \in probing'
      BY <2>1
    <3> QED
      BY <3>2, <3>3
  <2>3. ProbesTyped'
    BY <2>1, <2>2 DEF ProbesTyped
  <2>4. SCTyped'
    BY <1>1, <2>1, <2>3, LimitsAssumption DEF SCInv, SCTyped
  <2>5. AllShown'
    BY <1>1, <2>1 DEF SCInv, SCTyped, AllShown, ShownOf
  <2>6. ASSUME NEW z \in services', Coming(z) PROVE Coming(z)'
    BY <1>1, <2>2, <2>6 DEF Coming
  <2>7. AllInTime'
    BY <1>1, <2>6 DEF SCInv, AllInTime, InTime
  <2> QED
    BY <2>4, <2>5, <2>7 DEF SCInv
<1>3. CASE UNCHANGED <<status, history, probing>>
  <2>1. SCTyped' /\ AllShown'
    BY <1>1, <1>3 DEF SCInv, SCTyped, ProbesTyped, AllShown, ShownOf
  <2>2. AllInTime'
    BY <1>1, <1>3 DEF SCInv, AllInTime, InTime, Coming
  <2> QED
    BY <2>1, <2>2 DEF SCInv
<1> QED
  BY <1>1, <1>2, <1>3

(* The scan probes what has not been checked for longer than its interval.  *)
LEMMA RunChecksStep == ASSUME SCInv, RunChecks PROVE SCInv'
<1>1. PICK some \in SUBSET {s \in Service : JustDue(s)} :
        probing' = probing \cup {[svc |-> s, age |-> 0, old |-> FALSE] :
                                   s \in some \cup {z \in Service : Due(z)}}
  BY DEF RunChecks
<1>2. /\ scanned' = TRUE
      /\ UNCHANGED <<services, used, interval, status, history, uptime, age>>
  BY DEF RunChecks
<1>3. \A s \in Service : LET q == [svc |-> s, age |-> 0, old |-> FALSE]
                         IN q \in ProbeRecord /\ q.svc = s /\ q.age = 0
  BY LimitsAssumption DEF ProbeRecord
<1>4. SCTyped'
  <2>1. ProbesTyped'
    BY <1>1, <1>3 DEF SCInv, SCTyped, ProbesTyped
  <2> QED
    BY <1>2, <2>1 DEF SCInv, SCTyped
<1>5. AllShown'
  BY <1>2 DEF SCInv, AllShown, ShownOf
<1>6. ASSUME NEW z \in services' PROVE InTime(z)'
  <2>1. z \in Service /\ z \in services /\ InTime(z) /\ age'[z] = age[z] /\ age[z] \in Nat
    BY <1>2 DEF SCInv, SCTyped, AllInTime
  <2>2. CASE age[z] <= Longest
    BY <2>1, <2>2 DEF InTime
  <2>3. CASE Coming(z)
    BY <1>1, <2>1, <2>3 DEF InTime, Coming
  <2>4. CASE age[z] = Longest + 1
    <3> DEFINE q == [svc |-> z, age |-> 0, old |-> FALSE]
    <3>1. interval[z] \in Nat /\ interval[z] <= Longest /\ Longest \in Nat
      BY <2>1, LongestInterval, IntervalsAssumption DEF SCInv, SCTyped
    <3>2. Due(z)
      BY <2>1, <2>4, <3>1 DEF Due
    <3>3. q \in probing'
      BY <1>1, <2>1, <3>2
    <3>4. q.svc = z /\ q.age = 0
      BY <1>3, <2>1
    <3>5. age'[z] <= Longest + 1 + q.age
      BY <2>1, <2>4, <3>1, <3>4
    <3> HIDE DEF q
    <3> QED
      BY <3>3, <3>4, <3>5 DEF InTime, Coming
  <2> QED
    BY <2>1, <2>2, <2>3, <2>4 DEF InTime
<1> QED
  BY <1>4, <1>5, <1>6 DEF SCInv, AllInTime

(* The history is cut, but not the result that was just recorded.           *)
LEMMA TrimmedHistory ==
  ASSUME NEW h \in Seq(Result), Len(h) <= MaxHistory, NEW r \in Result
  PROVE  LET g == Trim(Append(h, r))
         IN /\ g \in Seq(Result) /\ Len(g) <= MaxHistory
            /\ g # <<>> /\ g[Len(g)] = r
<1> DEFINE a == Append(h, r)
<1>1. /\ Len(h) \in Nat /\ a \in Seq(Result) /\ Len(a) = Len(h) + 1 /\ a[Len(h) + 1] = r
  OBVIOUS
<1>2. MaxHistory \in Nat \ {0}
  BY LimitsAssumption
<1> HIDE DEF a
<1>3. CASE Len(a) > MaxHistory
  <2>1. /\ Tail(a) \in Seq(Result) /\ Len(Tail(a)) = Len(h)
        /\ Len(h) = MaxHistory /\ Len(h) >= 1
    BY <1>1, <1>2, <1>3
  <2>2. Tail(a)[Len(h)] = a[Len(h) + 1]
    BY <1>1, <2>1
  <2>3. Trim(a) = Tail(a)
    BY <1>3 DEF Trim
  <2>4. Tail(a) # <<>>
    BY <1>1, <2>1
  <2> QED
    BY <1>1, <1>2, <2>1, <2>2, <2>3, <2>4 DEF a
<1>4. CASE ~ (Len(a) > MaxHistory)
  <2>1. Trim(a) = a /\ a # <<>> /\ Len(a) <= MaxHistory /\ a[Len(a)] = r
    BY <1>1, <1>2, <1>4 DEF Trim
  <2> QED
    BY <1>1, <2>1 DEF a
<1> QED
  BY <1>3, <1>4

LEMMA ProbeEndsStep ==
  ASSUME SCInv, NEW p \in probing, NEW up \in BOOLEAN, ProbeEnds(p, up)
  PROVE  SCInv'
<1> DEFINE s == p.svc
           r == [up |-> up, old |-> p.old]
           g == Trim(Append(history[s], r))
<1>1. /\ probing' = probing \ {p} /\ UNCHANGED <<services, used, interval, scanned>>
  BY DEF ProbeEnds
<1>2. p \in ProbeRecord /\ s \in Service /\ p.age \in 0..CheckTimeout /\ r \in Result
  BY ProbeAged DEF SCInv, SCTyped, ProbesTyped, ProbeRecord, Result
<1>3. ProbesTyped'
  BY <1>1 DEF SCInv, SCTyped, ProbesTyped
<1>4. CASE s \in services
  <2>1. /\ history' = [history EXCEPT ![s] = g]
        /\ uptime' = [uptime EXCEPT ![s] = <<UpIn(history'[s]), Len(history'[s])>>]
        /\ status' = [status EXCEPT ![s] = StatusOf(r)]
        /\ age' = [age EXCEPT ![s] = p.age]
    BY <1>4 DEF ProbeEnds, Record
  <2>2. g \in Seq(Result) /\ Len(g) <= MaxHistory /\ g # <<>> /\ g[Len(g)] = r
    BY <1>2, TrimmedHistory DEF SCInv, SCTyped
  <2>3. StatusOf(r) # "pending" /\ p.age \in Nat
    BY <1>2, LimitsAssumption DEF StatusOf
  <2> HIDE DEF g, r, s
  <2>4. SCTyped'
    BY <1>1, <1>2, <1>3, <2>1, <2>2, <2>3 DEF SCInv, SCTyped
  <2>5. AllShown'
    <3> SUFFICES ASSUME NEW z \in Service PROVE ShownOf(z)'
      BY DEF AllShown
    <3>1. CASE z = s
      <4>1. history'[z] = g /\ status'[z] = StatusOf(r)
        BY <1>2, <2>1, <3>1 DEF SCInv, SCTyped
      <4>2. uptime'[z] = <<UpIn(history'[z]), Len(history'[z])>>
        BY <1>2, <2>1, <3>1 DEF SCInv, SCTyped
      <4> QED
        BY <2>2, <2>3, <4>1, <4>2 DEF ShownOf
    <3>2. CASE z # s
      <4>1. history'[z] = history[z] /\ status'[z] = status[z] /\ uptime'[z] = uptime[z]
        BY <2>1, <3>2 DEF SCInv, SCTyped
      <4> QED
        BY <4>1 DEF SCInv, AllShown, ShownOf
    <3> QED
      BY <3>1, <3>2
  <2>6. ASSUME NEW z \in services' PROVE InTime(z)'
    <3>1. CASE z = s
      <4>1. age'[z] = p.age /\ p.age <= CheckTimeout
        BY <1>2, <2>1, <3>1 DEF SCInv, SCTyped
      <4>2. CheckTimeout < Longest /\ Longest \in Nat
        BY LongestInterval, IntervalsAssumption
      <4> QED
        BY <1>2, <4>1, <4>2, LimitsAssumption DEF InTime
    <3>2. CASE z # s
      <4>1. age'[z] = age[z] /\ InTime(z)
        BY <1>1, <2>1, <3>2 DEF SCInv, SCTyped, AllInTime
      <4>2. Coming(z) => Coming(z)'
        BY <1>1, <3>2, <4>1 DEF Coming, s
      <4> QED
        BY <1>1, <4>1, <4>2 DEF InTime
    <3> QED
      BY <3>1, <3>2
  <2> QED
    BY <2>4, <2>5, <2>6 DEF SCInv, AllInTime
<1>5. CASE s \notin services
  <2>1. UNCHANGED <<history, uptime, status, age>>
    BY <1>5 DEF ProbeEnds
  <2>2. SCTyped' /\ AllShown'
    BY <1>1, <1>3, <2>1 DEF SCInv, SCTyped, AllShown, ShownOf
  <2>3. ASSUME NEW z \in services' PROVE InTime(z)'
    <3>1. InTime(z) /\ z # p.svc
      BY <1>1, <1>5 DEF SCInv, AllInTime
    <3>2. Coming(z) => Coming(z)'
      BY <1>1, <2>1, <3>1 DEF Coming
    <3> QED
      BY <1>1, <2>1, <3>1, <3>2 DEF InTime
  <2> QED
    BY <2>2, <2>3 DEF SCInv, AllInTime
<1> QED
  BY <1>4, <1>5

(* A unit passes: for services and for the probes that are under way.       *)
LEMMA UnitStep == ASSUME SCInv, Tick PROVE SCInv'
<1>1. /\ scanned /\ scanned' = FALSE /\ \A p \in probing : p.age < CheckTimeout
      /\ probing' = {[p EXCEPT !.age = @ + 1] : p \in probing}
      /\ age' = [s \in Service |-> IF s \in services /\ age[s] <= Oldest THEN age[s] + 1 ELSE age[s]]
      /\ UNCHANGED <<services, used, interval, status, history, uptime>>
  BY DEF Tick
<1>2. ASSUME NEW p \in probing
      PROVE  LET q == [p EXCEPT !.age = @ + 1]
             IN q \in ProbeRecord /\ q \in probing' /\ q.svc = p.svc /\ q.age = p.age + 1
  <2>1. p \in ProbeRecord
    BY DEF SCInv, SCTyped, ProbesTyped
  <2> DEFINE q == [p EXCEPT !.age = @ + 1]
  <2>2. q \in ProbeRecord /\ q.svc = p.svc /\ q.age = p.age + 1
    BY <1>1, <2>1, ProbeAged
  <2>3. q \in probing'
    BY <1>1
  <2> QED
    BY <2>2, <2>3
<1>3. ProbesTyped'
  BY <1>1, <1>2 DEF ProbesTyped
<1>4. SCTyped'
  <2>1. age' \in [Service -> Nat]
    BY <1>1 DEF SCInv, SCTyped
  <2> QED
    BY <1>1, <1>3, <2>1 DEF SCInv, SCTyped
<1>5. AllShown'
  BY <1>1 DEF SCInv, AllShown, ShownOf
<1>6. ASSUME NEW z \in services' PROVE InTime(z)'
  <2>1. z \in Service /\ InTime(z) /\ age[z] \in Nat /\ age'[z] \in Nat /\ age'[z] <= age[z] + 1
    BY <1>1 DEF SCInv, SCTyped, AllInTime
  <2>2. CASE age[z] <= Longest
    BY <1>1, <2>1, <2>2, LongestInterval DEF InTime
  <2>3. CASE Coming(z)
    <3>1. PICK p \in probing : p.svc = z /\ age[z] <= Longest + 1 + p.age
      BY <2>3 DEF Coming
    <3> DEFINE q == [p EXCEPT !.age = @ + 1]
    <3>2. q \in probing' /\ q.svc = p.svc /\ q.age = p.age + 1
      BY <1>2
    <3>3. p.age \in Nat /\ Longest \in Nat
      <4>1. p \in ProbeRecord
        BY DEF SCInv, SCTyped, ProbesTyped
      <4>2. p.age \in 0..CheckTimeout
        BY <4>1, ProbeAged
      <4> QED
        BY <4>2, LongestInterval, LimitsAssumption
    <3> HIDE DEF q
    <3>4. age'[z] <= Longest + 1 + q.age
      BY <2>1, <3>1, <3>2, <3>3
    <3> QED
      BY <3>1, <3>2, <3>4 DEF InTime, Coming
  <2> QED
    BY <1>1, <2>1, <2>2, <2>3 DEF InTime
<1> QED
  BY <1>4, <1>5, <1>6 DEF SCInv, AllInTime

LEMMA SCNextInv == ASSUME SCInv, [SCNext]_scVars PROVE SCInv'
<1>1. CASE UNCHANGED scVars
  <2>1. UNCHANGED <<services, used, interval, status, history, uptime, age, probing, scanned>>
    BY <1>1 DEF scVars
  <2>2. SCTyped' /\ AllShown'
    BY <2>1 DEF SCInv, SCTyped, ProbesTyped, AllShown, ShownOf
  <2>3. AllInTime'
    BY <2>1 DEF SCInv, AllInTime, InTime, Coming
  <2> QED
    BY <2>2, <2>3 DEF SCInv
<1>2. CASE ProbesEnd
  BY <1>2, ProbeEndsStep DEF ProbesEnd
<1>3. ASSUME NEW s \in Service, NEW i \in Intervals,
             Create(s, i) \/ \E b \in BOOLEAN : Update(s, i, b)
      PROVE  SCInv'
  BY <1>3, CreateStep, UpdateStep
<1> QED
  BY <1>1, <1>2, <1>3, DeleteStep, RunChecksStep, UnitStep DEF SCNext

(* What a service shows is what its last checks found, for any length of    *)
(* the history and any overlap of probes, edits and deletions.              *)
THEOREM ServiceShowsRecords == SCSpec => []ShownIsRecorded
<1>1. SCInv => ShownIsRecorded
  BY DEF SCInv, SCTyped, AllShown, ShownOf, ShownIsRecorded
<1>2. QED
  BY SCInitInv, SCNextInv, <1>1, PTL DEF SCSpec

(* The checker's ticker is enough for any intervals and timeout: no service *)
(* goes unchecked for longer than its interval, a scan and a probe.         *)
THEOREM ServicesCheckedInTime == SCSpec => []CheckedInTime
<1>1. ASSUME SCInv PROVE CheckedInTime
  <2> SUFFICES ASSUME NEW z \in services PROVE age[z] <= Oldest
    BY DEF CheckedInTime
  <2>1. InTime(z) /\ age[z] \in Nat
    BY <1>1 DEF SCInv, SCTyped, AllInTime
  <2>2. Longest \in Nat /\ CheckTimeout \in Nat /\ Oldest = Longest + CheckTimeout + 1
    BY LongestInterval, LimitsAssumption DEF Oldest
  <2>3. CASE Coming(z)
    <3>1. PICK p \in probing : p.svc = z /\ age[z] <= Longest + 1 + p.age
      BY <2>3 DEF Coming
    <3>2. p.age \in 0..CheckTimeout
      BY <1>1, ProbeAged DEF SCInv, SCTyped, ProbesTyped
    <3> QED
      BY <2>1, <2>2, <3>1, <3>2
  <2> QED
    BY <2>1, <2>2, <2>3 DEF InTime
<1>2. QED
  BY SCInitInv, SCNextInv, <1>1, PTL DEF SCSpec

-----------------------------------------------------------------------------
(* The types of the parts.  Of a service the uptime counts results of a     *)
(* history that is cut.                                                     *)
SCKept ==
  /\ status \in [Service -> {"pending", "up", "down"}]
  /\ uptime \in [Service -> (0..MaxHistory) \X (0..MaxHistory)]
  /\ checked \subseteq services /\ edits \in 0..MaxEdits

LEMMA SCTypes == SCInv /\ SCKept => SCTypeOK
BY DEF SCInv, SCTyped, ProbesTyped, SCKept, SCTypeOK

LEMMA SCInitKept == SCInit => SCKept
BY LimitsAssumption DEF SCInit, SCKept

LEMMA CountTo == ASSUME NEW n \in Nat PROVE IsFiniteSet(1..n) /\ Cardinality(1..n) = n
<1>1. 1 \in Int /\ n \in Int
  OBVIOUS
<1>2. IsFiniteSet(1..n) /\ Cardinality(1..n) = IF 1 > n THEN 0 ELSE n - 1 + 1
  BY <1>1, FS_Interval, Zenon
<1>3. (IF 1 > n THEN 0 ELSE n - 1 + 1) = n
  OBVIOUS
<1> QED
  BY <1>2, <1>3

LEMMA UpInHistory ==
  ASSUME NEW h \in Seq(Result), Len(h) <= MaxHistory
  PROVE  UpIn(h) \in 0..MaxHistory /\ Len(h) \in 0..MaxHistory
<1> DEFINE D == DOMAIN h
           U == {k \in D : h[k].up}
<1>1. Len(h) \in Nat /\ MaxHistory \in Nat /\ D = 1..Len(h)
  BY LimitsAssumption
<1>2. IsFiniteSet(1..Len(h)) /\ Cardinality(1..Len(h)) = Len(h)
  BY <1>1, CountTo
<1>3. UpIn(h) = Cardinality(U)
  BY DEF UpIn
<1>4. U \in SUBSET D
  OBVIOUS
<1> HIDE DEF D, U
<1>5. IsFiniteSet(D) /\ Cardinality(D) = Len(h)
  BY <1>1, <1>2
<1>6. IsFiniteSet(U) /\ Cardinality(U) <= Cardinality(D)
  BY <1>4, <1>5, FS_Subset
<1>7. Cardinality(U) \in Nat
  BY <1>6, FS_CardinalityType
<1> QED
  BY <1>1, <1>3, <1>5, <1>6, <1>7

LEMMA ProbeEndsKeeps ==
  ASSUME SCInv, SCKept, NEW p \in probing, NEW up \in BOOLEAN, ProbeEnds(p, up)
  PROVE  SCKept'
<1> DEFINE s == p.svc
           r == [up |-> up, old |-> p.old]
           g == Trim(Append(history[s], r))
           u == <<UpIn(history'[s]), Len(history'[s])>>
<1>1. UNCHANGED <<services, edits>>
  BY DEF ProbeEnds
<1>2. CASE s \in services
  <2>1. s \in Service /\ r \in Result
    BY ProbeAged DEF SCInv, SCTyped, ProbesTyped, ProbeRecord, Result
  <2>2. /\ history' = [history EXCEPT ![s] = g] /\ uptime' = [uptime EXCEPT ![s] = u]
        /\ status' = [status EXCEPT ![s] = StatusOf(r)] /\ checked' = checked \cup {s}
    BY <1>2 DEF ProbeEnds, Record
  <2>3. g \in Seq(Result) /\ Len(g) <= MaxHistory
    BY <2>1, TrimmedHistory DEF SCInv, SCTyped
  <2>4. history'[s] = g
    BY <2>1, <2>2 DEF SCInv, SCTyped
  <2>5. UpIn(g) \in 0..MaxHistory /\ Len(g) \in 0..MaxHistory
    BY <2>3, UpInHistory
  <2>6. u \in (0..MaxHistory) \X (0..MaxHistory)
    BY <2>4, <2>5
  <2>7. StatusOf(r) \in {"up", "down"}
    BY DEF StatusOf
  <2> HIDE DEF u, g, r, s
  <2>8. uptime' \in [Service -> (0..MaxHistory) \X (0..MaxHistory)]
    BY <2>2, <2>6 DEF SCKept
  <2>9. status' \in [Service -> {"pending", "up", "down"}]
    BY <2>2, <2>7 DEF SCKept
  <2> QED
    BY <1>1, <1>2, <2>2, <2>8, <2>9 DEF SCKept
<1>3. CASE s \notin services
  <2>1. UNCHANGED <<uptime, status, checked>>
    BY <1>3 DEF ProbeEnds
  <2> QED
    BY <1>1, <2>1 DEF SCKept
<1> QED
  BY <1>2, <1>3

LEMMA SCNextKept == ASSUME SCInv, SCKept, [SCNext]_scVars PROVE SCKept'
<1>1. ASSUME NEW s \in Service, NEW i \in Intervals, Create(s, i) PROVE SCKept'
  BY <1>1 DEF Create, SCKept
<1>2. ASSUME NEW s \in Service, NEW i \in Intervals, NEW b \in BOOLEAN, Update(s, i, b) PROVE SCKept'
  <2>1. UNCHANGED <<services, uptime, checked>>
    BY <1>2 DEF Update
  <2>2. status' \in [Service -> {"pending", "up", "down"}]
    BY <1>2 DEF Update, Retarget, SCKept
  <2>3. edits' \in 0..MaxEdits
    BY <1>2, LimitsAssumption DEF Update, SCKept
  <2> QED
    BY <2>1, <2>2, <2>3 DEF SCKept
<1>3. ASSUME NEW s \in Service, Delete(s) PROVE SCKept'
  <2>1. uptime' = [uptime EXCEPT ![s] = <<0, 0>>] /\ <<0, 0>> \in (0..MaxHistory) \X (0..MaxHistory)
    BY <1>3, LimitsAssumption DEF Delete
  <2>2. uptime' \in [Service -> (0..MaxHistory) \X (0..MaxHistory)]
    BY <2>1 DEF SCKept
  <2> QED
    BY <1>3, <2>2 DEF Delete, SCKept
<1>4. CASE RunChecks \/ Tick \/ UNCHANGED scVars
  <2>1. UNCHANGED <<services, status, uptime, checked, edits>>
    BY <1>4 DEF RunChecks, Tick, scVars
  <2> QED
    BY <2>1 DEF SCKept
<1> QED
  BY <1>1, <1>2, <1>3, <1>4, ProbeEndsKeeps DEF SCNext, ProbesEnd

(* Probes, results and uptimes are of services that were stored, and the    *)
(* results are as many as are kept.                                         *)
THEOREM SCTypeCorrect == SCSpec => []SCTypeOK
BY SCInitInv, SCNextInv, SCInitKept, SCNextKept, SCTypes, PTL DEF SCSpec

-----------------------------------------------------------------------------
(* The matrix of probes and servers.                                        *)
LEMMA REInitTyped == REInit => RETypeOK
BY SeedsAssumption DEF REInit, RETypeOK, Known

LEMMA RENextTyped == ASSUME RETypeOK, [RENext]_reVars PROVE RETypeOK'
<1>1. ASSUME NEW s \in Server, CreateServer(s) \/ DeleteServer(s) PROVE RETypeOK'
  <2>1. /\ servers' \subseteq usedServers' /\ usedServers' \subseteq Server
        /\ usedServers \subseteq usedServers'
        /\ UNCHANGED <<probes, usedProbes, reach, stage, todo, cur, left>>
    BY <1>1 DEF CreateServer, DeleteServer, simVars, RETypeOK
  <2>2. \A z \in Server \ usedServers' : Known(z)' = {}
    BY <2>1 DEF RETypeOK, Known
  <2> QED
    BY <2>1, <2>2 DEF RETypeOK
<1>2. ASSUME NEW p \in Probe, CreateProbe(p) PROVE RETypeOK'
  <2>1. /\ probes' \subseteq usedProbes' /\ usedProbes' \subseteq Probe
        /\ usedProbes \subseteq usedProbes'
        /\ UNCHANGED <<servers, usedServers, reach, stage, todo, cur, left>>
    BY <1>2 DEF CreateProbe, simVars, RETypeOK
  <2> QED
    BY <2>1 DEF RETypeOK, Known
<1>3. ASSUME NEW p \in Probe, DeleteProbe(p) PROVE RETypeOK'
  <2>1. /\ probes' = probes \ {p}
        /\ reach' = [s \in Server |-> [reach[s] EXCEPT ![p] = "none"]]
        /\ UNCHANGED <<servers, usedServers, usedProbes, stage, todo, cur, left>>
    BY <1>3 DEF DeleteProbe, simVars
  <2>2. reach' \in [Server -> [Probe -> {"none", "yes", "no"}]]
    BY <2>1 DEF RETypeOK
  <2>3. \A s \in Server \ usedServers' : Known(s)' = {}
    BY <2>1 DEF RETypeOK, Known
  <2> QED
    BY <2>1, <2>2, <2>3 DEF RETypeOK
<1>4. ASSUME NEW p \in Probe, RecordProbe(p) PROVE RETypeOK'
  <2>1. PICK r \in {"yes", "no"} : reach' = [reach EXCEPT ![cur][p] = r]
    BY <1>4 DEF RecordProbe, RecordReach
  <2>2. /\ stage = "probes" /\ left' = left \ {p} /\ cur \in usedServers
        /\ UNCHANGED <<servers, probes, usedServers, usedProbes, stage, todo, cur>>
    BY <1>4 DEF RecordProbe, RETypeOK
  <2>3. reach' \in [Server -> [Probe -> {"none", "yes", "no"}]]
    BY <2>1 DEF RETypeOK
  <2>4. \A s \in Server \ usedServers' : Known(s)' = {}
    BY <2>1, <2>2 DEF RETypeOK, Known
  <2> QED
    BY <2>2, <2>3, <2>4 DEF RETypeOK
<1>5. ASSUME BeginPass \/ EndPass \/ ServerDone \/ (\E s \in Server : NextServer(s)) PROVE RETypeOK'
  <2>1. /\ stage' \in {"idle", "servers", "probes"} /\ todo' \subseteq usedServers'
        /\ left' \subseteq usedProbes'
        /\ IF stage' = "probes" THEN cur' \in usedServers' ELSE cur' = Nobody /\ left' = {}
    BY <1>5 DEF BeginPass, EndPass, ServerDone, NextServer, storeVars, RETypeOK
  <2>2. UNCHANGED <<servers, probes, usedServers, usedProbes, reach>>
    BY <1>5 DEF BeginPass, EndPass, ServerDone, NextServer, storeVars
  <2> QED
    BY <2>1, <2>2 DEF RETypeOK, Known
<1>6. CASE UNCHANGED reVars
  BY <1>6 DEF reVars, storeVars, simVars, RETypeOK, Known
<1> QED
  BY <1>1, <1>2, <1>3, <1>4, <1>5, <1>6 DEF RENext

(* A pass of the simulator only has ids that were stored, and the matrix    *)
(* has no records of servers that never were.                               *)
THEOREM RETypeCorrect == RESpec => []RETypeOK
BY REInitTyped, RENextTyped, PTL DEF RESpec

(* A deleted probe has no record as long as the simulator may still make    *)
(* one for it, and that is for the server it is at.                         *)
OrphanInv ==
  \A p \in Probe \ probes : /\ p \in left => Orphans(p) = {}
                            /\ \A s, t \in Orphans(p) : s = t

LEMMA OrphanInit == REInit => OrphanInv
BY DEF REInit, OrphanInv, Orphans

LEMMA OrphanNext == ASSUME RETypeOK, OrphanInv, [RENext]_reVars PROVE OrphanInv'
<1> SUFFICES ASSUME NEW p \in Probe, p \notin probes'
             PROVE  /\ p \in left' => Orphans(p)' = {}
                    /\ \A s, t \in Orphans(p)' : s = t
  BY DEF OrphanInv
<1>1. CASE DeleteProbe(p)
  <2>1. \A s \in Server : reach'[s][p] = "none"
    BY <1>1 DEF DeleteProbe, RETypeOK
  <2>2. Orphans(p)' = {}
    BY <2>1 DEF Orphans
  <2> QED
    BY <2>2
<1>2. CASE ~ DeleteProbe(p)
  <2>1. p \notin probes
    BY <1>2 DEF RENext, CreateServer, DeleteServer, NextServer, CreateProbe, DeleteProbe, RecordProbe,
                BeginPass, EndPass, ServerDone, reVars, storeVars
  <2>2. /\ p \in left => Orphans(p) = {}
        /\ \A s, t \in Orphans(p) : s = t
    BY <2>1 DEF OrphanInv
  <2>3. CASE RecordProbe(p)
    <3>1. PICK r \in {"yes", "no"} : reach' = [reach EXCEPT ![cur][p] = r]
      BY <2>3 DEF RecordProbe, RecordReach
    <3>2. p \in left /\ left' = left \ {p} /\ UNCHANGED probes
      BY <2>3 DEF RecordProbe
    <3>3. \A s \in Orphans(p)' : s = cur
      BY <2>1, <2>2, <3>1, <3>2 DEF Orphans, RETypeOK
    <3> QED
      BY <3>2, <3>3
  <2>4. CASE ~ RecordProbe(p)
    <3>1. \A s \in Server : reach'[s][p] = reach[s][p]
      <4>1. ASSUME NEW q \in Probe, DeleteProbe(q), q # p PROVE \A s \in Server : reach'[s][p] = reach[s][p]
        BY <4>1 DEF DeleteProbe, RETypeOK
      <4>2. ASSUME NEW q \in Probe, RecordProbe(q), q # p PROVE \A s \in Server : reach'[s][p] = reach[s][p]
        BY <4>2 DEF RecordProbe, RecordReach, RETypeOK
      <4>3. CASE UNCHANGED reach
        BY <4>3
      <4> QED
        BY <1>2, <2>4, <4>1, <4>2, <4>3
           DEF RENext, CreateServer, DeleteServer, NextServer, CreateProbe, BeginPass, EndPass, ServerDone,
               reVars, storeVars
    <3>2. left' \subseteq left \cup probes
      BY DEF RENext, CreateServer, DeleteServer, NextServer, CreateProbe, DeleteProbe, RecordProbe,
             BeginPass, EndPass, ServerDone, reVars, simVars
    <3>3. Orphans(p)' = Orphans(p)
      BY <2>1, <3>1 DEF Orphans
    <3> QED
      BY <2>1, <2>2, <3>2, <3>3
  <2> QED
    BY <2>3, <2>4
<1> QED
  BY <1>1, <1>2

(* DeleteProbe does not remove all records ("removes a probe and its        *)
(* reachability records", probe_store.go:83), but at most one of a probe    *)
(* stays, however many servers there are and whatever is deleted meanwhile. *)
THEOREM DeletedProbeLeavesOne == RESpec => []OneOrphanAtMost
<1>1. RETypeOK /\ OrphanInv => OneOrphanAtMost
  <2> SUFFICES ASSUME OrphanInv, NEW p \in Probe, NEW s \in Orphans(p), NEW t \in Orphans(p) PROVE s = t
    BY DEF OneOrphanAtMost
  <2> QED
    BY DEF OrphanInv, Orphans
<1> QED
  BY REInitTyped, RENextTyped, OrphanInit, OrphanNext, <1>1, PTL DEF RESpec

-----------------------------------------------------------------------------
(* The web terminal: a handler has an SSH connection from the dial on.      *)
TMLInv == TMLTypeOK /\ (bridge = "session" => ssh)

LEMMA TMLInitInv == TMLInit => TMLInv
BY TerminalLimits DEF TMLInit, TMLInv, TMLTypeOK

LEMMA TMLNextInv == ASSUME TMLInv, [TMLNext]_tmlVars PROVE TMLInv'
<1>1. page' \in {"loading", "open", "left"} /\ sock' \in {"none", "open", "left", "shut", "broken", "dead"}
  BY DEF TMLInv, TMLTypeOK, TMLNext, Loaded, Leave, Type, OnMessage, Break, KeepAliveFails, Bridge, LookUp,
         Dial, Setup, StartShell, SetupFails, CheckDone, ReadMessage, ReadFails, WriteStdin,
         WriteStdinFails, Return, Copier, StdoutEnds, WriteMessage, WriteMessageFails, ReadStdout,
         ShellReads, ShellEnds, GoesMute, Over, tmlVars
<1>2. keys' \in 0..Wire /\ screen' \in 0..Wire /\ backlog' \in 0..Window
  <2>1. /\ keys \in 0..Wire /\ screen \in 0..Wire /\ backlog \in 0..Window
        /\ Wire \in Nat /\ Window \in Nat
    BY TerminalLimits DEF TMLInv, TMLTypeOK
  <2>2. keys' = keys \/ (keys < Wire /\ keys' = keys + 1) \/ (keys > 0 /\ keys' = keys - 1)
    BY DEF TMLNext, Loaded, Leave, Type, OnMessage, Break, KeepAliveFails, Bridge, LookUp,
           Dial, Setup, StartShell, SetupFails, CheckDone, ReadMessage, ReadFails, WriteStdin,
           WriteStdinFails, Return, Copier, StdoutEnds, WriteMessage, WriteMessageFails, ReadStdout,
           ShellReads, ShellEnds, GoesMute, Over, tmlVars
  <2>3. screen' = screen \/ (screen < Wire /\ screen' = screen + 1) \/ (screen > 0 /\ screen' = screen - 1)
    BY DEF TMLNext, Loaded, Leave, Type, OnMessage, Break, KeepAliveFails, Bridge, LookUp,
           Dial, Setup, StartShell, SetupFails, CheckDone, ReadMessage, ReadFails, WriteStdin,
           WriteStdinFails, Return, Copier, StdoutEnds, WriteMessage, WriteMessageFails, ReadStdout,
           ShellReads, ShellEnds, GoesMute, Over, tmlVars
  <2>4. \/ backlog' = backlog \/ (backlog < Window /\ backlog' = backlog + 1)
        \/ (backlog > 0 /\ backlog' = backlog - 1)
    BY DEF TMLNext, Loaded, Leave, Type, OnMessage, Break, KeepAliveFails, Bridge, LookUp,
           Dial, Setup, StartShell, SetupFails, CheckDone, ReadMessage, ReadFails, WriteStdin,
           WriteStdinFails, Return, Copier, StdoutEnds, WriteMessage, WriteMessageFails, ReadStdout,
           ShellReads, ShellEnds, GoesMute, Over, tmlVars
  <2> QED
    BY <2>1, <2>2, <2>3, <2>4
<1>3. copier' # "none" <=> shell' # "none"
  BY DEF TMLInv, TMLTypeOK, TMLNext, Loaded, Leave, Type, OnMessage, Break, KeepAliveFails, Bridge, LookUp,
         Dial, Setup, StartShell, SetupFails, CheckDone, ReadMessage, ReadFails, WriteStdin,
         WriteStdinFails, Return, Copier, StdoutEnds, WriteMessage, WriteMessageFails, ReadStdout,
         ShellReads, ShellEnds, GoesMute, Over, tmlVars, panelVars
<1>4. bridge' \in {"session", "check", "read", "write"} => ssh'
  <2>1. CASE Return
    BY <2>1 DEF Return
  <2>2. CASE LookUp \/ Dial \/ StartShell \/ SetupFails \/ CheckDone \/ ReadMessage \/ ReadFails
             \/ WriteStdin \/ WriteStdinFails
    BY <2>2 DEF TMLInv, TMLTypeOK, LookUp, Dial, Setup, StartShell, SetupFails, CheckDone, ReadMessage,
                ReadFails, WriteStdin, WriteStdinFails
  <2>3. CASE Loaded
    BY <2>3 DEF Loaded
  <2>4. CASE UNCHANGED <<bridge, ssh>>
    BY <2>4 DEF TMLInv, TMLTypeOK
  <2>5. CASE \/ Leave \/ Type \/ OnMessage \/ Break \/ KeepAliveFails \/ Copier \/ ReadStdout \/ ShellReads
             \/ ShellEnds \/ GoesMute \/ Over \/ UNCHANGED tmlVars
    BY <2>4, <2>5 DEF Leave, Type, OnMessage, Break, KeepAliveFails, Copier, StdoutEnds, WriteMessage,
         WriteMessageFails, ReadStdout, ShellReads, ShellEnds, GoesMute, Over, tmlVars, panelVars
  <2> QED
    BY <2>1, <2>2, <2>3, <2>5 DEF TMLNext, Bridge
<1> QED
  BY <1>1, <1>2, <1>3, <1>4 DEF TMLInv, TMLTypeOK

(* Both directions of the WebSocket and the shell's input keep within their *)
(* room, every shell has its copier, and keys go to a connection only.      *)
THEOREM TMLTypeCorrect == TMLSpec => []TMLTypeOK
<1>1. TMLInv => TMLTypeOK
  BY DEF TMLInv
<1> QED
  BY TMLInitInv, TMLNextInv, <1>1, PTL DEF TMLSpec

-----------------------------------------------------------------------------
(* Whatever ends a terminal (the lookup, the dial, the shell, either end of *)
(* the socket), its handler's deferred calls leave nothing open on the      *)
(* server, and the goroutine that copies the shell's output, which may      *)
(* outlive the handler, finds its shell ended and its socket closed         *)
(* (webssh.go:38-140).                                                      *)
THEOREM TerminalClosesAll == TMLSpec => []NothingLeftOpen
<1>1. TMLInit => NothingLeftOpen
  BY DEF TMLInit, NothingLeftOpen
<1>2. NothingLeftOpen /\ [TMLNext]_tmlVars => NothingLeftOpen'
  <2> SUFFICES ASSUME NothingLeftOpen, [TMLNext]_tmlVars PROVE NothingLeftOpen'
    OBVIOUS
  <2>1. CASE Loaded \/ Leave \/ Break \/ KeepAliveFails
    BY <2>1 DEF Loaded, Leave, Break, KeepAliveFails, panelVars, NothingLeftOpen
  <2>2. CASE Return
    BY <2>2 DEF Return, NothingLeftOpen
  <2>3. CASE LookUp \/ Dial \/ StartShell \/ SetupFails \/ CheckDone \/ ReadMessage \/ ReadFails
             \/ WriteStdin \/ WriteStdinFails
    BY <2>3 DEF LookUp, Dial, Setup, StartShell, SetupFails, CheckDone, ReadMessage, ReadFails,
                WriteStdin, WriteStdinFails, NothingLeftOpen
  <2>4. CASE ShellEnds
    BY <2>4 DEF ShellEnds, panelVars, NothingLeftOpen
  <2>5. CASE \/ Type \/ OnMessage \/ Copier \/ ReadStdout \/ ShellReads \/ GoesMute \/ Over
             \/ UNCHANGED tmlVars
    <3>1. UNCHANGED <<page, sock, bridge, ssh, shell>>
      BY <2>5 DEF Type, OnMessage, Copier, StdoutEnds, WriteMessage, WriteMessageFails, ReadStdout,
                  ShellReads, GoesMute, Over, tmlVars, panelVars
    <3> QED
      BY <3>1 DEF NothingLeftOpen
  <2> QED
    BY <2>1, <2>2, <2>3, <2>4, <2>5 DEF TMLNext, Bridge
<1> QED
  BY <1>1, <1>2, PTL DEF TMLSpec

-----------------------------------------------------------------------------
(* The admin's tab.  The restore that is due has not asked for the user yet.*)
SEInv == SETypeOK /\ issued \in Nat /\ (due => me = Idle)

LEMMA SEInitInv == SEInit => SEInv
<1> SUFFICES ASSUME SEInit PROVE SEInv
  OBVIOUS
<1>1. /\ cookie \in NoToken..issued /\ issued \in Nat
      /\ live \subseteq 1..issued /\ known \subseteq 1..issued
      /\ me \in Idle..issued /\ data \in Idle..issued
  BY DEF SEInit, NoToken, Idle
<1>2. /\ at = "public" /\ going = "stay" /\ form = "none" /\ user = FALSE
      /\ reload = FALSE /\ due = FALSE
  BY DEF SEInit
<1> QED
  BY <1>1, <1>2 DEF SEInv, SETypeOK

(* Tokens are issued one after the other, and requests carry one of them.   *)
LEMMA TokensNext ==
  ASSUME SEInv, [SENext]_seVars
  PROVE  /\ issued' \in Nat /\ cookie' \in NoToken..issued'
         /\ live' \subseteq 1..issued' /\ known' \subseteq 1..issued'
         /\ me' \in Idle..issued' /\ data' \in Idle..issued'
<1>0. /\ issued \in Nat /\ cookie \in NoToken..issued /\ live \subseteq 1..issued
      /\ known \subseteq 1..issued /\ me \in Idle..issued /\ data \in Idle..issued
  BY DEF SEInv, SETypeOK
<1>1. CASE LoginElsewhere \/ LoggedIn
  <2>1. /\ issued' = issued + 1 /\ cookie' = issued' /\ live' = live \cup {issued'}
        /\ known' = known \cup {issued'} /\ UNCHANGED <<me, data>>
    BY <1>1 DEF LoginElsewhere, LoggedIn, reqVars
  <2> QED
    BY <1>0, <2>1 DEF NoToken, Idle
<1>2. CASE ~ (LoginElsewhere \/ LoggedIn)
  <2>1. UNCHANGED issued /\ live' \subseteq live /\ known' \subseteq known /\ cookie' \in {cookie, NoToken}
    BY <1>2 DEF SENext, Expire, CookieExpires, PanelRestart, ClearedElsewhere, Visit, Navigation,
       Redirected, Arrive, Restore, Refresh, Poll, SubmitLogin, Logout, UserRequest, UserAnswered,
       UserRefused, On401, UserUnreachable, DataAnswered, FormRequest, LoginFails, LoggedOut, seVars, tokenVars
  <2>2. me' \in {me, cookie, Idle} /\ data' \in {data, cookie, Idle}
    BY <1>2 DEF SENext, Expire, CookieExpires, PanelRestart, ClearedElsewhere, Visit, Navigation,
       Redirected, Arrive, Restore, Refresh, Poll, SubmitLogin, Logout, UserRequest, UserAnswered,
       UserRefused, On401, UserUnreachable, DataAnswered, FormRequest, LoginFails, LoggedOut, seVars, reqVars
  <2>3. NoToken \in NoToken..issued /\ Idle \in Idle..issued /\ cookie \in Idle..issued
    BY <1>0 DEF NoToken, Idle
  <2> QED
    BY <1>0, <2>1, <2>2, <2>3
<1> QED
  BY <1>1, <1>2

(* Only an arrival ends a way, and every full load goes somewhere.          *)
LEMMA PlacesNext ==
  ASSUME SEInv, [SENext]_seVars
  PROVE  /\ at' \in {"public", "login", "panel"} /\ going' \in {"stay", "public", "login", "panel"}
         /\ reload' => going' # "stay"
<1>0. /\ at \in {"public", "login", "panel"} /\ going \in {"stay", "public", "login", "panel"}
      /\ reload => going # "stay"
  BY DEF SEInv, SETypeOK
<1>1. CASE Arrive
  BY <1>0, <1>1 DEF Arrive
<1>2. CASE Redirected
  BY <1>0, <1>2 DEF Redirected, Gate
<1>3. ASSUME NEW p \in {"public", "login", "panel"}, Visit(p)
      PROVE  at' = at /\ going' = p /\ reload' = TRUE
  BY <1>3 DEF Visit
<1>4. CASE UserRefused \/ DataAnswered
  <2>1. \/ UNCHANGED <<at, going, reload>>
        \/ at' = at /\ going' = "login"
    BY <1>4 DEF UserRefused, DataAnswered, On401, navVars
  <2> QED
    BY <1>0, <2>1
<1>5. CASE LoggedIn \/ LoggedOut
  BY <1>0, <1>5 DEF LoggedIn, LoggedOut
<1>6. CASE \/ (\E k \in live : Expire(k)) \/ CookieExpires \/ PanelRestart \/ LoginElsewhere
           \/ ClearedElsewhere \/ Restore \/ Refresh \/ Poll \/ SubmitLogin \/ Logout
           \/ UserAnswered \/ UserUnreachable \/ LoginFails \/ UNCHANGED seVars
  <2>1. UNCHANGED <<at, going, reload>>
    BY <1>6 DEF Expire, CookieExpires, PanelRestart, LoginElsewhere, ClearedElsewhere, Restore, Refresh,
       Poll, SubmitLogin, Logout, UserAnswered, UserUnreachable, LoginFails, seVars, navVars
  <2> QED
    BY <1>0, <2>1
<1> QED
  BY <1>0, <1>1, <1>2, <1>3, <1>4, <1>5, <1>6 DEF SENext, Navigation, UserRequest, FormRequest

(* Answers about the user come after the restore has asked.                 *)
LEMMA StateNext ==
  ASSUME SEInv, [SENext]_seVars
  PROVE  /\ (due' => restoring') /\ (due' => me' = Idle)
         /\ user' \in BOOLEAN /\ form' \in {"none", "login", "logout"}
<1>0. /\ due => restoring /\ me = Idle
      /\ user \in BOOLEAN /\ form \in {"none", "login", "logout"}
  BY DEF SEInv, SETypeOK
<1>1. user' \in {user, TRUE, FALSE} /\ form' \in {form, "none", "login", "logout"}
  BY DEF SENext, Expire, CookieExpires, PanelRestart, LoginElsewhere, ClearedElsewhere, Visit, Navigation,
     Redirected, Arrive, Restore, Refresh, Poll, SubmitLogin, Logout, UserRequest, UserAnswered,
     UserRefused, UserUnreachable, DataAnswered, FormRequest, LoggedIn, LoginFails, LoggedOut,
     seVars, stateVars, reqVars
<1> DEFINE Asked == due' => restoring' /\ me' = Idle
<1>2. ASSUME Arrive PROVE Asked
  BY <1>0, <1>2 DEF Arrive, stateVars, reqVars
<1>3. ASSUME Restore PROVE Asked
  BY <1>3 DEF Restore
<1>4. ASSUME Refresh PROVE Asked
  BY <1>0, <1>4 DEF Refresh, stateVars
<1>5. ASSUME UserAnswered \/ UserRefused \/ UserUnreachable PROVE Asked
  <2>1. me # Idle
    BY <1>5 DEF UserAnswered, UserRefused, UserUnreachable, SEInv, SETypeOK, Idle
  <2>2. ~ due'
    BY <1>0, <1>5, <2>1 DEF UserAnswered, UserRefused, UserUnreachable
  <2> QED
    BY <2>2
<1>6. ASSUME \/ (\E k \in live : Expire(k)) \/ CookieExpires \/ PanelRestart \/ LoginElsewhere
             \/ ClearedElsewhere \/ (\E p \in {"public", "login", "panel"} : Visit(p)) \/ Redirected
             \/ Poll \/ SubmitLogin \/ Logout \/ DataAnswered \/ FormRequest \/ UNCHANGED seVars
      PROVE  Asked
  <2>1. UNCHANGED <<due, restoring, me>>
    BY <1>6 DEF Expire, CookieExpires, PanelRestart, LoginElsewhere, ClearedElsewhere, Visit, Redirected,
       Poll, SubmitLogin, Logout, DataAnswered, FormRequest, LoggedIn, LoginFails, LoggedOut,
       seVars, stateVars, reqVars
  <2> QED
    BY <1>0, <2>1
<1>7. Asked
  BY <1>2, <1>3, <1>4, <1>5, <1>6 DEF SENext, Navigation, UserRequest
<1> QED
  BY <1>0, <1>1, <1>7

LEMMA SENextInv == ASSUME SEInv, [SENext]_seVars PROVE SEInv'
BY TokensNext, PlacesNext, StateNext DEF SEInv, SETypeOK

(* The tokens in use were issued, and a full load is on its way somewhere,  *)
(* whatever other tabs do to the cookie (lib/api/client.ts, middleware.ts). *)
THEOREM SETypeCorrect == SESpec => []SETypeOK
<1>1. SEInv => SETypeOK
  BY DEF SEInv
<1> QED
  BY SEInitInv, SENextInv, <1>1, PTL DEF SESpec

(* A restore that is due becomes a request, and only what ends the request  *)
(* or finds no token ends the loading; nothing else takes the request away  *)
(* while the tab waits for it, but a full load, after which it is due anew  *)
(* (lib/auth/context.tsx).                                                  *)
THEOREM LoadingIsAnswered == SESpec => []RestoreUnderWay
<1>1. SEInit => RestoreUnderWay
  BY DEF SEInit, RestoreUnderWay
<1>2. SEInv /\ RestoreUnderWay /\ [SENext]_seVars => RestoreUnderWay'
  <2> SUFFICES ASSUME SEInv, RestoreUnderWay, [SENext]_seVars PROVE RestoreUnderWay'
    OBVIOUS
  <2>1. CASE Arrive
    BY <2>1 DEF Arrive, stateVars, reqVars, RestoreUnderWay
  <2>2. CASE Restore
    <3>1. cookie # Idle
      BY DEF SEInv, SETypeOK, NoToken, Idle
    <3> QED
      BY <2>2, <3>1 DEF Restore, SEInv, SETypeOK, RestoreUnderWay
  <2>3. CASE Refresh \/ UserAnswered \/ UserRefused \/ UserUnreachable
    <3>1. restoring' = FALSE
      BY <2>3 DEF Refresh, UserAnswered, UserRefused, UserUnreachable, stateVars
    <3> QED
      BY <3>1 DEF RestoreUnderWay
  <2>4. CASE \/ (\E k \in live : Expire(k)) \/ CookieExpires \/ PanelRestart \/ LoginElsewhere
             \/ ClearedElsewhere \/ (\E p \in {"public", "login", "panel"} : Visit(p)) \/ Redirected
             \/ Poll \/ SubmitLogin \/ Logout \/ DataAnswered \/ FormRequest \/ UNCHANGED seVars
    <3>1. UNCHANGED <<due, restoring, me>>
      BY <2>4 DEF Expire, CookieExpires, PanelRestart, LoginElsewhere, ClearedElsewhere, Visit, Redirected,
         Poll, SubmitLogin, Logout, DataAnswered, FormRequest, LoggedIn, LoginFails, LoggedOut,
         seVars, stateVars, reqVars
    <3> QED
      BY <3>1 DEF RestoreUnderWay
  <2> QED
    BY <2>1, <2>2, <2>3, <2>4 DEF SENext, Navigation, UserRequest
<1> QED
  BY SEInitInv, SENextInv, <1>1, <1>2, PTL DEF SESpec

-----------------------------------------------------------------------------
(* The parts together: each moves with the others at rest.                  *)
LEMMA ProgressParts == Spec => SCSpec /\ RESpec /\ TMLSpec /\ SESpec
<1>1. Init => SCInit /\ REInit /\ TMLInit /\ SEInit
  BY DEF Init
<1>2. ASSUME [Services \/ Probes \/ WebTerminal \/ AdminTab]_vars
      PROVE  [SCNext]_scVars /\ [RENext]_reVars /\ [TMLNext]_tmlVars /\ [SENext]_seVars
  BY <1>2 DEF Services, Probes, WebTerminal, AdminTab, vars
<1> QED
  BY <1>1, <1>2, PTL DEF Spec, SCSpec, RESpec, TMLSpec, SESpec

(* Everything that these parts keep has its type, for all services, probes, *)
(* servers and limits.                                                      *)
THEOREM ProgressTypeCorrect == Spec => []ProgressTypeOK
BY ProgressParts, SCTypeCorrect, RETypeCorrect, TMLTypeCorrect, SETypeCorrect, PTL DEF ProgressTypeOK

(* Services show what their checks found and are checked in time, of a      *)
(* deleted probe at most one record stays, a terminal leaves nothing open,  *)
(* and a tab that is loading is waiting for an answer: whichever part moves.*)
THEOREM ProgressSafe ==
  Spec => [](/\ ShownIsRecorded /\ CheckedInTime /\ OneOrphanAtMost
             /\ NothingLeftOpen /\ RestoreUnderWay)
BY ProgressParts, ServiceShowsRecords, ServicesCheckedInTime, DeletedProbeLeavesOne,
   TerminalClosesAll, LoadingIsAnswered, PTL
=============================================================================
