------------------------- MODULE EnricherRun_proofs -------------------------
(***************************************************************************)
(* Proofs about runEnricher: any number of runs over any number of keys,   *)
(* sources and callers, one shared cache and one shared governor, whatever *)
(* the deadlines, the lifetimes and the faults allowed.  What the governor *)
(* decides and how its state evolves is left open here: these results do   *)
(* not depend on it (GovernorUse_proofs is about that).                    *)
(***************************************************************************)
EXTENDS EnricherRun, TLAPS

(* RuntimeDegradation codes: what the infrastructure, not the source, did. *)
Degradation ==
  {"governor-error", "cache-key-error", "cache-ttl-error", "cache-read-error",
   "cache-write-error"}

(* Where the variables range, with the cache's lifetimes left open. *)
RunTyped ==
  /\ pc \in [RunId -> Pc]
  /\ lookup \in [RunId -> Lookup]
  /\ served \in [RunId -> RunId \cup {NoReport}]
  /\ answer \in [RunId -> Answer]
  /\ write \in [RunId -> Write]
  /\ degradations \in [RunId -> SUBSET Degradation]
  /\ result = [r \in RunId |-> result[r]]
  /\ admitted \in [RunId -> {0, 1}]
  /\ recorded \in [RunId -> {0, 1}]
  /\ store = [k \in Key |-> store[k]]
  /\ \A k \in Key : store[k].report \in RunId \cup {NoReport}
  /\ lateWrites \subseteq RunId

(***************************************************************************)
(* How far a run is says what it has asked of the governor, of the store   *)
(* and of the provider, and what it has to answer for.                     *)
(***************************************************************************)
Counted(r) ==
  /\ pc[r] \in {"idle", "reading", "read"} => admitted[r] = 0 /\ recorded[r] = 0
  /\ pc[r] \in {"enriching", "raced"} => admitted[r] = 1 /\ recorded[r] = 0
  /\ pc[r] \in {"writing", "written"} => admitted[r] = 1 /\ recorded[r] = 1
  /\ pc[r] = "returned" => recorded[r] = admitted[r]
  /\ lookup[r] \in {"hit", "rubbish"} => admitted[r] = 0

Progress(r) ==
  /\ pc[r] \in {"idle", "reading"} => lookup[r] = "none"
  /\ answer[r] # "none" => pc[r] \in {"raced", "writing", "written", "returned"}
  /\ pc[r] \in {"writing", "written"} => answer[r] = "clean"
  /\ write[r] # "none" => pc[r] \in {"written", "returned"}
  /\ pc[r] # "returned" => result[r] = NoResult
  /\ (lookup[r] \in {"threw", "timed-out"}
      /\ pc[r] \in {"enriching", "raced", "writing", "written"})
        => "cache-read-error" \in degradations[r]

(* What a returned run reports, from its own answer or from a hit. *)
Reported(r) ==
  (pc[r] = "returned" /\ result[r].statuses \subseteq {"success"}) =>
    /\ answer[r] = "clean" \/ lookup[r] = "hit"
    /\ lookup[r] \notin {"threw", "timed-out", "rubbish"}
    /\ write[r] \notin {"threw", "timed-out"}

Local(r) == Counted(r) /\ Progress(r) /\ Reported(r)

(* A report in the store, or on its way there, is a completed run's. *)
Completed(w, k) ==
  /\ keyOf[w] = k
  /\ answer[w] = "clean"
  /\ pc[w] \in {"written", "returned"}
  /\ pc[w] = "returned" =>
       /\ "success" \in result[w].statuses
       /\ result[w].causes \cap {"caller-aborted", "timeout", "source-error"} = {}

ServedIsClean(r) ==
  lookup[r] = "hit" =>
    /\ served[r] \in RunId
    /\ answer[served[r]] = "clean"
    /\ keyOf[served[r]] = keyOf[r]

Stored ==
  /\ \A k \in Key : store[k].report \in RunId => Completed(store[k].report, k)
  /\ \A w \in lateWrites : Completed(w, keyOf[w])

(***************************************************************************)
(* The inductive invariant.                                                *)
(***************************************************************************)
RunInv ==
  /\ RunTyped
  /\ \A r \in RunId : Local(r) /\ ServedIsClean(r)
  /\ Stored

-----------------------------------------------------------------------------
(* A step of run r leaves what the other runs have gone through alone. *)
Alone(r) ==
  \A s \in RunId : s # r =>
    /\ pc'[s] = pc[s] /\ lookup'[s] = lookup[s] /\ served'[s] = served[s]
    /\ answer'[s] = answer[s] /\ write'[s] = write[s]
    /\ degradations'[s] = degradations[s] /\ result'[s] = result[s]
    /\ admitted'[s] = admitted[s] /\ recorded'[s] = recorded[s]

(* What is new in the store, or on its way there, is r's completed report. *)
StoreMoves(r) ==
  /\ \A k \in Key : store'[k].report \in RunId =>
       \/ store'[k].report = store[k].report
       \/ store'[k].report = r /\ Completed(r, k)'
  /\ \A w \in lateWrites' : w \in lateWrites \/ (w = r /\ Completed(w, keyOf[w])')

(* The obligations that are left once a step is seen to be a step of r. *)
LEMMA OneRunMoves ==
  ASSUME RunInv, RunTyped', NEW r \in RunId, Alone(r),
         Local(r)', ServedIsClean(r)',
         answer[r] = "clean" => answer'[r] = "clean",
         \A k \in Key : Completed(r, k) => Completed(r, k)',
         StoreMoves(r)
  PROVE  RunInv'
<1>1. ASSUME NEW s \in RunId, s # r
      PROVE  Local(s)'
  <2>1. Local(s)
    BY DEF RunInv
  <2>2. /\ pc'[s] = pc[s] /\ lookup'[s] = lookup[s]
        /\ answer'[s] = answer[s] /\ write'[s] = write[s]
        /\ degradations'[s] = degradations[s] /\ result'[s] = result[s]
        /\ admitted'[s] = admitted[s] /\ recorded'[s] = recorded[s]
    BY <1>1 DEF Alone
  <2> QED
    BY <2>1, <2>2 DEF Local, Counted, Progress, Reported
<1>2. ASSUME NEW s \in RunId, s # r
      PROVE  ServedIsClean(s)'
  <2>1. ServedIsClean(s)
    BY DEF RunInv
  <2>2. lookup'[s] = lookup[s] /\ served'[s] = served[s]
    BY <1>2 DEF Alone
  <2>3. \A w \in RunId : answer[w] = "clean" => answer'[w] = "clean"
    BY DEF Alone
  <2> QED
    BY <2>1, <2>2, <2>3 DEF ServedIsClean
<1>3. ASSUME NEW w \in RunId, NEW k \in Key, Completed(w, k)
      PROVE  Completed(w, k)'
  <2>1. CASE w = r
    BY <1>3, <2>1
  <2>2. CASE w # r
    BY <1>3, <2>2 DEF Alone, Completed
  <2> QED
    BY <2>1, <2>2
<1>4. Stored'
  <2>1. ASSUME NEW k \in Key, store'[k].report \in RunId
        PROVE  Completed(store[k].report, k)'
    <3>1. CASE store'[k].report = store[k].report
      BY <1>3, <2>1, <3>1 DEF RunInv, Stored
    <3>2. CASE store'[k].report = r /\ Completed(r, k)'
      BY <3>2 DEF Completed
    <3> QED
      BY <2>1, <3>1, <3>2 DEF StoreMoves
  <2>2. ASSUME NEW w \in lateWrites'
        PROVE  Completed(w, keyOf[w])'
    <3>1. w \in RunId /\ keyOf[w] \in Key
      BY RunAssumption DEF RunTyped
    <3>2. CASE w \in lateWrites
      BY <1>3, <3>1, <3>2 DEF RunInv, Stored
    <3> QED
      BY <3>2 DEF StoreMoves
  <2> QED
    BY <2>1, <2>2 DEF Stored
<1> QED
  BY <1>1, <1>2, <1>4 DEF RunInv

(* A step that leaves the store alone and does not start from the end. *)
LEMMA OneRunAdvances ==
  ASSUME RunInv, RunTyped', NEW r \in RunId, Alone(r),
         Local(r)', ServedIsClean(r)',
         pc[r] \notin {"written", "returned"},
         answer[r] = "clean" => answer'[r] = "clean",
         store' = store, lateWrites' = lateWrites
  PROVE  RunInv'
<1>1. \A k \in Key : ~ Completed(r, k)
  BY DEF Completed
<1>2. StoreMoves(r)
  BY DEF StoreMoves
<1> QED
  BY <1>1, <1>2, OneRunMoves

(* What Return leaves behind. *)
LEMMA ReturnFacts ==
  ASSUME RunTyped, NEW r \in RunId, NEW st, NEW ca, NEW dg \in SUBSET Degradation,
         Return(r, st, ca, dg)
  PROVE  /\ pc' \in [RunId -> Pc] /\ degradations' \in [RunId -> SUBSET Degradation]
         /\ result' = [s \in RunId |-> result'[s]]
         /\ pc'[r] = "returned" /\ degradations'[r] = dg
         /\ result'[r].statuses = st \cup (IF dg = {} THEN {} ELSE {"failure"})
         /\ result'[r].causes = ca \cup dg
         /\ \A s \in RunId : s # r =>
              /\ pc'[s] = pc[s] /\ degradations'[s] = degradations[s]
              /\ result'[s] = result[s]
<1>1. pc' = [pc EXCEPT ![r] = "returned"] /\ degradations' = [degradations EXCEPT ![r] = dg]
  BY DEF Return
<1>2. PICK w : /\ w = withDegradations(st, ca, dg)
               /\ result' = [result EXCEPT ![r] = w]
  BY DEF Return
<1>3. /\ w.statuses = st \cup (IF dg = {} THEN {} ELSE {"failure"})
      /\ w.causes = ca \cup dg
  BY <1>2 DEF withDegradations
<1>4. result = [s \in RunId |-> result[s]]
  BY DEF RunTyped
<1>5. /\ result'[r] = w /\ result' = [s \in RunId |-> result'[s]]
      /\ \A s \in RunId : s # r => result'[s] = result[s]
  BY <1>2, <1>4
<1>6. "returned" \in Pc
  BY DEF Pc
<1> QED
  BY <1>1, <1>3, <1>5, <1>6 DEF RunTyped

(* What every step of a run knows of the run it moves. *)
LEMMA RunFacts ==
  ASSUME RunInv, NEW r \in RunId
  PROVE  /\ RunTyped /\ Counted(r) /\ Progress(r) /\ Reported(r) /\ ServedIsClean(r)
         /\ pc[r] \in Pc /\ lookup[r] \in Lookup /\ answer[r] \in Answer
         /\ write[r] \in Write /\ degradations[r] \subseteq Degradation
         /\ admitted[r] \in {0, 1} /\ recorded[r] \in {0, 1}
  BY DEF RunInv, RunTyped, Local

(* Admission ends the run or begins its provider race, and counts once. *)
LEMMA AdmissionStep ==
  ASSUME RunInv, NEW r \in RunId, NEW dg \in SUBSET Degradation,
         Admission(r, dg), pc[r] \in {"idle", "read"},
         lookup[r] \notin {"hit", "rubbish"},
         lookup[r] \in {"threw", "timed-out"} => "cache-read-error" \in dg,
         UNCHANGED <<store, raceVars, lateWrites>>
  PROVE  RunInv'
<1>0. /\ RunTyped /\ Counted(r) /\ Progress(r) /\ ServedIsClean(r)
      /\ admitted[r] = 0 /\ recorded[r] = 0 /\ answer[r] = "none" /\ write[r] = "none"
  BY RunFacts DEF Counted, Progress
<1>u. /\ store' = store /\ lookup' = lookup /\ served' = served /\ answer' = answer
      /\ write' = write /\ lateWrites' = lateWrites
  BY DEF raceVars
<1>s. ServedIsClean(r)'
  BY <1>0, <1>u DEF ServedIsClean
<1>1. ASSUME NEW st, NEW ca, Return(r, st, ca, dg), ~ (st \subseteq {"success"}),
             UNCHANGED countVars
      PROVE  RunInv'
  <2>1. /\ pc' \in [RunId -> Pc] /\ degradations' \in [RunId -> SUBSET Degradation]
        /\ result' = [s \in RunId |-> result'[s]]
        /\ pc'[r] = "returned" /\ degradations'[r] = dg
        /\ result'[r].statuses = st \cup (IF dg = {} THEN {} ELSE {"failure"})
        /\ \A s \in RunId : s # r =>
              /\ pc'[s] = pc[s] /\ degradations'[s] = degradations[s]
              /\ result'[s] = result[s]
    BY <1>0, <1>1, ReturnFacts
  <2>2. admitted' = admitted /\ recorded' = recorded
    BY <1>1 DEF countVars
  <2>3. RunTyped'
    BY <1>0, <1>u, <2>1, <2>2 DEF RunTyped
  <2>4. Alone(r)
    BY <1>u, <2>1, <2>2 DEF Alone
  <2>5. Counted(r)' /\ Progress(r)'
    BY <1>0, <1>u, <2>1, <2>2 DEF Counted, Progress
  <2>6. Reported(r)'
    BY <1>1, <2>1 DEF Reported
  <2> QED
    BY <1>0, <1>u, <1>s, <2>3, <2>4, <2>5, <2>6, OneRunAdvances DEF Local
<1>2. CASE GovernorThrows(r, dg)
  <2>1. ~ ({"failure"} \subseteq {"success"})
    OBVIOUS
  <2> QED
    BY <1>1, <1>2, <2>1 DEF GovernorThrows
<1>3. CASE GovernorDenies(r, dg)
  <2>1. ~ ({"skipped"} \subseteq {"success"})
    OBVIOUS
  <2> QED
    BY <1>1, <1>3, <2>1 DEF GovernorDenies
<1>4. CASE GovernorAdmits(r, dg)
  <2>1. /\ pc' = [pc EXCEPT ![r] = "enriching"]
        /\ degradations' = [degradations EXCEPT ![r] = dg]
        /\ admitted' = [admitted EXCEPT ![r] = admitted[r] + 1]
        /\ result' = result /\ recorded' = recorded
    BY <1>4 DEF GovernorAdmits
  <2>2. /\ pc'[r] = "enriching" /\ degradations'[r] = dg /\ admitted'[r] = 1
        /\ pc' \in [RunId -> Pc] /\ degradations' \in [RunId -> SUBSET Degradation]
        /\ admitted' \in [RunId -> {0, 1}]
    BY <1>0, <2>1 DEF RunTyped, Pc
  <2>3. RunTyped'
    BY <1>0, <1>u, <2>1, <2>2 DEF RunTyped
  <2>4. Alone(r)
    BY <1>0, <1>u, <2>1 DEF Alone, RunTyped
  <2>5. Counted(r)' /\ Progress(r)' /\ Reported(r)'
    BY <1>0, <1>u, <2>1, <2>2 DEF Counted, Progress, Reported
  <2> QED
    BY <1>0, <1>u, <1>s, <2>3, <2>4, <2>5, OneRunAdvances DEF Local
<1> QED
  BY <1>2, <1>3, <1>4 DEF Admission

(* A step that returns without touching the governor or the store. *)
LEMMA ReturnStep ==
  ASSUME RunInv, NEW r \in RunId, NEW st, NEW ca,
         NEW dg \in SUBSET Degradation, Return(r, st, ca, dg),
         pc[r] \in {"idle", "read"},
         st \subseteq {"success"} => lookup[r] = "hit",
         UNCHANGED <<store, raceVars, lateWrites, countVars>>
  PROVE  RunInv'
<1>0. /\ RunTyped /\ Counted(r) /\ Progress(r) /\ ServedIsClean(r)
      /\ admitted[r] = 0 /\ recorded[r] = 0 /\ answer[r] = "none" /\ write[r] = "none"
  BY RunFacts DEF Counted, Progress
<1>u. /\ store' = store /\ lookup' = lookup /\ served' = served /\ answer' = answer
      /\ write' = write /\ lateWrites' = lateWrites
      /\ admitted' = admitted /\ recorded' = recorded
  BY DEF raceVars, countVars
<1>1. /\ pc' \in [RunId -> Pc] /\ degradations' \in [RunId -> SUBSET Degradation]
      /\ result' = [s \in RunId |-> result'[s]]
      /\ pc'[r] = "returned" /\ degradations'[r] = dg
      /\ result'[r].statuses = st \cup (IF dg = {} THEN {} ELSE {"failure"})
      /\ \A s \in RunId : s # r =>
            /\ pc'[s] = pc[s] /\ degradations'[s] = degradations[s]
            /\ result'[s] = result[s]
  BY <1>0, ReturnFacts
<1>2. RunTyped'
  BY <1>0, <1>u, <1>1 DEF RunTyped
<1>3. Alone(r)
  BY <1>u, <1>1 DEF Alone
<1>4. Counted(r)' /\ Progress(r)'
  BY <1>0, <1>u, <1>1 DEF Counted, Progress
<1>5. Reported(r)'
  BY <1>0, <1>u, <1>1 DEF Reported
<1>6. ServedIsClean(r)'
  BY <1>0, <1>u DEF ServedIsClean
<1> QED
  BY <1>0, <1>u, <1>2, <1>3, <1>4, <1>5, <1>6, OneRunAdvances DEF Local

(* The entry: abort check, cacheSlotFor, and admission without a slot. *)
LEMMA BeginStep ==
  ASSUME RunInv, NEW r \in RunId,
         BeginAborted(r) \/ BeginCached(r) \/ BeginUncached(r)
  PROVE  RunInv'
<1>0. /\ RunTyped /\ Counted(r) /\ Progress(r) /\ ServedIsClean(r)
  BY RunFacts
<1>1. CASE BeginAborted(r)
  <2>1. ~ ({"skipped"} \subseteq {"success"}) /\ {} \in SUBSET Degradation
    OBVIOUS
  <2> QED
    BY <1>1, <2>1, ReturnStep DEF BeginAborted
<1>2. CASE BeginCached(r)
  <2>u. /\ pc[r] = "idle" /\ pc' = [pc EXCEPT ![r] = "reading"]
        /\ store' = store /\ lookup' = lookup /\ served' = served /\ answer' = answer
        /\ write' = write /\ lateWrites' = lateWrites
        /\ degradations' = degradations /\ result' = result
        /\ admitted' = admitted /\ recorded' = recorded
    BY <1>2 DEF BeginCached, raceVars, countVars
  <2>1. RunTyped' /\ pc'[r] = "reading"
    BY <1>0, <2>u DEF RunTyped, Pc
  <2>2. Alone(r)
    BY <1>0, <2>u DEF Alone, RunTyped
  <2>3. Counted(r)' /\ Progress(r)' /\ Reported(r)' /\ ServedIsClean(r)'
    BY <1>0, <2>u, <2>1 DEF Counted, Progress, Reported, ServedIsClean
  <2> QED
    BY <2>u, <2>1, <2>2, <2>3, OneRunAdvances DEF Local
<1>3. CASE BeginUncached(r)
  <2>1. PICK d \in {{}, {"cache-key-error"}, {"cache-ttl-error"}} : Admission(r, d)
    BY <1>3 DEF BeginUncached
  <2>2. d \in SUBSET Degradation
    BY <2>1 DEF Degradation
  <2>3. pc[r] = "idle" /\ lookup[r] = "none"
    BY <1>0, <1>3 DEF BeginUncached, Progress
  <2>4. UNCHANGED <<store, raceVars, lateWrites>>
    BY <1>3 DEF BeginUncached
  <2> QED
    BY <2>1, <2>2, <2>3, <2>4, AdmissionStep
<1> QED
  BY <1>1, <1>2, <1>3

(* The store after a read holds nothing it did not hold before. *)
LEMMA AfterGetFacts ==
  ASSUME RunTyped, NEW k \in Key
  PROVE  /\ Cache!afterGet(k) = [j \in Key |-> Cache!afterGet(k)[j]]
         /\ \A j \in Key : \/ Cache!afterGet(k)[j].report = store[j].report
                           \/ Cache!afterGet(k)[j].report = NoReport
         /\ Cache!got(k) \in {store[k].report, NoReport}
<1>1. store = [j \in Key |-> store[j]]
  BY DEF RunTyped
<1>2. PICK e : e = Cache!NoEntry
  OBVIOUS
<1>3. e.report = NoReport
  BY <1>2 DEF Cache!NoEntry
<1>4. CASE Cache!Expired(k)
  <2>1. Cache!afterGet(k) = [store EXCEPT ![k] = e]
    BY <1>2, <1>4 DEF Cache!afterGet
  <2> QED
    BY <1>1, <1>3, <1>4, <2>1 DEF Cache!got
<1>5. CASE ~ Cache!Expired(k)
  BY <1>1, <1>5 DEF Cache!afterGet, Cache!got
<1> QED
  BY <1>4, <1>5

(* The bounded cache read is decided. *)
LEMMA ReadStep ==
  ASSUME RunInv, NEW r \in RunId,
         ReadAnswers(r) \/ ReadBreaks(r) \/ ReadTimesOut(r)
  PROVE  RunInv'
<1>0. /\ RunTyped /\ Counted(r) /\ Progress(r) /\ ServedIsClean(r)
      /\ keyOf[r] \in Key
  BY RunFacts, RunAssumption
<1>1. CASE ReadAnswers(r)
  <2> DEFINE g == Cache!got(keyOf[r])
             l == IF g = NoReport THEN "miss" ELSE "hit"
  <2>u. /\ pc[r] = "reading" /\ pc' = [pc EXCEPT ![r] = "read"]
        /\ served' = [served EXCEPT ![r] = g]
        /\ lookup' = [lookup EXCEPT ![r] = l]
        /\ store' = Cache!afterGet(keyOf[r])
        /\ answer' = answer /\ write' = write /\ lateWrites' = lateWrites
        /\ degradations' = degradations /\ result' = result
        /\ admitted' = admitted /\ recorded' = recorded
    BY <1>1 DEF ReadAnswers, countVars
  <2>1. g \in {store[keyOf[r]].report, NoReport}
    BY <1>0, AfterGetFacts
  <2>2. store[keyOf[r]].report \in RunId \cup {NoReport}
    BY <1>0 DEF RunTyped
  <2>3. g # NoReport => g \in RunId /\ Completed(g, keyOf[r])
    BY <1>0, <2>1, <2>2 DEF RunInv, Stored
  <2>4. g \in RunId \cup {NoReport} /\ l \in {"miss", "hit"} /\ (l = "hit" => g # NoReport)
    BY <2>3
  <2> HIDE DEF g, l
  <2>5. pc'[r] = "read" /\ served'[r] = g /\ lookup'[r] = l
    BY <1>0, <2>u DEF RunTyped
  <2>6. /\ store' = [k \in Key |-> store'[k]]
        /\ \A k \in Key : store'[k].report \in {store[k].report, NoReport}
    BY <1>0, <2>u, AfterGetFacts
  <2>7. /\ pc' \in [RunId -> Pc] /\ lookup' \in [RunId -> Lookup]
        /\ served' \in [RunId -> RunId \cup {NoReport}]
    BY <1>0, <2>u, <2>4 DEF RunTyped, Pc, Lookup
  <2>8. RunTyped'
    BY <1>0, <2>u, <2>6, <2>7 DEF RunTyped
  <2>9. Alone(r)
    BY <1>0, <2>u DEF Alone, RunTyped
  <2>10. Counted(r)' /\ Progress(r)' /\ Reported(r)'
    BY <1>0, <2>u, <2>4, <2>5 DEF Counted, Progress, Reported
  <2>11. ServedIsClean(r)'
    BY <2>u, <2>3, <2>4, <2>5 DEF ServedIsClean, Completed
  <2>12. StoreMoves(r)
    BY <2>u, <2>6, RunAssumption DEF StoreMoves
  <2>13. \A k \in Key : ~ Completed(r, k)
    BY <2>u DEF Completed
  <2> QED
    BY <2>u, <2>8, <2>9, <2>10, <2>11, <2>12, <2>13, OneRunMoves DEF Local
<1>2. ASSUME NEW o \in {"threw", "rubbish", "timed-out"}, ReadDecides(r, o)
      PROVE  RunInv'
  <2>u. /\ pc[r] = "reading" /\ pc' = [pc EXCEPT ![r] = "read"]
        /\ lookup' = [lookup EXCEPT ![r] = o] /\ served' = served
        /\ store' = store /\ answer' = answer /\ write' = write
        /\ lateWrites' = lateWrites
        /\ degradations' = degradations /\ result' = result
        /\ admitted' = admitted /\ recorded' = recorded
    BY <1>2 DEF ReadDecides, countVars
  <2>1. RunTyped' /\ pc'[r] = "read" /\ lookup'[r] = o
    BY <1>0, <1>2, <2>u DEF RunTyped, Pc, Lookup
  <2>2. Alone(r)
    BY <1>0, <2>u DEF Alone, RunTyped
  <2>3. Counted(r)' /\ Progress(r)' /\ Reported(r)' /\ ServedIsClean(r)'
    BY <1>0, <1>2, <2>u, <2>1 DEF Counted, Progress, Reported, ServedIsClean
  <2> QED
    BY <2>u, <2>1, <2>2, <2>3, OneRunAdvances DEF Local
<1> QED
  BY <1>1, <1>2 DEF ReadBreaks, ReadTimesOut

(* After the read: a hit, a rubbish value or a cancelled read ends the run. *)
LEMMA AfterReadStep ==
  ASSUME RunInv, NEW r \in RunId, ReadHit(r) \/ ReadMiss(r)
  PROVE  RunInv'
<1>0. /\ {} \in SUBSET Degradation /\ {"cache-read-error"} \in SUBSET Degradation
      /\ ~ ({"skipped"} \subseteq {"success"}) /\ ~ ({"failure"} \subseteq {"success"})
  BY DEF Degradation
<1>1. CASE ReadHit(r)
  <2>1. pc[r] = "read" /\ UNCHANGED <<store, raceVars, lateWrites, countVars>>
    BY <1>1 DEF ReadHit
  <2>2. CASE lookup[r] = "hit" /\ Return(r, {"success"}, {}, {})
    BY <1>0, <2>1, <2>2, ReturnStep
  <2>3. CASE Return(r, {"failure"}, {"invalid-cached-output"}, {})
    BY <1>0, <2>1, <2>3, ReturnStep
  <2>4. CASE Return(r, {"skipped"}, {"caller-aborted"}, {})
    BY <1>0, <2>1, <2>4, ReturnStep
  <2> QED
    BY <1>1, <2>2, <2>3, <2>4 DEF ReadHit
<1>2. CASE ReadMiss(r)
  <2>1. pc[r] = "read" /\ UNCHANGED <<store, raceVars, lateWrites>>
    BY <1>2 DEF ReadMiss
  <2>2. CASE lookup[r] = "miss" /\ Admission(r, {})
    BY <1>0, <2>1, <2>2, AdmissionStep
  <2>3. CASE lookup[r] \in {"threw", "timed-out"} /\ Admission(r, {"cache-read-error"})
    BY <1>0, <2>1, <2>3, AdmissionStep
  <2> QED
    BY <1>2, <2>2, <2>3 DEF ReadMiss
<1> QED
  BY <1>1, <1>2

(* The provider race is decided. *)
LEMMA EnrichStep ==
  ASSUME RunInv, NEW r \in RunId,
         EnrichAnswers(r) \/ EnrichTimesOut(r)
  PROVE  RunInv'
<1>0. /\ RunTyped /\ Counted(r) /\ Progress(r) /\ ServedIsClean(r)
  BY RunFacts
<1>1. PICK a \in Answer : a # "none" /\ EnrichDecides(r, a)
  BY DEF EnrichAnswers, EnrichTimesOut, Answer
<1>u. /\ pc[r] = "enriching" /\ pc' = [pc EXCEPT ![r] = "raced"]
      /\ answer' = [answer EXCEPT ![r] = a]
      /\ lookup' = lookup /\ served' = served
      /\ store' = store /\ write' = write /\ lateWrites' = lateWrites
      /\ degradations' = degradations /\ result' = result
      /\ admitted' = admitted /\ recorded' = recorded
  BY <1>1 DEF EnrichDecides, countVars
<1>2. RunTyped' /\ pc'[r] = "raced" /\ answer'[r] = a
  BY <1>0, <1>u DEF RunTyped, Pc
<1>3. Alone(r)
  BY <1>0, <1>u DEF Alone, RunTyped
<1>4. answer[r] = "none"
  BY <1>0, <1>u DEF Progress
<1>5. Counted(r)' /\ Progress(r)' /\ Reported(r)'
  BY <1>0, <1>u, <1>2 DEF Counted, Progress, Reported
<1>6. ServedIsClean(r)'
  BY <1>0, <1>u, <1>4 DEF ServedIsClean, RunTyped
<1> QED
  BY <1>u, <1>2, <1>3, <1>4, <1>5, <1>6, OneRunAdvances DEF Local

(* Exactly one lifecycle call, whether or not the governor survives it. *)
LEMMA RecordFacts ==
  ASSUME RunInv, NEW r \in RunId, NEW ok, NEW dg \in Recordings(r),
         pc[r] = "raced", Record(r, ok, dg)
  PROVE  /\ dg \in SUBSET Degradation /\ degradations[r] \subseteq dg
         /\ admitted' = admitted /\ recorded' = [recorded EXCEPT ![r] = 1]
         /\ admitted[r] = 1 /\ recorded'[r] = 1
<1>1. degradations[r] \subseteq Degradation /\ recorded[r] = 0 /\ admitted[r] = 1 /\ RunTyped
  BY RunFacts DEF Counted
<1>2. dg \in SUBSET Degradation /\ degradations[r] \subseteq dg
  BY <1>1 DEF Recordings, Degradation
<1>3. admitted' = admitted /\ recorded' = [recorded EXCEPT ![r] = recorded[r] + 1]
  BY DEF Record
<1> QED
  BY <1>1, <1>2, <1>3 DEF RunTyped

(* After the provider race: the run is recorded and returns. *)
LEMMA ReportStep ==
  ASSUME RunInv, NEW r \in RunId, NEW ok, NEW dg \in Recordings(r),
         NEW st, NEW ca, NEW u \in SUBSET Degradation,
         pc[r] = "raced", Record(r, ok, dg), Return(r, st, ca, dg \cup u),
         st \subseteq {"success"} => answer[r] = "clean",
         UNCHANGED <<store, raceVars, lateWrites>>
  PROVE  RunInv'
<1>0. /\ RunTyped /\ Counted(r) /\ Progress(r) /\ ServedIsClean(r)
      /\ lookup[r] \notin {"hit", "rubbish"} /\ write[r] = "none"
      /\ lookup[r] \in {"threw", "timed-out"} => "cache-read-error" \in degradations[r]
  BY RunFacts DEF Counted, Progress
<1>u. /\ store' = store /\ lookup' = lookup /\ served' = served /\ answer' = answer
      /\ write' = write /\ lateWrites' = lateWrites
  BY DEF raceVars
<1>1. /\ dg \in SUBSET Degradation /\ degradations[r] \subseteq dg
      /\ admitted' = admitted /\ recorded' = [recorded EXCEPT ![r] = 1]
      /\ admitted[r] = 1 /\ recorded'[r] = 1
  BY RecordFacts
<1> DEFINE d == dg \cup u
<1>2. d \in SUBSET Degradation /\ degradations[r] \subseteq d
  BY <1>1
<1>3. Return(r, st, ca, d)
  OBVIOUS
<1> HIDE DEF d
<1>4. /\ pc' \in [RunId -> Pc] /\ degradations' \in [RunId -> SUBSET Degradation]
      /\ result' = [s \in RunId |-> result'[s]]
      /\ pc'[r] = "returned" /\ degradations'[r] = d
      /\ result'[r].statuses = st \cup (IF d = {} THEN {} ELSE {"failure"})
      /\ \A s \in RunId : s # r =>
            /\ pc'[s] = pc[s] /\ degradations'[s] = degradations[s]
            /\ result'[s] = result[s]
  BY <1>0, <1>2, <1>3, ReturnFacts
<1>5. RunTyped'
  BY <1>0, <1>u, <1>1, <1>4 DEF RunTyped
<1>6. Alone(r)
  BY <1>0, <1>u, <1>1, <1>4 DEF Alone, RunTyped
<1>7. Counted(r)' /\ Progress(r)'
  BY <1>0, <1>u, <1>1, <1>4 DEF Counted, Progress
<1>8. Reported(r)'
  <2> SUFFICES ASSUME result'[r].statuses \subseteq {"success"}
               PROVE  /\ answer[r] = "clean" /\ lookup[r] \notin {"threw", "timed-out"}
    BY <1>0, <1>u DEF Reported
  <2>1. "failure" \notin result'[r].statuses
    OBVIOUS
  <2>2. d = {}
    BY <1>4, <2>1
  <2>3. st \subseteq {"success"}
    BY <1>4
  <2> QED
    BY <1>0, <1>2, <2>2, <2>3
<1>9. ServedIsClean(r)'
  BY <1>0, <1>u DEF ServedIsClean
<1> QED
  BY <1>0, <1>u, <1>5, <1>6, <1>7, <1>8, <1>9, OneRunAdvances DEF Local

(* What a failed provider race is called is never a success. *)
LEMMA FailureOfFacts ==
  ASSUME NEW r \in RunId,
         Aborted(r) \/ answer[r] \in {"threw", "timed-out", "malformed"}
  PROVE  ~ (FailureOf(r)[1] \subseteq {"success"})
<1>1. FailureOf(r)[1] \in {{"skipped"}, {"failure"}}
  <2>1. CASE Aborted(r)
    BY <2>1 DEF FailureOf
  <2>2. CASE ~ Aborted(r)
    BY <2>2 DEF FailureOf
  <2> QED
    BY <2>1, <2>2
<1> QED
  BY <1>1

(* A run without a usable answer. *)
LEMMA FailStep ==
  ASSUME RunInv, NEW r \in RunId, EnrichFails(r)
  PROVE  RunInv'
<1>1. PICK d \in Recordings(r) :
        Record(r, FALSE, d) /\ Return(r, FailureOf(r)[1], FailureOf(r)[2], d)
  BY DEF EnrichFails
<1>2. d \cup {} = d /\ {} \in SUBSET Degradation
  OBVIOUS
<1>3. Return(r, FailureOf(r)[1], FailureOf(r)[2], d \cup {})
  BY <1>1, <1>2
<1>4. ~ (FailureOf(r)[1] \subseteq {"success"})
  BY FailureOfFacts DEF EnrichFails
<1>5. pc[r] = "raced" /\ UNCHANGED <<store, raceVars, lateWrites>>
  BY DEF EnrichFails
<1> QED
  BY <1>1, <1>2, <1>3, <1>4, <1>5, ReportStep

(* A valid report that is not cached. *)
LEMMA ReportsStep ==
  ASSUME RunInv, NEW r \in RunId, EnrichReports(r)
  PROVE  RunInv'
<1>1. PICK d \in Recordings(r), u \in Uncached(r) :
        /\ Record(r, answer[r] # "partial", d)
        /\ Return(r, StatusesOf(answer[r]), {}, d \cup u)
  BY DEF EnrichReports
<1>2. u \in SUBSET Degradation
  BY <1>1 DEF Uncached, Degradation
<1>3. StatusesOf(answer[r]) \subseteq {"success"} => answer[r] = "clean"
  <2>1. answer[r] = "partial" => StatusesOf(answer[r]) = {"success", "failure"}
    BY DEF StatusesOf
  <2>2. answer[r] = "declined" => StatusesOf(answer[r]) = {"skipped"}
    BY DEF StatusesOf
  <2> QED
    BY <2>1, <2>2 DEF EnrichReports
<1>4. pc[r] = "raced" /\ UNCHANGED <<store, raceVars, lateWrites>>
  BY DEF EnrichReports
<1> QED
  BY <1>1, <1>2, <1>3, <1>4, ReportStep

(* A clean report with a slot and a lifetime starts its write. *)
LEMMA CachesStep ==
  ASSUME RunInv, NEW r \in RunId, EnrichCaches(r)
  PROVE  RunInv'
<1>0. /\ RunTyped /\ Counted(r) /\ Progress(r) /\ ServedIsClean(r)
  BY RunFacts
<1>1. PICK d \in Recordings(r) :
        Record(r, TRUE, d) /\ degradations' = [degradations EXCEPT ![r] = d]
  BY DEF EnrichCaches
<1>u. /\ pc[r] = "raced" /\ answer[r] = "clean" /\ pc' = [pc EXCEPT ![r] = "writing"]
      /\ store' = store /\ lookup' = lookup /\ served' = served /\ answer' = answer
      /\ write' = write /\ lateWrites' = lateWrites /\ result' = result
  BY DEF EnrichCaches, raceVars
<1>2. /\ d \in SUBSET Degradation /\ degradations[r] \subseteq d
      /\ admitted' = admitted /\ recorded' = [recorded EXCEPT ![r] = 1]
      /\ admitted[r] = 1 /\ recorded'[r] = 1
  BY <1>1, <1>u, RecordFacts
<1>3. RunTyped' /\ pc'[r] = "writing" /\ degradations'[r] = d
  BY <1>0, <1>1, <1>u, <1>2 DEF RunTyped, Pc
<1>4. Alone(r)
  BY <1>0, <1>1, <1>u, <1>2 DEF Alone, RunTyped
<1>5. Counted(r)' /\ Progress(r)' /\ Reported(r)' /\ ServedIsClean(r)'
  BY <1>0, <1>u, <1>2, <1>3 DEF Counted, Progress, Reported, ServedIsClean
<1> QED
  BY <1>u, <1>3, <1>4, <1>5, OneRunAdvances DEF Local

(* A write reaches the store: only this key, and only this report. *)
LEMMA AfterSetFacts ==
  ASSUME RunTyped, NEW k \in Key, NEW r \in RunId, NEW ttl, ttl # 0,
         store' = Cache!afterSet(k, r, ttl)
  PROVE  /\ store' = [j \in Key |-> store'[j]]
         /\ store'[k].report = r
         /\ \A j \in Key : j # k => store'[j] = store[j]
<1>1. store = [j \in Key |-> store[j]]
  BY DEF RunTyped
<1>2. PICK e : /\ e = [report |-> r, expiresAt |-> clock + ttl]
               /\ store' = [store EXCEPT ![k] = e]
  BY DEF Cache!afterSet
<1> QED
  BY <1>1, <1>2

(* The bounded cache write is decided. *)
LEMMA WriteStep ==
  ASSUME RunInv, NEW r \in RunId,
         WriteLands(r) \/ WriteBreaks(r) \/ WriteTimesOut(r)
  PROVE  RunInv'
<1>0. /\ RunTyped /\ Counted(r) /\ Progress(r) /\ ServedIsClean(r)
      /\ keyOf[r] \in Key
  BY RunFacts, RunAssumption
<1>1. CASE WriteLands(r)
  <2>1. PICK ttl \in Ttls \ {0} : store' = Cache!afterSet(keyOf[r], r, ttl)
    BY <1>1 DEF WriteLands
  <2>u. /\ pc[r] = "writing" /\ pc' = [pc EXCEPT ![r] = "written"]
        /\ write' = [write EXCEPT ![r] = "stored"]
        /\ lookup' = lookup /\ served' = served /\ answer' = answer
        /\ lateWrites' = lateWrites /\ degradations' = degradations
        /\ result' = result /\ admitted' = admitted /\ recorded' = recorded
    BY <1>1 DEF WriteLands, countVars
  <2>2. /\ store' = [j \in Key |-> store'[j]]
        /\ store'[keyOf[r]].report = r
        /\ \A j \in Key : j # keyOf[r] => store'[j] = store[j]
    BY <1>0, <2>1, AfterSetFacts
  <2>3. pc'[r] = "written" /\ answer[r] = "clean"
    BY <1>0, <2>u DEF RunTyped, Progress
  <2>4. \A j \in Key : store'[j].report \in RunId \cup {NoReport}
    BY <1>0, <2>2 DEF RunTyped
  <2>5. RunTyped'
    BY <1>0, <2>u, <2>2, <2>4 DEF RunTyped, Pc, Write
  <2>6. Alone(r)
    BY <1>0, <2>u DEF Alone, RunTyped
  <2>7. Counted(r)' /\ Progress(r)' /\ Reported(r)' /\ ServedIsClean(r)'
    BY <1>0, <2>u, <2>3 DEF Counted, Progress, Reported, ServedIsClean
  <2>8. Completed(r, keyOf[r])'
    BY <2>u, <2>3 DEF Completed
  <2>9. StoreMoves(r)
    BY <2>u, <2>2, <2>8 DEF StoreMoves
  <2>10. \A k \in Key : ~ Completed(r, k)
    BY <2>u DEF Completed
  <2> QED
    BY <2>u, <2>5, <2>6, <2>7, <2>9, <2>10, OneRunMoves DEF Local
<1>2. ASSUME NEW w \in {"threw", "timed-out"}, NEW late \in SUBSET {r},
             WriteDecides(r, w, late)
      PROVE  RunInv'
  <2>u. /\ pc[r] = "writing" /\ pc' = [pc EXCEPT ![r] = "written"]
        /\ write' = [write EXCEPT ![r] = w]
        /\ lateWrites' = lateWrites \cup late
        /\ lookup' = lookup /\ served' = served /\ answer' = answer
        /\ store' = store /\ degradations' = degradations
        /\ result' = result /\ admitted' = admitted /\ recorded' = recorded
    BY <1>2 DEF WriteDecides, countVars
  <2>3. pc'[r] = "written" /\ answer[r] = "clean"
    BY <1>0, <2>u DEF RunTyped, Progress
  <2>5. RunTyped'
    BY <1>0, <1>2, <2>u DEF RunTyped, Pc, Write
  <2>6. Alone(r)
    BY <1>0, <2>u DEF Alone, RunTyped
  <2>7. Counted(r)' /\ Progress(r)' /\ Reported(r)' /\ ServedIsClean(r)'
    BY <1>0, <2>u, <2>3 DEF Counted, Progress, Reported, ServedIsClean
  <2>8. Completed(r, keyOf[r])'
    BY <2>u, <2>3 DEF Completed
  <2>9. StoreMoves(r)
    BY <1>2, <2>u, <2>8 DEF StoreMoves
  <2>10. \A k \in Key : ~ Completed(r, k)
    BY <2>u DEF Completed
  <2> QED
    BY <2>u, <2>5, <2>6, <2>7, <2>9, <2>10, OneRunMoves DEF Local
<1>3. {} \in SUBSET {r} /\ {r} \in SUBSET {r}
  OBVIOUS
<1> QED
  BY <1>1, <1>2, <1>3 DEF WriteBreaks, WriteTimesOut

(* An abandoned write reaches the store after all. *)
LEMMA LateStep ==
  ASSUME RunInv, NEW r \in RunId, LateWrite(r)
  PROVE  RunInv'
<1>0. /\ RunTyped /\ Counted(r) /\ Progress(r) /\ Reported(r) /\ ServedIsClean(r)
      /\ keyOf[r] \in Key
  BY RunFacts, RunAssumption
<1>1. PICK ttl \in Ttls \ {0} : store' = Cache!afterSet(keyOf[r], r, ttl)
  BY DEF LateWrite
<1>u. /\ r \in lateWrites /\ lateWrites' = lateWrites \ {r}
      /\ pc' = pc /\ lookup' = lookup /\ served' = served /\ answer' = answer
      /\ write' = write /\ degradations' = degradations
      /\ result' = result /\ admitted' = admitted /\ recorded' = recorded
  BY DEF LateWrite, raceVars, countVars
<1>2. /\ store' = [j \in Key |-> store'[j]]
      /\ store'[keyOf[r]].report = r
      /\ \A j \in Key : j # keyOf[r] => store'[j] = store[j]
  BY <1>0, <1>1, AfterSetFacts
<1>3. \A j \in Key : store'[j].report \in RunId \cup {NoReport}
  BY <1>0, <1>2 DEF RunTyped
<1>4. RunTyped'
  BY <1>0, <1>u, <1>2, <1>3 DEF RunTyped
<1>5. Alone(r)
  BY <1>u DEF Alone
<1>6. Counted(r)' /\ Progress(r)' /\ Reported(r)' /\ ServedIsClean(r)'
  BY <1>0, <1>u DEF Counted, Progress, Reported, ServedIsClean
<1>7. \A k \in Key : Completed(r, k) => Completed(r, k)'
  BY <1>u DEF Completed
<1>8. Completed(r, keyOf[r])
  BY <1>u DEF RunInv, Stored
<1>9. StoreMoves(r)
  BY <1>0, <1>u, <1>2, <1>7, <1>8 DEF StoreMoves
<1> QED
  BY <1>u, <1>4, <1>5, <1>6, <1>7, <1>9, OneRunMoves DEF Local

(* After the write: the evidence is returned, a failed write beside it. *)
LEMMA WrittenStep ==
  ASSUME RunInv, NEW r \in RunId, Written(r)
  PROVE  RunInv'
<1>0. /\ RunTyped /\ Counted(r) /\ Progress(r) /\ ServedIsClean(r)
      /\ degradations[r] \subseteq Degradation
  BY RunFacts
<1> DEFINE d == degradations[r] \cup IF write[r] = "stored" THEN {} ELSE {"cache-write-error"}
<1>1. pc[r] = "written" /\ Return(r, {"success"}, {}, d)
  BY DEF Written
<1>2. /\ d \in SUBSET Degradation /\ degradations[r] \subseteq d
      /\ write[r] \in {"threw", "timed-out"} => d # {}
  BY <1>0 DEF Degradation
<1> HIDE DEF d
<1>u. /\ store' = store /\ lookup' = lookup /\ served' = served /\ answer' = answer
      /\ write' = write /\ lateWrites' = lateWrites
      /\ admitted' = admitted /\ recorded' = recorded
  BY DEF Written, raceVars, countVars
<1>3. /\ pc' \in [RunId -> Pc] /\ degradations' \in [RunId -> SUBSET Degradation]
      /\ result' = [s \in RunId |-> result'[s]]
      /\ pc'[r] = "returned" /\ degradations'[r] = d
      /\ result'[r].statuses = {"success"} \cup (IF d = {} THEN {} ELSE {"failure"})
      /\ result'[r].causes = {} \cup d
      /\ \A s \in RunId : s # r =>
            /\ pc'[s] = pc[s] /\ degradations'[s] = degradations[s]
            /\ result'[s] = result[s]
  BY <1>0, <1>1, <1>2, ReturnFacts
<1>4. RunTyped'
  BY <1>0, <1>u, <1>3 DEF RunTyped
<1>5. Alone(r)
  BY <1>u, <1>3 DEF Alone
<1>6. Counted(r)' /\ Progress(r)'
  BY <1>0, <1>1, <1>u, <1>3 DEF Counted, Progress
<1>7. answer[r] = "clean" /\ lookup[r] \notin {"hit", "rubbish"}
  BY <1>0, <1>1 DEF Progress, Counted
<1>8. Reported(r)'
  <2> SUFFICES ASSUME result'[r].statuses \subseteq {"success"}
               PROVE  /\ lookup[r] \notin {"threw", "timed-out"}
                      /\ write[r] \notin {"threw", "timed-out"}
    BY <1>7, <1>u DEF Reported
  <2>1. "failure" \notin result'[r].statuses
    OBVIOUS
  <2>2. d = {}
    BY <1>3, <2>1
  <2> QED
    BY <1>0, <1>1, <1>2, <2>2 DEF Progress
<1>9. ServedIsClean(r)'
  BY <1>0, <1>u DEF ServedIsClean
<1>10. ASSUME NEW k \in Key, Completed(r, k)
       PROVE  Completed(r, k)'
  <2>1. d \cap {"caller-aborted", "timeout", "source-error"} = {}
    BY <1>2 DEF Degradation
  <2>2. /\ "success" \in result'[r].statuses
        /\ result'[r].causes \cap {"caller-aborted", "timeout", "source-error"} = {}
    BY <1>3, <2>1
  <2> QED
    BY <1>10, <1>u, <1>3, <2>2 DEF Completed
<1>11. StoreMoves(r)
  BY <1>u DEF StoreMoves
<1> QED
  BY <1>u, <1>4, <1>5, <1>6, <1>8, <1>9, <1>10, <1>11, OneRunMoves DEF Local

(* Aborts, the clock and stuttering touch none of it. *)
LEMMA QuietStep ==
  ASSUME RunInv,
         (\E c \in Caller : Abort(c)) \/ RunTick \/ UNCHANGED runVars
  PROVE  RunInv'
<1>1. /\ pc' = pc /\ lookup' = lookup /\ served' = served /\ answer' = answer
      /\ write' = write /\ degradations' = degradations /\ lateWrites' = lateWrites
      /\ result' = result /\ admitted' = admitted /\ recorded' = recorded
      /\ store' = store
  BY DEF Abort, RunTick, runVars, raceVars, countVars
<1>2. RunTyped'
  BY <1>1 DEF RunInv, RunTyped
<1>3. \A r \in RunId : Local(r)'
  BY <1>1 DEF RunInv, Local, Counted, Progress, Reported
<1>4. \A r \in RunId : ServedIsClean(r)'
  BY <1>1 DEF RunInv, ServedIsClean
<1>5. Stored'
  BY <1>1 DEF RunInv, Stored, Completed
<1> QED
  BY <1>2, <1>3, <1>4, <1>5 DEF RunInv

(* Nothing has run before anything is called. *)
LEMMA RunsBegin ==
  ASSUME RunInit
  PROVE  RunInv
<1>1. PICK e : e = Cache!NoEntry /\ store = [k \in Key |-> e]
  BY DEF RunInit
<1>2. e.report = NoReport
  BY <1>1 DEF Cache!NoEntry
<1>3. RunTyped
  BY <1>1, <1>2 DEF RunInit, RunTyped, Pc, Lookup, Answer, Write
<1>4. Stored
  BY <1>1, <1>2, RunAssumption DEF RunInit, Stored
<1>5. \A r \in RunId : Local(r) /\ ServedIsClean(r)
  BY DEF RunInit, Local, Counted, Progress, Reported, ServedIsClean
<1> QED
  BY <1>3, <1>4, <1>5 DEF RunInv

(***************************************************************************)
(* How far a run is says what it has asked of the governor, the provider   *)
(* and the store, what it may report, and whose reports the cache holds,   *)
(* under every interleaving of the runs, their races and the aborts        *)
(* (runEnricher, inspect-async.ts).                                        *)
(***************************************************************************)
THEOREM RunInvariance == RunSpec => []RunInv
<1>1. RunInit => RunInv
  BY RunsBegin
<1>2. RunInv /\ [RunNext]_runVars => RunInv'
  <2> SUFFICES ASSUME RunInv, [RunNext]_runVars
               PROVE  RunInv'
    OBVIOUS
  <2>1. ASSUME NEW r \in RunId, Continue(r) \/ Answers(r) \/ TimesOut(r) \/ LateWrite(r)
        PROVE  RunInv'
    BY <2>1, BeginStep, ReadStep, AfterReadStep, EnrichStep, FailStep, ReportsStep,
       CachesStep, WriteStep, LateStep, WrittenStep DEF Continue, Answers, TimesOut
  <2> QED
    BY <2>1, QuietStep DEF RunNext
<1> QED
  BY <1>1, <1>2, PTL DEF RunSpec

(***************************************************************************)
(* The governor's lifecycle contract (enrichment-governor.ts:59-64) is     *)
(* kept by any number of concurrent runs: at most one admission, exactly   *)
(* one record for it on every path to a return, none for a run served from *)
(* the cache.                                                              *)
(***************************************************************************)
THEOREM RecordedOnce == RunSpec => []OneRecordPerAdmission
<1>1. RunInv => OneRecordPerAdmission
  <2> SUFFICES ASSUME RunInv, NEW r \in RunId
               PROVE  /\ admitted[r] <= 1
                      /\ recorded[r] <= admitted[r]
                      /\ pc[r] \in {"writing", "written", "returned"}
                           => recorded[r] = admitted[r]
                      /\ lookup[r] \in {"hit", "rubbish"} => admitted[r] = 0
    BY DEF OneRecordPerAdmission
  <2> QED
    BY RunFacts DEF Counted, Pc
<1> QED
  BY <1>1, RunInvariance, PTL

(***************************************************************************)
(* Only reports that their provider completed under this key are cached,   *)
(* late writes of cancelled or timed-out writes included; and a run that   *)
(* returns nothing but completed outcomes had such a provider, its own or  *)
(* the one of the run whose cached report it was served, with no failure   *)
(* of the infrastructure left unsaid (inspect-async.ts:751-755).           *)
(***************************************************************************)
THEOREM CleanlinessEarned == RunSpec => []CleanIsEarned
<1>1. RunInv => OnlyCompletedCached
  <2> SUFFICES ASSUME RunInv
               PROVE  OnlyCompletedCached
    OBVIOUS
  <2>1. \A w \in RunId, k \in Key : Completed(w, k) => Cacheable(w, k)
    BY DEF Completed, Cacheable
  <2>2. \A k \in Key : store[k].report # NoReport => Cacheable(store[k].report, k)
    BY <2>1 DEF RunInv, RunTyped, Stored
  <2>3. \A w \in lateWrites : Cacheable(w, keyOf[w])
    BY <2>1, RunAssumption DEF RunInv, RunTyped, Stored
  <2> QED
    BY <2>2, <2>3 DEF OnlyCompletedCached
<1>2. ASSUME RunInv, NEW r \in RunId, pc[r] = "returned",
             result[r].statuses \subseteq {"success"}
      PROVE  CleanReportEarned(r)
  BY <1>2, RunFacts, RunAssumption DEF Reported, ServedIsClean, CleanReportEarned
<1>3. RunInv => CleanIsEarned
  BY <1>1, <1>2 DEF CleanIsEarned
<1> QED
  BY <1>3, RunInvariance, PTL

(* A step of run s moves no other run. *)
LEMMA OnlyItsOwnRun ==
  ASSUME RunTyped, NEW s \in RunId,
         Continue(s) \/ Answers(s) \/ TimesOut(s) \/ LateWrite(s)
  PROVE  \A r \in RunId : r # s => pc'[r] = pc[r]
<1>1. pc \in [RunId -> Pc]
  BY DEF RunTyped
<1>2. \/ pc' = pc
      \/ \E p \in Pc : pc' = [pc EXCEPT ![s] = p]
  <2>1. ASSUME NEW st, NEW ca, NEW dg, Return(s, st, ca, dg)
        PROVE  \E p \in Pc : pc' = [pc EXCEPT ![s] = p]
    BY <2>1 DEF Return, Pc
  <2>2. ASSUME NEW dg, Admission(s, dg)
        PROVE  \E p \in Pc : pc' = [pc EXCEPT ![s] = p]
    BY <2>1, <2>2 DEF Admission, GovernorThrows, GovernorDenies, GovernorAdmits, Pc
  <2>3. CASE Continue(s)
    <3>1. CASE BeginAborted(s) \/ BeginCached(s) \/ BeginUncached(s)
      BY <2>1, <2>2, <3>1 DEF BeginAborted, BeginCached, BeginUncached, Pc
    <3>2. CASE ReadHit(s) \/ ReadMiss(s)
      BY <2>1, <2>2, <3>2 DEF ReadHit, ReadMiss
    <3>3. CASE EnrichFails(s)
      BY <2>1, <3>3 DEF EnrichFails
    <3>4. CASE EnrichReports(s)
      BY <2>1, <3>4 DEF EnrichReports
    <3>5. CASE EnrichCaches(s)
      BY <3>5 DEF EnrichCaches, Pc
    <3>6. CASE Written(s)
      BY <2>1, <3>6 DEF Written
    <3> QED
      BY <2>3, <3>1, <3>2, <3>3, <3>4, <3>5, <3>6 DEF Continue
  <2>4. CASE Answers(s) \/ TimesOut(s)
    BY <2>4 DEF Answers, TimesOut, ReadAnswers, ReadBreaks, ReadTimesOut, ReadDecides,
                EnrichAnswers, EnrichTimesOut, EnrichDecides,
                WriteLands, WriteBreaks, WriteTimesOut, WriteDecides, Pc
  <2>5. CASE LateWrite(s)
    BY <2>5 DEF LateWrite
  <2> QED
    BY <2>3, <2>4, <2>5
<1> QED
  BY <1>1, <1>2

(***************************************************************************)
(* A complete answer that is taken up while the caller is still there is   *)
(* in the report that is returned, at once or after the cache write, and   *)
(* is not renamed: whatever a governor's callback, the cache or an abort   *)
(* do to the run meanwhile (inspect-async.ts, after the provider race).    *)
(***************************************************************************)
THEOREM EvidenceIsRetained == RunSpec => EvidenceRetained
<1> DEFINE Kept(r) == \/ pc'[r] \in {"writing", "written"}
                      \/ /\ pc'[r] = "returned" /\ "success" \in result'[r].statuses
                         /\ result'[r].causes \cap EndsOfRun = {}
           A == \A r \in RunId : TakenUp(r) /\ pc'[r] # pc[r] => Kept(r)
<1>1. RunInv /\ [RunNext]_runVars => [A]_runVars
  <2> SUFFICES ASSUME RunInv, RunNext, NEW r \in RunId, TakenUp(r), pc'[r] # pc[r]
               PROVE  Kept(r)
    OBVIOUS
  <2>0. RunTyped /\ Progress(r) /\ degradations[r] \subseteq Degradation
    BY RunFacts
  <2>1. Continue(r) \/ Answers(r) \/ TimesOut(r) \/ LateWrite(r)
    <3>1. ~ RunTick /\ \A c \in Caller : ~ Abort(c)
      BY DEF RunTick, Abort
    <3> QED
      BY <2>0, <3>1, OnlyItsOwnRun DEF RunNext
  <2>2. ASSUME NEW d \in SUBSET Degradation, pc'[r] = "returned",
               result'[r].statuses = {"success"} \cup (IF d = {} THEN {} ELSE {"failure"}),
               result'[r].causes = {} \cup d
        PROVE  Kept(r)
    <3>1. d \cap EndsOfRun = {}
      BY DEF Degradation, EndsOfRun
    <3>2. "success" \in result'[r].statuses
      BY <2>2, Zenon
    <3>3. result'[r].causes = d
      BY <2>2
    <3> QED
      BY <2>2, <3>1, <3>2, <3>3, Zenon
  <2>3. CASE pc[r] = "raced"
    <3>1. answer[r] = "clean" /\ ~ Aborted(r)
      BY <2>3 DEF TakenUp
    <3>2. EnrichReports(r) \/ EnrichCaches(r)
      <4>1. ~ Answers(r) /\ ~ TimesOut(r)
        BY <2>3 DEF Answers, TimesOut, ReadAnswers, ReadBreaks, ReadTimesOut, ReadDecides,
               EnrichAnswers, EnrichTimesOut, EnrichDecides,
               WriteLands, WriteBreaks, WriteTimesOut, WriteDecides
      <4>2. ~ LateWrite(r)
        BY DEF LateWrite
      <4>3. ~ EnrichFails(r)
        BY <3>1 DEF EnrichFails
      <4>4. /\ ~ BeginAborted(r) /\ ~ BeginCached(r) /\ ~ BeginUncached(r)
            /\ ~ ReadHit(r) /\ ~ ReadMiss(r) /\ ~ Written(r)
        BY <2>3 DEF BeginAborted, BeginCached, BeginUncached, ReadHit, ReadMiss, Written
      <4> QED
        BY <2>1, <4>1, <4>2, <4>3, <4>4 DEF Continue
    <3>3. CASE EnrichReports(r)
      <4>1. PICK d \in Recordings(r), u \in Uncached(r) :
              Return(r, StatusesOf(answer[r]), {}, d \cup u)
        BY <3>3 DEF EnrichReports
      <4>2. d \cup u \in SUBSET Degradation
        BY <2>0, <4>1 DEF Recordings, Uncached, Degradation
      <4>3. StatusesOf(answer[r]) = {"success"}
        BY <3>1 DEF StatusesOf
      <4>4. /\ pc'[r] = "returned"
            /\ result'[r].statuses
                 = {"success"} \cup (IF d \cup u = {} THEN {} ELSE {"failure"})
            /\ result'[r].causes = {} \cup (d \cup u)
        BY <2>0, <4>1, <4>2, <4>3, ReturnFacts
      <4> QED
        BY <2>2, <4>2, <4>4
    <3>4. CASE EnrichCaches(r)
      BY <2>0, <3>4 DEF EnrichCaches, RunTyped
    <3> QED
      BY <3>2, <3>3, <3>4
  <2>4. CASE pc[r] = "writing"
    <3>1. WriteLands(r) \/ WriteBreaks(r) \/ WriteTimesOut(r)
      <4>1. /\ ~ ReadAnswers(r) /\ ~ ReadBreaks(r) /\ ~ ReadTimesOut(r)
            /\ ~ EnrichAnswers(r) /\ ~ EnrichTimesOut(r)
        BY <2>4 DEF ReadAnswers, ReadBreaks, ReadTimesOut, ReadDecides,
               EnrichAnswers, EnrichTimesOut, EnrichDecides
      <4>2. ~ LateWrite(r)
        BY DEF LateWrite
      <4>3. ~ Continue(r)
        BY <2>4 DEF Continue, BeginAborted, BeginCached, BeginUncached, ReadHit, ReadMiss,
               EnrichFails, EnrichReports, EnrichCaches, Written
      <4> QED
        BY <2>1, <4>1, <4>2, <4>3 DEF Answers, TimesOut
    <3>2. pc' = [pc EXCEPT ![r] = "written"]
      BY <3>1 DEF WriteLands, WriteBreaks, WriteTimesOut, WriteDecides
    <3> QED
      BY <2>0, <3>2 DEF RunTyped
  <2>5. CASE pc[r] = "written"
    <3>1. Written(r)
      <4>1. ~ Answers(r) /\ ~ TimesOut(r)
        BY <2>5 DEF Answers, TimesOut, ReadAnswers, ReadBreaks, ReadTimesOut, ReadDecides,
               EnrichAnswers, EnrichTimesOut, EnrichDecides,
               WriteLands, WriteBreaks, WriteTimesOut, WriteDecides
      <4>2. ~ LateWrite(r)
        BY DEF LateWrite
      <4>3. /\ ~ BeginAborted(r) /\ ~ BeginCached(r) /\ ~ BeginUncached(r)
            /\ ~ ReadHit(r) /\ ~ ReadMiss(r)
            /\ ~ EnrichFails(r) /\ ~ EnrichReports(r) /\ ~ EnrichCaches(r)
        BY <2>5 DEF BeginAborted, BeginCached, BeginUncached, ReadHit, ReadMiss,
               EnrichFails, EnrichReports, EnrichCaches
      <4> QED
        BY <2>1, <4>1, <4>2, <4>3 DEF Continue
    <3>2. PICK d : /\ d = degradations[r] \cup
                            IF write[r] = "stored" THEN {} ELSE {"cache-write-error"}
                   /\ Return(r, {"success"}, {}, d)
      BY <3>1 DEF Written
    <3>3. d \in SUBSET Degradation
      BY <2>0, <3>2 DEF Degradation
    <3>4. /\ pc'[r] = "returned"
          /\ result'[r].statuses = {"success"} \cup (IF d = {} THEN {} ELSE {"failure"})
          /\ result'[r].causes = {} \cup d
      BY <2>0, <3>2, <3>3, ReturnFacts
    <3> QED
      BY <2>2, <3>3, <3>4
  <2> QED
    BY <2>3, <2>4, <2>5 DEF TakenUp
<1> QED
  BY <1>1, RunInvariance, PTL DEF RunSpec, EvidenceRetained
=============================================================================
