------------------------ MODULE EnrichmentPlan_proofs -----------------------
(***************************************************************************)
(* Proofs about the staged scheduler, for every plan, every number of      *)
(* steps and every report a step may settle with.                          *)
(***************************************************************************)
EXTENDS InspectAsync, FiniteSetTheorems, WellFoundedInduction, TLAPS

LEMMA NeedsInIndex == \A i : Needs(plan, i) \subseteq Index
  BY DEF Needs

LEMMA SchedulableInIndex == Schedulable(plan) \subseteq Index
  BY DEF Schedulable

(* A verdict the framework writes is a run, and never an available one. *)
LEMMA FrameworkRun ==
  ASSUME NEW c \in Cause \ {"unset"}
  PROVE  /\ frameworkReport(c) \in Run
         /\ frameworkReport(c) # NoRun
         /\ frameworkReport(c).cause = c
         /\ ~ runIsAvailable(frameworkReport(c))
  BY DEF frameworkReport, Run, Cause, Status, Completed, Incomplete, NoRun,
         runIsAvailable

(* A report of known statuses that is not available has an incomplete one. *)
LEMMA Unavailable ==
  ASSUME NEW r \in Run, ~ runIsAvailable(r)
  PROVE  r.statuses \cap Incomplete # {}
  BY DEF Run, runIsAvailable, Status, Completed, Incomplete

LEMMA NoRunType == NoRun \in Run
  BY DEF NoRun, Run, Cause

LEMMA ReportsType ==
  \A r \in Reports : r \in Run /\ r # NoRun /\ r.cause \in {"source", "caller-aborted"}
  BY ReportsAssumption DEF NoRun, Run

-----------------------------------------------------------------------------
(***************************************************************************)
(* The state of executeEnrichmentPlan keeps its types.                     *)
(***************************************************************************)
THEOREM TypeCorrect == Spec => []TypeOK
<1>1. Init => TypeOK
  BY NoRunType DEF Init, TypeOK, Phase
<1>2. TypeOK /\ [Next]_vars => TypeOK'
  <2> SUFFICES ASSUME TypeOK, [Next]_vars
               PROVE  TypeOK'
    OBVIOUS
  <2> USE DEF TypeOK, Phase
  <2>1. CASE Abort
    BY <2>1 DEF Abort
  <2>2. CASE Preflight
    BY <2>2, FrameworkRun, NoRunType, SchedulableInIndex DEF Preflight, Cause
  <2>3. ASSUME NEW S \in SUBSET Index, NEW c \in Cause \ {"unset"}, Settle(S, c)
        PROVE  TypeOK'
    BY <2>3, FrameworkRun DEF Settle
  <2>4. CASE PassAborted
    BY <2>4, <2>3 DEF PassAborted, Cause
  <2>5. CASE StartStage
    BY <2>5 DEF StartStage, Ready
  <2>6. CASE PassBlocked
    BY <2>6, <2>3 DEF PassBlocked, Blocked, Cause
  <2>7. CASE PassCycle
    <3>1. PICK C \in CycleIndexes : Settle(C, "dependency-cycle")
      BY <2>7 DEF PassCycle
    <3>2. C \in SUBSET Index
      BY <3>1 DEF CycleIndexes, Cycles, FirstPending
    <3> QED
      BY <3>1, <3>2, <2>3 DEF Cause
  <2>8. ASSUME NEW i \in Index, StepSettles(i)
        PROVE  TypeOK'
    BY <2>8, ReportsType DEF StepSettles
  <2>9. CASE StageDone
    BY <2>9 DEF StageDone
  <2>10. CASE Return
    BY <2>10, FrameworkRun DEF Return, Cause
  <2>11. CASE UNCHANGED vars
    BY <2>11 DEF vars
  <2> QED
    BY <2>1, <2>2, <2>4, <2>5, <2>6, <2>7, <2>8, <2>9, <2>10, <2>11
       DEF Next, Pass, Terminated
<1> QED
  BY <1>1, <1>2, PTL DEF Spec

-----------------------------------------------------------------------------
(***************************************************************************)
(* The inductive invariant of the loop: after preflight, pending names     *)
(* exactly the steps without a run.                                        *)
(***************************************************************************)
THEOREM BookkeepingHolds == Spec => []Bookkeeping
<1>1. Init => Bookkeeping
  BY DEF Init, Bookkeeping, HasRun, NoRun
<1>2. TypeOK /\ Bookkeeping /\ [Next]_vars => Bookkeeping'
  <2> SUFFICES ASSUME TypeOK, Bookkeeping, [Next]_vars
               PROVE  Bookkeeping'
    OBVIOUS
  <2> USE DEF TypeOK, Bookkeeping, HasRun
  <2>1. CASE Abort
    BY <2>1 DEF Abort
  <2>2. CASE Preflight
    <3>1. \A i \in Index : i \in Schedulable(plan) <=> runs'[i] = NoRun
      BY <2>2, FrameworkRun DEF Preflight, Cause
    <3> QED
      BY <2>2, <3>1, SchedulableInIndex DEF Preflight
  <2>3. ASSUME NEW S \in SUBSET pending, NEW c \in Cause \ {"unset"},
               phase = "loop", Settle(S, c)
        PROVE  Bookkeeping'
    <3>1. \A i \in Index : runs'[i] = NoRun <=> runs[i] = NoRun /\ i \notin S
      BY <2>3, FrameworkRun DEF Settle
    <3> QED
      BY <2>3, <3>1 DEF Settle
  <2>4. CASE PassAborted
    BY <2>4, <2>3 DEF PassAborted, Cause
  <2>5. CASE StartStage
    BY <2>5 DEF StartStage, Ready
  <2>6. CASE PassBlocked
    BY <2>6, <2>3 DEF PassBlocked, Blocked, Cause
  <2>7. CASE PassCycle
    <3>1. PICK C \in CycleIndexes : Settle(C, "dependency-cycle")
      BY <2>7 DEF PassCycle
    <3>2. C \in SUBSET pending
      BY <3>1 DEF CycleIndexes, Cycles, FirstPending
    <3> QED
      BY <2>7, <3>1, <3>2, <2>3 DEF PassCycle, Cause
  <2>8. ASSUME NEW i \in Index, StepSettles(i)
        PROVE  Bookkeeping'
    BY <2>8, ReportsType DEF StepSettles
  <2>9. CASE StageDone
    BY <2>9 DEF StageDone
  <2>10. CASE Return
    BY <2>10 DEF Return
  <2>11. CASE UNCHANGED vars
    BY <2>11 DEF vars
  <2> QED
    BY <2>1, <2>2, <2>4, <2>5, <2>6, <2>7, <2>8, <2>9, <2>10, <2>11
       DEF Next, Pass, Terminated
<1> QED
  BY <1>1, <1>2, TypeCorrect, PTL DEF Spec

-----------------------------------------------------------------------------
(* No step of the scheduler touches a run that is already recorded. *)
LEMMA RunsKept ==
  TypeOK /\ Bookkeeping /\ [Next]_vars =>
    \A i \in Index : HasRun(i) => runs'[i] = runs[i]
<1> SUFFICES ASSUME TypeOK, Bookkeeping, [Next]_vars, NEW i \in Index, HasRun(i)
             PROVE  runs'[i] = runs[i]
  OBVIOUS
<1> USE DEF TypeOK, Bookkeeping, HasRun
<1>1. CASE Abort \/ StartStage \/ UNCHANGED vars \/ \E j \in Index : StepSettles(j)
  BY <1>1 DEF Abort, StartStage, vars, StepSettles
<1>2. CASE Preflight
  BY <1>2 DEF Preflight
<1>3. ASSUME NEW S \in SUBSET pending, NEW c, phase = "loop", Settle(S, c)
      PROVE  runs'[i] = runs[i]
  BY <1>3 DEF Settle
<1>4. CASE PassAborted \/ PassBlocked
  BY <1>4, <1>3 DEF PassAborted, PassBlocked, Blocked
<1>5. CASE PassCycle
  <2>1. PICK C \in CycleIndexes : Settle(C, "dependency-cycle")
    BY <1>5 DEF PassCycle
  <2>2. C \in SUBSET pending
    BY <2>1 DEF CycleIndexes, Cycles, FirstPending
  <2> QED
    BY <1>5, <2>1, <2>2, <1>3 DEF PassCycle
<1>6. CASE StageDone \/ Return
  BY <1>6 DEF StageDone, Return
<1> QED
  BY <1>1, <1>2, <1>4, <1>5, <1>6 DEF Next, Pass, Terminated

(***************************************************************************)
(* A recorded run is final: no later pass, stage or fallback replaces it.  *)
(***************************************************************************)
THEOREM RunsNeverReplaced == Spec => RunsAreFinal
<1>1. TypeOK /\ Bookkeeping /\ [Next]_vars
        => [\A i \in Index : HasRun(i) => runs'[i] = runs[i]]_vars
  BY RunsKept
<1> QED
  BY <1>1, TypeCorrect, BookkeepingHolds, PTL DEF Spec, RunsAreFinal

(* Only StartStage adds to started or seen, and the plan is never edited. *)
LEMMA StartedGrows ==
  [Next]_vars =>
    /\ plan' = plan
    /\ StartStage \/ UNCHANGED <<started, seen>>
  BY DEF Next, Pass, Terminated, vars, Abort, Preflight, PassAborted, PassBlocked,
         PassCycle, Settle, StepSettles, StageDone, Return, StartStage

(***************************************************************************)
(* No enricher is ever handed to runEnricher before all its prerequisites  *)
(* are recorded and wholly completed.                                      *)
(***************************************************************************)
THEOREM PrerequisitesAlwaysComplete == Spec => []PrerequisitesComplete
<1>1. Init => PrerequisitesComplete
  BY DEF Init, PrerequisitesComplete
<1>2. TypeOK /\ Bookkeeping /\ PrerequisitesComplete /\ [Next]_vars
        => PrerequisitesComplete'
  <2> SUFFICES ASSUME TypeOK, Bookkeeping, PrerequisitesComplete, [Next]_vars,
                      NEW i \in started', NEW j \in Needs(plan', i)
               PROVE  (HasRun(j) /\ runs[j].statuses \subseteq Completed)'
    BY DEF PrerequisitesComplete
  <2>1. plan' = plan /\ j \in Index
    BY StartedGrows, NeedsInIndex
  <2>2. HasRun(j) /\ runs[j].statuses \subseteq Completed
    <3>1. CASE i \in started
      BY <3>1, <2>1 DEF PrerequisitesComplete
    <3>2. CASE i \notin started
      BY <3>2, <2>1, StartedGrows DEF StartStage, Ready, runIsAvailable
    <3> QED
      BY <3>1, <3>2
  <2> QED
    BY <2>1, <2>2, RunsKept DEF HasRun
<1> QED
  BY <1>1, <1>2, TypeCorrect, BookkeepingHolds, PTL DEF Spec

(***************************************************************************)
(* A step sees all its prerequisites; the steps of a stage see the same    *)
(* and nothing of each other, so completion order inside a stage cannot    *)
(* reach what an enricher is shown; and what is seen accumulates.          *)
(***************************************************************************)
THEOREM SnapshotsIsolated == Spec => []SnapshotIsolation
<1>1. Init => SnapshotIsolation
  BY DEF Init, SnapshotIsolation
<1>2. TypeOK /\ Bookkeeping /\ SnapshotIsolation /\ [Next]_vars => SnapshotIsolation'
  <2> SUFFICES ASSUME TypeOK, Bookkeeping, SnapshotIsolation, [Next]_vars
               PROVE  SnapshotIsolation'
    OBVIOUS
  <2>1. CASE UNCHANGED <<started, seen>> /\ stage' \subseteq stage
    BY <2>1, StartedGrows DEF SnapshotIsolation
  <2>2. CASE StartStage
    <3> DEFINE Recorded == {j \in Index : HasRun(j)}
    <3>1. /\ Ready \subseteq Index
          /\ \A i \in Ready : i \notin Recorded /\ Needs(plan, i) \subseteq Recorded
      BY <2>2, NeedsInIndex DEF StartStage, Ready, Bookkeeping, TypeOK
    <3>2. \A i \in Index : seen'[i] = IF i \in Ready THEN Recorded ELSE seen[i]
      BY <2>2 DEF StartStage
    <3>3. \A i \in Index : seen[i] \subseteq Recorded
      BY DEF Bookkeeping, TypeOK
    <3>4. started' = started \cup Ready /\ started' \subseteq Index /\ plan' = plan /\ stage' = Ready
      BY <2>2, <3>1 DEF StartStage, TypeOK
    <3>5. ASSUME NEW i \in started' PROVE Needs(plan, i) \subseteq seen'[i]
      <4>1. CASE i \in Ready
        BY <4>1, <3>1, <3>2
      <4>2. CASE i \notin Ready
        <5>1. i \in started /\ i \in Index
          BY <4>2, <3>4, <3>5
        <5> QED
          BY <4>2, <5>1, <3>2 DEF SnapshotIsolation
      <4> QED
        BY <4>1, <4>2
    <3>6. ASSUME NEW i \in Ready, NEW j \in Ready PROVE j \notin seen'[i] /\ seen'[i] = seen'[j]
      BY <3>1, <3>2, <3>6
    <3>7. ASSUME NEW i \in started', NEW j \in started', i \in seen'[j]
          PROVE  seen'[i] \cup {i} \subseteq seen'[j] \ {j}
      <4>1. i \in Index /\ j \in Index /\ i \in Recorded
        BY <3>2, <3>3, <3>4, <3>7
      <4>2. i \in started /\ seen'[i] = seen[i] /\ seen[i] \subseteq Recorded
        BY <4>1, <3>1, <3>2, <3>3, <3>4
      <4>3. CASE j \in Ready
        BY <4>1, <4>2, <4>3, <3>1, <3>2
      <4>4. CASE j \notin Ready
        <5>1. j \in started /\ seen'[j] = seen[j]
          BY <4>1, <4>4, <3>2, <3>4
        <5> QED
          BY <4>2, <5>1, <3>7 DEF SnapshotIsolation
      <4> QED
        BY <4>3, <4>4
    <3> QED
      BY <3>4, <3>5, <3>6, <3>7 DEF SnapshotIsolation
  <2>3. StartStage \/ (UNCHANGED <<started, seen>> /\ stage' \subseteq stage)
    BY DEF Next, Pass, Terminated, vars, Abort, Preflight, PassAborted, PassBlocked,
           PassCycle, Settle, StepSettles, StageDone, Return
  <2> QED
    BY <2>1, <2>2, <2>3
<1> QED
  BY <1>1, <1>2, TypeCorrect, BookkeepingHolds, PTL DEF Spec

(***************************************************************************)
(* The defensive unsettled-plan-node fallback is dead code: when the loop  *)
(* ends, every step has a run.                                             *)
(***************************************************************************)
THEOREM EverySlotIsSettled == Spec => []EverySlotSettled
<1>1. Init => EverySlotSettled
  BY DEF Init, EverySlotSettled, NoRun
<1>2. TypeOK /\ Bookkeeping /\ Bookkeeping' /\ EverySlotSettled /\ [Next]_vars
        => EverySlotSettled'
  <2> SUFFICES ASSUME TypeOK, Bookkeeping, Bookkeeping', EverySlotSettled, [Next]_vars
               PROVE  EverySlotSettled'
    OBVIOUS
  <2> USE DEF EverySlotSettled, TypeOK
  <2>1. ASSUME NEW S, NEW c \in Cause \ {"unset", "unsettled-plan-node"}, Settle(S, c),
               phase = "loop"
        PROVE  EverySlotSettled'
    BY <2>1, FrameworkRun DEF Settle
  <2>2. CASE PassAborted \/ PassBlocked \/ PassCycle
    BY <2>2, <2>1 DEF PassAborted, PassBlocked, PassCycle, Cause
  <2>3. CASE Preflight
    BY <2>3, FrameworkRun DEF Preflight, Cause, NoRun
  <2>4. CASE StageDone
    BY <2>4 DEF StageDone, Bookkeeping
  <2>5. CASE Return
    BY <2>5 DEF Return, Bookkeeping
  <2>6. CASE Abort \/ StartStage \/ UNCHANGED vars \/ \E i \in Index : StepSettles(i)
    BY <2>6 DEF Abort, StartStage, vars, StepSettles, HasRun
  <2> QED
    BY <2>2, <2>3, <2>4, <2>5, <2>6 DEF Next, Pass, Terminated
<1> QED
  BY <1>1, <1>2, TypeCorrect, BookkeepingHolds, PTL DEF Spec

-----------------------------------------------------------------------------
(* A pass that finds nothing ready and nothing blocked leaves every pending *)
(* step with a pending prerequisite: none of them ever bottoms out.         *)
LEMMA StuckMeansNeedy ==
  ASSUME TypeOK, Bookkeeping, phase = "loop", Ready = {}, Blocked = {}
  PROVE  \A j \in pending : \E k \in pending : k \in needsOf[j]
<1> TAKE j \in pending
<1>1. PICK k \in Needs(plan, j) : ~ (HasRun(k) /\ runIsAvailable(runs[k]))
  BY DEF Ready
<1>2. ~ HasRun(k)
  BY <1>1 DEF Blocked
<1>3. k \in pending
  BY <1>2, NeedsInIndex DEF Bookkeeping
<1>4. k \in needsOf[j]
  BY DEF needsOf, TypeOK
<1> QED
  BY <1>3, <1>4

LEMMA StuckMeansUngrounded ==
  ASSUME TypeOK, Bookkeeping, phase = "loop", Ready = {}, Blocked = {},
         NEW i \in pending
  PROVE  Ungrounded(needsOf, i)
<1>1. pending \in SUBSET Index
  BY DEF TypeOK
<1> QED
  BY <1>1, StuckMeansNeedy DEF Ungrounded

(***************************************************************************)
(* Every framework verdict blames something that is true of the step.      *)
(***************************************************************************)
THEOREM VerdictsAlwaysTrue == Spec => []VerdictsAreTrue
<1>1. Init => VerdictsAreTrue
  BY DEF Init, VerdictsAreTrue, NoRun
<1>2. TypeOK /\ Bookkeeping /\ VerdictsAreTrue /\ [Next]_vars => VerdictsAreTrue'
  <2> SUFFICES ASSUME TypeOK, Bookkeeping, VerdictsAreTrue, [Next]_vars, NEW i \in Index
               PROVE  /\ runs'[i].cause = "dependency-cycle" => Ungrounded(needsOf, i)'
                      /\ runs'[i].cause = "prerequisite-unavailable" =>
                           \E j \in Needs(plan, i) :
                             runs'[j].statuses \cap Incomplete # {}
                      /\ runs'[i].cause = "caller-aborted" => aborted'
                      /\ runs'[i].cause = "invalid-plan" => i \notin Schedulable(plan)
    BY StartedGrows DEF VerdictsAreTrue, HasRun
  <2>1. plan' = plan /\ needsOf' = needsOf /\ (aborted => aborted')
    BY StartedGrows DEF needsOf, Next, Pass, Terminated, vars, Abort, Preflight,
       PassAborted, PassBlocked, PassCycle, Settle, StepSettles, StageDone, Return,
       StartStage
  <2>2. Ungrounded(needsOf, i)' <=> Ungrounded(needsOf, i)
    BY <2>1 DEF Ungrounded
  <2>3. CASE runs'[i] = runs[i]
    <3>1. \A j \in Needs(plan, i) :
            runs[j].statuses \cap Incomplete # {} => runs'[j] = runs[j]
      BY RunsKept, NeedsInIndex DEF HasRun, NoRun
    <3> QED
      BY <2>1, <2>2, <2>3, <3>1 DEF VerdictsAreTrue, HasRun
  <2>5. ASSUME NEW S, NEW c \in Cause \ {"unset"}, Settle(S, c), runs'[i] # runs[i]
        PROVE  i \in S /\ runs'[i].cause = c
    BY <2>5, FrameworkRun DEF Settle, TypeOK
  <2>6. CASE PassAborted
    <3>1. aborted'
      BY <2>6, <2>1 DEF PassAborted
    <3>2. CASE runs'[i] # runs[i]
      <4>1. runs'[i].cause = "caller-aborted"
        BY <3>2, <2>5, <2>6 DEF PassAborted, Cause
      <4> QED
        BY <3>1, <4>1
    <3> QED
      BY <3>2, <2>3
  <2>7. CASE PassBlocked
    <3>1. CASE runs'[i] # runs[i]
      <4>1. i \in Blocked /\ runs'[i].cause = "prerequisite-unavailable"
        BY <3>1, <2>5, <2>7 DEF PassBlocked, Cause
      <4>2. PICK j \in Needs(plan, i) : HasRun(j) /\ ~ runIsAvailable(runs[j])
        BY <4>1 DEF Blocked
      <4>3. runs'[j] = runs[j]
        BY <4>2, RunsKept, NeedsInIndex
      <4>4. runs[j] \in Run
        BY NeedsInIndex DEF TypeOK
      <4>5. runs[j].statuses \cap Incomplete # {}
        BY <4>2, <4>4, Unavailable
      <4> QED
        BY <4>1, <4>3, <4>5
    <3> QED
      BY <3>1, <2>3
  <2>8. CASE PassCycle
    <3>1. CASE runs'[i] # runs[i]
      <4>1. PICK C \in CycleIndexes : Settle(C, "dependency-cycle")
        BY <2>8 DEF PassCycle
      <4>2. C \subseteq pending
        BY <4>1 DEF CycleIndexes, Cycles, FirstPending
      <4>3. i \in pending /\ runs'[i].cause = "dependency-cycle"
        BY <3>1, <4>1, <4>2, <2>5 DEF Cause
      <4>4. Ungrounded(needsOf, i)
        BY <2>8, <4>3, StuckMeansUngrounded DEF PassCycle
      <4> QED
        BY <2>2, <4>3, <4>4
    <3> QED
      BY <3>1, <2>3
  <2>9. CASE Preflight
    BY <2>3, <2>9, FrameworkRun DEF Preflight, Cause, NoRun, TypeOK
  <2>10. CASE StageDone
    BY <2>3, <2>10 DEF StageDone, Bookkeeping, TypeOK
  <2>11. CASE Return
    BY <2>3, <2>11 DEF Return, Bookkeeping, TypeOK
  <2>12. CASE Abort \/ StartStage \/ UNCHANGED vars \/ \E j \in Index : StepSettles(j)
    BY <2>3, <2>12 DEF Abort, StartStage, vars, StepSettles
  <2> QED
    BY <2>6, <2>7, <2>8, <2>9, <2>10, <2>11, <2>12 DEF Next, Pass, Terminated
<1> QED
  BY <1>1, <1>2, TypeCorrect, BookkeepingHolds, PTL DEF Spec

-----------------------------------------------------------------------------
(***************************************************************************)
(* inspectAsync over the scheduler.  Its steps are steps of the scheduler  *)
(* or leave it alone, so what holds of the scheduler holds under it.       *)
(***************************************************************************)
LEMMA AsyncRunsThePlan == AsyncSpec => Spec
<1>1. AsyncInit => Init
  BY DEF AsyncInit
<1>2. [AsyncNext]_allVars => [Next]_vars
  <2> SUFFICES ASSUME [AsyncNext]_allVars PROVE [Next]_vars
    OBVIOUS
  <2>1. CASE NoEnrichers
    BY <2>1 DEF NoEnrichers
  <2>2. CASE PlanStep
    BY <2>2 DEF PlanStep
  <2>3. CASE Fold
    BY <2>3 DEF Fold
  <2>4. CASE Resolved
    BY <2>4 DEF Resolved, allVars
  <2>5. CASE UNCHANGED allVars
    BY <2>5 DEF allVars
  <2> QED
    BY <2>1, <2>2, <2>3, <2>4, <2>5 DEF AsyncNext
<1> QED
  BY <1>1, <1>2, PTL DEF AsyncSpec, Spec

(* A recorded run has an outcome. *)
Recorded ==
  \A i \in Index : /\ HasRun(i) => runs[i].statuses # {}
                   /\ stageRuns[i] # NoRun => stageRuns[i].statuses # {}

LEMMA RecordedStep == TypeOK /\ Recorded /\ [Next]_vars => Recorded'
<1> SUFFICES ASSUME TypeOK, Recorded, [Next]_vars PROVE Recorded'
  OBVIOUS
<1>0. \A c : frameworkReport(c).statuses = {"skipped"}
  BY DEF frameworkReport
<1>1. ASSUME NEW S \in SUBSET Index, NEW c, Settle(S, c)
      PROVE  Recorded'
  BY <1>0, <1>1 DEF Settle, Recorded, HasRun, TypeOK
<1>2. CASE Abort \/ StartStage \/ Terminated \/ UNCHANGED vars
  BY <1>2 DEF Abort, StartStage, Terminated, vars, Recorded, HasRun
<1>3. CASE Preflight
  BY <1>0, <1>3 DEF Preflight, Recorded, HasRun
<1>4. CASE PassAborted
  BY <1>1, <1>4 DEF PassAborted, TypeOK
<1>5. CASE PassBlocked
  BY <1>1, <1>5 DEF PassBlocked, Blocked, TypeOK
<1>6. CASE PassCycle
  <2>1. PICK C \in CycleIndexes : Settle(C, "dependency-cycle")
    BY <1>6 DEF PassCycle
  <2>2. C \in SUBSET Index
    BY DEF CycleIndexes, Cycles, FirstPending, TypeOK
  <2> QED
    BY <1>1, <2>1, <2>2
<1>7. CASE \E i \in Index : StepSettles(i)
  <2>1. PICK i \in Index, r \in Reports :
          stageRuns' = [stageRuns EXCEPT ![i] = r] /\ runs' = runs
    BY <1>7 DEF StepSettles
  <2>2. r.statuses # {}
    BY ReportsAssumption
  <2> QED
    BY <2>1, <2>2 DEF Recorded, HasRun, TypeOK
<1>8. CASE StageDone
  BY <1>8 DEF StageDone, Recorded, HasRun, TypeOK
<1>9. CASE Return
  BY <1>0, <1>9 DEF Return, Recorded, HasRun, TypeOK
<1> QED
  BY <1>2, <1>3, <1>4, <1>5, <1>6, <1>7, <1>8, <1>9 DEF Next, Pass

(* The lexical verdict lists both layers as skipped. *)
BaseSkipsLayers == Layer \subseteq base.checksSkipped

(***************************************************************************)
(* The verdict of inspectAsync accounts for every configured check and for *)
(* every layer, for every plan, report and lexical verdict: the step list  *)
(* of the fold leaves no run out, because the scheduler leaves no step     *)
(* without one.  A check token is "<layer>:<id>" (checkToken), so it is    *)
(* never the placeholder of a layer.                                       *)
(***************************************************************************)
THEOREM NoCheckIsForgotten == AsyncSpec => []NeverSilentlyClean
<1> DEFINE Known == TypeOK /\ Recorded /\ EverySlotSettled /\ BaseSkipsLayers
<1>1. AsyncInit => Recorded /\ BaseSkipsLayers /\ NeverSilentlyClean
  <2> SUFFICES ASSUME AsyncInit PROVE Recorded /\ BaseSkipsLayers /\ NeverSilentlyClean
    OBVIOUS
  <2>1. Recorded
    BY DEF AsyncInit, Init, Recorded, HasRun
  <2>2. BaseSkipsLayers
    BY DEF AsyncInit, okBase, invalidBase, BaseSkipsLayers
  <2>3. NeverSilentlyClean
    BY DEF AsyncInit, NeverSilentlyClean, Final
  <2> QED
    BY <2>1, <2>2, <2>3
<1>2. Recorded /\ TypeOK /\ [AsyncNext]_allVars => Recorded'
  <2> SUFFICES ASSUME Recorded, TypeOK, [AsyncNext]_allVars PROVE Recorded'
    OBVIOUS
  <2>1. [Next]_vars
    BY DEF AsyncNext, NoEnrichers, PlanStep, Fold, Resolved, allVars
  <2> QED
    BY <2>1, RecordedStep
<1>3. BaseSkipsLayers /\ [AsyncNext]_allVars => BaseSkipsLayers'
  BY DEF AsyncNext, NoEnrichers, PlanStep, Fold, Resolved, allVars, asyncVars, BaseSkipsLayers
<1>4. Known /\ NeverSilentlyClean /\ [AsyncNext]_allVars => NeverSilentlyClean'
  <2> SUFFICES ASSUME Known, NeverSilentlyClean, [AsyncNext]_allVars
               PROVE  NeverSilentlyClean'
    OBVIOUS
  <2>1. plan' = plan /\ configured' = configured
    BY StartedGrows DEF AsyncNext, NoEnrichers, PlanStep, Fold, Resolved, allVars, asyncVars, vars
  <2>2. CASE verdict' = verdict
    BY <2>1, <2>2 DEF NeverSilentlyClean, Final
  <2>3. CASE NoEnrichers
    BY <2>1, <2>3 DEF NoEnrichers, NeverSilentlyClean, BaseSkipsLayers
  <2>4. CASE Fold
    <3>1. /\ phase = "returned" /\ configured
          /\ verdict'.checksRun = base.checksRun \cup runTokens
          /\ verdict'.checksSkipped = (base.checksSkipped \ configuredLayers) \cup skippedTokens
      BY <2>4 DEF Fold
    <3>2. \A i \in Index : plan[i].token \in Token
      BY PlansAssumption DEF TypeOK, PlanEntry
    <3>3. \A i \in Index : plan[i].token \in runTokens \cup skippedTokens
      <4> SUFFICES ASSUME NEW i \in Index
                   PROVE  plan[i].token \in runTokens \cup skippedTokens
        OBVIOUS
      <4>1. runs[i].statuses # {} /\ runs[i].statuses \subseteq Completed \cup Incomplete
        BY <3>1 DEF EverySlotSettled, Recorded, TypeOK, Run, Status
      <4> QED
        BY <4>1 DEF runTokens, skippedTokens
    <3>4. \A l \in Layer : l \notin skippedTokens
      BY <3>2, AsyncAssumption DEF skippedTokens
    <3>5. \A l \in Layer : l \in configuredLayers <=> \E i \in Index : layerOf[plan[i].token] = l
      BY DEF configuredLayers
    <3> QED
      BY <2>1, <3>1, <3>3, <3>4, <3>5 DEF NeverSilentlyClean, BaseSkipsLayers
  <2>5. CASE ~ Fold /\ ~ NoEnrichers
    BY <2>2, <2>5 DEF AsyncNext, PlanStep, Resolved, allVars, asyncVars
  <2> QED
    BY <2>3, <2>4, <2>5
<1> QED
  BY <1>1, <1>2, <1>3, <1>4, AsyncRunsThePlan, TypeCorrect, EverySlotIsSettled, PTL
     DEF AsyncSpec

-----------------------------------------------------------------------------
(***************************************************************************)
(* The scheduler implements the caller's contract, step by step.  Two more *)
(* facts are needed: only schedulable steps are ever pending, and a        *)
(* promise that has resolved belongs to the stage in flight or to a run    *)
(* that is recorded.                                                       *)
(***************************************************************************)
Launched ==
  /\ pending \subseteq Schedulable(plan)
  /\ \A i \in Index : stageRuns[i] # NoRun => i \in stage \/ HasRun(i)

LEMMA LaunchedStep == TypeOK /\ Bookkeeping /\ Launched /\ [Next]_vars => Launched'
<1> SUFFICES ASSUME TypeOK, Bookkeeping, Launched, [Next]_vars PROVE Launched'
  OBVIOUS
<1>1. \A i \in Index : HasRun(i) => HasRun(i)'
  BY RunsKept DEF HasRun
<1>2. plan' = plan
  BY StartedGrows
<1>3. ASSUME NEW S, NEW c, Settle(S, c) PROVE Launched'
  BY <1>1, <1>2, <1>3 DEF Settle, Launched
<1>4. CASE PassAborted \/ PassBlocked \/ PassCycle
  BY <1>3, <1>4 DEF PassAborted, PassBlocked, PassCycle
<1>5. CASE Abort \/ Terminated \/ UNCHANGED vars
  BY <1>5 DEF Abort, Terminated, vars, Launched, HasRun
<1>6. CASE Preflight
  BY <1>1, <1>2, <1>6 DEF Preflight, Launched
<1>7. CASE StartStage
  BY <1>1, <1>2, <1>7 DEF StartStage, Launched, Bookkeeping
<1>8. CASE \E i \in Index : StepSettles(i)
  BY <1>1, <1>2, <1>8 DEF StepSettles, Launched, TypeOK
<1>9. CASE StageDone
  <2>1. \A i \in stage : HasRun(i)'
    BY <1>9 DEF StageDone, HasRun, TypeOK
  <2> QED
    BY <1>1, <1>2, <1>9, <2>1 DEF StageDone, Launched
<1>10. CASE Return
  BY <1>1, <1>2, <1>10 DEF Return, Launched
<1> QED
  BY <1>4, <1>5, <1>6, <1>7, <1>8, <1>9, <1>10 DEF Next, Pass

(* The status a run, or the lack of one, shows to the caller. *)
LEMMA StatusForFacts ==
  ASSUME NEW r \in Run, r # NoRun => r.statuses # {}, NEW l \in BOOLEAN
  PROVE  /\ r # NoRun => StatusFor(r, l) = IF runIsAvailable(r) THEN "complete" ELSE "incomplete"
         /\ r = NoRun => StatusFor(r, l) = IF l THEN "running" ELSE "waiting"
<1>1. CASE r = NoRun
  <2>1. r.statuses = {}
    BY <1>1 DEF NoRun
  <2> QED
    BY <1>1, <2>1 DEF StatusFor
<1>2. CASE r # NoRun
  <2>1. CASE runIsAvailable(r)
    <3>1. r.statuses \subseteq Completed /\ r.statuses \cap Incomplete = {}
      BY <2>1 DEF runIsAvailable, Completed, Incomplete
    <3> QED
      BY <1>2, <2>1, <3>1 DEF StatusFor
  <2>2. CASE ~ runIsAvailable(r)
    BY <1>2, <2>2, Unavailable DEF StatusFor, runIsAvailable
  <2> QED
    BY <1>2, <2>1, <2>2
<1> QED
  BY <1>1, <1>2

(***************************************************************************)
(* What the caller sees of each step, in terms of the scheduler's state.   *)
(***************************************************************************)
Kept == TypeOK /\ Bookkeeping /\ Launched /\ Recorded

Shows(i) ==
  /\ HasRun(i) => StatusOf(i) = IF runIsAvailable(runs[i]) THEN "complete" ELSE "incomplete"
  /\ ~ HasRun(i) /\ i \notin stage => StatusOf(i) = "waiting"
  /\ ~ HasRun(i) /\ i \in stage =>
       StatusOf(i) = IF stageRuns[i] = NoRun THEN "running"
                     ELSE IF runIsAvailable(stageRuns[i]) THEN "complete" ELSE "incomplete"

LEMMA StatusShown == Kept => \A i \in Index : Shows(i)
<1> SUFFICES ASSUME Kept, NEW i \in Index PROVE Shows(i)
  OBVIOUS
<1>1. /\ runs[i] \in Run /\ (runs[i] # NoRun => runs[i].statuses # {})
      /\ stageRuns[i] \in Run /\ (stageRuns[i] # NoRun => stageRuns[i].statuses # {})
  BY DEF Kept, TypeOK, Recorded, HasRun
<1>2. (i \in stage) \in BOOLEAN
  OBVIOUS
<1>3. CASE HasRun(i)
  BY <1>1, <1>2, <1>3, StatusForFacts DEF Shows, StatusOf, RunOf, HasRun
<1>4. CASE ~ HasRun(i) /\ i \notin stage
  <2>1. RunOf(i) = NoRun
    BY <1>4 DEF Kept, Launched, RunOf
  <2>2. NoRun.statuses \cap Incomplete = {}
    BY DEF NoRun
  <2>3. StatusOf(i) = "waiting"
    BY <1>4, <2>1, <2>2 DEF StatusOf, StatusFor
  <2> QED
    BY <1>4, <2>3 DEF Shows
<1>5. CASE ~ HasRun(i) /\ i \in stage
  BY <1>1, <1>5, StatusForFacts DEF Shows, StatusOf, RunOf
<1> QED
  BY <1>3, <1>4, <1>5 DEF Shows

LEMMA StatusShownNext == Kept' => (\A i \in Index : Shows(i))'
  BY StatusShown, PTL

(***************************************************************************)
(* Steps that a pass settles without running them are refused, for a       *)
(* reason the contract knows.                                              *)
(***************************************************************************)
LEMMA SettlingRefuses ==
  ASSUME Kept, Kept', NEW S \in SUBSET Index,
         stage = {}, stage' = {}, plan' = plan, aborted' = aborted,
         \A i \in S : ~ HasRun(i) /\ HasRun(i)' /\ ~ runIsAvailable(runs'[i]),
         \A i \in Index \ S : runs'[i] = runs[i],
         \A i \in S : \/ i \notin Schedulable(plan)
                      \/ aborted
                      \/ Ungrounded(needsOf, i)
                      \/ \E j \in Needs(plan, i) : HasRun(j) /\ ~ runIsAvailable(runs[j])
  PROVE  [Contract!Next]_(Contract!vars)
<1>1. \A i \in Index : Shows(i) /\ Shows(i)'
  BY StatusShown, StatusShownNext
<1>2. \A i \in S : StatusOf(i) = "waiting" /\ StatusOf(i)' = "incomplete"
  BY <1>1 DEF Shows
<1>3. \A i \in Index \ S : StatusOf(i)' = StatusOf(i)
  BY <1>1 DEF Shows, HasRun
<1>4. needsOf' = needsOf /\ (Index \ Schedulable(plan))' = Index \ Schedulable(plan)
  BY DEF needsOf
<1>5. [i \in Index |-> StatusOf(i)]'
        = [i \in Index |-> IF i \in S THEN "incomplete" ELSE [k \in Index |-> StatusOf(k)][i]]
  BY <1>2, <1>3
<1>6. CASE S = {}
  BY <1>4, <1>5, <1>6 DEF Contract!vars
<1>7. CASE S # {}
  <2>1. ASSUME NEW i \in S PROVE Contract!MayRefuse(i)
    <3>1. [k \in Index |-> StatusOf(k)][i] = "waiting"
      BY <1>2, <2>1
    <3>2. CASE \E j \in Needs(plan, i) : HasRun(j) /\ ~ runIsAvailable(runs[j])
      <4>1. PICK j \in Needs(plan, i) : HasRun(j) /\ ~ runIsAvailable(runs[j])
        BY <3>2
      <4>2. j \in needsOf[i] /\ j \in Index
        BY <4>1, NeedsInIndex DEF needsOf
      <4>3. [k \in Index |-> StatusOf(k)][j] = "incomplete"
        BY <1>1, <4>1, <4>2 DEF Shows
      <4> QED
        BY <3>1, <4>2, <4>3 DEF Contract!MayRefuse
    <3>3. CASE Ungrounded(needsOf, i)
      BY <3>1, <3>3 DEF Contract!MayRefuse, Contract!NeverGrounded, Ungrounded
    <3>4. CASE i \notin Schedulable(plan) \/ aborted
      BY <3>1, <3>4 DEF Contract!MayRefuse
    <3> QED
      BY <3>2, <3>3, <3>4
  <2>2. Contract!Refuse(S)
    BY <1>4, <1>5, <1>7, <2>1 DEF Contract!Refuse
  <2> QED
    BY <2>2 DEF Contract!Next, Contract!Advance
<1> QED
  BY <1>6, <1>7

(* The stage that a pass launches is started, all of it at once. *)
LEMMA StagesStart ==
  ASSUME Kept, Kept', StartStage
  PROVE  Contract!Next
<1>1. \A i \in Index : Shows(i) /\ Shows(i)'
  BY StatusShown, StatusShownNext
<1>2. /\ stage = {} /\ stage' = Ready /\ runs' = runs /\ stageRuns' = stageRuns
      /\ plan' = plan /\ aborted' = aborted /\ Ready # {} /\ phase = "loop"
  BY DEF StartStage, Kept, Bookkeeping
<1>3. Ready \subseteq pending /\ Ready \in SUBSET Index
  BY DEF Ready, Kept, TypeOK
<1>4. \A i \in Ready : ~ HasRun(i) /\ stageRuns[i] = NoRun /\ i \in Schedulable(plan)
  BY <1>2, <1>3 DEF Kept, Bookkeeping, Launched
<1>5. \A i \in Ready : StatusOf(i) = "waiting" /\ StatusOf(i)' = "running"
  BY <1>1, <1>2, <1>3, <1>4 DEF Shows, HasRun
<1>6. \A i \in Index \ Ready : StatusOf(i)' = StatusOf(i)
  BY <1>1, <1>2 DEF Shows, HasRun
<1>7. needsOf' = needsOf /\ (Index \ Schedulable(plan))' = Index \ Schedulable(plan)
  BY <1>2 DEF needsOf
<1>8. [i \in Index |-> StatusOf(i)]'
        = [i \in Index |-> IF i \in Ready THEN "running" ELSE [k \in Index |-> StatusOf(k)][i]]
  BY <1>5, <1>6
<1>9. ASSUME NEW i \in Ready PROVE Contract!MayStart(i)
  <2>1. [k \in Index |-> StatusOf(k)][i] = "waiting" /\ i \notin Index \ Schedulable(plan)
    BY <1>3, <1>4, <1>5
  <2>2. \A j \in needsOf[i] : [k \in Index |-> StatusOf(k)][j] = "complete"
    BY <1>1, <1>3, NeedsInIndex DEF Ready, Shows, needsOf
  <2> QED
    BY <2>1, <2>2 DEF Contract!MayStart
<1>10. Contract!Start(Ready)
  BY <1>2, <1>7, <1>8, <1>9 DEF Contract!Start
<1> QED
  BY <1>3, <1>10 DEF Contract!Next, Contract!Advance

(* A promise of the stage that resolves finishes its step. *)
LEMMA PromisesFinish ==
  ASSUME Kept, Kept', NEW i \in Index, StepSettles(i)
  PROVE  Contract!Next
<1>1. \A k \in Index : Shows(k) /\ Shows(k)'
  BY StatusShown, StatusShownNext
<1>2. PICK r \in Reports : stageRuns' = [stageRuns EXCEPT ![i] = r]
  BY DEF StepSettles
<1>3. /\ stageRuns[i] = NoRun /\ i \in stage /\ stage' = stage /\ runs' = runs
      /\ plan' = plan /\ aborted' = aborted
  BY DEF StepSettles
<1>4. ~ HasRun(i) /\ ~ HasRun(i)'
  BY <1>3 DEF StepSettles, Kept, Bookkeeping, HasRun
<1>5. stageRuns'[i] = r /\ r # NoRun /\ \A k \in Index \ {i} : stageRuns'[k] = stageRuns[k]
  BY <1>2, ReportsType DEF Kept, TypeOK
<1>6. StatusOf(i) = "running" /\ StatusOf(i)' \in {"complete", "incomplete"}
  BY <1>1, <1>3, <1>4, <1>5 DEF Shows
<1>7. \A k \in Index \ {i} : StatusOf(k)' = StatusOf(k)
  BY <1>1, <1>3, <1>5 DEF Shows, HasRun
<1>8. needsOf' = needsOf /\ (Index \ Schedulable(plan))' = Index \ Schedulable(plan)
  BY <1>3 DEF needsOf
<1>9. PICK v \in {"complete", "incomplete"} : v = StatusOf(i)'
  BY <1>6
<1>10. [k \in Index |-> StatusOf(k)]' = [[k \in Index |-> StatusOf(k)] EXCEPT ![i] = v]
  BY <1>7, <1>9
<1>11. Contract!Finish(i)
  BY <1>3, <1>6, <1>8, <1>9, <1>10 DEF Contract!Finish
<1> QED
  BY <1>11 DEF Contract!Next, Contract!Advance

(* Storing a stage, and returning, show the caller nothing new. *)
LEMMA NothingShown ==
  ASSUME Kept, Kept', StageDone \/ Return \/ Terminated \/ UNCHANGED vars
  PROVE  UNCHANGED Contract!vars
<1>1. \A k \in Index : Shows(k) /\ Shows(k)'
  BY StatusShown, StatusShownNext
<1>2. plan' = plan /\ aborted' = aborted
  BY DEF StageDone, Return, Terminated, vars
<1>3. \A k \in Index : StatusOf(k)' = StatusOf(k)
  <2>1. CASE StageDone
    <3> SUFFICES ASSUME NEW k \in Index PROVE StatusOf(k)' = StatusOf(k)
      OBVIOUS
    <3>1. CASE k \in stage
      <4>1. ~ HasRun(k) /\ stageRuns[k] # NoRun /\ runs'[k] = stageRuns[k]
        BY <2>1, <3>1 DEF StageDone, Kept, Bookkeeping
      <4> QED
        BY <1>1, <3>1, <4>1 DEF Shows, HasRun
    <3>2. CASE k \notin stage
      BY <1>1, <2>1, <3>2 DEF StageDone, Shows, HasRun
    <3> QED
      BY <3>1, <3>2
  <2>2. CASE Return
    <3>1. \A k \in Index : HasRun(k) /\ runs'[k] = runs[k]
      BY <2>2 DEF Return, Kept, Bookkeeping
    <3> QED
      BY <1>1, <3>1 DEF Shows, HasRun
  <2>3. CASE Terminated \/ UNCHANGED vars
    BY <2>3 DEF Terminated, vars, StatusOf, RunOf, HasRun
  <2> QED
    BY <2>1, <2>2, <2>3
<1>4. needsOf' = needsOf /\ (Index \ Schedulable(plan))' = Index \ Schedulable(plan)
  BY <1>2 DEF needsOf
<1> QED
  BY <1>2, <1>3, <1>4 DEF Contract!vars

(* Every step of the scheduler is a step of the contract, or none. *)
LEMMA StepsAreAllowed ==
  ASSUME Kept, Kept', [Next]_vars
  PROVE  [Contract!Next]_(Contract!vars)
<1>1. ASSUME NEW S \in SUBSET pending, NEW c \in Cause \ {"unset"}, phase = "loop", Settle(S, c),
             \A i \in S : \/ aborted
                          \/ Ungrounded(needsOf, i)
                          \/ \E j \in Needs(plan, i) : HasRun(j) /\ ~ runIsAvailable(runs[j])
      PROVE  [Contract!Next]_(Contract!vars)
  <2>1. S \in SUBSET Index /\ stage = {} /\ stage' = {} /\ plan' = plan /\ aborted' = aborted
    BY <1>1 DEF Settle, Kept, TypeOK, Bookkeeping
  <2>2. \A i \in S : ~ HasRun(i)
    BY <1>1, <2>1 DEF Kept, Bookkeeping
  <2>3. \A i \in S : HasRun(i)' /\ ~ runIsAvailable(runs'[i])
    BY <1>1, <2>1, FrameworkRun DEF Settle, HasRun
  <2>4. \A i \in Index \ S : runs'[i] = runs[i]
    BY <1>1 DEF Settle
  <2> QED
    BY <1>1, <2>1, <2>2, <2>3, <2>4, SettlingRefuses
<1>2. CASE PassAborted
  BY <1>1, <1>2 DEF PassAborted, Cause
<1>3. CASE PassBlocked
  <2>1. Blocked \in SUBSET pending
    BY DEF Blocked
  <2>2. \A i \in Blocked : \E j \in Needs(plan, i) : HasRun(j) /\ ~ runIsAvailable(runs[j])
    BY DEF Blocked
  <2>3. "prerequisite-unavailable" \in Cause \ {"unset"}
    BY DEF Cause
  <2> QED
    BY <1>1, <1>3, <2>1, <2>2, <2>3 DEF PassBlocked
<1>4. CASE PassCycle
  <2>1. PICK C \in CycleIndexes : Settle(C, "dependency-cycle")
    BY <1>4 DEF PassCycle
  <2>2. C \in SUBSET pending
    BY <2>1 DEF CycleIndexes, Cycles, FirstPending
  <2>3. \A i \in C : Ungrounded(needsOf, i)
    BY <1>4, <2>2, StuckMeansUngrounded DEF PassCycle, Kept
  <2>4. "dependency-cycle" \in Cause \ {"unset"}
    BY DEF Cause
  <2> QED
    BY <1>1, <1>4, <2>1, <2>2, <2>3, <2>4 DEF PassCycle
<1>5. CASE Preflight
  <2> DEFINE S == Index \ Schedulable(plan)
  <2>1. /\ phase = "created" /\ stage = {} /\ stage' = {} /\ plan' = plan /\ aborted' = aborted
        /\ \A i \in Index : ~ HasRun(i)
    BY <1>5 DEF Preflight, Kept, Bookkeeping
  <2>2. \A i \in S : HasRun(i)' /\ ~ runIsAvailable(runs'[i])
    BY <1>5, FrameworkRun DEF Preflight, HasRun, Cause
  <2>3. \A i \in Index \ S : runs'[i] = runs[i]
    BY <1>5, <2>1 DEF Preflight, HasRun
  <2> QED
    BY <2>1, <2>2, <2>3, SettlingRefuses
<1>6. CASE Abort
  <2>1. /\ ~ aborted /\ aborted' = TRUE /\ plan' = plan
        /\ runs' = runs /\ stage' = stage /\ stageRuns' = stageRuns
    BY <1>6 DEF Abort
  <2>2. needsOf' = needsOf /\ (Index \ Schedulable(plan))' = Index \ Schedulable(plan)
    BY <2>1 DEF needsOf
  <2>3. [i \in Index |-> StatusOf(i)]' = [i \in Index |-> StatusOf(i)]
    BY <2>1 DEF StatusOf, RunOf, HasRun
  <2> QED
    BY <2>1, <2>2, <2>3 DEF Contract!Next, Contract!Cancel
<1>7. CASE StartStage \/ \E i \in Index : StepSettles(i)
  BY <1>7, StagesStart, PromisesFinish
<1>8. CASE StageDone \/ Return \/ Terminated \/ UNCHANGED vars
  BY <1>8, NothingShown
<1> QED
  BY <1>2, <1>3, <1>4, <1>5, <1>6, <1>7, <1>8 DEF Next, Pass

(***************************************************************************)
(* The refinement: for every plan, every number of steps and every report, *)
(* a run of the staged scheduler is, seen through StatusOf, a run of the   *)
(* contract: no check starts before its prerequisites are complete, none   *)
(* is refused without a reason that is true of it, and a verdict once      *)
(* reached stays.  That every check reaches one is the contract's fairness *)
(* and is left to TLC (ImplementsContract).                                *)
(***************************************************************************)
THEOREM SchedulerRefinesContract == Spec => Contract!Safety
<1>1. Init => Launched /\ Recorded
  BY DEF Init, Launched, Recorded, HasRun
<1>2. Spec => []Kept
  BY <1>1, LaunchedStep, RecordedStep, TypeCorrect, BookkeepingHolds, PTL DEF Spec, Kept
<1>3. Init => Contract!Init
  <2> SUFFICES ASSUME Init PROVE Contract!Init
    OBVIOUS
  <2>1. needsOf \in [Index -> SUBSET Index]
    BY NeedsInIndex DEF needsOf
  <2>2. \A i \in Index : StatusOf(i) = "waiting"
    <3> SUFFICES ASSUME NEW i \in Index PROVE StatusOf(i) = "waiting"
      OBVIOUS
    <3>1. RunOf(i) = NoRun /\ i \notin stage
      BY DEF Init, RunOf, HasRun
    <3>2. NoRun.statuses \cap Incomplete = {}
      BY DEF NoRun
    <3> QED
      BY <3>1, <3>2 DEF StatusOf, StatusFor
  <2> QED
    BY <2>1, <2>2 DEF Init, Contract!Init
<1>4. Kept /\ Kept' /\ [Next]_vars => [Contract!Next]_(Contract!vars)
  BY StepsAreAllowed
<1> QED
  BY <1>2, <1>3, <1>4, PTL DEF Spec, Contract!Safety

-----------------------------------------------------------------------------
(***************************************************************************)
(* A finite set in which every element needs another one of it contains a  *)
(* simple cycle: walk by f from each element to one it needs; a smallest   *)
(* non-empty set closed under f is a single round.                         *)
(***************************************************************************)
Closed(f, S) == S # {} /\ \A i \in S : f[i] \in S

LEMMA SmallestClosed ==
  ASSUME NEW N, IsFiniteSet(N), NEW f, NEW T \in SUBSET N, Closed(f, T)
  PROVE  \E C \in SUBSET N : Closed(f, C) /\ \A S \in SUBSET C : Closed(f, S) => S = C
<1> DEFINE Sizes == {n \in Nat : \E S \in SUBSET N : Closed(f, S) /\ Cardinality(S) = n}
<1>1. \A S \in SUBSET N : IsFiniteSet(S) /\ Cardinality(S) \in Nat
  BY FS_Subset, FS_CardinalityType
<1>2. Sizes \subseteq Nat /\ Sizes # {}
  <2>1. Cardinality(T) \in Sizes
    BY <1>1
  <2> QED
    BY <2>1
<1>3. PICK n \in Sizes : \A m \in Sizes : ~ (<<m, n>> \in OpToRel(<, Nat))
  <2> HIDE DEF Sizes
  <2> QED
    BY <1>2, NatLessThanWellFounded, WFMin
<1>4. ASSUME NEW m \in Sizes PROVE m >= n
  <2>1. m \in Nat /\ n \in Nat
    OBVIOUS
  <2>2. ~ (<<m, n>> \in OpToRel(<, Nat))
    BY <1>3
  <2>3. ~ (m < n)
    BY <2>1, <2>2 DEF OpToRel
  <2> QED
    BY <2>1, <2>3
<1>5. PICK C \in SUBSET N : Closed(f, C) /\ Cardinality(C) = n
  BY <1>3
<1>6. ASSUME NEW S \in SUBSET C, Closed(f, S) PROVE S = C
  <2>1. S \in SUBSET N
    OBVIOUS
  <2>2. Cardinality(S) \in Sizes
    BY <1>1, <1>6, <2>1
  <2>3. Cardinality(S) >= Cardinality(C) /\ Cardinality(S) \in Nat /\ Cardinality(C) \in Nat
    BY <1>1, <1>4, <1>5, <2>1, <2>2
  <2>4. Cardinality(S) <= Cardinality(C) /\ (Cardinality(C) = Cardinality(S) => C = S)
    BY <1>1, FS_Subset
  <2> QED
    BY <2>3, <2>4
<1> QED
  BY <1>5, <1>6

LEMMA CycleExists ==
  ASSUME NEW needs, NEW N, IsFiniteSet(N), N # {},
         \A i \in N : \E j \in N : j \in needs[i]
  PROVE  Cycles(needs, N) # {}
<1>1. PICK f \in [N -> N] : \A i \in N : f[i] \in needs[i]
  <2> DEFINE g == [i \in N |-> CHOOSE j \in N : j \in needs[i]]
  <2>1. \A i \in N : g[i] \in N /\ g[i] \in needs[i]
    OBVIOUS
  <2> QED
    BY <2>1
<1>2. Closed(f, N)
  BY <1>1 DEF Closed
<1>3. PICK C \in SUBSET N : Closed(f, C) /\ \A S \in SUBSET C : Closed(f, S) => S = C
  BY <1>2, SmallestClosed
<1>4. PICK next \in [C -> C] : \A i \in C : next[i] = f[i]
  <2>1. [i \in C |-> f[i]] \in [C -> C]
    BY <1>1, <1>3 DEF Closed
  <2> QED
    BY <2>1
<1>5. C # {}
  BY <1>3 DEF Closed
<1>6. \A i \in C : next[i] \in needs[i]
  BY <1>1, <1>4
<1>7. \A S \in SUBSET C : (S # {} /\ \A i \in S : next[i] \in S) => S = C
  BY <1>3, <1>4 DEF Closed
<1>8. IsCycle(needs, C)
  BY <1>5, <1>6, <1>7 DEF IsCycle
<1> QED
  BY <1>8 DEF Cycles

(***************************************************************************)
(* A pass that is stuck has a cycle to name: for every plan, the           *)
(* [first pending] fallback beside findDependencyCycle                     *)
(* (inspect-async.ts:444) is dead code.                                    *)
(***************************************************************************)
THEOREM StuckHasCycle == Spec => []StuckMeansCycle
<1>1. TypeOK /\ Bookkeeping => StuckMeansCycle
  <2> SUFFICES ASSUME TypeOK, Bookkeeping, phase = "loop", pending # {}, Ready = {}, Blocked = {}
               PROVE  Cycles(needsOf, pending) # {}
    BY DEF StuckMeansCycle
  <2>1. \A i \in pending : \E j \in pending : j \in needsOf[i]
    BY StuckMeansNeedy
  <2>2. IsFiniteSet(pending)
    BY IndexAssumption, FS_Subset DEF TypeOK
  <2> QED
    BY <2>1, <2>2, CycleExists
<1> QED
  BY <1>1, TypeCorrect, BookkeepingHolds, PTL
=============================================================================
