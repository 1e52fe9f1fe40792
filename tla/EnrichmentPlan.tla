--------------------------- MODULE EnrichmentPlan ---------------------------
(***************************************************************************)
(* executeEnrichmentPlan (packages/core/src/inspect-async.ts): the staged  *)
(* scheduler that runs the configured enrichers of one inspectAsync call.  *)
(*                                                                         *)
(* The body is a loop of passes.  A pass is synchronous; the only await is *)
(* the Promise.all over a stage, so the caller's signal can flip only      *)
(* before the call and while a stage is in flight.  What one enricher run  *)
(* does inside its stage is EnricherRun's subject; here it settles with    *)
(* any report.                                                             *)
(***************************************************************************)
EXTENDS PlanGraph

CONSTANTS
  Plans,      \* the plans to schedule, a subset of [Index -> PlanEntry]
  Reports     \* the reports an enricher run may settle with

Completed  == {"success", "no-hit"}
Incomplete == {"skipped", "failure"}
Status     == Completed \cup Incomplete

Cause == {"unset", "source", "caller-aborted", "invalid-plan",
          "prerequisite-unavailable", "dependency-cycle", "unsettled-plan-node"}

(***************************************************************************)
(* A run is the set of statuses in its report and the framework cause, if  *)
(* the scheduler itself wrote it.  An unset slot has no outcome.           *)
(***************************************************************************)
Run   == [statuses : SUBSET Status, cause : Cause]
NoRun == [statuses |-> {}, cause |-> "unset"]

ASSUME PlansAssumption   == Plans \subseteq [Index -> PlanEntry]
ASSUME ReportsAssumption ==
  Reports \subseteq {r \in Run : r.statuses # {} /\ r.cause \in {"source", "caller-aborted"}}

VARIABLES
  plan,       \* the enrichers, fixed by the caller
  phase,      \* where executeEnrichmentPlan stands
  runs,       \* the runs array, NoRun for a hole
  pending,    \* indexes with no run yet
  stage,      \* indexes of the stage in flight
  stageRuns,  \* what the stage's promises have resolved to so far
  seen,       \* seen[i]: indexes whose outcomes i got as previousOutcomes
  started,    \* indexes handed to runEnricher
  aborted     \* signal.aborted

vars == <<plan, phase, runs, pending, stage, stageRuns, seen, started, aborted>>

Phase == {"created", "loop", "stage", "returned"}

frameworkReport(cause) == [statuses |-> {"skipped"}, cause |-> cause]

(* Fault: one completed outcome is enough. *)
PartlyAvailable(run) == run.statuses \cap Completed # {}

runIsAvailable(run) == run.statuses \subseteq Completed

HasRun(i) == runs[i] # NoRun

-----------------------------------------------------------------------------
Init ==
  /\ plan \in Plans
  /\ phase = "created"
  /\ runs = [i \in Index |-> NoRun]
  /\ pending = {}
  /\ stage = {}
  /\ stageRuns = [i \in Index |-> NoRun]
  /\ seen = [i \in Index |-> {}]
  /\ started = {}
  /\ aborted \in BOOLEAN

(***************************************************************************)
(* The caller aborts its signal; possible only while the function is not   *)
(* executing synchronously.                                                *)
(***************************************************************************)
Abort ==
  /\ phase \in {"created", "stage"}
  /\ ~ aborted
  /\ aborted' = TRUE
  /\ UNCHANGED <<plan, phase, runs, pending, stage, stageRuns, seen, started>>

(***************************************************************************)
(* Preflight: invalid steps are settled at once, the others are pending.   *)
(***************************************************************************)
Preflight ==
  /\ phase = "created"
  /\ phase' = "loop"
  /\ pending' = Schedulable(plan)
  /\ runs' = [i \in Index |->
                IF i \in Schedulable(plan) THEN NoRun
                ELSE frameworkReport("invalid-plan")]
  /\ UNCHANGED <<plan, stage, stageRuns, seen, started, aborted>>

(* Faults of the ready filter: a settled prerequisite is enough; one that has
   not settled does not hold a step back. *)
ReadyOnceSettled == {i \in pending : \A j \in Needs(plan, i) : HasRun(j)}

ReadyUnlessBlocked ==
  {i \in pending : \A j \in Needs(plan, i) : HasRun(j) => runIsAvailable(runs[j])}

(***************************************************************************)
(* The two filters of a pass.                                              *)
(***************************************************************************)
Ready ==
  {i \in pending : \A j \in Needs(plan, i) : HasRun(j) /\ runIsAvailable(runs[j])}

Blocked ==
  {i \in pending : \E j \in Needs(plan, i) : HasRun(j) /\ ~ runIsAvailable(runs[j])}

(* Fault: steps leave pending without a run. *)
Forget(S, cause) ==
  /\ pending' = pending \ S
  /\ UNCHANGED <<plan, phase, runs, stage, stageRuns, seen, started, aborted>>

Settle(S, cause) ==
  /\ runs' = [i \in Index |-> IF i \in S THEN frameworkReport(cause) ELSE runs[i]]
  /\ pending' = pending \ S
  /\ UNCHANGED <<plan, phase, stage, stageRuns, seen, started, aborted>>

(***************************************************************************)
(* A pass that starts with an aborted signal settles every pending step.   *)
(***************************************************************************)
PassAborted ==
  /\ phase = "loop" /\ pending # {}
  /\ aborted
  /\ Settle(pending, "caller-aborted")

(***************************************************************************)
(* A pass with ready steps freezes the outcomes so far and launches them   *)
(* all.                                                                    *)
(***************************************************************************)
StartStage ==
  /\ phase = "loop" /\ ~ aborted
  /\ Ready # {}
  /\ phase' = "stage"
  /\ stage' = Ready
  /\ started' = started \cup Ready
  /\ seen' = [i \in Index |->
                IF i \in Ready THEN {j \in Index : HasRun(j)} ELSE seen[i]]
  /\ UNCHANGED <<plan, runs, pending, stageRuns, aborted>>

(* Fault: previousOutcomes grows while the stage is in flight. *)
SettlesLive(i) ==
  /\ phase = "stage"
  /\ i \in stage /\ stageRuns[i] = NoRun
  /\ \E r \in Reports :
       /\ r.cause = "caller-aborted" => aborted
       /\ stageRuns' = [stageRuns EXCEPT ![i] = r]
  /\ seen' = [j \in Index |-> IF j \in stage \ {i} /\ stageRuns[j] = NoRun
                             THEN seen[j] \cup {i} ELSE seen[j]]
  /\ UNCHANGED <<plan, phase, runs, pending, stage, started, aborted>>

(***************************************************************************)
(* One runEnricher promise of the stage resolves, in any order.            *)
(***************************************************************************)
StepSettles(i) ==
  /\ phase = "stage"
  /\ i \in stage /\ stageRuns[i] = NoRun
  /\ \E r \in Reports :
       /\ r.cause = "caller-aborted" => aborted
       /\ stageRuns' = [stageRuns EXCEPT ![i] = r]
  /\ UNCHANGED <<plan, phase, runs, pending, stage, seen, started, aborted>>

(***************************************************************************)
(* Promise.all resolves: the stage's runs are stored and leave pending.    *)
(***************************************************************************)
StageDone ==
  /\ phase = "stage"
  /\ \A i \in stage : stageRuns[i] # NoRun
  /\ phase' = "loop"
  /\ runs' = [i \in Index |-> IF i \in stage THEN stageRuns[i] ELSE runs[i]]
  /\ pending' = pending \ stage
  /\ stage' = {}
  /\ UNCHANGED <<plan, stageRuns, seen, started, aborted>>

PassBlocked ==
  /\ phase = "loop" /\ ~ aborted
  /\ Ready = {} /\ Blocked # {}
  /\ Settle(Blocked, "prerequisite-unavailable")

(***************************************************************************)
(* findDependencyCycle returns one simple cycle of the pending graph (see  *)
(* DependencyCycle for the search itself); the code's fallback for an      *)
(* empty answer is the first pending step.                                 *)
(***************************************************************************)
needsOf == [i \in Index |-> Needs(plan, i)]

FirstPending == {i \in pending : \A j \in pending : i <= j}

(* Fault: the cycle found is empty. *)
NoCycleIndexes == {{}}

CycleIndexes ==
  IF Cycles(needsOf, pending) = {} THEN {FirstPending} ELSE Cycles(needsOf, pending)

(* Fault: the cycle verdict is given before the blocked steps are settled. *)
CycleBeforeBlocked ==
  /\ phase = "loop" /\ ~ aborted /\ pending # {}
  /\ Ready = {}
  /\ \E C \in CycleIndexes : Settle(C, "dependency-cycle")

PassCycle ==
  /\ phase = "loop" /\ ~ aborted /\ pending # {}
  /\ Ready = {} /\ Blocked = {}
  /\ \E C \in CycleIndexes : Settle(C, "dependency-cycle")

(***************************************************************************)
(* The loop ends; a hole in runs would be papered over by the defensive    *)
(* fallback.                                                               *)
(***************************************************************************)
Return ==
  /\ phase = "loop" /\ pending = {}
  /\ phase' = "returned"
  /\ runs' = [i \in Index |->
                IF HasRun(i) THEN runs[i] ELSE frameworkReport("unsettled-plan-node")]
  /\ UNCHANGED <<plan, pending, stage, stageRuns, seen, started, aborted>>

(***************************************************************************)
(* The promise of inspectAsync has resolved; nothing more happens.         *)
(***************************************************************************)
Terminated == phase = "returned" /\ UNCHANGED vars

Pass == PassAborted \/ StartStage \/ PassBlocked \/ PassCycle

Next ==
  \/ Abort
  \/ Preflight
  \/ Pass
  \/ \E i \in Index : StepSettles(i)
  \/ StageDone
  \/ Return
  \/ Terminated

(***************************************************************************)
(* The scheduler's own steps are synchronous continuations that the event  *)
(* loop always runs; every step settles because runEnricher races provider *)
(* and cache against a deadline.  Abort is the caller's choice: not fair.  *)
(***************************************************************************)
Fairness ==
  /\ WF_vars(Preflight)
  /\ WF_vars(Pass)
  /\ WF_vars(StageDone)
  /\ WF_vars(Return)
  /\ \A i \in Index : WF_vars(StepSettles(i))

Spec == Init /\ [][Next]_vars

FairSpec == Spec /\ Fairness

-----------------------------------------------------------------------------
TypeOK ==
  /\ plan \in Plans
  /\ phase \in Phase
  /\ runs \in [Index -> Run]
  /\ pending \in SUBSET Index
  /\ stage \in SUBSET Index
  /\ stageRuns \in [Index -> Run]
  /\ seen \in [Index -> SUBSET Index]
  /\ started \in SUBSET Index
  /\ aborted \in BOOLEAN

(***************************************************************************)
(* A step is handed to runEnricher only when every prerequisite it names   *)
(* has a recorded, wholly completed run, and that stays true of it: no     *)
(* dependent ever ran on a prerequisite that was skipped, failed or only   *)
(* partly completed (the ready filter, inspect-async.ts:374-382).          *)
(***************************************************************************)
PrerequisitesComplete ==
  \A i \in started : \A j \in Needs(plan, i) :
    HasRun(j) /\ runs[j].statuses \subseteq Completed

(***************************************************************************)
(* previousOutcomes is a snapshot: it holds the outcomes of every          *)
(* prerequisite of the step.  The steps of a stage are shown the same, and *)
(* none of them the outcome of another, however they resolve; and a step   *)
(* that is shown an outcome is shown all that the step it came from was    *)
(* shown (inspect-async.ts:384-391).                                       *)
(***************************************************************************)
SnapshotIsolation ==
  /\ \A i \in started : Needs(plan, i) \subseteq seen[i]
  /\ \A i, j \in stage : j \notin seen[i] /\ seen[i] = seen[j]
  /\ \A i, j \in started : i \in seen[j] => seen[i] \cup {i} \subseteq seen[j] \ {j}

(***************************************************************************)
(* "Every slot is settled above": when the loop ends no hole is left, so   *)
(* the unsettled-plan-node fallback (inspect-async.ts:464-476) is dead.    *)
(***************************************************************************)
EverySlotSettled ==
  /\ phase = "returned" => \A i \in Index : HasRun(i)
  /\ \A i \in Index : runs[i].cause # "unsettled-plan-node"

(***************************************************************************)
(* Every framework verdict blames what is really wrong: a cycle verdict is *)
(* given only to a step whose prerequisites never bottom out, a            *)
(* prerequisite verdict only beside a recorded unavailable prerequisite,   *)
(* an abort verdict only after an abort (inspect-async.ts:353-459).        *)
(***************************************************************************)
VerdictsAreTrue ==
  \A i \in Index :
    /\ runs[i].cause = "dependency-cycle" => Ungrounded(needsOf, i)
    /\ runs[i].cause = "prerequisite-unavailable" =>
         \E j \in Needs(plan, i) : runs[j].statuses \cap Incomplete # {}
    /\ runs[i].cause = "caller-aborted" => aborted
    /\ runs[i].cause = "invalid-plan" => i \notin Schedulable(plan)

(***************************************************************************)
(* What the scheduler's bookkeeping keeps true between its steps; the      *)
(* properties above follow from it.  After preflight, pending is exactly   *)
(* the holes of runs; a stage consists of pending steps; a started step is *)
(* recorded or in the stage; a snapshot holds recorded runs only.          *)
(***************************************************************************)
Bookkeeping ==
  /\ phase = "created" => started = {} /\ \A i \in Index : ~ HasRun(i)
  /\ phase # "created" => \A i \in Index : i \in pending <=> ~ HasRun(i)
  /\ stage \subseteq pending
  /\ phase # "stage" => stage = {}
  /\ started \cap pending \subseteq stage
  /\ \A i \in Index : \A j \in seen[i] : HasRun(j)
  /\ \A i \in Index : stageRuns[i].cause \in {"unset", "source", "caller-aborted"}
  /\ \A i \in Index : stageRuns[i].cause = "caller-aborted" => aborted

(***************************************************************************)
(* When a pass finds nothing ready and nothing blocked, a cycle exists     *)
(* among the pending steps: the [first pending] fallback beside            *)
(* findDependencyCycle (inspect-async.ts:444) is dead code.                *)
(***************************************************************************)
StuckMeansCycle ==
  (phase = "loop" /\ pending # {} /\ Ready = {} /\ Blocked = {})
    => Cycles(needsOf, pending) # {}

(***************************************************************************)
(* A recorded run is never replaced, by a later pass or by the fallback.   *)
(***************************************************************************)
RunsAreFinal ==
  [][\A i \in Index : HasRun(i) => runs'[i] = runs[i]]_vars

(***************************************************************************)
(* inspectAsync always resolves, whatever the plan looks like and however  *)
(* its steps settle.                                                       *)
(***************************************************************************)
AlwaysReturns == <>(phase = "returned")

-----------------------------------------------------------------------------
(***************************************************************************)
(* The scheduler implements the caller's contract.  A step of the stage    *)
(* counts as settled as soon as its promise resolves.                      *)
(***************************************************************************)
RunOf(i) == IF HasRun(i) THEN runs[i] ELSE stageRuns[i]

StatusFor(run, launched) ==
  CASE run # NoRun /\ run.statuses \subseteq Completed -> "complete"
    [] run.statuses \cap Incomplete # {} -> "incomplete"
    [] run = NoRun /\ launched -> "running"
    [] OTHER -> "waiting"

StatusOf(i) == StatusFor(RunOf(i), i \in stage)

Contract == INSTANCE EnrichmentContract WITH
  needs     <- needsOf,
  unfit     <- Index \ Schedulable(plan),
  cancelled <- aborted,
  status    <- [i \in Index |-> StatusOf(i)]

(***************************************************************************)
(* Every behaviour of the staged scheduler is one the contract allows, and *)
(* it keeps the contract's promise that every check reaches a verdict.     *)
(***************************************************************************)
ImplementsContract == Contract!Spec

=============================================================================
