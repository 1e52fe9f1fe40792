---------------------------- MODULE EnricherRun -----------------------------
(***************************************************************************)
(* runEnricher (packages/core/src/inspect-async.ts): one governed, cached  *)
(* and deadline-bounded call of an enricher, and many of them at once over *)
(* one shared cache and one shared governor.                               *)
(*                                                                         *)
(* The function suspends at three awaits, each a Promise.race of an        *)
(* operation against the deadline and the caller's signal.  A race is      *)
(* decided in one step and the code after the await runs in a later one,   *)
(* so the signal may fire, and other runs may move, in between.  An        *)
(* operation that lost its race goes on in the background: an abandoned    *)
(* cache write may still reach the store.                                  *)
(***************************************************************************)
EXTENDS Integers

CONSTANTS
  RunId,           \* enricher runs, of one or several inspectAsync calls
  CheckToken,      \* "<layer>:<id>", what the governor knows a source by
  Key,             \* namespaced cache keys
  Caller,          \* inspectAsync calls, each with one AbortSignal
  sourceOf, keyOf, callerOf,    \* functions on RunId
  timeoutOf,       \* function on RunId: how Enricher.timeoutMs is set
  GovernorTimeout, \* how the admitting decision sets timeoutMs
  Ttls,            \* lifetimes cacheTtlFor may resolve to; 0: not cached
  FaultyGovernor,  \* a custom governor may throw
  FaultyStore,     \* an external store may throw or return rubbish
  NoReport,        \* undefined
  governor         \* the governor's configuration, and what its clock does

(* Every run has a key, and a report is not the absence of one. *)
ASSUME RunAssumption ==
  /\ keyOf \in [RunId -> Key]
  /\ NoReport \notin RunId

(* A timeoutMs setting: explicitly null, a positive number, or anything else. *)
TimeoutSetting == {"null", "positive", "unset"}

VARIABLES
  clock, sources,  \* the governor's clock and per-source states
  store,           \* the cache; a stored report is named by the run it came from
  aborted,         \* aborted[c]: the signal of call c has fired
  pc,              \* where each run is suspended
  lookup,          \* how the cache read was decided
  served,          \* the report a hit delivered
  answer,          \* how the provider race was decided
  write,           \* how the cache write was decided
  lateWrites,      \* cache writes whose race was lost but that still run
  degradations,    \* RuntimeDegradation codes collected so far
  result,          \* statuses and framework causes of the returned report
  admitted, recorded   \* governor calls made for each run

govVars    == <<clock, sources>>
raceVars   == <<lookup, served, answer, write>>
countVars  == <<admitted, recorded>>
runVars == <<clock, sources, store, aborted, pc, lookup, served, answer, write,
          lateWrites, degradations, result, admitted, recorded>>

Gov == INSTANCE EnrichmentGovernor WITH Source <- CheckToken,
  Capacity <- governor.capacity, Interval <- governor.interval, Refills <- governor.refills,
  BackoffBase <- governor.backoffBase, BackoffMax <- governor.backoffMax,
  MaxTime <- governor.maxTime, MonotonicClock <- governor.monotonic,
  now <- clock, states <- sources

Cache == INSTANCE EnrichmentCache WITH Report <- RunId, now <- clock

Pc == {"idle", "reading", "read", "enriching", "raced", "writing", "written", "returned"}

Lookup == {"none", "hit", "miss", "rubbish", "threw", "timed-out"}

(***************************************************************************)
(* What enrich can deliver: a report of success/no-hit outcomes only, one  *)
(* with a failure among its outcomes, one with skips and no failure, an    *)
(* invalid value, an exception; or the race is lost.                       *)
(***************************************************************************)
Answer == {"none", "clean", "partial", "declined", "malformed", "threw", "timed-out"}

Write == {"none", "stored", "threw", "timed-out"}

Causes == {"caller-aborted", "governor-error", "backoff-active", "rate-limited",
           "source-error", "timeout", "invalid-output", "invalid-cached-output",
           "cache-key-error", "cache-ttl-error", "cache-read-error",
           "cache-write-error", "source"}

Statuses == {"success", "skipped", "failure"}

NoResult == [statuses |-> {}, causes |-> {}]

Aborted(r) == aborted[callerOf[r]]

(* Fault: only a timeout of the enricher's own bounds the race. *)
BoundedByOwn(own, governors) == own = "positive"

(***************************************************************************)
(* effectiveTimeoutMs: whether the race has a deadline at all.  null is    *)
(* the only way to disable it, and the enricher's own setting wins.        *)
(***************************************************************************)
Bounded(own, governors) ==
  own = "positive" \/ (own = "unset" /\ governors # "null")

(* TIMED_OUT: the timer or the caller's signal wins the race. *)
CacheMayTimeOut(r)    == Bounded(timeoutOf[r], "unset") \/ Aborted(r)
ProviderMayTimeOut(r) == Bounded(timeoutOf[r], GovernorTimeout) \/ Aborted(r)

(* cacheSlotFor resolved a slot: the run went through a cache read. *)
HasSlot(r) == lookup[r] # "none"

-----------------------------------------------------------------------------
RunInit ==
  /\ clock = 0
  /\ sources = [t \in CheckToken |-> Gov!NoState]
  /\ store = [k \in Key |-> Cache!NoEntry]
  /\ aborted = [c \in Caller |-> FALSE]
  /\ pc = [r \in RunId |-> "idle"]
  /\ lookup = [r \in RunId |-> "none"]
  /\ served = [r \in RunId |-> NoReport]
  /\ answer = [r \in RunId |-> "none"]
  /\ write = [r \in RunId |-> "none"]
  /\ lateWrites = {}
  /\ degradations = [r \in RunId |-> {}]
  /\ result = [r \in RunId |-> NoResult]
  /\ admitted = [r \in RunId |-> 0]
  /\ recorded = [r \in RunId |-> 0]

(* Faults: degradation codes land among the statuses; a degraded report loses
   its primary outcomes. *)
DegradedStatuses(statuses, causes, degraded) ==
  [statuses |-> statuses \cup degraded, causes |-> causes]

DegradedOnly(statuses, causes, degraded) ==
  IF degraded = {} THEN [statuses |-> statuses, causes |-> causes]
  ELSE [statuses |-> {"failure"}, causes |-> degraded]

(***************************************************************************)
(* withDegradations: the primary report followed by one failure outcome    *)
(* per degradation.                                                        *)
(***************************************************************************)
withDegradations(statuses, causes, degraded) ==
  [statuses |-> statuses \cup (IF degraded = {} THEN {} ELSE {"failure"}),
   causes   |-> causes \cup degraded]

Return(r, statuses, causes, degraded) ==
  /\ pc' = [pc EXCEPT ![r] = "returned"]
  /\ degradations' = [degradations EXCEPT ![r] = degraded]
  /\ result' = [result EXCEPT ![r] = withDegradations(statuses, causes, degraded)]

(***************************************************************************)
(* Admission and, if the governor agrees, the start of the provider race.  *)
(* There is no await between the two.                                      *)
(***************************************************************************)
GovernorThrows(r, degraded) ==
  /\ FaultyGovernor
  /\ Return(r, {"failure"}, {"governor-error"}, degraded)
  /\ UNCHANGED <<govVars, countVars>>

GovernorDenies(r, degraded) ==
  /\ Gov!decision(sourceOf[r]) # "run"
  /\ Gov!admit(sourceOf[r])
  /\ Return(r, {"skipped"}, {Gov!decision(sourceOf[r])}, degraded)
  /\ UNCHANGED countVars

GovernorAdmits(r, degraded) ==
  /\ Gov!decision(sourceOf[r]) = "run"
  /\ Gov!admit(sourceOf[r])
  /\ pc' = [pc EXCEPT ![r] = "enriching"]
  /\ degradations' = [degradations EXCEPT ![r] = degraded]
  /\ admitted' = [admitted EXCEPT ![r] = @ + 1]
  /\ UNCHANGED <<result, recorded>>

Admission(r, degraded) ==
  \/ GovernorThrows(r, degraded)
  \/ GovernorDenies(r, degraded)
  \/ GovernorAdmits(r, degraded)

(***************************************************************************)
(* The entry: abort check, then cacheSlotFor.  Without a usable slot the   *)
(* run goes straight to admission.                                         *)
(***************************************************************************)
BeginAborted(r) ==
  /\ pc[r] = "idle" /\ Aborted(r)
  /\ Return(r, {"skipped"}, {"caller-aborted"}, {})
  /\ UNCHANGED <<govVars, store, aborted, raceVars, lateWrites, countVars>>

BeginCached(r) ==
  /\ pc[r] = "idle" /\ ~ Aborted(r)
  /\ pc' = [pc EXCEPT ![r] = "reading"]
  /\ UNCHANGED <<govVars, store, aborted, raceVars, lateWrites, degradations,
                 result, countVars>>

BeginUncached(r) ==
  /\ pc[r] = "idle" /\ ~ Aborted(r)
  /\ \E d \in {{}, {"cache-key-error"}, {"cache-ttl-error"}} : Admission(r, d)
  /\ UNCHANGED <<store, aborted, raceVars, lateWrites>>

(***************************************************************************)
(* The bounded cache read is decided.                                      *)
(***************************************************************************)
ReadAnswers(r) ==
  /\ pc[r] = "reading"
  /\ pc' = [pc EXCEPT ![r] = "read"]
  /\ served' = [served EXCEPT ![r] = Cache!got(keyOf[r])]
  /\ lookup' = [lookup EXCEPT ![r] =
                  IF Cache!got(keyOf[r]) = NoReport THEN "miss" ELSE "hit"]
  /\ store' = Cache!afterGet(keyOf[r])
  /\ UNCHANGED <<govVars, aborted, answer, write, lateWrites, degradations,
                 result, countVars>>

ReadDecides(r, o) ==
  /\ pc[r] = "reading"
  /\ pc' = [pc EXCEPT ![r] = "read"]
  /\ lookup' = [lookup EXCEPT ![r] = o]
  /\ UNCHANGED <<govVars, store, aborted, served, answer, write, lateWrites,
                 degradations, result, countVars>>

ReadBreaks(r)   == FaultyStore /\ \E o \in {"threw", "rubbish"} : ReadDecides(r, o)
ReadTimesOut(r) == CacheMayTimeOut(r) /\ ReadDecides(r, "timed-out")

(***************************************************************************)
(* After the read: a hit stands in for the run, a cancelled read ends it,  *)
(* anything else goes to admission, with a degradation if the read failed. *)
(* The signal is consulted only when the race was lost.                    *)
(***************************************************************************)
ReadHit(r) ==
  /\ pc[r] = "read"
  /\ \/ lookup[r] = "hit" /\ Return(r, {"success"}, {}, {})
     \/ lookup[r] = "rubbish" /\ Return(r, {"failure"}, {"invalid-cached-output"}, {})
     \/ /\ lookup[r] = "timed-out" /\ Aborted(r)
        /\ Return(r, {"skipped"}, {"caller-aborted"}, {})
  /\ UNCHANGED <<govVars, store, aborted, raceVars, lateWrites, countVars>>

ReadMiss(r) ==
  /\ pc[r] = "read"
  /\ \/ lookup[r] = "miss" /\ Admission(r, {})
     \/ lookup[r] = "threw" /\ Admission(r, {"cache-read-error"})
     \/ lookup[r] = "timed-out" /\ ~ Aborted(r) /\ Admission(r, {"cache-read-error"})
  /\ UNCHANGED <<store, aborted, raceVars, lateWrites>>

(***************************************************************************)
(* The provider race is decided: runWithTimeout.                           *)
(***************************************************************************)
EnrichDecides(r, a) ==
  /\ pc[r] = "enriching"
  /\ pc' = [pc EXCEPT ![r] = "raced"]
  /\ answer' = [answer EXCEPT ![r] = a]
  /\ UNCHANGED <<govVars, store, aborted, lookup, served, write, lateWrites,
                 degradations, result, countVars>>

EnrichAnswers(r) == \E a \in Answer \ {"none", "timed-out"} : EnrichDecides(r, a)
EnrichTimesOut(r) == ProviderMayTimeOut(r) /\ EnrichDecides(r, "timed-out")

(* Fault: the lifecycle call is left out. *)
NoRecord(r, ok, degraded) ==
  /\ degraded = degradations[r]
  /\ UNCHANGED <<govVars, countVars>>

(***************************************************************************)
(* addGovernorRecordDegradation: exactly one lifecycle call, guarded.      *)
(***************************************************************************)
Record(r, ok, degraded) ==
  /\ recorded' = [recorded EXCEPT ![r] = @ + 1]
  /\ UNCHANGED admitted
  /\ \/ /\ degraded = degradations[r]
        /\ IF ok THEN Gov!recordSuccess(sourceOf[r]) ELSE Gov!recordFailure(sourceOf[r])
     \/ /\ FaultyGovernor
        /\ degraded = degradations[r] \cup {"governor-error"}
        /\ UNCHANGED govVars

Recordings(r) == {degradations[r], degradations[r] \cup {"governor-error"}}

(* What the report says of a provider that did not deliver, or delivered
   after the caller had gone. *)
FailureOf(r) ==
  CASE Aborted(r) -> <<{"skipped"}, {"caller-aborted"}>>
    [] ~ Aborted(r) /\ answer[r] = "threw" -> <<{"failure"}, {"source-error"}>>
    [] ~ Aborted(r) /\ answer[r] = "timed-out" -> <<{"failure"}, {"timeout"}>>
    [] ~ Aborted(r) /\ answer[r] = "malformed" -> <<{"failure"}, {"invalid-output"}>>

(***************************************************************************)
(* After the provider race, without a usable answer.                       *)
(***************************************************************************)
EnrichFails(r) ==
  /\ pc[r] = "raced"
  /\ Aborted(r) \/ answer[r] \in {"threw", "timed-out", "malformed"}
  /\ \E d \in Recordings(r) :
       /\ Record(r, FALSE, d)
       /\ Return(r, FailureOf(r)[1], FailureOf(r)[2], d)
  /\ UNCHANGED <<store, aborted, raceVars, lateWrites>>

StatusesOf(a) ==
  CASE a = "clean" -> {"success"}
    [] a = "partial" -> {"success", "failure"}
    [] a = "declined" -> {"skipped"}

(***************************************************************************)
(* How cacheTtlFor leaves a valid report uncached: nothing to say when it  *)
(* has an incomplete outcome or there is no slot, otherwise a resolver     *)
(* that returned no lifetime or failed.                                    *)
(***************************************************************************)
Uncached(r) ==
  IF answer[r] = "clean" /\ HasSlot(r)
  THEN {{"cache-ttl-error"}} \cup {{} : ttl \in Ttls \cap {0}}
  ELSE {{}}

(***************************************************************************)
(* A valid report is returned without a cache write.  Only a failure among *)
(* its own outcomes feeds the backoff.                                     *)
(***************************************************************************)
EnrichReports(r) ==
  /\ pc[r] = "raced" /\ ~ Aborted(r)
  /\ answer[r] \in {"clean", "partial", "declined"}
  /\ \E d \in Recordings(r), u \in Uncached(r) :
       /\ Record(r, answer[r] # "partial", d)
       /\ Return(r, StatusesOf(answer[r]), {}, d \cup u)
  /\ UNCHANGED <<store, aborted, raceVars, lateWrites>>

(* Fault: the cause of an incomplete outcome is not looked at before caching. *)
CachesPartial(r) ==
  /\ pc[r] = "raced" /\ ~ Aborted(r)
  /\ answer[r] \in {"clean", "partial"} /\ HasSlot(r)
  /\ Ttls \ {0} # {}
  /\ \E d \in Recordings(r) :
       /\ Record(r, TRUE, d)
       /\ degradations' = [degradations EXCEPT ![r] = d]
  /\ pc' = [pc EXCEPT ![r] = "writing"]
  /\ UNCHANGED <<store, aborted, raceVars, lateWrites, result>>

(***************************************************************************)
(* A clean report with a slot and a lifetime: record it, start the write.  *)
(***************************************************************************)
EnrichCaches(r) ==
  /\ pc[r] = "raced" /\ ~ Aborted(r)
  /\ answer[r] = "clean" /\ HasSlot(r)
  /\ Ttls \ {0} # {}
  /\ \E d \in Recordings(r) :
       /\ Record(r, TRUE, d)
       /\ degradations' = [degradations EXCEPT ![r] = d]
  /\ pc' = [pc EXCEPT ![r] = "writing"]
  /\ UNCHANGED <<store, aborted, raceVars, lateWrites, result>>

(***************************************************************************)
(* The bounded cache write is decided.  A write that lost its race is      *)
(* still under way.                                                        *)
(***************************************************************************)
WriteLands(r) ==
  /\ pc[r] = "writing"
  /\ \E ttl \in Ttls \ {0} : store' = Cache!afterSet(keyOf[r], r, ttl)
  /\ pc' = [pc EXCEPT ![r] = "written"]
  /\ write' = [write EXCEPT ![r] = "stored"]
  /\ UNCHANGED <<govVars, aborted, lookup, served, answer, lateWrites,
                 degradations, result, countVars>>

WriteDecides(r, w, late) ==
  /\ pc[r] = "writing"
  /\ pc' = [pc EXCEPT ![r] = "written"]
  /\ write' = [write EXCEPT ![r] = w]
  /\ lateWrites' = lateWrites \cup late
  /\ UNCHANGED <<govVars, store, aborted, lookup, served, answer,
                 degradations, result, countVars>>

WriteBreaks(r)   == FaultyStore /\ WriteDecides(r, "threw", {})
WriteTimesOut(r) == CacheMayTimeOut(r) /\ WriteDecides(r, "timed-out", {r})

LateWrite(r) ==
  /\ r \in lateWrites
  /\ \E ttl \in Ttls \ {0} : store' = Cache!afterSet(keyOf[r], r, ttl)
  /\ lateWrites' = lateWrites \ {r}
  /\ UNCHANGED <<govVars, aborted, pc, raceVars, degradations, result, countVars>>

(* Fault: a failed write is not reported. *)
WrittenQuietly(r) ==
  /\ pc[r] = "written"
  /\ Return(r, {"success"}, {}, degradations[r])
  /\ UNCHANGED <<govVars, store, aborted, raceVars, lateWrites, countVars>>

(* Fault: a cache write that fails fails the run. *)
WrittenOrFailed(r) ==
  /\ pc[r] = "written"
  /\ IF write[r] = "stored" THEN Return(r, {"success"}, {}, degradations[r])
     ELSE Return(r, {"failure"}, {"source-error"}, degradations[r] \cup {"cache-write-error"})
  /\ UNCHANGED <<govVars, store, aborted, raceVars, lateWrites, countVars>>

Written(r) ==
  /\ pc[r] = "written"
  /\ Return(r, {"success"}, {},
            degradations[r] \cup
              IF write[r] = "stored" THEN {} ELSE {"cache-write-error"})
  /\ UNCHANGED <<govVars, store, aborted, raceVars, lateWrites, countVars>>

(***************************************************************************)
(* The environment: a caller aborts, time passes.                          *)
(***************************************************************************)
Abort(c) ==
  /\ ~ aborted[c]
  /\ aborted' = [aborted EXCEPT ![c] = TRUE]
  /\ UNCHANGED <<govVars, store, pc, raceVars, lateWrites, degradations, result,
                 countVars>>

RunTick ==
  /\ Gov!ClockMoves
  /\ UNCHANGED <<store, aborted, pc, raceVars, lateWrites, degradations, result,
                 countVars>>

(* Continuations the event loop runs by itself. *)
Continue(r) ==
  \/ BeginAborted(r) \/ BeginCached(r) \/ BeginUncached(r)
  \/ ReadHit(r) \/ ReadMiss(r)
  \/ EnrichFails(r) \/ EnrichReports(r) \/ EnrichCaches(r)
  \/ Written(r)

(* A race decided by the operation itself. *)
Answers(r) ==
  \/ ReadAnswers(r) \/ ReadBreaks(r)
  \/ EnrichAnswers(r)
  \/ WriteLands(r) \/ WriteBreaks(r)

(* A race decided by the deadline or the caller's signal. *)
TimesOut(r) == ReadTimesOut(r) \/ EnrichTimesOut(r) \/ WriteTimesOut(r)

RunNext ==
  \/ \E r \in RunId : Continue(r) \/ Answers(r) \/ TimesOut(r) \/ LateWrite(r)
  \/ \E c \in Caller : Abort(c)
  \/ RunTick

RunSpec == RunInit /\ [][RunNext]_runVars

(***************************************************************************)
(* The event loop runs every continuation and fires every timer and abort  *)
(* listener.  Providers and stores owe nothing: their answers, and writes  *)
(* they were left with, are not fair.                                      *)
(***************************************************************************)
Fairness == \A r \in RunId : WF_runVars(Continue(r)) /\ WF_runVars(TimesOut(r))

-----------------------------------------------------------------------------
RunTypeOK ==
  /\ clock \in Nat
  /\ sources \in [CheckToken -> Gov!SourceState]
  /\ store \in [Key -> Cache!Entry]
  /\ aborted \in [Caller -> BOOLEAN]
  /\ pc \in [RunId -> Pc]
  /\ lookup \in [RunId -> Lookup]
  /\ served \in [RunId -> RunId \cup {NoReport}]
  /\ answer \in [RunId -> Answer]
  /\ write \in [RunId -> Write]
  /\ lateWrites \in SUBSET RunId
  /\ degradations \in [RunId -> SUBSET Causes]
  /\ result \in [RunId -> [statuses : SUBSET Statuses, causes : SUBSET Causes]]
  /\ admitted \in [RunId -> Nat]
  /\ recorded \in [RunId -> Nat]

(***************************************************************************)
(* The governor's lifecycle contract (enrichment-governor.ts:59-64): admit *)
(* is called at most once per run, and an admitted run is recorded exactly *)
(* once on every path to its return, late answers, aborts and broken       *)
(* callbacks included.  A run served from the cache costs nothing.         *)
(***************************************************************************)
OneRecordPerAdmission ==
  \A r \in RunId :
    /\ admitted[r] <= 1
    /\ recorded[r] <= admitted[r]
    /\ pc[r] \in {"writing", "written", "returned"} => recorded[r] = admitted[r]
    /\ lookup[r] \in {"hit", "rubbish"} => admitted[r] = 0

(***************************************************************************)
(* "Skipped, failed, and partial reports are never cached": whatever the   *)
(* store holds, or a late write will still put there, is a report that its *)
(* provider completed under this key, and whose run did not call itself    *)
(* cancelled, timed out or failed by the source.                           *)
(***************************************************************************)
Cacheable(w, k) ==
  /\ keyOf[w] = k
  /\ answer[w] = "clean"
  /\ pc[w] = "returned" =>
       /\ "success" \in result[w].statuses
       /\ result[w].causes \cap {"caller-aborted", "timeout", "source-error"} = {}

OnlyCompletedCached ==
  /\ \A k \in Key : store[k].report # NoReport => Cacheable(store[k].report, k)
  /\ \A w \in lateWrites : Cacheable(w, keyOf[w])

(***************************************************************************)
(* Absence is not safety: only completed reports are cached, and a run     *)
(* that returns nothing but completed outcomes had a provider that         *)
(* completed, its own or that of an earlier run under the same key, and no *)
(* part of the infrastructure failed on the way                            *)
(* (inspect-async.ts:751-755).                                             *)
(***************************************************************************)
CleanReportEarned(r) ==
  /\ \/ answer[r] = "clean"
     \/ /\ lookup[r] = "hit" /\ served[r] # NoReport
        /\ answer[served[r]] = "clean" /\ keyOf[served[r]] = keyOf[r]
  /\ lookup[r] \notin {"threw", "timed-out", "rubbish"}
  /\ write[r] \notin {"threw", "timed-out"}

CleanIsEarned ==
  /\ OnlyCompletedCached
  /\ \A r \in RunId :
       (pc[r] = "returned" /\ result[r].statuses \subseteq {"success"}) => CleanReportEarned(r)

(***************************************************************************)
(* Provider evidence is not lost to infrastructure: a complete answer that *)
(* is taken up while the caller is still there is on its way into the      *)
(* report, and the report that is returned, at once or after the cache     *)
(* write, has it and names no end of the run but the degradations: neither *)
(* a governor's callback that throws nor a write that fails, hangs or is   *)
(* given up for an abort takes it away.                                    *)
(***************************************************************************)
TakenUp(r) ==
  \/ pc[r] = "raced" /\ answer[r] = "clean" /\ ~ Aborted(r)
  \/ pc[r] \in {"writing", "written"}

EndsOfRun == {"caller-aborted", "timeout", "source-error", "invalid-output"}

EvidenceRetained ==
  [][\A r \in RunId :
       TakenUp(r) /\ pc'[r] # pc[r] =>
         \/ pc'[r] \in {"writing", "written"}
         \/ /\ pc'[r] = "returned" /\ "success" \in result'[r].statuses
            /\ result'[r].causes \cap EndsOfRun = {}]_runVars

(***************************************************************************)
(* A run with a deadline returns whatever the provider and the store do,   *)
(* and an abort ends even one without.                                     *)
(***************************************************************************)
HasDeadline(r) ==
  \/ timeoutOf[r] = "positive"
  \/ timeoutOf[r] = "unset" /\ GovernorTimeout # "null"

RunsReturn ==
  \A r \in RunId :
    /\ HasDeadline(r) => <>(pc[r] = "returned")
    /\ Aborted(r) ~> pc[r] = "returned"

=============================================================================
