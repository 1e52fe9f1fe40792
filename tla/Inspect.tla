------------------------------- MODULE Inspect ------------------------------
(***************************************************************************)
(* inspect (packages/core/src/inspect.ts): the synchronous lexical verdict.*)
(*                                                                         *)
(* Options are read, four structural scans run over the raw input, the     *)
(* input is parsed, the parsed detectors run, then the policy axes, and a  *)
(* result is built.  Every check may throw; the function must not, and     *)
(* what was lost must be named in checksSkipped.  What a check looks for   *)
(* is abstracted to the codes it may emit.                                 *)
(***************************************************************************)
EXTENDS Scoring, FiniteSets

CONSTANTS
  Scans, Detectors, Axes,  \* check ids, in registry order
  AgentGated,              \* detectors that run only under agentMode
  emits,                   \* codes a check may report
  Key                      \* unrecognised option keys a caller may supply

CheckIds == ToSet(Scans) \cup ToSet(Detectors) \cup ToSet(Axes)

ASSUME InspectAssumption ==
  /\ AgentGated \subseteq ToSet(Detectors)
  /\ \A list \in {Scans, Detectors, Axes} : list \in Seq(CheckIds)
  /\ emits \in [CheckIds -> SUBSET Code]
  /\ \A id \in CheckIds : IsFiniteSet(emits[id])
  /\ \A a \in ToSet(Axes) : \A c \in emits[a] : weightFor[c] = 0

(***************************************************************************)
(* What the caller passed: a usable options object or not, the keys nobody *)
(* recognises, and the settings that steer the pipeline; suppress says     *)
(* that suppressReasons is present, be it empty.                           *)
(***************************************************************************)
Options ==
  {o \in [usable : BOOLEAN, dropped : SUBSET Key, agentMode : BOOLEAN, policy : BOOLEAN,
          suppress : BOOLEAN, suppressReasons : RuleSets \cup {{}}] :
     o.suppressReasons # {} => o.suppress}

NoOptions == [usable |-> TRUE, dropped |-> {}, agentMode |-> FALSE, policy |-> FALSE,
              suppress |-> FALSE, suppressReasons |-> {}]

VARIABLES
  raw,        \* the options argument
  pc,
  next,       \* position in the current list of checks
  findings,   \* codes collected, in order
  skipped,    \* tokens of failed checks, structuralSkipped or skippedDetectors
  policyRan, agentRan,
  threw,      \* history: tokens of the checks that threw
  result

inspectVars == <<raw, pc, next, findings, skipped, policyRan, agentRan, threw, result>>

NoResult == [status |-> "none"]

(* checksRun/checksSkipped tokens: a bare channel, or "<channel>:<id>". *)
Bare(channel)     == <<channel>>
Named(channel, x) == <<channel, x>>

Layers == {Bare("resolution"), Bare("reputation")}

(***************************************************************************)
(* intakeOptions: what is applied, and the tokens for what was lost.       *)
(***************************************************************************)
options == IF raw.usable THEN raw ELSE NoOptions

optionSkipped ==
  IF raw.usable THEN {Named("options", k) : k \in raw.dropped} ELSE {Bare("options")}

InspectInit ==
  /\ raw \in Options
  /\ pc = "intake"
  /\ next = 1
  /\ findings = << >>
  /\ skipped = {}
  /\ policyRan = FALSE /\ agentRan = FALSE
  /\ threw = {}
  /\ result = NoResult

Goto(label) ==
  /\ pc' = label
  /\ next' = 1

(***************************************************************************)
(* buildInvalidResult: fail closed, with whatever the scans found.         *)
(***************************************************************************)
ReasonsOf(codes) == [k \in DOMAIN codes |-> reason(codes[k], InputHost)]

buildInvalidResult(codes) ==
  [status        |-> "invalid",
   reasons       |-> IF codes = << >> THEN <<reason(ParseError, InputHost)>>
                     ELSE sorted(ReasonsOf(codes)),
   score         |-> NullScore,
   severity      |-> "null",
   checksRun     |-> IF codes = << >> THEN {} ELSE {Bare("lexical")},
   checksSkipped |-> optionSkipped \cup Layers \cup
                     IF codes = << >> THEN {Bare("lexical")} ELSE {}]

(***************************************************************************)
(* buildOkResult: suppress, sort, aggregate, list the channels.            *)
(***************************************************************************)
buildOkResult(codes) ==
  LET reasons == sorted(applySuppressions(ReasonsOf(codes), options.suppressReasons, InputHost))
  IN
  [status        |-> "ok",
   reasons       |-> reasons,
   score         |-> score(reasons),
   severity      |-> severityForScore(score(reasons)),
   checksRun     |-> {Bare("lexical")} \cup
                     (IF policyRan THEN {Bare("policy")} ELSE {}) \cup
                     (IF agentRan THEN {Bare("agent")} ELSE {}) \cup
                     (IF options.suppress THEN {Bare("suppression")} ELSE {}),
   checksSkipped |-> optionSkipped \cup skipped \cup Layers]

Returns(r) ==
  /\ result' = r
  /\ Goto("returned")
  /\ UNCHANGED <<raw, findings, skipped, policyRan, agentRan, threw>>

(***************************************************************************)
(* The contract guard: a non-string is invalid before anything runs.       *)
(***************************************************************************)
NotAString ==
  /\ pc = "intake"
  /\ Returns(buildInvalidResult(<< >>))

StartScans ==
  /\ pc = "intake"
  /\ Goto("scan")
  /\ UNCHANGED <<raw, findings, skipped, policyRan, agentRan, threw, result>>

(***************************************************************************)
(* One check of the current list reports, or throws and is caught.         *)
(***************************************************************************)
Emits(id) ==
  /\ next' = next + 1
  /\ \E S \in SUBSET emits[id] : findings' = findings \o SetToSeq(S)
  /\ UNCHANGED <<raw, pc, skipped, threw, result>>

(* Fault: a check that throws is not named. *)
ThrowsUnnamed(token) ==
  /\ next' = next + 1
  /\ threw' = threw \cup {token}
  /\ UNCHANGED <<raw, pc, findings, skipped, result>>

Throws(token) ==
  /\ next' = next + 1
  /\ skipped' = skipped \cup {token}
  /\ threw' = threw \cup {token}
  /\ UNCHANGED <<raw, pc, findings, result>>

ScanReports ==
  /\ pc = "scan" /\ next <= Len(Scans)
  /\ Emits(Scans[next])
  /\ UNCHANGED <<policyRan, agentRan>>

ScanThrows ==
  /\ pc = "scan" /\ next <= Len(Scans)
  /\ Throws(Named("lexical", Scans[next]))
  /\ UNCHANGED <<policyRan, agentRan>>

(***************************************************************************)
(* Parsing: no context, whether parse returned null or threw, is invalid;  *)
(* the skip list of the scans is not handed on.                            *)
(***************************************************************************)
ParseFails ==
  /\ pc = "scan" /\ next > Len(Scans)
  /\ Returns(buildInvalidResult(findings))

ParseSucceeds ==
  /\ pc = "scan" /\ next > Len(Scans)
  /\ Goto("detect")
  /\ UNCHANGED <<raw, findings, skipped, policyRan, agentRan, threw, result>>

(***************************************************************************)
(* The parsed detectors.  A gated one is passed over unless agentMode is   *)
(* on; agentRan is set before it runs.                                     *)
(***************************************************************************)
Gated == Detectors[next] \in AgentGated

DetectorGatedOff ==
  /\ pc = "detect" /\ next <= Len(Detectors)
  /\ Gated /\ ~ options.agentMode
  /\ next' = next + 1
  /\ UNCHANGED <<raw, pc, findings, skipped, policyRan, agentRan, threw, result>>

Evaluated ==
  /\ pc = "detect" /\ next <= Len(Detectors)
  /\ Gated => options.agentMode
  /\ agentRan' = (agentRan \/ Gated)
  /\ UNCHANGED policyRan

DetectorReports ==
  /\ Evaluated
  /\ Emits(Detectors[next])

DetectorThrows ==
  /\ Evaluated
  /\ Throws(Named("lexical", Detectors[next]))

(***************************************************************************)
(* runPolicy, when a policy option is set: every axis is guarded by        *)
(* itself, and the channel ran if one axis completed.  The dispatcher as a *)
(* whole is guarded too.                                                   *)
(***************************************************************************)
StartPolicy ==
  /\ pc = "detect" /\ next > Len(Detectors)
  /\ Goto(IF options.policy THEN "policy" ELSE "build")
  /\ UNCHANGED <<raw, findings, skipped, policyRan, agentRan, threw, result>>

DispatcherThrows ==
  /\ pc = "policy" /\ next = 1
  /\ Goto("build")
  /\ skipped' = skipped \cup {Bare("policy")}
  /\ threw' = threw \cup {Bare("policy")}
  /\ UNCHANGED <<raw, findings, policyRan, agentRan, result>>

AxisReports ==
  /\ pc = "policy" /\ next <= Len(Axes)
  /\ Emits(Axes[next])
  /\ policyRan' = TRUE
  /\ UNCHANGED agentRan

(* Fault: one axis speaks for the channel. *)
AxisThrowsBare ==
  /\ pc = "policy" /\ next <= Len(Axes)
  /\ Throws(Bare("policy"))
  /\ UNCHANGED <<policyRan, agentRan>>

AxisThrows ==
  /\ pc = "policy" /\ next <= Len(Axes)
  /\ Throws(Named("policy", Axes[next]))
  /\ UNCHANGED <<policyRan, agentRan>>

Build ==
  /\ \/ pc = "policy" /\ next > Len(Axes)
     \/ pc = "build"
  /\ Returns(buildOkResult(findings))

Returned == pc = "returned" /\ UNCHANGED inspectVars

Step ==
  \/ NotAString \/ StartScans
  \/ ScanReports \/ ScanThrows
  \/ ParseFails \/ ParseSucceeds
  \/ DetectorGatedOff \/ DetectorReports \/ DetectorThrows
  \/ StartPolicy \/ DispatcherThrows \/ AxisReports \/ AxisThrows
  \/ Build

InspectNext == Step \/ Returned

InspectSpec == InspectInit /\ [][InspectNext]_inspectVars

-----------------------------------------------------------------------------
Done == pc = "returned"

(***************************************************************************)
(* Nothing is dropped in silence on the way to an ok verdict: every check  *)
(* that threw is named in checksSkipped, every lost option key is named on *)
(* both result paths, each layer is accounted for, and no token is in both *)
(* lists: a failed axis never makes the policy channel run and skipped at  *)
(* once (inspect.ts:165-193, serialize.ts:72-78).                          *)
(***************************************************************************)
LossIsReported ==
  Done =>
    /\ result.checksRun \cap result.checksSkipped = {}
    /\ result.status = "ok" => threw \subseteq result.checksSkipped
    /\ ~ raw.usable => Bare("options") \in result.checksSkipped
    /\ raw.usable => \A k \in raw.dropped : Named("options", k) \in result.checksSkipped
    /\ Layers \subseteq result.checksSkipped
    /\ Bare("lexical") \in result.checksRun \cup result.checksSkipped

(***************************************************************************)
(* "A detector failure adds lexical:<id> to checksSkipped rather than      *)
(* aborting the inspection", for the structural scans as well, whatever    *)
(* becomes of the parse.                                                   *)
(***************************************************************************)
ScanFailuresReported ==
  Done => \A t \in threw :
            t \in result.checksSkipped \/ Bare("lexical") \in result.checksSkipped

(***************************************************************************)
(* A skipped check makes the score a lower bound: had the checks that      *)
(* threw reported all they can, the score could only have been higher      *)
(* (scoring/score.ts, docs/scoring.md FR-SCORE-3a).                        *)
(***************************************************************************)
LostCodes ==
  UNION {emits[t[2]] : t \in {u \in threw : Len(u) = 2}}

ScoreIsLowerBound ==
  (Done /\ result.status = "ok") =>
    AtMostScore(result.score, score(result.reasons \o ReasonsOf(SetToSeq(LostCodes))))

(***************************************************************************)
(* Never silently clean: whatever the checks found is in reasons, each     *)
(* with its registry weight unless a caller's rule for this code and this  *)
(* host zeroed it and checksRun says so, and the list is ordered by what   *)
(* still counts (scoring/suppress.ts, serialize.ts:134-144).               *)
(***************************************************************************)
FindingsStayVisible ==
  (Done /\ findings # << >>) =>
    /\ Len(result.reasons) = Len(findings)
    /\ {result.reasons[k].code : k \in DOMAIN result.reasons} = ToSet(findings)
    /\ \A k \in DOMAIN result.reasons :
         LET r == result.reasons[k] IN
         IF r.suppressed
         THEN /\ r.weight = 0
              /\ Bare("suppression") \in result.checksRun
              /\ \E rule \in options.suppressReasons : Matches(rule, r.code, InputHost)
         ELSE r.weight = weightFor[r.code]
    /\ \A k, m \in DOMAIN result.reasons :
         k < m => result.reasons[k].weight >= result.reasons[m].weight

=============================================================================
