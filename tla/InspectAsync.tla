---------------------------- MODULE InspectAsync ----------------------------
(***************************************************************************)
(* inspectAsync (packages/core/src/inspect-async.ts): the lexical verdict, *)
(* the enrichment plan, and the fold of its runs back onto the verdict.    *)
(*                                                                         *)
(* The fold is synchronous and runs when the plan has returned, so it is   *)
(* one step.  A run that has a success among its outcomes brings the       *)
(* findings of its enricher; each finding is about the host its own        *)
(* outcome names, which need not be the host of the input.                 *)
(***************************************************************************)
EXTENDS EnrichmentPlan, Scoring

CONSTANTS
  Layer,          \* {"resolution", "reputation"}
  layerOf,        \* layer of each check token
  Evidence,       \* findings of each plan position: [code, host, confidence]
  BaseCodes,      \* code lists the lexical stage may come up with
  FullConfidence  \* 1.0, in whatever unit findings use

Finding == [code : Code, host : Host, confidence : 0..FullConfidence]

(* A token is "<layer>:<id>", so it is never a bare layer. *)
ASSUME AsyncAssumption ==
  /\ Token \cap Layer = {}
  /\ layerOf \in [Token -> Layer]
  /\ FullConfidence \in Nat
  /\ Evidence \in [1..Cardinality(Index) -> Seq(Finding)]
  /\ BaseCodes \subseteq Seq(Code)

VARIABLES
  configured,   \* options.enrichers is not empty
  rules,        \* normalizeSuppressReasons(options.suppressReasons)
  base,         \* inspect(input, options)
  verdict       \* what inspectAsync resolves to

asyncVars == <<configured, rules, base, verdict>>

allVars == <<vars, asyncVars>>

NoVerdict == [status |-> "pending"]

(***************************************************************************)
(* The two shapes of inspect's result (module Inspect), as the fold uses   *)
(* them.                                                                   *)
(***************************************************************************)
okBase(codes) ==
  LET reasons == sorted(applySuppressions([k \in DOMAIN codes |-> reason(codes[k], InputHost)],
                                          rules, InputHost))
  IN
  [status |-> "ok", reasons |-> reasons, score |-> score(reasons),
   severity |-> severityForScore(score(reasons)), confidence |-> FullConfidence,
   checksRun |-> {"lexical"}, checksSkipped |-> Layer]

invalidBase(codes) ==
  LET shown == IF codes = << >> THEN <<ParseError>> ELSE codes
      bare  == IF codes = << >> THEN {"lexical"} ELSE {}
  IN
  [status |-> "invalid",
   reasons |-> sorted([k \in DOMAIN shown |-> reason(shown[k], InputHost)]),
   score |-> NullScore, severity |-> "null", confidence |-> FullConfidence,
   checksRun |-> {"lexical"} \ bare, checksSkipped |-> bare \cup Layer]

AsyncInit ==
  /\ Init
  /\ configured \in BOOLEAN
  /\ rules \in RuleSets \cup {{}}
  /\ \E codes \in BaseCodes : base \in {okBase(codes), invalidBase(codes)}
  /\ verdict = NoVerdict

(***************************************************************************)
(* Without enrichers the base result is returned as it is.                 *)
(***************************************************************************)
NoEnrichers ==
  /\ ~ configured /\ verdict = NoVerdict
  /\ verdict' = base
  /\ UNCHANGED <<vars, configured, rules, base>>

PlanStep ==
  /\ configured
  /\ Next
  /\ UNCHANGED asyncVars

(***************************************************************************)
(* The findings of the runs, in plan order, as reasons.  Each is held      *)
(* against the suppression rules in the context of its own outcome.        *)
(***************************************************************************)
findingsOf(i) == IF "success" \in runs[i].statuses THEN Evidence[i] ELSE << >>

enrichmentFindings == FlattenSeq([i \in 1..Cardinality(Index) |-> findingsOf(i)])

(* Fault: every finding is judged in the context of the input. *)
ProjectedOnInput(f) ==
  applySuppressions(<<reason(f.code, f.host)>>, rules, InputHost)[1]

projected(f) ==
  applySuppressions(<<reason(f.code, f.host)>>, rules, f.host)[1]

enrichmentReasons ==
  [k \in DOMAIN enrichmentFindings |-> projected(enrichmentFindings[k])]

MinConfidence(f, c) == IF f.confidence < c THEN f.confidence ELSE c

runTokens ==
  {plan[i].token : i \in {j \in Index : runs[j].statuses \cap Completed # {}}}

(* Fault: only failures count as skipped. *)
FailedTokens ==
  {plan[i].token : i \in {j \in Index : "failure" \in runs[j].statuses}}

skippedTokens ==
  {plan[i].token : i \in {j \in Index : runs[j].statuses \cap Incomplete # {}}}

configuredLayers == {layerOf[plan[i].token] : i \in Index}

Fold ==
  /\ configured /\ phase = "returned" /\ verdict = NoVerdict
  /\ LET reasons == sorted(base.reasons \o enrichmentReasons)
         ok      == base.status = "ok"
     IN verdict' =
          [status        |-> base.status,
           reasons       |-> reasons,
           score         |-> IF ok THEN score(reasons) ELSE base.score,
           severity      |-> IF ok THEN severityForScore(score(reasons)) ELSE base.severity,
           confidence    |-> FoldSeq(MinConfidence, base.confidence, enrichmentFindings),
           checksRun     |-> base.checksRun \cup runTokens,
           checksSkipped |-> (base.checksSkipped \ configuredLayers) \cup skippedTokens]
  /\ UNCHANGED <<vars, configured, rules, base>>

Resolved == verdict # NoVerdict /\ UNCHANGED allVars

AsyncNext == NoEnrichers \/ PlanStep \/ Fold \/ Resolved

AsyncSpec == AsyncInit /\ [][AsyncNext]_allVars

-----------------------------------------------------------------------------
Final == verdict # NoVerdict

(***************************************************************************)
(* Never silently clean: every configured check is in checksRun or in      *)
(* checksSkipped, whatever stopped it (an abort, a cycle, a duplicate), a  *)
(* layer nobody configured keeps its placeholder and a configured one      *)
(* loses it (inspect-async.ts:237-250).                                    *)
(***************************************************************************)
NeverSilentlyClean ==
  Final =>
    /\ configured => \A i \in Index :
                       plan[i].token \in verdict.checksRun \cup verdict.checksSkipped
    /\ \A l \in Layer : l \in verdict.checksSkipped <=>
                          ~ (configured /\ \E i \in Index : layerOf[plan[i].token] = l)

(***************************************************************************)
(* Evidence only ever adds suspicion: enrichment never lowers the score of *)
(* an ok verdict, never gives an invalid one a score, never raises the     *)
(* confidence and never drops a lexical reason.                            *)
(***************************************************************************)
EvidenceOnlyAdds ==
  Final =>
    /\ base.status = "ok" => AtMostScore(base.score, verdict.score)
    /\ base.status = "invalid" => verdict.score = NullScore /\ verdict.severity = "null"
    /\ verdict.confidence <= base.confidence
    /\ ToSet(base.reasons) \subseteq ToSet(verdict.reasons)

(***************************************************************************)
(* An allowance for one host never quiets a finding about another: an      *)
(* enrichment reason is suppressed exactly when a rule for its code is     *)
(* global or names the host of its own outcome (inspect-async.ts:192-213). *)
(***************************************************************************)
SuppressionStaysWithItsHost ==
  (Final /\ base.status = "ok") =>
    \A r \in ToSet(verdict.reasons) :
      r.suppressed <=> \E rule \in rules : Matches(rule, r.code, r.about)

(***************************************************************************)
(* "checksRun and checksSkipped never carry the same token".               *)
(***************************************************************************)
RunAndSkippedDisjoint ==
  Final => verdict.checksRun \cap verdict.checksSkipped = {}

=============================================================================
