--------------------------- MODULE DivergenceProbe ---------------------------
(***************************************************************************)
(* The controlled-variant probe (resolution/divergence-probe.ts): the same *)
(* URL is fetched a few times in one transport session, with different     *)
(* request headers, and what came back is compared.  Responses are reduced *)
(* to what is compared; the body's type is sniffed (mime-sniff.ts).        *)
(***************************************************************************)
EXTENDS Integers, Sequences, FiniteSets

CONSTANTS
  Variants,      \* labels of the variants, in order
  ProbeMethod,   \* "GET" or "HEAD"
  BodySigns      \* the features of a body the run tells apart

ASSUME ProbeAssumption == Variants \in Seq(STRING)

VARIABLE probe

(* Fault: what the body is goes uncompared. *)
HeadOnly == {"statusClass", "location", "declaredEssence"}

DIVERGENCE_DIMENSIONS == {"statusClass", "location", "declaredEssence", "computedEssence"}

(***************************************************************************)
(* computeEssence: the first of these that the prefix shows.  A prefix is  *)
(* the set of its features.                                                *)
(***************************************************************************)
computeEssence(view) ==
  CASE "signature" \in view -> "image/png"          \* BINARY_SIGNATURES, at offset 0
    [] "signature" \notin view /\ "xml" \in view -> "text/xml"
    [] view \cap {"signature", "xml"} = {} /\ "html" \in view -> "text/html"
    [] view \cap {"signature", "xml", "html"} = {} /\ "bom" \in view -> "text/plain"
    [] OTHER -> IF "binary-byte" \in view THEN "application/octet-stream" ELSE "text/plain"

parseDeclaredEssence(declared) == IF declared = "malformed" THEN "none" ELSE declared

(***************************************************************************)
(* A response and its summary.                                             *)
(***************************************************************************)
Response ==
  [statusClass : {2, 3}, location : {"none", "a.example"}, declared : {"text/html", "malformed"},
   body : SUBSET BodySigns, challenge : BOOLEAN]

bodyPresent(response) == ProbeMethod # "HEAD" /\ response.body # {}

detectChallenge(response) == bodyPresent(response) /\ response.challenge

summarize(response) ==
  [statusClass |-> response.statusClass,
   location |-> IF response.statusClass = 3 THEN response.location ELSE "none",
   declaredEssence |-> parseDeclaredEssence(response.declared),
   computedEssence |-> IF bodyPresent(response) THEN computeEssence(response.body) ELSE "none",
   challenge |-> detectChallenge(response)]

ProbeInit ==
  probe = [at |-> "variant", index |-> 1, fetched |-> <<>>, outcomes |-> <<>>,
           summaries |-> <<>>, divergent |-> "pending", dimensions |-> {}]

(* canonicalHttpUrl refuses the target. *)
InvalidTarget ==
  /\ probe.at = "variant" /\ probe.index = 1 /\ probe.outcomes = <<>>
  /\ probe' = [probe EXCEPT !.at = "returned", !.outcomes = <<"invalid-target">>,
                            !.divergent = "unreported"]

Degrades(outcome) ==
  probe' = [probe EXCEPT !.index = @ + 1, !.outcomes = Append(@, outcome)]

Probing == probe.at = "variant" /\ probe.index <= Len(Variants)

NotAuthorized ==
  /\ Probing
  /\ Degrades("authorization-error") \/ Degrades("authorization-denied")

(* The session blocks the request or fails; an abort of the caller is one  *)
(* of its causes, and the loop goes on.                                    *)
transportDegradation ==
  /\ Probing
  /\ Degrades("transport-skipped") \/ Degrades("transport-failure")

(* Fault: a challenge page is one more sample. *)
ChallengeCounts(summary) == TRUE

Unchallenged(summary) == ~summary.challenge

(* variantOutcome or challengeOutcome. *)
outcomeOf(summary) == IF summary.challenge THEN "challenge-gate" ELSE "success"

VariantFetched ==
  /\ Probing
  /\ \E response \in Response :
       LET summary == summarize(response)
       IN  probe' = [probe EXCEPT !.index = @ + 1,
                       !.fetched = Append(@, response),
                       !.outcomes = Append(@, outcomeOf(summary)),
                       !.summaries = IF Unchallenged(summary) THEN Append(@, summary) ELSE @]

divergentAmong(summaries) ==
  {d \in DIVERGENCE_DIMENSIONS :
     \E i, j \in DOMAIN summaries : summaries[i][d] # summaries[j][d]}

(* Fault: one sample agrees with itself. *)
OneIsEnough(summaries) == Len(summaries) >= 1

comparable(summaries) == Len(summaries) >= 2

divergenceOutcome ==
  /\ probe.at = "variant" /\ probe.index > Len(Variants)
  /\ LET found == IF comparable(probe.summaries) THEN divergentAmong(probe.summaries) ELSE {}
     IN  probe' = [probe EXCEPT !.at = "returned", !.outcomes = Append(@, "divergence"),
                     !.dimensions = found,
                     !.divergent = IF ~comparable(probe.summaries) THEN "null"
                                   ELSE IF found # {} THEN "true" ELSE "false"]

ProbeNext ==
  InvalidTarget \/ NotAuthorized \/ transportDegradation \/ VariantFetched \/ divergenceOutcome

-----------------------------------------------------------------------------
(* Responses that were not a challenge page. *)
Sampled == {i \in DOMAIN probe.fetched : ~detectChallenge(probe.fetched[i])}

(* What the server itself made different between two samples. *)
ServedDifferently(i, j) ==
  LET x == probe.fetched[i]
      y == probe.fetched[j]
  IN  \/ x.statusClass # y.statusClass
      \/ x.statusClass = 3 /\ y.statusClass = 3 /\ x.location # y.location
      \/ x.declared # y.declared
      \/ ProbeMethod # "HEAD" /\ x.body # y.body

(* Two samples that nothing compared tells apart.                          *)
ServedAlike(i, j) ==
  LET x == probe.fetched[i]
      y == probe.fetched[j]
  IN  /\ x.statusClass = y.statusClass
      /\ x.statusClass = 3 => x.location = y.location
      /\ x.declared = y.declared
      /\ ProbeMethod # "HEAD" =>
           /\ x.body = {} <=> y.body = {}
           /\ computeEssence(x.body) = computeEssence(y.body)

(* A claim about divergence rests on a comparison that took place: "true"  *)
(* on two real responses that differ, "false" on two or more that are      *)
(* alike in status class, redirect target, declared type and the type of   *)
(* what they hold; a denied, failed or challenged variant neither agrees nor    *)
(* disagrees with anything; and every variant has an outcome of its own    *)
(* (divergenceOutcome: "Comparing needs two samples").                     *)
DivergenceIsObserved ==
  probe.at = "returned" /\ probe.outcomes # <<"invalid-target">> =>
    /\ Len(probe.outcomes) = Len(Variants) + 1
    /\ probe.divergent = "true" => \E i, j \in Sampled : ServedDifferently(i, j)
    /\ probe.divergent = "false" =>
         /\ Cardinality(Sampled) >= 2
         /\ \A i, j \in Sampled : ServedAlike(i, j)
    /\ Cardinality(Sampled) < 2 => probe.divergent = "null" /\ probe.dimensions = {}
=============================================================================
