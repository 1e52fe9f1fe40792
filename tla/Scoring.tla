------------------------------ MODULE Scoring -------------------------------
(***************************************************************************)
(* How linklint turns reasons into a score (packages/core/src/scoring/,    *)
(* schema/reason-codes.ts).                                                *)
(*                                                                         *)
(* Weights are fractions with denominator Unit, so 1 - prod(1 - w) is kept *)
(* as an exact fraction; the code rounds to 10 decimals, which leaves such *)
(* products untouched.  Codes are numbered in codepoint order.             *)
(***************************************************************************)
EXTENDS Integers, Sequences, FiniteSets, SequencesExt

CONSTANTS
  Code,       \* reason codes
  weightFor,  \* the registry: weight of each code, in 0..Unit
  Unit,
  ParseError, \* the code parse_error
  Host,       \* registrable domains that suppression rules may name
  AnyHost,    \* a rule without a host
  RuleSets,   \* the suppressReasons settings a caller may pass
  InputHost   \* registrable domain of the input

Rule == [code : Code, host : Host \cup {AnyHost}]

ASSUME ScoringAssumption ==
  /\ Code \subseteq Nat
  /\ Unit \in Nat \ {0}
  /\ weightFor \in [Code -> 0..Unit]
  /\ ParseError \in Code /\ weightFor[ParseError] = 0
  /\ AnyHost \notin Host
  /\ RuleSets \subseteq SUBSET Rule
  /\ InputHost \in Host

(* A reason; about is the host its finding speaks of. *)
Reason == [code : Code, weight : 0..Unit, suppressed : BOOLEAN, about : Host]

reason(code, host) ==
  [code |-> code, weight |-> weightFor[code], suppressed |-> FALSE, about |-> host]

(***************************************************************************)
(* A matched reason stays, with its weight zeroed.                         *)
(***************************************************************************)
Matches(rule, code, hostContext) ==
  rule.code = code /\ rule.host \in {AnyHost, hostContext}

applySuppressions(reasons, rules, hostContext) ==
  [k \in DOMAIN reasons |->
     IF \E rule \in rules : Matches(rule, reasons[k].code, hostContext)
     THEN [reasons[k] EXCEPT !.weight = 0, !.suppressed = TRUE]
     ELSE reasons[k]]

(***************************************************************************)
(* Heavier first, then by code.  Array.prototype.sort is stable: two       *)
(* reasons that compare as equal keep their order.                         *)
(***************************************************************************)
compareReasons(a, b) ==
  a.weight > b.weight \/ (a.weight = b.weight /\ a.code < b.code)

Precedes(reasons, j, k) ==
  \/ compareReasons(reasons[j], reasons[k])
  \/ ~ compareReasons(reasons[k], reasons[j]) /\ j < k

Place(reasons, k) == 1 + Cardinality({j \in DOMAIN reasons : Precedes(reasons, j, k)})

sorted(reasons) ==
  [n \in DOMAIN reasons |-> reasons[CHOOSE k \in DOMAIN reasons : Place(reasons, k) = n]]

NullScore == [num |-> -1, den |-> 1]

AtMostScore(a, b) == a.num * b.den <= b.num * a.den

(***************************************************************************)
(* Probabilistic OR: 1 - prod(1 - w), weightless reasons passed over.      *)
(***************************************************************************)
Multiply(r, inverse) ==
  IF r.weight <= 0 THEN inverse
  ELSE [num |-> inverse.num * (Unit - r.weight), den |-> inverse.den * Unit]

(* Fault: the mean of the weights, which a light reason lowers. *)
MeanScore(reasons) ==
  [num |-> FoldSeq(LAMBDA r, sum : sum + r.weight, 0, reasons),
   den |-> IF reasons = << >> THEN 1 ELSE Unit * Len(reasons)]

score(reasons) ==
  LET inverse == FoldSeq(Multiply, [num |-> 1, den |-> 1], reasons)
  IN  [num |-> inverse.den - inverse.num, den |-> inverse.den]

severityForScore(s) ==
  CASE s.num <= 0                                  -> "info"
    [] s.num > 0 /\ 4 * s.num <= s.den             -> "low"
    [] 4 * s.num > s.den /\ 2 * s.num <= s.den     -> "medium"
    [] 2 * s.num > s.den /\ 10 * s.num <= 8 * s.den -> "high"
    [] 10 * s.num > 8 * s.den                      -> "critical"

Severity == {"info", "low", "medium", "high", "critical", "null"}

=============================================================================
