----------------------------- MODULE PlanGraph ------------------------------
(***************************************************************************)
(* The dependency graph of an enrichment plan, as                          *)
(* executeEnrichmentPlan (packages/core/src/inspect-async.ts) derives it   *)
(* before it runs anything.                                                *)
(*                                                                         *)
(* A plan gives every index a check token "<layer>:<id>", the tokens it    *)
(* names in dependsOn, and whether dependsOn had a usable shape.  Tokens   *)
(* are opaque: only their equality matters.                                *)
(***************************************************************************)
EXTENDS Naturals, FiniteSets

CONSTANTS
  Index,      \* positions of the plan, 1..n
  Token       \* check tokens that enrichers carry or name

ASSUME IndexAssumption == Index \subseteq Nat /\ IsFiniteSet(Index)

PlanEntry == [token : Token, dependsOn : SUBSET Token, shapeValid : BOOLEAN]

(***************************************************************************)
(* The deduplicated dependencies of a step: a malformed dependsOn counts   *)
(* as none.                                                                *)
(***************************************************************************)
Dependencies(plan, i) ==
  IF plan[i].shapeValid THEN plan[i].dependsOn ELSE {}

(***************************************************************************)
(* tokenCounts = 1: only such a step is entered in tokenToIndex.           *)
(***************************************************************************)
UniqueToken(plan, i) ==
  \A j \in Index : plan[j].token = plan[i].token => j = i

KnownToken(plan, t) ==
  \E j \in Index : plan[j].token = t /\ UniqueToken(plan, j)

(***************************************************************************)
(* The plan positions a step's dependencies resolve to.                    *)
(***************************************************************************)
Needs(plan, i) ==
  {j \in Index : plan[j].token \in Dependencies(plan, i) /\ UniqueToken(plan, j)}

(***************************************************************************)
(* The preflight test: why a step can never be scheduled, or "none".       *)
(***************************************************************************)
PreflightReason(plan, i) ==
  IF ~ UniqueToken(plan, i) THEN "duplicate-check-token"
  ELSE IF ~ plan[i].shapeValid THEN "invalid-prerequisite-token"
  ELSE IF \E t \in Dependencies(plan, i) : ~ KnownToken(plan, t)
       THEN "unknown-prerequisite"
  ELSE "none"

Schedulable(plan) == {i \in Index : PreflightReason(plan, i) = "none"}

-----------------------------------------------------------------------------
(***************************************************************************)
(* What findDependencyCycle must return: the members of one simple cycle   *)
(* inside nodes.  next walks from a member to one of its dependencies, and *)
(* no proper part of C is closed under it, so it is a single round.        *)
(***************************************************************************)
IsCycle(needs, C) ==
  /\ C # {}
  /\ \E next \in [C -> C] :
       /\ \A i \in C : next[i] \in needs[i]
       /\ \A S \in SUBSET C :
            (S # {} /\ \A i \in S : next[i] \in S) => S = C

Cycles(needs, nodes) == {C \in SUBSET nodes : IsCycle(needs, C)}

(***************************************************************************)
(* A step is ungrounded when its chain of prerequisites never bottoms out: *)
(* it lies on, or downstream of, a cycle.                                  *)
(***************************************************************************)
Ungrounded(needs, i) ==
  \E S \in SUBSET Index :
    /\ i \in S
    /\ \A j \in S : \E k \in S : k \in needs[j]

=============================================================================
