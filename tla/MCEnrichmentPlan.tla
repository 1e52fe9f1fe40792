-------------------------- MODULE MCEnrichmentPlan --------------------------
(***************************************************************************)
(* Three enrichers.  All dependency graphs over their own tokens (loops    *)
(* and cycles included), a plan with a duplicated token, a dependency on a *)
(* token nobody carries, and a malformed dependsOn.                        *)
(***************************************************************************)
EXTENDS EnrichmentPlan

MCIndex == 1..3
MCToken == {"a", "b", "c", "x"}

OwnToken(i) == CASE i = 1 -> "a" [] i = 2 -> "b" [] i = 3 -> "c"

Entry(t, deps, ok) == [token |-> t, dependsOn |-> deps, shapeValid |-> ok]

(* Every graph over three distinct tokens. *)
GraphPlans ==
  {[i \in MCIndex |-> Entry(OwnToken(i), deps[i], TRUE)] :
     deps \in [MCIndex -> SUBSET {"a", "b", "c"}]}

(* Plans that preflight has something to say about. *)
OddPlans ==
  {[i \in MCIndex |-> Entry(IF i = 2 THEN second ELSE OwnToken(i),
                            deps[i], i # odd)] :
     second \in {"a", "b"},
     odd \in {0, 1},
     deps \in [MCIndex -> {{}, {"a"}, {"b"}, {"x"}}]}

MCPlans == GraphPlans \cup OddPlans

MCReports ==
  {[statuses |-> {"success"}, cause |-> "source"],
   [statuses |-> {"success", "failure"}, cause |-> "source"],
   [statuses |-> {"skipped"}, cause |-> "caller-aborted"]}

(* A plan is never stuck: it always returns, and a pass that finds nothing *)
(* ready and nothing blocked has a cycle to name: see AlwaysReturns and    *)
(* StuckMeansCycle of EnrichmentPlan.                                      *)
NeverStuck == AlwaysReturns /\ []StuckMeansCycle
=============================================================================
