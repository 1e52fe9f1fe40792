------------------------- MODULE EnrichmentContract -------------------------
(***************************************************************************)
(* What the enrichment pipeline of inspectAsync promises its caller,       *)
(* without stages, passes or framework causes.                             *)
(*                                                                         *)
(* Every configured check is waiting, running, complete or incomplete.  It *)
(* runs only after all its prerequisites are complete, it is refused only  *)
(* for a reason that is true of it, a verdict once reached stays, and      *)
(* every check reaches one.                                                *)
(***************************************************************************)
EXTENDS Naturals

CONSTANT Index

VARIABLES
  needs,      \* needs[i]: the checks i depends on
  unfit,      \* checks the plan itself rules out
  cancelled,  \* the caller aborted the inspection
  status

vars == <<needs, unfit, cancelled, status>>

Settled(i) == status[i] \in {"complete", "incomplete"}

(***************************************************************************)
(* i lies on, or downstream of, a dependency cycle.                        *)
(***************************************************************************)
NeverGrounded(i) ==
  \E S \in SUBSET Index :
    i \in S /\ \A j \in S : \E k \in S : k \in needs[j]

Init ==
  /\ needs \in [Index -> SUBSET Index]
  /\ unfit \in SUBSET Index
  /\ cancelled \in BOOLEAN
  /\ status = [i \in Index |-> "waiting"]

MayStart(i) ==
  /\ status[i] = "waiting"
  /\ i \notin unfit
  /\ \A j \in needs[i] : status[j] = "complete"

MayRefuse(i) ==
  /\ status[i] = "waiting"
  /\ \/ i \in unfit
     \/ cancelled
     \/ NeverGrounded(i)
     \/ \E j \in needs[i] : status[j] = "incomplete"

Start(S) ==
  /\ S # {} /\ \A i \in S : MayStart(i)
  /\ status' = [i \in Index |-> IF i \in S THEN "running" ELSE status[i]]
  /\ UNCHANGED <<needs, unfit, cancelled>>

Refuse(S) ==
  /\ S # {} /\ \A i \in S : MayRefuse(i)
  /\ status' = [i \in Index |-> IF i \in S THEN "incomplete" ELSE status[i]]
  /\ UNCHANGED <<needs, unfit, cancelled>>

Finish(i) ==
  /\ status[i] = "running"
  /\ \E v \in {"complete", "incomplete"} : status' = [status EXCEPT ![i] = v]
  /\ UNCHANGED <<needs, unfit, cancelled>>

Cancel ==
  /\ ~ cancelled
  /\ cancelled' = TRUE
  /\ UNCHANGED <<needs, unfit, status>>

Advance ==
  \/ \E S \in SUBSET Index : Start(S) \/ Refuse(S)
  \/ \E i \in Index : Finish(i)

Next == Advance \/ Cancel

Safety == Init /\ [][Next]_vars

Spec == Safety /\ WF_vars(Advance)

=============================================================================
