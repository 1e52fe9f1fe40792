-------------------------- MODULE DependencyCycle ---------------------------
(***************************************************************************)
(* findDependencyCycle (packages/core/src/inspect-async.ts): the depth     *)
(* first search that names one cycle among the pending plan steps.  The    *)
(* recursion of visit is written out: stack is the code's own stack, and   *)
(* pos[i] is how far the loop over i's dependencies has come in the        *)
(* activation of visit(i).                                                 *)
(***************************************************************************)
EXTENDS Naturals, Sequences, FiniteSets

CONSTANTS
  Index,        \* plan positions
  Graphs        \* dependency lists to search, a subset of [Index -> Seq(Index)]

VARIABLES
  deps,         \* dependencies of each step, in declaration order
  pending,      \* the steps to search
  color,        \* the Map state: "undefined", "visiting" or "visited"
  stack,
  pos,
  answer,       \* the cycle found, << >> while or when there is none
  done

vars == <<deps, pending, color, stack, pos, answer, done>>

Top == stack[Len(stack)]

Init ==
  /\ deps \in Graphs
  /\ pending \in SUBSET Index
  /\ color = [i \in Index |-> "undefined"]
  /\ stack = << >>
  /\ pos = [i \in Index |-> 0]
  /\ answer = << >>
  /\ done = FALSE

(***************************************************************************)
(* visit(i) begins: mark it and push it.                                   *)
(***************************************************************************)
Enter(i) ==
  /\ color' = [color EXCEPT ![i] = "visiting"]
  /\ stack' = Append(stack, i)

(***************************************************************************)
(* The outer loop takes the first pending step not yet visited.            *)
(***************************************************************************)
VisitRoot ==
  /\ ~ done /\ stack = << >>
  /\ \E i \in pending :
       /\ color[i] = "undefined"
       /\ \A j \in pending : color[j] = "undefined" => i <= j
       /\ Enter(i)
  /\ UNCHANGED <<deps, pending, pos, answer, done>>

Examining == ~ done /\ stack # << >> /\ pos[Top] < Len(deps[Top])

NextDependency == deps[Top][pos[Top] + 1]

(* Fault: a dependency still being visited is passed over too. *)
SkipVisiting ==
  /\ Examining
  /\ NextDependency \notin pending \/ color[NextDependency] # "undefined"
  /\ pos' = [pos EXCEPT ![Top] = @ + 1]
  /\ UNCHANGED <<deps, pending, color, stack, answer, done>>

(***************************************************************************)
(* A dependency outside pending, or one already left, is passed over.      *)
(***************************************************************************)
SkipDependency ==
  /\ Examining
  /\ NextDependency \notin pending \/ color[NextDependency] = "visited"
  /\ pos' = [pos EXCEPT ![Top] = @ + 1]
  /\ UNCHANGED <<deps, pending, color, stack, answer, done>>

(* Fault: the whole stack is answered. *)
AnswerWholeStack ==
  /\ Examining
  /\ NextDependency \in pending /\ color[NextDependency] = "visiting"
  /\ answer' = stack
  /\ done' = TRUE
  /\ UNCHANGED <<deps, pending, color, stack, pos>>

(***************************************************************************)
(* A dependency still on the stack closes a cycle: the answer is the stack *)
(* from its position on.                                                   *)
(***************************************************************************)
FoundCycle ==
  /\ Examining
  /\ NextDependency \in pending /\ color[NextDependency] = "visiting"
  /\ \E k \in 1..Len(stack) :
       /\ stack[k] = NextDependency
       /\ \A m \in 1..(k - 1) : stack[m] # NextDependency
       /\ answer' = SubSeq(stack, k, Len(stack))
  /\ done' = TRUE
  /\ UNCHANGED <<deps, pending, color, stack, pos>>

Descend ==
  /\ Examining
  /\ NextDependency \in pending /\ color[NextDependency] = "undefined"
  /\ Enter(NextDependency)
  /\ pos' = [pos EXCEPT ![Top] = @ + 1]
  /\ UNCHANGED <<deps, pending, answer, done>>

(***************************************************************************)
(* visit returns null: pop and mark visited.                               *)
(***************************************************************************)
Leave ==
  /\ ~ done /\ stack # << >> /\ pos[Top] >= Len(deps[Top])
  /\ color' = [color EXCEPT ![Top] = "visited"]
  /\ stack' = SubSeq(stack, 1, Len(stack) - 1)
  /\ UNCHANGED <<deps, pending, pos, answer, done>>

Exhausted ==
  /\ ~ done /\ stack = << >>
  /\ \A i \in pending : color[i] # "undefined"
  /\ done' = TRUE
  /\ UNCHANGED <<deps, pending, color, stack, pos, answer>>

Terminated == done /\ UNCHANGED vars

Search == VisitRoot \/ SkipDependency \/ FoundCycle \/ Descend \/ Leave \/ Exhausted

Next == Search \/ Terminated

Spec == Init /\ [][Next]_vars

-----------------------------------------------------------------------------
DependsOn(i, j) == \E k \in 1..Len(deps[i]) : deps[i][k] = j

(***************************************************************************)
(* A non-empty answer is a real cycle of pending steps: each names the     *)
(* next as a dependency, the last names the first, and none is named twice *)
(* (the slice of the stack, inspect-async.ts:505-507).                     *)
(***************************************************************************)
AnswerIsCycle ==
  answer # << >> =>
    /\ \A k \in 1..Len(answer) : answer[k] \in pending
    /\ \A k \in 1..(Len(answer) - 1) : DependsOn(answer[k], answer[k + 1])
    /\ DependsOn(answer[Len(answer)], answer[1])
    /\ \A k, m \in 1..Len(answer) : answer[k] = answer[m] => k = m

(***************************************************************************)
(* The search is complete: an empty answer means no set of pending steps   *)
(* sustains itself, so the scheduler may rely on getting a cycle whenever  *)
(* every pending step has a pending dependency.                            *)
(***************************************************************************)
EmptyMeansAcyclic ==
  (done /\ answer = << >>) =>
    ~ \E S \in SUBSET pending :
        S # {} /\ \A i \in S : \E j \in S : DependsOn(i, j)

=============================================================================
