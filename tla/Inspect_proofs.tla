--------------------------- MODULE Inspect_proofs ---------------------------
(***************************************************************************)
(* Proofs about the check: the search for a dependency cycle over any      *)
(* graph, and the pipeline for any registry of checks.                     *)
(***************************************************************************)
EXTENDS MCInspect, FiniteSetTheorems, SequenceTheorems, WellFoundedInduction, TLAPS

-----------------------------------------------------------------------------
(***************************************************************************)
(* The depth first search.  The stack is a simple path of the steps being  *)
(* visited, each named by the dependency its predecessor has just looked   *)
(* at; what a step on the stack has looked at is outside the search, has   *)
(* been left, or is next on the stack; what has been left depends, inside  *)
(* the search, on what has been left only.                                 *)
(***************************************************************************)
SearchTyped ==
  /\ deps \in [SearchIndex -> Seq(SearchIndex)]
  /\ unsearched \subseteq SearchIndex
  /\ color \in [SearchIndex -> {"undefined", "visiting", "visited"}]
  /\ stack \in Seq(SearchIndex)
  /\ pos \in [SearchIndex -> Nat]
  /\ done \in BOOLEAN

StackIsPath ==
  /\ \A k \in 1..Len(stack) : stack[k] \in unsearched /\ color[stack[k]] = "visiting"
  /\ \A k, m \in 1..Len(stack) : stack[k] = stack[m] => k = m
  /\ \A i \in SearchIndex : color[i] = "visiting" => \E k \in 1..Len(stack) : stack[k] = i
  /\ \A k \in 1..(Len(stack) - 1) :
       /\ pos[stack[k]] \in 1..Len(deps[stack[k]])
       /\ deps[stack[k]][pos[stack[k]]] = stack[k + 1]

Examined ==
  /\ \A i \in SearchIndex : pos[i] <= Len(deps[i])
  /\ \A i \in SearchIndex : color[i] = "undefined" => pos[i] = 0
  /\ \A k \in 1..Len(stack) : \A m \in 1..pos[stack[k]] :
       \/ deps[stack[k]][m] \notin unsearched
       \/ color[deps[stack[k]][m]] = "visited"
       \/ k < Len(stack) /\ deps[stack[k]][m] = stack[k + 1]

Sustained(S) == S # {} /\ \A i \in S : \E j \in S : Cycle!DependsOn(i, j)

LeftIsAcyclic ==
  /\ \A i \in SearchIndex : color[i] = "visited" =>
       \A m \in 1..Len(deps[i]) :
         deps[i][m] \in unsearched => color[deps[i][m]] = "visited"
  /\ ~ \E S \in SUBSET unsearched : Sustained(S) /\ \A i \in S : color[i] = "visited"

SearchInv ==
  /\ SearchTyped /\ StackIsPath /\ Examined /\ LeftIsAcyclic
  /\ ~done => cycle = <<>>
  /\ done /\ cycle = <<>> => \A i \in unsearched : color[i] = "visited"
  /\ Cycle!AnswerIsCycle

-----------------------------------------------------------------------------
(* The step the search is at. *)
LEMMA AtTop ==
  ASSUME SearchInv, stack # <<>>
  PROVE  /\ Len(stack) \in Nat \ {0} /\ Cycle!Top = stack[Len(stack)]
         /\ Cycle!Top \in SearchIndex /\ Cycle!Top \in unsearched
         /\ color[Cycle!Top] = "visiting"
  BY DEF SearchInv, SearchTyped, StackIsPath, Cycle!Top

LEMMA NextIs ==
  ASSUME SearchInv, Cycle!Examining
  PROVE  /\ pos[Cycle!Top] + 1 \in 1..Len(deps[Cycle!Top]) /\ pos[Cycle!Top] \in Nat
         /\ Cycle!NextDependency = deps[Cycle!Top][pos[Cycle!Top] + 1]
         /\ Cycle!NextDependency \in SearchIndex
<1>1. Cycle!Top \in SearchIndex /\ stack # <<>>
  BY AtTop DEF Cycle!Examining
<1>2. deps[Cycle!Top] \in Seq(SearchIndex) /\ pos[Cycle!Top] \in Nat
  BY <1>1 DEF SearchInv, SearchTyped
<1>3. pos[Cycle!Top] < Len(deps[Cycle!Top])
  BY DEF Cycle!Examining
<1> HIDE DEF Cycle!Top
<1> QED
  BY <1>1, <1>2, <1>3 DEF Cycle!NextDependency

LEMMA SkipKeeps ==
  ASSUME SearchInv, Cycle!SkipDependency
  PROVE  SearchInv'
<1>1. PICK t \in SearchIndex : t = Cycle!Top /\ t = stack[Len(stack)]
  BY AtTop DEF Cycle!SkipDependency, Cycle!Examining
<1>2. /\ pos' = [pos EXCEPT ![t] = @ + 1] /\ deps' = deps /\ unsearched' = unsearched
      /\ color' = color /\ stack' = stack /\ cycle' = cycle /\ done' = done /\ stack # <<>>
      /\ ~ done
  BY <1>1 DEF Cycle!SkipDependency, Cycle!Examining
<1>3. /\ pos[t] + 1 \in 1..Len(deps[t]) /\ pos[t] \in Nat
      /\ deps[t][pos[t] + 1] \notin unsearched \/ color[deps[t][pos[t] + 1]] = "visited"
  BY <1>1, NextIs DEF Cycle!SkipDependency
<1>4. /\ pos \in [SearchIndex -> Nat] /\ stack \in Seq(SearchIndex) /\ Len(stack) \in Nat \ {0}
      /\ \A k \in 1..Len(stack) : stack[k] \in SearchIndex
  BY <1>2, AtTop DEF SearchInv, SearchTyped
<1>5. \A k \in 1..(Len(stack) - 1) : stack[k] # t
  BY <1>1, <1>4 DEF SearchInv, StackIsPath
<1>6. SearchTyped'
  BY <1>2, <1>3 DEF SearchInv, SearchTyped
<1>7. StackIsPath'
  BY <1>2, <1>4, <1>5 DEF SearchInv, StackIsPath
<1>8. Examined'
  <2>1. \A i \in SearchIndex : pos'[i] <= Len(deps'[i])
    BY <1>2, <1>3, <1>4 DEF SearchInv, Examined
  <2>2. color[t] = "visiting"
    BY <1>1, <1>2, AtTop
  <2>3. \A i \in SearchIndex : color'[i] = "undefined" => pos'[i] = 0
    BY <1>2, <1>4, <2>2 DEF SearchInv, Examined
  <2>4. ASSUME NEW k \in 1..Len(stack), NEW m \in 1..pos'[stack[k]]
        PROVE  \/ deps[stack[k]][m] \notin unsearched
               \/ color[deps[stack[k]][m]] = "visited"
               \/ k < Len(stack) /\ deps[stack[k]][m] = stack[k + 1]
    <3>1. CASE stack[k] = t /\ m = pos[t] + 1
      BY <1>3, <3>1
    <3>2. CASE ~ (stack[k] = t /\ m = pos[t] + 1)
      <4>1. m \in 1..pos[stack[k]]
        BY <1>2, <1>3, <1>4, <3>2
      <4> QED
        BY <4>1 DEF SearchInv, Examined
    <3> QED
      BY <3>1, <3>2
  <2> QED
    BY <1>2, <2>1, <2>3, <2>4 DEF Examined
<1>9. LeftIsAcyclic'
  BY <1>2 DEF SearchInv, LeftIsAcyclic, Sustained, Cycle!DependsOn
<1>10. Cycle!AnswerIsCycle'
  BY <1>2 DEF SearchInv, Cycle!AnswerIsCycle, Cycle!DependsOn
<1> QED
  BY <1>2, <1>6, <1>7, <1>8, <1>9, <1>10 DEF SearchInv

(* A step that is entered has looked at nothing. *)
LEMMA EnterKeeps ==
  ASSUME SearchInv, ~ done, NEW d \in unsearched, color[d] = "undefined", Cycle!Enter(d),
         UNCHANGED <<deps, unsearched, cycle, done>>,
         \/ stack = <<>> /\ pos' = pos
         \/ /\ stack # <<>> /\ pos[Cycle!Top] + 1 \in 1..Len(deps[Cycle!Top])
            /\ deps[Cycle!Top][pos[Cycle!Top] + 1] = d
            /\ pos' = [pos EXCEPT ![Cycle!Top] = @ + 1]
  PROVE  SearchInv'
<1> DEFINE n == Len(stack)
<1>0. /\ deps \in [SearchIndex -> Seq(SearchIndex)] /\ unsearched \subseteq SearchIndex
      /\ color \in [SearchIndex -> {"undefined", "visiting", "visited"}]
      /\ stack \in Seq(SearchIndex) /\ n \in Nat /\ pos \in [SearchIndex -> Nat]
  BY DEF SearchInv, SearchTyped
<1>1. /\ n \in Nat /\ d \in SearchIndex
      /\ \A k \in 1..n : stack[k] \in SearchIndex /\ stack[k] \in unsearched
  BY <1>0 DEF SearchInv, StackIsPath
<1>14. \A i \in SearchIndex : pos[i] \in Nat /\ Len(deps[i]) \in Nat
                               /\ \A m \in 1..Len(deps[i]) : deps[i][m] \in SearchIndex
  BY <1>0
<1>2. /\ color' = [color EXCEPT ![d] = "visiting"] /\ stack' = Append(stack, d)
      /\ deps' = deps /\ unsearched' = unsearched /\ cycle' = cycle /\ done' = done
  BY DEF Cycle!Enter
<1>3. /\ Len(stack') = n + 1 /\ stack'[n + 1] = d /\ stack' \in Seq(SearchIndex)
      /\ \A k \in 1..n : stack'[k] = stack[k]
  BY <1>0, <1>1, <1>2
<1>13. /\ \A i \in SearchIndex : i # d => color'[i] = color[i]
       /\ color'[d] = "visiting"
  BY <1>0, <1>1, <1>2
<1>4. /\ pos' \in [SearchIndex -> Nat]
      /\ \A k \in 1..n : (k < n => pos'[stack[k]] = pos[stack[k]])
      /\ stack = <<>> => \A i \in SearchIndex : pos'[i] = pos[i]
      /\ stack # <<>> => /\ pos'[stack[n]] = pos[stack[n]] + 1
                         /\ pos'[stack[n]] \in 1..Len(deps[stack[n]])
                         /\ deps[stack[n]][pos'[stack[n]]] = d
                         /\ \A i \in SearchIndex : i # stack[n] => pos'[i] = pos[i]
  <2>1. CASE stack = <<>>
    BY <1>0, <1>1, <2>1
  <2>2. CASE stack # <<>>
    <3>1. PICK t \in SearchIndex : t = Cycle!Top /\ t = stack[n] /\ n # 0
      BY <2>2, AtTop
    <3>2. \A k \in 1..n : k < n => stack[k] # t
      <4>1. n \in 1..n
        BY <1>1, <3>1
      <4> QED
        BY <1>1, <3>1, <4>1 DEF SearchInv, StackIsPath
    <3>3. /\ pos[t] + 1 \in 1..Len(deps[t]) /\ deps[t][pos[t] + 1] = d
          /\ pos' = [pos EXCEPT ![t] = @ + 1]
      BY <2>2, <3>1
    <3> QED
      BY <1>0, <1>1, <2>2, <3>1, <3>2, <3>3
  <2> QED
    BY <2>1, <2>2
<1>5. \A k \in 1..n : stack[k] # d /\ color[stack[k]] = "visiting"
  BY DEF SearchInv, StackIsPath
<1>6. SearchTyped'
  BY <1>0, <1>2, <1>3, <1>4 DEF SearchInv, SearchTyped
<1>15. \A k \in 1..(n + 1) : k \in 1..n \/ k = n + 1
  BY <1>1
<1>16. n = Len(stack)
  OBVIOUS
<1>17. stack # <<>> => n \in 1..n
  BY <1>0
<1> HIDE DEF n
<1>7. StackIsPath'
  <2>1. \A k \in 1..(n + 1) : stack'[k] \in unsearched /\ color'[stack'[k]] = "visiting"
    BY <1>1, <1>3, <1>5, <1>13, <1>15
  <2>2. \A k, m \in 1..(n + 1) : stack'[k] = stack'[m] => k = m
    <3>1. \A k, m \in 1..n : stack[k] = stack[m] => k = m
      BY <1>16 DEF SearchInv, StackIsPath
    <3> QED
      BY <1>3, <1>5, <1>15, <3>1
  <2>3. ASSUME NEW i \in SearchIndex, color'[i] = "visiting"
        PROVE  \E k \in 1..(n + 1) : stack'[k] = i
    <3>1. CASE i = d
      BY <1>1, <1>3, <3>1
    <3>2. CASE i # d
      <4>1. PICK k \in 1..n : stack[k] = i
        BY <1>13, <1>16, <2>3, <3>2 DEF SearchInv, StackIsPath
      <4>2. k \in 1..(n + 1)
        BY <1>1
      <4> QED
        BY <1>3, <4>1, <4>2
    <3> QED
      BY <3>1, <3>2
  <2>4. ASSUME NEW k \in 1..n
        PROVE  /\ pos'[stack'[k]] \in 1..Len(deps[stack'[k]])
               /\ deps[stack'[k]][pos'[stack'[k]]] = stack'[k + 1]
    <3>1. CASE k < n
      <4>1. k \in 1..(n - 1) /\ k + 1 \in 1..n
        BY <1>1, <3>1
      <4>2. /\ stack'[k] = stack[k] /\ stack'[k + 1] = stack[k + 1]
            /\ pos'[stack[k]] = pos[stack[k]]
        BY <1>3, <1>4, <3>1, <4>1
      <4> QED
        BY <1>16, <4>1, <4>2 DEF SearchInv, StackIsPath
    <3>2. CASE k = n
      <4>1. stack # <<>>
        BY <1>0, <1>16, <3>2
      <4> QED
        BY <1>3, <1>4, <3>2, <4>1
    <3> QED
      BY <1>1, <3>1, <3>2
  <2>5. Len(stack') - 1 = n /\ Len(stack') = n + 1
    BY <1>1, <1>3
  <2>6. deps' = deps /\ unsearched' = unsearched
    BY <1>2
  <2> QED
    BY <2>1, <2>2, <2>3, <2>4, <2>5, <2>6 DEF StackIsPath
<1>8. Examined'
  <2>1. \A i \in SearchIndex : pos'[i] <= Len(deps[i])
    <3>1. \A i \in SearchIndex : pos[i] <= Len(deps[i])
      BY DEF SearchInv, Examined
    <3>2. CASE stack = <<>>
      BY <1>4, <3>1, <3>2
    <3>3. CASE stack # <<>>
      <4>1. pos'[stack[n]] <= Len(deps[stack[n]])
        BY <1>1, <1>4, <1>14, <1>17, <3>3
      <4> QED
        BY <1>4, <3>1, <3>3, <4>1
    <3> QED
      BY <3>2, <3>3
  <2>2. ASSUME NEW i \in SearchIndex, color'[i] = "undefined" PROVE pos'[i] = 0
    <3>1. color[i] = "undefined" /\ pos[i] = 0
      BY <1>13, <2>2 DEF SearchInv, Examined
    <3>2. stack # <<>> => i # stack[n]
      BY <1>5, <1>17, <3>1
    <3> QED
      BY <1>4, <3>1, <3>2
  <2>3. ASSUME NEW k \in 1..(n + 1), NEW m \in 1..pos'[stack'[k]]
        PROVE  \/ deps[stack'[k]][m] \notin unsearched
               \/ color'[deps[stack'[k]][m]] = "visited"
               \/ k < n + 1 /\ deps[stack'[k]][m] = stack'[k + 1]
    <3>1. CASE k = n + 1
      <4>1. pos[d] = 0
        BY <1>1 DEF SearchInv, Examined
      <4>2. pos'[d] = 0
        BY <1>1, <1>4, <1>5, <1>17, <4>1
      <4> QED
        BY <1>3, <2>3, <3>1, <4>2
    <3>2. CASE k \in 1..n
      <4>1. stack'[k] = stack[k] /\ stack[k] \in SearchIndex /\ k < n + 1
        BY <1>1, <1>3, <3>2
      <4>6. m \in 1..pos'[stack[k]]
        BY <2>3, <4>1
      <4>2. \A e \in SearchIndex : color[e] = "visited" => color'[e] = "visited"
        BY <1>13
      <4>3. m \in 1..Len(deps[stack[k]]) /\ deps[stack[k]][m] \in SearchIndex
        <5>1. pos'[stack[k]] \in Nat /\ pos'[stack[k]] <= Len(deps[stack[k]])
          BY <1>4, <2>1, <4>1
        <5>2. m \in 1..Len(deps[stack[k]])
          BY <1>14, <4>1, <4>6, <5>1
        <5> QED
          BY <1>14, <4>1, <5>2
      <4>4. CASE k = n /\ m = pos[stack[n]] + 1
        <5>1. stack # <<>> /\ n + 1 \in 1..(n + 1)
          BY <1>0, <1>1, <1>16, <3>2, <4>4
        <5> QED
          BY <1>3, <1>4, <4>1, <4>4, <5>1
      <4>5. CASE ~ (k = n /\ m = pos[stack[n]] + 1)
        <5>1. m \in 1..pos[stack[k]]
          <6>1. CASE k < n
            BY <1>4, <3>2, <4>6, <6>1
          <6>2. CASE k = n
            <7>1. stack # <<>>
              BY <1>0, <1>16, <3>2
            <7>2. pos'[stack[n]] = pos[stack[n]] + 1 /\ pos[stack[n]] \in Nat
              BY <1>1, <1>4, <1>14, <1>17, <7>1
            <7> QED
              BY <4>5, <4>6, <6>2, <7>2
          <6> QED
            BY <1>1, <3>2, <6>1, <6>2
        <5>2. \/ deps[stack[k]][m] \notin unsearched
              \/ color[deps[stack[k]][m]] = "visited"
              \/ k < n /\ deps[stack[k]][m] = stack[k + 1]
          BY <1>16, <3>2, <5>1 DEF SearchInv, Examined
        <5>3. k < n => stack'[k + 1] = stack[k + 1]
          BY <1>1, <1>3, <3>2
        <5> QED
          BY <4>1, <4>2, <4>3, <5>2, <5>3
      <4> QED
        BY <4>4, <4>5
    <3> QED
      BY <1>15, <3>1, <3>2
  <2>4. Len(stack') = n + 1 /\ deps' = deps /\ unsearched' = unsearched
    BY <1>2, <1>3
  <2>5. \A i \in SearchIndex : pos'[i] <= Len(deps'[i])
    BY <2>1, <2>4
  <2>6. \A k \in 1..Len(stack') : \A m \in 1..pos'[stack'[k]] :
          \/ deps'[stack'[k]][m] \notin unsearched'
          \/ color'[deps'[stack'[k]][m]] = "visited"
          \/ k < Len(stack') /\ deps'[stack'[k]][m] = stack'[k + 1]
    BY <2>3, <2>4
  <2> QED
    BY <2>2, <2>5, <2>6 DEF Examined
<1>9. LeftIsAcyclic'
  <2>1. \A e \in SearchIndex : color'[e] = "visited" <=> color[e] = "visited"
    BY <1>1, <1>13
  <2>2. \A i \in SearchIndex : \A m \in 1..Len(deps[i]) : deps[i][m] \in SearchIndex
    BY <1>14
  <2>3. \A S : Sustained(S)' <=> Sustained(S)
    BY <1>2 DEF Sustained, Cycle!DependsOn
  <2> QED
    BY <1>0, <1>2, <2>1, <2>2, <2>3 DEF SearchInv, LeftIsAcyclic
<1>10. Cycle!AnswerIsCycle'
  BY <1>2 DEF SearchInv, Cycle!AnswerIsCycle, Cycle!DependsOn
<1> QED
  BY <1>2, <1>6, <1>7, <1>8, <1>9, <1>10 DEF SearchInv

(* The step that is left depends on nothing that is still being visited. *)
LEMMA LeaveKeeps ==
  ASSUME SearchInv, Cycle!Leave
  PROVE  SearchInv'
<1> DEFINE n == Len(stack)
<1>1. PICK t \in SearchIndex :
        t = Cycle!Top /\ t = stack[n] /\ color[t] = "visiting" /\ t \in unsearched
  BY AtTop DEF Cycle!Leave
<1>2. /\ deps \in [SearchIndex -> Seq(SearchIndex)] /\ unsearched \subseteq SearchIndex
      /\ color \in [SearchIndex -> {"undefined", "visiting", "visited"}]
      /\ stack \in Seq(SearchIndex) /\ n \in Nat \ {0} /\ pos \in [SearchIndex -> Nat]
  BY AtTop DEF SearchInv, SearchTyped, StackIsPath, Cycle!Leave
<1>3. /\ color' = [color EXCEPT ![t] = "visited"] /\ stack' = SubSeq(stack, 1, n - 1)
      /\ deps' = deps /\ unsearched' = unsearched /\ cycle' = cycle /\ done' = done
      /\ pos' = pos /\ pos[t] >= Len(deps[t]) /\ ~ done
  BY <1>1 DEF Cycle!Leave
<1>4. /\ Len(stack') = n - 1 /\ stack' \in Seq(SearchIndex)
      /\ \A k \in 1..(n - 1) : stack'[k] = stack[k]
  <2>0. PICK a \in Nat \ {0} : a = n
    BY <1>2
  <2>1. PICK b \in Nat : b = n - 1
    BY <2>0, a - 1 \in Nat
  <2>2. \A k \in 1..b : k \in 1..n /\ stack[k] \in SearchIndex
    BY <1>2, <2>1
  <2>3. SubSeq(stack, 1, b) = [k \in 1..b |-> stack[k]]
    BY <1>2, <2>1
  <2>4. PICK z : z = [k \in 1..b |-> stack[k]]
    OBVIOUS
  <2>5. z \in Seq(SearchIndex) /\ Len(z) = b /\ \A k \in 1..b : z[k] = stack[k]
    BY <2>1, <2>2, <2>4
  <2> QED
    BY <1>3, <2>1, <2>3, <2>4, <2>5
<1>12. /\ n \in Nat /\ n \in 1..n
       /\ \A k \in 1..n : stack[k] \in SearchIndex /\ stack[k] \in unsearched
       /\ \A k \in 1..(n - 1) : k \in 1..n /\ k # n /\ k + 1 \in 1..n
       /\ \A k \in 1..n : k \in 1..(n - 1) \/ k = n
  BY <1>2 DEF SearchInv, StackIsPath
<1>13. /\ \A k, m \in 1..n : stack[k] = stack[m] => k = m
       /\ \A k \in 1..n : color[stack[k]] = "visiting"
  BY DEF SearchInv, StackIsPath
<1>14. \A i \in SearchIndex : pos[i] \in Nat /\ Len(deps[i]) \in Nat
                               /\ \A m \in 1..Len(deps[i]) : deps[i][m] \in SearchIndex
  BY <1>2
<1>15. /\ \A i \in SearchIndex : i # t => color'[i] = color[i]
       /\ color'[t] = "visited"
  BY <1>2, <1>3
<1>16. n = Len(stack)
  OBVIOUS
<1>6. SearchTyped'
  BY <1>2, <1>3, <1>4 DEF SearchInv, SearchTyped
<1> HIDE DEF n
<1>5. \A k \in 1..(n - 1) : stack[k] # t
  BY <1>1, <1>12, <1>13
<1>7. StackIsPath'
  <2>1. \A k \in 1..(n - 1) : stack'[k] \in unsearched /\ color'[stack'[k]] = "visiting"
    BY <1>4, <1>5, <1>12, <1>13, <1>15
  <2>2. \A k, m \in 1..(n - 1) : stack'[k] = stack'[m] => k = m
    BY <1>4, <1>12, <1>13
  <2>3. ASSUME NEW i \in SearchIndex, color'[i] = "visiting"
        PROVE  \E k \in 1..(n - 1) : stack'[k] = i
    <3>1. i # t /\ color[i] = "visiting"
      BY <1>15, <2>3
    <3>2. PICK k \in 1..n : stack[k] = i
      BY <1>16, <3>1 DEF SearchInv, StackIsPath
    <3>3. k \in 1..(n - 1)
      BY <1>1, <1>12, <3>1, <3>2
    <3> QED
      BY <1>4, <3>2, <3>3
  <2>4. \A k \in 1..(n - 2) :
          /\ pos'[stack'[k]] \in 1..Len(deps[stack'[k]])
          /\ deps[stack'[k]][pos'[stack'[k]]] = stack'[k + 1]
    <3> SUFFICES ASSUME NEW k \in 1..(n - 2)
                 PROVE  /\ pos'[stack'[k]] \in 1..Len(deps[stack'[k]])
                        /\ deps[stack'[k]][pos'[stack'[k]]] = stack'[k + 1]
      OBVIOUS
    <3>1. k \in 1..(n - 1) /\ k + 1 \in 1..(n - 1)
      BY <1>12
    <3>2. stack'[k] = stack[k] /\ stack'[k + 1] = stack[k + 1]
      BY <1>4, <3>1
    <3> QED
      BY <1>3, <1>16, <3>1, <3>2 DEF SearchInv, StackIsPath
  <2>5. Len(stack') = n - 1 /\ Len(stack') - 1 = n - 2
    BY <1>4, <1>12
  <2> QED
    BY <1>3, <2>1, <2>2, <2>3, <2>4, <2>5 DEF StackIsPath
<1>8. Examined'
  <2>1. ASSUME NEW k \in 1..(n - 1), NEW m \in 1..pos[stack[k]]
        PROVE  \/ deps[stack[k]][m] \notin unsearched
               \/ color'[deps[stack[k]][m]] = "visited"
               \/ k < n - 1 /\ deps[stack[k]][m] = stack'[k + 1]
    <3>1. stack[k] \in SearchIndex /\ k \in 1..n /\ k < n /\ k + 1 \in 1..n
      BY <1>12
    <3>5. pos[stack[k]] <= Len(deps[stack[k]])
      BY <3>1 DEF SearchInv, Examined
    <3>6. m \in 1..Len(deps[stack[k]])
      BY <1>14, <3>1, <3>5
    <3>2. deps[stack[k]][m] \in SearchIndex
      BY <1>14, <3>1, <3>6
    <3>3. \/ deps[stack[k]][m] \notin unsearched
          \/ color[deps[stack[k]][m]] = "visited"
          \/ deps[stack[k]][m] = stack[k + 1]
      BY <1>16, <3>1 DEF SearchInv, Examined
    <3>4. CASE deps[stack[k]][m] = stack[k + 1]
      <4>1. CASE k + 1 = n
        BY <1>1, <1>15, <3>4, <4>1
      <4>2. CASE k + 1 # n
        <5>1. k + 1 \in 1..(n - 1) /\ k < n - 1
          BY <1>12, <3>1, <4>2
        <5> QED
          BY <1>4, <3>4, <5>1
      <4> QED
        BY <4>1, <4>2
    <3> QED
      BY <1>15, <3>2, <3>3, <3>4
  <2>2. \A i \in SearchIndex : color'[i] = "undefined" => color[i] = "undefined"
    BY <1>15
  <2>3. ASSUME NEW k \in 1..(n - 1), NEW m \in 1..pos'[stack'[k]]
        PROVE  \/ deps[stack'[k]][m] \notin unsearched
               \/ color'[deps[stack'[k]][m]] = "visited"
               \/ k < n - 1 /\ deps[stack'[k]][m] = stack'[k + 1]
    <3>1. stack'[k] = stack[k] /\ m \in 1..pos[stack[k]]
      BY <1>3, <1>4, <2>3
    <3> QED
      BY <2>1, <3>1
  <2>4. Len(stack') = n - 1
    BY <1>4
  <2>5. /\ \A i \in SearchIndex : pos[i] <= Len(deps[i])
        /\ \A i \in SearchIndex : color[i] = "undefined" => pos[i] = 0
    BY DEF SearchInv, Examined
  <2>6. deps' = deps /\ unsearched' = unsearched /\ pos' = pos
    BY <1>3
  <2> QED
    BY <2>2, <2>3, <2>4, <2>5, <2>6 DEF Examined
<1>9. \A m \in 1..Len(deps[t]) : deps[t][m] \in unsearched => color[deps[t][m]] = "visited"
  <2> SUFFICES ASSUME NEW m \in 1..Len(deps[t]), deps[t][m] \in unsearched
               PROVE  color[deps[t][m]] = "visited"
    OBVIOUS
  <2>1. m \in 1..pos[stack[n]]
    BY <1>1, <1>3, <1>14
  <2>2. \/ deps[t][m] \notin unsearched \/ color[deps[t][m]] = "visited" \/ n < n
    BY <1>1, <1>12, <1>16, <2>1 DEF SearchInv, Examined
  <2> QED
    BY <1>12, <2>2
<1>10. LeftIsAcyclic'
  <2>1. ASSUME NEW i \in SearchIndex, color'[i] = "visited", NEW m \in 1..Len(deps[i]),
               deps[i][m] \in unsearched
        PROVE  color[deps[i][m]] = "visited" /\ color'[deps[i][m]] = "visited"
    <3>1. deps[i][m] \in SearchIndex
      BY <1>14
    <3>2. color[deps[i][m]] = "visited"
      BY <1>9, <1>15, <2>1 DEF SearchInv, LeftIsAcyclic
    <3> QED
      BY <1>15, <3>1, <3>2
  <2>2. ASSUME NEW S \in SUBSET unsearched, Sustained(S), \A i \in S : color'[i] = "visited"
        PROVE  FALSE
    <3> DEFINE R == S \ {t}
    <3>1. \A i \in S : \E j \in R : Cycle!DependsOn(i, j)
      <4> SUFFICES ASSUME NEW i \in S PROVE \E j \in R : Cycle!DependsOn(i, j)
        OBVIOUS
      <4>1. PICK j \in S : Cycle!DependsOn(i, j)
        BY <2>2 DEF Sustained
      <4>2. PICK m \in 1..Len(deps[i]) : deps[i][m] = j
        BY <4>1 DEF Cycle!DependsOn
      <4>3. color[j] = "visited"
        BY <1>2, <2>1, <2>2, <4>2
      <4>4. j # t
        BY <1>1, <4>3
      <4> QED
        BY <4>1, <4>4
    <3>2. R # {}
      BY <2>2, <3>1 DEF Sustained
    <3>3. Sustained(R)
      BY <3>1, <3>2 DEF Sustained
    <3>4. \A i \in R : color[i] = "visited"
      BY <1>2, <1>3, <2>2
    <3> QED
      BY <3>3, <3>4 DEF SearchInv, LeftIsAcyclic
  <2>3. \A S : Sustained(S)' <=> Sustained(S)
    BY <1>3 DEF Sustained, Cycle!DependsOn
  <2> QED
    BY <1>3, <2>1, <2>2, <2>3 DEF LeftIsAcyclic
<1>11. Cycle!AnswerIsCycle'
  BY <1>3 DEF SearchInv, Cycle!AnswerIsCycle, Cycle!DependsOn
<1> QED
  BY <1>3, <1>6, <1>7, <1>8, <1>10, <1>11 DEF SearchInv

(* The slice of the stack from the dependency on is a cycle. *)
LEMMA FoundKeeps ==
  ASSUME SearchInv, Cycle!FoundCycle
  PROVE  SearchInv'
<1> DEFINE n == Len(stack)
<1>1. PICK t \in SearchIndex : t = Cycle!Top /\ t = stack[n]
  BY AtTop DEF Cycle!FoundCycle, Cycle!Examining
<1>2. /\ stack \in Seq(SearchIndex) /\ n \in Nat \ {0}
  BY AtTop DEF SearchInv, SearchTyped, Cycle!FoundCycle, Cycle!Examining
<1>3. PICK c \in 1..n : stack[c] = Cycle!NextDependency /\ cycle' = SubSeq(stack, c, n)
  BY DEF Cycle!FoundCycle
<1>4. /\ deps' = deps /\ unsearched' = unsearched /\ color' = color /\ stack' = stack
      /\ pos' = pos /\ done' = TRUE
  BY DEF Cycle!FoundCycle
<1>5. /\ pos[t] + 1 \in 1..Len(deps[t]) /\ deps[t][pos[t] + 1] = stack[c]
  BY <1>1, <1>3, NextIs DEF Cycle!FoundCycle
<1>6. PICK b \in Nat \ {0} : b = n - c + 1
  BY <1>2
<1>7. Len(cycle') = b /\ \A k \in 1..b : cycle'[k] = stack[c + k - 1]
  <2>1. SubSeq(stack, c, n) = [k \in 1..b |-> stack[c + k - 1]]
    BY <1>2, <1>6
  <2>2. PICK z : z = [k \in 1..b |-> stack[c + k - 1]]
    OBVIOUS
  <2>3. \A k \in 1..b : stack[c + k - 1] \in SearchIndex
    BY <1>2, <1>6
  <2>4. z \in Seq(SearchIndex) /\ Len(z) = b /\ \A k \in 1..b : z[k] = stack[c + k - 1]
    BY <1>6, <2>2, <2>3
  <2> QED
    BY <1>3, <2>1, <2>2, <2>4
<1>8. /\ \A k \in 1..b : c + k - 1 \in 1..n /\ c + k - 1 \in Nat
      /\ \A k \in 1..(b - 1) : k \in 1..b /\ k + 1 \in 1..b /\ c + k - 1 \in 1..(n - 1)
                               /\ c + (k + 1) - 1 = (c + k - 1) + 1
      /\ 1 \in 1..b /\ b \in 1..b /\ c + b - 1 = n /\ c + 1 - 1 = c
      /\ \A k, m \in 1..b : c + k - 1 = c + m - 1 => k = m
  BY <1>2, <1>6
<1>9. \A k \in 1..n : stack[k] \in unsearched
  BY DEF SearchInv, StackIsPath
<1>10. \A k, m \in 1..n : stack[k] = stack[m] => k = m
  BY DEF SearchInv, StackIsPath
<1>11. \A k \in 1..(n - 1) : Cycle!DependsOn(stack[k], stack[k + 1])
  BY DEF SearchInv, StackIsPath, Cycle!DependsOn
<1>12. Cycle!DependsOn(stack[n], stack[c])
  BY <1>1, <1>5 DEF Cycle!DependsOn
<1> HIDE DEF n
<1>13. \A i, j : Cycle!DependsOn(i, j)' <=> Cycle!DependsOn(i, j)
  BY <1>4 DEF Cycle!DependsOn
<1>14. \A k \in 1..b : cycle'[k] \in unsearched
  BY <1>7, <1>8, <1>9
<1>15. \A k \in 1..(b - 1) : Cycle!DependsOn(cycle'[k], cycle'[k + 1])
  <2> SUFFICES ASSUME NEW k \in 1..(b - 1)
               PROVE  Cycle!DependsOn(cycle'[k], cycle'[k + 1])
    OBVIOUS
  <2>1. cycle'[k] = stack[c + k - 1] /\ cycle'[k + 1] = stack[(c + k - 1) + 1]
    BY <1>7, <1>8
  <2> QED
    BY <1>8, <1>11, <2>1
<1>16. cycle'[b] = stack[n] /\ cycle'[1] = stack[c]
  BY <1>7, <1>8
<1>17. \A k, m \in 1..b : cycle'[k] = cycle'[m] => k = m
  <2> SUFFICES ASSUME NEW k \in 1..b, NEW m \in 1..b, cycle'[k] = cycle'[m]
               PROVE  k = m
    OBVIOUS
  <2>1. PICK x \in 1..n : x = c + k - 1
    BY <1>8
  <2>2. PICK y \in 1..n : y = c + m - 1
    BY <1>8
  <2>3. stack[x] = stack[y]
    BY <1>7, <2>1, <2>2
  <2>4. x = y
    BY <1>10, <2>3
  <2>5. c \in Nat /\ k \in Nat /\ m \in Nat
    BY <1>2, <1>6
  <2> QED
    BY <2>1, <2>2, <2>4, <2>5
<1>18. Cycle!AnswerIsCycle'
  BY <1>4, <1>7, <1>12, <1>13, <1>14, <1>15, <1>16, <1>17 DEF Cycle!AnswerIsCycle
<1>19. cycle' # <<>>
  BY <1>6, <1>7
<1>20. SearchTyped' /\ StackIsPath' /\ Examined'
  BY <1>4 DEF SearchInv, SearchTyped, StackIsPath, Examined
<1>21. LeftIsAcyclic'
  BY <1>4 DEF SearchInv, LeftIsAcyclic, Sustained, Cycle!DependsOn
<1> QED
  BY <1>4, <1>18, <1>19, <1>20, <1>21 DEF SearchInv

(* At the end everything has been left. *)
LEMMA ExhaustedKeeps ==
  ASSUME SearchInv, Cycle!Exhausted
  PROVE  SearchInv'
<1>1. /\ deps' = deps /\ unsearched' = unsearched /\ color' = color /\ stack' = stack
      /\ pos' = pos /\ cycle' = cycle /\ done' = TRUE /\ stack = <<>>
      /\ \A i \in unsearched : color[i] # "undefined"
  BY DEF Cycle!Exhausted
<1>2. \A i \in unsearched : color[i] = "visited"
  <2>1. \A i \in SearchIndex : color[i] # "visiting"
    BY <1>1 DEF SearchInv, StackIsPath
  <2> QED
    BY <1>1, <2>1 DEF SearchInv, SearchTyped
<1>3. SearchTyped' /\ StackIsPath' /\ Examined'
  BY <1>1 DEF SearchInv, SearchTyped, StackIsPath, Examined
<1>4. LeftIsAcyclic'
  BY <1>1 DEF SearchInv, LeftIsAcyclic, Sustained, Cycle!DependsOn
<1>5. Cycle!AnswerIsCycle'
  BY <1>1 DEF SearchInv, Cycle!AnswerIsCycle, Cycle!DependsOn
<1> QED
  BY <1>1, <1>2, <1>3, <1>4, <1>5 DEF SearchInv

LEMMA SearchUnchanged ==
  ASSUME SearchInv, UNCHANGED searchVars
  PROVE  SearchInv'
<1>1. /\ deps' = deps /\ unsearched' = unsearched /\ color' = color /\ stack' = stack
      /\ pos' = pos /\ cycle' = cycle /\ done' = done
  BY DEF searchVars
<1>2. SearchTyped' /\ StackIsPath' /\ Examined'
  BY <1>1 DEF SearchInv, SearchTyped, StackIsPath, Examined
<1>3. LeftIsAcyclic'
  BY <1>1 DEF SearchInv, LeftIsAcyclic, Sustained, Cycle!DependsOn
<1>4. Cycle!AnswerIsCycle'
  BY <1>1 DEF SearchInv, Cycle!AnswerIsCycle, Cycle!DependsOn
<1> QED
  BY <1>1, <1>2, <1>3, <1>4 DEF SearchInv

LEMMA SearchBegins == Cycle!Init => SearchInv
<1> SUFFICES ASSUME Cycle!Init PROVE SearchInv
  OBVIOUS
<1>1. /\ deps \in [SearchIndex -> Seq(SearchIndex)] /\ unsearched \subseteq SearchIndex
      /\ color = [i \in SearchIndex |-> "undefined"] /\ stack = <<>>
      /\ pos = [i \in SearchIndex |-> 0] /\ cycle = <<>> /\ done = FALSE
  BY SearchAssumption DEF Cycle!Init
<1>2. /\ Len(stack) = 0 /\ stack \in Seq(SearchIndex)
      /\ \A i \in SearchIndex : color[i] = "undefined" /\ pos[i] = 0 /\ Len(deps[i]) \in Nat
      /\ color \in [SearchIndex -> {"undefined", "visiting", "visited"}]
      /\ pos \in [SearchIndex -> Nat]
  BY <1>1
<1>5. SearchTyped
  BY <1>1, <1>2 DEF SearchTyped
<1>6. StackIsPath
  BY <1>2 DEF StackIsPath
<1>7. Examined
  BY <1>2 DEF Examined
<1>3. LeftIsAcyclic
  BY <1>1 DEF LeftIsAcyclic, Sustained
<1>4. Cycle!AnswerIsCycle
  BY <1>1 DEF Cycle!AnswerIsCycle
<1> QED
  BY <1>1, <1>3, <1>4, <1>5, <1>6, <1>7 DEF SearchInv

LEMMA SearchStep == SearchInv /\ Cycle!Next => SearchInv'
<1> SUFFICES ASSUME SearchInv, Cycle!Next PROVE SearchInv'
  OBVIOUS
<1>1. CASE Cycle!VisitRoot
  <2>1. PICK d \in unsearched : color[d] = "undefined" /\ Cycle!Enter(d)
    BY <1>1 DEF Cycle!VisitRoot
  <2> QED
    BY <1>1, <2>1, EnterKeeps DEF Cycle!VisitRoot
<1>2. CASE Cycle!Descend
  <2>1. PICK d \in unsearched : /\ d = Cycle!NextDependency /\ color[d] = "undefined"
                                /\ Cycle!Enter(d)
    BY <1>2 DEF Cycle!Descend
  <2>2. Cycle!Examining /\ ~ done /\ stack # <<>>
    BY <1>2 DEF Cycle!Descend, Cycle!Examining
  <2>3. /\ pos[Cycle!Top] + 1 \in 1..Len(deps[Cycle!Top])
        /\ deps[Cycle!Top][pos[Cycle!Top] + 1] = d
        /\ pos' = [pos EXCEPT ![Cycle!Top] = @ + 1]
        /\ UNCHANGED <<deps, unsearched, cycle, done>>
    BY <1>2, <2>1, <2>2, NextIs DEF Cycle!Descend
  <2> QED
    BY <2>1, <2>2, <2>3, EnterKeeps
<1>3. CASE Cycle!Terminated
  BY <1>3, SearchUnchanged DEF Cycle!Terminated, Cycle!vars, searchVars
<1> QED
  BY <1>1, <1>2, <1>3, SkipKeeps, FoundKeeps, LeaveKeeps, ExhaustedKeeps
     DEF Cycle!Next, Cycle!Search

(***************************************************************************)
(* The search for a dependency cycle is sound and complete, over every     *)
(* graph and every set of pending steps: what it names is one simple cycle *)
(* of pending steps, and when it names nothing no pending steps wait for   *)
(* each other (findDependencyCycle, inspect-async.ts).                     *)
(***************************************************************************)
THEOREM CycleFound == MCSpec => []CycleIsFound
<1> DEFINE SInv == part = "search" => SearchInv
<1>1. MCInit => SInv
  BY SearchBegins DEF MCInit
<1>2. SInv /\ [MCNext]_MCvars => SInv'
  <2> SUFFICES ASSUME SInv, [MCNext]_MCvars, part' = "search" PROVE SearchInv'
    OBVIOUS
  <2>1. part' = part
    BY DEF MCNext, MCvars, Answered
  <2>2. SearchInv
    BY <2>1
  <2>3. Cycle!Next \/ UNCHANGED searchVars
    BY DEF MCNext, MCvars, Answered
  <2> HIDE DEF SInv
  <2> QED
    BY <2>2, <2>3, SearchStep, SearchUnchanged
<1>3. SInv => CycleIsFound
  <2> SUFFICES ASSUME SearchInv PROVE Cycle!AnswerIsCycle /\ Cycle!EmptyMeansAcyclic
    BY DEF CycleIsFound
  <2> QED
    BY DEF SearchInv, LeftIsAcyclic, Sustained, Cycle!EmptyMeansAcyclic
<1> HIDE DEF SInv
<1> QED
  BY <1>1, <1>2, <1>3, PTL DEF MCSpec

-----------------------------------------------------------------------------
(***************************************************************************)
(* Sorting.  Precedes is a strict total order of the positions, so the     *)
(* places are all different, every place is taken, and the sorted list is  *)
(* a rearrangement of the given one.                                       *)
(***************************************************************************)
LEMMA PrecedesIsTotal ==
  ASSUME NEW s, NEW n \in Nat, DOMAIN s = 1..n,
         \A k \in 1..n : s[k].weight \in Int /\ s[k].code \in Int
  PROVE  /\ \A k \in 1..n : ~ Precedes(s, k, k)
         /\ \A j, k \in 1..n : j # k => Precedes(s, j, k) \/ Precedes(s, k, j)
         /\ \A j, k, m \in 1..n : Precedes(s, j, k) /\ Precedes(s, k, m) => Precedes(s, j, m)
         /\ \A j, k \in 1..n : Precedes(s, j, k) => s[j].weight >= s[k].weight
<1>1. PICK w \in [1..n -> Int] : \A k \in 1..n : w[k] = s[k].weight
  <2>1. [k \in 1..n |-> s[k].weight] \in [1..n -> Int]
    OBVIOUS
  <2> QED
    BY <2>1
<1>2. PICK c \in [1..n -> Int] : \A k \in 1..n : c[k] = s[k].code
  <2>1. [k \in 1..n |-> s[k].code] \in [1..n -> Int]
    OBVIOUS
  <2> QED
    BY <2>1
<1>3. \A j, k \in 1..n : Precedes(s, j, k) <=>
        \/ w[j] > w[k] \/ (w[j] = w[k] /\ c[j] < c[k])
        \/ ~ (w[k] > w[j] \/ (w[k] = w[j] /\ c[k] < c[j])) /\ j < k
  BY <1>1, <1>2 DEF Precedes, compareReasons
<1>4. \A j \in 1..n : w[j] \in Int /\ c[j] \in Int /\ j \in Int
  BY <1>1, <1>2
<1>5. \A k \in 1..n : ~ Precedes(s, k, k)
  <2> SUFFICES ASSUME NEW k \in 1..n PROVE ~ Precedes(s, k, k)
    OBVIOUS
  <2>1. PICK a \in Int, b \in Int : a = w[k] /\ b = c[k]
    BY <1>4
  <2>2. Precedes(s, k, k) <=> \/ a > a \/ (a = a /\ b < b)
                              \/ ~ (a > a \/ (a = a /\ b < b)) /\ k < k
    BY <1>3, <2>1
  <2>3. ~ (a > a) /\ ~ (b < b) /\ ~ (k < k)
    OBVIOUS
  <2> QED
    BY <2>2, <2>3
<1>6. \A j, k \in 1..n : j # k => Precedes(s, j, k) \/ Precedes(s, k, j)
  BY <1>3, <1>4
<1>7. \A j, k, m \in 1..n : Precedes(s, j, k) /\ Precedes(s, k, m) => Precedes(s, j, m)
  <2> SUFFICES ASSUME NEW j \in 1..n, NEW k \in 1..n, NEW m \in 1..n,
                      Precedes(s, j, k), Precedes(s, k, m)
               PROVE  Precedes(s, j, m)
    OBVIOUS
  <2>1. ASSUME NEW a \in 1..n, NEW b \in 1..n
        PROVE  Precedes(s, a, b) <=>
                 w[a] > w[b] \/ (w[a] = w[b] /\ (c[a] < c[b] \/ (c[a] = c[b] /\ a < b)))
    <3>1. w[a] \in Int /\ w[b] \in Int /\ c[a] \in Int /\ c[b] \in Int
      BY <1>4
    <3>2. Precedes(s, a, b) <=>
            \/ w[a] > w[b] \/ (w[a] = w[b] /\ c[a] < c[b])
            \/ ~ (w[b] > w[a] \/ (w[b] = w[a] /\ c[b] < c[a])) /\ a < b
      BY <1>3
    <3>3. ASSUME NEW p \in Int, NEW q \in Int, NEW x \in Int, NEW y \in Int
          PROVE  (\/ p > q \/ (p = q /\ x < y)
                  \/ ~ (q > p \/ (q = p /\ y < x)) /\ a < b)
                 <=> (p > q \/ (p = q /\ (x < y \/ (x = y /\ a < b))))
      OBVIOUS
    <3> QED
      BY <3>1, <3>2, <3>3
  <2>2. w[j] > w[k] \/ (w[j] = w[k] /\ (c[j] < c[k] \/ (c[j] = c[k] /\ j < k)))
    BY <2>1
  <2>3. w[k] > w[m] \/ (w[k] = w[m] /\ (c[k] < c[m] \/ (c[k] = c[m] /\ k < m)))
    BY <2>1
  <2>4. w[j] > w[m] \/ (w[j] = w[m] /\ (c[j] < c[m] \/ (c[j] = c[m] /\ j < m)))
    BY <1>4, <2>2, <2>3
  <2> QED
    BY <2>1, <2>4
<1>8. \A j, k \in 1..n : Precedes(s, j, k) => s[j].weight >= s[k].weight
  <2> SUFFICES ASSUME NEW j \in 1..n, NEW k \in 1..n, Precedes(s, j, k)
               PROVE  s[j].weight >= s[k].weight
    OBVIOUS
  <2>1. PICK p \in Int, q \in Int : p = w[j] /\ q = w[k]
    BY <1>4
  <2>2. p > q \/ p = q \/ ~ (q > p)
    BY <1>3, <2>1
  <2>3. p >= q
    BY <2>2
  <2> QED
    BY <1>1, <2>1, <2>3
<1> QED
  BY <1>5, <1>6, <1>7, <1>8

LEMMA PlacesAreTaken ==
  ASSUME NEW s, NEW n \in Nat, DOMAIN s = 1..n,
         \A k \in 1..n : s[k].weight \in Int /\ s[k].code \in Int
  PROVE  /\ \A k \in 1..n : Place(s, k) \in 1..n
         /\ \A j, k \in 1..n : Precedes(s, j, k) => Place(s, j) < Place(s, k)
         /\ \A m \in 1..n : \E k \in 1..n : Place(s, k) = m
<1> DEFINE P(k) == {j \in 1..n : Precedes(s, j, k)}
<1>1. /\ \A k \in 1..n : ~ Precedes(s, k, k)
      /\ \A j, k \in 1..n : j # k => Precedes(s, j, k) \/ Precedes(s, k, j)
      /\ \A j, k, m \in 1..n : Precedes(s, j, k) /\ Precedes(s, k, m) => Precedes(s, j, m)
  BY PrecedesIsTotal
<1>2. IsFiniteSet(1..n) /\ Cardinality(1..n) = n
  <2>1. 1 \in Int /\ n \in Int /\ (IF 1 > n THEN 0 ELSE n - 1 + 1) = n
    OBVIOUS
  <2> QED
    BY <2>1, FS_Interval
<1>3. \A k : Place(s, k) = 1 + Cardinality(P(k))
  BY DEF Place
<1>4. ASSUME NEW T \in SUBSET (1..n), NEW k \in 1..n, k \notin T
      PROVE  IsFiniteSet(T) /\ Cardinality(T) \in Nat /\ Cardinality(T) < n
  <2>1. IsFiniteSet(T) /\ IsFiniteSet(T \cup {k}) /\ Cardinality(T \cup {k}) = Cardinality(T) + 1
    BY <1>2, <1>4, FS_Subset, FS_AddElement
  <2>2. Cardinality(T \cup {k}) <= n
    <3>1. T \cup {k} \in SUBSET (1..n)
      OBVIOUS
    <3>2. Cardinality(T \cup {k}) <= Cardinality(1..n)
      BY <1>2, <3>1, FS_Subset
    <3> QED
      BY <1>2, <3>2
  <2>3. Cardinality(T) \in Nat
    BY <2>1, FS_CardinalityType
  <2> QED
    BY <2>1, <2>2, <2>3
<1>5. \A k \in 1..n : IsFiniteSet(P(k)) /\ Cardinality(P(k)) \in Nat /\ Cardinality(P(k)) < n
  <2> SUFFICES ASSUME NEW k \in 1..n
               PROVE  IsFiniteSet(P(k)) /\ Cardinality(P(k)) \in Nat /\ Cardinality(P(k)) < n
    OBVIOUS
  <2>1. P(k) \in SUBSET (1..n) /\ k \notin P(k)
    BY <1>1
  <2> HIDE DEF P
  <2> QED
    BY <1>4, <2>1
<1>6. \A j, k \in 1..n : Precedes(s, j, k) => Cardinality(P(j)) < Cardinality(P(k))
  <2> SUFFICES ASSUME NEW j \in 1..n, NEW k \in 1..n, Precedes(s, j, k)
               PROVE  Cardinality(P(j)) < Cardinality(P(k))
    OBVIOUS
  <2>1. P(j) \cup {j} \in SUBSET P(k) /\ j \notin P(j)
    BY <1>1
  <2> HIDE DEF P
  <2>2. Cardinality(P(j) \cup {j}) = Cardinality(P(j)) + 1
    BY <1>5, <2>1, FS_AddElement
  <2>3. Cardinality(P(j) \cup {j}) <= Cardinality(P(k))
    BY <1>5, <2>1, FS_Subset
  <2> QED
    BY <1>5, <2>2, <2>3
<1> HIDE DEF P
<1>7. \A k \in 1..n : Place(s, k) \in 1..n
  <2> SUFFICES ASSUME NEW k \in 1..n PROVE Place(s, k) \in 1..n
    OBVIOUS
  <2>1. PICK c \in Nat : c = Cardinality(P(k)) /\ c < n
    BY <1>5
  <2>2. Place(s, k) = 1 + c
    BY <1>3, <2>1
  <2> QED
    BY <2>1, <2>2
<1>8. \A j, k \in 1..n : Precedes(s, j, k) => Place(s, j) < Place(s, k)
  BY <1>3, <1>5, <1>6
<1>9. PICK f : f = [k \in 1..n |-> Place(s, k)]
  OBVIOUS
<1>10. f \in [1..n -> 1..n] /\ \A k \in 1..n : f[k] = Place(s, k)
  BY <1>7, <1>9
<1>11. \A j, k \in 1..n : f[j] = f[k] => j = k
  <2> SUFFICES ASSUME NEW j \in 1..n, NEW k \in 1..n, f[j] = f[k], j # k
               PROVE  FALSE
    OBVIOUS
  <2>1. Place(s, j) = Place(s, k) /\ Place(s, j) \in Int
    BY <1>7, <1>10
  <2>2. Place(s, j) < Place(s, k) \/ Place(s, k) < Place(s, j)
    BY <1>1, <1>8
  <2> QED
    BY <2>1, <2>2
<1>12. f \in Injection(1..n, 1..n)
  BY <1>10, <1>11 DEF Injection, IsInjective
<1>13. f \in Surjection(1..n, 1..n)
  BY <1>2, <1>12, FS_Injection
<1>14. \A m \in 1..n : \E k \in 1..n : f[k] = m
  BY <1>13 DEF Surjection
<1> QED
  BY <1>7, <1>8, <1>10, <1>14

LEMMA SortedIs ==
  ASSUME NEW s, NEW n \in Nat, DOMAIN s = 1..n,
         \A k \in 1..n : s[k].weight \in Int /\ s[k].code \in Int
  PROVE  \E p \in [1..n -> 1..n] :
           /\ \A k \in 1..n : \E m \in 1..n : p[m] = k
           /\ sorted(s) = [m \in 1..n |-> s[p[m]]]
           /\ \A k, m \in 1..n : k < m => s[p[k]].weight >= s[p[m]].weight
<1> DEFINE at(m) == CHOOSE k \in 1..n : Place(s, k) = m
<1>1. /\ \A k \in 1..n : Place(s, k) \in 1..n
      /\ \A j, k \in 1..n : Precedes(s, j, k) => Place(s, j) < Place(s, k)
      /\ \A m \in 1..n : \E k \in 1..n : Place(s, k) = m
  BY PlacesAreTaken
<1>2. /\ \A j, k \in 1..n : j # k => Precedes(s, j, k) \/ Precedes(s, k, j)
      /\ \A j, k \in 1..n : Precedes(s, j, k) => s[j].weight >= s[k].weight
  BY PrecedesIsTotal
<1>3. \A m \in 1..n : at(m) \in 1..n /\ Place(s, at(m)) = m
  BY <1>1
<1>4. PICK p : p = [m \in 1..n |-> at(m)]
  OBVIOUS
<1>5. sorted(s) = [m \in 1..n |-> s[at(m)]]
  BY DEF sorted
<1> HIDE DEF at
<1>6. p \in [1..n -> 1..n] /\ \A m \in 1..n : p[m] = at(m) /\ Place(s, p[m]) = m
  BY <1>3, <1>4
<1>7. \A k \in 1..n : \E m \in 1..n : p[m] = k
  <2> SUFFICES ASSUME NEW k \in 1..n PROVE \E m \in 1..n : p[m] = k
    OBVIOUS
  <2>1. PICK m \in 1..n : m = Place(s, k)
    BY <1>1
  <2>2. PICK j \in 1..n : j = p[m] /\ Place(s, j) = m
    BY <1>6
  <2>3. j = k
    <3> SUFFICES ASSUME j # k PROVE FALSE
      OBVIOUS
    <3>1. m < m
      BY <1>1, <1>2, <2>1, <2>2
    <3> QED
      BY <3>1
  <2> QED
    BY <2>2, <2>3
<1>8. sorted(s) = [m \in 1..n |-> s[p[m]]]
  BY <1>5, <1>6
<1>9. \A k, m \in 1..n : k < m => s[p[k]].weight >= s[p[m]].weight
  <2> SUFFICES ASSUME NEW k \in 1..n, NEW m \in 1..n, k < m
               PROVE  s[p[k]].weight >= s[p[m]].weight
    OBVIOUS
  <2>1. PICK i \in 1..n : i = p[k] /\ Place(s, i) = k
    BY <1>6
  <2>2. PICK j \in 1..n : j = p[m] /\ Place(s, j) = m
    BY <1>6
  <2>3. i # j /\ ~ (m < k)
    BY <2>1, <2>2
  <2>4. Precedes(s, i, j)
    <3> SUFFICES ASSUME ~ Precedes(s, i, j) PROVE FALSE
      OBVIOUS
    <3>1. Precedes(s, j, i)
      BY <1>2, <2>3
    <3>2. Place(s, j) < Place(s, i)
      BY <1>1, <3>1
    <3> QED
      BY <2>1, <2>2, <2>3, <3>2
  <2> QED
    BY <1>2, <2>1, <2>2, <2>4
<1> QED
  BY <1>6, <1>7, <1>8, <1>9

-----------------------------------------------------------------------------
(***************************************************************************)
(* The pipeline.  What threw is in the skip list; the skip list holds      *)
(* named tokens, and the bare policy channel only when the dispatcher      *)
(* threw before any axis ran; the result is one of the two that the code   *)
(* builds, from the findings as they stand.                                *)
(***************************************************************************)
PipelineTyped ==
  /\ raw \in Options
  /\ pc \in {"intake", "scan", "detect", "policy", "build", "returned"}
  /\ next \in Nat \ {0}
  /\ findings \in Seq(Code)
  /\ policyRan \in BOOLEAN /\ agentRan \in BOOLEAN

TokensKept ==
  /\ threw \subseteq skipped
  /\ \A t \in skipped : t = Bare("policy") \/ \E channel, x : t = Named(channel, x)
  /\ pc \in {"intake", "scan", "detect"} => ~ policyRan
  /\ pc = "policy" /\ next = 1 => ~ policyRan
  /\ pc \in {"intake", "scan", "detect", "policy"} => Bare("policy") \notin skipped
  /\ Bare("policy") \in skipped => ~ policyRan

ResultBuilt ==
  /\ pc = "intake" => findings = << >>
  /\ Done => result \in {buildInvalidResult(findings), buildOkResult(findings)}

PipelineInv == PipelineTyped /\ TokensKept /\ ResultBuilt

LEMMA TokensDiffer ==
  /\ \A a, b : Bare(a) = Bare(b) => a = b
  /\ \A a, c, x : Bare(a) # Named(c, x)
  BY DEF Bare, Named

(* What a check reports is a list of codes. *)
LEMMA ReportIsList ==
  ASSUME NEW id \in CheckIds, NEW S \in SUBSET emits[id], findings \in Seq(Code)
  PROVE  findings \o SetToSeq(S) \in Seq(Code)
<1>1. IsFiniteSet(S) /\ S \subseteq Code
  BY InspectAssumption, FS_Subset
<1>2. PICK n \in Nat : n = Cardinality(S) /\ ExistsBijection(1..n, S)
  BY <1>1, FS_CardinalityType
<1>3. \E f \in [1..n -> S] : IsInjective(f)
  BY <1>2 DEF ExistsBijection, Bijection, Injection
<1>4. SetToSeq(S) \in [1..n -> S]
  BY <1>2, <1>3 DEF SetToSeq
<1>5. PICK z \in [1..n -> Code] : z = SetToSeq(S)
  BY <1>1, <1>4
<1>6. z \in Seq(Code)
  BY <1>5
<1> QED
  BY <1>5, <1>6

LEMMA ListedIsCheck ==
  ASSUME NEW list \in {Scans, Detectors, Axes}, NEW k \in Nat \ {0}, k <= Len(list)
  PROVE  list[k] \in CheckIds
  BY InspectAssumption

LEMMA PipelineBegins == InspectInit => PipelineInv
<1> SUFFICES ASSUME InspectInit PROVE PipelineInv
  OBVIOUS
<1>1. PipelineTyped
  <2>1. findings \in Seq(Code)
    BY DEF InspectInit
  <2>2. raw \in Options /\ pc = "intake" /\ next = 1 /\ policyRan = FALSE /\ agentRan = FALSE
    BY DEF InspectInit
  <2>3. policyRan \in BOOLEAN /\ agentRan \in BOOLEAN
    BY <2>2
  <2>4. next \in Nat \ {0}
    BY <2>2
  <2>5. pc \in {"intake", "scan", "detect", "policy", "build", "returned"}
    BY <2>2
  <2> QED
    BY <2>1, <2>2, <2>3, <2>4, <2>5, Zenon DEF PipelineTyped
<1>2. TokensKept
  BY DEF InspectInit, TokensKept
<1>3. ResultBuilt
  BY DEF InspectInit, ResultBuilt, Done
<1> QED
  BY <1>1, <1>2, <1>3 DEF PipelineInv

(* A check that reports, or throws, outside the policy's first step. *)
LEMMA EmitsKeeps ==
  ASSUME PipelineInv, NEW id \in CheckIds, Emits(id), ~ Done, pc # "intake",
         policyRan' = policyRan \/ (pc = "policy" /\ policyRan' = TRUE), agentRan' \in BOOLEAN
  PROVE  PipelineInv'
<1>1. PICK S \in SUBSET emits[id] : findings' = findings \o SetToSeq(S)
  BY DEF Emits
<1>2. /\ raw' = raw /\ pc' = pc /\ skipped' = skipped /\ threw' = threw /\ next' = next + 1
  BY DEF Emits
<1>3. findings' \in Seq(Code)
  BY <1>1, ReportIsList DEF PipelineInv, PipelineTyped
<1>4. PipelineTyped'
  <2>1. policyRan' \in BOOLEAN
    BY DEF PipelineInv, PipelineTyped
  <2>2. next' \in Nat \ {0}
    BY <1>2 DEF PipelineInv, PipelineTyped
  <2> QED
    BY <1>2, <1>3, <2>1, <2>2 DEF PipelineInv, PipelineTyped
<1>5. TokensKept'
  BY <1>2 DEF PipelineInv, PipelineTyped, TokensKept
<1>6. ResultBuilt'
  BY <1>2 DEF ResultBuilt, Done
<1> QED
  BY <1>4, <1>5, <1>6 DEF PipelineInv

LEMMA ThrowsKeeps ==
  ASSUME PipelineInv, NEW channel, NEW x, Throws(Named(channel, x)), ~ Done, pc # "intake",
         policyRan' = policyRan, agentRan' \in BOOLEAN
  PROVE  PipelineInv'
<1>1. /\ raw' = raw /\ pc' = pc /\ findings' = findings /\ next' = next + 1
      /\ skipped' = skipped \cup {Named(channel, x)} /\ threw' = threw \cup {Named(channel, x)}
  BY DEF Throws
<1>2. Bare("policy") # Named(channel, x)
  BY TokensDiffer
<1>3. PipelineTyped'
  BY <1>1 DEF PipelineInv, PipelineTyped
<1>4. TokensKept'
  BY <1>1, <1>2 DEF PipelineInv, PipelineTyped, TokensKept
<1>5. ResultBuilt'
  BY <1>1 DEF ResultBuilt, Done
<1> QED
  BY <1>3, <1>4, <1>5 DEF PipelineInv

(* A result that is returned. *)
LEMMA ReturnsKeeps ==
  ASSUME PipelineInv,
         Returns(buildInvalidResult(findings)) \/ Returns(buildOkResult(findings))
  PROVE  PipelineInv'
<1>1. /\ UNCHANGED <<raw, findings, skipped, policyRan, agentRan, threw>>
      /\ pc' = "returned" /\ next' = 1
      /\ result' \in {buildInvalidResult(findings), buildOkResult(findings)}
  BY DEF Returns, Goto
<1>2. /\ buildInvalidResult(findings)' = buildInvalidResult(findings)
      /\ buildOkResult(findings)' = buildOkResult(findings)
  BY <1>1 DEF buildInvalidResult, buildOkResult, optionSkipped, options, ReasonsOf
<1>3. PipelineTyped'
  BY <1>1 DEF PipelineInv, PipelineTyped
<1>4. TokensKept'
  BY <1>1 DEF PipelineInv, TokensKept
<1>5. ResultBuilt'
  BY <1>1, <1>2 DEF ResultBuilt
<1> QED
  BY <1>3, <1>4, <1>5 DEF PipelineInv

LEMMA PipelineStep == PipelineInv /\ [InspectNext]_inspectVars => PipelineInv'
<1> SUFFICES ASSUME PipelineInv, [InspectNext]_inspectVars PROVE PipelineInv'
  OBVIOUS
<1>1. CASE NotAString
  <2>1. Returns(buildInvalidResult(findings))
    BY <1>1 DEF NotAString, PipelineInv, ResultBuilt
  <2> QED
    BY <2>1, ReturnsKeeps
<1>2. CASE StartScans \/ ParseSucceeds
  BY <1>2 DEF StartScans, ParseSucceeds, Goto, PipelineInv, PipelineTyped, TokensKept, ResultBuilt, Done
<1>3. CASE ScanReports
  <2>1. Scans[next] \in CheckIds
    BY <1>3, ListedIsCheck DEF ScanReports, PipelineInv, PipelineTyped
  <2> QED
    BY <1>3, <2>1, EmitsKeeps DEF ScanReports, Done, PipelineInv, PipelineTyped
<1>4. CASE ScanThrows
  BY <1>4, ThrowsKeeps DEF ScanThrows, Done, PipelineInv, PipelineTyped
<1>5. CASE ParseFails
  BY <1>5, ReturnsKeeps DEF ParseFails
<1>6. CASE DetectorGatedOff
  BY <1>6 DEF DetectorGatedOff, PipelineInv, PipelineTyped, TokensKept, ResultBuilt, Done
<1>7. CASE DetectorReports
  <2>1. Detectors[next] \in CheckIds
    BY <1>7, ListedIsCheck DEF DetectorReports, Evaluated, PipelineInv, PipelineTyped
  <2> QED
    BY <1>7, <2>1, EmitsKeeps DEF DetectorReports, Evaluated, Gated, Done, PipelineInv, PipelineTyped
<1>8. CASE DetectorThrows
  BY <1>8, ThrowsKeeps DEF DetectorThrows, Evaluated, Gated, Done, PipelineInv, PipelineTyped
<1>9. CASE StartPolicy
  BY <1>9 DEF StartPolicy, Goto, PipelineInv, PipelineTyped, TokensKept, ResultBuilt, Done
<1>10. CASE DispatcherThrows
  BY <1>10 DEF DispatcherThrows, Goto, PipelineInv, PipelineTyped, TokensKept, ResultBuilt, Done
<1>11. CASE AxisReports
  <2>1. Axes[next] \in CheckIds
    BY <1>11, ListedIsCheck DEF AxisReports, PipelineInv, PipelineTyped
  <2> QED
    BY <1>11, <2>1, EmitsKeeps DEF AxisReports, Done, PipelineInv, PipelineTyped
<1>12. CASE AxisThrows
  BY <1>12, ThrowsKeeps DEF AxisThrows, Done, PipelineInv, PipelineTyped
<1>13. CASE Build
  BY <1>13, ReturnsKeeps DEF Build
<1>14. CASE UNCHANGED inspectVars
  <2>1. /\ buildInvalidResult(findings)' = buildInvalidResult(findings)
        /\ buildOkResult(findings)' = buildOkResult(findings)
    BY <1>14 DEF inspectVars, buildInvalidResult, buildOkResult, optionSkipped, options, ReasonsOf
  <2> QED
    BY <1>14, <2>1 DEF inspectVars, PipelineInv, PipelineTyped, TokensKept, ResultBuilt, Done
<1> QED
  BY <1>1, <1>2, <1>3, <1>4, <1>5, <1>6, <1>7, <1>8, <1>9, <1>10, <1>11, <1>12, <1>13, <1>14
     DEF InspectNext, Step, Returned

(* What may be in the two token lists. *)
LEMMA OptionTokens ==
  ASSUME PipelineInv
  PROVE  /\ \A t \in optionSkipped : t = Bare("options") \/ \E x : t = Named("options", x)
         /\ \A t \in Layers : t \in {Bare("resolution"), Bare("reputation")}
  BY DEF optionSkipped, Layers

(* A reason as it is told of a finding: with its weight, or zeroed by a    *)
(* rule.                                                                   *)
Told(r, c, rs) ==
  /\ r.code = c
  /\ \/ ~ r.suppressed /\ r.weight = weightFor[c]
     \/ r.suppressed /\ r.weight = 0 /\ \E rule \in rs : Matches(rule, c, InputHost)

(* The reasons of a result, before they are sorted: one for each finding,  *)
(* in order.                                                               *)
LEMMA PlainReasons ==
  ASSUME NEW codes \in Seq(Code)
  PROVE  /\ DOMAIN ReasonsOf(codes) = 1..Len(codes)
         /\ \A k \in 1..Len(codes) : Told(ReasonsOf(codes)[k], codes[k], {})
<1>1. DOMAIN codes = 1..Len(codes)
  OBVIOUS
<1>2. PICK plain : plain = ReasonsOf(codes)
  OBVIOUS
<1>3. plain = [k \in 1..Len(codes) |->
                 [code |-> codes[k], weight |-> weightFor[codes[k]],
                  suppressed |-> FALSE, about |-> InputHost]]
  BY <1>1, <1>2 DEF ReasonsOf, reason
<1>4. DOMAIN plain = 1..Len(codes)
  BY <1>3
<1>5. ASSUME NEW k \in 1..Len(codes) PROVE Told(plain[k], codes[k], {})
  <2>1. plain[k] = [code |-> codes[k], weight |-> weightFor[codes[k]],
                    suppressed |-> FALSE, about |-> InputHost]
    BY <1>3
  <2> QED
    BY <2>1 DEF Told
<1> QED
  BY <1>2, <1>4, <1>5

LEMMA QuietReasons ==
  ASSUME NEW codes \in Seq(Code), NEW rs \in SUBSET Rule
  PROVE  /\ DOMAIN applySuppressions(ReasonsOf(codes), rs, InputHost) = 1..Len(codes)
         /\ \A k \in 1..Len(codes) :
              Told(applySuppressions(ReasonsOf(codes), rs, InputHost)[k], codes[k], rs)
<1>1. PICK plain : plain = ReasonsOf(codes)
  OBVIOUS
<1>2. DOMAIN plain = 1..Len(codes) /\ \A k \in 1..Len(codes) : Told(plain[k], codes[k], {})
  BY <1>1, PlainReasons
<1>3. PICK quiet : quiet = applySuppressions(plain, rs, InputHost)
  OBVIOUS
<1>4. /\ DOMAIN quiet = 1..Len(codes)
      /\ \A k \in 1..Len(codes) :
           quiet[k] = IF \E rule \in rs : Matches(rule, plain[k].code, InputHost)
                      THEN [plain[k] EXCEPT !.weight = 0, !.suppressed = TRUE] ELSE plain[k]
  BY <1>2, <1>3 DEF applySuppressions
<1>5. ASSUME NEW k \in 1..Len(codes) PROVE Told(quiet[k], codes[k], rs)
  <2>1. Told(plain[k], codes[k], {})
    BY <1>2
  <2>2. plain[k] = [code |-> codes[k], weight |-> weightFor[codes[k]],
                    suppressed |-> FALSE, about |-> InputHost]
    <3>1. DOMAIN codes = 1..Len(codes)
      OBVIOUS
    <3>2. plain = [m \in 1..Len(codes) |->
                     [code |-> codes[m], weight |-> weightFor[codes[m]],
                      suppressed |-> FALSE, about |-> InputHost]]
      BY <1>1, <3>1 DEF ReasonsOf, reason
    <3> QED
      BY <3>2
  <2>3. CASE \E rule \in rs : Matches(rule, plain[k].code, InputHost)
    <3>1. PICK y : y = [plain[k] EXCEPT !.weight = 0, !.suppressed = TRUE]
      OBVIOUS
    <3>2. y.code = codes[k] /\ y.weight = 0 /\ y.suppressed
      BY <2>2, <3>1
    <3>3. quiet[k] = y
      BY <1>4, <2>3, <3>1
    <3>4. plain[k].code = codes[k]
      BY <2>2
    <3> QED
      BY <2>3, <3>2, <3>3, <3>4 DEF Told
  <2>4. CASE ~ \E rule \in rs : Matches(rule, plain[k].code, InputHost)
    <3>1. quiet[k] = plain[k]
      BY <1>4, <2>4
    <3> QED
      BY <2>1, <3>1 DEF Told
  <2> QED
    BY <2>3, <2>4
<1> QED
  BY <1>1, <1>3, <1>4, <1>5

LEMMA LossReported == PipelineInv => LossIsReported
<1> SUFFICES ASSUME PipelineInv, Done PROVE LossIsReported
  BY DEF LossIsReported
<1>1. /\ \A t \in optionSkipped : t = Bare("options") \/ \E x : t = Named("options", x)
      /\ Layers = {Bare("resolution"), Bare("reputation")}
  BY OptionTokens DEF Layers
<1>2. /\ ~ raw.usable => Bare("options") \in optionSkipped
      /\ raw.usable => \A k \in raw.dropped : Named("options", k) \in optionSkipped
  BY DEF optionSkipped
<1>3. /\ threw \subseteq skipped
      /\ \A t \in skipped : t = Bare("policy") \/ \E channel, x : t = Named(channel, x)
      /\ Bare("policy") \in skipped => ~ policyRan
  BY DEF PipelineInv, TokensKept
<1>4. /\ Bare("lexical") # Bare("options") /\ Bare("policy") # Bare("options")
      /\ Bare("agent") # Bare("options") /\ Bare("suppression") # Bare("options")
      /\ Bare("lexical") \notin Layers /\ Bare("policy") \notin Layers
      /\ Bare("agent") \notin Layers /\ Bare("suppression") \notin Layers
      /\ Bare("lexical") # Bare("policy") /\ Bare("agent") # Bare("policy")
      /\ Bare("suppression") # Bare("policy")
  BY <1>1, TokensDiffer
<1>5. \A a, c, x : Bare(a) # Named(c, x)
  BY TokensDiffer
<1>6. CASE result = buildInvalidResult(findings)
  <2>1. PICK bare \in {{}, {Bare("lexical")}} :
          /\ result.status = "invalid" /\ result.checksRun = {Bare("lexical")} \ bare
          /\ result.checksSkipped = optionSkipped \cup Layers \cup bare
    BY <1>6 DEF buildInvalidResult
  <2>2. result.checksRun \cap result.checksSkipped = {}
    BY <1>1, <1>4, <1>5, <2>1
  <2> QED
    BY <1>2, <2>1, <2>2 DEF LossIsReported
<1>7. CASE result = buildOkResult(findings)
  <2>1. PICK extra \in SUBSET {Bare("agent"), Bare("suppression")} :
          /\ result.status = "ok"
          /\ result.checksRun = {Bare("lexical")} \cup (IF policyRan THEN {Bare("policy")} ELSE {})
                                  \cup extra
          /\ result.checksSkipped = optionSkipped \cup skipped \cup Layers
    <3> DEFINE extra == (IF agentRan THEN {Bare("agent")} ELSE {}) \cup
                        (IF options.suppress THEN {Bare("suppression")} ELSE {})
    <3>1. extra \in SUBSET {Bare("agent"), Bare("suppression")}
      OBVIOUS
    <3>2. result.checksRun = {Bare("lexical")} \cup (IF policyRan THEN {Bare("policy")} ELSE {})
                               \cup extra
      BY <1>7 DEF buildOkResult
    <3>3. result.status = "ok" /\ result.checksSkipped = optionSkipped \cup skipped \cup Layers
      BY <1>7 DEF buildOkResult
    <3> HIDE DEF extra
    <3> QED
      BY <3>1, <3>2, <3>3
  <2>2. \A t \in result.checksRun : t \notin optionSkipped /\ t \notin Layers
    BY <1>1, <1>4, <1>5, <2>1
  <2>3. \A t \in result.checksRun : t \notin skipped
    BY <1>3, <1>4, <1>5, <2>1
  <2>4. result.checksRun \cap result.checksSkipped = {}
    BY <2>1, <2>2, <2>3
  <2> QED
    BY <1>2, <1>3, <2>1, <2>4 DEF LossIsReported
<1> QED
  BY <1>6, <1>7 DEF PipelineInv, ResultBuilt

(* Sorting keeps every reason and adds none. *)
LEMMA FindingsVisible == PipelineInv => FindingsStayVisible
<1> SUFFICES ASSUME PipelineInv, Done, findings # << >> PROVE FindingsStayVisible
  BY DEF FindingsStayVisible
<1>1. findings \in Seq(Code) /\ raw \in Options
  BY DEF PipelineInv, PipelineTyped
<1>2. options.suppressReasons \in SUBSET Rule
  BY <1>1, ScoringAssumption DEF options, Options, NoOptions
<1>3. options.suppressReasons # {} => options.suppress
  BY <1>1 DEF options, Options, NoOptions
<1>4. PICK n \in Nat \ {0} : n = Len(findings) /\ DOMAIN findings = 1..n
  BY <1>1
<1>5. \A c \in Code : c \in Int /\ weightFor[c] \in 0..Unit /\ weightFor[c] \in Int
  BY ScoringAssumption
<1>6. \A k \in 1..n : findings[k] \in Code
  BY <1>1, <1>4
<1> DEFINE R == IF result.status = "ok" THEN options.suppressReasons ELSE {}
<1>7. R \subseteq options.suppressReasons /\ (R # {} => result.status = "ok" /\ options.suppress)
  BY <1>3
<1>8. PICK s :
        /\ result.reasons = sorted(s) /\ DOMAIN s = 1..n
        /\ result.status = "ok" /\ options.suppress => Bare("suppression") \in result.checksRun
        /\ \A k \in 1..n : Told(s[k], findings[k], R)
  <2>1. CASE result = buildInvalidResult(findings)
    <3>1. result.reasons = sorted(ReasonsOf(findings)) /\ result.status = "invalid"
      BY <2>1 DEF buildInvalidResult
    <3>2. /\ DOMAIN ReasonsOf(findings) = 1..n
          /\ \A k \in 1..n : Told(ReasonsOf(findings)[k], findings[k], {})
      BY <1>1, <1>4, PlainReasons
    <3> QED
      BY <3>1, <3>2
  <2>2. CASE result = buildOkResult(findings)
    <3> DEFINE quiet == applySuppressions(ReasonsOf(findings), options.suppressReasons, InputHost)
    <3>1. result.reasons = sorted(quiet) /\ result.status = "ok"
      BY <2>2 DEF buildOkResult
    <3>2. options.suppress => Bare("suppression") \in result.checksRun
      BY <2>2 DEF buildOkResult
    <3>3. /\ DOMAIN quiet = 1..n
          /\ \A k \in 1..n : Told(quiet[k], findings[k], options.suppressReasons)
      BY <1>1, <1>2, <1>4, QuietReasons
    <3> HIDE DEF quiet
    <3> QED
      BY <3>1, <3>2, <3>3
  <2> QED
    BY <2>1, <2>2 DEF PipelineInv, ResultBuilt
<1> HIDE DEF R
<1>9. \A k \in 1..n : s[k].weight \in Int /\ s[k].code \in Int
  <2> SUFFICES ASSUME NEW k \in 1..n PROVE s[k].weight \in Int /\ s[k].code \in Int
    OBVIOUS
  <2>1. Told(s[k], findings[k], R)
    BY <1>8, Zenon
  <2>2. s[k].code = findings[k] /\ s[k].weight \in {0, weightFor[findings[k]]}
    BY <2>1 DEF Told
  <2> QED
    BY <1>5, <1>6, <2>2
<1>10. PICK p \in [1..n -> 1..n] :
        /\ \A k \in 1..n : \E m \in 1..n : p[m] = k
        /\ sorted(s) = [m \in 1..n |-> s[p[m]]]
        /\ \A k, m \in 1..n : k < m => s[p[k]].weight >= s[p[m]].weight
  BY <1>8, <1>9, SortedIs
<1>11. PICK z : z = [m \in 1..n |-> s[p[m]]]
  OBVIOUS
<1>12. DOMAIN z = 1..n /\ Len(z) = n /\ \A m \in 1..n : p[m] \in 1..n /\ z[m] = s[p[m]]
  <2>1. DOMAIN z = 1..n /\ \A m \in 1..n : p[m] \in 1..n /\ z[m] = s[p[m]]
    BY <1>10, <1>11
  <2>2. Len(z) = n
    BY <1>11
  <2> QED
    BY <2>1, <2>2
<1>13. result.reasons = z
  BY <1>8, <1>10, <1>11
<1>14. {z[k].code : k \in 1..n} = {findings[k] : k \in 1..n}
  <2>1. \A m \in 1..n : z[m].code = findings[p[m]]
    BY <1>8, <1>12 DEF Told
  <2>2. ASSUME NEW k \in 1..n PROVE \E m \in 1..n : z[m].code = findings[k]
    <3>1. PICK m \in 1..n : p[m] = k
      BY <1>10
    <3>2. z[m].code = findings[k]
      BY <2>1, <3>1
    <3> QED
      BY <3>2
  <2>3. \A m \in 1..n : \E k \in 1..n : z[m].code = findings[k]
    BY <1>12, <2>1
  <2>4. ASSUME NEW x PROVE x \in {z[k].code : k \in 1..n} <=> x \in {findings[k] : k \in 1..n}
    <3>1. ASSUME x \in {z[k].code : k \in 1..n} PROVE x \in {findings[k] : k \in 1..n}
      <4>1. PICK m \in 1..n : x = z[m].code
        BY <3>1
      <4>2. PICK k \in 1..n : z[m].code = findings[k]
        BY <2>3
      <4> QED
        BY <4>1, <4>2
    <3>2. ASSUME x \in {findings[k] : k \in 1..n} PROVE x \in {z[k].code : k \in 1..n}
      <4>1. PICK k \in 1..n : x = findings[k]
        BY <3>2
      <4>2. PICK m \in 1..n : z[m].code = findings[k]
        BY <2>2
      <4> QED
        BY <4>1, <4>2
    <3> QED
      BY <3>1, <3>2
  <2> QED
    BY <2>4
<1>15. ASSUME NEW k \in 1..n
      PROVE  IF z[k].suppressed
             THEN /\ z[k].weight = 0
                  /\ Bare("suppression") \in result.checksRun
                  /\ \E rule \in options.suppressReasons : Matches(rule, z[k].code, InputHost)
             ELSE z[k].weight = weightFor[z[k].code]
  <2>1. PICK m \in 1..n : z[k] = s[m] /\ Told(s[m], findings[m], R)
    BY <1>8, <1>12, Zenon
  <2>2. z[k].code = findings[m]
    BY <2>1 DEF Told
  <2>3. CASE ~ z[k].suppressed
    BY <2>1, <2>2, <2>3 DEF Told
  <2>4. CASE z[k].suppressed
    <3>1. z[k].weight = 0 /\ \E rule \in R : Matches(rule, findings[m], InputHost)
      BY <2>1, <2>4 DEF Told
    <3> QED
      BY <1>8, <1>7, <2>2, <2>4, <3>1
  <2> QED
    BY <2>3, <2>4
<1>16. \A k, m \in 1..n : k < m => z[k].weight >= z[m].weight
  <2> SUFFICES ASSUME NEW k \in 1..n, NEW m \in 1..n, k < m
               PROVE  z[k].weight >= z[m].weight
    OBVIOUS
  <2>1. s[p[k]].weight >= s[p[m]].weight
    BY <1>10
  <2> QED
    BY <1>12, <2>1
<1>17. Len(result.reasons) = Len(findings) /\ DOMAIN result.reasons = 1..n
  BY <1>4, <1>12, <1>13
<1>18. {result.reasons[k].code : k \in DOMAIN result.reasons} = ToSet(findings)
  BY <1>4, <1>13, <1>14, <1>17 DEF ToSet
<1> QED
  BY <1>13, <1>15, <1>16, <1>17, <1>18 DEF FindingsStayVisible

(***************************************************************************)
(* For every registry of checks, every set of options and every pattern of *)
(* failures, inspect loses neither a finding nor a failure: see            *)
(* LossIsReported and FindingsStayVisible.                                 *)
(***************************************************************************)
THEOREM NothingDropped == InspectSpec => []NothingIsDropped
<1>1. PipelineInv => NothingIsDropped
  BY LossReported, FindingsVisible DEF NothingIsDropped
<1> QED
  BY <1>1, PipelineBegins, PipelineStep, PTL DEF InspectSpec

-----------------------------------------------------------------------------
(***************************************************************************)
(* The ways in.  Keep lists the chosen positions, each once and no other.  *)
(***************************************************************************)
LEMMA KeptIs ==
  ASSUME NEW n \in Nat, NEW S \in SUBSET (1..n)
  PROVE  /\ Cardinality(S) \in Nat
         /\ \A m \in 1..Cardinality(S) : Nth(S, m) \in S
         /\ \A k \in S : \E m \in 1..Cardinality(S) : Nth(S, m) = k
<1> DEFINE U(k) == {j \in S : j <= k}
<1>1. IsFiniteSet(1..n)
  BY FS_Interval
<1>2. IsFiniteSet(S)
  BY <1>1, FS_Subset
<1>3. PICK c \in Nat : c = Cardinality(S)
  BY <1>2, FS_CardinalityType
<1>4. \A k \in S : IsFiniteSet(U(k)) /\ Cardinality(U(k)) \in Nat /\ Cardinality(U(k)) <= c
  <2> SUFFICES ASSUME NEW k \in S
               PROVE  IsFiniteSet(U(k)) /\ Cardinality(U(k)) \in Nat /\ Cardinality(U(k)) <= c
    OBVIOUS
  <2>1. U(k) \in SUBSET S
    OBVIOUS
  <2> HIDE DEF U
  <2>2. IsFiniteSet(U(k)) /\ Cardinality(U(k)) <= Cardinality(S)
    BY <1>2, <2>1, FS_Subset
  <2> QED
    BY <1>3, <2>2, FS_CardinalityType
<1>5. \A j, k \in S : j < k => Cardinality(U(j)) < Cardinality(U(k))
  <2> SUFFICES ASSUME NEW j \in S, NEW k \in S, j < k
               PROVE  Cardinality(U(j)) < Cardinality(U(k))
    OBVIOUS
  <2>1. U(j) \cup {k} \in SUBSET U(k) /\ k \notin U(j)
    <3>1. \A i \in S : i \in Int
      OBVIOUS
    <3>2. \A i \in S : i <= j => i <= k
      BY <3>1
    <3>3. k <= k /\ ~ (k <= j)
      BY <3>1
    <3> QED
      BY <3>2, <3>3
  <2> HIDE DEF U
  <2>2. Cardinality(U(j) \cup {k}) = Cardinality(U(j)) + 1
    BY <1>4, <2>1, FS_AddElement
  <2>3. Cardinality(U(j) \cup {k}) <= Cardinality(U(k))
    BY <1>4, <2>1, FS_Subset
  <2> QED
    BY <1>4, <2>2, <2>3
<1>6. \A k \in S : Cardinality(U(k)) # 0
  <2> SUFFICES ASSUME NEW k \in S PROVE Cardinality(U(k)) # 0
    OBVIOUS
  <2>1. U(k) # {}
    OBVIOUS
  <2> HIDE DEF U
  <2> QED
    BY <1>4, <2>1, FS_EmptySet
<1> HIDE DEF U
<1>7. PICK g : g = [k \in S |-> Cardinality(U(k))]
  OBVIOUS
<1>8. g \in [S -> 1..c] /\ \A k \in S : g[k] = Cardinality(U(k))
  <2>1. \A k \in S : Cardinality(U(k)) \in 1..c
    BY <1>4, <1>6
  <2> QED
    BY <1>7, <2>1
<1>9. \A j, k \in S : g[j] = g[k] => j = k
  <2> SUFFICES ASSUME NEW j \in S, NEW k \in S, g[j] = g[k], j # k PROVE FALSE
    OBVIOUS
  <2>1. j < k \/ k < j
    OBVIOUS
  <2>2. Cardinality(U(j)) < Cardinality(U(k)) \/ Cardinality(U(k)) < Cardinality(U(j))
    BY <1>5, <2>1
  <2> QED
    BY <1>4, <1>8, <2>2
<1>10. g \in Injection(S, 1..c)
  BY <1>8, <1>9 DEF Injection, IsInjective
<1>11. IsFiniteSet(1..c) /\ Cardinality(1..c) = c
  <2>1. 1 \in Int /\ c \in Int /\ (IF 1 > c THEN 0 ELSE c - 1 + 1) = c
    OBVIOUS
  <2> QED
    BY <2>1, FS_Interval
<1>12. g \in Surjection(S, 1..c)
  BY <1>3, <1>10, <1>11, FS_Injection
<1>13. \A m \in 1..c : \E k \in S : g[k] = m
  BY <1>12 DEF Surjection
<1>14. \A m : Nth(S, m) = CHOOSE k \in S : Cardinality(U(k)) = m
  BY DEF Nth, U
<1>15. \A m \in 1..c : Nth(S, m) \in S /\ g[Nth(S, m)] = m
  <2> SUFFICES ASSUME NEW m \in 1..c PROVE Nth(S, m) \in S /\ g[Nth(S, m)] = m
    OBVIOUS
  <2>1. PICK k \in S : Cardinality(U(k)) = m
    BY <1>8, <1>13
  <2>2. Nth(S, m) \in S /\ Cardinality(U(Nth(S, m))) = m
    BY <1>14, <2>1
  <2> QED
    BY <1>8, <2>2
<1>16. ASSUME NEW k \in S PROVE \E m \in 1..c : Nth(S, m) = k
  <2>1. PICK m \in 1..c : m = g[k]
    BY <1>8
  <2>2. Nth(S, m) \in S /\ g[Nth(S, m)] = g[k]
    BY <1>15, <2>1
  <2>3. Nth(S, m) = k
    BY <1>9, <2>2
  <2> QED
    BY <2>3
<1> QED
  BY <1>3, <1>15, <1>16

(* What a call works on, and what it has found of it. *)
Verdicts == {inspected(line, call) : line \in GivenLine, call \in Calls}

UrlsOf(call, lines) == IF readsText(call) THEN parseUrlLines(lines) ELSE lines

CommandShaped ==
  /\ DOMAIN cmd = {"call", "at", "lines", "urls", "results", "out", "exit"}
  /\ cmd.call \in Calls /\ cmd.at \in {"parse", "inspect", "done"}

Unread ==
  /\ cmd.at # "inspect" /\ cmd.lines = <<>> /\ cmd.results = <<>> /\ cmd.out = <<>>
  /\ cmd.at = "done" => cmd.exit \in {0, 2}

Working ==
  /\ cmd.at # "parse" /\ (readsText(cmd.call) \/ takesArguments(cmd.call))
  /\ cmd.lines \in Seq(GivenLine) /\ cmd.urls = UrlsOf(cmd.call, cmd.lines)
  /\ cmd.results \in Seq(Verdicts) /\ Len(cmd.results) <= Len(cmd.urls)
  /\ \A k \in 1..Len(cmd.results) : cmd.results[k] = inspected(cmd.urls[k], cmd.call)
  /\ cmd.out = IF cmd.call.json /\ cmd.at # "done" THEN <<>> ELSE cmd.results
  /\ cmd.at = "done" =>
       /\ Len(cmd.results) = Len(cmd.urls)
       /\ cmd.exit = resolveExitCode(cmd.results, cmd.call.failOn, cmd.call.allowInvalid)

CommandInv == CommandShaped /\ (Unread \/ Working)

LEMMA TrimIs ==
  ASSUME NEW l \in GivenLine
  PROVE  /\ trimPreservingSignal(l) \in GivenLine
         /\ trimPreservingSignal(l).url = l.url
         /\ keepsSeparator(trimPreservingSignal(l)) <=> keepsSeparator(l)
         /\ skippedLine(trimPreservingSignal(l)) <=> Idle(l)
<1>1. l = [url |-> l.url, pad |-> l.pad] /\ l.url \in DOMAIN verdictOf
      /\ l.pad \in {"none", "space", "leading", "trailing"}
  BY DEF GivenLine
<1>2. CASE l.pad = "space"
  <2>1. PICK y : y = [l EXCEPT !.pad = "none"]
    OBVIOUS
  <2>2. y = [url |-> l.url, pad |-> "none"]
    BY <1>1, <2>1
  <2>3. trimPreservingSignal(l) = y
    BY <1>2, <2>1 DEF trimPreservingSignal
  <2>4. y \in GivenLine /\ y.url = l.url /\ y.pad = "none"
    BY <1>1, <2>2 DEF GivenLine
  <2> QED
    BY <1>2, <2>3, <2>4 DEF skippedLine, Idle, keepsSeparator
<1>3. CASE l.pad # "space"
  <2>1. trimPreservingSignal(l) = l
    BY <1>3 DEF trimPreservingSignal
  <2> QED
    BY <1>1, <1>3, <2>1 DEF skippedLine, Idle
<1> QED
  BY <1>2, <1>3

(* The URLs of a text are its lines that ask for something, trimmed. *)
LEMMA TextUrls ==
  ASSUME NEW lines \in Seq(GivenLine), NEW asked,
         asked = Keep(lines, {n \in DOMAIN lines : ~Idle(lines[n])})
  PROVE  \E c \in Nat :
           /\ Len(asked) = c /\ DOMAIN asked = 1..c
           /\ Len(parseUrlLines(lines)) = c /\ DOMAIN parseUrlLines(lines) = 1..c
           /\ parseUrlLines(lines) \in Seq(GivenLine)
           /\ \A k \in 1..c : /\ asked[k] \in GivenLine
                              /\ parseUrlLines(lines)[k] = trimPreservingSignal(asked[k])
<1>1. PICK n \in Nat : n = Len(lines) /\ DOMAIN lines = 1..n /\ \A k \in 1..n : lines[k] \in GivenLine
  OBVIOUS
<1>2. PICK S \in SUBSET (1..n) : S = {k \in 1..n : ~Idle(lines[k])}
  OBVIOUS
<1>3. PICK t : t = [k \in 1..n |-> trimPreservingSignal(lines[k])]
  OBVIOUS
<1>4. \A k \in 1..n : t[k] = trimPreservingSignal(lines[k])
  BY <1>3
<1>5. \A k \in 1..n : ~skippedLine(t[k]) <=> ~Idle(lines[k])
  BY <1>1, <1>4, TrimIs
<1>6. {k \in 1..n : ~skippedLine(t[k])} = S
  BY <1>2, <1>5
<1>7. parseUrlLines(lines) = Keep(t, S)
  BY <1>1, <1>3, <1>6 DEF parseUrlLines
<1>8. asked = Keep(lines, S)
  BY <1>1, <1>2
<1>9. PICK c \in Nat : c = Cardinality(S) /\ \A m \in 1..c : Nth(S, m) \in S
  BY KeptIs
<1>10. PICK u : u = [m \in 1..c |-> t[Nth(S, m)]]
  OBVIOUS
<1>11. PICK a : a = [m \in 1..c |-> lines[Nth(S, m)]]
  OBVIOUS
<1>12. parseUrlLines(lines) = u /\ asked = a
  BY <1>7, <1>8, <1>9, <1>10, <1>11 DEF Keep
<1>13. \A m \in 1..c : /\ Nth(S, m) \in 1..n
                       /\ a[m] = lines[Nth(S, m)] /\ u[m] = t[Nth(S, m)]
  BY <1>9, <1>10, <1>11
<1>14. \A m \in 1..c : a[m] \in GivenLine /\ u[m] = trimPreservingSignal(a[m])
  BY <1>1, <1>4, <1>13
<1>15. \A m \in 1..c : u[m] \in GivenLine
  BY <1>14, TrimIs
<1>16. DOMAIN u = 1..c /\ DOMAIN a = 1..c /\ u \in [1..c -> GivenLine] /\ a \in [1..c -> GivenLine]
  BY <1>10, <1>11, <1>14, <1>15
<1>17. u \in Seq(GivenLine) /\ Len(u) = c /\ Len(a) = c
  BY <1>16
<1> QED
  BY <1>12, <1>14, <1>16, <1>17

LEMMA UrlsTyped ==
  ASSUME NEW call \in Calls, NEW lines \in Seq(GivenLine)
  PROVE  UrlsOf(call, lines) \in Seq(GivenLine)
<1>1. PICK asked : asked = Keep(lines, {n \in DOMAIN lines : ~Idle(lines[n])})
  OBVIOUS
<1>2. parseUrlLines(lines) \in Seq(GivenLine)
  BY <1>1, TextUrls
<1> QED
  BY <1>2 DEF UrlsOf

LEMMA CommandBegins == CommandInit => CommandInv
<1> SUFFICES ASSUME CommandInit PROVE CommandInv
  OBVIOUS
<1>1. PICK call \in Calls :
        cmd = [call |-> call, at |-> "parse", lines |-> <<>>, urls |-> <<>>, results |-> <<>>,
               out |-> <<>>, exit |-> -1]
  BY DEF CommandInit
<1>2. CommandShaped
  BY <1>1 DEF CommandShaped
<1>3. Unread
  BY <1>1 DEF Unread
<1> QED
  BY <1>2, <1>3 DEF CommandInv

LEMMA CommandStep == CommandInv /\ [CommandNext]_cmd => CommandInv'
<1> SUFFICES ASSUME CommandInv, [CommandNext]_cmd PROVE CommandInv'
  OBVIOUS
<1>0. CommandShaped
  BY DEF CommandInv
<1>1. ASSUME NEW code \in {0, 2}, cmd.at = "parse", Exits(code)
      PROVE  CommandInv'
  <2>1. /\ DOMAIN cmd' = {"call", "at", "lines", "urls", "results", "out", "exit"}
        /\ cmd'.call = cmd.call /\ cmd'.at = "done" /\ cmd'.exit = code
        /\ cmd'.lines = cmd.lines /\ cmd'.results = cmd.results /\ cmd'.out = cmd.out
    BY <1>0, <1>1 DEF Exits, CommandShaped
  <2>2. Unread
    BY <1>1 DEF CommandInv, Working
  <2>3. CommandShaped'
    BY <1>0, <2>1 DEF CommandShaped
  <2>4. Unread'
    BY <1>1, <2>1, <2>2 DEF Unread
  <2> QED
    BY <2>3, <2>4 DEF CommandInv
<1>2. ASSUME NEW lines \in Seq(GivenLine), NEW urls, cmd.at = "parse",
             readsText(cmd.call) \/ takesArguments(cmd.call),
             urls = UrlsOf(cmd.call, lines),
             cmd' = [cmd EXCEPT !.at = "inspect", !.lines = lines, !.urls = urls]
      PROVE  CommandInv'
  <2>1. /\ DOMAIN cmd' = {"call", "at", "lines", "urls", "results", "out", "exit"}
        /\ cmd'.call = cmd.call /\ cmd'.at = "inspect" /\ cmd'.lines = lines
        /\ cmd'.urls = urls /\ cmd'.results = cmd.results /\ cmd'.out = cmd.out
    BY <1>0, <1>2 DEF CommandShaped
  <2>2. cmd.results = <<>> /\ cmd.out = <<>>
    BY <1>2 DEF CommandInv, Working, Unread
  <2>3. CommandShaped'
    BY <1>0, <2>1 DEF CommandShaped
  <2>4. urls \in Seq(GivenLine)
    BY <1>0, <1>2, UrlsTyped DEF CommandShaped
  <2>5. cmd'.results \in Seq(Verdicts) /\ Len(cmd'.results) = 0 /\ Len(cmd'.results) <= Len(urls)
    BY <2>1, <2>2, <2>4
  <2>6. cmd'.out = IF cmd'.call.json /\ cmd'.at # "done" THEN <<>> ELSE cmd'.results
    BY <2>1, <2>2
  <2>7. Working'
    BY <1>2, <2>1, <2>5, <2>6 DEF Working
  <2> QED
    BY <2>3, <2>7 DEF CommandInv
<1>3. CASE UsageFailure \/ HelpOrVersion \/ CannotRead
  BY <1>1, <1>3 DEF UsageFailure, HelpOrVersion, CannotRead
<1>4. CASE ReadsText
  <2>1. PICK text \in Texts :
          cmd' = [cmd EXCEPT !.at = "inspect", !.lines = text, !.urls = parseUrlLines(text)]
    BY <1>4 DEF ReadsText
  <2>2. text \in Seq(GivenLine)
    BY CommandAssumption
  <2>3. cmd.at = "parse" /\ readsText(cmd.call) /\ parseUrlLines(text) = UrlsOf(cmd.call, text)
    BY <1>4 DEF ReadsText, UrlsOf
  <2> QED
    BY <1>2, <2>1, <2>2, <2>3
<1>5. CASE TakesArguments
  <2> DEFINE rest == cmd.call.rest
             given == [n \in DOMAIN rest |-> Argument(rest[n])]
  <2>1. cmd.at = "parse" /\ takesArguments(cmd.call)
        /\ cmd' = [cmd EXCEPT !.at = "inspect", !.lines = given, !.urls = given]
    BY <1>5 DEF TakesArguments
  <2>2. rest \in Seq(DOMAIN verdictOf)
    BY <1>0, <2>1, CommandAssumption DEF CommandShaped
  <2> HIDE DEF rest
  <2>3. PICK m \in Nat : m = Len(rest) /\ DOMAIN rest = 1..m /\ \A k \in 1..m : rest[k] \in DOMAIN verdictOf
    BY <2>2
  <2>4. \A k \in 1..m : Argument(rest[k]) \in GivenLine
    BY <2>3 DEF Argument, GivenLine
  <2>5. given \in [1..m -> GivenLine]
    BY <2>3, <2>4
  <2> HIDE DEF given
  <2>6. given \in Seq(GivenLine)
    BY <2>5
  <2>7. ~readsText(cmd.call)
    BY <2>1 DEF readsText, takesArguments, readsStdin
  <2>8. given = UrlsOf(cmd.call, given)
    BY <2>7 DEF UrlsOf
  <2> QED
    BY <1>2, <2>1, <2>6, <2>8
<1>6. CASE InspectsNext
  <2>1. Working /\ cmd.at = "inspect" /\ Len(cmd.results) < Len(cmd.urls)
    BY <1>6 DEF InspectsNext, CommandInv, Unread
  <2>2. PICK r : r = inspected(cmd.urls[Len(cmd.results) + 1], cmd.call)
    OBVIOUS
  <2>3. cmd' = [cmd EXCEPT !.results = Append(cmd.results, r),
                           !.out = IF cmd.call.json THEN cmd.out ELSE Append(cmd.out, r)]
    BY <1>6, <2>2 DEF InspectsNext
  <2>4. /\ DOMAIN cmd' = {"call", "at", "lines", "urls", "results", "out", "exit"}
        /\ cmd'.call = cmd.call /\ cmd'.at = cmd.at /\ cmd'.lines = cmd.lines
        /\ cmd'.urls = cmd.urls /\ cmd'.results = Append(cmd.results, r)
        /\ cmd'.out = IF cmd.call.json THEN cmd.out ELSE Append(cmd.out, r)
    BY <1>0, <2>3 DEF CommandShaped
  <2>5. PICK m \in Nat : m = Len(cmd.results) /\ m < Len(cmd.urls) /\ cmd.results \in Seq(Verdicts)
    BY <2>1 DEF Working
  <2>6. cmd.urls \in Seq(GivenLine)
    BY <1>0, <2>1, UrlsTyped DEF Working, CommandShaped
  <2>7. m + 1 \in 1..Len(cmd.urls) /\ m + 1 <= Len(cmd.urls)
    BY <2>5, <2>6
  <2>8. r \in Verdicts
    <3>1. cmd.urls[m + 1] \in GivenLine
      BY <2>6, <2>7
    <3> QED
      BY <1>0, <2>2, <2>5, <3>1 DEF Verdicts, CommandShaped
  <2>9. PICK z : z = Append(cmd.results, r)
    OBVIOUS
  <2>10. /\ z \in Seq(Verdicts) /\ Len(z) = m + 1 /\ z[m + 1] = r
         /\ \A k \in 1..m : z[k] = cmd.results[k]
    BY <2>5, <2>8, <2>9
  <2>11. \A k \in 1..(m + 1) : z[k] = inspected(cmd.urls[k], cmd.call)
    <3>1. \A k \in 1..(m + 1) : k \in 1..m \/ k = m + 1
      BY <2>5
    <3>2. \A k \in 1..m : cmd.results[k] = inspected(cmd.urls[k], cmd.call)
      BY <2>1, <2>5 DEF Working
    <3> QED
      BY <2>2, <2>5, <2>10, <3>1, <3>2
  <2>12. cmd'.out = IF cmd'.call.json /\ cmd'.at # "done" THEN <<>> ELSE cmd'.results
    <3>1. cmd.out = IF cmd.call.json THEN <<>> ELSE cmd.results
      BY <2>1 DEF Working
    <3> QED
      BY <2>1, <2>4, <3>1
  <2>13. CommandShaped'
    BY <1>0, <2>4 DEF CommandShaped
  <2>14. cmd'.results = z /\ Len(cmd'.results) = m + 1
    BY <2>4, <2>9, <2>10
  <2>15. Working'
    BY <2>1, <2>4, <2>7, <2>10, <2>11, <2>12, <2>14 DEF Working
  <2> QED
    BY <2>13, <2>15 DEF CommandInv
<1>7. CASE AllInspected
  <2>1. Working /\ cmd.at = "inspect" /\ Len(cmd.results) = Len(cmd.urls)
    BY <1>7 DEF AllInspected, CommandInv, Unread
  <2>2. /\ DOMAIN cmd' = {"call", "at", "lines", "urls", "results", "out", "exit"}
        /\ cmd'.call = cmd.call /\ cmd'.at = "done" /\ cmd'.lines = cmd.lines
        /\ cmd'.urls = cmd.urls /\ cmd'.results = cmd.results
        /\ cmd'.out = IF cmd.call.json THEN cmd.results ELSE cmd.out
        /\ cmd'.exit = resolveExitCode(cmd.results, cmd.call.failOn, cmd.call.allowInvalid)
    BY <1>0, <1>7 DEF AllInspected, CommandShaped
  <2>3. cmd'.out = cmd'.results
    <3>1. cmd.out = IF cmd.call.json THEN <<>> ELSE cmd.results
      BY <2>1 DEF Working
    <3> QED
      BY <2>2, <3>1
  <2>4. CommandShaped'
    BY <1>0, <2>2 DEF CommandShaped
  <2>5. Working'
    BY <2>1, <2>2, <2>3 DEF Working
  <2> QED
    BY <2>4, <2>5 DEF CommandInv
<1>8. CASE UNCHANGED cmd
  BY <1>8 DEF CommandInv, CommandShaped, Unread, Working
<1> QED
  BY <1>3, <1>4, <1>5, <1>6, <1>7, <1>8 DEF CommandNext

-----------------------------------------------------------------------------
(***************************************************************************)
(* The policy.  Trimming a word keeps its name and what was joined to it,  *)
(* so a list of single names is normalized to the names it was meant to    *)
(* hold.                                                                   *)
(***************************************************************************)
LEMMA TrimmedWord ==
  ASSUME NEW v, IsWord(v)
  PROVE  /\ trimListValue(v).name = v.name /\ trimListValue(v).lead = v.lead
         /\ trimListValue(v).joined = v.joined /\ trimListValue(v).pad = FALSE
BY DEF trimListValue, IsWord

LEMMA WordNamed ==
  ASSUME NEW v, IsWord(v)
  PROVE  /\ ~v.joined => normalizeName(trimListValue(v)) = v.name
         /\ normalizeName(trimListValue(v)) \in {Mangled, v.name}
<1>1. PICK t : t = trimListValue(v)
  OBVIOUS
<1>2. t.name = v.name /\ t.joined = v.joined /\ ~t.pad
  BY <1>1, TrimmedWord
<1>3. normalizeName(t) = IF t.pad \/ t.joined THEN Mangled ELSE t.name
  BY DEF normalizeName
<1> QED
  BY <1>1, <1>2, <1>3

LEMMA ListMeant ==
  ASSUME NEW values, \A v \in Elements(values) : IsWord(v) /\ ~v.joined
  PROVE  /\ normalizedList(values).set = Meant(values)
         /\ normalizedList(values).configured <=> values # Undefined
         /\ Meant(values) # {} => values # Undefined
<1>1. \A v \in Elements(values) : normalizeName(trimListValue(v)) = v.name
  BY WordNamed
<1>2. {normalizeName(trimListValue(v)) : v \in Elements(values) \ {NotText}}
        = {v.name : v \in Elements(values) \ {NotText}}
  BY <1>1
<1>3. normalizedList(values).set = Meant(values)
  BY <1>2 DEF normalizedList, Meant
<1>4. normalizedList(values).configured <=> values # Undefined
  BY DEF normalizedList
<1>5. Meant(values) # {} => Elements(values) # {}
  BY DEF Meant
<1>6. values = Undefined => Elements(values) = {}
  BY DEF Elements
<1> QED
  BY <1>3, <1>4, <1>5, <1>6

(* A list of a call that is worked on names one thing per value.           *)
LEMMA SingleNames ==
  ASSUME NEW call \in Calls, readsText(call) \/ takesArguments(call), NEW key \in ListFlags
  PROVE  \A v \in Elements(call.flags[key]) : IsWord(v) /\ ~v.joined
<1> DEFINE given == call.flags[key]
<1>1. /\ call.entry = "cli" => given \notin {Undefined, NotAnArray}
      /\ \A v \in Elements(given) : IsWord(v) /\ (call.entry # "cli" => ~v.joined)
  BY CommandAssumption
<1>2. CASE call.entry # "cli"
  BY <1>1, <1>2
<1>3. CASE call.entry = "cli"
  <2>1. parseCli(call) \in {"check", "batch"}
    BY <1>3 DEF readsText, readsStdin, takesArguments
  <2>2. \A v \in given : assertNotJoined(v)
    BY <2>1 DEF parseCli
  <2>3. Elements(given) = given
    BY <1>1, <1>3 DEF Elements
  <2> HIDE DEF given
  <2>4. \A v \in given : IsWord(v) /\ ~trimListValue(v).joined
    BY <1>1, <2>2, <2>3 DEF assertNotJoined
  <2> QED
    BY <2>3, <2>4, TrimmedWord DEF given
<1> QED
  BY <1>2, <1>3

(* What inspect is handed for a list: the list, an empty one of the        *)
(* command line left out.                                                  *)
LEMMA HandedOn ==
  ASSUME NEW call \in Calls, readsText(call) \/ takesArguments(call), NEW key \in ListFlags,
         NEW handed, handed = inspectOptions(call)[key]
  PROVE  /\ normalizedList(handed).set = Meant(call.flags[key])
         /\ normalizedList(handed).configured <=> handed # Undefined
         /\ call.flags[key] \notin {Undefined, {}} => handed # Undefined
         /\ Meant(call.flags[key]) # {} => handed # Undefined
<1> DEFINE given == call.flags[key]
<1>1. DOMAIN call.flags = ListFlags \cup Switches
  BY CommandAssumption
<1>2. key \notin Switches
  BY DEF ListFlags, Switches
<1>3. handed = given \/ (call.entry = "cli" /\ given = {} /\ handed = Undefined)
  BY <1>1, <1>2 DEF inspectOptions
<1>4. \A v \in Elements(given) : IsWord(v) /\ ~v.joined
  BY SingleNames
<1>5. Meant({}) = {} /\ Meant(Undefined) = {} /\ Elements(Undefined) = {}
  BY DEF Meant, Elements
<1> HIDE DEF given
<1>6. Meant(handed) = Meant(given) /\ \A v \in Elements(handed) : IsWord(v) /\ ~v.joined
  BY <1>3, <1>4, <1>5
<1>7. /\ normalizedList(handed).set = Meant(handed)
      /\ normalizedList(handed).configured <=> handed # Undefined
      /\ Meant(handed) # {} => handed # Undefined
  BY <1>6, ListMeant
<1>8. given \notin {Undefined, {}} => handed # Undefined
  BY <1>3
<1> QED
  BY <1>6, <1>7, <1>8 DEF given

(* An international host is reported exactly when it was not exempted.     *)
LEMMA IdnMeant ==
  ASSUME NEW call \in Calls, readsText(call) \/ takesArguments(call), NEW facts
  PROVE  /\ idnHost(facts, inspectOptions(call)) \in {{}, {"idn_host"}}
         /\ "idn_host" \in idnHost(facts, inspectOptions(call)) <=> UnwantedIdn(facts, call.flags)
<1>1. PICK handedOn : handedOn = inspectOptions(call)
  OBVIOUS
<1>2. handedOn["allowIdn"] = call.flags["allowIdn"]
  <2>1. "allowIdn" \in DOMAIN call.flags /\ "allowIdn" \in Switches
    BY CommandAssumption DEF Switches
  <2> QED
    BY <1>1, <2>1 DEF inspectOptions
<1>3. normalizedList(handedOn["idnAllow"]).set = Meant(call.flags["idnAllow"])
  BY <1>1, HandedOn DEF ListFlags
<1> QED
  BY <1>1, <1>2, <1>3 DEF idnHost, UnwantedIdn

-----------------------------------------------------------------------------
LEMMA Ranks ==
  /\ Range(SEVERITY_ORDER) = {"info", "low", "medium", "high", "critical"}
  /\ severityRank("info") = 1 /\ severityRank("low") = 2 /\ severityRank("medium") = 3
  /\ severityRank("high") = 4 /\ severityRank("critical") = 5
<1>1. /\ DOMAIN SEVERITY_ORDER = 1..5
      /\ SEVERITY_ORDER[1] = "info" /\ SEVERITY_ORDER[2] = "low" /\ SEVERITY_ORDER[3] = "medium"
      /\ SEVERITY_ORDER[4] = "high" /\ SEVERITY_ORDER[5] = "critical"
  BY DEF SEVERITY_ORDER
<1>2. 1..5 = {1, 2, 3, 4, 5}
  OBVIOUS
<1> QED
  BY <1>1, <1>2 DEF severityRank, Range

(* What a failing result says of its line, and a passing one. *)
Fails(r, failOn, allowInvalid) ==
  IF r.status = "invalid" THEN ~allowInvalid
  ELSE severityRank(r.severity) >= severityRank(failOn)

LEMMA FailingIsBad ==
  ASSUME NEW line \in GivenLine, NEW shown \in GivenLine, shown.url = line.url,
         keepsSeparator(shown) <=> keepsSeparator(line),
         isSeverity(cmd.call.failOn), cmd.call \in Calls, cmd.call.entry = "cli",
         readsText(cmd.call) \/ takesArguments(cmd.call)
  PROVE  LET r == inspected(shown, cmd.call)
             failing == Fails(r, cmd.call.failOn, cmd.call.allowInvalid)
         IN  /\ failing => Bad(line)
             /\ ~ failing /\ ~ verdictOf[line.url].agentOnly => ~ Bad(line)
<1> DEFINE r == inspected(shown, cmd.call)
           failing == Fails(r, cmd.call.failOn, cmd.call.allowInvalid)
           found == verdictOf[line.url]
           unwanted == UnwantedIdn(found.facts, cmd.call.flags)
           quiet == found.agentOnly /\ ~agentMode(cmd.call)
<1> SUFFICES (failing => Bad(line)) /\ (~ failing /\ ~ found.agentOnly => ~ Bad(line))
  OBVIOUS
<1>1. line.url \in DOMAIN verdictOf
  BY DEF GivenLine
<1>2. /\ found.severity \in {"info", "low", "medium", "high", "critical"}
      /\ found.blocked \in {"info", "low", "medium", "high", "critical"}
      /\ severityRank(found.blocked) >= severityRank(found.severity)
  BY <1>1, CommandAssumption, Ranks DEF isSeverity
<1>3. cmd.call.failOn \in {"info", "low", "medium", "high", "critical"}
  BY Ranks DEF isSeverity
<1>4. r.status = found.status
  BY DEF inspected
<1>5. r.severity = IF keepsSeparator(line) THEN "critical"
                   ELSE IF unwanted THEN found.blocked
                   ELSE IF quiet THEN "info" ELSE found.severity
  <2>1. PICK idn, quieted : /\ idn = idnHost(found.facts, inspectOptions(cmd.call))
                            /\ quieted = {c \in idn : suppresses(cmd.call.rules, c, found.facts)}
    OBVIOUS
  <2>2. quieted = {}
    <3>1. Elements(cmd.call.rules) = {}
      BY CommandAssumption DEF Elements
    <3>2. \A c : ~suppresses(cmd.call.rules, c, found.facts)
      BY <3>1 DEF suppresses, normalizeSuppressReasons
    <3> QED
      BY <2>1, <3>2
  <2>3. idn # quieted <=> unwanted
    BY <2>1, <2>2, IdnMeant
  <2>4. r.severity = IF keepsSeparator(shown) THEN "critical"
                     ELSE IF idn # quieted THEN found.blocked
                     ELSE IF quiet THEN "info" ELSE found.severity
    BY <2>1 DEF inspected
  <2> HIDE DEF r, found, unwanted, quiet
  <2> QED
    BY <2>3, <2>4
<1>6. Bad(line) <=> IF found.status = "invalid" THEN ~cmd.call.allowInvalid
                    ELSE \/ severityRank(found.severity) >= severityRank(cmd.call.failOn)
                         \/ unwanted /\ severityRank(found.blocked) >= severityRank(cmd.call.failOn)
                         \/ keepsSeparator(line)
  BY DEF Bad, Reaches, keepsSeparator
<1>7. failing <=> IF r.status = "invalid" THEN ~cmd.call.allowInvalid
                  ELSE severityRank(r.severity) >= severityRank(cmd.call.failOn)
  BY DEF Fails
<1>8. quiet => found.agentOnly
  OBVIOUS
<1> HIDE DEF r, failing, found, unwanted, quiet
<1>9. PICK f \in 1..5 : f = severityRank(cmd.call.failOn)
  BY <1>3, Ranks
<1>10. PICK s \in 1..5 : s = severityRank(found.severity)
  BY <1>2, Ranks
<1>11. PICK b \in 1..5 : b = severityRank(found.blocked) /\ b >= s
  BY <1>2, <1>10, Ranks
<1>12. CASE found.status = "invalid"
  BY <1>4, <1>6, <1>7, <1>12
<1>13. CASE found.status # "invalid" /\ keepsSeparator(line)
  BY <1>4, <1>5, <1>6, <1>7, <1>9, <1>13, Ranks
<1>14. CASE found.status # "invalid" /\ ~keepsSeparator(line) /\ unwanted
  BY <1>4, <1>5, <1>6, <1>7, <1>9, <1>10, <1>11, <1>14
<1>15. CASE found.status # "invalid" /\ ~keepsSeparator(line) /\ ~unwanted /\ quiet
  BY <1>4, <1>5, <1>6, <1>7, <1>8, <1>9, <1>10, <1>15, Ranks
<1>16. CASE found.status # "invalid" /\ ~keepsSeparator(line) /\ ~unwanted /\ ~quiet
  BY <1>4, <1>5, <1>6, <1>7, <1>9, <1>10, <1>16
<1> QED
  BY <1>12, <1>13, <1>14, <1>15, <1>16

(* What was asked for stands line by line beside what is inspected. *)
LEMMA AskedIs ==
  ASSUME cmd.lines \in Seq(GivenLine)
  PROVE  \E c \in Nat :
           /\ Len(Asked) = c /\ DOMAIN Asked = 1..c
           /\ Len(UrlsOf(cmd.call, cmd.lines)) = c
           /\ \A k \in 1..c :
                /\ Asked[k] \in GivenLine /\ UrlsOf(cmd.call, cmd.lines)[k] \in GivenLine
                /\ UrlsOf(cmd.call, cmd.lines)[k].url = Asked[k].url
                /\ keepsSeparator(UrlsOf(cmd.call, cmd.lines)[k]) <=> keepsSeparator(Asked[k])
<1>1. CASE readsText(cmd.call)
  <2>1. Asked = Keep(cmd.lines, {n \in DOMAIN cmd.lines : ~Idle(cmd.lines[n])})
        /\ UrlsOf(cmd.call, cmd.lines) = parseUrlLines(cmd.lines)
    BY <1>1 DEF Asked, UrlsOf
  <2>2. PICK asked : asked = Asked
    OBVIOUS
  <2>3. PICK c \in Nat :
           /\ Len(asked) = c /\ DOMAIN asked = 1..c
           /\ Len(parseUrlLines(cmd.lines)) = c
           /\ \A k \in 1..c : /\ asked[k] \in GivenLine
                              /\ parseUrlLines(cmd.lines)[k] = trimPreservingSignal(asked[k])
    BY <2>1, <2>2, TextUrls
  <2>4. \A k \in 1..c : /\ parseUrlLines(cmd.lines)[k] \in GivenLine
                        /\ parseUrlLines(cmd.lines)[k].url = asked[k].url
                        /\ keepsSeparator(parseUrlLines(cmd.lines)[k]) <=> keepsSeparator(asked[k])
    BY <2>3, TrimIs
  <2> QED
    BY <2>1, <2>2, <2>3, <2>4
<1>2. CASE ~readsText(cmd.call)
  <2>1. Asked = cmd.lines /\ UrlsOf(cmd.call, cmd.lines) = cmd.lines
    BY <1>2 DEF Asked, UrlsOf
  <2>2. PICK c \in Nat : c = Len(cmd.lines) /\ DOMAIN cmd.lines = 1..c
                         /\ \A k \in 1..c : cmd.lines[k] \in GivenLine
    OBVIOUS
  <2> QED
    BY <2>1, <2>2
<1> QED
  BY <1>1, <1>2

(* The exit code of a command that inspected something: one of its         *)
(* results fails, and so does the line it stands for.                      *)
LEMMA WorkingEarned ==
  ASSUME CommandShaped, Working, cmd.at = "done", cmd.call.entry = "cli"
  PROVE  ExitIsEarned
<1> DEFINE results == cmd.results
           fails(r) == Fails(r, cmd.call.failOn, cmd.call.allowInvalid)
<1>1. PICK c \in Nat :
           /\ Len(Asked) = c /\ DOMAIN Asked = 1..c /\ Len(cmd.urls) = c
           /\ \A k \in 1..c :
                /\ Asked[k] \in GivenLine /\ cmd.urls[k] \in GivenLine
                /\ cmd.urls[k].url = Asked[k].url
                /\ keepsSeparator(cmd.urls[k]) <=> keepsSeparator(Asked[k])
  BY AskedIs DEF Working
<1>2. isSeverity(cmd.call.failOn)
  <2>1. parseCli(cmd.call) \in {"check", "batch"}
    BY DEF Working, readsText, readsStdin, takesArguments
  <2> QED
    BY <2>1 DEF parseCli
<1>3. /\ results \in Seq(Verdicts) /\ Len(results) = c /\ cmd.out = results
      /\ \A k \in 1..c : results[k] = inspected(cmd.urls[k], cmd.call)
      /\ cmd.exit = resolveExitCode(results, cmd.call.failOn, cmd.call.allowInvalid)
  BY <1>1 DEF Working
<1>4. DOMAIN results = 1..c
  BY <1>3
<1>5. Range(results) = {results[k] : k \in 1..c}
  BY <1>4 DEF Range
<1>6. cmd.exit = IF \E r \in Range(results) : fails(r) THEN 1 ELSE 0
  BY <1>3 DEF resolveExitCode, Fails
<1>7. \A k \in 1..c : /\ fails(results[k]) => Bad(Asked[k])
                      /\ ~fails(results[k]) /\ ~verdictOf[Asked[k].url].agentOnly => ~Bad(Asked[k])
  <2>1. cmd.call \in Calls /\ (readsText(cmd.call) \/ takesArguments(cmd.call))
    BY DEF CommandShaped, Working
  <2> QED
    BY <1>1, <1>2, <1>3, <2>1, FailingIsBad
<1> HIDE DEF fails, results
<1>8. cmd.exit = 0 => \A k \in 1..c : ~fails(results[k])
  BY <1>5, <1>6
<1>9. cmd.exit = 1 => \E k \in 1..c : fails(results[k])
  BY <1>5, <1>6
<1>10. cmd.exit # 2
  BY <1>6
<1>11. cmd.exit = 0 =>
         \A n \in DOMAIN Asked \ {m \in DOMAIN Asked : verdictOf[Asked[m].url].agentOnly} :
           ~Bad(Asked[n])
  BY <1>1, <1>7, <1>8
<1>12. cmd.exit = 1 => \E n \in DOMAIN Asked : Bad(Asked[n])
  BY <1>1, <1>7, <1>9
<1>13. cmd.out = cmd.results /\ Len(Asked) = Len(cmd.results)
  BY <1>1, <1>3 DEF results
<1> QED
  BY <1>10, <1>11, <1>12, <1>13 DEF ExitIsEarned

(* The exit codes of every command line call are earned, for every set of  *)
(* calls and texts and whatever inspect says of a URL (USAGE in args.ts,   *)
(* run in cli.ts, resolveExitCode in policy.ts).                           *)
THEOREM ExitEarned == CommandSpec => []ExitIsEarned
<1>1. CommandInv => ExitIsEarned
  <2> SUFFICES ASSUME CommandInv, cmd.at = "done", cmd.call.entry = "cli" PROVE ExitIsEarned
    BY DEF ExitIsEarned
  <2>1. CASE Unread
    <3>1. cmd.lines = <<>> /\ cmd.results = <<>> /\ cmd.out = <<>> /\ cmd.exit \in {0, 2}
      BY <2>1 DEF Unread
    <3>2. cmd.lines \in Seq(GivenLine) /\ DOMAIN cmd.lines = {} /\ Len(cmd.lines) = 0
      BY <3>1
    <3>3. DOMAIN Asked = {} /\ Len(Asked) = 0
      <4>1. CASE readsText(cmd.call)
        <5>1. {n \in DOMAIN cmd.lines : ~Idle(cmd.lines[n])} = {}
          BY <3>2
        <5>2. Asked = Keep(cmd.lines, {})
          BY <4>1, <5>1 DEF Asked
        <5>3. Asked = [n \in 1..0 |-> cmd.lines[Nth({}, n)]]
          BY <5>2, FS_EmptySet DEF Keep
        <5>4. PICK c \in Nat : Len(Asked) = c /\ DOMAIN Asked = 1..c
          BY <3>2, AskedIs
        <5>5. DOMAIN Asked = 1..0 /\ 1..0 = {}
          BY <5>3
        <5>6. c = 0
          BY <5>4, <5>5
        <5> QED
          BY <5>4, <5>5, <5>6
      <4>2. CASE ~readsText(cmd.call)
        BY <3>2, <4>2 DEF Asked
      <4> QED
        BY <4>1, <4>2
    <3>4. Len(cmd.results) = 0
      BY <3>1
    <3> QED
      BY <3>1, <3>3, <3>4 DEF ExitIsEarned
  <2>2. CASE Working
    BY <2>2, WorkingEarned DEF CommandInv
  <2> QED
    BY <2>1, <2>2 DEF CommandInv
<1> QED
  BY <1>1, CommandBegins, CommandStep, PTL DEF CommandSpec

-----------------------------------------------------------------------------
LEMMA ListHandedOn ==
  ASSUME NEW call \in Calls, readsText(call) \/ takesArguments(call),
         NEW key \in POLICY_OPTION_KEYS, NEW handedOn, handedOn = inspectOptions(call)
  PROVE  /\ normalizePolicyOptions(handedOn)[key].set = Meant(call.flags[key])
         /\ call.flags[key] \notin {Undefined, {}} => normalizePolicyOptions(handedOn)[key].configured
         /\ normalizePolicyOptions(handedOn)[key].configured => handedOn[key] # Undefined
         /\ Meant(call.flags[key]) # {} => handedOn[key] # Undefined
<1>1. key \in ListFlags
  BY DEF POLICY_OPTION_KEYS, ListFlags
<1>2. normalizePolicyOptions(handedOn)[key] = normalizedList(handedOn[key])
  BY DEF normalizePolicyOptions
<1> QED
  BY <1>1, <1>2, HandedOn

(* One axis with a deny-list and an allow-list. *)
LEMMA AxisRestricts ==
  ASSUME NEW call \in Calls, readsText(call) \/ takesArguments(call),
         NEW denies \in POLICY_OPTION_KEYS, NEW allows \in POLICY_OPTION_KEYS,
         NEW handedOn, handedOn = inspectOptions(call),
         NEW deny, deny = normalizePolicyOptions(handedOn)[denies],
         NEW allow, allow = normalizePolicyOptions(handedOn)[allows],
         NEW fact, NEW denied, NEW notAllowed,
         Restricts(fact, call.flags[denies], call.flags[allows])
  PROVE  /\ policyConfigured(handedOn)
         /\ \E c \in {denied, notAllowed} : c \in Listed(fact, deny, allow, denied, notAllowed)
<1>1. /\ deny.set = Meant(call.flags[denies])
      /\ Meant(call.flags[denies]) # {} => handedOn[denies] # Undefined
  BY ListHandedOn
<1>2. /\ allow.set = Meant(call.flags[allows])
      /\ call.flags[allows] \notin {Undefined, {}} => allow.configured
      /\ allow.configured => handedOn[allows] # Undefined
  BY ListHandedOn
<1>3. /\ fact # NoFact
      /\ fact \in Meant(call.flags[denies])
         \/ (call.flags[allows] \notin {Undefined, {}} /\ fact \notin Meant(call.flags[allows]))
  BY DEF Restricts
<1>4. fact \in deny.set \/ (allow.configured /\ fact \notin allow.set)
  BY <1>1, <1>2, <1>3
<1>5. handedOn[denies] # Undefined \/ handedOn[allows] # Undefined
  BY <1>1, <1>2, <1>3
<1>6. policyConfigured(handedOn)
  BY <1>5 DEF policyConfigured
<1>7. Listed(fact, deny, allow, denied, notAllowed)
        = {c \in {denied, notAllowed} :
             \/ c = denied /\ fact \in deny.set
             \/ c = notAllowed /\ allow.configured /\ fact \notin allow.set}
  BY <1>3 DEF Listed
<1>8. \E c \in {denied, notAllowed} : c \in Listed(fact, deny, allow, denied, notAllowed)
  BY <1>4, <1>7
<1> QED
  BY <1>6, <1>8

(* A suppression that applies was meant for this host or for every host. *)
LEMMA SuppressionMeant ==
  ASSUME NEW call \in Calls, NEW facts, facts.domain # Mangled,
         suppresses(call.rules, "idn_host", facts)
  PROVE  \E rule \in Elements(call.rules) :
           /\ rule.code.name = "idn_host"
           /\ \/ rule.host = NotText \/ (rule.host.name = "" /\ ~rule.host.lead)
              \/ rule.host.name = facts.domain
<1>1. PICK r \in normalizeSuppressReasons(call.rules) :
        r.code = "idn_host" /\ r.host \in {AllHosts, facts.domain}
  BY DEF suppresses
<1>2. PICK rule \in Elements(call.rules) :
        r = [code |-> normalizeName(trimListValue(rule.code)), host |-> normalizedHost(rule.host)]
  BY DEF normalizeSuppressReasons
<1>3. IsWord(rule.code) /\ IsWord(rule.host) /\ rule.host.name # AllHosts
  BY CommandAssumption
<1>4. normalizeName(trimListValue(rule.code)) = "idn_host"
      /\ normalizedHost(rule.host) \in {AllHosts, facts.domain}
  BY <1>1, <1>2
<1>5. rule.code.name = "idn_host"
  <2>1. normalizeName(trimListValue(rule.code)) \in {Mangled, rule.code.name}
    BY <1>3, WordNamed
  <2> QED
    BY <1>4, <2>1 DEF Mangled
<1>6. ASSUME rule.host # NotText, ~(rule.host.name = "" /\ ~rule.host.lead)
      PROVE  rule.host.name = facts.domain
  <2>1. PICK t : t = trimListValue(rule.host)
    OBVIOUS
  <2>2. t.name = rule.host.name /\ t.lead = rule.host.lead
    BY <1>3, <2>1, TrimmedWord
  <2>3. normalizedHost(rule.host) = normalizeName(t)
    BY <1>6, <2>1, <2>2 DEF normalizedHost
  <2>4. normalizeName(t) \in {Mangled, rule.host.name}
    BY <1>3, <2>1, WordNamed
  <2>5. Mangled # AllHosts
    BY DEF Mangled, AllHosts
  <2> QED
    BY <1>3, <1>4, <2>3, <2>4, <2>5
<1> QED
  BY <1>5, <1>6

(* What is in force for one URL, stated of what inspect says of it. *)
Enforced(r, call) ==
  LET f == call.flags
  IN  /\ Restricts(r.facts.tld, f.denyTlds, f.allowTlds) =>
           r.codes \cap {"tld_denied", "tld_not_allowlisted"} # {}
      /\ Restricts(r.facts.domain, f.denyHosts, f.allowHosts) =>
           r.codes \cap {"host_denied", "host_not_allowlisted"} # {}
      /\ Restricts(r.facts.scheme, f.denySchemes, f.allowSchemes) =>
           "scheme_denied" \in r.codes
      /\ r.facts.port # NoFact /\ r.facts.port \in Meant(f.denyPorts) =>
           "port_denied" \in r.codes
      /\ "idn_host" \in r.codes <=> UnwantedIdn(r.facts, f)
      /\ "idn_host" \in r.suppressed =>
           \E rule \in Elements(call.rules) :
             /\ rule.code.name = "idn_host"
             /\ \/ rule.host = NotText \/ (rule.host.name = "" /\ ~rule.host.lead)
                \/ rule.host.name = r.facts.domain

LEMMA InForce ==
  ASSUME NEW call \in Calls, readsText(call) \/ takesArguments(call), NEW line \in GivenLine,
         NEW r, r = inspected(line, call), r.status = "ok"
  PROVE  Enforced(r, call)
<1> DEFINE f == call.flags
<1>1. PICK found : found = verdictOf[line.url]
  OBVIOUS
<1>2. PICK handedOn : handedOn = inspectOptions(call)
  OBVIOUS
<1>3. PICK facts : facts = found.facts /\ facts.domain # Mangled
  BY <1>1, CommandAssumption DEF GivenLine
<1>4. PICK idn, policies :
        /\ idn = idnHost(facts, handedOn) /\ policies = policyFindings(facts, handedOn)
        /\ r.facts = facts /\ r.codes = idn \cup policies
        /\ r.suppressed = {c \in idn : suppresses(call.rules, c, facts)}
  <2>1. r.status = found.status
    BY <1>1 DEF inspected
  <2>2. found.status # "invalid"
    BY <2>1
  <2> QED
    BY <1>1, <1>2, <1>3, <2>2 DEF inspected
<1>5. PICK policy : policy = normalizePolicyOptions(handedOn)
  OBVIOUS
<1>6. policyConfigured(handedOn) =>
        policies = runTldAxis(facts, policy) \cup runHostAxis(facts, policy)
                   \cup runSchemeAxis(facts, policy)
                   \cup runPortAxis(facts, policy, handedOn.denyNonStandardPorts)
  BY <1>4, <1>5 DEF policyFindings
<1>7. POLICY_OPTION_KEYS = {"denyTlds", "allowTlds", "denyHosts", "allowHosts", "denySchemes",
                            "allowSchemes", "denyPorts"}
  BY DEF POLICY_OPTION_KEYS
<1>8. ASSUME Restricts(facts.tld, f["denyTlds"], f["allowTlds"])
      PROVE  r.codes \cap {"tld_denied", "tld_not_allowlisted"} # {}
  <2>1. PICK deny, allow : deny = policy["denyTlds"] /\ allow = policy["allowTlds"]
    OBVIOUS
  <2>2. /\ policyConfigured(handedOn)
        /\ \E c \in {"tld_denied", "tld_not_allowlisted"} :
             c \in Listed(facts.tld, deny, allow, "tld_denied", "tld_not_allowlisted")
    BY <1>2, <1>5, <1>7, <1>8, <2>1, AxisRestricts
  <2> QED
    BY <1>4, <1>6, <2>1, <2>2 DEF runTldAxis
<1>9. ASSUME Restricts(facts.domain, f["denyHosts"], f["allowHosts"])
      PROVE  r.codes \cap {"host_denied", "host_not_allowlisted"} # {}
  <2>1. PICK deny, allow : deny = policy["denyHosts"] /\ allow = policy["allowHosts"]
    OBVIOUS
  <2>2. /\ policyConfigured(handedOn)
        /\ \E c \in {"host_denied", "host_not_allowlisted"} :
             c \in Listed(facts.domain, deny, allow, "host_denied", "host_not_allowlisted")
    BY <1>2, <1>5, <1>7, <1>9, <2>1, AxisRestricts
  <2> QED
    BY <1>4, <1>6, <2>1, <2>2 DEF runHostAxis
<1>10. ASSUME Restricts(facts.scheme, f["denySchemes"], f["allowSchemes"])
       PROVE  "scheme_denied" \in r.codes
  <2>1. PICK deny, allow : deny = policy["denySchemes"] /\ allow = policy["allowSchemes"]
    OBVIOUS
  <2>2. /\ policyConfigured(handedOn)
        /\ \E c \in {"scheme_denied", "scheme_denied"} :
             c \in Listed(facts.scheme, deny, allow, "scheme_denied", "scheme_denied")
    BY <1>2, <1>5, <1>7, <1>10, <2>1, AxisRestricts
  <2> QED
    BY <1>4, <1>6, <2>1, <2>2 DEF runSchemeAxis
<1>11. ASSUME facts.port # NoFact, facts.port \in Meant(f["denyPorts"])
       PROVE  "port_denied" \in r.codes
  <2>1. /\ policy["denyPorts"].set = Meant(f["denyPorts"]) /\ handedOn["denyPorts"] # Undefined
    BY <1>2, <1>5, <1>7, <1>11, ListHandedOn
  <2>2. policyConfigured(handedOn)
    BY <2>1 DEF policyConfigured, POLICY_OPTION_KEYS
  <2>3. runPortAxis(facts, policy, handedOn.denyNonStandardPorts) = {"port_denied"}
    BY <1>11, <2>1 DEF runPortAxis
  <2> QED
    BY <1>4, <1>6, <2>2, <2>3
<1>12. ASSUME "idn_host" \in r.suppressed
       PROVE  \E rule \in Elements(call.rules) :
                /\ rule.code.name = "idn_host"
                /\ \/ rule.host = NotText \/ (rule.host.name = "" /\ ~rule.host.lead)
                   \/ rule.host.name = facts.domain
  BY <1>3, <1>4, <1>12, SuppressionMeant
<1>13. "idn_host" \in r.codes <=> UnwantedIdn(facts, f)
  <2>1. "idn_host" \in idn <=> UnwantedIdn(facts, f)
    BY <1>2, <1>4, IdnMeant
  <2>2. "idn_host" \notin policies
    <3>1. \A fact, deny, allow, denied, notAllowed :
            Listed(fact, deny, allow, denied, notAllowed) \subseteq {denied, notAllowed}
      BY DEF Listed
    <3>2. runPortAxis(facts, policy, handedOn.denyNonStandardPorts) \subseteq {"port_denied"}
      BY DEF runPortAxis
    <3> QED
      BY <1>4, <1>5, <1>6, <3>1, <3>2
        DEF policyFindings, runTldAxis, runHostAxis, runSchemeAxis
  <2> QED
    BY <1>4, <2>1, <2>2
<1> QED
  BY <1>4, <1>8, <1>9, <1>10, <1>11, <1>12, <1>13 DEF Enforced

(* Every restriction that was typed and accepted is in force on every URL  *)
(* of every call, through the command line, the library and the MCP tools  *)
(* (parseCli, inspectOptions, normalizePolicyOptions and the axes).        *)
THEOREM PolicyEnforced == CommandSpec => []PolicyInForce
<1>1. CommandInv => PolicyInForce
  <2> SUFFICES ASSUME CommandInv, NEW n \in DOMAIN cmd.results, cmd.results[n].status = "ok"
               PROVE  Enforced(cmd.results[n], cmd.call)
    BY DEF PolicyInForce, Enforced
  <2>1. Working
    <3>1. cmd.results # <<>>
      OBVIOUS
    <3> QED
      BY <3>1 DEF CommandInv, Unread
  <2>2. PICK call \in Calls : call = cmd.call
    BY DEF CommandInv, CommandShaped
  <2>3. PICK line \in GivenLine : cmd.results[n] = inspected(line, call)
    <3>1. cmd.urls \in Seq(GivenLine)
      BY <2>1, <2>2, UrlsTyped DEF Working
    <3>2. cmd.results \in Seq(Verdicts) /\ Len(cmd.results) <= Len(cmd.urls)
      BY <2>1 DEF Working
    <3>3. n \in 1..Len(cmd.results) /\ n \in 1..Len(cmd.urls)
      BY <3>1, <3>2
    <3>4. cmd.results[n] = inspected(cmd.urls[n], call)
      BY <2>1, <2>2, <3>3 DEF Working
    <3>5. cmd.urls[n] \in GivenLine
      BY <3>1, <3>3
    <3> QED
      BY <3>4, <3>5
  <2>4. readsText(call) \/ takesArguments(call)
    BY <2>1, <2>2 DEF Working
  <2>5. PICK r : r = cmd.results[n] /\ r.status = "ok"
    OBVIOUS
  <2> QED
    BY <2>2, <2>3, <2>4, <2>5, InForce
<1> QED
  BY <1>1, CommandBegins, CommandStep, PTL DEF CommandSpec

-----------------------------------------------------------------------------
(***************************************************************************)
(* Folds.  A fold takes the positions of a list in whatever order CHOOSE   *)
(* has them; a set of numbers has a least one, and a family of finite sets *)
(* a smallest one, which is the induction these proofs need.               *)
(***************************************************************************)
LEMMA LeastNumber ==
  ASSUME NEW T \in SUBSET Nat, T # {}
  PROVE  \E n \in T : \A m \in T : m >= n
<1>1. PICK n \in T : \A m \in T : ~ (<<m, n>> \in OpToRel(<, Nat))
  BY NatLessThanWellFounded, WFMin
<1>2. ASSUME NEW m \in T PROVE m >= n
  <2>1. m \in Nat /\ n \in Nat
    OBVIOUS
  <2>2. ~ (<<m, n>> \in OpToRel(<, Nat))
    BY <1>1
  <2>3. ~ (m < n)
    BY <2>1, <2>2 DEF OpToRel
  <2> QED
    BY <2>1, <2>3
<1> QED
  BY <1>2

LEMMA SmallestSet ==
  ASSUME NEW D, IsFiniteSet(D), NEW F \in SUBSET SUBSET D, F # {}
  PROVE  \E S \in F : \A x \in S : S \ {x} \notin F
<1> DEFINE Sizes == {Cardinality(S) : S \in F}
<1>1. \A S \in SUBSET D : IsFiniteSet(S) /\ Cardinality(S) \in Nat
  BY FS_Subset, FS_CardinalityType
<1>2. Sizes \in SUBSET Nat /\ Sizes # {}
  BY <1>1
<1>3. PICK n \in Sizes : \A m \in Sizes : m >= n
  <2> HIDE DEF Sizes
  <2> QED
    BY <1>2, LeastNumber
<1>4. PICK S \in F : Cardinality(S) = n
  BY <1>3
<1>5. ASSUME NEW x \in S, S \ {x} \in F PROVE FALSE
  <2>1. Cardinality(S \ {x}) = Cardinality(S) - 1 /\ Cardinality(S) \in Nat
    BY <1>1, FS_RemoveElement
  <2>2. Cardinality(S \ {x}) >= Cardinality(S)
    BY <1>3, <1>4, <1>5
  <2> QED
    BY <2>1, <2>2
<1> QED
  BY <1>5

Pick(S) == CHOOSE x \in S : TRUE

(* Folds one step after another: step[i] is what position i does.          *)
Folds(g, D, start, step) ==
  \A S \in SUBSET D : g[S] = IF S = {} THEN start ELSE step[Pick(S)][g[S \ {Pick(S)}]]

Folding(g, D, V, start, step) ==
  /\ IsFiniteSet(D) /\ start \in V /\ step \in [D -> [V -> V]]
  /\ g \in [SUBSET D -> V] /\ Folds(g, D, start, step)

LEMMA FoldExists ==
  ASSUME NEW D, IsFiniteSet(D), NEW V, NEW start \in V, NEW step \in [D -> [V -> V]]
  PROVE  \E g \in [SUBSET D -> V] : Folds(g, D, start, step)
<1> DEFINE Upto(n) == {S \in SUBSET D : Cardinality(S) <= n}
           Good(n) == \E g \in [Upto(n) -> V] :
                        \A S \in Upto(n) :
                          g[S] = IF S = {} THEN start ELSE step[Pick(S)][g[S \ {Pick(S)}]]
           Wrong == {n \in Nat : ~ Good(n)}
<1>1. \A S \in SUBSET D : IsFiniteSet(S) /\ Cardinality(S) \in Nat /\ Cardinality(S) <= Cardinality(D)
  BY FS_Subset, FS_CardinalityType
<1>2. \A S \in SUBSET D : S # {} => Pick(S) \in S /\ Cardinality(S \ {Pick(S)}) = Cardinality(S) - 1
  BY <1>1, FS_RemoveElement DEF Pick
<1>3. Wrong = {}
  <2> SUFFICES ASSUME Wrong # {} PROVE FALSE
    OBVIOUS
  <2>1. PICK n \in Wrong : \A m \in Wrong : m >= n
    <3>1. Wrong \in SUBSET Nat
      OBVIOUS
    <3> HIDE DEF Wrong
    <3> QED
      BY <3>1, LeastNumber
  <2>2. CASE n = 0
    <3>1. \A S \in Upto(0) : S = {}
      BY <1>1, FS_EmptySet
    <3>2. PICK g : g = [S \in Upto(0) |-> start]
      OBVIOUS
    <3>3. g \in [Upto(0) -> V] /\ \A S \in Upto(0) : g[S] = start
      BY <3>2
    <3> HIDE DEF Upto
    <3>4. \A S \in Upto(0) : g[S] = IF S = {} THEN start ELSE step[Pick(S)][g[S \ {Pick(S)}]]
      BY <3>1, <3>3
    <3>5. Good(0)
      BY <3>3, <3>4
    <3> QED
      BY <2>1, <2>2, <3>5
  <2>3. CASE n # 0
    <3>1. n \in Nat /\ n - 1 \in Nat /\ ~ (n - 1 >= n)
      BY <2>3
    <3>2. Good(n - 1)
      BY <2>1, <3>1
    <3>3. PICK g \in [Upto(n - 1) -> V] :
            \A S \in Upto(n - 1) :
              g[S] = IF S = {} THEN start ELSE step[Pick(S)][g[S \ {Pick(S)}]]
      BY <3>2
    <3>4. \A S \in Upto(n) : S # {} => Pick(S) \in D /\ S \ {Pick(S)} \in Upto(n - 1)
      BY <1>1, <1>2, <3>1
    <3>5. Upto(n - 1) \subseteq Upto(n)
      BY <1>1, <3>1
    <3> HIDE DEF Upto
    <3>6. PICK h : h = [S \in Upto(n) |-> IF S = {} THEN start
                                          ELSE step[Pick(S)][g[S \ {Pick(S)}]]]
      OBVIOUS
    <3>7. \A S \in Upto(n) : h[S] = IF S = {} THEN start ELSE step[Pick(S)][g[S \ {Pick(S)}]]
      BY <3>6
    <3>8. ASSUME NEW S \in Upto(n) PROVE h[S] \in V
      <4>1. CASE S = {}
        BY <3>7, <4>1
      <4>2. CASE S # {}
        <5>1. step[Pick(S)] \in [V -> V] /\ g[S \ {Pick(S)}] \in V
          BY <3>3, <3>4, <4>2
        <5> QED
          BY <3>7, <4>2, <5>1
      <4> QED
        BY <4>1, <4>2
    <3>9. \A S \in Upto(n - 1) : h[S] = g[S]
      BY <3>3, <3>5, <3>7
    <3>10. \A S \in Upto(n) : h[S] = IF S = {} THEN start ELSE step[Pick(S)][h[S \ {Pick(S)}]]
      BY <3>4, <3>7, <3>9
    <3>11. h \in [Upto(n) -> V]
      BY <3>6, <3>8
    <3>12. Good(n)
      BY <3>10, <3>11
    <3> QED
      BY <2>1, <3>12
  <2> QED
    BY <2>2, <2>3
<1>4. Cardinality(D) \in Nat
  BY FS_CardinalityType
<1>5. Good(Cardinality(D))
  BY <1>3, <1>4
<1>6. Upto(Cardinality(D)) = SUBSET D
  BY <1>1
<1> HIDE DEF Upto
<1> QED
  BY <1>5, <1>6 DEF Folds

(* When the order does not matter, any position may be the last one.       *)
Commutes(D, V, step) ==
  \A i, j \in D : \A v \in V : step[i][step[j][v]] = step[j][step[i][v]]

AnyLast(g, D, step) == \A S \in SUBSET D : \A x \in S : g[S] = step[x][g[S \ {x}]]

LEMMA FoldAnyLast ==
  ASSUME NEW D, NEW V, NEW start, NEW step, NEW g, Folding(g, D, V, start, step),
         Commutes(D, V, step)
  PROVE  AnyLast(g, D, step)
<1>0. /\ IsFiniteSet(D) /\ start \in V /\ step \in [D -> [V -> V]]
      /\ g \in [SUBSET D -> V] /\ Folds(g, D, start, step)
  BY DEF Folding
<1> DEFINE Wrong == {S \in SUBSET D : \E x \in S : g[S] # step[x][g[S \ {x}]]}
<1> SUFFICES ASSUME Wrong # {} PROVE FALSE
  BY DEF AnyLast
<1>1. PICK S \in Wrong : \A x \in S : S \ {x} \notin Wrong
  <2>1. Wrong \in SUBSET SUBSET D
    OBVIOUS
  <2> HIDE DEF Wrong
  <2> QED
    BY <1>0, <2>1, SmallestSet
<1>2. PICK x \in S : g[S] # step[x][g[S \ {x}]]
  OBVIOUS
<1>3. PICK p : p = Pick(S)
  OBVIOUS
<1>4. p \in S /\ x \in D /\ p \in D /\ S \in SUBSET D
  BY <1>3 DEF Pick
<1>5. g[S] = step[p][g[S \ {p}]]
  BY <1>0, <1>3, <1>4 DEF Folds
<1>6. x # p
  BY <1>2, <1>5
<1>7. PICK R \in SUBSET D : R = (S \ {p}) \ {x}
  BY <1>4
<1>8. g[S \ {p}] = step[x][g[R]]
  <2>1. S \ {p} \notin Wrong /\ x \in S \ {p} /\ S \ {p} \in SUBSET D
    BY <1>1, <1>4, <1>6
  <2> QED
    BY <1>7, <2>1
<1>9. g[S \ {x}] = step[p][g[R]]
  <2>1. S \ {x} \notin Wrong /\ p \in S \ {x} /\ S \ {x} \in SUBSET D /\ (S \ {x}) \ {p} = R
    BY <1>1, <1>4, <1>6, <1>7
  <2> QED
    BY <2>1
<1> HIDE DEF Wrong
<1>10. g[R] \in V
  BY <1>0
<1>11. step[p][step[x][g[R]]] = step[x][step[p][g[R]]]
  BY <1>4, <1>10 DEF Commutes
<1> QED
  BY <1>2, <1>5, <1>8, <1>9, <1>11

(* The same steps at other positions come to the same.                     *)
Moves(at, D, E, step, other) ==
  /\ at \in [D -> E] /\ \A i, j \in D : at[i] = at[j] => i = j
  /\ \A i \in D : other[at[i]] = step[i]

AgreeOnMoved(g, h, at, D) == \A S \in SUBSET D : h[{at[i] : i \in S}] = g[S]

LEMMA FoldMoves ==
  ASSUME NEW D, NEW E, NEW V, NEW start, NEW step, NEW other, NEW g, NEW h,
         Folding(g, D, V, start, step), Folding(h, E, V, start, other),
         Commutes(E, V, other),
         NEW at, Moves(at, D, E, step, other)
  PROVE  AgreeOnMoved(g, h, at, D)
<1>0. AnyLast(h, E, other)
  BY FoldAnyLast
<1>a. IsFiniteSet(D) /\ Folds(g, D, start, step) /\ Folds(h, E, start, other)
  BY DEF Folding
<1>b. /\ at \in [D -> E] /\ \A i, j \in D : at[i] = at[j] => i = j
      /\ \A i \in D : other[at[i]] = step[i]
  BY DEF Moves
<1> DEFINE Image(S) == {at[i] : i \in S}
           Wrong == {S \in SUBSET D : h[Image(S)] # g[S]}
<1> SUFFICES ASSUME Wrong # {} PROVE FALSE
  BY DEF AgreeOnMoved
<1>1. PICK S \in Wrong : \A x \in S : S \ {x} \notin Wrong
  <2>1. Wrong \in SUBSET SUBSET D
    OBVIOUS
  <2> HIDE DEF Wrong
  <2> QED
    BY <1>a, <2>1, SmallestSet
<1>2. S \in SUBSET D /\ h[Image(S)] # g[S] /\ Image(S) \in SUBSET E
  BY <1>b
<1>3. S # {}
  <2> SUFFICES ASSUME S = {} PROVE FALSE
    OBVIOUS
  <2>1. Image(S) = {} /\ {} \in SUBSET D /\ {} \in SUBSET E
    OBVIOUS
  <2>2. h[{}] = start /\ g[{}] = start
    BY <1>a, <2>1 DEF Folds
  <2> QED
    BY <1>2, <2>1, <2>2
<1>4. PICK p \in S : p = Pick(S)
  BY <1>3 DEF Pick
<1>5. g[S] = step[p][g[S \ {p}]]
  BY <1>a, <1>2, <1>3, <1>4 DEF Folds
<1>6. g[S \ {p}] = h[Image(S \ {p})]
  BY <1>1, <1>2
<1>7. Image(S \ {p}) = Image(S) \ {at[p]} /\ at[p] \in Image(S)
  BY <1>2, <1>b
<1> HIDE DEF Image, Wrong
<1>8. h[Image(S)] = other[at[p]][h[Image(S) \ {at[p]}]]
  BY <1>0, <1>2, <1>7 DEF AnyLast
<1> QED
  BY <1>2, <1>4, <1>5, <1>6, <1>7, <1>8, <1>b

-----------------------------------------------------------------------------
(***************************************************************************)
(* The score of a list of reasons, as a fold of fractions.                 *)
(***************************************************************************)
Fraction == [num : Nat, den : Nat \ {0}]
Whole == [num |-> 1, den |-> 1]

Weighs(reasons) == [k \in DOMAIN reasons |-> [v \in Fraction |-> Multiply(reasons[k], v)]]

LEMMA UnitIs == Unit \in Nat \ {0} /\ \A w \in 0..Unit : Unit - w \in Nat /\ Unit - w <= Unit
  BY ScoringAssumption

LEMMA ProductsCommute ==
  ASSUME NEW a \in Nat, NEW b \in Nat, NEW c \in Nat
  PROVE  /\ a * b \in Nat /\ (a * b) * c = (a * c) * b
         /\ a # 0 /\ b # 0 => a * b # 0
         /\ b <= c => a * b <= a * c
  OBVIOUS

LEMMA MultiplyIs ==
  ASSUME NEW r \in Reason, NEW v \in Fraction
  PROVE  /\ Multiply(r, v) \in Fraction
         /\ \E w \in 0..Unit : \E u \in Nat \ {0} :
              w <= u /\ \A x \in Fraction : Multiply(r, x) = [num |-> x.num * w, den |-> x.den * u]
<1>1. r.weight \in 0..Unit /\ Unit \in Nat \ {0}
  BY ScoringAssumption DEF Reason
<1>2. \E w \in 0..Unit : \E u \in Nat \ {0} :
         w <= u /\ \A x \in Fraction : Multiply(r, x) = [num |-> x.num * w, den |-> x.den * u]
  <2>1. CASE r.weight <= 0
    <3>1. \A x \in Fraction : Multiply(r, x) = [num |-> x.num * 1, den |-> x.den * 1]
      <4>1. \A x \in Fraction : x.num * 1 = x.num /\ x.den * 1 = x.den /\ x = [num |-> x.num, den |-> x.den]
        BY DEF Fraction
      <4> QED
        BY <2>1, <4>1 DEF Multiply
    <3>2. 1 \in 0..Unit /\ 1 \in Nat \ {0} /\ 1 <= 1
      BY <1>1
    <3> QED
      BY <3>1, <3>2
  <2>2. CASE ~ (r.weight <= 0)
    <3>1. \A x \in Fraction : Multiply(r, x) = [num |-> x.num * (Unit - r.weight), den |-> x.den * Unit]
      BY <2>2 DEF Multiply
    <3>2. Unit - r.weight \in 0..Unit /\ Unit - r.weight <= Unit
      BY <1>1
    <3> QED
      BY <1>1, <3>1, <3>2
  <2> QED
    BY <2>1, <2>2
<1>3. Multiply(r, v) \in Fraction
  <2>1. PICK w \in 0..Unit, u \in Nat \ {0} : Multiply(r, v) = [num |-> v.num * w, den |-> v.den * u]
    BY <1>2
  <2>2. w \in Nat /\ v.num \in Nat /\ v.den \in Nat \ {0}
    BY <1>1 DEF Fraction
  <2>3. v.num * w \in Nat /\ v.den * u \in Nat \ {0}
    BY <2>2, ProductsCommute
  <2> QED
    BY <2>1, <2>3 DEF Fraction
<1> QED
  BY <1>2, <1>3

LEMMA WeighsCommutes ==
  ASSUME NEW reasons \in Seq(Reason)
  PROVE  /\ Weighs(reasons) \in [DOMAIN reasons -> [Fraction -> Fraction]]
         /\ Commutes(DOMAIN reasons, Fraction, Weighs(reasons))
         /\ Whole \in Fraction
<1>1. \A k \in DOMAIN reasons : reasons[k] \in Reason
  OBVIOUS
<1>2. Weighs(reasons) \in [DOMAIN reasons -> [Fraction -> Fraction]]
  BY <1>1, MultiplyIs DEF Weighs
<1>3. Whole \in Fraction
  BY DEF Whole, Fraction
<1>4. ASSUME NEW i \in DOMAIN reasons, NEW j \in DOMAIN reasons, NEW v \in Fraction
      PROVE  Weighs(reasons)[i][Weighs(reasons)[j][v]] = Weighs(reasons)[j][Weighs(reasons)[i][v]]
  <2>1. PICK w \in 0..Unit, u \in Nat \ {0} :
          \A x \in Fraction : Multiply(reasons[i], x) = [num |-> x.num * w, den |-> x.den * u]
    BY <1>1, MultiplyIs
  <2>2. PICK p \in 0..Unit, q \in Nat \ {0} :
          \A x \in Fraction : Multiply(reasons[j], x) = [num |-> x.num * p, den |-> x.den * q]
    BY <1>1, MultiplyIs
  <2>3. Multiply(reasons[i], v) \in Fraction /\ Multiply(reasons[j], v) \in Fraction
    BY <1>1, MultiplyIs
  <2>4. Weighs(reasons)[i][Weighs(reasons)[j][v]] = Multiply(reasons[i], Multiply(reasons[j], v))
    BY <2>3 DEF Weighs
  <2>5. Weighs(reasons)[j][Weighs(reasons)[i][v]] = Multiply(reasons[j], Multiply(reasons[i], v))
    BY <2>3 DEF Weighs
  <2>6. Multiply(reasons[i], Multiply(reasons[j], v)) = [num |-> (v.num * p) * w, den |-> (v.den * q) * u]
    <3>1. Multiply(reasons[j], v) = [num |-> v.num * p, den |-> v.den * q]
      BY <2>2
    <3> QED
      BY <2>1, <2>3, <3>1
  <2>7. Multiply(reasons[j], Multiply(reasons[i], v)) = [num |-> (v.num * w) * p, den |-> (v.den * u) * q]
    <3>1. Multiply(reasons[i], v) = [num |-> v.num * w, den |-> v.den * u]
      BY <2>1
    <3> QED
      BY <2>2, <2>3, <3>1
  <2>8. v.num \in Nat /\ v.den \in Nat /\ w \in Nat /\ p \in Nat
    BY UnitIs DEF Fraction
  <2>9. (v.num * p) * w = (v.num * w) * p /\ (v.den * q) * u = (v.den * u) * q
    BY <2>8, ProductsCommute
  <2> QED
    BY <2>4, <2>5, <2>6, <2>7, <2>9
<1> QED
  BY <1>2, <1>3, <1>4 DEF Commutes

LEMMA ScoreFold ==
  ASSUME NEW reasons \in Seq(Reason)
  PROVE  \E g : /\ Folding(g, DOMAIN reasons, Fraction, Whole, Weighs(reasons))
                /\ LET inverse == g[DOMAIN reasons]
                   IN  score(reasons) = [num |-> inverse.den - inverse.num, den |-> inverse.den]
<1> DEFINE D == DOMAIN reasons
           start == Whole
           Iter(f) == f = [S \in SUBSET D |->
                             IF S = {} THEN start
                             ELSE Multiply(reasons[CHOOSE x \in S : TRUE],
                                           f[S \ {CHOOSE x \in S : TRUE}])]
<1>1. IsFiniteSet(D)
  <2>1. D = 1..Len(reasons) /\ Len(reasons) \in Nat
    OBVIOUS
  <2> QED
    BY <2>1, FS_Interval
<1>2. PICK g \in [SUBSET D -> Fraction] : Folds(g, D, Whole, Weighs(reasons))
  BY <1>1, WeighsCommutes, FoldExists
<1>3. Folding(g, D, Fraction, Whole, Weighs(reasons))
  BY <1>1, <1>2, WeighsCommutes DEF Folding
<1>4. Iter(g)
  <2>1. ASSUME NEW S \in SUBSET D, S # {}
        PROVE  g[S] = Multiply(reasons[Pick(S)], g[S \ {Pick(S)}])
    <3>1. Pick(S) \in D
      BY <2>1 DEF Pick
    <3>2. g[S] = Weighs(reasons)[Pick(S)][g[S \ {Pick(S)}]]
      BY <1>2, <2>1 DEF Folds
    <3>3. g[S \ {Pick(S)}] \in Fraction
      BY <1>2
    <3> QED
      BY <3>1, <3>2, <3>3 DEF Weighs
  <2>2. \A S \in SUBSET D : g[S] = IF S = {} THEN start ELSE Multiply(reasons[Pick(S)], g[S \ {Pick(S)}])
    BY <1>2, <2>1 DEF Folds
  <2>3. g = [S \in SUBSET D |-> IF S = {} THEN start ELSE Multiply(reasons[Pick(S)], g[S \ {Pick(S)}])]
    BY <2>2
  <2> HIDE DEF start, D
  <2> QED
    BY <2>3 DEF Pick
<1>5. PICK f : f = CHOOSE h : Iter(h)
  OBVIOUS
<1>6. Iter(f)
  <2> HIDE DEF Iter
  <2> QED
    BY <1>4, <1>5
<1>7. f[D] = FoldSeq(Multiply, [num |-> 1, den |-> 1], reasons)
  BY <1>5 DEF FoldSeq, FoldFunction, FoldFunctionOnSet, MapThenFoldSet, Whole
<1>8. f = g
  <2> DEFINE Wrong == {S \in SUBSET D : f[S] # g[S]}
  <2> SUFFICES ASSUME Wrong # {} PROVE FALSE
    BY <1>2, <1>6
  <2>1. PICK S \in Wrong : \A x \in S : S \ {x} \notin Wrong
    <3>1. Wrong \in SUBSET SUBSET D
      OBVIOUS
    <3> HIDE DEF Wrong, D
    <3> QED
      BY <1>1, <3>1, SmallestSet
  <2>2. PICK p : p = CHOOSE x \in S : TRUE
    OBVIOUS
  <2>3. \A h : Iter(h) => h[S] = IF S = {} THEN start ELSE Multiply(reasons[p], h[S \ {p}])
    <3> SUFFICES ASSUME NEW h, Iter(h)
                 PROVE  h[S] = IF S = {} THEN start ELSE Multiply(reasons[p], h[S \ {p}])
      OBVIOUS
    <3> HIDE DEF start, D
    <3> QED
      BY <2>2
  <2>4. S # {} => f[S \ {p}] = g[S \ {p}]
    BY <2>1, <2>2
  <2> HIDE DEF Iter
  <2>5. f[S] = g[S]
    BY <1>4, <1>6, <2>3, <2>4
  <2> QED
    BY <2>1, <2>5
<1> QED
  BY <1>3, <1>7, <1>8 DEF score

LEMMA FractionShrinks ==
  ASSUME NEW n \in Nat, NEW d \in Nat, NEW m \in Nat, NEW e \in Nat, NEW w \in Nat, NEW u \in Nat,
         m * d <= n * e, w <= u
  PROVE  (m * w) * d <= n * (e * u)
<1>1. (m * w) * d = (m * d) * w
  BY ProductsCommute
<1>2. PICK a \in Nat : a = m * d
  BY ProductsCommute
<1>3. PICK b \in Nat : b = n * e
  BY ProductsCommute
<1>4. a * w <= a * u
  BY ProductsCommute
<1>5. u * a <= u * b
  BY <1>2, <1>3, ProductsCommute
<1>6. a * u = u * a /\ b * u = u * b /\ a * w \in Nat /\ a * u \in Nat /\ b * u \in Nat
  OBVIOUS
<1>7. a * w <= b * u
  BY <1>4, <1>5, <1>6
<1>8. (n * e) * u = n * (e * u)
  OBVIOUS
<1> QED
  BY <1>1, <1>2, <1>3, <1>7, <1>8

LEMMA ComplementGrows ==
  ASSUME NEW n \in Nat, NEW d \in Nat, NEW m \in Nat, NEW e \in Nat, m * d <= n * e
  PROVE  (d - n) * e <= (e - m) * d
<1>1. (d - n) * e = d * e - n * e /\ (e - m) * d = e * d - m * d /\ d * e = e * d
  OBVIOUS
<1>2. d * e \in Int /\ n * e \in Int /\ m * d \in Int
  OBVIOUS
<1> QED
  BY <1>1, <1>2

LEMMA FoldShrinks ==
  ASSUME NEW reasons \in Seq(Reason), NEW g,
         Folding(g, DOMAIN reasons, Fraction, Whole, Weighs(reasons)),
         NEW S \in SUBSET DOMAIN reasons
  PROVE  LET T == DOMAIN reasons IN g[T].num * g[S].den <= g[S].num * g[T].den
<1> DEFINE D == DOMAIN reasons
           Wrong == {R \in SUBSET (D \ S) :
                       ~ (g[S \cup R].num * g[S].den <= g[S].num * g[S \cup R].den)}
<1>1. IsFiniteSet(D) /\ g \in [SUBSET D -> Fraction] /\ AnyLast(g, D, Weighs(reasons))
  BY FoldAnyLast, WeighsCommutes DEF Folding
<1>2. Wrong = {}
  <2> SUFFICES ASSUME Wrong # {} PROVE FALSE
    OBVIOUS
  <2>1. PICK R \in Wrong : \A x \in R : R \ {x} \notin Wrong
    <3>1. Wrong \in SUBSET SUBSET D
      OBVIOUS
    <3> HIDE DEF Wrong, D
    <3> QED
      BY <1>1, <3>1, SmallestSet
  <2>2. R \in SUBSET (D \ S) /\ S \cup R \in SUBSET D
    OBVIOUS
  <2>3. ~ (g[S \cup R].num * g[S].den <= g[S].num * g[S \cup R].den)
    OBVIOUS
  <2>4. g[S].num \in Nat /\ g[S].den \in Nat
    BY <1>1 DEF Fraction
  <2>5. PICK n \in Nat, d \in Nat : n = g[S].num /\ d = g[S].den
    BY <2>4
  <2>6. R # {}
    <3> SUFFICES ASSUME R = {} PROVE FALSE
      OBVIOUS
    <3>1. S \cup R = S
      OBVIOUS
    <3>2. ~ (n * d <= n * d) /\ n * d \in Nat
      BY <2>3, <2>5, <3>1, ProductsCommute
    <3> QED
      BY <3>2
  <2>7. PICK x : x \in R
    BY <2>6
  <2>8. PICK Q \in SUBSET D : Q = S \cup (R \ {x}) /\ (S \cup R) \ {x} = Q
    BY <2>2, <2>7
  <2>9. g[Q].num * g[S].den <= g[S].num * g[Q].den
    <3>1. R \ {x} \notin Wrong /\ R \ {x} \in SUBSET (D \ S)
      BY <2>1, <2>2, <2>7
    <3> QED
      BY <2>8, <3>1
  <2> HIDE DEF Wrong
  <2>10. x \in D /\ reasons[x] \in Reason /\ g[Q] \in Fraction
    BY <1>1, <2>2, <2>7
  <2>11. g[S \cup R] = Multiply(reasons[x], g[Q])
    <3>1. g[S \cup R] = Weighs(reasons)[x][g[(S \cup R) \ {x}]]
      BY <1>1, <2>2, <2>7 DEF AnyLast
    <3> QED
      BY <2>8, <2>10, <3>1 DEF Weighs
  <2>12. PICK w \in 0..Unit, u \in Nat \ {0} :
           w <= u /\ Multiply(reasons[x], g[Q]) = [num |-> g[Q].num * w, den |-> g[Q].den * u]
    BY <2>10, MultiplyIs
  <2>13. PICK m \in Nat, e \in Nat : m = g[Q].num /\ e = g[Q].den
    BY <2>10 DEF Fraction
  <2>14. g[S \cup R].num = m * w /\ g[S \cup R].den = e * u
    BY <2>11, <2>12, <2>13
  <2>15. w \in Nat /\ u \in Nat
    BY UnitIs
  <2>16. (m * w) * d <= n * (e * u)
    BY <2>5, <2>9, <2>12, <2>13, <2>15, FractionShrinks
  <2> QED
    BY <2>3, <2>5, <2>14, <2>16
<1>3. D \ S \notin Wrong /\ D \ S \in SUBSET (D \ S) /\ S \cup (D \ S) = D
  BY <1>2
<1> QED
  BY <1>3

(***************************************************************************)
(* A list that holds every reason of another one, wherever it has them,    *)
(* has no lower score: the order does not matter, and a further reason     *)
(* only multiplies the product by at most 1.                               *)
(***************************************************************************)
LEMMA ScoreGrows ==
  ASSUME NEW s \in Seq(Reason), NEW t \in Seq(Reason),
         NEW at \in [DOMAIN s -> DOMAIN t], \A i, j \in DOMAIN s : at[i] = at[j] => i = j,
         \A i \in DOMAIN s : t[at[i]] = s[i]
  PROVE  AtMostScore(score(s), score(t))
<1> DEFINE D == DOMAIN s
           E == DOMAIN t
           Image == {at[i] : i \in D}
<1>1. PICK g : /\ Folding(g, D, Fraction, Whole, Weighs(s))
               /\ score(s) = [num |-> g[D].den - g[D].num, den |-> g[D].den]
  BY ScoreFold
<1>2. PICK h : /\ Folding(h, E, Fraction, Whole, Weighs(t))
               /\ score(t) = [num |-> h[E].den - h[E].num, den |-> h[E].den]
  BY ScoreFold
<1>3. \A i \in D : Weighs(t)[at[i]] = Weighs(s)[i]
  BY DEF Weighs
<1>4. h[Image] = g[D]
  <2>1. Commutes(E, Fraction, Weighs(t))
    BY WeighsCommutes
  <2>2. Moves(at, D, E, Weighs(s), Weighs(t))
    BY <1>3 DEF Moves
  <2>3. AgreeOnMoved(g, h, at, D)
    BY <1>1, <1>2, <2>1, <2>2, FoldMoves
  <2> QED
    BY <2>3 DEF AgreeOnMoved
<1>5. h[E].num * h[Image].den <= h[Image].num * h[E].den
  <2>1. Image \in SUBSET E
    OBVIOUS
  <2> QED
    BY <1>2, <2>1, FoldShrinks
<1>6. PICK n \in Nat, d \in Nat : n = g[D].num /\ d = g[D].den
  BY <1>1 DEF Folding, Fraction
<1>7. PICK m \in Nat, e \in Nat : m = h[E].num /\ e = h[E].den
  BY <1>2 DEF Folding, Fraction
<1>8. m * d <= n * e
  BY <1>4, <1>5, <1>6, <1>7
<1>9. (d - n) * e <= (e - m) * d
  BY <1>8, ComplementGrows
<1> QED
  BY <1>1, <1>2, <1>6, <1>7, <1>9 DEF AtMostScore

(* Sorting and suppressing lists of reasons.                               *)
LEMMA SortedRearranges ==
  ASSUME NEW n \in Nat, NEW s, DOMAIN s = 1..n, \A k \in 1..n : s[k] \in Reason
  PROVE  \E p \in [1..n -> 1..n] :
           /\ \A k \in 1..n : \E m \in 1..n : p[m] = k
           /\ sorted(s) = [m \in 1..n |-> s[p[m]]]
<1>1. \A r \in Reason : r.weight \in 0..Unit /\ r.code \in Code
  BY DEF Reason
<1>2. \A w \in 0..Unit : w \in Int
  OBVIOUS
<1>3. \A c \in Code : c \in Int
  BY ScoringAssumption
<1>4. \A k \in 1..n : s[k].weight \in Int /\ s[k].code \in Int
  BY <1>1, <1>2, <1>3, Zenon
<1>5. PICK p \in [1..n -> 1..n] :
        /\ \A k \in 1..n : \E m \in 1..n : p[m] = k
        /\ sorted(s) = [m \in 1..n |-> s[p[m]]]
        /\ \A k, m \in 1..n : k < m => s[p[k]].weight >= s[p[m]].weight
  BY <1>4, SortedIs
<1> QED
  BY <1>5

LEMMA SortedKeeps ==
  ASSUME NEW s \in Seq(Reason)
  PROVE  /\ sorted(s) \in Seq(Reason)
         /\ ToSet(sorted(s)) = ToSet(s)
         /\ \E at \in [DOMAIN s -> DOMAIN sorted(s)] :
              /\ \A i, j \in DOMAIN s : at[i] = at[j] => i = j
              /\ \A i \in DOMAIN s : sorted(s)[at[i]] = s[i]
<1>1. PICK n \in Nat : DOMAIN s = 1..n
  OBVIOUS
<1>2. \A k \in 1..n : s[k] \in Reason
  BY <1>1
<1>4. PICK p \in [1..n -> 1..n] :
        /\ \A k \in 1..n : \E m \in 1..n : p[m] = k
        /\ sorted(s) = [m \in 1..n |-> s[p[m]]]
  BY <1>1, <1>2, SortedRearranges
<1>5. sorted(s) \in [1..n -> Reason]
  BY <1>2, <1>4
<1>6. \A m \in 1..n : p[m] \in 1..n /\ sorted(s)[m] = s[p[m]]
  BY <1>4
<1>7. DOMAIN sorted(s) = 1..n
  BY <1>4
<1> DEFINE find(k) == CHOOSE m \in 1..n : p[m] = k
<1>8. \A k \in 1..n : find(k) \in 1..n /\ p[find(k)] = k
  BY <1>4
<1>9. PICK at : at = [k \in 1..n |-> find(k)]
  OBVIOUS
<1>10. /\ at \in [1..n -> 1..n] /\ \A i \in 1..n : p[at[i]] = i
  BY <1>8, <1>9
<1>11. \A i, j \in 1..n : at[i] = at[j] => i = j
  BY <1>10
<1>12. \A i \in 1..n : sorted(s)[at[i]] = s[i]
  BY <1>6, <1>10
<1>13. sorted(s) \in Seq(Reason)
  BY <1>5
<1>14. ToSet(sorted(s)) = ToSet(s)
  <2>1. ToSet(s) = {s[k] : k \in 1..n} /\ ToSet(sorted(s)) = {sorted(s)[k] : k \in 1..n}
    BY <1>1, <1>7 DEF ToSet
  <2>2. \A k \in 1..n : \E m \in 1..n : sorted(s)[m] = s[k]
    BY <1>10, <1>12
  <2>3. \A m \in 1..n : \E k \in 1..n : sorted(s)[m] = s[k]
    BY <1>6
  <2> QED
    BY <2>1, <2>2, <2>3, Zenon
<1> QED
  BY <1>1, <1>7, <1>10, <1>11, <1>12, <1>13, <1>14

LEMMA SuppressKeeps ==
  ASSUME NEW s \in Seq(Reason), NEW rs, NEW host
  PROVE  applySuppressions(s, rs, host) \in Seq(Reason)
<1>1. PICK n \in Nat : DOMAIN s = 1..n
  OBVIOUS
<1>2. ASSUME NEW r \in Reason
      PROVE  [r EXCEPT !.weight = 0, !.suppressed = TRUE] \in Reason
  <2>1. 0 \in 0..Unit
    BY ScoringAssumption
  <2> QED
    BY <2>1 DEF Reason
<1>3. \A k \in 1..n : s[k] \in Reason
  BY <1>1
<1>4. PICK q : q = applySuppressions(s, rs, host)
  OBVIOUS
<1>5. q = [k \in 1..n |-> IF \E rule \in rs : Matches(rule, s[k].code, host)
                          THEN [s[k] EXCEPT !.weight = 0, !.suppressed = TRUE] ELSE s[k]]
  BY <1>1, <1>4 DEF applySuppressions
<1>6. q \in [1..n -> Reason]
  BY <1>2, <1>3, <1>5
<1> QED
  BY <1>4, <1>6

LEMMA PlainIsReason ==
  ASSUME NEW c \in Code, NEW host \in Host
  PROVE  reason(c, host) \in Reason
  BY ScoringAssumption DEF reason, Reason

LEMMA ReasonsListed ==
  ASSUME NEW codes \in Seq(Code)
  PROVE  ReasonsOf(codes) \in Seq(Reason)
<1>1. PICK n \in Nat : DOMAIN codes = 1..n
  OBVIOUS
<1>2. \A k \in 1..n : reason(codes[k], InputHost) \in Reason
  BY <1>1, PlainIsReason, ScoringAssumption
<1>3. PICK q : q = ReasonsOf(codes)
  OBVIOUS
<1>4. q \in [1..n -> Reason]
  BY <1>1, <1>2, <1>3 DEF ReasonsOf
<1> QED
  BY <1>3, <1>4

(* A list that another one begins with has no higher score.                *)
LEMMA PrefixScoresLess ==
  ASSUME NEW s \in Seq(Reason), NEW t \in Seq(Reason)
  PROVE  AtMostScore(score(s), score(s \o t))
<1>0. s \o t \in Seq(Reason)
  OBVIOUS
<1>1. PICK st \in Seq(Reason) : st = s \o t
  BY <1>0
<1>2. PICK at : at = [i \in DOMAIN s |-> i]
  OBVIOUS
<1>3. at \in [DOMAIN s -> DOMAIN st] /\ \A i \in DOMAIN s : at[i] = i /\ st[i] = s[i]
  BY <1>1, <1>2
<1>4. \A i, j \in DOMAIN s : at[i] = at[j] => i = j
  BY <1>3
<1>5. \A i \in DOMAIN s : st[at[i]] = s[i]
  BY <1>3
<1> QED
  BY <1>1, <1>3, <1>4, <1>5, ScoreGrows

-----------------------------------------------------------------------------
(***************************************************************************)
(* The score of a verdict is a lower bound.  One more fact is needed: what *)
(* threw with a name is a check of the registry, so what it might have     *)
(* found is a finite set of codes.                                         *)
(***************************************************************************)
ThrewChecks == \A t \in threw : Len(t) = 2 => t[2] \in CheckIds

LEMMA ListIsFinite ==
  ASSUME NEW S, NEW list \in Seq(S)
  PROVE  IsFiniteSet(ToSet(list))
<1>1. PICK n \in Nat : DOMAIN list = 1..n
  OBVIOUS
<1>2. IsFiniteSet(1..n)
  BY FS_Interval
<1>3. PICK f : f = [k \in 1..n |-> list[k]]
  OBVIOUS
<1>4. f \in Surjection(1..n, ToSet(list))
  <2>1. ToSet(list) = {list[k] : k \in 1..n}
    BY <1>1 DEF ToSet
  <2>2. \A k \in 1..n : f[k] = list[k]
    BY <1>3
  <2>3. f \in [1..n -> ToSet(list)]
    BY <1>3, <2>1
  <2>4. \A x \in ToSet(list) : \E k \in 1..n : f[k] = x
    BY <2>1, <2>2
  <2> QED
    BY <2>3, <2>4 DEF Surjection
<1> QED
  BY <1>2, <1>4, FS_Surjection

LEMMA ChecksAreFinite == IsFiniteSet(CheckIds)
<1>1. IsFiniteSet(ToSet(Scans)) /\ IsFiniteSet(ToSet(Detectors)) /\ IsFiniteSet(ToSet(Axes))
  BY InspectAssumption, ListIsFinite
<1> QED
  BY <1>1, FS_Union DEF CheckIds

LEMMA ListOfCodes ==
  ASSUME NEW S \in SUBSET Code, IsFiniteSet(S)
  PROVE  SetToSeq(S) \in Seq(Code)
<1>1. PICK n \in Nat : n = Cardinality(S) /\ ExistsBijection(1..n, S)
  BY FS_CardinalityType
<1>2. \E f \in [1..n -> S] : IsInjective(f)
  BY <1>1 DEF ExistsBijection, Bijection, Injection
<1>3. SetToSeq(S) \in [1..n -> S]
  BY <1>1, <1>2 DEF SetToSeq
<1>4. PICK z \in [1..n -> Code] : z = SetToSeq(S)
  BY <1>3
<1>5. z \in Seq(Code)
  BY <1>4
<1> QED
  BY <1>4, <1>5

LEMMA LostAreCodes ==
  ASSUME ThrewChecks
  PROVE  LostCodes \in SUBSET Code /\ IsFiniteSet(LostCodes)
<1> DEFINE All == {emits[id] : id \in CheckIds}
<1>1. IsFiniteSet(All)
  <2>1. PICK f : f = [id \in CheckIds |-> emits[id]]
    OBVIOUS
  <2>2. f \in Surjection(CheckIds, All)
    BY <2>1 DEF Surjection
  <2> QED
    BY <2>2, ChecksAreFinite, FS_Surjection
<1>2. IsFiniteSet(UNION All)
  <2>1. \A T \in All : IsFiniteSet(T)
    BY InspectAssumption
  <2> HIDE DEF All
  <2> QED
    BY <1>1, <2>1, FS_UNION
<1>3. LostCodes \in SUBSET UNION All
  BY DEF LostCodes, ThrewChecks
<1>4. UNION All \in SUBSET Code
  BY InspectAssumption
<1> QED
  BY <1>2, <1>3, <1>4, FS_Subset

LEMMA ThrewStep == PipelineInv /\ ThrewChecks /\ [InspectNext]_inspectVars => ThrewChecks'
<1> SUFFICES ASSUME PipelineInv, ThrewChecks, [InspectNext]_inspectVars PROVE ThrewChecks'
  OBVIOUS
<1>1. ASSUME NEW channel, NEW id \in CheckIds, Throws(Named(channel, id)) PROVE ThrewChecks'
  BY <1>1 DEF Throws, Named, ThrewChecks
<1>2. CASE ScanThrows
  <2>1. Scans[next] \in CheckIds
    BY <1>2, ListedIsCheck DEF ScanThrows, PipelineInv, PipelineTyped
  <2> QED
    BY <1>1, <1>2, <2>1 DEF ScanThrows
<1>3. CASE DetectorThrows
  <2>1. Detectors[next] \in CheckIds
    BY <1>3, ListedIsCheck DEF DetectorThrows, Evaluated, PipelineInv, PipelineTyped
  <2> QED
    BY <1>1, <1>3, <2>1 DEF DetectorThrows
<1>4. CASE AxisThrows
  <2>1. Axes[next] \in CheckIds
    BY <1>4, ListedIsCheck DEF AxisThrows, PipelineInv, PipelineTyped
  <2> QED
    BY <1>1, <1>4, <2>1 DEF AxisThrows
<1>5. CASE DispatcherThrows
  <2>1. threw' = threw \cup {Bare("policy")} /\ Len(Bare("policy")) # 2
    BY <1>5 DEF DispatcherThrows, Bare
  <2> QED
    BY <2>1 DEF ThrewChecks
<1>6. CASE threw' = threw
  BY <1>6 DEF ThrewChecks
<1> QED
  BY <1>2, <1>3, <1>4, <1>5, <1>6
     DEF InspectNext, Step, Returned, inspectVars, NotAString, StartScans, ScanReports, ParseFails,
         ParseSucceeds, DetectorGatedOff, DetectorReports, StartPolicy, AxisReports, Build, Returns,
         Emits

(***************************************************************************)
(* For every registry of checks, weights and options: a check that failed  *)
(* can only have made the score too low (score.ts, FR-SCORE-3a).           *)
(***************************************************************************)
THEOREM ScoreIsFloor == InspectSpec => []ScoreIsLowerBound
<1>1. InspectInit => ThrewChecks
  BY DEF InspectInit, ThrewChecks
<1>2. PipelineInv /\ ThrewChecks => ScoreIsLowerBound
  <2> SUFFICES ASSUME PipelineInv, ThrewChecks, Done, result.status = "ok"
               PROVE  AtMostScore(result.score,
                                  score(result.reasons \o ReasonsOf(SetToSeq(LostCodes))))
    BY DEF ScoreIsLowerBound
  <2>1. findings \in Seq(Code)
    BY DEF PipelineInv, PipelineTyped
  <2>2. result = buildOkResult(findings)
    BY DEF PipelineInv, ResultBuilt, buildInvalidResult
  <2>3. result.score = score(result.reasons)
    BY <2>2 DEF buildOkResult
  <2>4. result.reasons \in Seq(Reason)
    <3>1. PICK quiet : quiet = applySuppressions(ReasonsOf(findings), options.suppressReasons, InputHost)
      OBVIOUS
    <3>2. quiet \in Seq(Reason)
      BY <2>1, <3>1, ReasonsListed, SuppressKeeps
    <3>3. result.reasons = sorted(quiet)
      BY <2>2, <3>1 DEF buildOkResult
    <3> QED
      BY <3>2, <3>3, SortedKeeps
  <2>5. ReasonsOf(SetToSeq(LostCodes)) \in Seq(Reason)
    BY LostAreCodes, ListOfCodes, ReasonsListed
  <2> QED
    BY <2>3, <2>4, <2>5, PrefixScoresLess
<1> QED
  BY <1>1, <1>2, PipelineBegins, PipelineStep, ThrewStep, PTL DEF InspectSpec

-----------------------------------------------------------------------------
(* Lists put one behind the other hold what each of them holds.            *)
LEMMA JoinHolds ==
  ASSUME NEW S, NEW a \in Seq(S), NEW b \in Seq(S)
  PROVE  a \o b \in Seq(S) /\ ToSet(a \o b) = ToSet(a) \cup ToSet(b)
<1>1. /\ Len(a) \in Nat /\ DOMAIN a = 1..Len(a) /\ Len(b) \in Nat /\ DOMAIN b = 1..Len(b)
      /\ a \o b \in Seq(S) /\ Len(a \o b) = Len(a) + Len(b)
  OBVIOUS
<1>2. DOMAIN (a \o b) = 1..(Len(a) + Len(b))
  BY <1>1
<1>3. \A i \in 1..(Len(a) + Len(b)) : (a \o b)[i] = IF i <= Len(a) THEN a[i] ELSE b[i - Len(a)]
  OBVIOUS
<1>4. PICK p \in Nat, q \in Nat : p = Len(a) /\ q = Len(b)
  BY <1>1
<1>5. PICK c : c = a \o b
  OBVIOUS
<1>6. \A i \in 1..(p + q) : c[i] = IF i <= p THEN a[i] ELSE b[i - p]
  BY <1>3, <1>4, <1>5
<1>7. /\ ToSet(a) = {a[i] : i \in 1..p} /\ ToSet(b) = {b[i] : i \in 1..q}
      /\ ToSet(c) = {c[i] : i \in 1..(p + q)}
  BY <1>1, <1>2, <1>4, <1>5 DEF ToSet
<1>8. \A i \in 1..(p + q) : (i <= p => i \in 1..p) /\ (~ (i <= p) => i - p \in 1..q)
  OBVIOUS
<1>9. \A i \in 1..p : i \in 1..(p + q) /\ c[i] = a[i]
  BY <1>6
<1>10. ASSUME NEW i \in 1..q PROVE i + p \in 1..(p + q) /\ c[i + p] = b[i]
  <2>1. i + p \in 1..(p + q) /\ ~ (i + p <= p) /\ (i + p) - p = i
    OBVIOUS
  <2> QED
    BY <1>6, <2>1
<1>11. ToSet(c) \subseteq ToSet(a) \cup ToSet(b)
  BY <1>6, <1>7, <1>8
<1>12. ToSet(a) \cup ToSet(b) \subseteq ToSet(c)
  BY <1>7, <1>9, <1>10
<1> QED
  BY <1>1, <1>5, <1>11, <1>12

LEMMA FlattenIs ==
  ASSUME NEW S, NEW n \in Nat, NEW ss \in [1..n -> Seq(S)]
  PROVE  /\ FlattenSeq(ss) \in Seq(S)
         /\ ToSet(FlattenSeq(ss)) = UNION {ToSet(ss[i]) : i \in 1..n}
<1>1. Len(ss) = n /\ \A i \in 1..n : ss[i] \in Seq(S)
  OBVIOUS
<1>2. CASE n = 0
  <2>1. FlattenSeq(ss) = ss
    BY <1>1, <1>2 DEF FlattenSeq
  <2>2. ss = << >> /\ 1..n = {}
    BY <1>2
  <2> QED
    BY <2>1, <2>2 DEF ToSet
<1>3. CASE n # 0
  <2>0. n \in 1..n /\ 1..n \subseteq Nat
    BY <1>3
  <2> DEFINE Joins(f, m) ==
               f = [i \in 1..m |-> IF i = 1 THEN ss[i] ELSE f[i - 1] \o ss[i]]
             Wrong == {m \in 1..n : ~ \E f : Joins(f, m)}
  <2>1. \E f : Joins(f, n)
    <3> SUFFICES ASSUME Wrong # {} PROVE FALSE
      <4> HIDE DEF Joins
      <4> QED
        BY <2>0
    <3>1. PICK m \in Wrong : \A k \in Wrong : k >= m
      <4>1. Wrong \in SUBSET Nat
        BY <2>0
      <4> HIDE DEF Wrong
      <4> QED
        BY <4>1, LeastNumber
    <3>2. CASE m = 1
      <4>1. Joins([i \in 1..1 |-> ss[i]], 1)
        BY <1>3
      <4> QED
        BY <3>1, <3>2, <4>1
    <3>3. CASE m # 1
      <4>0. m \in 1..n /\ m - 1 \in 1..n /\ ~ (m - 1 >= m)
        BY <3>1, <3>3
      <4>1. m - 1 \in 1..n /\ m - 1 \notin Wrong /\ m \in 1..n
        BY <3>1, <4>0
      <4>2. PICK f : Joins(f, m - 1)
        BY <4>1
      <4>3. PICK h : h = [i \in 1..m |-> IF i = 1 THEN ss[i] ELSE f[i - 1] \o ss[i]]
        OBVIOUS
      <4>4. \A i \in 1..(m - 1) : f[i] = IF i = 1 THEN ss[i] ELSE f[i - 1] \o ss[i]
        BY <4>2
      <4>5. \A i \in 1..(m - 1) : h[i] = f[i]
        BY <4>1, <4>3, <4>4
      <4>6. \A i \in 1..m : i # 1 => h[i - 1] = f[i - 1]
        BY <4>1, <4>5
      <4>7. Joins(h, m)
        BY <4>3, <4>6
      <4> HIDE DEF Joins
      <4> QED
        BY <3>1, <4>7
    <3> QED
      BY <3>2, <3>3
  <2>2. PICK f : f = CHOOSE h : Joins(h, n)
    OBVIOUS
  <2>3. Joins(f, n)
    <3> HIDE DEF Joins
    <3> QED
      BY <2>1, <2>2
  <2>4. FlattenSeq(ss) = f[n]
    BY <1>1, <1>3, <2>2 DEF FlattenSeq
  <2>5. \A i \in 1..n : f[i] = IF i = 1 THEN ss[i] ELSE f[i - 1] \o ss[i]
    BY <2>3
  <2> HIDE DEF Joins, Wrong
  <2> DEFINE Held(m) == UNION {ToSet(ss[i]) : i \in 1..m}
             Off == {m \in 1..n : ~ (f[m] \in Seq(S) /\ ToSet(f[m]) = Held(m))}
  <2>6. Off = {}
    <3> SUFFICES ASSUME Off # {} PROVE FALSE
      OBVIOUS
    <3>1. PICK m \in Off : \A k \in Off : k >= m
      <4>1. Off \in SUBSET Nat
        OBVIOUS
      <4> HIDE DEF Off
      <4> QED
        BY <4>1, LeastNumber
    <3>2. CASE m = 1
      <4>1. f[m] = ss[1] /\ Held(1) = ToSet(ss[1])
        BY <1>3, <2>5, <3>2
      <4> QED
        BY <1>1, <1>3, <3>1, <3>2, <4>1
    <3>3. CASE m # 1
      <4>0. m \in 1..n /\ m - 1 \in 1..n /\ ~ (m - 1 >= m)
        BY <3>1, <3>3
      <4>1. m - 1 \in 1..n /\ m - 1 \notin Off /\ m \in 1..n
        BY <3>1, <4>0
      <4>2. f[m - 1] \in Seq(S) /\ ToSet(f[m - 1]) = Held(m - 1)
        BY <4>1
      <4>3. f[m] = f[m - 1] \o ss[m] /\ ss[m] \in Seq(S)
        BY <1>1, <2>5, <3>3, <4>1
      <4>4. 1..m = 1..(m - 1) \cup {m}
        BY <4>1
      <4>5. Held(m) = Held(m - 1) \cup ToSet(ss[m])
        BY <4>4
      <4>7. f[m] \in Seq(S) /\ ToSet(f[m]) = ToSet(f[m - 1]) \cup ToSet(ss[m])
        BY <4>2, <4>3, JoinHolds
      <4> QED
        BY <3>1, <4>2, <4>5, <4>7
    <3> QED
      BY <3>2, <3>3
  <2> QED
    BY <2>0, <2>4, <2>6
<1> QED
  BY <1>2, <1>3

-----------------------------------------------------------------------------
(***************************************************************************)
(* The asynchronous verdict.  The lexical verdict is a list of reasons     *)
(* with the score of that list; the fold adds the reasons of the findings, *)
(* each judged in the context of its own host.                             *)
(***************************************************************************)
LEMMA ConfidenceStaysBelow ==
  ASSUME NEW fs \in Seq(Finding)
  PROVE  FoldSeq(MinConfidence, FullConfidence, fs) <= FullConfidence
<1> DEFINE D == DOMAIN fs
           V == 0..FullConfidence
           step == [k \in D |-> [v \in V |-> MinConfidence(fs[k], v)]]
           Iter(f) == f = [S \in SUBSET D |->
                             IF S = {} THEN FullConfidence
                             ELSE MinConfidence(fs[CHOOSE x \in S : TRUE],
                                                f[S \ {CHOOSE x \in S : TRUE}])]
<1>1. IsFiniteSet(D)
  <2>1. D = 1..Len(fs) /\ Len(fs) \in Nat
    OBVIOUS
  <2> QED
    BY <2>1, FS_Interval
<1>2. FullConfidence \in V /\ \A k \in D : fs[k].confidence \in V
  <2>1. \A k \in D : fs[k] \in Finding
    OBVIOUS
  <2> QED
    BY <2>1, AsyncAssumption DEF Finding
<1>3. \A k \in D : \A v \in V : MinConfidence(fs[k], v) \in V
  BY <1>2 DEF MinConfidence
<1>4. step \in [D -> [V -> V]]
  BY <1>3
<1>5. PICK g \in [SUBSET D -> V] : Folds(g, D, FullConfidence, step)
  <2> HIDE DEF D, V, step
  <2> QED
    BY <1>1, <1>2, <1>4, FoldExists
<1>6. Iter(g)
  <2>1. ASSUME NEW S \in SUBSET D, S # {}
        PROVE  g[S] = MinConfidence(fs[Pick(S)], g[S \ {Pick(S)}])
    <3>1. Pick(S) \in D
      BY <2>1 DEF Pick
    <3>2. g[S] = step[Pick(S)][g[S \ {Pick(S)}]]
      BY <1>5, <2>1 DEF Folds
    <3>3. g[S \ {Pick(S)}] \in V
      BY <1>5
    <3> QED
      BY <3>1, <3>2, <3>3
  <2>2. \A S \in SUBSET D : g[S] = IF S = {} THEN FullConfidence
                                   ELSE MinConfidence(fs[Pick(S)], g[S \ {Pick(S)}])
    BY <1>5, <2>1 DEF Folds
  <2>3. g = [S \in SUBSET D |-> IF S = {} THEN FullConfidence
                                ELSE MinConfidence(fs[Pick(S)], g[S \ {Pick(S)}])]
    BY <2>2
  <2> HIDE DEF D
  <2> QED
    BY <2>3 DEF Pick
<1>7. PICK f : f = CHOOSE h : Iter(h)
  OBVIOUS
<1>8. Iter(f)
  <2> HIDE DEF Iter
  <2> QED
    BY <1>6, <1>7
<1>9. f[D] = FoldSeq(MinConfidence, FullConfidence, fs)
  BY <1>7 DEF FoldSeq, FoldFunction, FoldFunctionOnSet, MapThenFoldSet
<1>10. f[D] \in V
  <2> DEFINE Wrong == {S \in SUBSET D : f[S] \notin V}
  <2> SUFFICES ASSUME Wrong # {} PROVE FALSE
    BY <1>2
  <2>1. PICK S \in Wrong : \A x \in S : S \ {x} \notin Wrong
    <3>1. Wrong \in SUBSET SUBSET D
      OBVIOUS
    <3> HIDE DEF Wrong, D
    <3> QED
      BY <1>1, <3>1, SmallestSet
  <2>2. PICK p : p = CHOOSE x \in S : TRUE
    OBVIOUS
  <2>3. f[S] = IF S = {} THEN FullConfidence ELSE MinConfidence(fs[p], f[S \ {p}])
    <3> HIDE DEF D
    <3> QED
      BY <1>8, <2>2
  <2>4. S # {} => p \in D /\ f[S \ {p}] \in V
    BY <2>1, <2>2
  <2>5. f[S] \in V
    <3> HIDE DEF Iter, V, D
    <3> QED
      BY <1>2, <1>3, <2>3, <2>4
  <2> QED
    BY <2>1, <2>5
<1> HIDE DEF Iter
<1> QED
  BY <1>9, <1>10, AsyncAssumption

(* Adding reasons to a list and sorting it lowers no score.                *)
LEMMA ScoreOfMore ==
  ASSUME NEW s \in Seq(Reason), NEW t \in Seq(Reason)
  PROVE  /\ AtMostScore(score(s), score(sorted(s \o t)))
         /\ AtMostScore(score(s), score(s))
         /\ ToSet(sorted(s \o t)) = ToSet(s) \cup ToSet(t)
<1>1. s \o t \in Seq(Reason) /\ ToSet(s \o t) = ToSet(s) \cup ToSet(t)
  BY JoinHolds
<1>2. PICK st \in Seq(Reason) : st = s \o t
  BY <1>1
<1>3. PICK z \in Seq(Reason) : z = sorted(st)
  BY SortedKeeps
<1>4. ToSet(z) = ToSet(st)
  BY <1>3, SortedKeeps
<1>5. PICK at \in [DOMAIN st -> DOMAIN z] :
        /\ \A i, j \in DOMAIN st : at[i] = at[j] => i = j
        /\ \A i \in DOMAIN st : z[at[i]] = st[i]
  <2>1. \E at \in [DOMAIN st -> DOMAIN sorted(st)] :
          /\ \A i, j \in DOMAIN st : at[i] = at[j] => i = j
          /\ \A i \in DOMAIN st : sorted(st)[at[i]] = st[i]
    BY SortedKeeps
  <2> QED
    BY <1>3, <2>1
<1>6. \A i \in DOMAIN s : i \in DOMAIN st /\ st[i] = s[i]
  BY <1>2
<1>7. PICK to : to = [i \in DOMAIN s |-> at[i]]
  OBVIOUS
<1>8. /\ to \in [DOMAIN s -> DOMAIN z]
      /\ \A i, j \in DOMAIN s : to[i] = to[j] => i = j
      /\ \A i \in DOMAIN s : z[to[i]] = s[i]
  BY <1>5, <1>6, <1>7
<1>9. AtMostScore(score(s), score(z))
  BY <1>8, ScoreGrows
<1>10. PICK id : id = [i \in DOMAIN s |-> i]
  OBVIOUS
<1>11. /\ id \in [DOMAIN s -> DOMAIN s]
       /\ \A i, j \in DOMAIN s : id[i] = id[j] => i = j
       /\ \A i \in DOMAIN s : s[id[i]] = s[i]
  BY <1>10
<1>12. AtMostScore(score(s), score(s))
  BY <1>11, ScoreGrows
<1> QED
  BY <1>1, <1>2, <1>3, <1>4, <1>9, <1>12

(* A reason is quiet exactly when a rule is about it.                      *)
QuietWhenRuled(r) == r.suppressed <=> \E rule \in rules : Matches(rule, r.code, r.about)

BaseBuilt ==
  /\ base.reasons \in Seq(Reason)
  /\ base.confidence = FullConfidence
  /\ \/ /\ base.status = "ok" /\ base.score = score(base.reasons)
        /\ \A r \in ToSet(base.reasons) : QuietWhenRuled(r)
     \/ base.status = "invalid" /\ base.score = NullScore /\ base.severity = "null"

Ruled(r, rs, host) ==
  IF \E rule \in rs : Matches(rule, r.code, host)
  THEN [r EXCEPT !.weight = 0, !.suppressed = TRUE] ELSE r

LEMMA SuppressedAt ==
  /\ \A s, rs, host : \A k \in DOMAIN s : applySuppressions(s, rs, host)[k] = Ruled(s[k], rs, host)
  /\ \A r, rs, host : applySuppressions(<<r>>, rs, host)[1] = Ruled(r, rs, host)
<1>1. \A s, rs, host : \A k \in DOMAIN s : applySuppressions(s, rs, host)[k] = Ruled(s[k], rs, host)
  BY DEF applySuppressions, Ruled
<1>2. ASSUME NEW r, NEW rs, NEW host
      PROVE  applySuppressions(<<r>>, rs, host)[1] = Ruled(r, rs, host)
  <2>1. PICK t : t = <<r>>
    OBVIOUS
  <2>2. DOMAIN t = {1} /\ t[1] = r
    BY <2>1
  <2> QED
    BY <1>1, <2>1, <2>2
<1> QED
  BY <1>1, <1>2

LEMMA RuledOnItsHost ==
  ASSUME NEW c \in Code, NEW host \in Host, NEW r,
         r = applySuppressions(<<reason(c, host)>>, rules, host)[1]
  PROVE  r \in Reason /\ QuietWhenRuled(r)
<1>1. PICK p \in Reason : p = reason(c, host) /\ p.code = c /\ p.about = host /\ p.suppressed = FALSE
  BY PlainIsReason DEF reason
<1>2. r = IF \E rule \in rules : Matches(rule, p.code, host)
          THEN [p EXCEPT !.weight = 0, !.suppressed = TRUE] ELSE p
  <2>1. r = Ruled(p, rules, host)
    BY <1>1, SuppressedAt
  <2> QED
    BY <2>1 DEF Ruled
<1>3. 0 \in 0..Unit
  BY ScoringAssumption
<1>4. r \in Reason
  BY <1>2, <1>3 DEF Reason
<1>5. CASE \E rule \in rules : Matches(rule, p.code, host)
  <2>1. r = [p EXCEPT !.weight = 0, !.suppressed = TRUE]
    BY <1>2, <1>5
  <2>2. r.code = p.code /\ r.about = p.about /\ r.suppressed = TRUE
    BY <2>1 DEF Reason
  <2> QED
    BY <1>1, <1>4, <1>5, <2>2 DEF QuietWhenRuled
<1>6. CASE ~ \E rule \in rules : Matches(rule, p.code, host)
  BY <1>1, <1>2, <1>4, <1>6 DEF QuietWhenRuled
<1> QED
  BY <1>5, <1>6

LEMMA RuledInContext ==
  ASSUME NEW codes \in Seq(Code)
  PROVE  LET q == applySuppressions(ReasonsOf(codes), rules, InputHost)
         IN  q \in Seq(Reason) /\ \A r \in ToSet(q) : QuietWhenRuled(r)
<1>1. PICK n \in Nat : DOMAIN codes = 1..n
  OBVIOUS
<1>2. PICK s \in Seq(Reason) : s = ReasonsOf(codes)
  BY ReasonsListed
<1>3. PICK q \in Seq(Reason) : q = applySuppressions(s, rules, InputHost)
  BY SuppressKeeps
<1>4. DOMAIN s = 1..n /\ \A k \in 1..n : s[k] = reason(codes[k], InputHost) /\ codes[k] \in Code
  BY <1>1, <1>2 DEF ReasonsOf
<1>5. DOMAIN q = 1..n
  BY <1>3, <1>4 DEF applySuppressions
<1>6. ASSUME NEW k \in 1..n PROVE QuietWhenRuled(q[k])
  <2>1. q[k] = applySuppressions(<<reason(codes[k], InputHost)>>, rules, InputHost)[1]
    BY <1>3, <1>4, SuppressedAt
  <2> QED
    BY <1>4, <2>1, RuledOnItsHost, ScoringAssumption
<1> QED
  BY <1>2, <1>3, <1>5, <1>6 DEF ToSet

LEMMA BaseIsBuilt == AsyncInit => BaseBuilt
<1> SUFFICES ASSUME AsyncInit PROVE BaseBuilt
  OBVIOUS
<1>1. PICK codes \in Seq(Code) : base \in {okBase(codes), invalidBase(codes)}
  BY AsyncAssumption DEF AsyncInit
<1>2. CASE base = okBase(codes)
  <2>1. PICK q : q = applySuppressions(ReasonsOf(codes), rules, InputHost)
    OBVIOUS
  <2>2. q \in Seq(Reason) /\ \A r \in ToSet(q) : QuietWhenRuled(r)
    BY <2>1, RuledInContext
  <2>3. /\ base.reasons = sorted(q) /\ base.status = "ok" /\ base.score = score(sorted(q))
        /\ base.confidence = FullConfidence
    BY <1>2, <2>1 DEF okBase, ReasonsOf
  <2>4. sorted(q) \in Seq(Reason) /\ ToSet(sorted(q)) = ToSet(q)
    BY <2>2, SortedKeeps
  <2> QED
    BY <2>2, <2>3, <2>4 DEF BaseBuilt
<1>3. CASE base = invalidBase(codes)
  <2>1. PICK shown \in Seq(Code) : shown = IF codes = << >> THEN <<ParseError>> ELSE codes
    <3>1. <<ParseError>> \in Seq(Code)
      BY ScoringAssumption
    <3> QED
      BY <3>1
  <2>2. PICK s \in Seq(Reason) : s = ReasonsOf(shown)
    BY ReasonsListed
  <2>3. /\ base.reasons = sorted(s) /\ base.status = "invalid" /\ base.score = NullScore
        /\ base.severity = "null" /\ base.confidence = FullConfidence
    BY <1>3, <2>1, <2>2 DEF invalidBase, ReasonsOf
  <2>4. sorted(s) \in Seq(Reason)
    BY SortedKeeps
  <2> QED
    BY <2>3, <2>4 DEF BaseBuilt
<1> QED
  BY <1>1, <1>2, <1>3

LEMMA EvidenceListed ==
  /\ enrichmentFindings \in Seq(Finding)
  /\ enrichmentReasons \in Seq(Reason)
  /\ \A r \in ToSet(enrichmentReasons) : QuietWhenRuled(r)
<1>1. PICK n \in Nat : n = Cardinality(Index)
  BY IndexAssumption, FS_CardinalityType
<1>2. PICK ss : ss = [i \in 1..n |-> findingsOf(i)]
  OBVIOUS
<1>3. ss \in [1..n -> Seq(Finding)]
  <2>1. \A i \in 1..n : Evidence[i] \in Seq(Finding) /\ << >> \in Seq(Finding)
    BY <1>1, AsyncAssumption
  <2>2. \A i \in 1..n : findingsOf(i) \in Seq(Finding)
    BY <2>1 DEF findingsOf
  <2> QED
    BY <1>2, <2>2
<1>4. PICK fs \in Seq(Finding) : fs = enrichmentFindings
  BY <1>1, <1>2, <1>3, FlattenIs DEF enrichmentFindings
<1>5. PICK m \in Nat : DOMAIN fs = 1..m
  OBVIOUS
<1>6. \A k \in 1..m : fs[k] \in Finding
  BY <1>5
<1>7. PICK q : q = enrichmentReasons
  OBVIOUS
<1>8. q = [k \in 1..m |-> projected(fs[k])]
  BY <1>4, <1>5, <1>7 DEF enrichmentReasons
<1>9. ASSUME NEW k \in 1..m PROVE q[k] \in Reason /\ QuietWhenRuled(q[k])
  <2>1. fs[k].code \in Code /\ fs[k].host \in Host
    BY <1>6 DEF Finding
  <2>2. q[k] = applySuppressions(<<reason(fs[k].code, fs[k].host)>>, rules, fs[k].host)[1]
    BY <1>8 DEF projected
  <2> QED
    BY <2>1, <2>2, RuledOnItsHost
<1>10. DOMAIN q = 1..m /\ q \in [1..m -> Reason]
  BY <1>8, <1>9
<1>11. q \in Seq(Reason)
  BY <1>10
<1>12. \A r \in ToSet(q) : QuietWhenRuled(r)
  BY <1>9, <1>10 DEF ToSet
<1> QED
  BY <1>4, <1>7, <1>11, <1>12

(***************************************************************************)
(* For every plan, every evidence a source may hold, every lexical verdict *)
(* and every set of rules: enrichment lowers no score, raises no           *)
(* confidence and drops no lexical reason, and a rule for one host is      *)
(* never applied to a finding about another (inspect-async.ts:192-250).    *)
(***************************************************************************)
THEOREM EvidenceWeighed == AsyncSpec => []EvidenceIsWeighed
<1> DEFINE Known == BaseBuilt /\ EvidenceIsWeighed
<1>1. AsyncInit => Known
  BY BaseIsBuilt DEF AsyncInit, EvidenceIsWeighed, EvidenceOnlyAdds, SuppressionStaysWithItsHost, Final
<1>2. Known /\ [AsyncNext]_allVars => Known'
  <2> SUFFICES ASSUME BaseBuilt, EvidenceIsWeighed, [AsyncNext]_allVars
               PROVE  BaseBuilt' /\ EvidenceIsWeighed'
    OBVIOUS
  <2>1. base' = base /\ rules' = rules
    BY DEF AsyncNext, NoEnrichers, PlanStep, Fold, Resolved, allVars, asyncVars
  <2>2. BaseBuilt'
    BY <2>1 DEF BaseBuilt, QuietWhenRuled
  <2>3. base.reasons \in Seq(Reason) /\ base.confidence = FullConfidence
    BY DEF BaseBuilt
  <2>4. CASE verdict' = verdict
    BY <2>1, <2>2, <2>4 DEF EvidenceIsWeighed, EvidenceOnlyAdds, SuppressionStaysWithItsHost, Final
  <2>5. CASE NoEnrichers
    <3>1. verdict' = base
      BY <2>5 DEF NoEnrichers
    <3>2. base.status = "ok" => AtMostScore(base.score, base.score)
      BY <2>3, ScoreOfMore DEF BaseBuilt
    <3>3. base.confidence <= base.confidence
      BY <2>3, AsyncAssumption
    <3>4. EvidenceOnlyAdds'
      BY <2>1, <3>1, <3>2, <3>3 DEF EvidenceOnlyAdds, BaseBuilt
    <3>5. SuppressionStaysWithItsHost'
      BY <2>1, <3>1 DEF SuppressionStaysWithItsHost, BaseBuilt, QuietWhenRuled
    <3> QED
      BY <2>2, <3>4, <3>5 DEF EvidenceIsWeighed
  <2>6. CASE Fold
    <3>1. PICK more \in Seq(Reason) : more = enrichmentReasons
      BY EvidenceListed
    <3>2. PICK all : all = sorted(base.reasons \o more)
      OBVIOUS
    <3>3. /\ AtMostScore(score(base.reasons), score(all))
          /\ ToSet(all) = ToSet(base.reasons) \cup ToSet(more)
      BY <2>3, <3>2, ScoreOfMore
    <3>4. /\ verdict'.reasons = all
          /\ verdict'.score = IF base.status = "ok" THEN score(all) ELSE base.score
          /\ base.status # "ok" => verdict'.severity = base.severity
          /\ verdict'.confidence = FoldSeq(MinConfidence, FullConfidence, enrichmentFindings)
      BY <2>3, <2>6, <3>1, <3>2 DEF Fold
    <3>5. verdict'.confidence <= base.confidence
      BY <2>3, <3>4, EvidenceListed, ConfidenceStaysBelow
    <3>6. EvidenceOnlyAdds'
      BY <2>1, <3>3, <3>4, <3>5 DEF EvidenceOnlyAdds, BaseBuilt
    <3>7. SuppressionStaysWithItsHost'
      <4>1. base.status = "ok" => \A r \in ToSet(all) : QuietWhenRuled(r)
        BY <3>1, <3>3, EvidenceListed DEF BaseBuilt
      <4> QED
        BY <2>1, <3>4, <4>1 DEF SuppressionStaysWithItsHost, QuietWhenRuled
    <3> QED
      BY <2>2, <3>6, <3>7 DEF EvidenceIsWeighed
  <2>7. CASE ~ Fold /\ ~ NoEnrichers
    BY <2>4, <2>7 DEF AsyncNext, PlanStep, Resolved, allVars, asyncVars
  <2> QED
    BY <2>2, <2>5, <2>6, <2>7
<1> HIDE DEF Known
<1>3. Known => EvidenceIsWeighed
  BY DEF Known
<1> QED
  BY <1>1, <1>2, <1>3, PTL DEF AsyncSpec

-----------------------------------------------------------------------------
(***************************************************************************)
(* The comparison.  A side that has a host has a site that is a function   *)
(* of the host, and an ICANN site that is a function of the site; a side   *)
(* that has none has neither.                                              *)
(***************************************************************************)
HasHost(s) == s.parses /\ canonicalHost(s) # Nil
Home(host) == orElse(privateRegistrableDomain[host], host)
HomeIcann(host) == orElse(icannRegistrableDomain[host], host)

(* What describe makes of a side, by whether it has a host. *)
LEMMA Described ==
  ASSUME NEW s \in Sides
  PROVE  LET d == describe(s)
         IN  /\ HasHost(s) => /\ d.host = canonicalHost(s) /\ d.host # Nil
                              /\ d.site = Home(d.host) /\ d.siteIcann = HomeIcann(d.host)
                              /\ d.siteIcann = HomeIcann(d.site)
                              /\ d.scheme = s.scheme /\ d.port = effectivePort(s)
                              /\ d.originKind = IF s.scheme = Nil THEN "undetermined"
                                   ELSE IF s.scheme \in TUPLE_ORIGIN_SCHEMES THEN "tuple" ELSE "opaque"
             /\ ~HasHost(s) => /\ d.host = Nil /\ d.site = Nil /\ d.siteIcann = Nil
                               /\ d.originKind \in {"opaque", "undetermined"}
<1>1. CASE ~s.parses
  BY <1>1 DEF describe, HasHost, undeterminedSide, Compared
<1>2. CASE s.parses /\ canonicalHost(s) = Nil
  BY <1>2 DEF describe, HasHost, Compared
<1>3. CASE HasHost(s)
  <2> DEFINE host == canonicalHost(s)
  <2>1. describe(s) =
          Compared(s.scheme, IF s.scheme = Nil THEN "undetermined"
                             ELSE IF s.scheme \in TUPLE_ORIGIN_SCHEMES THEN "tuple" ELSE "opaque",
                   host, effectivePort(s), IF s.isIp THEN host ELSE Home(host),
                   IF s.isIp THEN host ELSE HomeIcann(host))
    BY <1>3 DEF describe, HasHost, Home, HomeIcann
  <2>2. host # Nil /\ HomeIcann(Home(host)) = HomeIcann(host)
        /\ (s.isIp => Home(host) = host /\ HomeIcann(host) = host)
    BY <1>3, SideAssumption DEF HasHost, Home, HomeIcann
  <2> HIDE DEF host
  <2>3. /\ (IF s.isIp THEN host ELSE Home(host)) = Home(host)
        /\ (IF s.isIp THEN host ELSE HomeIcann(host)) = HomeIcann(host)
    BY <2>2
  <2> QED
    BY <1>3, <2>1, <2>2, <2>3 DEF Compared, host
<1> QED
  BY <1>1, <1>2, <1>3 DEF HasHost

(* A site is there when a host is. *)
LEMMA HomesAreThere ==
  ASSUME NEW host, host # Nil
  PROVE  Home(host) # Nil /\ HomeIcann(host) # Nil
BY DEF Home, HomeIcann, orElse

(* "same" means two hosts, with one site, one ICANN site, or one tuple. *)
LEMMA SameMeans ==
  ASSUME NEW x \in Sides, NEW y \in Sides
  PROVE  LET a == compareUrls(x, y)
             hosts == HasHost(x) /\ HasHost(y)
         IN  /\ DOMAIN a = {"sameOrigin", "sameSite", "sameSiteIcann"}
             /\ a.sameOrigin = "same" <=>
                  /\ hosts /\ x.scheme \in TUPLE_ORIGIN_SCHEMES \ {Nil} /\ x.scheme = y.scheme
                  /\ canonicalHost(x) = canonicalHost(y) /\ effectivePort(x) = effectivePort(y)
             /\ a.sameSite = "same" <=>
                  hosts /\ Home(canonicalHost(x)) = Home(canonicalHost(y))
             /\ a.sameSiteIcann = "same" <=>
                  hosts /\ HomeIcann(canonicalHost(x)) = HomeIcann(canonicalHost(y))
             /\ compareUrls(y, x) = a
             /\ a.sameOrigin # "undetermined" => a.sameSite # "undetermined"
<1> DEFINE a == compareUrls(x, y)
           l == describe(x)
           r == describe(y)
<1>1. a = [sameOrigin |-> relateOrigin(l, r), sameSite |-> relateSite(l, r, l.site, r.site),
           sameSiteIcann |-> relateSite(l, r, l.siteIcann, r.siteIcann)]
  BY DEF compareUrls
<1>2. compareUrls(y, x) =
        [sameOrigin |-> relateOrigin(r, l), sameSite |-> relateSite(r, l, r.site, l.site),
         sameSiteIcann |-> relateSite(r, l, r.siteIcann, l.siteIcann)]
  BY DEF compareUrls
<1>3. /\ HasHost(x) => /\ l.host = canonicalHost(x) /\ l.host # Nil
                       /\ l.site = Home(l.host) /\ l.siteIcann = HomeIcann(l.host)
                       /\ l.site # Nil /\ l.siteIcann # Nil
                       /\ l.scheme = x.scheme /\ l.port = effectivePort(x)
                       /\ l.originKind = IF x.scheme = Nil THEN "undetermined"
                            ELSE IF x.scheme \in TUPLE_ORIGIN_SCHEMES THEN "tuple" ELSE "opaque"
      /\ ~HasHost(x) => /\ l.host = Nil /\ l.site = Nil /\ l.siteIcann = Nil
                        /\ l.originKind \in {"opaque", "undetermined"}
  BY Described, HomesAreThere
<1>4. /\ HasHost(y) => /\ r.host = canonicalHost(y) /\ r.host # Nil
                       /\ r.site = Home(r.host) /\ r.siteIcann = HomeIcann(r.host)
                       /\ r.site # Nil /\ r.siteIcann # Nil
                       /\ r.scheme = y.scheme /\ r.port = effectivePort(y)
                       /\ r.originKind = IF y.scheme = Nil THEN "undetermined"
                            ELSE IF y.scheme \in TUPLE_ORIGIN_SCHEMES THEN "tuple" ELSE "opaque"
      /\ ~HasHost(y) => /\ r.host = Nil /\ r.site = Nil /\ r.siteIcann = Nil
                        /\ r.originKind \in {"opaque", "undetermined"}
  BY Described, HomesAreThere
<1> HIDE DEF a, l, r
<1>5. /\ relateOrigin(l, r) = relateOrigin(r, l)
      /\ relateSite(l, r, l.site, r.site) = relateSite(r, l, r.site, l.site)
      /\ relateSite(l, r, l.siteIcann, r.siteIcann) = relateSite(r, l, r.siteIcann, l.siteIcann)
  BY DEF relateOrigin, relateSite, sitesAgree
<1>6. relateOrigin(l, r) = "same" <=>
        /\ l.originKind \notin {"undetermined", "opaque"} /\ r.originKind \notin {"undetermined", "opaque"}
        /\ l.scheme = r.scheme /\ l.host = r.host /\ l.port = r.port
  BY DEF relateOrigin
<1>7. /\ relateSite(l, r, l.site, r.site) = "same" <=>
           ~siteUndetermined(l) /\ ~siteUndetermined(r) /\ l.site # Nil /\ r.site # Nil /\ l.site = r.site
      /\ relateSite(l, r, l.siteIcann, r.siteIcann) = "same" <=>
           ~siteUndetermined(l) /\ ~siteUndetermined(r) /\ l.siteIcann # Nil /\ r.siteIcann # Nil
           /\ l.siteIcann = r.siteIcann
  BY DEF relateSite, sitesAgree
<1>8. relateOrigin(l, r) # "undetermined" => relateSite(l, r, l.site, r.site) # "undetermined"
  BY DEF relateOrigin, relateSite, siteUndetermined
<1>9. /\ HasHost(x) => (~siteUndetermined(l) /\ l.site # Nil /\ l.siteIcann # Nil)
      /\ HasHost(y) => (~siteUndetermined(r) /\ r.site # Nil /\ r.siteIcann # Nil)
      /\ ~HasHost(x) => l.site = Nil /\ l.siteIcann = Nil /\ l.originKind \in {"opaque", "undetermined"}
      /\ ~HasHost(y) => r.site = Nil /\ r.siteIcann = Nil /\ r.originKind \in {"opaque", "undetermined"}
  BY <1>3, <1>4 DEF siteUndetermined
<1>10. a.sameOrigin = "same" <=>
         /\ HasHost(x) /\ HasHost(y) /\ x.scheme \in TUPLE_ORIGIN_SCHEMES \ {Nil} /\ x.scheme = y.scheme
         /\ canonicalHost(x) = canonicalHost(y) /\ effectivePort(x) = effectivePort(y)
  BY <1>1, <1>3, <1>4, <1>6, <1>9
<1>11. /\ a.sameSite = "same" <=> HasHost(x) /\ HasHost(y) /\ Home(canonicalHost(x)) = Home(canonicalHost(y))
       /\ a.sameSiteIcann = "same" <=>
            HasHost(x) /\ HasHost(y) /\ HomeIcann(canonicalHost(x)) = HomeIcann(canonicalHost(y))
  BY <1>1, <1>3, <1>4, <1>7, <1>9
<1>12. DOMAIN a = {"sameOrigin", "sameSite", "sameSiteIcann"}
  BY <1>1
<1>13. compareUrls(y, x) = a
  BY <1>1, <1>2, <1>5
<1>14. a.sameOrigin # "undetermined" => a.sameSite # "undetermined"
  BY <1>1, <1>8
<1> QED
  BY <1>10, <1>11, <1>12, <1>13, <1>14 DEF a

(* A pair that has been answered is a pair of sides with their answer. *)
PairInv ==
  pair.answer # Nil =>
    pair.left \in Sides /\ pair.right \in Sides /\ pair.answer = compareUrls(pair.left, pair.right)

(* The answers are sound relations. *)
LEMMA RelationsSound == PairInv => RelationsAreSound
<1> SUFFICES ASSUME PairInv, pair.answer # Nil PROVE RelationsAreSound
  BY DEF RelationsAreSound
<1> DEFINE x == pair.left
           y == pair.right
           a == pair.answer
           whole == {s \in Sides : s.parses /\ s.scheme \in TUPLE_ORIGIN_SCHEMES
                                            /\ canonicalHost(s) # Nil}
<1>1. x \in Sides /\ y \in Sides /\ a = compareUrls(x, y)
  BY DEF PairInv
<1> HIDE DEF x, y, a
<1>2. /\ DOMAIN a = {"sameOrigin", "sameSite", "sameSiteIcann"}
      /\ a.sameOrigin = "same" <=>
           /\ HasHost(x) /\ HasHost(y) /\ x.scheme \in TUPLE_ORIGIN_SCHEMES \ {Nil} /\ x.scheme = y.scheme
           /\ canonicalHost(x) = canonicalHost(y) /\ effectivePort(x) = effectivePort(y)
      /\ a.sameSite = "same" <=>
           HasHost(x) /\ HasHost(y) /\ Home(canonicalHost(x)) = Home(canonicalHost(y))
      /\ a.sameSiteIcann = "same" <=>
           HasHost(x) /\ HasHost(y) /\ HomeIcann(canonicalHost(x)) = HomeIcann(canonicalHost(y))
      /\ compareUrls(y, x) = a
      /\ a.sameOrigin # "undetermined" => a.sameSite # "undetermined"
  BY <1>1, SameMeans
<1>3. \A s \in Sides : HasHost(s) => HomeIcann(Home(canonicalHost(s))) = HomeIcann(canonicalHost(s))
  BY SideAssumption DEF HasHost, Home, HomeIcann
<1>4. /\ a.sameOrigin = "same" => a.sameSite = "same"
      /\ a.sameSite = "same" => a.sameSiteIcann = "same"
  BY <1>1, <1>2, <1>3
<1>5. /\ a.sameOrigin = "same" => x \in whole /\ y \in whole
      /\ a.sameSiteIcann = "same" => \A s \in {x, y} : s.parses /\ canonicalHost(s) # Nil
  BY <1>1, <1>2 DEF HasHost
<1>6. x = y /\ x \in whole => a.sameOrigin = "same"
  BY <1>2, SideAssumption DEF HasHost
<1>7. ASSUME NEW z \in Sides, NEW k \in DOMAIN a,
             a[k] = "same", compareUrls(y, z)[k] = "same"
      PROVE  compareUrls(x, z)[k] = "same"
  <2> DEFINE b == compareUrls(y, z)
             c == compareUrls(x, z)
  <2>1. /\ b.sameOrigin = "same" <=>
             /\ HasHost(y) /\ HasHost(z) /\ y.scheme \in TUPLE_ORIGIN_SCHEMES \ {Nil} /\ y.scheme = z.scheme
             /\ canonicalHost(y) = canonicalHost(z) /\ effectivePort(y) = effectivePort(z)
        /\ b.sameSite = "same" <=>
             HasHost(y) /\ HasHost(z) /\ Home(canonicalHost(y)) = Home(canonicalHost(z))
        /\ b.sameSiteIcann = "same" <=>
             HasHost(y) /\ HasHost(z) /\ HomeIcann(canonicalHost(y)) = HomeIcann(canonicalHost(z))
    BY <1>1, SameMeans
  <2>2. /\ c.sameOrigin = "same" <=>
             /\ HasHost(x) /\ HasHost(z) /\ x.scheme \in TUPLE_ORIGIN_SCHEMES \ {Nil} /\ x.scheme = z.scheme
             /\ canonicalHost(x) = canonicalHost(z) /\ effectivePort(x) = effectivePort(z)
        /\ c.sameSite = "same" <=>
             HasHost(x) /\ HasHost(z) /\ Home(canonicalHost(x)) = Home(canonicalHost(z))
        /\ c.sameSiteIcann = "same" <=>
             HasHost(x) /\ HasHost(z) /\ HomeIcann(canonicalHost(x)) = HomeIcann(canonicalHost(z))
    BY <1>1, SameMeans
  <2>3. k \in {"sameOrigin", "sameSite", "sameSiteIcann"} /\ b[k] = "same"
    BY <1>2, <1>7
  <2> HIDE DEF b, c
  <2>4. c[k] = "same"
    BY <1>2, <1>7, <2>1, <2>2, <2>3
  <2> QED
    BY <2>4 DEF c
<1>8. ASSUME NEW s \in whole, [s EXCEPT !.port = Nil] = [x EXCEPT !.port = Nil],
             defaultPort(s), x.port = Nil
      PROVE  compareUrls(x, s).sameOrigin = "same"
  <2>1. /\ s = [parses |-> s.parses, scheme |-> s.scheme, host |-> s.host, port |-> s.port,
                isIp |-> s.isIp]
        /\ x = [parses |-> x.parses, scheme |-> x.scheme, host |-> x.host, port |-> x.port,
                isIp |-> x.isIp]
    BY <1>1, SideAssumption
  <2>2. PICK t : t = [s EXCEPT !.port = Nil]
    OBVIOUS
  <2>3. t.parses = s.parses /\ t.scheme = s.scheme /\ t.host = s.host
    BY <2>1, <2>2
  <2>4. t.parses = x.parses /\ t.scheme = x.scheme /\ t.host = x.host
    BY <1>8, <2>1, <2>2
  <2>5. HasHost(s) /\ HasHost(x) /\ canonicalHost(s) = canonicalHost(x)
        /\ x.scheme \in TUPLE_ORIGIN_SCHEMES \ {Nil} /\ x.scheme = s.scheme
    BY <2>3, <2>4, SideAssumption DEF HasHost, canonicalHost
  <2>6. effectivePort(x) = Nil /\ effectivePort(s) = Nil
    BY <1>8 DEF effectivePort
  <2>7. s \in Sides
    OBVIOUS
  <2> QED
    BY <1>1, <2>5, <2>6, <2>7, SameMeans
<1> QED
  BY <1>2, <1>4, <1>5, <1>6, <1>7, <1>8 DEF RelationsAreSound, x, y, a

-----------------------------------------------------------------------------
(***************************************************************************)
(* The detectors' view of a link.  Bounded decoding takes off as many      *)
(* levels as there are, up to the limit.                                   *)
(***************************************************************************)
LevelsLeft(depth, n) == IF n <= depth THEN depth - n ELSE 0

(* Decoding ends in plain text exactly when the limit allows it, and says  *)
(* so (boundedDecode).                                                     *)
LEMMA DecodeIs ==
  ASSUME NEW depth \in Nat, NEW limit \in Nat
  PROVE  LET d == boundedDecode(depth, limit)
         IN  /\ d.decoded = 0 <=> depth <= limit
             /\ d.truncated <=> depth > limit
             /\ d.passes \in 0..limit
<1> DEFINE Passes(f) == f = [n \in 0..limit |-> IF n = 0 THEN depth ELSE decodeOnce(f[n - 1])]
<1>0. 0..limit \subseteq Nat
  OBVIOUS
<1>1. \E f : Passes(f)
  <2>1. Passes([n \in 0..limit |-> LevelsLeft(depth, n)])
    BY DEF LevelsLeft, decodeOnce
  <2> QED
    BY <2>1
<1>2. PICK f : f = CHOOSE g : Passes(g)
  OBVIOUS
<1>3. Passes(f)
  <2> HIDE DEF Passes
  <2> QED
    BY <1>1, <1>2
<1>4. \A n \in 0..limit : f[n] = IF n = 0 THEN depth ELSE decodeOnce(f[n - 1])
  BY <1>3
<1> DEFINE Off == {n \in 0..limit : f[n] # LevelsLeft(depth, n)}
<1>5. Off = {}
  <2> SUFFICES ASSUME Off # {} PROVE FALSE
    OBVIOUS
  <2>1. PICK m \in Off : \A k \in Off : k >= m
    <3>1. Off \in SUBSET Nat
      BY <1>0
    <3> HIDE DEF Off
    <3> QED
      BY <3>1, LeastNumber
  <2>2. CASE m = 0
    BY <1>4, <2>1, <2>2 DEF LevelsLeft
  <2>3. CASE m # 0
    <3>1. m \in 0..limit /\ m - 1 \in 0..limit /\ ~ (m - 1 >= m)
      BY <2>1, <2>3
    <3>2. f[m - 1] = LevelsLeft(depth, m - 1)
      BY <2>1, <3>1
    <3>3. f[m] = LevelsLeft(depth, m)
      BY <1>4, <2>3, <3>1, <3>2 DEF LevelsLeft, decodeOnce
    <3> QED
      BY <2>1, <3>3
  <2> QED
    BY <2>2, <2>3
<1>6. \A n \in 0..limit : f[n] = LevelsLeft(depth, n)
  BY <1>5
<1>7. \A n \in 0..limit : decodeOnce(f[n]) = f[n] <=> depth <= n
  BY <1>6 DEF decodeOnce, LevelsLeft
<1> DEFINE Stops(n) == /\ n = limit \/ decodeOnce(f[n]) = f[n]
                       /\ \A m \in 0..(n - 1) : decodeOnce(f[m]) # f[m]
<1>8. \E n \in 0..limit : Stops(n)
  <2>1. CASE depth <= limit
    <3>1. depth \in 0..limit /\ Stops(depth)
      BY <1>7, <2>1
    <3> QED
      BY <3>1
  <2>2. CASE ~ (depth <= limit)
    <3>1. limit \in 0..limit /\ Stops(limit)
      BY <1>7, <2>2
    <3> QED
      BY <3>1
  <2> QED
    BY <2>1, <2>2
<1>9. PICK p : p = CHOOSE n \in 0..limit : Stops(n)
  OBVIOUS
<1>10. p \in 0..limit /\ Stops(p)
  <2> HIDE DEF Stops
  <2> QED
    BY <1>8, <1>9
<1>11. boundedDecode(depth, limit) =
         [decoded |-> f[p], passes |-> p, truncated |-> decodeOnce(f[p]) # f[p]]
  BY <1>2, <1>9 DEF boundedDecode
<1>12. f[p] = 0 <=> depth <= limit
  BY <1>6, <1>7, <1>10 DEF LevelsLeft
<1>13. decodeOnce(f[p]) # f[p] <=> depth > limit
  BY <1>6, <1>7, <1>10 DEF LevelsLeft
<1> HIDE DEF Stops
<1> DEFINE d == boundedDecode(depth, limit)
<1>14. d.decoded = f[p] /\ d.passes = p
  BY <1>11
<1>15. d.truncated = (decodeOnce(f[p]) # f[p])
  BY <1>11
<1> HIDE DEF d
<1>16. d.truncated <=> depth > limit
  BY <1>13, <1>15
<1>17. /\ d.decoded = 0 <=> depth <= limit
       /\ d.passes \in 0..limit
  BY <1>10, <1>12, <1>14
<1> QED
  BY <1>16, <1>17 DEF d

(* A key or a value is read exactly when it is not encoded too deep. *)
LEMMA ReadableIs ==
  ASSUME NEW v, v.depth \in Nat
  PROVE  Readable(v) <=> v.depth <= MaxDecodeDepth
BY DecodeIs, LinkAssumption DEF Readable

(* The pair a piece with a value becomes. *)
PairOf(p) ==
  [key |-> IF Readable(p.key) THEN p.key.name ELSE "encoded", value |-> p.value]
NamedPair == [key : STRING \cup {"encoded"}, value : Values]

LEMMA PairsAre ==
  ASSUME NEW pieces \in Seq(QueryPiece)
  PROVE  /\ queryPairs(pieces) \in Seq(NamedPair)
         /\ ToSet(queryPairs(pieces)) =
              {PairOf(pieces[k]) : k \in {n \in DOMAIN pieces : pieces[n].value # NoValue}}
<1> DEFINE One(n) == IF pieces[n].value = NoValue THEN <<>> ELSE <<PairOf(pieces[n])>>
           ss == [n \in DOMAIN pieces |-> One(n)]
<1>1. PICK n \in Nat : n = Len(pieces) /\ DOMAIN pieces = 1..n
  OBVIOUS
<1>2. \A k \in 1..n : pieces[k] \in QueryPiece
  BY <1>1
<1>3. \A k \in 1..n : One(k) \in Seq(NamedPair)
  <2> SUFFICES ASSUME NEW k \in 1..n PROVE One(k) \in Seq(NamedPair)
    OBVIOUS
  <2>1. CASE pieces[k].value = NoValue
    BY <2>1
  <2>2. CASE pieces[k].value # NoValue
    <3>1. PairOf(pieces[k]) \in NamedPair
      <4>1. pieces[k].key.name \in STRING /\ pieces[k].value \in Values
        BY <1>2, <2>2 DEF QueryPiece
      <4>2. PICK name : name = IF Readable(pieces[k].key) THEN pieces[k].key.name ELSE "encoded"
        OBVIOUS
      <4>3. name \in STRING \cup {"encoded"}
        BY <4>1, <4>2
      <4>4. PairOf(pieces[k]) = [key |-> name, value |-> pieces[k].value]
        BY <4>2 DEF PairOf
      <4> QED
        BY <4>1, <4>3, <4>4 DEF NamedPair
    <3> QED
      BY <2>2, <3>1
  <2> QED
    BY <2>1, <2>2
<1>4. ss \in [1..n -> Seq(NamedPair)] /\ \A k \in 1..n : ss[k] = One(k)
  BY <1>1, <1>3
<1>5. queryPairs(pieces) = FlattenSeq(ss)
  BY DEF queryPairs, PairOf
<1>6. \A k \in 1..n : ToSet(One(k)) = IF pieces[k].value = NoValue THEN {} ELSE {PairOf(pieces[k])}
  <2> SUFFICES ASSUME NEW k \in 1..n
               PROVE ToSet(One(k)) = IF pieces[k].value = NoValue THEN {} ELSE {PairOf(pieces[k])}
    OBVIOUS
  <2>1. CASE pieces[k].value = NoValue
    BY <2>1 DEF ToSet
  <2>2. CASE pieces[k].value # NoValue
    <3>1. PICK q : q = PairOf(pieces[k])
      OBVIOUS
    <3>2. One(k) = <<q>>
      BY <2>2, <3>1
    <3>3. ToSet(<<q>>) = {q}
      BY DEF ToSet
    <3> QED
      BY <2>2, <3>1, <3>2, <3>3
  <2> QED
    BY <2>1, <2>2
<1> HIDE DEF ss, One
<1>7. /\ FlattenSeq(ss) \in Seq(NamedPair)
      /\ ToSet(FlattenSeq(ss)) = UNION {ToSet(ss[k]) : k \in 1..n}
  BY <1>4, FlattenIs
<1>8. UNION {ToSet(ss[k]) : k \in 1..n} =
        {PairOf(pieces[k]) : k \in {m \in 1..n : pieces[m].value # NoValue}}
  <2> DEFINE Kept == {PairOf(pieces[k]) : k \in {m \in 1..n : pieces[m].value # NoValue}}
  <2>1. ASSUME NEW k \in 1..n, NEW q \in ToSet(ss[k]) PROVE q \in Kept
    BY <1>4, <1>6, <2>1
  <2>2. ASSUME NEW k \in 1..n, pieces[k].value # NoValue
        PROVE  PairOf(pieces[k]) \in UNION {ToSet(ss[m]) : m \in 1..n}
    <3>1. PairOf(pieces[k]) \in ToSet(ss[k])
      BY <1>4, <1>6, <2>2
    <3> QED
      BY <3>1
  <2>3. Kept \subseteq UNION {ToSet(ss[m]) : m \in 1..n}
    BY <2>2
  <2>4. UNION {ToSet(ss[m]) : m \in 1..n} \subseteq Kept
    <3> HIDE DEF Kept
    <3> QED
      BY <2>1
  <2> QED
    BY <2>3, <2>4
<1> QED
  BY <1>1, <1>5, <1>7, <1>8

(* The authority of host text that is not empty. *)
LEMMA AuthorityIs ==
  ASSUME NEW host \in HostTexts
  PROVE  /\ BareHost(host) \in HostTexts /\ BareHost(host).name = host.name
         /\ host.name = "" => authorityOf(host) = NoValue /\ BareHost(host) \notin DOMAIN registrableDomain
         /\ host.name # "" =>
              /\ authorityOf(host) \in Authority /\ authorityOf(host) # NoValue
              /\ authorityOf(host).domain = Lookup(registrableDomain, BareHost(host))
              /\ authorityOf(host).domain # NoValue => authorityOf(host).site = authorityOf(host).domain
              /\ authorityOf(host).domain # NoValue <=> BareHost(host) \in DOMAIN registrableDomain
<1>1. BareHost(host) \in HostTexts /\ BareHost(host).name = host.name
  BY DEF BareHost, HostTexts
<1>2. PICK h \in HostTexts : h = BareHost(host) /\ h.name = host.name
  BY <1>1
<1>3. /\ Lookup(registrableDomain, h) \in STRING \cup {NoValue}
      /\ Lookup(addressIn, h) \in STRING \cup {NoValue}
      /\ Lookup(registrableDomain, h) # NoValue <=> h \in DOMAIN registrableDomain
  BY LinkAssumption DEF Lookup
<1>4. CASE host.name = ""
  BY <1>1, <1>2, <1>4, LinkAssumption DEF authorityOf
<1>5. CASE host.name # ""
  <2>1. PICK site, domain :
          /\ domain = Lookup(registrableDomain, h)
          /\ site = IF domain # NoValue THEN domain
                    ELSE IF Lookup(addressIn, h) # NoValue THEN Lookup(addressIn, h) ELSE h.name
    OBVIOUS
  <2>2. authorityOf(host) = [site |-> site, domain |-> domain]
    BY <1>2, <1>5, <2>1 DEF authorityOf
  <2>3. h.name \in STRING
    BY DEF HostTexts
  <2>4. site \in STRING /\ domain \in STRING \cup {NoValue}
    BY <1>3, <2>1, <2>3
  <2>5. NoValue \notin Authority
    BY LinkAssumption
  <2>6. authorityOf(host) \in Authority
    BY <2>2, <2>4 DEF Authority
  <2>7. authorityOf(host).site = site /\ authorityOf(host).domain = domain
    BY <2>2
  <2>8. domain # NoValue => site = domain
    BY <2>1
  <2>9. domain # NoValue <=> h \in DOMAIN registrableDomain
    BY <1>3, <2>1
  <2>10. authorityOf(host) # NoValue
    BY <2>5, <2>6
  <2> QED
    BY <1>1, <1>2, <1>5, <2>1, <2>6, <2>7, <2>8, <2>9, <2>10
<1> QED
  BY <1>4, <1>5

(* The other spelling of a host is host text that is spelled so for good.  *)
LEMMA HostnameIs ==
  ASSUME NEW host \in HostTexts
  PROVE  /\ hostname(host) \in HostTexts /\ hostname(host).name \notin DOMAIN toASCII
         /\ hostname(host).name = "" <=> host.name = ""
         /\ hostname(host) = IF host.name \in DOMAIN toASCII
                             THEN [host EXCEPT !.name = toASCII[host.name]] ELSE host
<1>1. /\ \A n \in DOMAIN toASCII : toASCII[n] \in STRING /\ toASCII[n] \notin DOMAIN toASCII
      /\ \A n \in DOMAIN toASCII : toASCII[n] # "" /\ n # ""
  BY LinkAssumption
<1>2. CASE host.name \in DOMAIN toASCII
  <2>1. PICK n : n = toASCII[host.name]
    OBVIOUS
  <2>2. n \in STRING /\ n \notin DOMAIN toASCII /\ n # "" /\ host.name # ""
    BY <1>1, <1>2, <2>1
  <2>3. hostname(host) = [host EXCEPT !.name = n]
    BY <1>2, <2>1 DEF hostname
  <2>4. [host EXCEPT !.name = n] \in HostTexts /\ [host EXCEPT !.name = n].name = n
    BY <2>2 DEF HostTexts
  <2> QED
    BY <1>2, <2>1, <2>2, <2>3, <2>4
<1>3. CASE host.name \notin DOMAIN toASCII
  BY <1>3 DEF hostname
<1> QED
  BY <1>2, <1>3

(* The site of host text that has no other spelling has none either. *)
LEMMA SiteIsSpelled ==
  ASSUME NEW host \in HostTexts, host.name # "", host.name \notin DOMAIN toASCII
  PROVE  authorityOf(host).site \notin DOMAIN toASCII
<1>1. PICK h \in HostTexts : h = BareHost(host) /\ h.name = host.name
  BY AuthorityIs
<1>2. /\ h \in DOMAIN registrableDomain => registrableDomain[h] \notin DOMAIN toASCII
      /\ h \in DOMAIN addressIn => addressIn[h] \notin DOMAIN toASCII
  BY <1>1, LinkAssumption
<1>3. authorityOf(host).site = LET domain == Lookup(registrableDomain, h)
                                   address == Lookup(addressIn, h)
                               IN  IF domain # NoValue THEN domain
                                   ELSE IF address # NoValue THEN address ELSE h.name
  BY <1>1 DEF authorityOf
<1> QED
  BY <1>1, <1>2, <1>3 DEF Lookup

(* A host has the site of one that is spelled as URL.hostname does only    *)
(* when its own such spelling has it.                                      *)
LEMMA SameSpelled ==
  ASSUME NEW host \in HostTexts, host.name # "",
         NEW to \in HostTexts, to.name # "", to.name \notin DOMAIN toASCII,
         authorityOf(to).site = authorityOf(host).site
  PROVE  authorityOf(to).site = authorityOf(hostname(host)).site
<1>1. authorityOf(to).site \notin DOMAIN toASCII
  BY SiteIsSpelled
<1>2. CASE host.name \notin DOMAIN toASCII
  BY <1>2 DEF hostname
<1>3. CASE host.name \in DOMAIN toASCII
  <2> DEFINE h == [name |-> host.name, root |-> FALSE, brackets |-> FALSE]
  <2>1. BareHost(host) = h /\ BareHost(h) = h /\ h \in HostTexts
    <3>1. ASSUME NEW r \in HostTexts
          PROVE  /\ BareHost(r) \in HostTexts /\ BareHost(r).name = r.name
                 /\ BareHost(r).root = FALSE /\ BareHost(r).brackets = FALSE
      <4>1. PICK bare : bare = [r EXCEPT !.root = FALSE]
        OBVIOUS
      <4>2. bare \in HostTexts /\ bare.name = r.name /\ bare.root = FALSE
        BY <4>1 DEF HostTexts
      <4>3. PICK plain : plain = [bare EXCEPT !.brackets = FALSE]
        OBVIOUS
      <4>4. plain \in HostTexts /\ plain.name = r.name /\ plain.root = FALSE /\ plain.brackets = FALSE
        BY <4>2, <4>3 DEF HostTexts
      <4>5. BareHost(r) = plain
        BY <4>1, <4>3 DEF BareHost
      <4> QED
        BY <4>4, <4>5
    <3>2. \A q \in HostTexts : q = [name |-> q.name, root |-> q.root, brackets |-> q.brackets]
      <4>1. ASSUME NEW S, NEW T, NEW q \in [name : S, root : T, brackets : T]
            PROVE  q = [name |-> q.name, root |-> q.root, brackets |-> q.brackets]
        OBVIOUS
      <4> QED
        BY <4>1 DEF HostTexts
    <3>3. host.name \in STRING
      BY DEF HostTexts
    <3>4. h \in HostTexts /\ h.name = host.name
      BY <3>3 DEF HostTexts
    <3> HIDE DEF h
    <3>5. BareHost(host) = h
      BY <3>1, <3>2 DEF h
    <3>6. BareHost(h) = h
      BY <3>1, <3>2, <3>4 DEF h
    <3> QED
      BY <3>4, <3>5, <3>6
  <2>2. BareHost(hostname(host)) = BareHost(hostname(h))
    <3>1. PICK n : n = toASCII[host.name]
      OBVIOUS
    <3>2. hostname(host) = [host EXCEPT !.name = n] /\ hostname(h) = [h EXCEPT !.name = n]
      BY <1>3, <3>1 DEF hostname
    <3>3. BareHost([host EXCEPT !.name = n]) = BareHost([h EXCEPT !.name = n])
      BY DEF BareHost, HostTexts
    <3> QED
      BY <3>2, <3>3
  <2>3. authorityOf(h).site \in DOMAIN toASCII \cup {authorityOf(hostname(h)).site}
    <3>1. \A n \in DOMAIN toASCII :
            LET g == [name |-> n, root |-> FALSE, brackets |-> FALSE]
            IN  authorityOf(g).site \in DOMAIN toASCII \cup {authorityOf(hostname(g)).site}
      BY LinkAssumption, Zenon
    <3> QED
      BY <1>3, <3>1, Zenon
  <2> HIDE DEF h
  <2>4. authorityOf(host) = authorityOf(h) /\ authorityOf(hostname(host)) = authorityOf(hostname(h))
    BY <2>1, <2>2 DEF authorityOf
  <2> QED
    BY <1>1, <2>3, <2>4
<1> QED
  BY <1>2, <1>3

LEMMA MemberOf ==
  ASSUME NEW S, NEW s \in Seq(S), NEW k \in DOMAIN s
  PROVE  s[k] \in S
OBVIOUS

(* What a parameter contributes depends on the pair, and on whether the    *)
(* pairs are an authorization request.                                     *)
Contribution(request, q, site) ==
  LET host == targetHost(q.value)
      scheme == dangerousPayloadScheme(q.value)
      authority == authorityOf(host)
  IN  IF q.key \notin REDIRECT_PARAMS \/ Empty(q.value) THEN <<>>
      ELSE IF host = NoValue
           THEN IF scheme = NoValue THEN <<>> ELSE <<Payload(q.key, scheme, NoValue, scheme)>>
      ELSE IF authority = NoValue THEN <<>>
      ELSE IF \/ authority.site = site
              \/ q.key = OAUTH_REDIRECT_PARAM /\ request /\ authority.domain # NoValue THEN <<>>
      ELSE <<Payload(q.key, authority.site, authority.domain, NoValue)>>

(* A piece lures when its pair contributes: then one payload, of its own   *)
(* name, for another site than the input's.                                *)
LEMMA PieceContributes ==
  ASSUME NEW pieces \in Seq(QueryPiece), NEW k \in DOMAIN pieces, pieces[k].value # NoValue,
         NEW host \in HostTexts, host.name # "",
         NEW request, request \in BOOLEAN,
         request <=> \E m \in DOMAIN pieces :
                       /\ pieces[m].key.name = OAUTH_CLIENT_ID_PARAM
                       /\ pieces[m].key.depth <= MaxDecodeDepth
                       /\ pieces[m].value # NoValue /\ pieces[m].value.form # "empty"
  PROVE  LET c == Contribution(request, PairOf(pieces[k]), authorityOf(host).site)
             lures == LeadsAway(pieces, k, host) /\ ~Handoff(pieces, k)
         IN  /\ ~lures => c = <<>>
             /\ lures => \E pl \in RedirectPayload :
                           /\ c = <<pl>> /\ pl.param = pieces[k].key.name
                           /\ pl.domain # NoValue => /\ pl.domain = pl.targetSite
                                                     /\ pl.domain # authorityOf(host).site
<1>0. pieces[k] \in QueryPiece
  BY MemberOf
<1> DEFINE q == PairOf(pieces[k])
           v == pieces[k].value
           name == pieces[k].key.name
           site == authorityOf(host).site
           c == Contribution(request, q, site)
           lures == LeadsAway(pieces, k, host) /\ ~Handoff(pieces, k)
           named == v.form \in {"protocol-relative", "absolute"} /\ v.host # NoValue
           readable == v.depth <= MaxDecodeDepth
<1>1. /\ pieces[k] \in QueryPiece /\ v \in Values /\ name \in STRING /\ pieces[k].key.depth \in Nat
      /\ v.depth \in Nat
  <2>1. pieces[k] \in QueryPiece
    BY <1>0
  <2>2. v \in Values /\ name \in STRING /\ pieces[k].key.depth \in Nat
    BY <2>1 DEF QueryPiece
  <2>3. \A w \in Values : w.depth \in Nat
    BY DEF Values
  <2> QED
    BY <2>1, <2>2, <2>3
<1>2. /\ q.value = v
      /\ q.key = IF pieces[k].key.depth <= MaxDecodeDepth THEN name ELSE "encoded"
      /\ Readable(v) <=> readable
  BY <1>1, ReadableIs DEF PairOf
<1>3. /\ v.scheme \in STRING \cup {NoValue} /\ v.host \in HostTexts \cup {NoValue}
      /\ v.form \in {"empty", "opaque", "protocol-relative", "absolute"}
      /\ v.form = "empty" => v.scheme = NoValue /\ v.host = NoValue
      /\ v.form = "opaque" => v.host = NoValue
      /\ NoValue \notin STRING
  BY <1>1, LinkAssumption DEF Values
<1>4. /\ targetHost(v) = IF readable /\ named THEN hostname(v.host) ELSE NoValue
      /\ dangerousPayloadScheme(v) =
           IF readable /\ v.scheme \in DANGEROUS_PAYLOAD_SCHEMES THEN v.scheme ELSE NoValue
      /\ Empty(v) <=> v.form = "empty"
  BY <1>2, <1>3 DEF targetHost, dangerousPayloadScheme, Empty
<1>5. LeadsAway(pieces, k, host) <=>
        /\ name \in REDIRECT_PARAMS /\ pieces[k].key.depth <= MaxDecodeDepth /\ readable
        /\ IF ~named THEN v.scheme \in DANGEROUS_PAYLOAD_SCHEMES
           ELSE authorityOf(hostname(v.host)) # NoValue /\ authorityOf(hostname(v.host)).site # site
  BY DEF LeadsAway
<1>6. Handoff(pieces, k) <=>
        /\ name = OAUTH_REDIRECT_PARAM
        /\ v.host # NoValue /\ BareHost(hostname(v.host)) \in DOMAIN registrableDomain
        /\ request
  BY DEF Handoff
<1>7. q.key \in REDIRECT_PARAMS <=> name \in REDIRECT_PARAMS /\ pieces[k].key.depth <= MaxDecodeDepth
  BY <1>2 DEF REDIRECT_PARAMS
<1> HIDE DEF q, v, name, site, readable
<1>8. c = LET to == targetHost(v)
              scheme == dangerousPayloadScheme(v)
              authority == authorityOf(to)
          IN  IF q.key \notin REDIRECT_PARAMS \/ Empty(v) THEN <<>>
              ELSE IF to = NoValue
                   THEN IF scheme = NoValue THEN <<>> ELSE <<Payload(q.key, scheme, NoValue, scheme)>>
              ELSE IF authority = NoValue THEN <<>>
              ELSE IF \/ authority.site = site
                      \/ q.key = OAUTH_REDIRECT_PARAM /\ request /\ authority.domain # NoValue THEN <<>>
              ELSE <<Payload(q.key, authority.site, authority.domain, NoValue)>>
  BY <1>2 DEF Contribution
<1> HIDE DEF c
<1>9. CASE ~ (name \in REDIRECT_PARAMS /\ pieces[k].key.depth <= MaxDecodeDepth /\ readable)
  <2>1. ~ lures
    BY <1>5, <1>9
  <2>2. CASE q.key \notin REDIRECT_PARAMS
    BY <1>8, <2>1, <2>2 DEF c, q, site
  <2>3. CASE q.key \in REDIRECT_PARAMS
    <3>1. ~ readable
      BY <1>7, <1>9, <2>3
    <3>2. targetHost(v) = NoValue /\ dangerousPayloadScheme(v) = NoValue
      BY <1>4, <3>1
    <3>3. c = <<>>
      BY <1>8, <3>2
    <3> QED
      BY <2>1, <3>3 DEF c, q, site
  <2> QED
    BY <2>2, <2>3
<1>10. CASE /\ name \in REDIRECT_PARAMS /\ pieces[k].key.depth <= MaxDecodeDepth /\ readable
            /\ ~named
  <2>1. q.key = name /\ targetHost(v) = NoValue /\ q.key \in REDIRECT_PARAMS
    BY <1>2, <1>4, <1>10 DEF q, name
  <2>2. lures <=> v.scheme \in DANGEROUS_PAYLOAD_SCHEMES
    BY <1>3, <1>5, <1>6, <1>10
  <2>3. CASE v.scheme \in DANGEROUS_PAYLOAD_SCHEMES
    <3>1. v.scheme # NoValue => dangerousPayloadScheme(v) = v.scheme
      BY <1>4, <1>10, <2>3
    <3>2. v.scheme # NoValue
      BY <2>3, LinkAssumption
    <3>3. ~Empty(v)
      BY <1>3, <1>4, <3>2
    <3>4. c = <<Payload(name, v.scheme, NoValue, v.scheme)>>
      BY <1>8, <2>1, <3>1, <3>2, <3>3
    <3>5. v.scheme \in STRING /\ name \in STRING
      BY <1>1, <1>3, <3>2
    <3>6. PICK pl : pl = Payload(name, v.scheme, NoValue, v.scheme)
      OBVIOUS
    <3>7. pl \in RedirectPayload /\ pl.param = name /\ pl.domain = NoValue
      BY <3>5, <3>6 DEF Payload, RedirectPayload
    <3> QED
      BY <2>2, <2>3, <3>4, <3>6, <3>7 DEF c, q, site, name
  <2>4. CASE v.scheme \notin DANGEROUS_PAYLOAD_SCHEMES
    <3>1. dangerousPayloadScheme(v) = NoValue
      BY <1>4, <2>4
    <3>2. c = <<>>
      BY <1>8, <2>1, <3>1
    <3> QED
      BY <2>2, <2>4, <3>2 DEF c, q, site
  <2> QED
    BY <2>3, <2>4
<1>11. CASE /\ name \in REDIRECT_PARAMS /\ pieces[k].key.depth <= MaxDecodeDepth /\ readable
            /\ named
  <2> DEFINE to == authorityOf(hostname(v.host))
  <2>1. /\ q.key = name /\ targetHost(v) = hostname(v.host) /\ q.key \in REDIRECT_PARAMS /\ v.host # NoValue
        /\ ~Empty(v)
    BY <1>2, <1>3, <1>4, <1>11 DEF q, name
  <2>2. hostname(v.host) \in HostTexts /\ hostname(v.host) # NoValue
    BY <1>3, <2>1, HostnameIs, LinkAssumption
  <2>3. /\ hostname(v.host).name = "" => to = NoValue
        /\ hostname(v.host).name # "" =>
              /\ to \in Authority /\ to # NoValue
              /\ to.domain # NoValue => to.site = to.domain
              /\ to.domain # NoValue <=> BareHost(hostname(v.host)) \in DOMAIN registrableDomain
    BY <2>2, AuthorityIs
  <2>4. lures <=> /\ to # NoValue /\ to.site # site
                  /\ ~ (name = OAUTH_REDIRECT_PARAM /\ request /\ BareHost(hostname(v.host)) \in DOMAIN registrableDomain)
    BY <1>5, <1>6, <1>11, <2>1
  <2>5. c = IF to = NoValue THEN <<>>
            ELSE IF \/ to.site = site
                    \/ name = OAUTH_REDIRECT_PARAM /\ request /\ to.domain # NoValue THEN <<>>
            ELSE <<Payload(name, to.site, to.domain, NoValue)>>
    BY <1>8, <2>1, <2>2
  <2> HIDE DEF to
  <2>6. CASE ~ lures
    <3>1. c = <<>>
      BY <2>3, <2>4, <2>5, <2>6
    <3> QED
      BY <2>6, <3>1 DEF c, q, site
  <2>7. CASE lures
    <3>1. /\ to # NoValue /\ to.site # site /\ to \in Authority
          /\ to.domain # NoValue => to.site = to.domain
          /\ c = <<Payload(name, to.site, to.domain, NoValue)>>
      BY <2>3, <2>4, <2>5, <2>7
    <3>2. PICK pl : pl = Payload(name, to.site, to.domain, NoValue)
      OBVIOUS
    <3>3. to.site \in STRING /\ to.domain \in STRING \cup {NoValue}
      BY <3>1 DEF Authority
    <3>4. pl \in RedirectPayload /\ pl.param = name /\ pl.domain = to.domain /\ pl.targetSite = to.site
      BY <1>1, <3>2, <3>3 DEF Payload, RedirectPayload
    <3> QED
      BY <2>7, <3>1, <3>2, <3>4 DEF c, q, site, name
  <2> QED
    BY <2>6, <2>7
<1> QED
  BY <1>9, <1>10, <1>11

LEMMA ShortLists ==
  /\ ToSet(<<>>) = {} /\ \A x : ToSet(<<x>>) = {x}
  /\ \A S : <<>> \in Seq(S) /\ \A x \in S : <<x>> \in Seq(S)
<1>1. ToSet(<<>>) = {}
  BY DEF ToSet
<1>2. ASSUME NEW x PROVE ToSet(<<x>>) = {x}
  BY DEF ToSet
<1>3. ASSUME NEW S PROVE <<>> \in Seq(S) /\ \A x \in S : <<x>> \in Seq(S)
  OBVIOUS
<1> QED
  BY <1>1, <1>2, <1>3

LEMMA HasLength ==
  ASSUME NEW S, NEW s \in Seq(S)
  PROVE  Len(s) \in Nat /\ DOMAIN s = 1..Len(s) /\ \E n \in Nat : DOMAIN s = 1..n
OBVIOUS

LuredOn(pieces, host) ==
  {pieces[n].key.name : n \in {k \in DOMAIN pieces : LeadsAway(pieces, k, host) /\ ~Handoff(pieces, k)}}

(* An authorization request is seen in the pairs when it is in the pieces. *)
LEMMA RequestIs ==
  ASSUME NEW pieces \in Seq(QueryPiece)
  PROVE  IsAuthorizationRequest(queryPairs(pieces)) <=>
           \E m \in DOMAIN pieces :
             /\ pieces[m].key.name = OAUTH_CLIENT_ID_PARAM
             /\ pieces[m].key.depth <= MaxDecodeDepth
             /\ pieces[m].value # NoValue /\ pieces[m].value.form # "empty"
<1> DEFINE pairs == queryPairs(pieces)
           Asks(q) == q.key = OAUTH_CLIENT_ID_PARAM /\ ~Empty(q.value)
<1>1. ToSet(pairs) = {PairOf(pieces[k]) : k \in {n \in DOMAIN pieces : pieces[n].value # NoValue}}
  BY PairsAre
<1>2. IsAuthorizationRequest(pairs) <=> \E q \in ToSet(pairs) : Asks(q)
  BY DEF IsAuthorizationRequest, ToSet
<1> HIDE DEF pairs
<1>3. ASSUME NEW m \in DOMAIN pieces
      PROVE  Asks(PairOf(pieces[m])) <=> /\ pieces[m].key.name = OAUTH_CLIENT_ID_PARAM
                                         /\ pieces[m].key.depth <= MaxDecodeDepth
                                         /\ pieces[m].value.form # "empty"
  <2>1. pieces[m].key.depth \in Nat
    <3>1. pieces[m] \in QueryPiece
      BY MemberOf
    <3> QED
      BY <3>1 DEF QueryPiece
  <2>2. Readable(pieces[m].key) <=> pieces[m].key.depth <= MaxDecodeDepth
    BY <2>1, ReadableIs
  <2> QED
    BY <2>2 DEF PairOf, Empty, OAUTH_CLIENT_ID_PARAM
<1> HIDE DEF Asks
<1>4. (\E q \in ToSet(pairs) : Asks(q)) <=>
        \E m \in DOMAIN pieces : pieces[m].value # NoValue /\ Asks(PairOf(pieces[m]))
  BY <1>1
<1> QED
  BY <1>2, <1>3, <1>4 DEF pairs

(* What a surface yields: payloads of lures only, and one when there is a  *)
(* lure.                                                                   *)
LEMMA SurfaceReports ==
  ASSUME NEW pieces \in Seq(QueryPiece), NEW host \in HostTexts, host.name # ""
  PROVE  LET out == openRedirectParamPayloads(pieces, authorityOf(host).site)
         IN  /\ out \in Seq(RedirectPayload)
             /\ LuredOn(pieces, host) # {} => ToSet(out) # {}
             /\ \A pl \in ToSet(out) :
                  /\ pl.param \in LuredOn(pieces, host)
                  /\ pl.domain # NoValue => /\ pl.domain = pl.targetSite
                                            /\ pl.domain # authorityOf(host).site
<1> DEFINE pairs == queryPairs(pieces)
           site == authorityOf(host).site
           request == IsAuthorizationRequest(pairs)
           One(i) == Contribution(request, pairs[i], site)
           ss == [i \in DOMAIN pairs |-> payloadsOf(pairs, i, site)]
           Luring(k) == LeadsAway(pieces, k, host) /\ ~Handoff(pieces, k)
           Fine(pl) == /\ pl.param \in LuredOn(pieces, host)
                       /\ pl.domain # NoValue => pl.domain = pl.targetSite /\ pl.domain # site
<1>1. pairs \in Seq(NamedPair)
      /\ ToSet(pairs) = {PairOf(pieces[k]) : k \in {n \in DOMAIN pieces : pieces[n].value # NoValue}}
  BY PairsAre
<1>2. request \in BOOLEAN /\
      (request <=> \E m \in DOMAIN pieces :
                     /\ pieces[m].key.name = OAUTH_CLIENT_ID_PARAM
                     /\ pieces[m].key.depth <= MaxDecodeDepth
                     /\ pieces[m].value # NoValue /\ pieces[m].value.form # "empty")
  BY RequestIs DEF IsAuthorizationRequest
<1>3. ASSUME NEW k \in DOMAIN pieces, pieces[k].value # NoValue
      PROVE  /\ ~Luring(k) => Contribution(request, PairOf(pieces[k]), site) = <<>>
             /\ Luring(k) => \E pl \in RedirectPayload :
                               /\ Contribution(request, PairOf(pieces[k]), site) = <<pl>>
                               /\ pl.param = pieces[k].key.name
                               /\ pl.domain # NoValue => pl.domain = pl.targetSite /\ pl.domain # site
  BY <1>2, <1>3, PieceContributes
<1>4. \A k \in DOMAIN pieces : Luring(k) => pieces[k].value # NoValue
  BY DEF LeadsAway
<1>5. LuredOn(pieces, host) = {pieces[n].key.name : n \in {k \in DOMAIN pieces : Luring(k)}}
  BY DEF LuredOn
<1>6. \A i \in DOMAIN pairs : payloadsOf(pairs, i, site) = One(i)
  BY DEF payloadsOf, Contribution, Exempt
<1>7. openRedirectParamPayloads(pieces, site) = FlattenSeq(ss)
  BY DEF openRedirectParamPayloads
<1>8. PICK n \in Nat : DOMAIN pairs = 1..n
  <2> HIDE DEF pairs
  <2>1. pairs \in Seq(NamedPair)
    BY <1>1
  <2> QED
    BY <2>1, HasLength
<1> HIDE DEF pairs, site, request, Luring
<1>9. ASSUME NEW i \in 1..n
      PROVE  One(i) \in Seq(RedirectPayload) /\ \A pl \in ToSet(One(i)) : Fine(pl)
  <2>1. pairs[i] \in ToSet(pairs)
    BY <1>8 DEF ToSet
  <2>2. PICK k \in DOMAIN pieces : pieces[k].value # NoValue /\ pairs[i] = PairOf(pieces[k])
    BY <1>1, <2>1
  <2>3. CASE ~ Luring(k)
    <3>1. One(i) = <<>>
      BY <1>3, <2>2, <2>3
    <3>2. <<>> \in Seq(RedirectPayload) /\ ToSet(<<>>) = {}
      BY ShortLists
    <3> QED
      BY <3>1, <3>2
  <2>4. CASE Luring(k)
    <3>1. PICK pl \in RedirectPayload :
            /\ One(i) = <<pl>> /\ pl.param = pieces[k].key.name
            /\ pl.domain # NoValue => pl.domain = pl.targetSite /\ pl.domain # site
      BY <1>3, <2>2, <2>4
    <3>2. <<pl>> \in Seq(RedirectPayload) /\ ToSet(<<pl>>) = {pl}
      BY ShortLists
    <3>3. pl.param \in LuredOn(pieces, host)
      BY <1>5, <2>4, <3>1
    <3>4. Fine(pl)
      BY <3>1, <3>3
    <3> HIDE DEF One, Fine
    <3> QED
      BY <3>1, <3>2, <3>4
  <2> QED
    BY <2>3, <2>4
<1>10. ASSUME NEW k \in DOMAIN pieces, Luring(k)
       PROVE  \E i \in 1..n : ToSet(One(i)) # {}
  <2>1. pieces[k].value # NoValue
    BY <1>4, <1>10
  <2>2. PairOf(pieces[k]) \in ToSet(pairs)
    BY <1>1, <2>1
  <2>3. PICK i \in 1..n : pairs[i] = PairOf(pieces[k])
    BY <1>8, <2>2 DEF ToSet
  <2>4. PICK pl : One(i) = <<pl>>
    BY <1>3, <1>10, <2>1, <2>3
  <2>5. pl \in ToSet(<<pl>>)
    BY ShortLists
  <2> QED
    BY <2>4, <2>5
<1>11. ss \in [1..n -> Seq(RedirectPayload)] /\ \A i \in 1..n : ss[i] = One(i)
  <2> HIDE DEF One
  <2> QED
    BY <1>6, <1>8, <1>9
<1> HIDE DEF ss, One, Fine
<1>12. /\ FlattenSeq(ss) \in Seq(RedirectPayload)
       /\ ToSet(FlattenSeq(ss)) = UNION {ToSet(ss[i]) : i \in 1..n}
  BY <1>11, FlattenIs
<1>13. \A pl \in ToSet(FlattenSeq(ss)) : Fine(pl)
  BY <1>9, <1>11, <1>12
<1>14. ASSUME LuredOn(pieces, host) # {} PROVE ToSet(FlattenSeq(ss)) # {}
  <2>1. PICK k \in DOMAIN pieces : Luring(k)
    BY <1>5, <1>14
  <2>2. PICK i \in 1..n : ToSet(ss[i]) # {}
    BY <1>10, <1>11, <2>1
  <2> QED
    BY <1>12, <2>2
<1> QED
  BY <1>7, <1>12, <1>13, <1>14 DEF Fine, site

(* An intent's fallback is reported only for something to execute. *)
LEMMA FallbackIs ==
  ASSUME NEW fragment, fragment.before \in Seq(QueryPiece)
  PROVE  LET p == intentFallbackPayload(fragment)
         IN  p # NoValue => fragment.kind = "intent" /\ p.dangerousScheme # NoValue
<1> DEFINE extras == queryPairs(intentExtras(fragment))
           executable == {n \in DOMAIN extras : /\ extras[n].key \in INTENT_FALLBACK_PARAMS
                                                /\ ~Empty(extras[n].value)
                                                /\ dangerousPayloadScheme(extras[n].value) # NoValue}
           p == extras[Min(executable)]
           scheme == dangerousPayloadScheme(p.value)
<1>1. intentFallbackPayload(fragment) =
        IF executable = {} THEN NoValue ELSE Payload(p.key, scheme, NoValue, scheme)
  BY DEF intentFallbackPayload
<1>2. intentExtras(fragment) \in Seq(QueryPiece)
  BY ShortLists DEF intentExtras
<1>3. extras \in Seq(NamedPair)
  BY <1>2, PairsAre
<1>4. ASSUME fragment.kind # "intent" PROVE executable = {}
  <2>1. intentExtras(fragment) = <<>>
    BY <1>4 DEF intentExtras
  <2>2. <<>> \in Seq(QueryPiece) /\ DOMAIN <<>> = {}
    BY ShortLists, HasLength
  <2>3. ToSet(extras) = {}
    BY <2>1, <2>2, PairsAre
  <2>4. DOMAIN extras = {}
    BY <2>3 DEF ToSet
  <2> QED
    BY <2>4
<1>5. ASSUME executable # {} PROVE Min(executable) \in executable
  <2>1. executable \in SUBSET Nat
    <3>1. DOMAIN extras = 1..Len(extras) /\ Len(extras) \in Nat
      <4> HIDE DEF extras
      <4> QED
        BY <1>3, HasLength
    <3> HIDE DEF extras
    <3> QED
      BY <3>1
  <2> HIDE DEF executable
  <2>2. PICK n \in executable : \A m \in executable : m >= n
    BY <1>5, <2>1, LeastNumber
  <2>3. \E x \in executable : \A y \in executable : x <= y
    BY <2>1, <2>2
  <2> QED
    BY <2>3 DEF Min
<1> HIDE DEF extras
<1>6. ASSUME executable # {} PROVE scheme # NoValue
  BY <1>5, <1>6
<1>7. \A s : Payload(p.key, s, NoValue, s).dangerousScheme = s
  BY DEF Payload
<1> HIDE DEF executable, p, scheme
<1> QED
  BY <1>1, <1>4, <1>6, <1>7

(* A link that has been scanned is one of the links, with its finding. *)
LinkInv == link.asked => link.url \in Links /\ link.finding = openRedirectParam(link.url)

(* What lures away from a host lures away from any spelling of it, and the *)
(* two differ for a host alone that has another spelling.                  *)
LEMMA LuredAnyhow ==
  ASSUME NEW pieces \in Seq(QueryPiece), NEW host \in HostTexts, host.name # ""
  PROVE  LuredOn(pieces, hostname(host)) \subseteq LuredOn(pieces, host)
<1> SUFFICES ASSUME NEW k \in DOMAIN pieces, LeadsAway(pieces, k, hostname(host)),
                    ~Handoff(pieces, k)
             PROVE  LeadsAway(pieces, k, host)
  BY DEF LuredOn
<1> DEFINE v == pieces[k].value
           to == authorityOf(hostname(v.host))
           named == v.form \in {"protocol-relative", "absolute"} /\ v.host # NoValue
<1>1. CASE ~named
  BY <1>1 DEF LeadsAway
<1>2. CASE named
  <2>1. v # NoValue /\ to # NoValue /\ to.site # authorityOf(hostname(host)).site
    BY <1>2 DEF LeadsAway
  <2>2. v.host \in HostTexts
    <3>1. pieces[k] \in QueryPiece
      BY MemberOf
    <3>2. v \in Values
      BY <2>1, <3>1 DEF QueryPiece
    <3>3. v.host \in HostTexts \cup {NoValue}
      BY <3>2 DEF Values
    <3> QED
      BY <1>2, <3>3
  <2>3. /\ hostname(v.host) \in HostTexts /\ hostname(v.host).name \notin DOMAIN toASCII
        /\ hostname(v.host).name # ""
    BY <2>1, <2>2, HostnameIs, AuthorityIs
  <2>4. to.site # authorityOf(host).site
    BY <2>1, <2>3, SameSpelled
  <2> QED
    BY <1>2, <2>1, <2>4 DEF LeadsAway
<1> QED
  BY <1>1, <1>2

(* A link that lures away is reported, and what is reported is a lure. *)
LEMMA LuresReported == LinkInv => LuresAreReported
<1> SUFFICES ASSUME LinkInv, link.asked PROVE LuresAreReported
  BY DEF LuresAreReported
<1> DEFINE url == link.url
           finding == link.finding
           before == url.query
           after == fragmentQueryLike(url.fragment)
           input == authorityOf(url.host)
           first == openRedirectParamPayloads(before, input.site)
           second == openRedirectParamPayloads(after, input.site)
           spelled == hostname(url.host)
           lured == IF url.host.name = "" THEN {} ELSE Lures(url, spelled)
           told == IF url.host.name = "" THEN {} ELSE Lures(url, url.host)
           blamed == lured \cup IF spelled = url.host THEN {} ELSE Lures(url, url.host)
           domain == Lookup(registrableDomain, BareHost(url.host))
           targets == openRedirectParamTargets(before, domain)
<1>1. url \in Links /\ finding = openRedirectParam(url)
  BY DEF LinkInv
<1> HIDE DEF url, finding
<1>2. /\ url.host \in HostTexts /\ before \in Seq(QueryPiece)
      /\ url.fragment.before \in Seq(QueryPiece) /\ url.fragment.after \in Seq(QueryPiece)
  <2>1. url \in [host : HostTexts, query : Seq(QueryPiece),
                 fragment : [kind : {"plain", "routed", "intent"},
                             before : Seq(QueryPiece), after : Seq(QueryPiece)]]
    BY <1>1, LinkAssumption
  <2> QED
    BY <2>1
<1>3. after \in Seq(QueryPiece)
  BY <1>2, ShortLists DEF fragmentQueryLike
<1>4. finding = IF input = NoValue THEN NoValue
                ELSE IF first \o second # <<>> THEN (first \o second)[1]
                ELSE intentFallbackPayload(url.fragment)
  BY <1>1 DEF openRedirectParam
<1>5. \A host : Lures(url, host) = LuredOn(before, host) \cup LuredOn(after, host)
  BY DEF Lures, LuredOn
<1>8. lured \subseteq told /\ told \subseteq blamed
  <2>1. CASE url.host.name = ""
    BY <2>1
  <2>2. CASE url.host.name # ""
    <3>1. /\ LuredOn(before, spelled) \subseteq LuredOn(before, url.host)
          /\ LuredOn(after, spelled) \subseteq LuredOn(after, url.host)
      BY <1>2, <1>3, <2>2, LuredAnyhow
    <3>2. Lures(url, spelled) \subseteq Lures(url, url.host)
      BY <1>5, <3>1
    <3> QED
      BY <2>2, <3>2
  <2> QED
    BY <2>1, <2>2
<1>6. CASE url.host.name = ""
  <2>1. input = NoValue /\ domain = NoValue
    BY <1>2, <1>6, AuthorityIs DEF Lookup
  <2>2. finding = NoValue /\ lured = {}
    BY <1>4, <1>6, <2>1
  <2>3. targets = <<>>
    BY <2>1 DEF openRedirectParamTargets
  <2>4. DOMAIN targets = {}
    BY <2>3
  <2> HIDE DEF targets, lured, blamed
  <2>5. /\ finding = NoValue => lured = {}
        /\ finding # NoValue => \/ finding.param \in blamed
                               \/ /\ lured = {} /\ url.fragment.kind = "intent"
                                  /\ finding.dangerousScheme # NoValue
        /\ \A n \in DOMAIN targets : /\ finding # NoValue /\ targets[n].param \in blamed
                                     /\ targets[n].domain # domain
    BY <2>2, <2>4
  <2> QED
    BY <2>5 DEF LuresAreReported, url, finding, lured, blamed, targets, before
<1>7. CASE url.host.name # ""
  <2>0. told = LuredOn(before, url.host) \cup LuredOn(after, url.host)
    BY <1>5, <1>7
  <2>1. /\ input # NoValue /\ input.domain = domain
        /\ domain # NoValue => input.site = domain
    BY <1>2, <1>7, AuthorityIs
  <2>2. /\ first \in Seq(RedirectPayload)
        /\ LuredOn(before, url.host) # {} => ToSet(first) # {}
        /\ \A pl \in ToSet(first) :
             /\ pl.param \in LuredOn(before, url.host)
             /\ pl.domain # NoValue => pl.domain = pl.targetSite /\ pl.domain # input.site
    BY <1>2, <1>7, SurfaceReports
  <2>3. /\ second \in Seq(RedirectPayload)
        /\ LuredOn(after, url.host) # {} => ToSet(second) # {}
        /\ \A pl \in ToSet(second) : pl.param \in LuredOn(after, url.host)
    BY <1>2, <1>3, <1>7, SurfaceReports
  <2> DEFINE found == first \o second
  <2>4. found \in Seq(RedirectPayload) /\ ToSet(found) = ToSet(first) \cup ToSet(second)
    <3> HIDE DEF first, second
    <3> QED
      BY <2>2, <2>3, JoinHolds
  <2>5. finding = IF found # <<>> THEN found[1] ELSE intentFallbackPayload(url.fragment)
    BY <1>4, <2>1
  <2> HIDE DEF input, first, second, found, told, before, after
  <2>6. NoValue \notin RedirectPayload
    BY LinkAssumption
  <2>7. found # <<>> => found[1] \in ToSet(found) /\ found[1] \in RedirectPayload
    <3>1. found # <<>> => 1 \in DOMAIN found
      BY <2>4
    <3> QED
      BY <2>4, <3>1, MemberOf DEF ToSet
  <2>8. found = <<>> <=> ToSet(found) = {}
    <3>1. found = <<>> => ToSet(found) = {}
      BY ShortLists
    <3> QED
      BY <2>7, <3>1
  <2>9. told # {} <=> found # <<>>
    BY <2>0, <2>2, <2>3, <2>4, <2>7, <2>8
  <2>10. found # <<>> => finding # NoValue /\ finding.param \in told
    BY <2>0, <2>2, <2>3, <2>4, <2>5, <2>6, <2>7
  <2>11. finding = NoValue => told = {}
    BY <2>9, <2>10
  <2>12. finding # NoValue => \/ finding.param \in told
                              \/ /\ told = {} /\ url.fragment.kind = "intent"
                                 /\ finding.dangerousScheme # NoValue
    BY <1>2, <2>5, <2>9, <2>10, FallbackIs
  <2>13. ASSUME NEW n \in DOMAIN targets
         PROVE  finding # NoValue /\ targets[n].param \in told /\ targets[n].domain # domain
    <3> DEFINE out == openRedirectParamPayloads(before, domain)
               One(m) == IF out[m].domain = NoValue THEN <<>> ELSE <<out[m]>>
               ss == [m \in DOMAIN out |-> One(m)]
    <3>1. domain # NoValue
      <4>1. ASSUME domain = NoValue PROVE DOMAIN targets = {}
        <5>1. targets = <<>>
          BY <4>1 DEF openRedirectParamTargets
        <5> QED
          BY <5>1
      <4> QED
        BY <4>1
    <3>2. out = first
      BY <2>1, <3>1 DEF first
    <3>3. targets = FlattenSeq(ss)
      BY <3>1 DEF openRedirectParamTargets
    <3> HIDE DEF out, targets
    <3>4. PICK k \in Nat : DOMAIN out = 1..k
      BY <2>2, <3>2, HasLength
    <3>5. \A m \in 1..k : out[m] \in RedirectPayload /\ out[m] \in ToSet(out)
      BY <2>2, <3>2, <3>4, MemberOf DEF ToSet
    <3>6. \A m \in 1..k : /\ One(m) \in Seq(RedirectPayload)
                          /\ ToSet(One(m)) = IF out[m].domain = NoValue THEN {} ELSE {out[m]}
      BY <3>5, ShortLists
    <3>7. ss \in [1..k -> Seq(RedirectPayload)] /\ \A m \in 1..k : ss[m] = One(m)
      <4> HIDE DEF One
      <4> QED
        BY <3>4, <3>6
    <3> HIDE DEF ss, One
    <3>8. /\ FlattenSeq(ss) \in Seq(RedirectPayload)
          /\ ToSet(FlattenSeq(ss)) = UNION {ToSet(ss[m]) : m \in 1..k}
      BY <3>7, FlattenIs
    <3>9. targets[n] \in ToSet(targets)
      BY DEF ToSet
    <3>10. PICK m \in 1..k : targets[n] \in ToSet(ss[m])
      BY <3>3, <3>8, <3>9
    <3>11. targets[n] = out[m] /\ out[m].domain # NoValue
      BY <3>6, <3>7, <3>10
    <3>12. targets[n] \in ToSet(first) /\ targets[n].domain # NoValue
      BY <3>2, <3>5, <3>11
    <3>13. targets[n].param \in told /\ targets[n].domain # domain
      BY <2>0, <2>1, <2>2, <3>1, <3>12
    <3>14. found # <<>>
      BY <2>4, <2>8, <3>12
    <3> QED
      BY <2>10, <3>13, <3>14
  <2> HIDE DEF targets, blamed
  <2>14. /\ finding = NoValue => lured = {}
         /\ finding # NoValue => \/ finding.param \in blamed
                                \/ /\ lured = {} /\ url.fragment.kind = "intent"
                                   /\ finding.dangerousScheme # NoValue
         /\ \A n \in DOMAIN targets : /\ finding # NoValue /\ targets[n].param \in blamed
                                      /\ targets[n].domain # domain
    <3> HIDE DEF lured, domain
    <3> QED
      BY <1>8, <2>11, <2>12, <2>13
  <2> QED
    BY <2>14 DEF LuresAreReported, url, finding, lured, blamed, targets, before
<1> QED
  BY <1>6, <1>7

CompareInv ==
  /\ PairInv /\ LinkInv
  /\ part = "pair" => /\ pair = [left |-> pair.left, right |-> pair.right, answer |-> pair.answer]
                      /\ pair.left \in Sides /\ pair.right \in Sides
  /\ part = "link" => /\ link = [url |-> link.url, asked |-> link.asked, finding |-> link.finding]
                      /\ link.url \in Links

LEMMA CompareBegins == MCInit => CompareInv
<1> SUFFICES ASSUME MCInit PROVE CompareInv
  OBVIOUS
<1>1. PairInv /\ (part = "pair" => /\ pair = [left |-> pair.left, right |-> pair.right, answer |-> pair.answer]
                                   /\ pair.left \in Sides /\ pair.right \in Sides)
  <2>1. CASE part = "pair"
    <3>1. PICK x \in Sides, y \in Sides : pair = [left |-> x, right |-> y, answer |-> Nil]
      BY <2>1 DEF MCInit, PairInit
    <3> QED
      BY <3>1 DEF PairInv
  <2>2. CASE part # "pair"
    <3>1. pair.answer = Nil
      BY <2>2 DEF MCInit, PairRests
    <3> QED
      BY <2>2, <3>1 DEF PairInv
  <2> QED
    BY <2>1, <2>2
<1>2. LinkInv /\ (part = "link" => /\ link = [url |-> link.url, asked |-> link.asked, finding |-> link.finding]
                                   /\ link.url \in Links)
  <2>1. CASE part = "link"
    <3>1. PICK u \in Links : link = [url |-> u, asked |-> FALSE, finding |-> NoValue]
      BY <2>1 DEF MCInit, LinkInit
    <3> QED
      BY <3>1 DEF LinkInv
  <2>2. CASE part # "link"
    <3>1. link.asked = FALSE
      BY <2>2 DEF MCInit, LinkRests
    <3> QED
      BY <2>2, <3>1 DEF LinkInv
  <2> QED
    BY <2>1, <2>2
<1> QED
  BY <1>1, <1>2 DEF CompareInv

LEMMA CompareStep == CompareInv /\ [MCNext]_MCvars => CompareInv'
<1> SUFFICES ASSUME CompareInv, [MCNext]_MCvars PROVE CompareInv'
  OBVIOUS
<1>1. CASE UNCHANGED <<pair, link, part>>
  BY <1>1 DEF CompareInv, PairInv, LinkInv
<1>2. CASE part = "pair" /\ Compares /\ UNCHANGED <<link, part>>
  <2>1. /\ pair = [left |-> pair.left, right |-> pair.right, answer |-> pair.answer]
        /\ pair' = [pair EXCEPT !.answer = compareUrls(pair.left, pair.right)]
        /\ pair.left \in Sides /\ pair.right \in Sides
    BY <1>2 DEF CompareInv, Compares
  <2>2. /\ pair' = [left |-> pair'.left, right |-> pair'.right, answer |-> pair'.answer]
        /\ pair'.left = pair.left /\ pair'.right = pair.right
        /\ pair'.answer = compareUrls(pair.left, pair.right)
    BY <2>1
  <2>3. PairInv'
    BY <2>1, <2>2 DEF PairInv
  <2>4. LinkInv'
    BY <1>2 DEF CompareInv, LinkInv
  <2> QED
    BY <1>2, <2>1, <2>2, <2>3, <2>4 DEF CompareInv
<1>3. CASE part = "link" /\ ScansLink /\ UNCHANGED <<pair, part>>
  <2>1. /\ link = [url |-> link.url, asked |-> link.asked, finding |-> link.finding]
        /\ link' = [link EXCEPT !.asked = TRUE, !.finding = openRedirectParam(link.url)]
        /\ link.url \in Links
    BY <1>3 DEF CompareInv, ScansLink
  <2>2. /\ link' = [url |-> link'.url, asked |-> link'.asked, finding |-> link'.finding]
        /\ link'.url = link.url /\ link'.finding = openRedirectParam(link.url)
    BY <2>1
  <2>3. LinkInv'
    BY <2>1, <2>2 DEF LinkInv
  <2>4. PairInv'
    BY <1>3 DEF CompareInv, PairInv
  <2> QED
    BY <1>3, <2>1, <2>2, <2>3, <2>4 DEF CompareInv
<1> QED
  BY <1>1, <1>2, <1>3 DEF MCNext, MCvars, inputVars, Answered

(* Authorities are compared soundly: in every state of the check the       *)
(* answers of compareUrls are relations that contain one another, and a    *)
(* link that lures away from its host is reported, in whatever spelling,   *)
(* for any sides and any links; a host that is not written as URL.hostname *)
(* spells it is the one that is also taken for another than itself.        *)
THEOREM AuthoritiesCompared == MCSpec => []AuthoritiesAreCompared
<1>1. CompareInv => AuthoritiesAreCompared
  BY RelationsSound, LuresReported DEF CompareInv, AuthoritiesAreCompared
<1> QED
  BY <1>1, CompareBegins, CompareStep, PTL DEF MCSpec

-----------------------------------------------------------------------------
(***************************************************************************)
(* The parts of an authority.  Cutting a sequence at a delimiter loses     *)
(* that delimiter only.                                                    *)
(***************************************************************************)
LEMMA GreatestNumber ==
  ASSUME NEW n \in Nat, NEW T \in SUBSET (1..n), T # {}
  PROVE  \E x \in T : \A y \in T : x >= y
<1> DEFINE D == {n - x : x \in T}
<1>1. D \in SUBSET Nat /\ D # {}
  <2>1. \A x \in T : n - x \in Nat
    OBVIOUS
  <2>2. D \subseteq Nat
    BY <2>1
  <2>3. D # {}
    OBVIOUS
  <2> QED
    BY <2>2, <2>3
<1>2. PICK d \in D : \A e \in D : e >= d
  <2> HIDE DEF D
  <2> QED
    BY <1>1, LeastNumber
<1>3. PICK x \in T : d = n - x
  OBVIOUS
<1>4. ASSUME NEW y \in T PROVE x >= y
  <2>1. n - y >= n - x
    BY <1>2, <1>3
  <2>2. x \in Int /\ y \in Int
    OBVIOUS
  <2> QED
    BY <2>1, <2>2
<1> QED
  BY <1>4

LEMMA IndexIs ==
  ASSUME NEW S, NEW s \in Seq(S), NEW tok
  PROVE  /\ lastIndexOf(s, tok) # 0 => lastIndexOf(s, tok) \in 1..Len(s) /\ s[lastIndexOf(s, tok)] = tok
         /\ firstIndexOf(s, tok) # 0 => firstIndexOf(s, tok) \in 1..Len(s) /\ s[firstIndexOf(s, tok)] = tok
         /\ lastIndexOf(s, tok) \in Nat /\ firstIndexOf(s, tok) \in Nat
<1> DEFINE T == Positions(s, tok)
<1>1. Len(s) \in Nat /\ DOMAIN s = 1..Len(s)
  OBVIOUS
<1>2. T \in SUBSET (1..Len(s)) /\ \A n \in T : s[n] = tok
  BY <1>1 DEF Positions
<1>3. PICK m \in Nat : m = Len(s) /\ T \in SUBSET (1..m)
  BY <1>1, <1>2
<1> HIDE DEF T
<1>4. ASSUME T # {} PROVE Max(T) \in T /\ Min(T) \in T
  <2>1. \E x \in T : \A y \in T : x >= y
    BY <1>3, <1>4, GreatestNumber
  <2>2. T \in SUBSET Nat
    BY <1>3
  <2>3. PICK x \in T : \A y \in T : y >= x
    BY <1>4, <2>2, LeastNumber
  <2>4. \E z \in T : \A y \in T : z <= y
    BY <2>2, <2>3
  <2> QED
    BY <2>1, <2>4 DEF Max, Min
<1>5. \A x \in 1..m : x \in Nat
  OBVIOUS
<1> QED
  BY <1>2, <1>3, <1>4, <1>5 DEF lastIndexOf, firstIndexOf, T

LEMMA CutAt ==
  ASSUME NEW S, NEW s \in Seq(S), NEW i \in 1..Len(s)
  PROVE  /\ SubSeq(s, 1, i - 1) \in Seq(S) /\ From(s, i + 1) \in Seq(S)
         /\ (SubSeq(s, 1, i - 1) \o <<s[i]>>) \o From(s, i + 1) = s
<1>1. Len(s) \in Nat /\ 1 \in 1..Len(s) /\ i \in 1..Len(s) /\ i \in Nat
  OBVIOUS
<1>2. SubSeq(s, 1, i) = SubSeq(s, 1, i - 1) \o <<s[i]>>
  BY <1>1, SubSeqRecursiveSecond
<1>3. SubSeq(s, 1, i) \o SubSeq(s, i + 1, Len(s)) = SubSeq(s, 1, Len(s))
  BY <1>1, ConcatAdjacentSubSeq
<1>4. SubSeq(s, 1, Len(s)) = s
  BY SubSeqFull
<1>5. \A j \in 1..Len(s) : s[j] \in S
  OBVIOUS
<1>6. SubSeq(s, 1, i - 1) \in Seq(S) /\ SubSeq(s, i + 1, Len(s)) \in Seq(S)
  BY <1>1, <1>5, SubSeqProperties
<1> QED
  BY <1>2, <1>3, <1>4, <1>6 DEF From

LEMMA FirstOff ==
  ASSUME NEW S, NEW s \in Seq(S), s # <<>>
  PROVE  /\ 1 \in 1..Len(s) /\ s[1] \in S /\ From(s, 2) \in Seq(S)
         /\ <<s[1]>> \o From(s, 2) = s
<1>1. Len(s) \in Nat /\ 1 \in 1..Len(s) /\ Len(s) \in 1..Len(s)
  OBVIOUS
<1>2. SubSeq(s, 1, Len(s)) = <<s[1]>> \o SubSeq(s, 2, Len(s))
  BY <1>1, SubSeqRecursiveFirst
<1>3. SubSeq(s, 1, Len(s)) = s
  BY SubSeqFull
<1>4. \A j \in 1..Len(s) : s[j] \in S
  OBVIOUS
<1>5. SubSeq(s, 2, Len(s)) \in Seq(S)
  BY <1>1, <1>4, SubSeqProperties
<1> QED
  BY <1>1, <1>2, <1>3, <1>4, <1>5 DEF From

(* What stands behind a position. *)
LEMMA FromIs ==
  ASSUME NEW S, NEW s \in Seq(S), NEW i \in 0..Len(s)
  PROVE  /\ From(s, i + 1) \in Seq(S) /\ Len(From(s, i + 1)) = Len(s) - i
         /\ \A j \in 1..(Len(s) - i) : From(s, i + 1)[j] = s[i + j]
<1>1. Len(s) \in Nat /\ i \in Nat /\ i <= Len(s)
  OBVIOUS
<1>2. \A j \in (i + 1)..Len(s) : s[j] \in S
  BY <1>1
<1>3. i + 1 \in Int /\ Len(s) \in Int
  BY <1>1
<1> DEFINE t == SubSeq(s, i + 1, Len(s))
<1>4. /\ t \in Seq(S) /\ Len(t) = IF i + 1 <= Len(s) THEN Len(s) - (i + 1) + 1 ELSE 0
      /\ \A j \in 1..(Len(s) - (i + 1) + 1) : t[j] = s[(i + 1) + j - 1]
  BY <1>2, <1>3, SubSeqProperties
<1> HIDE DEF t
<1>5. Len(t) = Len(s) - i
  BY <1>1, <1>4
<1>6. \A j \in 1..(Len(s) - i) : t[j] = s[i + j]
  <2>1. \A j \in 1..(Len(s) - i) : (i + 1) + j - 1 = i + j /\ j \in 1..(Len(s) - (i + 1) + 1)
    BY <1>1
  <2> QED
    BY <1>4, <2>1
<1> QED
  BY <1>4, <1>5, <1>6 DEF From, t

(* A token with none behind it is the last, and with none before it the    *)
(* first.                                                                  *)
LEMMA IndexFound ==
  ASSUME NEW S, NEW s \in Seq(S), NEW tok
  PROVE  /\ \A i \in 1..Len(s) :
              s[i] = tok /\ (\A j \in (i + 1)..Len(s) : s[j] # tok) => lastIndexOf(s, tok) = i
         /\ \A i \in 1..Len(s) :
              s[i] = tok /\ (\A j \in 1..(i - 1) : s[j] # tok) => firstIndexOf(s, tok) = i
         /\ (\A j \in 1..Len(s) : s[j] # tok) => lastIndexOf(s, tok) = 0
<1>1. Len(s) \in Nat /\ DOMAIN s = 1..Len(s)
  OBVIOUS
<1>2. \A j : j \in Positions(s, tok) <=> j \in 1..Len(s) /\ s[j] = tok
  BY <1>1 DEF Positions
<1> DEFINE P == Positions(s, tok)
<1>3. ASSUME NEW i \in 1..Len(s), s[i] = tok, \A j \in (i + 1)..Len(s) : s[j] # tok
      PROVE  lastIndexOf(s, tok) = i
  <2>1. i \in P /\ \A j \in P : j \in Int /\ i >= j
    BY <1>1, <1>2, <1>3
  <2>2. Max(P) = CHOOSE x \in P : \A y \in P : x >= y
    BY DEF Max
  <2> HIDE DEF P
  <2>3. \A x \in P : (\A y \in P : x >= y) => x = i
    BY <2>1
  <2>4. Max(P) = i
    BY <2>1, <2>2, <2>3
  <2> QED
    BY <2>1, <2>4 DEF lastIndexOf, P
<1>4. ASSUME NEW i \in 1..Len(s), s[i] = tok, \A j \in 1..(i - 1) : s[j] # tok
      PROVE  firstIndexOf(s, tok) = i
  <2>1. i \in P /\ \A j \in P : j \in Int /\ i <= j
    BY <1>1, <1>2, <1>4
  <2>2. Min(P) = CHOOSE x \in P : \A y \in P : x <= y
    BY DEF Min
  <2> HIDE DEF P
  <2>3. \A x \in P : (\A y \in P : x <= y) => x = i
    BY <2>1
  <2>4. Min(P) = i
    BY <2>1, <2>2, <2>3
  <2> QED
    BY <2>1, <2>4 DEF firstIndexOf, P
<1>5. ASSUME \A j \in 1..Len(s) : s[j] # tok PROVE lastIndexOf(s, tok) = 0
  <2>1. P = {}
    BY <1>2, <1>5
  <2> QED
    BY <2>1 DEF lastIndexOf
<1> QED
  BY <1>3, <1>4, <1>5

(* What is left without the invisible characters. *)
LEMMA StripIs ==
  ASSUME NEW S, NEW s \in Seq(S)
  PROVE  /\ stripInvisible(s) \in Seq(S)
         /\ \A n \in DOMAIN s : s[n] = "zwsp" \/ s[n] \in ToSet(stripInvisible(s))
         /\ s = <<>> => stripInvisible(s) = <<>>
<1> DEFINE One(n) == IF s[n] = "zwsp" THEN <<>> ELSE <<s[n]>>
           ss == [n \in DOMAIN s |-> One(n)]
<1>1. PICK n \in Nat : n = Len(s) /\ DOMAIN s = 1..n
  OBVIOUS
<1>2. \A k \in 1..n : s[k] \in S
  BY <1>1
<1>3. \A k \in 1..n : One(k) \in Seq(S) /\ (s[k] = "zwsp" \/ ToSet(One(k)) = {s[k]})
  BY <1>2, ShortLists
<1>4. stripInvisible(s) = FlattenSeq(ss)
  BY DEF stripInvisible
<1>5. ss \in [1..n -> Seq(S)] /\ \A k \in 1..n : ss[k] = One(k)
  <2> HIDE DEF One
  <2> QED
    BY <1>1, <1>3
<1>6. ASSUME s = <<>> PROVE FlattenSeq(ss) = <<>>
  <2>1. DOMAIN s = {}
    BY <1>6
  <2>2. ss = <<>>
    BY <2>1
  <2>3. Len(<<>>) = 0
    OBVIOUS
  <2> QED
    BY <2>2, <2>3 DEF FlattenSeq
<1> HIDE DEF ss, One
<1>7. /\ FlattenSeq(ss) \in Seq(S)
      /\ ToSet(FlattenSeq(ss)) = UNION {ToSet(ss[k]) : k \in 1..n}
  BY <1>5, FlattenIs
<1> QED
  BY <1>1, <1>3, <1>4, <1>5, <1>6, <1>7

(* A valid host has a label, and no delimiter. *)
LEMMA ValidHost ==
  ASSUME NEW rawHost \in Seq(Lexemes), hostIsValid(rawHost)
  PROVE  rawHost # <<>> /\ Range(rawHost) \cap {"@", ":", "[", "]", "bad"} = {}
<1> DEFINE clean == stripInvisible(rawHost)
<1>1. /\ clean \in Seq(Lexemes)
      /\ \A n \in DOMAIN rawHost : rawHost[n] = "zwsp" \/ rawHost[n] \in ToSet(clean)
      /\ rawHost = <<>> => clean = <<>>
  BY StripIs
<1>2. \A n \in DOMAIN clean : clean[n] \in {"name", "."} \cup Digits
  BY DEF hostIsValid
<1>3. clean # <<>>
  BY DEF hostIsValid
<1> HIDE DEF clean
<1>4. \A t \in ToSet(clean) : t \in {"name", "."} \cup Digits
  BY <1>2 DEF ToSet
<1>5. \A n \in DOMAIN rawHost : rawHost[n] \notin {"@", ":", "[", "]", "bad"}
  BY <1>1, <1>4 DEF Digits
<1> QED
  BY <1>1, <1>3, <1>5 DEF Range

PortText(port, zeros) ==
  IF port = NoValue THEN <<>> ELSE <<":">> \o [n \in 1..zeros |-> "0"] \o <<port>>

Faithful(parts, hostport, zeros) ==
  /\ parts \in PartsRecord
  /\ (IF parts.bracketed THEN <<"[">> \o parts.rawHost \o <<"]">> ELSE parts.rawHost)
     \o PortText(parts.port, zeros) = hostport
  /\ Range(parts.rawHost) \cap {"@", ":", "[", "]", "bad"} = {}
  /\ parts.rawHost # <<>>

LEMMA RunsBehind ==
  ASSUME NEW s \in Seq(Lexemes), DigitRuns(s), NEW i \in 0..Len(s)
  PROVE  DigitRuns(From(s, i + 1))
<1>1. PICK t : t = From(s, i + 1)
  OBVIOUS
<1>2. Len(t) = Len(s) - i /\ \A j \in 1..(Len(s) - i) : t[j] = s[i + j]
  BY <1>1, FromIs
<1>3. Len(s) \in Nat /\ i \in Nat /\ i <= Len(s)
  OBVIOUS
<1>4. ASSUME NEW n \in 1..(Len(t) - 1), {t[n], t[n + 1]} \subseteq Digits PROVE t[n] = "0"
  <2>1. n \in 1..(Len(s) - i) /\ n + 1 \in 1..(Len(s) - i) /\ i + n \in 1..(Len(s) - 1)
        /\ i + (n + 1) = (i + n) + 1
    BY <1>2, <1>3
  <2>2. t[n] = s[i + n] /\ t[n + 1] = s[(i + n) + 1]
    BY <1>2, <2>1
  <2> QED
    BY <1>4, <2>1, <2>2 DEF DigitRuns
<1> QED
  BY <1>1, <1>4 DEF DigitRuns

(* The digits of a port are its number behind zeros. *)
LEMMA PortIs ==
  ASSUME NEW s \in Seq(Lexemes), allDigits(s), DigitRuns(s), toPort(s) # NoValue
  PROVE  /\ toPort(s) \in {"0", "80"} /\ Len(s) - 1 \in Nat
         /\ <<":">> \o s = PortText(toPort(s), Len(s) - 1)
<1>1. Len(s) \in Nat /\ Len(s) # 0 /\ DOMAIN s = 1..Len(s)
  BY DEF allDigits
<1>2. PICK k \in Nat : Len(s) = k + 1
  <2>1. Len(s) - 1 \in Nat /\ Len(s) = (Len(s) - 1) + 1
    BY <1>1
  <2> QED
    BY <2>1
<1>3. \A n \in 1..(k + 1) : s[n] \in Digits
  BY <1>1, <1>2 DEF allDigits
<1>4. \A n \in 1..k : s[n] = "0"
  <2>1. \A n \in 1..k : n \in 1..((k + 1) - 1) /\ n \in 1..(k + 1) /\ n + 1 \in 1..(k + 1)
    OBVIOUS
  <2> QED
    BY <1>2, <1>3, <2>1 DEF DigitRuns
<1>5. toPort(s) = s[k + 1] /\ s[k + 1] \in {"0", "80"}
  <2>1. Last(s) = s[k + 1]
    BY <1>2 DEF Last
  <2>2. k + 1 \in 1..(k + 1)
    OBVIOUS
  <2> QED
    BY <1>3, <2>1, <2>2 DEF toPort, Digits
<1>6. PICK z : z = [n \in 1..k |-> "0"]
  OBVIOUS
<1>7. z \in Seq(Lexemes) /\ Len(z) = k
  <2>1. "0" \in Lexemes
    BY DEF Lexemes, Digits
  <2>2. z \in [1..k -> Lexemes]
    BY <1>6, <2>1
  <2> QED
    BY <2>2
<1>8. PICK p : p = <<s[k + 1]>>
  OBVIOUS
<1>9. p \in Seq(Lexemes) /\ Len(p) = 1 /\ p[1] = s[k + 1] /\ <<":">> \in Seq(Lexemes)
  <2>1. s[k + 1] \in Lexemes /\ ":" \in Lexemes
    BY <1>5 DEF Lexemes, Digits
  <2> QED
    BY <1>8, <2>1, ShortLists
<1>10. PICK t : t = z \o p
  OBVIOUS
<1>11. /\ t \in Seq(Lexemes) /\ Len(t) = k + 1
       /\ \A i \in 1..(k + 1) : t[i] = IF i <= k THEN z[i] ELSE p[i - k]
  <2>1. /\ z \o p \in Seq(Lexemes) /\ Len(z \o p) = Len(z) + Len(p)
        /\ \A i \in 1..(Len(z) + Len(p)) : (z \o p)[i] = IF i <= Len(z) THEN z[i] ELSE p[i - Len(z)]
    BY <1>7, <1>9, ConcatProperties
  <2> QED
    BY <1>7, <1>9, <1>10, <2>1
<1>12. \A i \in 1..(k + 1) : s[i] = t[i]
  <2>1. \A i \in 1..(k + 1) : (i <= k /\ i \in 1..k) \/ (~(i <= k) /\ i = k + 1 /\ i - k = 1)
    OBVIOUS
  <2> QED
    BY <1>4, <1>6, <1>9, <1>11, <2>1
<1>13. s = t
  BY <1>2, <1>11, <1>12, SeqEqual
<1>14. (<<":">> \o z) \o p = <<":">> \o (z \o p)
  BY <1>7, <1>9, ConcatAssociative
<1>15. s[k + 1] # NoValue
  BY <1>5, AuthorityAssumption DEF Lexemes, Digits
<1>16. PortText(s[k + 1], k) = (<<":">> \o z) \o p
  BY <1>6, <1>8, <1>15 DEF PortText
<1>17. Len(s) - 1 = k
  BY <1>2
<1>18. <<":">> \o s = PortText(s[k + 1], k)
  BY <1>10, <1>13, <1>14, <1>16
<1> QED
  BY <1>5, <1>17, <1>18

(* Host and port between brackets. *)
LEMMA BracketsKeep ==
  ASSUME NEW userinfo \in Seq(Lexemes) \cup {NoValue}, NEW hp \in Seq(Lexemes),
         DigitRuns(hp), hp # <<>>, hp[1] = "[", bracketedParts(userinfo, hp) # NoValue
  PROVE  /\ \E zeros \in 0..Len(hp) : Faithful(bracketedParts(userinfo, hp), hp, zeros)
         /\ bracketedParts(userinfo, hp).userinfo = userinfo
<1> DEFINE close == firstIndexOf(hp, "]")
           rawHost == SubSeq(hp, 2, close - 1)
           rest == From(hp, close + 1)
           digits == From(rest, 2)
           port == toPort(digits)
           parts == bracketedParts(userinfo, hp)
<1>1. /\ close # 0 /\ isIpv6(rawHost)
      /\ rest = <<>> => parts = RawParts(userinfo, rawHost, NoValue, TRUE)
      /\ rest # <<>> => /\ rest[1] = ":" /\ allDigits(digits) /\ port # NoValue
                        /\ parts = RawParts(userinfo, rawHost, port, TRUE)
  BY DEF bracketedParts
<1>2. close \in 1..Len(hp) /\ hp[close] = "]"
  BY <1>1, IndexIs
<1>3. Len(hp) \in Nat /\ close # 1
  BY <1>2
<1>4. rawHost = <<"v6">>
  BY <1>1 DEF isIpv6
<1> HIDE DEF close
<1>5. <<"[">> \o rawHost = SubSeq(hp, 1, close - 1)
  <2>1. 1 \in 1..Len(hp) /\ close - 1 \in 1..Len(hp)
    BY <1>2, <1>3
  <2> QED
    BY <2>1, SubSeqRecursiveFirst
<1>6. /\ rest \in Seq(Lexemes)
      /\ (SubSeq(hp, 1, close - 1) \o <<hp[close]>>) \o rest = hp
  BY <1>2, CutAt
<1> DEFINE H == (<<"[">> \o rawHost) \o <<"]">>
<1>7. H \o rest = hp
  BY <1>2, <1>5, <1>6
<1>8. rawHost \in Seq(Lexemes) /\ Range(rawHost) \cap {"@", ":", "[", "]", "bad"} = {}
      /\ rawHost # <<>>
  <2> HIDE DEF rawHost
  <2>1. "v6" \in Lexemes
    BY DEF Lexemes
  <2>2. <<"v6">> \in Seq(Lexemes)
    BY <2>1, ShortLists
  <2>3. Range(<<"v6">>) = {"v6"}
    BY DEF Range
  <2> QED
    BY <1>4, <2>2, <2>3
<1> HIDE DEF rawHost, rest, parts
<1>9. CASE rest = <<>>
  <2>1. parts = [userinfo |-> userinfo, rawHost |-> rawHost, port |-> NoValue, bracketed |-> TRUE]
    BY <1>1, <1>9 DEF RawParts
  <2>2. parts \in PartsRecord
    BY <1>8, <2>1 DEF PartsRecord
  <2>3. H \o <<>> = hp
    BY <1>7, <1>9
  <2>4. Faithful(parts, hp, 0)
    BY <1>8, <2>1, <2>2, <2>3 DEF Faithful, PortText
  <2>5. 0 \in 0..Len(hp)
    BY <1>3
  <2> QED
    BY <2>1, <2>4, <2>5 DEF parts
<1>10. CASE rest # <<>>
  <2>1. digits \in Seq(Lexemes) /\ <<rest[1]>> \o digits = rest
    BY <1>6, <1>10, FirstOff
  <2>2. DigitRuns(digits) /\ Len(digits) - 1 <= Len(hp)
    <3>1. close \in 0..Len(hp) /\ Len(rest) = Len(hp) - close /\ DigitRuns(rest)
      BY <1>2, <1>3, FromIs, RunsBehind DEF rest
    <3>2. 1 \in 0..Len(rest) /\ 2 = 1 + 1 /\ Len(rest) \in Nat
      BY <1>6, <1>10
    <3>3. DigitRuns(From(rest, 2)) /\ Len(From(rest, 2)) = Len(rest) - 1
      <4>1. DigitRuns(From(rest, 1 + 1)) /\ Len(From(rest, 1 + 1)) = Len(rest) - 1
        BY <1>6, <3>1, <3>2, FromIs, RunsBehind
      <4> QED
        BY <3>2, <4>1
    <3> QED
      BY <1>2, <1>3, <3>1, <3>2, <3>3
  <2>3. /\ port \in {"0", "80"} /\ Len(digits) - 1 \in Nat
        /\ <<":">> \o digits = PortText(port, Len(digits) - 1)
    <3>1. allDigits(digits) /\ toPort(digits) # NoValue
      BY <1>1, <1>10
    <3> HIDE DEF digits
    <3> QED
      BY <2>1, <2>2, <3>1, PortIs
  <2>4. parts = [userinfo |-> userinfo, rawHost |-> rawHost, port |-> port, bracketed |-> TRUE]
    BY <1>1, <1>10 DEF RawParts
  <2> HIDE DEF digits, port
  <2>5. parts \in PartsRecord
    BY <1>8, <2>3, <2>4 DEF PartsRecord
  <2>6. H \o PortText(port, Len(digits) - 1) = hp
    BY <1>1, <1>7, <1>10, <2>1, <2>3
  <2>7. Faithful(parts, hp, Len(digits) - 1)
    BY <1>8, <2>4, <2>5, <2>6 DEF Faithful
  <2>8. Len(digits) - 1 \in 0..Len(hp)
    BY <1>3, <2>2, <2>3
  <2> QED
    BY <2>4, <2>7, <2>8 DEF parts
<1> QED
  BY <1>9, <1>10

(* Host and port without brackets. *)
LEMMA NoBracketsKeep ==
  ASSUME NEW userinfo \in Seq(Lexemes) \cup {NoValue}, NEW hp \in Seq(Lexemes),
         DigitRuns(hp), unbracketedParts(userinfo, hp) # NoValue
  PROVE  /\ \E zeros \in 0..Len(hp) : Faithful(unbracketedParts(userinfo, hp), hp, zeros)
         /\ unbracketedParts(userinfo, hp).userinfo = userinfo
<1> DEFINE colon == lastIndexOf(hp, ":")
           digits == From(hp, colon + 1)
           named == colon # 0 /\ allDigits(digits)
           front == SubSeq(hp, 1, colon - 1)
           parts == unbracketedParts(userinfo, hp)
<1>1. /\ named => /\ toPort(digits) # NoValue /\ hostIsValid(front)
                  /\ parts = RawParts(userinfo, front, toPort(digits), FALSE)
      /\ ~named => hostIsValid(hp) /\ parts = RawParts(userinfo, hp, NoValue, FALSE)
  BY DEF unbracketedParts
<1> HIDE DEF parts
<1>2. CASE named
  <2>1. colon \in 1..Len(hp) /\ hp[colon] = ":"
    BY <1>2, IndexIs
  <2>2. /\ front \in Seq(Lexemes) /\ digits \in Seq(Lexemes)
        /\ (front \o <<hp[colon]>>) \o digits = hp
    BY <2>1, CutAt
  <2>3. hostIsValid(front) /\ allDigits(digits) /\ toPort(digits) # NoValue
    BY <1>1, <1>2
  <2>13. DigitRuns(digits) /\ Len(digits) - 1 <= Len(hp)
    <3>1. colon \in 0..Len(hp) /\ Len(hp) \in Nat
      BY <2>1
    <3>2. DigitRuns(From(hp, colon + 1)) /\ Len(From(hp, colon + 1)) = Len(hp) - colon
      BY <3>1, FromIs, RunsBehind
    <3> QED
      BY <3>1, <3>2
  <2>4. parts = RawParts(userinfo, front, toPort(digits), FALSE)
    BY <1>1, <1>2
  <2> HIDE DEF front, digits, colon
  <2>5. front # <<>> /\ Range(front) \cap {"@", ":", "[", "]", "bad"} = {}
    BY <2>2, <2>3, ValidHost
  <2>6. /\ toPort(digits) \in {"0", "80"} /\ Len(digits) - 1 \in Nat
        /\ <<":">> \o digits = PortText(toPort(digits), Len(digits) - 1)
    BY <2>2, <2>3, <2>13, PortIs
  <2>7. PICK port : port = toPort(digits)
    OBVIOUS
  <2>8. parts = [userinfo |-> userinfo, rawHost |-> front, port |-> port, bracketed |-> FALSE]
    BY <2>4, <2>7 DEF RawParts
  <2>9. parts \in PartsRecord
    BY <2>2, <2>6, <2>7, <2>8 DEF PartsRecord
  <2>10. front \o (<<":">> \o digits) = hp
    <3>1. ":" \in Lexemes
      BY DEF Lexemes
    <3>2. <<":">> \in Seq(Lexemes)
      BY <3>1, ShortLists
    <3>3. (front \o <<":">>) \o digits = front \o (<<":">> \o digits)
      BY <2>2, <3>2, ConcatAssociative
    <3> QED
      BY <2>1, <2>2, <3>3
  <2>11. Faithful(parts, hp, Len(digits) - 1)
    BY <2>5, <2>6, <2>7, <2>8, <2>9, <2>10 DEF Faithful
  <2>12. Len(digits) - 1 \in 0..Len(hp)
    <3>1. Len(hp) \in Nat
      OBVIOUS
    <3> QED
      BY <2>13, <2>6, <3>1
  <2> QED
    BY <2>8, <2>11, <2>12 DEF parts
<1>3. CASE ~named
  <2>1. hostIsValid(hp) /\ parts = [userinfo |-> userinfo, rawHost |-> hp, port |-> NoValue, bracketed |-> FALSE]
    BY <1>1, <1>3 DEF RawParts
  <2>2. hp # <<>> /\ Range(hp) \cap {"@", ":", "[", "]", "bad"} = {}
    BY <2>1, ValidHost
  <2>3. parts \in PartsRecord
    BY <2>1 DEF PartsRecord
  <2>4. hp \o <<>> = hp
    BY ConcatEmptySeq
  <2> HIDE DEF named
  <2>5. Faithful(parts, hp, 0)
    BY <2>1, <2>2, <2>3, <2>4 DEF Faithful, PortText
  <2>6. 0 \in 0..Len(hp)
    OBVIOUS
  <2> QED
    BY <2>1, <2>5, <2>6 DEF parts
<1> QED
  BY <1>2, <1>3

(* The parts of an authority put together are the authority. *)
LEMMA SplitKeeps ==
  ASSUME NEW url \in RawUrls, ~url.opaque, splitRawParts(url) # NoValue
  PROVE  LET parts == splitRawParts(url)
         IN  /\ parts \in PartsRecord
             /\ \E zeros \in 0..Len(url.authority) : Rejoined(parts, zeros) = url.authority
             /\ Range(parts.rawHost) \cap {"@", ":", "[", "]", "bad"} = {}
             /\ parts.rawHost # <<>> \/ url.scheme = "file"
<1> DEFINE authority == url.authority
           at == lastIndexOf(authority, "@")
           userinfo == IF at = 0 THEN NoValue ELSE SubSeq(authority, 1, at - 1)
           hp == From(authority, at + 1)
           parts == splitRawParts(url)
<1>1. authority \in Seq(Lexemes) /\ DigitRuns(authority) /\ Len(authority) \in Nat
  <2>1. url.authority \in Authorities
    BY DEF RawUrls
  <2>2. url.authority \in Seq(Lexemes) /\ DigitRuns(url.authority)
    BY <2>1, AuthorityAssumption
  <2> QED
    BY <2>2
<1>2. CASE url.scheme = "file" /\ authority = <<>>
  <2>1. parts = [userinfo |-> NoValue, rawHost |-> <<>>, port |-> NoValue, bracketed |-> FALSE]
    BY <1>2 DEF splitRawParts, RawParts
  <2>2. <<>> \in Seq(Lexemes)
    BY ShortLists
  <2>3. parts \in PartsRecord
    BY <2>1, <2>2 DEF PartsRecord
  <2>4. Range(<<>>) = {}
    BY DEF Range
  <2>5. (<<>> \o <<>>) \o <<>> = <<>>
    OBVIOUS
  <2>6. Rejoined(parts, 0) = <<>> /\ 0 \in 0..Len(authority)
    BY <1>1, <2>1, <2>5 DEF Rejoined
  <2>7. \E zeros \in 0..Len(authority) : Rejoined(parts, zeros) = authority
    BY <1>2, <2>6
  <2>8. parts.rawHost = <<>>
    BY <2>1
  <2>9. Range(parts.rawHost) \cap {"@", ":", "[", "]", "bad"} = {}
    BY <2>4, <2>8
  <2> HIDE DEF parts
  <2> QED
    BY <1>2, <2>3, <2>7, <2>9 DEF parts
<1>3. CASE ~(url.scheme = "file" /\ authority = <<>>)
  <2>1. parts = IF hp # <<>> /\ hp[1] = "[" THEN bracketedParts(userinfo, hp)
                ELSE unbracketedParts(userinfo, hp)
    BY <1>3 DEF splitRawParts
  <2>2. /\ userinfo \in Seq(Lexemes) \cup {NoValue} /\ hp \in Seq(Lexemes)
        /\ DigitRuns(hp) /\ Len(hp) <= Len(authority)
        /\ (IF userinfo = NoValue THEN <<>> ELSE userinfo \o <<"@">>) \o hp = authority
    <3>1. CASE at = 0
      <4>1. hp = authority
        BY <1>1, <3>1, SubSeqFull DEF From
      <4>2. <<>> \o authority = authority /\ Len(authority) <= Len(authority)
        BY <1>1, ConcatEmptySeq
      <4> QED
        BY <1>1, <3>1, <4>1, <4>2
    <3>2. CASE at # 0
      <4>1. at \in 1..Len(authority) /\ authority[at] = "@"
        BY <1>1, <3>2, IndexIs
      <4>2. /\ SubSeq(authority, 1, at - 1) \in Seq(Lexemes) /\ hp \in Seq(Lexemes)
            /\ (SubSeq(authority, 1, at - 1) \o <<authority[at]>>) \o hp = authority
        BY <1>1, <4>1, CutAt
      <4>3. userinfo = SubSeq(authority, 1, at - 1) /\ userinfo # NoValue
        BY <3>2, <4>2, AuthorityAssumption
      <4>4. DigitRuns(hp) /\ Len(hp) <= Len(authority)
        <5>1. at \in 0..Len(authority)
          BY <1>1, <4>1
        <5>2. DigitRuns(hp) /\ Len(hp) = Len(authority) - at
          BY <1>1, <5>1, FromIs, RunsBehind
        <5> QED
          BY <1>1, <5>1, <5>2
      <4> HIDE DEF userinfo, hp, at
      <4> QED
        BY <4>1, <4>2, <4>3, <4>4
    <3> QED
      BY <3>1, <3>2
  <2> HIDE DEF userinfo, hp
  <2>3. parts # NoValue
    OBVIOUS
  <2> HIDE DEF parts
  <2>4. PICK zeros \in 0..Len(hp) : Faithful(parts, hp, zeros) /\ parts.userinfo = userinfo
    <3>1. CASE hp # <<>> /\ hp[1] = "["
      BY <2>1, <2>2, <2>3, <3>1, BracketsKeep
    <3>2. CASE ~(hp # <<>> /\ hp[1] = "[")
      BY <2>1, <2>2, <2>3, <3>2, NoBracketsKeep
    <3> QED
      BY <3>1, <3>2
  <2> DEFINE lead == IF userinfo = NoValue THEN <<>> ELSE userinfo \o <<"@">>
             named == IF parts.bracketed THEN <<"[">> \o parts.rawHost \o <<"]">> ELSE parts.rawHost
             tail == PortText(parts.port, zeros)
  <2>5. parts.rawHost \in Seq(Lexemes) /\ parts.port \in {"0", "80", NoValue}
    BY <2>4 DEF Faithful, PartsRecord
  <2>6. lead \in Seq(Lexemes) /\ named \in Seq(Lexemes) /\ tail \in Seq(Lexemes)
    <3>1. \A t \in {"@", "[", "]", ":"} : <<t>> \in Seq(Lexemes)
      <4>1. \A t \in {"@", "[", "]", ":"} : t \in Lexemes
        BY DEF Lexemes
      <4> QED
        BY <4>1, ShortLists
    <3>2. <<>> \in Seq(Lexemes)
      BY ShortLists
    <3>3. \A a, b \in Seq(Lexemes) : a \o b \in Seq(Lexemes)
      BY ConcatProperties
    <3>4. lead \in Seq(Lexemes)
      BY <2>2, <3>1, <3>2, <3>3
    <3>5. tail \in Seq(Lexemes)
      <4>1. PICK z : z = [n \in 1..zeros |-> "0"]
        OBVIOUS
      <4>2. zeros \in Nat /\ "0" \in Lexemes /\ "80" \in Lexemes
        BY <2>2, <2>4 DEF Lexemes, Digits
      <4>3. z \in [1..zeros -> Lexemes]
        BY <4>1, <4>2
      <4>4. z \in Seq(Lexemes)
        BY <4>2, <4>3
      <4>5. parts.port # NoValue => <<parts.port>> \in Seq(Lexemes)
        BY <2>5, <4>2, ShortLists
      <4> QED
        BY <3>1, <3>2, <3>3, <4>1, <4>4, <4>5 DEF PortText
    <3>6. named \in Seq(Lexemes)
      BY <2>5, <3>1, <3>3
    <3> QED
      BY <3>4, <3>5, <3>6
  <2>7. Rejoined(parts, zeros) = (lead \o named) \o tail
    BY <2>4 DEF Rejoined, PortText
  <2>8. named \o tail = hp
    BY <2>4 DEF Faithful
  <2>9. lead \o hp = authority
    BY <2>2
  <2> HIDE DEF lead, named, tail
  <2>10. (lead \o named) \o tail = lead \o (named \o tail)
    <3>1. \A a, b, c \in Seq(Lexemes) : (a \o b) \o c = a \o (b \o c)
      BY ConcatAssociative
    <3> QED
      BY <2>6, <3>1
  <2>11. Rejoined(parts, zeros) = authority
    BY <2>7, <2>8, <2>9, <2>10
  <2>12. zeros \in 0..Len(authority)
    BY <1>1, <2>2, <2>4
  <2> QED
    BY <2>4, <2>11, <2>12 DEF Faithful, parts
<1> QED
  BY <1>2, <1>3

(* A cut that leaves a host and a port number is the one the parse makes.  *)
LEMMA CutIsMade ==
  ASSUME NEW url \in RawUrls, ~url.opaque, hasParseableAuthorityIntroducer(url),
         NEW at \in {0} \cup Positions(url.authority, "@"),
         NEW colon \in {0} \cup Positions(From(url.authority, at + 1), ":"),
         CutAs(url.authority, at, colon) # NoValue
  PROVE  splitRawParts(url) = CutAs(url.authority, at, colon)
<1> DEFINE authority == url.authority
           hp == From(authority, at + 1)
           host == IF colon = 0 THEN hp ELSE SubSeq(hp, 1, colon - 1)
           digits == From(hp, colon + 1)
           lit == host = <<"[", "v6", "]">>
           userinfo == IF at = 0 THEN NoValue ELSE SubSeq(authority, 1, at - 1)
           cut == RawParts(userinfo, IF lit THEN <<"v6">> ELSE host,
                           IF colon = 0 THEN NoValue ELSE Last(digits), lit)
<1>1. authority \in Seq(Lexemes) /\ Len(authority) \in Nat /\ DOMAIN authority = 1..Len(authority)
  <2>1. url.authority \in Authorities
    BY DEF RawUrls
  <2>2. url.authority \in Seq(Lexemes)
    BY <2>1, AuthorityAssumption
  <2> QED
    BY <2>2
<1>2. /\ CutAs(authority, at, colon) = cut
      /\ lit \/ hostIsValid(host)
      /\ colon # 0 => allDigits(digits) /\ Last(digits) # "99999"
  BY DEF CutAs
<1>3. at \in 0..Len(authority) /\ (at # 0 => authority[at] = "@")
  BY <1>1 DEF Positions
<1>4. /\ hp \in Seq(Lexemes) /\ Len(hp) = Len(authority) - at
      /\ \A j \in 1..(Len(authority) - at) : hp[j] = authority[at + j]
  BY <1>1, <1>3, FromIs
<1> HIDE DEF hp
<1>5. Len(hp) \in Nat /\ DOMAIN hp = 1..Len(hp)
  BY <1>4
<1>6. colon \in 0..Len(hp) /\ (colon # 0 => hp[colon] = ":")
  BY <1>5 DEF Positions, hp
<1>7. /\ digits \in Seq(Lexemes) /\ Len(digits) = Len(hp) - colon
      /\ \A j \in 1..(Len(hp) - colon) : digits[j] = hp[colon + j]
  BY <1>4, <1>6, FromIs
<1> HIDE DEF digits
<1>8. /\ host \in Seq(Lexemes) /\ Len(host) = IF colon = 0 THEN Len(hp) ELSE colon - 1
      /\ \A j \in 1..Len(host) : host[j] = hp[j]
  <2>1. CASE colon = 0
    BY <1>4, <2>1
  <2>2. CASE colon # 0
    <3>1. \A j \in 1..(colon - 1) : hp[j] \in Lexemes
      BY <1>4, <1>5, <1>6
    <3>2. colon \in Int /\ colon - 1 \in Int
      BY <1>6
    <3> DEFINE h == SubSeq(hp, 1, colon - 1)
    <3>3. /\ h \in Seq(Lexemes) /\ Len(h) = IF 1 <= colon - 1 THEN (colon - 1) - 1 + 1 ELSE 0
          /\ \A j \in 1..((colon - 1) - 1 + 1) : h[j] = hp[1 + j - 1]
      BY <3>1, <3>2, SubSeqProperties
    <3> HIDE DEF h
    <3>4. Len(h) = colon - 1 /\ (colon - 1) - 1 + 1 = colon - 1 /\ colon \in Nat
      BY <1>6, <2>2, <3>3
    <3>5. \A j \in 1..(colon - 1) : j \in Int /\ 1 + j - 1 = j
      OBVIOUS
    <3>6. \A j \in 1..(colon - 1) : h[j] = hp[j]
      BY <3>3, <3>4, <3>5
    <3> QED
      BY <2>2, <3>3, <3>4, <3>6 DEF h
  <2> QED
    BY <2>1, <2>2
<1> HIDE DEF host
<1>9. DOMAIN host = 1..Len(host) /\ Len(host) \in Nat
  BY <1>8
<1>10. lit => Len(host) = 3 /\ host[1] = "[" /\ host[2] = "v6" /\ host[3] = "]"
  OBVIOUS
<1>24. lit \in BOOLEAN
  OBVIOUS
<1>11. ~lit => /\ host # <<>> /\ \A j \in 1..Len(host) : host[j] \notin {"@", ":", "[", "]"}
  <2>1. ASSUME ~lit PROVE host # <<>> /\ Range(host) \cap {"@", ":", "[", "]", "bad"} = {}
    BY <1>2, <1>8, <2>1, ValidHost
  <2> QED
    BY <1>9, <2>1 DEF Range
<1> HIDE DEF lit
<1>12. \A j \in 1..Len(host) : host[j] \notin {"@", ":"}
  <2>1. ASSUME lit, NEW j \in 1..Len(host) PROVE host[j] \notin {"@", ":"}
    <3>1. Len(host) = 3
      BY <1>10, <2>1
    <3>2. host[1] = "[" /\ host[2] = "v6" /\ host[3] = "]"
      BY <1>10, <2>1
    <3>3. j \in 1..3
      BY <2>1, <3>1
    <3> QED
      BY <3>2, <3>3
  <2> QED
    BY <1>11, <2>1
<1>13. \A j \in 1..Len(hp) : j > colon /\ colon # 0 => hp[j] \in Digits
  <2> SUFFICES ASSUME NEW j \in 1..Len(hp), j > colon, colon # 0 PROVE hp[j] \in Digits
    OBVIOUS
  <2>1. j - colon \in 1..(Len(hp) - colon) /\ colon + (j - colon) = j
    BY <1>5, <1>6
  <2>2. digits[j - colon] = hp[j] /\ j - colon \in DOMAIN digits
    BY <1>7, <2>1
  <2> QED
    BY <1>2, <2>2 DEF allDigits
<1>14. \A j \in 1..Len(hp) : hp[j] # "@" /\ (j # colon => hp[j] # ":")
  <2> SUFFICES ASSUME NEW j \in 1..Len(hp) PROVE hp[j] # "@" /\ (j # colon => hp[j] # ":")
    OBVIOUS
  <2>1. CASE j = colon
    BY <1>6, <2>1
  <2>2. CASE j # colon /\ j > colon /\ colon # 0
    BY <1>13, <2>2 DEF Digits
  <2>3. CASE colon = 0 \/ j < colon
    <3>1. j \in 1..Len(host)
      BY <1>5, <1>6, <1>8, <2>3
    <3> QED
      BY <1>8, <1>12, <3>1
  <2> QED
    BY <1>5, <1>6, <2>1, <2>2, <2>3
<1>15. lastIndexOf(authority, "@") = at
  <2>1. \A j \in (at + 1)..Len(authority) : authority[j] # "@"
    <3> SUFFICES ASSUME NEW j \in (at + 1)..Len(authority) PROVE authority[j] # "@"
      OBVIOUS
    <3>1. j - at \in 1..(Len(authority) - at) /\ at + (j - at) = j
      BY <1>1, <1>3
    <3>2. j - at \in 1..Len(hp) /\ hp[j - at] = authority[j]
      BY <1>4, <3>1
    <3> QED
      BY <1>14, <3>2
  <2>2. CASE at = 0
    <3>1. \A j \in 1..Len(authority) : authority[j] # "@"
      BY <2>1, <2>2
    <3> QED
      BY <1>1, <2>2, <3>1, IndexFound
  <2>3. CASE at # 0
    <3>1. at \in 1..Len(authority) /\ authority[at] = "@"
      BY <1>1, <1>3, <2>3
    <3> QED
      BY <1>1, <2>1, <3>1, IndexFound
  <2> QED
    BY <2>2, <2>3
<1>16. lastIndexOf(hp, ":") = colon
  <2>1. CASE colon = 0
    <3>1. \A j \in 1..Len(hp) : hp[j] # ":"
      BY <1>14, <2>1
    <3> QED
      BY <1>4, <2>1, <3>1, IndexFound
  <2>2. CASE colon # 0
    <3>1. colon \in 1..Len(hp) /\ hp[colon] = ":"
      BY <1>5, <1>6, <2>2
    <3>2. \A j \in (colon + 1)..Len(hp) : hp[j] # ":"
      BY <1>5, <1>14, <3>1
    <3> QED
      BY <1>4, <3>1, <3>2, IndexFound
  <2> QED
    BY <2>1, <2>2
<1>17. hp # <<>> /\ Len(hp) # 0
  <2>1. Len(host) # 0
    BY <1>8, <1>10, <1>11
  <2> QED
    BY <1>5, <1>6, <1>8, <2>1
<1>18. 1 \in 1..Len(host) /\ hp[1] = host[1]
  <2>1. Len(host) # 0
    BY <1>8, <1>10, <1>11
  <2> QED
    BY <1>8, <1>9, <2>1
<1>19. colon # 0 => toPort(digits) = Last(digits) /\ toPort(digits) # NoValue
  <2> SUFFICES ASSUME colon # 0 PROVE toPort(digits) = Last(digits) /\ toPort(digits) # NoValue
    OBVIOUS
  <2>1. digits # <<>> /\ Len(digits) \in Nat
    BY <1>2, <1>7 DEF allDigits
  <2>2. Len(digits) \in 1..Len(digits) /\ DOMAIN digits = 1..Len(digits)
    BY <1>7, <2>1
  <2>3. Last(digits) \in Digits
    BY <1>2, <2>2 DEF allDigits, Last
  <2>4. Last(digits) # NoValue
    BY <2>3, AuthorityAssumption DEF Lexemes
  <2> QED
    BY <1>2, <2>4 DEF toPort
<1>20. ~(url.scheme = "file" /\ authority = <<>>)
  BY <1>1, <1>3, <1>4, <1>17
<1>21. splitRawParts(url) = IF hp[1] = "[" THEN bracketedParts(userinfo, hp)
                            ELSE unbracketedParts(userinfo, hp)
  BY <1>15, <1>17, <1>20 DEF splitRawParts, hp
<1> HIDE DEF userinfo, authority
<1>22. CASE ~lit
  <2>1. hp[1] # "["
    BY <1>11, <1>18, <1>22
  <2>2. colon # 0 => allDigits(digits)
    BY <1>2
  <2>3. cut = RawParts(userinfo, host, IF colon = 0 THEN NoValue ELSE Last(digits), FALSE)
    <3>1. lit = FALSE
      BY <1>22, <1>24
    <3>2. (IF lit THEN <<"v6">> ELSE host) = host
      BY <1>22
    <3> QED
      BY <3>1, <3>2
  <2>4. hostIsValid(host)
    BY <1>2, <1>22
  <2>5. unbracketedParts(userinfo, hp) = RawParts(userinfo, host, IF colon = 0 THEN NoValue ELSE Last(digits), FALSE)
    BY <1>16, <1>19, <2>2, <2>4 DEF unbracketedParts, host, digits
  <2>6. splitRawParts(url) = cut
    BY <1>21, <2>1, <2>3, <2>5
  <2> HIDE DEF cut
  <2> QED
    BY <1>2, <2>6 DEF authority
<1>23. CASE lit
  <2>1. hp[1] = "[" /\ hp[2] = "v6" /\ hp[3] = "]" /\ Len(hp) >= 3
    <3>1. Len(host) = 3
      BY <1>10, <1>23
    <3>2. host[1] = "[" /\ host[2] = "v6" /\ host[3] = "]"
      BY <1>10, <1>23
    <3>3. 1 \in 1..Len(host) /\ 2 \in 1..Len(host) /\ 3 \in 1..Len(host)
      BY <3>1
    <3>4. Len(hp) >= 3
      <4>1. Len(hp) \in Nat /\ colon \in 0..Len(hp)
        BY <1>5, <1>6
      <4>2. 3 = IF colon = 0 THEN Len(hp) ELSE colon - 1
        BY <1>8, <3>1
      <4>3. \A n \in Nat : \A c \in 0..n : 3 = (IF c = 0 THEN n ELSE c - 1) => n >= 3
        OBVIOUS
      <4>4. PICK n \in Nat : n = Len(hp)
        BY <4>1
      <4> QED
        BY <4>1, <4>2, <4>3, <4>4
    <3>5. hp[1] = host[1] /\ hp[2] = host[2] /\ hp[3] = host[3]
      BY <1>8, <3>3
    <3> QED
      BY <3>2, <3>4, <3>5
  <2>2. firstIndexOf(hp, "]") = 3
    <3>1. 3 \in 1..Len(hp) /\ \A j \in 1..(3 - 1) : j \in {1, 2}
      BY <1>5, <2>1
    <3>2. \A j \in 1..(3 - 1) : hp[j] # "]"
      BY <2>1, <3>1
    <3> QED
      BY <1>4, <2>1, <3>1, <3>2, IndexFound
  <2>3. SubSeq(hp, 2, 3 - 1) = <<"v6">>
    <3>1. 2 \in 1..Len(hp) /\ 3 - 1 = 2
      BY <1>5, <2>1
    <3>2. hp[2] \in Lexemes
      BY <1>4, <3>1
    <3>3. PICK word : word = SubSeq(hp, 2, 2)
      OBVIOUS
    <3>4. /\ word \in Seq(Lexemes) /\ Len(word) = IF 2 <= 2 THEN 2 - 2 + 1 ELSE 0
          /\ \A j \in 1..(2 - 2 + 1) : word[j] = hp[2 + j - 1]
      <4>1. \A j \in 2..2 : hp[j] \in Lexemes
        BY <3>2
      <4>2. 2 \in Int
        OBVIOUS
      <4> QED
        BY <3>3, <4>1, <4>2, SubSeqProperties
    <3>5. Len(word) = 1 /\ word[1] = "v6"
      BY <2>1, <3>4
    <3>6. <<"v6">> \in Seq(Lexemes) /\ Len(<<"v6">>) = 1 /\ <<"v6">>[1] = "v6"
      BY <2>1, <3>2, ShortLists
    <3>7. word = <<"v6">>
      BY <3>4, <3>5, <3>6, SeqEqual
    <3> QED
      BY <3>1, <3>3, <3>7
  <2> DEFINE rest == From(hp, 3 + 1)
  <2>4. /\ rest \in Seq(Lexemes) /\ Len(rest) = Len(hp) - 3
        /\ \A j \in 1..(Len(hp) - 3) : rest[j] = hp[3 + j]
    <3>1. \A s \in Seq(Lexemes) : \A i \in 0..Len(s) :
            /\ From(s, i + 1) \in Seq(Lexemes) /\ Len(From(s, i + 1)) = Len(s) - i
            /\ \A j \in 1..(Len(s) - i) : From(s, i + 1)[j] = s[i + j]
      BY FromIs, Zenon
    <3>2. hp \in Seq(Lexemes) /\ 3 \in 0..Len(hp)
      BY <1>4, <1>5, <2>1
    <3> QED
      BY <3>1, <3>2, Zenon
  <2>7. bracketedParts(userinfo, hp) =
          IF rest = <<>> THEN RawParts(userinfo, <<"v6">>, NoValue, TRUE)
          ELSE IF rest[1] # ":" \/ ~allDigits(From(rest, 2)) \/ toPort(From(rest, 2)) = NoValue THEN NoValue
          ELSE RawParts(userinfo, <<"v6">>, toPort(From(rest, 2)), TRUE)
    <3>1. isIpv6(SubSeq(hp, 2, 3 - 1)) /\ 3 # 0
      BY <2>3 DEF isIpv6
    <3> QED
      BY <2>2, <2>3, <3>1, Zenon DEF bracketedParts
  <2> HIDE DEF rest
  <2>5. CASE colon = 0
    <3>1. Len(hp) = 3
      BY <1>8, <1>10, <1>23, <2>5
    <3>2. rest = <<>>
      BY <2>4, <3>1
    <3>3. bracketedParts(userinfo, hp) = RawParts(userinfo, <<"v6">>, NoValue, TRUE)
      BY <2>7, <3>2
    <3> QED
      BY <1>2, <1>21, <1>23, <2>1, <2>5, <3>3 DEF authority
  <2>6. CASE colon # 0
    <3>1. colon = 4 /\ hp[4] = ":"
      BY <1>6, <1>8, <1>10, <1>23, <2>6
    <3>2. rest # <<>> /\ rest[1] = ":"
      <4>1. 1 \in 1..(Len(hp) - 3) /\ 3 + 1 = 4
        BY <1>5, <1>6, <3>1
      <4> QED
        BY <2>4, <3>1, <4>1
    <3>3. From(rest, 2) = digits
      <4>1. 1 \in 0..Len(rest) /\ 2 = 1 + 1 /\ Len(rest) = Len(hp) - 3 /\ Len(hp) \in Nat
        BY <1>5, <1>6, <2>4, <3>1
      <4>2. PICK d : d = From(rest, 1 + 1)
        OBVIOUS
      <4>3. /\ d \in Seq(Lexemes) /\ Len(d) = Len(rest) - 1
            /\ \A j \in 1..(Len(rest) - 1) : d[j] = rest[1 + j]
        <5>1. \A i \in 0..Len(rest) :
                /\ From(rest, i + 1) \in Seq(Lexemes) /\ Len(From(rest, i + 1)) = Len(rest) - i
                /\ \A j \in 1..(Len(rest) - i) : From(rest, i + 1)[j] = rest[i + j]
          <6>1. rest \in Seq(Lexemes)
            BY <2>4
          <6>2. \A s \in Seq(Lexemes) : \A i \in 0..Len(s) :
                  /\ From(s, i + 1) \in Seq(Lexemes) /\ Len(From(s, i + 1)) = Len(s) - i
                  /\ \A j \in 1..(Len(s) - i) : From(s, i + 1)[j] = s[i + j]
            BY FromIs, Zenon
          <6> QED
            BY <6>1, <6>2, Zenon
        <5>2. /\ From(rest, 1 + 1) \in Seq(Lexemes) /\ Len(From(rest, 1 + 1)) = Len(rest) - 1
              /\ \A j \in 1..(Len(rest) - 1) : From(rest, 1 + 1)[j] = rest[1 + j]
          BY <4>1, <5>1
        <5> QED
          BY <4>2, <5>2
      <4>4. Len(d) = Len(hp) - 4 /\ Len(digits) = Len(hp) - 4
        BY <1>7, <3>1, <4>1, <4>3
      <4>5. \A j \in 1..Len(d) : d[j] = digits[j]
        <5> SUFFICES ASSUME NEW j \in 1..Len(d) PROVE d[j] = digits[j]
          OBVIOUS
        <5>1. /\ j \in 1..(Len(rest) - 1) /\ 1 + j \in 1..(Len(hp) - 3)
              /\ 3 + (1 + j) = 4 + j /\ j \in 1..(Len(hp) - colon)
          BY <3>1, <4>1, <4>4
        <5>2. d[j] = hp[3 + (1 + j)]
          BY <2>4, <4>3, <5>1
        <5>3. digits[j] = hp[4 + j]
          BY <1>7, <3>1, <5>1
        <5> QED
          BY <5>1, <5>2, <5>3
      <4>6. d = digits
        BY <1>7, <4>3, <4>4, <4>5, SeqEqual
      <4> QED
        BY <4>1, <4>2, <4>6
    <3>4. allDigits(digits) /\ toPort(digits) # NoValue /\ toPort(digits) = Last(digits)
      BY <1>2, <1>19, <2>6
    <3>5. bracketedParts(userinfo, hp) = RawParts(userinfo, <<"v6">>, Last(digits), TRUE)
      BY <2>7, <3>2, <3>3, <3>4
    <3> QED
      BY <1>2, <1>21, <1>23, <2>1, <2>6, <3>5 DEF authority
  <2> QED
    BY <2>5, <2>6
<1> QED
  BY <1>22, <1>23

(* What has been parsed is a tokenized URL, with its context and failure. *)
UrlInv ==
  /\ rawUrl.asked =>
       /\ rawUrl.url \in RawUrls /\ Tokenized(rawUrl.url)
       /\ rawUrl.context = parsedContext(rawUrl.url)
       /\ rawUrl.failure = IF rawUrl.context = NoValue THEN describeParseFailure(rawUrl.url)
                           ELSE "none"
  /\ part = "raw" =>
       /\ rawUrl = [url |-> rawUrl.url, asked |-> rawUrl.asked, context |-> rawUrl.context,
                    failure |-> rawUrl.failure]
       /\ rawUrl.url \in RawUrls /\ Tokenized(rawUrl.url)

(* A context is there when the split is, and no bare word. *)
LEMMA ContextIs ==
  ASSUME NEW url
  PROVE  LET split == splitRawParts(url)
             context == parsedContext(url)
         IN  /\ context # NoValue => split # NoValue /\ context.parts = split
             /\ split \in PartsRecord /\ ~isBareSingleLabel(url, split) =>
                  context # NoValue /\ context.parts = split
<1> DEFINE split == splitRawParts(url)
           facts == deriveHostFacts(split.rawHost)
           context == parsedContext(url)
<1>1. context = IF split = NoValue \/ isBareSingleLabel(url, split) THEN NoValue
                ELSE [parts |-> split, facts |-> facts]
  BY DEF parsedContext, parseRawParts
<1>2. [parts |-> split, facts |-> facts].parts = split
  OBVIOUS
<1>3. ASSUME split \in PartsRecord PROVE [parts |-> split, facts |-> facts] \in ContextRecord
  <2>1. split.rawHost \in Seq(Lexemes)
    BY <1>3 DEF PartsRecord
  <2> DEFINE host == stripInvisible(split.rawHost)
             isIp == host # <<>> /\ (isIpv4(host) \/ isIpv6(host))
  <2>2. host \in Seq(Lexemes)
    BY <2>1, StripIs
  <2>3. facts = [host |-> host, isIp |-> isIp, registrable |-> host # <<>> /\ ~isIp]
    BY DEF deriveHostFacts
  <2>4. isIp \in BOOLEAN /\ (host # <<>> /\ ~isIp) \in BOOLEAN
    BY DEF isIpv6
  <2> HIDE DEF host, isIp, facts, split
  <2>5. PICK reg \in BOOLEAN : reg = (host # <<>> /\ ~isIp)
    BY <2>4
  <2>6. facts \in [host : Seq(Lexemes), isIp : BOOLEAN, registrable : BOOLEAN]
    BY <2>2, <2>3, <2>4, <2>5
  <2> QED
    BY <1>3, <2>6 DEF ContextRecord
<1>4. split \in PartsRecord => split # NoValue
  BY AuthorityAssumption
<1>5. NoValue \notin ContextRecord
  BY AuthorityAssumption
<1> HIDE DEF split, facts, context
<1> QED
  BY <1>1, <1>2, <1>3, <1>4, <1>5 DEF split, context

LEMMA PartsLossless == UrlInv => PartsAreLossless
<1> SUFFICES ASSUME UrlInv, rawUrl.asked PROVE PartsAreLossless
  BY DEF PartsAreLossless
<1> DEFINE url == rawUrl.url
           context == rawUrl.context
           parts == context.parts
           named == [url EXCEPT !.scheme = "http", !.introducer = "//"]
<1>1. /\ url \in RawUrls /\ Tokenized(url) /\ context = parsedContext(url)
      /\ rawUrl.failure = IF context = NoValue THEN describeParseFailure(url) ELSE "none"
  BY DEF UrlInv
<1> HIDE DEF url, context
<1>2. ASSUME context # NoValue, ~url.opaque
      PROVE  /\ \E zeros \in 0..Len(url.authority) : Rejoined(parts, zeros) = url.authority
             /\ Range(parts.rawHost) \cap {"@", ":", "[", "]", "bad"} = {}
             /\ parts.rawHost # <<>> \/ url.scheme = "file"
  <2>1. splitRawParts(url) # NoValue /\ parts = splitRawParts(url)
    BY <1>1, <1>2, ContextIs
  <2> QED
    BY <1>1, <1>2, <2>1, SplitKeeps
<1>3. ASSUME rawUrl.failure = "single label"
      PROVE  /\ parsedContext(named) # NoValue
             /\ \E zeros \in 0..Len(url.authority) :
                  Rejoined(parsedContext(named).parts, zeros) = url.authority
  <2> DEFINE split == splitRawParts(url)
  <2>1. url.scheme = NoValue /\ split # NoValue
    BY <1>1, <1>3 DEF describeParseFailure
  <2>2. ~url.opaque
    BY <1>1, <2>1, AuthorityAssumption DEF Tokenized
  <2>3. /\ split \in PartsRecord
        /\ \E zeros \in 0..Len(url.authority) : Rejoined(split, zeros) = url.authority
    BY <1>1, <2>1, <2>2, SplitKeeps
  <2>4. /\ named.scheme = "http" /\ named.introducer = "//" /\ named.authority = url.authority
        /\ named.opaque = url.opaque
    BY <1>1 DEF RawUrls
  <2>5. url.scheme # "file" /\ "http" # NoValue
    BY <2>1, AuthorityAssumption
  <2> HIDE DEF named
  <2>6. splitRawParts(named) = split
    BY <2>1, <2>2, <2>4, <2>5 DEF splitRawParts, hasParseableAuthorityIntroducer
  <2>7. ~isBareSingleLabel(named, split)
    BY <2>4, <2>5 DEF isBareSingleLabel
  <2> HIDE DEF split
  <2>8. parsedContext(named) # NoValue /\ parsedContext(named).parts = split
    BY <2>3, <2>6, <2>7, ContextIs
  <2> QED
    BY <2>3, <2>8
<1>4. ASSUME NEW depth \in 0..DecodeDepth, NEW limit \in 0..2
      PROVE  LET d == boundedDecode(depth, limit)
             IN  (d.truncated <=> depth > limit) /\ d.passes <= limit
  <2>1. depth \in Nat /\ limit \in Nat
    OBVIOUS
  <2>2. LET d == boundedDecode(depth, limit)
        IN  (d.truncated <=> depth > limit) /\ d.passes \in 0..limit
    BY <2>1, DecodeIs
  <2> QED
    BY <2>1, <2>2
<1>5. ASSUME ~url.opaque, hasParseableAuthorityIntroducer(url),
             NEW at \in {0} \cup Positions(url.authority, "@"),
             NEW colon \in {0} \cup Positions(From(url.authority, at + 1), ":"),
             CutAs(url.authority, at, colon) # NoValue
      PROVE  \/ context # NoValue /\ parts = CutAs(url.authority, at, colon)
             \/ rawUrl.failure = "single label"
  <2> DEFINE split == splitRawParts(url)
  <2>1. split = CutAs(url.authority, at, colon)
    BY <1>1, <1>5, CutIsMade
  <2>2. split # NoValue /\ split \in PartsRecord
    BY <1>1, <1>5, <2>1, SplitKeeps
  <2>3. CASE isBareSingleLabel(url, split)
    <3>1. url.scheme = NoValue
      BY <2>3 DEF isBareSingleLabel
    <3>2. context = NoValue
      BY <1>1, <2>3 DEF parsedContext, parseRawParts
    <3>3. describeParseFailure(url) = "single label"
      BY <2>2, <2>3, <3>1 DEF describeParseFailure
    <3> QED
      BY <1>1, <3>2, <3>3
  <2>4. CASE ~isBareSingleLabel(url, split)
    BY <1>1, <2>1, <2>2, <2>4, ContextIs
  <2> QED
    BY <2>3, <2>4
<1> HIDE DEF named
<1> QED
  BY <1>2, <1>3, <1>4, <1>5 DEF PartsAreLossless, url, context, named

LEMMA UrlBegins == MCInit => UrlInv
<1> SUFFICES ASSUME MCInit PROVE UrlInv
  OBVIOUS
<1>1. CASE part = "raw"
  <2>1. PICK url \in {u \in RawUrls : Tokenized(u)} :
          rawUrl = [url |-> url, asked |-> FALSE, context |-> NoValue, failure |-> "none"]
    BY <1>1 DEF MCInit, UrlInit
  <2> QED
    BY <2>1 DEF UrlInv
<1>2. CASE part # "raw"
  <2>1. rawUrl.asked = FALSE
    BY <1>2 DEF MCInit, UrlRests
  <2> QED
    BY <1>2, <2>1 DEF UrlInv
<1> QED
  BY <1>1, <1>2

LEMMA UrlStep == UrlInv /\ [MCNext]_MCvars => UrlInv'
<1> SUFFICES ASSUME UrlInv, [MCNext]_MCvars PROVE UrlInv'
  OBVIOUS
<1>1. CASE UNCHANGED <<rawUrl, part>>
  BY <1>1 DEF UrlInv
<1>2. CASE part = "raw" /\ ParsesUrl /\ UNCHANGED part
  <2> DEFINE url == rawUrl.url
             context == parsedContext(url)
             failure == IF context = NoValue THEN describeParseFailure(url) ELSE "none"
  <2>1. /\ rawUrl = [url |-> url, asked |-> rawUrl.asked, context |-> rawUrl.context,
                     failure |-> rawUrl.failure]
        /\ url \in RawUrls /\ Tokenized(url)
    BY <1>2 DEF UrlInv
  <2>2. rawUrl' = [rawUrl EXCEPT !.asked = TRUE, !.context = context, !.failure = failure]
    BY <1>2 DEF ParsesUrl
  <2> HIDE DEF context, failure
  <2>3. /\ rawUrl' = [url |-> url, asked |-> TRUE, context |-> context, failure |-> failure]
    BY <2>1, <2>2
  <2>4. /\ rawUrl'.url = url /\ rawUrl'.context = context /\ rawUrl'.failure = failure
        /\ rawUrl' = [url |-> rawUrl'.url, asked |-> rawUrl'.asked, context |-> rawUrl'.context,
                      failure |-> rawUrl'.failure]
    BY <2>3
  <2>5. context = parsedContext(url) /\ failure = IF context = NoValue THEN describeParseFailure(url) ELSE "none"
    BY DEF context, failure
  <2> HIDE DEF url
  <2> QED
    BY <2>1, <2>4, <2>5 DEF UrlInv
<1> QED
  BY <1>1, <1>2 DEF MCNext, MCvars, inputVars, Answered

(* A parse loses nothing of an authority of any length but leading zeros   *)
(* of its port, and whatever cut of it leaves a host and a port number is  *)
(* the one that is parsed; a bare word is described as what it would be    *)
(* with a scheme, and decoding says truthfully whether it was cut short    *)
(* (splitRawParts, toPort, boundedDecode).                                 *)
THEOREM PartsKept == MCSpec => []PartsAreLossless
BY UrlBegins, UrlStep, PartsLossless, PTL DEF MCSpec
=============================================================================
