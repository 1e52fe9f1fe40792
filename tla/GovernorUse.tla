---------------------------- MODULE GovernorUse -----------------------------
(***************************************************************************)
(* The governor under any number of concurrent runs, as runEnricher drives *)
(* it: every run that admit lets through is recorded exactly once, later   *)
(* and in any order.  The ledger is what an observer of the calls alone    *)
(* would note; the properties compare the governor's answers with it.      *)
(***************************************************************************)
EXTENDS EnrichmentGovernor

CONSTANT MaxFailures    \* bound on counted consecutive failures

ASSUME UseAssumption == MaxFailures \in Nat \ {0}

(* Arithmetic the prover has no theory of: the doubling stays a number. *)
ASSUME DoublingAssumption == \A n \in 1..MaxFailures : 2 ^ (n - 1) \in Nat

VARIABLES
  owed,       \* admitted runs of each source that have not been recorded
  ledger      \* history of each source

vars == <<now, states, owed, ledger>>

Ledger ==
  [spent : Nat, openedAt : Int, clock : Int, streak : Nat, failedAt : Int]

Noted(spent, openedAt, clock, streak, failedAt) ==
  [spent |-> spent, openedAt |-> openedAt, clock |-> clock,
   streak |-> streak, failedAt |-> failedAt]

NoLedger == Noted(0, -1, -1, 0, -1)

Init ==
  /\ now = 0
  /\ states = [t \in Source |-> NoState]
  /\ owed = [t \in Source |-> 0]
  /\ ledger = [t \in Source |-> NoLedger]

(***************************************************************************)
(* The observer notes when a source was first met and the furthest the     *)
(* clock had come at any later call.                                       *)
(***************************************************************************)
OpenedAt(t) == IF ledger[t].openedAt = -1 THEN now ELSE ledger[t].openedAt
Clock(t)    == IF now > ledger[t].clock THEN now ELSE ledger[t].clock

Note(t, spent, streak, failedAt) ==
  ledger' = [ledger EXCEPT ![t] =
               Noted(spent, OpenedAt(t), Clock(t), streak, failedAt)]

Admitted(t) ==
  /\ decision(t) = "run"
  /\ admit(t)
  /\ owed' = [owed EXCEPT ![t] = @ + 1]
  /\ Note(t, ledger[t].spent + Interval, ledger[t].streak, ledger[t].failedAt)

Denied(t) ==
  /\ decision(t) # "run"
  /\ admit(t)
  /\ Note(t, ledger[t].spent, ledger[t].streak, ledger[t].failedAt)
  /\ UNCHANGED owed

Succeeds(t) ==
  /\ owed[t] > 0
  /\ recordSuccess(t)
  /\ owed' = [owed EXCEPT ![t] = @ - 1]
  /\ Note(t, ledger[t].spent, 0, ledger[t].failedAt)

Fails(t) ==
  /\ owed[t] > 0
  /\ stateFor(t).consecutiveFailures < MaxFailures
  /\ recordFailure(t)
  /\ owed' = [owed EXCEPT ![t] = @ - 1]
  /\ Note(t, ledger[t].spent, ledger[t].streak + 1, now)

Tick ==
  /\ ClockMoves
  /\ UNCHANGED <<owed, ledger>>

Next ==
  \/ \E t \in Source : Admitted(t) \/ Denied(t) \/ Succeeds(t) \/ Fails(t)
  \/ Tick

Spec == Init /\ [][Next]_vars

-----------------------------------------------------------------------------
TypeOK ==
  /\ now \in Nat
  /\ states \in [Source -> SourceState]
  /\ owed \in [Source -> Nat]
  /\ ledger \in [Source -> Ledger]

(***************************************************************************)
(* How the state s of a source and its ledger l stay in step: what has     *)
(* been spent and what is left never exceed what the bucket has received,  *)
(* and an open window is the one the last failure opened.                  *)
(***************************************************************************)
Refilled(from, to) == IF Refills THEN to - from ELSE 0

InStep(s, l) ==
  /\ l.openedAt >= 0
  /\ s.lastRefill >= 0
  /\ l.openedAt <= l.clock
  /\ s.lastRefill <= l.clock
  /\ s.tokens <= Capacity
  /\ l.spent + s.tokens <= Capacity + Refilled(l.openedAt, s.lastRefill)
  /\ s.consecutiveFailures = l.streak
  /\ l.streak <= MaxFailures
  /\ l.streak > 0 => s.backoffUntil = l.failedAt + window(l.streak)
  /\ s.backoffUntil <= l.clock + BackoffMax

Account(t) ==
  IF Known(t) THEN InStep(states[t], ledger[t])
  ELSE states[t] = NoState /\ ledger[t] = NoLedger /\ owed[t] = 0

Accounts == \A t \in Source : Account(t)

(***************************************************************************)
(* The bucket never overdraws or overfills: between 0 and capacity tokens, *)
(* whatever the clock does (admit, refill: enrichment-governor.ts:190-192, *)
(* 230-240).                                                               *)
(***************************************************************************)
BucketBounded ==
  \A t \in Source : states[t].tokens \in 0..Capacity

(***************************************************************************)
(* The rate limit: the runs admitted for a source since it was first met   *)
(* cost at most a full bucket plus one unit per time unit the clock has    *)
(* advanced, and at most a full bucket when refill is off.  Setting the    *)
(* clock back and letting it catch up mints nothing.                       *)
(***************************************************************************)
RateLimit ==
  \A t \in Source :
    ledger[t].spent <= Capacity + Refilled(ledger[t].openedAt, ledger[t].clock)

(***************************************************************************)
(* After n failures in a row no run is admitted before the n-th one's      *)
(* window is over, however many runs were in flight when it was opened;    *)
(* only a success in between may end it early (admit checks backoff first, *)
(* enrichment-governor.ts:186-188).                                        *)
(***************************************************************************)
BackoffHonoured ==
  [][\A t \in Source :
       (owed'[t] > owed[t] /\ ledger[t].streak > 0)
         => now >= ledger[t].failedAt + window(ledger[t].streak)]_vars

(***************************************************************************)
(* A source is never shut out for good.  With a bucket that holds at least *)
(* one token and refill on, it would be admitted, if nothing else happened *)
(* in between, once the clock is BackoffMax + Interval past the furthest   *)
(* it had come at any call for that source.  Failures recorded while the   *)
(* clock is set back, or by runs that were already in flight, do not move  *)
(* that point (window is capped, enrichment-governor.ts:209-217, 230-240). *)
(***************************************************************************)
AdmittedAt(t, time) ==
  LET s == states[t] IN
  /\ s.backoffUntil <= time
  /\ AtMost(Capacity, s.tokens + (time - s.lastRefill)) >= Interval

RecoveryBounded ==
  (Refills /\ Capacity >= Interval) =>
    \A t \in Source :
      Known(t) => AdmittedAt(t, ledger[t].clock + BackoffMax + Interval)

=============================================================================
