------------------------- MODULE EnrichmentGovernor -------------------------
(***************************************************************************)
(* InMemoryEnrichmentGovernor (packages/core/src/enrichment-governor.ts):  *)
(* a token bucket and an exponential backoff schedule per source, driven   *)
(* by an injectable clock that need not be monotonic (Date.now).           *)
(*                                                                         *)
(* Tokens accrue fractionally, one per Interval, so levels are kept in     *)
(* units of 1/Interval token: a run costs Interval units and each time     *)
(* unit adds one.                                                          *)
(***************************************************************************)
EXTENDS Integers

CONSTANTS
  Source,          \* check tokens "<layer>:<id>"
  Capacity,        \* config.capacity, in units
  Interval,        \* refillIntervalMs: the price of one run, in units
  Refills,         \* FALSE: a non-positive refillIntervalMs disables refill
  BackoffBase,     \* backoffBaseMs
  BackoffMax,      \* backoffMaxMs
  MaxTime,         \* bound on the clock
  MonotonicClock   \* FALSE: the clock may also be set back

(* positiveOr leaves only positive settings. *)
ASSUME GovernorConfig ==
  /\ Capacity \in Nat \ {0}
  /\ Interval \in Nat \ {0}
  /\ Refills \in BOOLEAN
  /\ BackoffBase \in Nat \ {0}
  /\ BackoffMax \in Nat \ {0}
  /\ MaxTime \in Nat
  /\ MonotonicClock \in BOOLEAN

VARIABLES
  now,        \* the clock
  states      \* the Map: the SourceState of each source, NoState if absent

SourceState ==
  [tokens : Nat, lastRefill : Int, consecutiveFailures : Nat, backoffUntil : Nat]

State(tokens, lastRefill, consecutiveFailures, backoffUntil) ==
  [tokens |-> tokens, lastRefill |-> lastRefill,
   consecutiveFailures |-> consecutiveFailures, backoffUntil |-> backoffUntil]

NoState == State(0, -1, 0, 0)

Known(t) == states[t].lastRefill >= 0

(***************************************************************************)
(* Fetch the state of a source, or create it full.                         *)
(***************************************************************************)
stateFor(t) == IF Known(t) THEN states[t] ELSE State(Capacity, now, 0, 0)

AtMost(a, b) == IF a <= b THEN a ELSE b

(***************************************************************************)
(* Accrue tokens for the time elapsed, capped at capacity.  A clock that   *)
(* went back leaves the state alone.                                       *)
(***************************************************************************)
Accrued(s) ==
  IF Refills THEN AtMost(Capacity, s.tokens + (now - s.lastRefill)) ELSE s.tokens

(* Fault: lastRefill follows the clock when it is set back. *)
RefillRewinding(s) ==
  State(IF Refills /\ now <= s.lastRefill THEN s.tokens ELSE Accrued(s),
        now, s.consecutiveFailures, s.backoffUntil)

refill(s) ==
  IF Refills /\ now <= s.lastRefill THEN s
  ELSE State(Accrued(s), now, s.consecutiveFailures, s.backoffUntil)

(* Fault: the exponential is not capped. *)
WindowUncapped(n) == BackoffBase * 2 ^ (n - 1)

(***************************************************************************)
(* base * 2^(n-1), capped.                                                 *)
(***************************************************************************)
window(n) ==
  AtMost(BackoffBase * 2 ^ (n - 1), BackoffMax)

(* Fault: the backoff is not consulted. *)
DecisionWithoutBackoff(t) ==
  IF refill(stateFor(t)).tokens < Interval THEN "rate-limited" ELSE "run"

(***************************************************************************)
(* The answer of admit, and the state it leaves behind.                    *)
(***************************************************************************)
decision(t) ==
  IF stateFor(t).backoffUntil > now THEN "backoff-active"
  ELSE IF refill(stateFor(t)).tokens < Interval THEN "rate-limited"
  ELSE "run"

afterAdmit(t) ==
  CASE decision(t) = "backoff-active" -> stateFor(t)
    [] decision(t) = "rate-limited"   -> refill(stateFor(t))
    [] decision(t) = "run" ->
         [refill(stateFor(t)) EXCEPT !.tokens = @ - Interval]

(***************************************************************************)
(* The three calls of the interface.                                       *)
(***************************************************************************)
admit(t) ==
  /\ states' = [states EXCEPT ![t] = afterAdmit(t)]
  /\ UNCHANGED now

recordSuccess(t) ==
  LET s == stateFor(t) IN
  /\ states' = [states EXCEPT ![t] = State(s.tokens, s.lastRefill, 0, 0)]
  /\ UNCHANGED now

recordFailure(t) ==
  LET s == stateFor(t)
      n == s.consecutiveFailures + 1
  IN
  /\ states' = [states EXCEPT ![t] =
                   State(s.tokens, s.lastRefill, n, now + window(n))]
  /\ UNCHANGED now

ClockMoves ==
  /\ now' \in 0..MaxTime
  /\ now' # now
  /\ MonotonicClock => now' = now + 1
  /\ UNCHANGED states

=============================================================================
