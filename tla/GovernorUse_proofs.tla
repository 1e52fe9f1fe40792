------------------------- MODULE GovernorUse_proofs -------------------------
(***************************************************************************)
(* Proofs about the rate limit and the backoff, for every configuration,   *)
(* any number of sources and runs, and any bound on the clock.             *)
(***************************************************************************)
EXTENDS GovernorUse, TLAPS

(* The numeric part of the assumptions, which most steps need. *)
LEMMA Numbers ==
  /\ Capacity \in Nat /\ Capacity > 0 /\ Interval \in Nat /\ Interval > 0
  /\ BackoffBase \in Nat /\ BackoffMax \in Nat /\ BackoffMax > 0
  /\ MaxTime \in Nat /\ MaxFailures \in Nat
  BY GovernorConfig, UseAssumption

(* A backoff window is a number and never longer than backoffMaxMs. *)
LEMMA WindowType ==
  ASSUME NEW n \in 1..MaxFailures
  PROVE  window(n) \in Nat /\ window(n) <= BackoffMax
<1>1. 2 ^ (n - 1) \in Nat
  BY DoublingAssumption
<1>2. \A b \in Nat : BackoffBase * b \in Nat
  BY Numbers
<1>3. BackoffBase * 2 ^ (n - 1) \in Nat
  BY <1>1, <1>2
<1> QED
  BY <1>3, Numbers DEF window, AtMost

(* stateFor returns a usable state, the stored one if there is one. *)
LEMMA StateForFacts ==
  ASSUME TypeOK, NEW t \in Source
  PROVE  /\ stateFor(t) \in SourceState
         /\ stateFor(t).lastRefill >= 0
         /\ Known(t) => stateFor(t) = states[t]
         /\ ~ Known(t) => stateFor(t) = State(Capacity, now, 0, 0)
<1>1. CASE Known(t)
  BY <1>1 DEF TypeOK, stateFor, Known
<1>2. CASE ~ Known(t)
  BY <1>2, Numbers DEF TypeOK, stateFor, SourceState, State
<1> QED
  BY <1>1, <1>2

(* refill adds at most the time elapsed and never moves past the clock. *)
LEMMA RefillFacts ==
  ASSUME NEW s \in SourceState, now \in Nat
  PROVE  /\ refill(s) \in SourceState
         /\ refill(s).consecutiveFailures = s.consecutiveFailures
         /\ refill(s).backoffUntil = s.backoffUntil
         /\ s.tokens <= Capacity => refill(s).tokens <= Capacity
         /\ refill(s).lastRefill = s.lastRefill \/ refill(s).lastRefill = now
         /\ ~ Refills => refill(s).tokens = s.tokens
         /\ Refills =>
              refill(s).tokens - s.tokens <= refill(s).lastRefill - s.lastRefill
<1>1. CASE Refills /\ now <= s.lastRefill
  <2>1. refill(s) = s
    BY <1>1 DEF refill
  <2> QED
    BY <1>1, <2>1 DEF SourceState
<1>2. CASE ~ (Refills /\ now <= s.lastRefill)
  <2> DEFINE n == Accrued(s)
  <2>1. refill(s) = State(n, now, s.consecutiveFailures, s.backoffUntil)
    BY <1>2 DEF refill
  <2>2. s.tokens \in Nat /\ s.lastRefill \in Int
    BY DEF SourceState
  <2>3. /\ n \in Nat
        /\ s.tokens <= Capacity => n <= Capacity
        /\ ~ Refills => n = s.tokens
        /\ Refills => n <= s.tokens + (now - s.lastRefill)
    BY <1>2, <2>2, Numbers DEF Accrued, AtMost
  <2> HIDE DEF n
  <2>4. /\ refill(s) \in SourceState
        /\ refill(s).tokens = n /\ refill(s).lastRefill = now
        /\ refill(s).consecutiveFailures = s.consecutiveFailures
        /\ refill(s).backoffUntil = s.backoffUntil
    BY <2>1, <2>3 DEF State, SourceState
  <2> QED
    BY <2>2, <2>3, <2>4
<1> QED
  BY <1>1, <1>2

(* admit spends a whole token or none, and only outside a backoff window. *)
LEMMA AfterAdmitFacts ==
  ASSUME TypeOK, NEW t \in Source
  PROVE  /\ afterAdmit(t) \in SourceState
         /\ decision(t) = "run" =>
              /\ stateFor(t).backoffUntil <= now
              /\ afterAdmit(t).tokens = refill(stateFor(t)).tokens - Interval
              /\ afterAdmit(t).lastRefill = refill(stateFor(t)).lastRefill
              /\ afterAdmit(t).consecutiveFailures = stateFor(t).consecutiveFailures
              /\ afterAdmit(t).backoffUntil = stateFor(t).backoffUntil
         /\ decision(t) # "run" =>
              afterAdmit(t) = stateFor(t) \/ afterAdmit(t) = refill(stateFor(t))
<1> DEFINE r == refill(stateFor(t))
<1>1. /\ stateFor(t) \in SourceState /\ r \in SourceState
      /\ r.consecutiveFailures = stateFor(t).consecutiveFailures
      /\ r.backoffUntil = stateFor(t).backoffUntil
  BY StateForFacts, RefillFacts DEF TypeOK
<1>2. decision(t) \in {"backoff-active", "rate-limited", "run"}
  BY DEF decision
<1>3. CASE decision(t) = "run"
  <2>1. stateFor(t).backoffUntil <= now /\ r.tokens >= Interval
    BY <1>1, <1>3, Numbers DEF decision, SourceState, TypeOK
  <2>2. afterAdmit(t) = [r EXCEPT !.tokens = @ - Interval]
    BY <1>3 DEF afterAdmit
  <2> HIDE DEF r
  <2>3. /\ afterAdmit(t) \in SourceState
        /\ afterAdmit(t).tokens = r.tokens - Interval
        /\ afterAdmit(t).lastRefill = r.lastRefill
        /\ afterAdmit(t).consecutiveFailures = r.consecutiveFailures
        /\ afterAdmit(t).backoffUntil = r.backoffUntil
    BY <1>1, <2>1, <2>2, Numbers DEF SourceState
  <2> QED
    BY <1>1, <1>3, <2>1, <2>3 DEF r
<1>4. CASE decision(t) # "run"
  BY <1>1, <1>2, <1>4 DEF afterAdmit
<1> QED
  BY <1>3, <1>4

(* The observer's marks only move forward. *)
LEMMA MarkFacts ==
  ASSUME TypeOK, NEW t \in Source
  PROVE  /\ OpenedAt(t) \in Int /\ Clock(t) \in Int
         /\ Clock(t) >= ledger[t].clock /\ Clock(t) >= now
         /\ ledger[t] \in Ledger
  BY DEF TypeOK, OpenedAt, Clock, Ledger

LEMMA NotedFacts ==
  ASSUME NEW p \in Nat, NEW o \in Int, NEW c \in Int, NEW k \in Nat, NEW f \in Int
  PROVE  /\ Noted(p, o, c, k, f) \in Ledger
         /\ Noted(p, o, c, k, f).spent = p
         /\ Noted(p, o, c, k, f).openedAt = o
         /\ Noted(p, o, c, k, f).clock = c
         /\ Noted(p, o, c, k, f).streak = k
         /\ Noted(p, o, c, k, f).failedAt = f
  BY DEF Noted, Ledger

LEMMA StateFacts ==
  ASSUME NEW n \in Nat, NEW r \in Int, NEW f \in Nat, NEW b \in Nat
  PROVE  /\ State(n, r, f, b) \in SourceState
         /\ State(n, r, f, b).tokens = n
         /\ State(n, r, f, b).lastRefill = r
         /\ State(n, r, f, b).consecutiveFailures = f
         /\ State(n, r, f, b).backoffUntil = b
  BY DEF State, SourceState

-----------------------------------------------------------------------------
(***************************************************************************)
(* The governor's state and the ledger keep their types: in particular no  *)
(* bucket is ever overdrawn.                                               *)
(***************************************************************************)
THEOREM TypeCorrect == Spec => []TypeOK
<1>1. Init => TypeOK
  <2>1. NoState \in SourceState /\ NoLedger \in Ledger
    BY StateFacts, NotedFacts DEF NoState, NoLedger
  <2> QED
    BY <2>1 DEF Init, TypeOK
<1>2. TypeOK /\ [Next]_vars => TypeOK'
  <2> SUFFICES ASSUME TypeOK, [Next]_vars
               PROVE  TypeOK'
    OBVIOUS
  <2>0. ASSUME NEW t \in Source, NEW s \in SourceState,
               NEW p \in Nat, NEW k \in Nat, NEW f \in Int,
               states' = [states EXCEPT ![t] = s], Note(t, p, k, f), now' = now,
               owed' \in [Source -> Nat]
        PROVE  TypeOK'
    <3>1. Noted(p, OpenedAt(t), Clock(t), k, f) \in Ledger
      BY MarkFacts, NotedFacts
    <3> QED
      BY <2>0, <3>1 DEF TypeOK, Note
  <2>1. ASSUME NEW t \in Source
        PROVE  /\ ledger[t].spent \in Nat /\ ledger[t].spent + Interval \in Nat
               /\ ledger[t].streak \in Nat /\ ledger[t].streak + 1 \in Nat
               /\ ledger[t].failedAt \in Int
    BY Numbers DEF TypeOK, Ledger
  <2>2. ASSUME NEW t \in Source, Admitted(t)
        PROVE  TypeOK'
    <3>1. owed' \in [Source -> Nat]
      BY <2>2 DEF Admitted, TypeOK
    <3> QED
      BY <2>0, <2>1, <2>2, <3>1, AfterAdmitFacts DEF Admitted, admit
  <2>3. ASSUME NEW t \in Source, Denied(t)
        PROVE  TypeOK'
    <3>1. owed' \in [Source -> Nat]
      BY <2>3 DEF Denied, TypeOK
    <3> QED
      BY <2>0, <2>1, <2>3, <3>1, AfterAdmitFacts DEF Denied, admit
  <2>4. ASSUME NEW t \in Source, Succeeds(t)
        PROVE  TypeOK'
    <3>1. owed' \in [Source -> Nat]
      BY <2>4 DEF Succeeds, TypeOK
    <3>2. stateFor(t).tokens \in Nat /\ stateFor(t).lastRefill \in Int
      BY StateForFacts DEF SourceState
    <3>3. State(stateFor(t).tokens, stateFor(t).lastRefill, 0, 0) \in SourceState
      BY <3>2, StateFacts
    <3> QED
      BY <2>0, <2>1, <2>4, <3>1, <3>3 DEF Succeeds, recordSuccess
  <2>5. ASSUME NEW t \in Source, Fails(t)
        PROVE  TypeOK'
    <3> DEFINE q == stateFor(t)
               n == q.consecutiveFailures + 1
    <3>1. owed' \in [Source -> Nat]
      BY <2>5 DEF Fails, TypeOK
    <3>2. q.tokens \in Nat /\ q.lastRefill \in Int /\ n \in 1..MaxFailures
      BY <2>5, StateForFacts, Numbers DEF SourceState, Fails
    <3>3. now + window(n) \in Nat /\ now \in Int
      BY <3>2, WindowType DEF TypeOK
    <3>4. State(q.tokens, q.lastRefill, n, now + window(n)) \in SourceState
      <4>1. n \in Nat
        BY <3>2, Numbers
      <4> HIDE DEF q, n
      <4> QED
        BY <3>2, <3>3, <4>1, StateFacts
    <3>5. /\ states' = [states EXCEPT ![t] =
                          State(q.tokens, q.lastRefill, n, now + window(n))]
          /\ now' = now
          /\ Note(t, ledger[t].spent, ledger[t].streak + 1, now)
      BY <2>5 DEF Fails, recordFailure
    <3> HIDE DEF q, n
    <3> QED
      BY <2>0, <2>1, <3>1, <3>3, <3>4, <3>5
  <2>6. CASE Tick
    BY <2>6 DEF TypeOK, Tick, ClockMoves
  <2>7. CASE UNCHANGED vars
    BY <2>7 DEF TypeOK, vars
  <2> QED
    BY <2>2, <2>3, <2>4, <2>5, <2>6, <2>7 DEF Next
<1> QED
  BY <1>1, <1>2, PTL DEF Spec

-----------------------------------------------------------------------------
(* What a call of t starts from: the ledger with its marks brought up to   *)
(* date is in step with the state that stateFor fetches.                   *)
Current(t) ==
  Noted(ledger[t].spent, OpenedAt(t), Clock(t), ledger[t].streak, ledger[t].failedAt)

LEMMA CurrentFacts ==
  ASSUME TypeOK, NEW t \in Source
  PROVE  /\ Current(t) \in Ledger
         /\ Current(t).spent = ledger[t].spent
         /\ Current(t).openedAt = OpenedAt(t)
         /\ Current(t).clock = Clock(t)
         /\ Current(t).streak = ledger[t].streak
         /\ Current(t).failedAt = ledger[t].failedAt
<1>1. ledger[t].spent \in Nat /\ ledger[t].streak \in Nat /\ ledger[t].failedAt \in Int
  BY DEF TypeOK, Ledger
<1>2. OpenedAt(t) \in Int /\ Clock(t) \in Int
  BY MarkFacts
<1> QED
  BY <1>1, <1>2 DEF Current, Noted, Ledger

LEMMA CallStartsInStep ==
  ASSUME TypeOK, NEW t \in Source, Account(t)
  PROVE  InStep(stateFor(t), Current(t)) /\ Current(t).clock >= now
<1>1. CASE Known(t)
  <2>1. InStep(states[t], ledger[t]) /\ stateFor(t) = states[t]
    BY <1>1, StateForFacts DEF Account
  <2>2. OpenedAt(t) = ledger[t].openedAt
    BY <2>1, MarkFacts DEF OpenedAt, InStep, Ledger
  <2>3. states[t] \in SourceState /\ ledger[t] \in Ledger /\ now \in Nat
    BY DEF TypeOK
  <2>4. Clock(t) \in Int /\ Clock(t) >= ledger[t].clock /\ Clock(t) >= now
    BY MarkFacts
  <2> QED
    BY <2>1, <2>2, <2>3, <2>4, CurrentFacts, Numbers DEF InStep, SourceState, Ledger
<1>2. CASE ~ Known(t)
  <2>1. ledger[t] = NoLedger /\ stateFor(t) = State(Capacity, now, 0, 0)
    BY <1>2, StateForFacts DEF Account
  <2>2. /\ ledger[t].spent = 0 /\ ledger[t].openedAt = -1 /\ ledger[t].clock = -1
        /\ ledger[t].streak = 0
    BY <2>1 DEF NoLedger, Noted
  <2>3. OpenedAt(t) = now /\ Clock(t) = now /\ now \in Nat
    BY <2>2 DEF OpenedAt, Clock, TypeOK
  <2>4. /\ stateFor(t).tokens = Capacity /\ stateFor(t).lastRefill = now
        /\ stateFor(t).consecutiveFailures = 0 /\ stateFor(t).backoffUntil = 0
    BY <2>1 DEF State
  <2>5. Refilled(now, now) = 0
    BY <2>3 DEF Refilled
  <2> QED
    BY <2>2, <2>3, <2>4, <2>5, CurrentFacts, Numbers DEF InStep
<1> QED
  BY <1>1, <1>2

(* Refilling, spending and recording each keep state and ledger in step. *)
LEMMA RefillInStep ==
  ASSUME NEW q \in SourceState, NEW m \in Ledger, now \in Nat,
         InStep(q, m), m.clock >= now
  PROVE  InStep(refill(q), m)
<1> DEFINE r == refill(q)
<1>1. /\ r \in SourceState
      /\ r.consecutiveFailures = q.consecutiveFailures
      /\ r.backoffUntil = q.backoffUntil
      /\ q.tokens <= Capacity => r.tokens <= Capacity
      /\ r.lastRefill = q.lastRefill \/ r.lastRefill = now
      /\ ~ Refills => r.tokens = q.tokens
      /\ Refills => r.tokens - q.tokens <= r.lastRefill - q.lastRefill
  BY RefillFacts
<1> HIDE DEF r
<1>2. /\ q.tokens \in Nat /\ r.tokens \in Nat /\ q.lastRefill \in Int
      /\ r.lastRefill \in Int /\ m.spent \in Nat /\ m.openedAt \in Int /\ m.clock \in Int
  BY <1>1 DEF SourceState, Ledger
<1>3. m.spent + r.tokens <= Capacity + Refilled(m.openedAt, r.lastRefill)
  BY <1>1, <1>2, Numbers DEF InStep, Refilled
<1> QED
  BY <1>1, <1>2, <1>3 DEF InStep, r

LEMMA SpendInStep ==
  ASSUME NEW r \in SourceState, NEW m \in Ledger, now \in Nat, InStep(r, m),
         NEW s \in SourceState, NEW l \in Ledger,
         s.tokens = r.tokens - Interval, s.lastRefill = r.lastRefill,
         s.consecutiveFailures = r.consecutiveFailures,
         s.backoffUntil = r.backoffUntil,
         l.openedAt = m.openedAt, l.clock = m.clock,
         l.spent = m.spent + Interval, l.streak = m.streak, l.failedAt = m.failedAt
  PROVE  InStep(s, l)
<1>1. /\ r.tokens \in Nat /\ m.spent \in Nat /\ Refilled(m.openedAt, r.lastRefill) \in Int
      /\ r.lastRefill \in Int
  BY DEF SourceState, Ledger, Refilled
<1>2. l.spent + s.tokens = m.spent + r.tokens
  BY <1>1, Numbers
<1>3. s.tokens <= Capacity
  BY <1>1, Numbers DEF InStep
<1> QED
  BY <1>2, <1>3 DEF InStep

(***************************************************************************)
(* What was spent and what is left never exceed what the bucket received,  *)
(* and an open window is the one the last failure opened, at every call of *)
(* every source (enrichment-governor.ts:182-240).                          *)
(***************************************************************************)
THEOREM AccountsHold == Spec => []Accounts
<1>1. Init => Accounts
  <2> SUFFICES ASSUME Init, NEW t \in Source
               PROVE  Account(t)
    BY DEF Accounts
  <2>1. states[t] = NoState /\ ledger[t] = NoLedger /\ owed[t] = 0
    BY DEF Init
  <2>2. ~ Known(t)
    BY <2>1 DEF Known, NoState, State
  <2> QED
    BY <2>1, <2>2 DEF Account
<1>2. TypeOK /\ TypeOK' /\ Accounts /\ [Next]_vars => Accounts'
  <2> SUFFICES ASSUME TypeOK, TypeOK', Accounts, [Next]_vars
               PROVE  Accounts'
    OBVIOUS
  <2>0. ASSUME NEW t \in Source, NEW s \in SourceState,
               NEW p \in Nat, NEW k \in Nat, NEW f \in Int, NEW o,
               states' = [states EXCEPT ![t] = s], now' = now,
               owed' = [owed EXCEPT ![t] = o], Note(t, p, k, f),
               InStep(s, Noted(p, OpenedAt(t), Clock(t), k, f))
        PROVE  Accounts'
    <3> SUFFICES ASSUME NEW u \in Source
                 PROVE  Account(u)'
      BY DEF Accounts
    <3>1. CASE u = t
      <4>1. /\ states'[u] = s
            /\ ledger'[u] = Noted(p, OpenedAt(t), Clock(t), k, f)
        BY <2>0, <3>1 DEF TypeOK, Note
      <4>2. InStep(states[u], ledger[u])'
        BY <2>0, <4>1 DEF InStep
      <4>3. Known(u)'
        BY <4>2 DEF Known, InStep
      <4> QED
        BY <4>2, <4>3 DEF Account
    <3>2. CASE u # t
      <4>1. states'[u] = states[u] /\ ledger'[u] = ledger[u] /\ owed'[u] = owed[u]
        BY <2>0, <3>2 DEF TypeOK, Note
      <4> QED
        BY <2>0, <4>1 DEF Accounts, Account, Known, InStep
    <3> QED
      BY <3>1, <3>2
  <2>1. ASSUME NEW t \in Source
        PROVE  /\ stateFor(t) \in SourceState /\ Current(t) \in Ledger /\ now \in Nat
               /\ InStep(stateFor(t), Current(t))
               /\ InStep(refill(stateFor(t)), Current(t))
               /\ refill(stateFor(t)) \in SourceState
               /\ ledger[t].spent \in Nat /\ ledger[t].spent + Interval \in Nat
               /\ ledger[t].streak \in Nat /\ ledger[t].streak + 1 \in Nat
               /\ ledger[t].failedAt \in Int
    <3>1. stateFor(t) \in SourceState /\ Current(t) \in Ledger /\ now \in Nat
      BY StateForFacts, CurrentFacts DEF TypeOK
    <3>2. InStep(stateFor(t), Current(t)) /\ Current(t).clock >= now
      BY CallStartsInStep DEF Accounts
    <3>3. InStep(refill(stateFor(t)), Current(t)) /\ refill(stateFor(t)) \in SourceState
      BY <3>1, <3>2, RefillInStep, RefillFacts
    <3> QED
      BY <3>1, <3>2, <3>3, Numbers DEF TypeOK, Ledger
  <2>2. ASSUME NEW t \in Source, Admitted(t)
        PROVE  Accounts'
    <3> DEFINE l == Noted(ledger[t].spent + Interval, OpenedAt(t), Clock(t),
                          ledger[t].streak, ledger[t].failedAt)
    <3>1. /\ l \in Ledger /\ l.spent = ledger[t].spent + Interval
          /\ l.openedAt = OpenedAt(t) /\ l.clock = Clock(t)
          /\ l.streak = ledger[t].streak /\ l.failedAt = ledger[t].failedAt
      <4>1. OpenedAt(t) \in Int /\ Clock(t) \in Int
        BY MarkFacts
      <4> QED
        BY <2>1, <4>1 DEF Noted, Ledger
    <3> HIDE DEF l
    <3>2. /\ afterAdmit(t) \in SourceState
          /\ afterAdmit(t).tokens = refill(stateFor(t)).tokens - Interval
          /\ afterAdmit(t).lastRefill = refill(stateFor(t)).lastRefill
          /\ afterAdmit(t).consecutiveFailures = refill(stateFor(t)).consecutiveFailures
          /\ afterAdmit(t).backoffUntil = refill(stateFor(t)).backoffUntil
      BY <2>1, <2>2, AfterAdmitFacts, RefillFacts DEF Admitted
    <3>3. InStep(afterAdmit(t), l)
      BY <2>1, <3>1, <3>2, CurrentFacts, SpendInStep
    <3> QED
      BY <2>0, <2>1, <2>2, <3>2, <3>3 DEF Admitted, admit, l
  <2>3. ASSUME NEW t \in Source, Denied(t)
        PROVE  Accounts'
    <3>1. InStep(afterAdmit(t), Current(t)) /\ afterAdmit(t) \in SourceState
      BY <2>1, <2>3, AfterAdmitFacts DEF Denied
    <3>2. owed' = [owed EXCEPT ![t] = owed[t]]
      BY <2>3 DEF Denied, TypeOK
    <3> QED
      BY <2>0, <2>1, <2>3, <3>1, <3>2 DEF Denied, admit, Current
  <2>4. ASSUME NEW t \in Source, Succeeds(t)
        PROVE  Accounts'
    <3> DEFINE s == State(stateFor(t).tokens, stateFor(t).lastRefill, 0, 0)
               l == Noted(ledger[t].spent, OpenedAt(t), Clock(t), 0, ledger[t].failedAt)
    <3>1. /\ s \in SourceState /\ s.tokens = stateFor(t).tokens
          /\ s.lastRefill = stateFor(t).lastRefill
          /\ s.consecutiveFailures = 0 /\ s.backoffUntil = 0
      BY <2>1 DEF State, SourceState
    <3>2. /\ l \in Ledger /\ l.spent = ledger[t].spent
          /\ l.openedAt = OpenedAt(t) /\ l.clock = Clock(t) /\ l.streak = 0
      <4>1. OpenedAt(t) \in Int /\ Clock(t) \in Int
        BY MarkFacts
      <4> QED
        BY <2>1, <4>1 DEF Noted, Ledger
    <3>3. states' = [states EXCEPT ![t] = s]
      BY <2>4 DEF Succeeds, recordSuccess
    <3> HIDE DEF s, l
    <3>4. InStep(s, l)
      <4>1. Clock(t) \in Int /\ Clock(t) >= now
        BY MarkFacts
      <4>2. s.backoffUntil <= l.clock + BackoffMax
        BY <2>1, <3>1, <3>2, <4>1, Numbers
      <4> QED
        BY <2>1, <3>1, <3>2, <4>2, CurrentFacts, Numbers DEF InStep
    <3> QED
      BY <2>0, <2>1, <2>4, <3>1, <3>3, <3>4 DEF Succeeds, recordSuccess, l
  <2>5. ASSUME NEW t \in Source, Fails(t)
        PROVE  Accounts'
    <3> DEFINE q == stateFor(t)
               n == q.consecutiveFailures + 1
               b == now + window(n)
               s == State(q.tokens, q.lastRefill, n, b)
               l == Noted(ledger[t].spent, OpenedAt(t), Clock(t),
                          ledger[t].streak + 1, now)
    <3>1. n \in 1..MaxFailures /\ n \in Nat
      BY <2>1, <2>5, Numbers DEF SourceState, Fails
    <3>2. b \in Nat /\ b <= now + BackoffMax
      BY <2>1, <3>1, WindowType, Numbers
    <3>3. states' = [states EXCEPT ![t] = s]
      BY <2>5 DEF Fails, recordFailure
    <3>4. /\ l \in Ledger /\ l.spent = ledger[t].spent
          /\ l.openedAt = OpenedAt(t) /\ l.clock = Clock(t)
          /\ l.streak = ledger[t].streak + 1 /\ l.failedAt = now
      <4>1. now \in Int /\ OpenedAt(t) \in Int /\ Clock(t) \in Int
        BY <2>1, MarkFacts
      <4> QED
        BY <2>1, <4>1 DEF Noted, Ledger
    <3>5. q \in SourceState /\ q.consecutiveFailures = ledger[t].streak
      BY <2>1, CurrentFacts DEF InStep
    <3>6. n = ledger[t].streak + 1 /\ b = now + window(n)
      BY <3>5
    <3> HIDE DEF n, b, q
    <3>7. /\ s \in SourceState /\ s.tokens = q.tokens /\ s.lastRefill = q.lastRefill
          /\ s.consecutiveFailures = n /\ s.backoffUntil = b
      BY <3>1, <3>2, <3>5 DEF State, SourceState
    <3> HIDE DEF s, l
    <3>8. InStep(q, Current(t)) /\ now \in Nat
      BY <2>1 DEF q
    <3>9. InStep(s, l)
      <4>1. Clock(t) \in Int /\ Clock(t) >= now
        BY MarkFacts
      <4>2. s.backoffUntil <= l.clock + BackoffMax
        BY <3>2, <3>4, <3>7, <3>8, <4>1, Numbers
      <4> QED
        BY <3>1, <3>2, <3>4, <3>6, <3>7, <3>8, <4>2, CurrentFacts, Numbers DEF InStep
    <3> QED
      <4>1. /\ Note(t, ledger[t].spent, ledger[t].streak + 1, now)
            /\ owed' = [owed EXCEPT ![t] = owed[t] - 1] /\ now' = now
        BY <2>5 DEF Fails, recordFailure
      <4>2. /\ now \in Int
            /\ InStep(s, Noted(ledger[t].spent, OpenedAt(t), Clock(t),
                               ledger[t].streak + 1, now))
        BY <2>1, <3>9 DEF l
      <4> QED
        BY <2>0, <2>1, <3>3, <3>7, <4>1, <4>2
  <2>6. CASE Tick
    <3> SUFFICES ASSUME NEW t \in Source
                 PROVE  Account(t)'
      BY DEF Accounts
    <3>1. states' = states /\ ledger' = ledger /\ owed' = owed
      BY <2>6 DEF Tick, ClockMoves
    <3>2. CASE Known(t)
      <4>1. InStep(states[t], ledger[t]) /\ states[t] \in SourceState /\ now \in Nat
        BY <3>2 DEF Accounts, Account, TypeOK
      <4>2. InStep(states[t], ledger[t])'
        BY <3>1, <4>1, Numbers DEF InStep, SourceState
      <4> QED
        BY <3>1, <3>2, <4>2 DEF Account, Known
    <3>3. CASE ~ Known(t)
      BY <3>1, <3>3 DEF Accounts, Account, Known
    <3> QED
      BY <3>2, <3>3
  <2>7. CASE UNCHANGED vars
    BY <2>7 DEF vars, Accounts, Account, Known, InStep
  <2> QED
    BY <2>2, <2>3, <2>4, <2>5, <2>6, <2>7 DEF Next
<1> QED
  BY <1>1, <1>2, TypeCorrect, PTL DEF Spec

-----------------------------------------------------------------------------
(***************************************************************************)
(* No bucket ever holds less than nothing or more than its capacity,       *)
(* whatever the clock does.                                                *)
(***************************************************************************)
THEOREM BucketsBounded == Spec => []BucketBounded
<1>1. TypeOK /\ Accounts => BucketBounded
  <2> SUFFICES ASSUME TypeOK, Accounts, NEW t \in Source
               PROVE  states[t].tokens \in 0..Capacity
    BY DEF BucketBounded
  <2>1. states[t].tokens \in Nat
    BY DEF TypeOK, SourceState
  <2>2. states[t].tokens <= Capacity
    BY Numbers DEF Accounts, Account, InStep, NoState, State
  <2> QED
    BY <2>1, <2>2, Numbers
<1> QED
  BY <1>1, TypeCorrect, AccountsHold, PTL

(***************************************************************************)
(* The rate limit holds for every capacity, price and clock: a source's    *)
(* admitted runs cost at most a full bucket plus what the clock's net      *)
(* advance refilled, even when the clock is set back in between.           *)
(***************************************************************************)
THEOREM RateLimitHolds == Spec => []RateLimit
<1>1. TypeOK /\ Accounts => RateLimit
  <2> SUFFICES ASSUME TypeOK, Accounts, NEW t \in Source
               PROVE  ledger[t].spent
                        <= Capacity + Refilled(ledger[t].openedAt, ledger[t].clock)
    BY DEF RateLimit
  <2>1. /\ states[t].tokens \in Nat /\ states[t].lastRefill \in Int
        /\ ledger[t].spent \in Nat /\ ledger[t].openedAt \in Int
        /\ ledger[t].clock \in Int
    BY DEF TypeOK, SourceState, Ledger
  <2>2. CASE Known(t)
    <3>1. /\ states[t].lastRefill <= ledger[t].clock
          /\ ledger[t].spent + states[t].tokens
               <= Capacity + Refilled(ledger[t].openedAt, states[t].lastRefill)
      BY <2>2 DEF Accounts, Account, InStep
    <3> QED
      BY <2>1, <3>1, Numbers DEF Refilled
  <2>3. CASE ~ Known(t)
    <3>1. ledger[t].spent = 0 /\ ledger[t].openedAt = -1 /\ ledger[t].clock = -1
      BY <2>3 DEF Accounts, Account, NoLedger, Noted
    <3> QED
      BY <3>1, Numbers DEF Refilled
  <2> QED
    BY <2>2, <2>3
<1> QED
  BY <1>1, TypeCorrect, AccountsHold, PTL

(***************************************************************************)
(* No run is admitted inside the window that the last failure opened       *)
(* unless a success has closed it.                                         *)
(***************************************************************************)
THEOREM BackoffIsHonoured == Spec => BackoffHonoured
<1> DEFINE A == \A t \in Source :
                  (owed'[t] > owed[t] /\ ledger[t].streak > 0)
                    => now >= ledger[t].failedAt + window(ledger[t].streak)
<1>1. TypeOK /\ Accounts /\ [Next]_vars => [A]_vars
  <2> SUFFICES ASSUME TypeOK, Accounts, Next, NEW t \in Source,
                      owed'[t] > owed[t], ledger[t].streak > 0
               PROVE  now >= ledger[t].failedAt + window(ledger[t].streak)
    OBVIOUS
  <2>1. Admitted(t)
    <3>1. owed \in [Source -> Nat]
      BY DEF TypeOK
    <3>2. \A u \in Source : Denied(u) => owed' = owed
      BY DEF Denied
    <3>3. \A u \in Source : Succeeds(u) \/ Fails(u) => owed' = [owed EXCEPT ![u] = @ - 1]
      BY DEF Succeeds, Fails
    <3>4. \A u \in Source : Admitted(u) => owed' = [owed EXCEPT ![u] = @ + 1]
      BY DEF Admitted
    <3>5. Tick => owed' = owed
      BY DEF Tick
    <3> QED
      BY <3>1, <3>2, <3>3, <3>4, <3>5 DEF Next
  <2>2. Known(t)
    BY DEF Accounts, Account, NoLedger, Noted
  <2>3. states[t].backoffUntil = ledger[t].failedAt + window(ledger[t].streak)
    BY <2>2 DEF Accounts, Account, InStep
  <2>4. stateFor(t).backoffUntil <= now /\ stateFor(t) = states[t]
    BY <2>1, <2>2, AfterAdmitFacts, StateForFacts DEF Admitted
  <2>5. states[t].backoffUntil \in Nat /\ now \in Nat
    BY DEF TypeOK, SourceState
  <2> QED
    BY <2>3, <2>4, <2>5
<1> QED
  BY <1>1, TypeCorrect, AccountsHold, PTL DEF Spec, BackoffHonoured

(***************************************************************************)
(* No sequence of failures, denials and clock changes shuts a source out   *)
(* beyond backoffMaxMs plus one refill interval past the furthest the      *)
(* clock had come at a call for it.                                        *)
(***************************************************************************)
THEOREM RecoveryIsBounded == Spec => []RecoveryBounded
<1>1. TypeOK /\ Accounts => RecoveryBounded
  <2> SUFFICES ASSUME TypeOK, Accounts, Refills, Capacity >= Interval,
                      NEW t \in Source, Known(t)
               PROVE  AdmittedAt(t, ledger[t].clock + BackoffMax + Interval)
    BY DEF RecoveryBounded
  <2>1. /\ states[t].lastRefill <= ledger[t].clock
        /\ states[t].backoffUntil <= ledger[t].clock + BackoffMax
    BY DEF Accounts, Account, InStep
  <2>2. /\ states[t].tokens \in Nat /\ states[t].lastRefill \in Int
        /\ states[t].backoffUntil \in Nat /\ ledger[t].clock \in Int
    BY DEF TypeOK, SourceState, Ledger
  <2> QED
    BY <2>1, <2>2, Numbers DEF AdmittedAt, AtMost
<1> QED
  BY <1>1, TypeCorrect, AccountsHold, PTL

=============================================================================
