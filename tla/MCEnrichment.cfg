SPECIFICATION MCSpec
CONSTANTS
  r1 = r1
  r2 = r2
  c1 = c1
  c2 = c2
  NoReport = NoReport
  Source = {"s"}
  Capacity = 5
  Interval = 2
  Refills = TRUE
  BackoffBase = 1
  BackoffMax = 3
  MaxTime = 4
  MaxFailures = 4
  MonotonicClock = FALSE
  RunId <- MCRunId
  CheckToken = {"s"}
  Key = {"k"}
  Caller <- MCCaller
  sourceOf <- MCSourceOf
  keyOf <- MCKeyOf
  callerOf <- MCCallerOf
  timeoutOf <- MCTimeoutOf
  GovernorTimeout = "positive"
  Ttls <- MCTtls
  FaultyGovernor = TRUE
  FaultyStore = TRUE
  governor <- MCGovernor
INVARIANTS
  RateLimit
  RecoveryBounded
  OneRecordPerAdmission
  CleanIsEarned
PROPERTIES
  BackoffHonoured
  EveryRunReturns
CHECK_DEADLOCK FALSE
