SPECIFICATION FairSpec
CONSTANTS
  Index <- MCIndex
  Token <- MCToken
  Plans <- MCPlans
  Reports <- MCReports
INVARIANTS
  PrerequisitesComplete
  SnapshotIsolation
  EverySlotSettled
  VerdictsAreTrue
PROPERTIES
  NeverStuck
  ImplementsContract
