SPECIFICATION Spec
CONSTANTS
  Fetch <- MCFetch
  Secure <- MCSecure
  Endpoint <- MCEndpoint
  Allowed <- MCAllowed
  Malformed <- MCMalformed
  None = None
  MaxHops = 2
  MaxResponseBytes = 2
  MaxDecompressedBytes = 2
  MaxTotalTime = 2
  MinThroughputBytes = 1
  Window = 1
  MaxAnswers = 2
  MaxChunk = 2
  MaxTime = 3
INVARIANTS
  OnlyVettedPeers
  BudgetsHeld
  CausesAreTrue
PROPERTIES
  NoWorkAfterAbort
  EveryFetchSettles
CHECK_DEADLOCK FALSE
