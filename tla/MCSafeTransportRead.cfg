SPECIFICATION PortSpec
CONSTANTS
  Fetch <- MCFetch
  Secure <- MCSecure
  Endpoint <- MCEndpoint
  Allowed <- MCAllowed
  Malformed <- MCMalformed
  None = None
  MaxHops = 1
  MaxResponseBytes = 5
  MaxDecompressedBytes = 2
  MaxTotalTime = 5
  MinThroughputBytes = 2
  Window = 2
  MaxAnswers = 2
  MaxChunk = 2
  MaxTime = 7
PROPERTIES
  AbandonedReadAborted
CHECK_DEADLOCK FALSE
