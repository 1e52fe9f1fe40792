SPECIFICATION MCSpec
CONSTANTS
  Parts = {"http", "mirror", "gate", "dns", "tls"}
  Url <- MCUrl
  NotAUrl = NotAUrl
  Address <- MCAddress
  Literal <- MCLiteral
  Allowed <- MCAllowed
  AllowInsecureUrl = FALSE
  MaxRedirects = 2
  MaxResponseBytes = 2
  MaxChunk = 2
  Channel = {"none", "full-url", "unheard-of"}
  GatedChannel = {"full-url"}
  Mode = {"fair-use", "commercial"}
  Updater = {u1, u2}
  Published <- MCPublished
  Cadence = 1
  DefaultCadence = 2
  MaxNow = 2
  MaxUpdates = 2
  MxWorld <- MCMxWorld
  Ttl = {1, 2}
  DnsErrorCode = {"ECANCELLED", "ESERVFAIL", "EBADNAME"}
  Certificate = {"c1", "c2"}
  MAX_OBSERVED_CHAIN = 3
  MaxChainDepth = 1
  ObservedAt = 1
INVARIANTS
  NothingLeavesUnasked
  EveryHopPoliced
  CausesAreOwned
  SnapshotsAreTrue
  ClaimsAreObserved
PROPERTIES
  SourcesSettle
CHECK_DEADLOCK FALSE
