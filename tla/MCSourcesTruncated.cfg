SPECIFICATION MCSpec
CONSTANTS
  Parts = {"mirror"}
  Url <- MCUrl
  NotAUrl = NotAUrl
  Address <- MCAddress
  Literal <- MCLiteral
  Allowed <- MCAllowed
  AllowInsecureUrl = FALSE
  MaxRedirects = 2
  MaxResponseBytes = 2
  MaxChunk = 2
  Channel = {"none", "full-url", "unheard-of"}
  GatedChannel = {"full-url"}
  Mode = {"fair-use", "commercial"}
  Updater = {u1, u2}
  Published <- MCGrowing
  Cadence = 1
  DefaultCadence = 2
  MaxNow = 2
  MaxUpdates = 2
  MxWorld <- MCMxWorld
  Ttl = {1, 2}
  DnsErrorCode = {"ECANCELLED", "ESERVFAIL", "EBADNAME"}
  Certificate = {"c1", "c2"}
  MAX_OBSERVED_CHAIN = 3
  MaxChainDepth = 1
  ObservedAt = 1
PROPERTIES
  WholeStored
CHECK_DEADLOCK FALSE
