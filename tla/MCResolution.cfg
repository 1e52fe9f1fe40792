SPECIFICATION MCSpec
CONSTANTS
  Url <- MCUrl
  Https <- MCHttps
  Outside <- MCOutside
  Ref <- MCRef
  NoUrl = "none"
  NoRef = "empty"
  canonical <- MCCanonical
  resolve <- MCResolve
  Code <- MCCode
  offline <- MCOffline
  Bases <- MCBases
  Responses <- MCResponses
  Method = "GET"
  MaxHops = 2
  MaxDepth = 2
  V3Template <- MCTemplate
  Variants <- MCVariants
  ProbeMethod = "GET"
  BodySigns = {"signature", "binary-byte"}
  Attempt = {a1, a2}
  SocketError = {"ECONNREFUSED", "ETIMEDOUT", "ECONNRESET", "CERT_HAS_EXPIRED"}
  HttpError = {"ECONNRESET", "ETIMEDOUT", "HPE_HEADER_OVERFLOW", "ERR_INVALID_CHAR", "other"}
INVARIANTS
  OneAuthorizedChain
  ChainIsToldTruly
  WrappersAreOpened
  DivergenceIsObserved
  NothingLeaks
