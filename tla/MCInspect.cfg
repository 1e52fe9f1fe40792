SPECIFICATION MCSpec
CONSTANTS
  Code <- MCCode
  weightFor <- MCWeightFor
  Unit = 5
  ParseError = 0
  Host <- MCHost
  AnyHost = "any"
  Scans <- MCScans
  Detectors <- MCDetectors
  Axes <- MCAxes
  AgentGated = {"d2"}
  emits <- MCEmits
  Key = {"k"}
  RuleSets <- MCRuleSets
  InputHost = "input"
  Index <- MCPair
  Token <- MCToken
  Plans <- MCPlans
  Reports <- MCReports
  Layer <- MCLayer
  layerOf <- MCLayerOf
  Evidence <- MCEvidence
  BaseCodes <- MCBaseCodes
  FullConfidence = 2
  Undefined = Undefined
  NotAnArray = NotAnArray
  Port = {"0", "80", "443", "8080"}
  Calls <- MCCalls
  SearchIndex <- MCIndex
  SearchGraphs <- MCGraphs
  Texts <- MCTexts
  verdictOf <- MCVerdictOf
  Comments = {"#"}
  Byte = 4
  Groups = 5
  LOW32_WRAPPERS <- MCWrappers
  IPV4_SPECIAL_RANGES <- MCSpecial4
  IPV6_SPECIAL_RANGES <- MCSpecial6
  MULTICAST_IPV4 <- MCMulticast4
  MULTICAST_IPV6 <- MCMulticast6
  CLOUD_METADATA_ENDPOINTS <- MCMetadata
  SUPPLEMENTAL_RANGES <- MCSupplemental
  Ipv4Texts <- MCIpv4Texts
  Ipv6Texts <- MCIpv6Texts
  Null = Null
  Authorities <- MCAuthorities
  DecodeDepth = 4
  NoValue = NoValue
  Links <- MCLinks
  registrableDomain <- MCDomains
  addressIn <- MCAddressIn
  toASCII <- MCToASCII
  MaxDecodeDepth = 1
  Sides <- MCSides
  canonicalOf <- MCCanonicalOf
  privateRegistrableDomain <- MCPrivate
  icannRegistrableDomain <- MCIcann
  Nil = Nil
  Parts = {"pipeline", "command", "literal", "raw", "link", "pair", "async", "search"}
INVARIANTS
  NothingIsDropped
  ScoreIsLowerBound
  ExitIsEarned
  PolicyInForce
  AddressesAreKnown
  PartsAreLossless
  AuthoritiesAreCompared
  NeverSilentlyClean
  EvidenceIsWeighed
  CycleIsFound
