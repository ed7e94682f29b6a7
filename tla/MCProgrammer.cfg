SPECIFICATION MCSpec
CONSTANTS
  k1 = k1
  k2 = k2
  e1 = e1
  e2 = e2
  b1 = b1
  b2 = b2
  v4 = v4
  NoAddr = NoAddr
  OtherAddr = {v4}
  SID <- Address
  BSID = {b1, b2}
  MaxSIDsPerList = 2
  Key = {k1, k2}
  Endpoint = {e1, e2}
  EndpointOf <- MCEndpointOf
  Steerable = {k1}
  Refusals = TRUE
  Unacked = TRUE
  Paths <- MCPaths
  AddrBits = 48
  Byte = {0, 1}
  Prefix <- MCPrefix
  PrefixBits = 8
  USIDBits = 16
  TriedAddrs <- MCTriedAddrs
  MaxTried = 4
  Radix = 64
  SidSlots = 3
  TriedOptions <- MCTriedOptions
  TriedEndpoints <- MCTriedEndpoints
INVARIANTS
  TypeOK
  SameRoute
  FewestCarriers
  ValidityKept
  MessagesComeBack
  ListsComeBack
  EndpointsComeBack
PROPERTIES
  HitlessUpdate
  SteeredToPolicy
  ExactLists
  NoHalfPolicy
  ImplementsPort
