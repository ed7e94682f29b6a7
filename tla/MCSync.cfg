\* VPP answers; streams break, leftovers are found, SIDs come and go.
CONSTANTS
  k1 = k1
  k2 = k2
  e1 = e1
  e2 = e2
  b1 = b1
  b2 = b2
  b3 = b3
  s1 = s1
  s2 = s2
  v4 = v4
  NoAddr = NoAddr
  NoKey = NoKey
  SID = {s1, s2}
  BSID = {b1, b2}
  OtherAddr = {v4}
  MaxSIDsPerList = 2
  Key = {k1, k2}
  Endpoint = {e1, e2}
  EndpointOf <- MCOwnEndpoint
  Steerable = {k1, k2}
  Refusals = FALSE
  Unacked = FALSE
  Updates <- MCSyncUpdates
  Pool = {b2}
  OrphanGC = TRUE
  VerifySIDs = TRUE
  Revalidate = TRUE
  Restarts = FALSE
  Quiet = FALSE
  Leftovers <- MCLeftovers
  MaxGen = 2
SPECIFICATION Spec
INVARIANTS
  EndpointSteered
  DropExclusive
  NoGhosts
  ResyncExact
PROPERTIES
  FailClosed
  DropUponInvalid
