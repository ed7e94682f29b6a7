SPECIFICATION MCSpec
CONSTANTS
  k1 = k1
  b1 = b1
  b2 = b2
  s1 = s1
  s2 = s2
  v4 = v4
  SID = {s1, s2}
  BSID = {b1, b2}
  OtherAddr = {v4}
  NoAddr = NoAddr
  NoRoute = NoRoute
  NoEntry = NoEntry
  MaxSIDsPerList = 2
  MaskBits = 2
  MaxSubTLVs = 3
  Routes <- MCRoutes
  Foreign <- MCForeign
  LocalID <- MCLocalID
  MaxGen = 3
  MaxStream = 2
  SubTLVs <- MCSubTLVs
  Segments <- MCSegments
INVARIANTS
  TypeOK
  Mirror
  BindingSIDRule
  SegmentListRule
PROPERTIES
  KeptIfDumped
  Converges
CHECK_DEADLOCK FALSE
