CONSTANTS
  s1 = s1
  b1 = b1
  v4 = v4
  NoAddr = NoAddr
  SID = {s1}
  BSID = {b1}
  OtherAddr = {v4}
  MaxSIDsPerList = 2
  Universe <- MCUniverse
SPECIFICATION Spec
INVARIANTS
  TypeOK
  BestSoFar
  OrderIndependent
  CurrentIsKept
CHECK_DEADLOCK FALSE
