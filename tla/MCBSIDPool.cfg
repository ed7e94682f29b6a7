CONSTANTS
  Radix = 4
  Prefixes <- MCAligned
SPECIFICATION Spec
INVARIANTS
  TypeOK
  InPrefix
PROPERTIES
  NothingMissed
  RoundRobin
