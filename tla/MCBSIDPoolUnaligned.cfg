CONSTANTS
  Radix = 4
  Prefixes <- MCUnaligned
SPECIFICATION Spec
INVARIANT InPrefix
CHECK_DEADLOCK FALSE
