SPECIFICATION Spec
CONSTANTS
  k1 = k1
  c1 = c1
  c2 = c2
  Keys <- MCKeys
  Callers <- MCCallers
  MaxItems = 2
  TTL = 1
  MaxTime = 4
  MaxCalls = 3
  MaxBack = 1
SYMMETRY Symmetry
INVARIANTS
  TypeOK
  NoLeak
PROPERTIES
  StaleBounded
CHECK_DEADLOCK FALSE
