SPECIFICATION FairSpec
CONSTANTS
  n1 = n1
  s1 = s1
  Nodes <- MCNodes
  Servers <- MCServers
  MaxRetries = 2
  MaxChanges = 2
  MaxFails = 3
  MaxStops = 1
INVARIANTS
  TypeOK
  NothingForgotten
  CacheKnown
PROPERTY Settles
CHECK_DEADLOCK FALSE
