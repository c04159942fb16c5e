SPECIFICATION FairSpec
CONSTANTS
  a1 = a1
  Addrs <- MCAddrs
  MaxUp = 1
  MaxDown = 2
  MaxRuns = 2
  MaxChanges = 2
  MaxChecks = 2
  MaxSets = 1
  MaxFaults = 1
INVARIANTS
  TypeOK
  OneTicker
  DNSTold
PROPERTIES
  StopEnds
  DownEarned
CHECK_DEADLOCK FALSE
