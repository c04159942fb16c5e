SPECIFICATION Spec
CONSTANTS
  api1 = api1
  api2 = api2
  p1 = p1
  p2 = p2
  n1 = n1
  x = x
  APINodes <- MCAPINodes
  Procs <- MCProcs
  Home <- MCHome
  Versions <- MCVersions
  Nodes <- MCNodes
  IPs <- MCIPs
  MaxItems = 2
  Size = 1
  MaxCalls = 3
  MaxFaults = 1
INVARIANTS
  TypeOK
  NoOtherMiss
  NoOtherLive
SYMMETRY Symmetry
CHECK_DEADLOCK FALSE
