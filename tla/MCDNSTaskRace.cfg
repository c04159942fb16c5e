SPECIFICATION Spec
CONSTANTS
  n1 = n1
  s1 = s1
  Nodes <- MCNodes
  Servers <- NoServers
  MaxRetries = 3
  MaxChanges = 2
  MaxFails = 0
  MaxStops = 0
INVARIANT NewTaskKept
CHECK_DEADLOCK FALSE
