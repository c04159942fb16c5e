SPECIFICATION Spec
CONSTANTS
  n1 = n1
  c1 = c1
  Nodes <- MCNodes
  Keys <- TwoKeys
  NodeLevelKeys <- NoKeys
  DeletedOnDone <- NoKeys
  Creators <- MCCreators
  MaxChanges = 2
  MaxFails = 0
  MaxLost = 0
  MaxFaults = 0
INVARIANT NothingLost
CHECK_DEADLOCK FALSE
