SPECIFICATION FairSpec
CONSTANTS
  n1 = n1
  c1 = c1
  Nodes <- MCNodes
  Keys <- MCKeys
  NodeLevelKeys <- MCNodeLevelKeys
  DeletedOnDone <- MCDeletedOnDone
  Creators <- MCCreators
  MaxChanges = 2
  MaxFails = 1
  MaxLost = 1
  MaxFaults = 1
INVARIANTS
  TypeOK
  NoOtherLoss
PROPERTY Delivered
CHECK_DEADLOCK FALSE
