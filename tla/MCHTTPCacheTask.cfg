SPECIFICATION FairSpec
CONSTANTS
  n1 = n1
  n2 = n2
  k1 = k1
  k2 = k2
  Nodes <- MCNodes
  Keys <- MCKeys
  Clusters <- MCClusters
  ClusterOf <- MCClusterOf
  NodesIn <- MCNodesIn
  MaxErrors = 1
  MaxTroubles = 2
INVARIANTS
  TypeOK
  DoneEverywhere
  OkMeansNoError
PROPERTY Finishes
CHECK_DEADLOCK FALSE
