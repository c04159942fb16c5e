SPECIFICATION Spec
CONSTANTS
  n1 = n1
  n2 = n2
  k1 = k1
  k2 = k2
  Nodes <- MCNodes
  Keys <- MCKeys
  Clusters <- MCClusters
  ClusterOf <- MCClusterOf
  NodesIn <- Apart
  MaxErrors = 0
  MaxTroubles = 0
INVARIANT KeysDoneTaskDone
CHECK_DEADLOCK FALSE
