SPECIFICATION Spec
CONSTANTS
  n1 = n1
  n2 = n2
  s1 = s1
  s2 = s2
  c1 = c1
  c2 = c2
  NoNode = NoNode
  NoChan = NoChan
  Nodes <- MCNodes
  Streams <- MCStreams
  Calls <- MCCalls
  NodeFor <- MCNodeFor
  Reporters <- MCReporters
  QueueSize = 1
  MaxFails = 1
INVARIANTS
  TypeOK
  Connected
  PrimaryConnected
  AnswerKept
  NeverStuck
  OwnAnswer
  EnoughListed
SYMMETRY Symmetry
CHECK_DEADLOCK FALSE
