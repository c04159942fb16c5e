SPECIFICATION Spec
CONSTANTS
  api1 = api1
  api2 = api2
  p1 = p1
  p2 = p2
  p3 = p3
  APINodes <- MCAPINodes
  Procs <- MCProcs
  Home <- MCHome
  Step = 3
  Default = 0
  NoProc = NoProc
  MaxVersion = 6
  MaxAborts = 0
INVARIANTS
  TypeOK
  IInv
  Unique
  Increasing
PROPERTY
  ImplementsSource
SYMMETRY Symmetry
CHECK_DEADLOCK FALSE
