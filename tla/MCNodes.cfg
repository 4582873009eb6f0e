\* The whole state space: 51,000 states of the bindable nodes, 518,000 of the TimeSensor.
CONSTANTS
  v1 = v1
  v2 = v2
  v3 = v3
  n1 = n1
  n2 = n2
  f1 = f1
  Nodes = {v1, v2, v3, n1, n2, f1}
  Kinds = {"Viewpoint", "NavigationInfo", "Fog"}
  KindOf <- MCKindOf
  World <- FullWorld
  Routes <- LayeredRoutes
  MaxDepth = 4
  NoNode = NoNode
  Default = Default
  MaxTime = 3
  Cycles = {2}
  Starts = {0, 1}
  Stops = {0, 1, 3}
  MaxSetBacks = 1
  MaxHandlers = 2
SPECIFICATION NodesSpec
INVARIANTS
  TypeOK
  NoDuplicates
  OnlyActiveIsBound
  BrowserFollowsStack
  NoDanglingNode
  NoReentrancyFault
  DisabledIsInactive
  NoFutureEvents
  IsActiveIsTold
PROPERTIES
  CascadesEnd
  ImplementsBinding
  EndsExactly
  RunsOncePerStart
  RunsEnd
