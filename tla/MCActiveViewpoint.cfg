CONSTANTS
  v1 = v1
  v2 = v2
  v3 = v3
  n1 = n1
  n2 = n2
  f1 = f1
  Nodes = {v1, v2, v3}
  Kinds = {"Viewpoint"}
  KindOf <- MCKindOf
  World <- ViewpointWorld
  Routes <- SameKindRoutes
  MaxDepth = 4
  NoNode = NoNode
  Default = Default
SPECIFICATION Spec
INVARIANT BrowserFollowsStack
