\* The whole state space: 260,000 states of the parse, 201,000 of the loads, 1,751,000 of the instance.
CONSTANTS
  Names = {"A"}
  Anonymous = ""
  Script = "Script"
  TypeNames = {"P"}
  BuiltIn <- MCBuiltIn
  Declared <- MCDeclared
  MaxTokens = 5
  MaxDepth = 5
  opener1 = opener1
  opener2 = opener2
  Openers = {opener1, opener2}
  Webs <- MCWebs
  MaxMetatypes = 3
  n1 = n1
  n2 = n2
  n3 = n3
  Nodes = {n1, n2, n3}
  Body = Body
  NoNode = NoNode
  Bodies <- MCBodies
  Wirings <- MCWirings
  MaxPath = 3
  LastStamp = 2
  MaxEvents = 2
  MaxFrames = 8
SPECIFICATION Spec
CHECK_DEADLOCK FALSE
INVARIANTS
  WorldsTypeOK
  ParseFaultsHaveCauses
  NodesAreKept
  NamesAgree
  ExternprotosEnd
  NodesAreReplaced
  RightProto
  InReachesBody
  
  InstanceFaultsHaveCauses
