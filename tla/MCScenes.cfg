\* The whole state space: 111,000 states of the Scripts, 391,000 of the graph.
CONSTANTS
  scriptA = scriptA
  scriptB = scriptB
  exposed = exposed
  Scripts = {scriptA, scriptB}
  Fields = {exposed}
  Sensor = Sensor
  Order <- MCOrder
  Routes <- MCRoutes
  Writes <- MCWrites
  Changes <- MCChanges
  LateWriters = {scriptB}
  MaxRoutes = 3
  MaxWrites = 1
  MaxUpdates = 2
  MaxDepth = 9
  root = root
  group = group
  script = script
  timer = timer
  view = view
  NULL = NULL
  Nodes = {root, group, script, timer, view}
  Groups = {root, group}
  ScriptNodes = {script}
  Timers = {timer}
  Viewpoints = {view}
  Files <- MCFiles
  MaxChildren = 2
  MaxEvents = 2
SPECIFICATION Spec
CHECK_DEADLOCK FALSE
INVARIANTS
  LoopFreeIsSafe
  NothingIsLost
  DirectOutputIsSent
  FaultsHaveCauses
  FileIsInitialized
  OnlyStrayedStay
PROPERTIES
  CallsReturn
  EventsAreProcessed
  TraversalsEnd
