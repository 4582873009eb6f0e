CONSTANTS
  scriptA = scriptA
  scriptB = scriptB
  exposed = exposed
  Scripts = {scriptA, scriptB}
  Fields = {exposed}
  Sensor = Sensor
  Order <- MCOrder
  Routes <- MCRoutes
  Writes <- MCWrites
  Changes <- MCChanges
  LateWriters = {scriptB}
  MaxRoutes = 3
  MaxWrites = 1
  MaxUpdates = 2
  MaxDepth = 9
SPECIFICATION ScriptsSpec
CHECK_DEADLOCK FALSE
INVARIANT ModifiedUntilSent
