CONSTANTS
  app1 = app1
  app2 = app2
  reader = reader
  loader1 = loader1
  loader2 = loader2
  stream1 = stream1
  proto1 = proto1
  proto2 = proto2
  Apps = {app1}
  Direct = {}
  Loaders = {loader1, loader2}
  Streams = {stream1}
  Protos = {proto1, proto2}
  ScriptCalls = {"load_url", "create_vrml_from_url"}
  Externprotos = {"world", "implementation"}
  NoThread = NoThread
SPECIFICATION FairSpec
INVARIANTS
  TypeOK
  OneLoader
  ThreadsUseLiveScene
  ListsEmptyAtReset
  SubstitutesRun
PROPERTIES
  ThreadsEnd
  HangsAreFinal
CHECK_DEADLOCK FALSE
