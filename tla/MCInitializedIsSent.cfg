CONSTANTS
  app1 = app1
  app2 = app2
  reader = reader
  loader1 = loader1
  loader2 = loader2
  stream1 = stream1
  proto1 = proto1
  proto2 = proto2
  Apps = {app1}
  Direct = {}
  Loaders = {loader1, loader2}
  Streams = {stream1}
  Protos = {}
  ScriptCalls = {"create_vrml_from_url"}
  Externprotos = {}
  NoThread = NoThread
SPECIFICATION FairSpec
PROPERTY InitializedIsSent
CHECK_DEADLOCK FALSE
