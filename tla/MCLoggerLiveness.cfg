SPECIFICATION MCFairSpec
CONSTANTS
  Writers = {main}
  Main = main
  IO = io
  Exit = exit
  Bystander = bystander
  SignalTargets = {main, io, bystander}
  Levels = {"info", "trace"}
  Texts = {"line", "line with newline"}
  Backends = {"SYSLOG"}
  NoThread = NoThread
  NoValue = NoValue
  NoBackend = NoBackend
  MaxLogs = 2
  MaxTotal = 2
  MaxSpurious = 1
PROPERTIES
  ImplementsFairLogStream
  CleanExitTerminates
CHECK_DEADLOCK FALSE
