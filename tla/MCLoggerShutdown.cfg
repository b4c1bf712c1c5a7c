SPECIFICATION MCSpec
CONSTANTS
  Writers = {main}
  Main = main
  IO = io
  Exit = exit
  Bystander = bystander
  SignalTargets = {}
  Levels = {"info"}
  Texts = {"line"}
  Backends = {"SYSLOG"}
  NoThread = NoThread
  NoValue = NoValue
  NoBackend = NoBackend
  MaxLogs = 2
  MaxTotal = 2
  MaxSpurious = 1
INVARIANTS
  LoggedIsWritten
CHECK_DEADLOCK FALSE
