SPECIFICATION MCSpec
CONSTANTS
  Writers = {main, w2}
  Main = main
  IO = io
  Exit = exit
  Bystander = bystander
  SignalTargets = {}
  Levels = {"info", "trace", "discard"}
  Texts = {"line with newline"}
  Backends = {"TRACE"}
  NoThread = NoThread
  NoValue = NoValue
  NoBackend = NoBackend
  MaxLogs = 2
  MaxTotal = 3
  MaxSpurious = 1
INVARIANTS
  TypeOK
PROPERTIES
  ImplementsLogStream
  NoWriteAfterJoin
  BackendsStableWhileWriting
CHECK_DEADLOCK FALSE
