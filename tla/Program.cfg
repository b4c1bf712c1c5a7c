SPECIFICATION FairProgramSpec
CONSTANTS
  Uids = {mux1}
  Sources = {s1, s2}
  MaxInputs = 1
  Pids = {256, 1234}
  Ids = {1, 2}
  None = None
INVARIANTS
  TypesOK
  CheckGatesStart
  SuccessIsEarned
  OneService
  LogTellsTheTruth
  SyslogMissesNothing
PROPERTIES
  MainSettles
  ServiceIsAnnounced
CHECK_DEADLOCK FALSE
