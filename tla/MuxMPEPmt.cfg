SPECIFICATION Spec
CONSTANTS
  Uids = {mux1, mux2}
  Sources = {s1, s2}
  MaxInputs = 2
  Pids = {256, 1234}
  Ids = {1, 2}
  None = None
INVARIANTS
  PmtIsWherePatSays
CHECK_DEADLOCK FALSE
