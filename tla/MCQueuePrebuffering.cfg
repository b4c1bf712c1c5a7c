SPECIFICATION MCSpec
CONSTANTS
  Producers = {p1}
  Consumers = {c1}
  Values = {v1}
  MaxSizes = {0}
  Thresholds = {2}
  Prebufferings = {2}
  NoThread = NoThread
  NoValue = NoValue
  MaxCalls = 2
PROPERTIES
  MinimumBeforeTaking
CHECK_DEADLOCK FALSE
