SPECIFICATION MCFairSpec
CONSTANTS
  Producers = {p1, p2}
  Consumers = {c1}
  Values = {v1}
  MaxSizes = {0}
  Thresholds = {1}
  Prebufferings = {1}
  NoThread = NoThread
  NoValue = NoValue
  MaxCalls = 2
PROPERTIES
  ImplementsFairFifo
CHECK_DEADLOCK FALSE
