SPECIFICATION MCSpec
CONSTANTS
  Producers = {p1, p2}
  Consumers = {c1}
  Values = {v1, v2}
  MaxSizes = {0, 2}
  Thresholds = {2}
  Prebufferings = {1, 2}
  NoThread = NoThread
  NoValue = NoValue
  MaxCalls = 2
SYMMETRY Symmetry
INVARIANTS
  TypeOK
  ConsumerNotStranded
  ProducerNotStranded
  NoStandoff
PROPERTIES
  ImplementsFifo
CHECK_DEADLOCK FALSE
