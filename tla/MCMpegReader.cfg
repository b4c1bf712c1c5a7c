SPECIFICATION FairSpec
CONSTANTS
  FF = FF
  E = E
  X = X
  Bytes <- MCBytes
  Sync1 <- MCSync1
  Sync2 <- MCSync2
  FrameLength <- MCFrameLength
  MaxFile = 7
  Sizes = {3, 4, 5, 6}
  MaxSkips = 1
INVARIANTS
  TypeOK
  HeaderIsFirstSync
  FrameIsWhole
PROPERTIES
  CallsReturn
CHECK_DEADLOCK FALSE
