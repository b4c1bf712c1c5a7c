SPECIFICATION UtilitiesSpec
CONSTANTS
  Boots = {1, 1000000}
  MaxFrames = 300
  LastYear = 2101
  Codes <- MCCodes
  Data <- MCData
  MaxData = 3
  Octets = {65, 127, 128, 143, 144, 159, 160, 191, 193, 194, 224, 237, 240, 244, 248}
  MaxOctets = 3
INVARIANTS
  TypesOK
  DabFrameLength
  MasksMatchFields
  MjdCountsDays
  TimeIsFrames
  CrcIsRemainder
  ConvertsWellFormedPrefix
  ThereAndBack
CHECK_DEADLOCK FALSE
