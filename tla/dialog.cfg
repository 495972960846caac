CONSTANTS
  WordBytes = 2
  WrFirst = 2
  RdFirst = 1
  Pkt = 3
  Byte <- Bits
  Idle = 1
  Size = 8
  Flags <- FlagWords
  Loads <- Files
  Faults <- EveryFault
  MaxFaults = 3
  MaxPresses = 2
SPECIFICATION DialogSpec
INVARIANT DialogTypeOK
INVARIANT RetryRecovers
INVARIANT FreshPassMeansProgrammed
INVARIANT ShortNeverPasses
PROPERTY WritesStayInside
PROPERTY CancelledTouchesNothing
