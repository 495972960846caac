CONSTANTS
  WordBytes = 2
  WrFirst = 3
  RdFirst = 2
  Pkt = 3
  Byte <- Bits
  Idle = 1
  Size = 12
  Flags <- FarFlagWords
  Loads <- Repeating
  Faults <- Lost
  MaxFaults = 2
SPECIFICATION Spec
INVARIANT PassMeansProgrammed
