CONSTANTS
  WordBytes = 2
  WrFirst = 3
  RdFirst = 2
  Pkt = 3
  Byte <- Bits
  Idle = 1
  Size = 12
  Flags <- FlagWords
  Loads <- EveryLoad
  Faults <- NoFaults
  MaxFaults = 0
SPECIFICATION Spec
INVARIANT RejectedFileFails
