CONSTANTS
  Faults <- NoFaults
  MaxFaults = 0
  MaxPresses = 2
SPECIFICATION Spec
INVARIANT ResetMeansReset
