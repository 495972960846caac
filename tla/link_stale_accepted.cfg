CONSTANTS
  IdMod = 16
  Faults <- CallFaults
  MaxExchanges = 6
  MaxFaults = 3
SPECIFICATION Spec
INVARIANT AcceptedIsOwn
