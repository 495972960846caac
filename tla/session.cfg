CONSTANTS
  IdMod = 5
  Faults <- AllFaults
  MaxExchanges = 8
  MaxFaults = 3
  MaxPresses = 2
SPECIFICATION FairSession
INVARIANT SessionTypeOK
INVARIANT AcceptedIsOwnIfSent
INVARIANT DeliveredIsOwn
INVARIANT BlocksOnlyWhenOverdrawn
INVARIANT CheckMeansUnlocked
INVARIANT HaltMeansHalted
INVARIANT OneLossIsNoticed
INVARIANT CleanPasses
INVARIANT HeedingSuffices
PROPERTY ButtonsSpec
PROPERTY StaysBehind
PROPERTY Completes
PROPERTY PressReturns
