CONSTANTS
  Size = 3
  Reports <- ThreeBytes
  Damages <- Damage
SPECIFICATION Spec
INVARIANT SumIsRemainder
INVARIANT BurstIsSeen
INVARIANT OddIsSeen
