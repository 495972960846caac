CONSTANT Lens <- AllLens
SPECIFICATION FairSpec
INVARIANT BytesInOrder
INVARIANT PacketFits
PROPERTY IsOneTransaction
PROPERTY PacketsAreFull
PROPERTY Returns
