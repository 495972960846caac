CONSTANTS
  Lists <- ShortLists
  MaxFailures = 2
SPECIFICATION FairSpec
INVARIANT TypeOK
INVARIANT OpenedIsBridge
INVARIANT BridgeIsFound
INVARIANT NothingLeft
PROPERTY Returns
