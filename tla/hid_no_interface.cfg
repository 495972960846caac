CONSTANTS
  Lists <- ShortLists
  MaxFailures = 0
SPECIFICATION Spec
INVARIANT SuccessIsOpen
