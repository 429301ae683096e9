SPECIFICATION Spec
CONSTANTS
  Blocks = {"a", "b"}
  Contents <- MCContents
  Limit = 2
  MaxTime = 2
  MaxChanges = 1
INVARIANTS
  ChangedFileSuppliesNothing
CHECK_DEADLOCK FALSE
