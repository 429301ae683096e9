SPECIFICATION Spec
CONSTANTS
  Blocks = {"a", "b"}
  Contents <- MCContents
  Limit = 2
  MaxTime = 2
  MaxChanges = 2
INVARIANTS
  TypeOK
  SettledFileReadsWhole
CHECK_DEADLOCK FALSE
