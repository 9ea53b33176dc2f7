SPECIFICATION FairSpec
CONSTANTS
  x = x
  y = y
  Units <- MCUnits
  Contents <- MCContents
  PerBlock = 2
  Buffers = {2, 3}
  MaxBlocks = 3
  MaxCrashes = 1
INVARIANTS
  OwnBlocks
  ReadsWhole
PROPERTIES
  KeepsPromise
  OperationsEnd
CHECK_DEADLOCK FALSE
