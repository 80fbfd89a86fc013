SPECIFICATION Spec
CONSTANTS
  PageSize = 2
  MemMaps <- BootMaps
  MaxRun = 3
  MaxRelease = 2
CHECK_DEADLOCK FALSE
INVARIANTS
  NoDoubleGrant
  GrantedPagesUsable
  ScanStopsInBitmap
  FreeMemoryCount
PROPERTIES
  ImplementsFramePool
