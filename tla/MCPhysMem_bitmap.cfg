SPECIFICATION Spec
CONSTANTS
  PageSize = 2
  MemMaps <- BootMaps
  MaxRun = 1
  MaxRelease = 0
CHECK_DEADLOCK FALSE
INVARIANTS
  BitmapKept
