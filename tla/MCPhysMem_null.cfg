SPECIFICATION Spec
CONSTANTS
  PageSize = 2
  MemMaps <- ReleaseMaps
  MaxRun = 1
  MaxRelease = 1
INVARIANTS
  NullOnlyWhenFull
