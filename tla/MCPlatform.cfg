SPECIFICATION Spec
CONSTANTS
  Firmwares <- FirmwaresDef
  MaxIoapics = 1
  MaxIsos = 2
  Period = 3
  PerUs = 2
  MaxCount = 11
  Ints = 8
  Longs = 64
CHECK_DEADLOCK FALSE
INVARIANTS
  BootedRight
  OverridesRedirected
  ReturnsBalanced
  TimeKept
PROPERTIES
  WalkEnds
  TickServed
