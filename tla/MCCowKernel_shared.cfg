SPECIFICATION Spec
CONSTANTS
  Tasks = {t1, t2}
  InitTask = t1
  None = None
  Frames = {1, 2, 3, 4}
  Null = 0
  NPages = 3
  Image = {0, 1}
  ForkFrames = {1}
  Vals <- ValsDef
  Program <- SharedAndHole
  Quantum = 0
  MaxDus = 1
CHECK_DEADLOCK FALSE
INVARIANTS
  SharingInv
  TlbCoherent
PROPERTIES
  ImplementsProcesses
