SPECIFICATION Spec
CONSTANTS
  Tasks = {t1, t2}
  InitTask = t1
  None = None
  Frames = {1, 2}
  Null = 0
  NPages = 1
  Image = {0}
  ForkFrames = {1}
  Vals <- ValsDef
  Program <- ForkLoadStore
  Quantum = 0
  MaxDus = 1
INVARIANTS
  NullNeverMapped
