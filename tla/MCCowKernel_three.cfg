SPECIFICATION FairSpec
CONSTANTS
  Tasks = {t1, t2, t3}
  InitTask = t1
  None = None
  Frames = {1, 2, 3, 4, 5, 6, 7}
  Null = 0
  NPages = 1
  Image = {0}
  ForkFrames = {1}
  Vals <- ValsDef
  Program <- ForkStore
  Quantum = 1
  MaxDus = 2
INVARIANTS
  WritableFramesPrivate
  FrameBudget
  DeadlineSet
  RingIsAllTasks
PROPERTIES
  ImplementsProcesses
  EveryTaskRuns
  StoreCompletes
