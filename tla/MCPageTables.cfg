SPECIFICATION Spec
CONSTANTS
  Fanout = 3
  UserTop = 1
  Frames = {1, 2, 3, 4, 5, 6, 7, 8, 9, 10, 11, 12, 13, 14, 15, 16, 17, 18, 19, 20, 21}
  HighMem = {3, 4}
  DirtySets <- DirtySetsDef
  JunkFrame = 2
  PageBytes = 4
  Images <- ImagesDef
  HeapRoom = 2
  GrowPages = {0, 1}
  Tasks = 3
CHECK_DEADLOCK FALSE
INVARIANTS
  TreesRight
  SegmentsMapped
PROPERTIES
  FlushedWhatChanged
  ImplementsAddressSpaces
