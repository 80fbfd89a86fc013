SPECIFICATION MCSpec
CONSTANTS
  NPages = 100
  Size = 5
  Capacity = 2
  BlockBytes = 2
  PageBlocks = 2
  MaxBlocks = 4
  TableBlocks = 8
  EntryBytes = 2
  UInts = 16
  DiskBlocks = 14
  Buses <- BusesDef
  NsLists <- NsListsDef
  Gpts <- GptsDef
  Reads <- ReadsDef
  RingSize = 6
  MaxCommands = 7
CHECK_DEADLOCK FALSE
INVARIANTS
  MemoryRight
  ReadsRight
  SlotsUnique
  PartitionsRight
  RingsAgree
PROPERTIES
  ImplementsChannel
  FirstPassCompletes
