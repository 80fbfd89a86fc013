SPECIFICATION FairQueueSpec
CONSTANTS
  RingSize = 3
  MaxCommands = 4
CHECK_DEADLOCK FALSE
PROPERTIES
  EveryCommandCompletes
