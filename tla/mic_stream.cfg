CONSTANTS
  QueuedBlocks = 1
  FifoDepth = 2
  BlockChunks = 2
  MaxGeneration = 3
  MaxBlocks = 3
SPECIFICATION FairSpec
INVARIANTS
  OnlyThisStream
  InOrder
  NotRecordedInto
  StartupComesFirst
PROPERTIES
  TransitionEnds
CHECK_DEADLOCK FALSE
