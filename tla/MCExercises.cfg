SPECIFICATION AllSpec
CONSTANTS
  MaxWorkers = 3
  RecordLen = 3
  READ_BUFF_SIZE = 7
  MaxChildren = 3
  Points = 4
  Rounding = 1
  MaxTurns = 2
  MaxInterrupts = 1
  MaxSenders = 3
  MaxReceivers = 2
  QueueRoom = 2
  Root = "root"
  Subdirectories = {"d1", "d2", "d3"}
  Hidden = {"h"}
  Files = {"f1", "f2", "f3", "f4", "f5"}
  Parent <- TreeParent
  Starts = {"f2", "f3", "f5"}
  PartOf = {"f1"}
  MaxProcesses = 4
  Bytes = {0, 1, 3}
  MaxText = 3
  BLOCKSIZE = 4
  MaxSize = 11
  LibBlocks = {1, 2, 3, 4}
  MaxLibSize = 3
CHECK_DEADLOCK FALSE
INVARIANTS
  SumKept ComponentsKept SameOrder HandedOver SignalInherited ReadOnce SearchComplete
  LettersChanged ReversedByChar MemoryKept
PROPERTIES IntegratorEnds ParentDone RunEnds
