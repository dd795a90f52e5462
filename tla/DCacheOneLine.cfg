\* Two blocks that compete for one line of two bytes.
SPECIFICATION Spec
CONSTANTS
  Tags = {0, 1}
  Indices = {0}
  BlockBytes = 2
  Bytes = {0, 1}
  ZeroTag = 0
  ZeroByte = 0
  BeatCycles = 2
  EdgeOrders = {"memory_first", "clock_first"}
  AddressEarly = TRUE
INVARIANTS
  TypeOK
  MemoryServesFSM
  CleanLineMatchesMemory
  NoUnstalledMiss
  IInv
PROPERTIES
  IsFlatMemory
  WriteBackFirst
  BlockHeldDuringAccess
  NoUselessTransaction
  StallEnds
