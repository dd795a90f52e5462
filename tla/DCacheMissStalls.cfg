\* Any order of instructions: does every miss stall the CPU?
SPECIFICATION Spec
CONSTANTS
  Tags = {0, 1}
  Indices = {0}
  BlockBytes = 2
  Bytes = {0, 1}
  ZeroTag = 0
  ZeroByte = 0
  BeatCycles = 1
  EdgeOrders = {"memory_first"}
  AddressEarly = FALSE
INVARIANTS
  NoUnstalledMiss
