\* Four bytes of memory under any program that does not chase an address by the same word.
SPECIFICATION Spec
CONSTANTS
  Tags = {0, 1}
  Indices = {0}
  BlockBytes = 2
  Bytes = {0, 1, 2}
  ZeroTag = 0
  ZeroByte = 0
  BeatCycles = 3
  OwnAddress = FALSE
INVARIANTS
  MemoryServesRequest
  IInv
PROPERTIES
  IsFlatMemory
  StallEnds
