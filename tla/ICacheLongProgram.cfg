\* A program longer than the cache, with the comparator ahead of the process on @(pc).
SPECIFICATION Spec
CONSTANTS
  Tags = {0, 1, 2}
  Indices = {0, 1}
  BlockBytes = 4
  WordBytes = 2
  BlockWords = 2
  Bytes <- MCBytes
  ZeroTag = 0
  ZeroByte = 0
  ResetPC <- MCResetPC
  BeatCycles = 2
  memory_array <- MCProgram
  EdgeOrders = {"memory_first", "clock_first"}
  LookupOrders = {"lookup_first"}
INVARIANTS
  TypeOK
  FetchCorrect
  LinesMatchMemory
  IInv
PROPERTIES
  BlockHeldDuringFetch
  NoUselessFetch
  FetchEnds
