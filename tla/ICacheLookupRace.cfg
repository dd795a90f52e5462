\* A program longer than the cache, with the process on @(pc) ahead of the comparator.
SPECIFICATION Spec
CONSTANTS
  Tags = {0, 1}
  Indices = {0, 1}
  BlockBytes = 4
  WordBytes = 2
  BlockWords = 2
  Bytes <- MCBytes
  ZeroTag = 0
  ZeroByte = 0
  ResetPC <- MCResetPC
  BeatCycles = 2
  memory_array <- MCProgram
  EdgeOrders = {"memory_first"}
  LookupOrders = {"process_first"}
INVARIANTS
  FetchCorrect
