\* A program of four times the instruction cache, on a data cache of two lines.
SPECIFICATION Spec
CONSTANTS
  Width = 3
  NumRegs = 3
  ProgramWords = 16
  Program <- MCAlignedProgram
  ITags = 4
  ILines = 2
  BlockWords = 2
  DTags = 2
  DLines = 2
  BlockBytes = 2
  IBeat = 5
  DBeat = 2
  EdgeOrders = {"memory_first", "clock_first"}
  LookupOrders = {"lookup_first"}
PROPERTIES
  RunsProgram
  StoresOnlyFetched
  StallsEnd
