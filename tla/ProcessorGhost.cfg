\* A program that replaces the block of a store that has been executed.
SPECIFICATION Spec
CONSTANTS
  Width = 3
  NumRegs = 3
  ProgramWords = 16
  Program <- MCGhostProgram
  ITags = 4
  ILines = 2
  BlockWords = 2
  DTags = 2
  DLines = 2
  BlockBytes = 2
  IBeat = 5
  DBeat = 2
  EdgeOrders = {"memory_first", "clock_first"}
  LookupOrders = {"lookup_first"}
PROPERTY StoresOnlyFetched
