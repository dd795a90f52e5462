\* Every instruction on bytes of 4 bits, a PC wider than program memory, other words
\* shown before the right one.
SPECIFICATION Spec
CONSTANTS
  Width = 4
  NumRegs = 4
  ProgramWords = 20
  Program <- MCAllOps
  PCWords = 40
  FetchMoments = {2, 3}
  Shown <- MCNone
  InstantOrder = "queue"
INVARIANTS
  SettlesInTime
  ShiftsAsAsked
  ArithmeticUnits
  ShiftUnits
PROPERTIES
  IsISA
  AddressStands
  StrobesFirst
