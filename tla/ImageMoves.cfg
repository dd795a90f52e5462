\* Source files with mov.
SPECIFICATION Spec
CONSTANTS
  Sources <- MCMoves
  Absent = Absent
  MaxImage = 2
INVARIANT ImageIsProgram
