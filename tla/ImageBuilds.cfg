\* Runs of the script on all files of up to two lines, after one another.
\* The script need not be run again.
SPECIFICATION Spec
CONSTANTS
  Sources <- MCSources
  Absent = Absent
  MaxImage = 2
CHECK_DEADLOCK FALSE
INVARIANTS
  ImageIsProgram
  NoHalfWord
  RejectsOnlyMalformed
