---------------------------- MODULE MCProcessor ----------------------------
(* Programs for Processor. *)
EXTENDS Processor

I(op, rd, rt, rs) == [op |-> op, rd |-> rd, rt |-> rt, rs |-> rs]

\* Four times the instruction cache.  Every load or store follows, in the same block, an
\* instruction that computes its address; so blocks are entered where no access is.
MCAligned ==
  << I("loadi", 0, 0, 4), I("lwi", 1, 0, 4), I("loadi", 2, 0, 1), I("add", 1, 1, 2),
     I("loadi", 0, 0, 4), I("swi", 0, 1, 4), I("loadi", 2, 0, 0), I("lwi", 2, 0, 0),
     I("add", 2, 2, 1),   I("sub", 0, 2, 1), I("loadi", 0, 0, 1), I("swi", 0, 2, 1),
     I("loadi", 0, 0, 6), I("swi", 0, 1, 6), I("bne", 1, 1, 0),   I("j", 2, 0, 0) >>

MCAlignedProgram == [a \in 0 .. ProgramWords - 1 |-> MCAligned[a + 1]]

\* A store in the first word, and a fetch that replaces its block after the register that
\* it stores has changed.
MCGhost ==
  << I("swi", 0, 0, 2), I("loadi", 0, 0, 3), I("loadi", 0, 0, 1), I("add", 0, 0, 0),
     I("loadi", 1, 0, 0) >>

MCGhostProgram ==
  [a \in 0 .. ProgramWords - 1 |-> IF a < 5 THEN MCGhost[a + 1] ELSE I("none", 0, 0, 0)]
=============================================================================
