----------------------------- MODULE MCDatapath -----------------------------
(* Programs for Datapath. *)
EXTENDS Datapath, Sequences

I(op, rd, rt, rs) == [op |-> op, rd |-> rd, rt |-> rt, rs |-> rs]

\* Program memory that starts with the sequence s.
Image(s) == [a \in 0 .. ProgramWords - 1 |-> IF a < Len(s) THEN s[a + 1] ELSE I("none", 0, 0, 0)]

\* Every instruction, with results that feed the next, branches taken and not taken, and
\* a jump beyond the end of program memory.  `sra' follows an instruction that changes the
\* second operand of its own word and leaves the first, which `sra' reads as well.
MCAllOps ==
  Image(<< I("loadi", 1, 0, 13), I("add", 2, 2, 1), I("sub", 3, 1, 2), I("swd", 0, 2, 1),
           I("mult", 1, 2, 1), I("lwi", 3, 0, 13), I("and", 0, 3, 1), I("bne", 1, 0, 3),
           I("loadi", 0, 0, 0), I("sll", 1, 0, 1), I("or", 1, 0, 1), I("sra", 2, 0, 2),
           I("ror", 3, 2, 3), I("srl", 1, 3, 1), I("swi", 0, 1, 6), I("lwd", 2, 0, 1),
           I("mov", 1, 3, 0), I("beq", 1, 1, 3), I("loadi", 0, 0, 0), I("j", 4, 0, 0) >>)

MCNone == { I("none", 0, 0, 0), ZeroWord }
=============================================================================
