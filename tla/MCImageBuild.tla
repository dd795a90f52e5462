---------------------------- MODULE MCImageBuild ----------------------------
(* Source files for ImageBuild. *)
EXTENDS ImageBuild

add    == <<Op("add"), Reg(1), Reg(2), Reg(3), LineEnd>>
lwi    == <<Op("lwi"), Reg(4), Imm(1, 15), LineEnd>>
swd    == <<Op("swd"), Reg(5), Reg(6)>>
loadi5 == <<Op("loadi"), Reg(1), Imm(5, bad)>>
jump   == <<Op("j"), Imm(15, 12), LineEnd>>
empty  == <<LineEnd>>
short  == <<Op("add"), Reg(1), Reg(2)>>
cutOff == <<Op("mov"), Reg(7)>>
noHex  == <<Op("loadi"), Reg(2), Imm(bad, 3), LineEnd>>
wordy  == <<Op("beq"), Imm(0, 3), Other, LineEnd>>
remark   == <<Comment, Other, LineEnd>>
remarked == <<Op("loadi"), Reg(1), Imm(0, 5), Comment, Other, LineEnd>>

UpTo(n, lines) == UNION {[1 .. k -> lines] : k \in 0 .. n}

\* Every format, blank lines, comments as in factorial.s, and lines that stop the assembler
\* in each of its ways.
MCSources == UpTo(2, {add, lwi, swd, loadi5, jump, empty, short, cutOff, noHex, wordy,
                      remark, remarked})

\* The last line of factorial.s.
MCMoves == UpTo(2, {add, <<Op("mov"), Reg(0), Reg(2)>>})

\* Immediates of one digit: with these files ImageIsProgram does not hold, because what
\* follows an offset moves into the field before its own.
MCShortImmediates ==
  UpTo(2, {add, loadi5, <<Op("beq"), Imm(3, bad), Reg(1), Reg(4), LineEnd>>})
=============================================================================
