----------------------------- MODULE ImageBuild -----------------------------
(***************************************************************************)
(* generate_memory_image.sh, run again and again on one source file that   *)
(* changes in between: the assembler writes the machine file, the script   *)
(* turns that into instr_mem.mem, and $readmemb loads it into instruction  *)
(* memory.  What a run leaves behind, the next one finds.                  *)
(***************************************************************************)
EXTENDS Assembler, SequencesExt

CONSTANTS
  Sources,      \* what the source file may hold
  Absent,       \* there is no source file
  MaxImage      \* bound: lines of the image with which another run may start

ASSUME BuildAssumption ==
  /\ Sources \subseteq Seq(Seq(Token)) /\ Sources # {} /\ Absent \notin Sources
  /\ MaxImage \in Nat

VARIABLES
  stage,       \* "idle", "read" and "encode" (assembler), "rejected", "append" (script)
  accepted,    \* the assembler of this run ended with 0
  source,
  line_count,  \* lines read from the source
  tokens,      \* what is left of pline
  count, out_token,
  machine,     \* lines of the machine file
  written,     \* digits behind its last line
  lines_read,        \* lines of the machine file that the script has read
  image        \* lines of instr_mem.mem

assemblerVars == <<line_count, tokens, count, out_token, machine, written>>
vars == <<stage, accepted, source, assemblerVars, lines_read, image>>

Init ==
  /\ stage = "idle" /\ accepted = FALSE
  /\ source = Absent
  /\ line_count = 0 /\ tokens = <<>> /\ count = 0 /\ out_token = <<0, 0>>
  /\ machine = <<>> /\ written = <<>>
  /\ lines_read = 0
  /\ image = <<>>

-----------------------------------------------------------------------------
(* The assembler. *)

\* fopen of the source comes before that of the machine file, which empties it.
Start(s) ==
  /\ stage = "idle" /\ Len(image) <= MaxImage
  /\ source' = s
  /\ accepted' = FALSE
  /\ line_count' = 0 /\ out_token' = <<0, 0>>
  /\ IF s = Absent
     THEN stage' = "rejected" /\ UNCHANGED <<machine, written>>
     ELSE stage' = "read" /\ machine' = <<>> /\ written' = <<>>
  /\ UNCHANGED <<tokens, count, lines_read, image>>

ReadLine ==
  /\ stage = "read" /\ line_count < Len(source)
  /\ LET line == source[line_count + 1]
     IN  /\ ~crashes(line)
         /\ tokens' = preprocess(line)
  /\ line_count' = line_count + 1
  /\ count' = 0
  /\ stage' = "encode"
  /\ UNCHANGED <<accepted, source, out_token, machine, written, lines_read, image>>

\* A missing operand kills the assembler, and with it the output that is still in its
\* buffer.
Crash ==
  /\ stage = "read" /\ line_count < Len(source)
  /\ crashes(source[line_count + 1])
  /\ \E n \in 0 .. Len(machine) : machine' = SubSeq(machine, 1, n)
  /\ written' = <<>>
  /\ stage' = "rejected"
  /\ UNCHANGED <<accepted, source, line_count, tokens, count, out_token, lines_read, image>>

EncodeToken ==
  /\ stage = "encode" /\ tokens # <<>>
  /\ LET token == Head(tokens)
     IN  \/ /\ ends(token)
            /\ tokens' = <<>>
            /\ UNCHANGED <<count, out_token, written>>
         \/ /\ rejected(token)
            /\ tokens' = <<>> /\ count' = 99
            /\ UNCHANGED <<out_token, written>>
         \/ /\ ~ends(token) /\ ~rejected(token)
            /\ out_token' = encode(token, out_token)
            /\ written' = written \o out_token'
            /\ tokens' = Tail(tokens) /\ count' = count + 1
  /\ UNCHANGED <<stage, accepted, source, line_count, machine, lines_read, image>>

EndLineAnyCount ==
  /\ stage = "encode" /\ tokens = <<>>
  /\ IF count # 0
     THEN machine' = Append(machine, written) /\ written' = <<>>
     ELSE UNCHANGED <<machine, written>>
  /\ stage' = IF count \in {0, 4} THEN "read" ELSE "rejected"
  /\ UNCHANGED <<accepted, source, line_count, tokens, count, out_token, lines_read, image>>

EndLine ==
  /\ stage = "encode" /\ tokens = <<>>
  /\ IF count = 4
     THEN machine' = Append(machine, written) /\ written' = <<>>
     ELSE UNCHANGED <<machine, written>>
  /\ stage' = IF count \in {0, 4} THEN "read" ELSE "rejected"
  /\ UNCHANGED <<accepted, source, line_count, tokens, count, out_token, lines_read, image>>

-----------------------------------------------------------------------------
(* The script. *)

\* The assembler has ended with 0: `&&' lets rm remove the image.
RemoveImageNot ==
  /\ stage = "read" /\ line_count = Len(source)
  /\ stage' = "append" /\ accepted' = TRUE /\ lines_read' = 0
  /\ UNCHANGED <<source, assemblerVars, image>>

RemoveImage ==
  /\ stage = "read" /\ line_count = Len(source)
  /\ stage' = "append" /\ accepted' = TRUE /\ lines_read' = 0
  /\ image' = <<>>
  /\ UNCHANGED <<source, assemblerVars>>

\* It has not: `&&' skips rm, and nothing else.
KeepImage ==
  /\ stage = "rejected"
  /\ stage' = "append" /\ lines_read' = 0
  /\ UNCHANGED <<accepted, source, assemblerVars, image>>

\* read returns every line that ends with a newline.
AppendLine ==
  /\ stage = "append" /\ lines_read < Len(machine)
  /\ image' = Append(image, cut(machine[lines_read + 1]))
  /\ lines_read' = lines_read + 1
  /\ UNCHANGED <<stage, accepted, source, assemblerVars>>

Finish ==
  /\ stage = "append" /\ lines_read = Len(machine)
  /\ stage' = "idle"
  /\ UNCHANGED <<accepted, source, assemblerVars, lines_read, image>>

Next ==
  \/ \E s \in Sources \union {Absent} : Start(s)
  \/ ReadLine \/ Crash \/ EncodeToken \/ EndLine
  \/ RemoveImage \/ KeepImage \/ AppendLine \/ Finish

Spec == Init /\ [][Next]_vars

-----------------------------------------------------------------------------
(* What the control unit makes of a word (control_unit.v). *)

\* Instruction memory after $readmemb.
loaded == FlattenSeq([n \in DOMAIN image |-> bytesOf(image[n])])

\* The fields of the word that an instruction uses: first the destination or the offset, then
\* the sources.
operandFields(op) ==
  CASE op \in {"loadi", "lwd", "lwi"} -> <<"rd", "rs">>
    [] op = "mov"                     -> <<"rd", "rt">>
    [] op = "j"                       -> <<"rd">>
    [] op \in {"swd", "swi"}          -> <<"rt", "rs">>
    [] OTHER                          -> <<"rd", "rt", "rs">>

fieldOfByte == <<"rs", "rt", "rd">>

-----------------------------------------------------------------------------
(* What a line of assembly means. *)

value(token) ==
  IF token.kind = "reg" THEN token.reg
  ELSE IF token.chars[2] = bad THEN token.chars[1]
  ELSE 16 * token.chars[1] + token.chars[2]

\* An operation and its operands, in the order of operandFields.
Instruction(b) ==
  /\ b[1].kind = "op"
  /\ Len(b) = 1 + Len(operandFields(b[1].op))
  /\ \A n \in 2 .. Len(b) :
       \/ b[n].kind = "reg"
       \/ b[n].kind = "imm" /\ b[n].chars[1] # bad

\* A well-formed line: an instruction, or nothing; then, perhaps, a comment, and the end of
\* the line.
IsBody(line, n) ==
  /\ n # 0 => Instruction(SubSeq(line, 1, n))
  /\ n < Len(line) => \/ line[n + 1] = Comment
                      \/ line[n + 1] = LineEnd /\ n + 1 = Len(line)

WellFormed(line) == \E n \in 0 .. Len(line) : IsBody(line, n)

Commented(line) == \E n \in DOMAIN line : line[n] = Comment

body(line) == SubSeq(line, 1, CHOOSE n \in 0 .. Len(line) : IsBody(line, n))

\* The lines that hold an instruction, and how many there are before a line.
instructions == {n \in DOMAIN source : body(source[n]) # <<>>}
before(n)    == Cardinality({m \in instructions : m < n})

\* The four bytes at address a of instruction memory hold the instruction.
Holds(a, b) ==
  /\ loaded[a + 4] = opcode[b[1].op]
  /\ \A n \in 2 .. Len(b) :
       LET f == operandFields(b[1].op)[n - 1]
       IN  \A k \in 1 .. 3 : fieldOfByte[k] = f => loaded[a + k] = value(b[n])

(* Safety *)

\* After a run whose source the assembler accepted, instruction memory holds the
\* instructions of that source and nothing else, one after the other, each with the
\* operands in the fields where the control unit looks for them
\* (CO2070Assembler.c:72-117, control_unit.v:32-41).
ImageIsProgram ==
  stage = "idle" /\ accepted /\ (\A n \in DOMAIN source : WellFormed(source[n])) =>
    /\ Len(loaded) = 4 * Cardinality(instructions)
    /\ \A n \in instructions : Holds(4 * before(n), body(source[n]))

\* A line that the assembler gives up in the middle leaves digits at the end of the
\* machine file; no part of them reaches instruction memory, whose words stay aligned
\* (CO2070Assembler.c:200-211, generate_memory_image.sh:20).
NoHalfWord == Len(loaded) = 4 * Len(image)

\* The assembler gives up only on a line that is not well formed, or that has a comment.  The
\* second is not what :187 means: comments are to be skipped there, but the test at :188
\* looks for a blank that no token holds, and so every comment stops the assembler
\* (CO2070Assembler.c:187-212).
RejectsOnlyMalformed ==
  stage = "rejected" /\ source # Absent
    => \E n \in DOMAIN source : ~WellFormed(source[n]) \/ Commented(source[n])
=============================================================================
