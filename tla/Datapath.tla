------------------------------ MODULE Datapath ------------------------------
(***************************************************************************)
(* The CPU of Lab07 (cpu.v with its units) inside one clock period.  A     *)
(* unit is a Verilog process or a delayed assignment: an event on one of   *)
(* its inputs wakes it, and its output changes after its delay.  Moments   *)
(* are the time units 1 to 8 after an edge, and the next edge is moment 8. *)
(* Units that are due at the same moment run in any order.                 *)
(*                                                                         *)
(* The caches are seen from the CPU: the word of a new PC arrives 1 or 2   *)
(* after it if it is cached, other words may be shown before it arrives,   *)
(* and busywait holds the CPU until it has, or for as long as dcache       *)
(* needs; what a load finds is what dcache promises (FlatMemory).          *)
(***************************************************************************)
EXTENDS ALU

CONSTANTS
  NumRegs,        \* registers; 8 in the program
  ProgramWords,   \* words of instruction memory; 256 in the program
  Program,        \* the contents of instruction memory
  PCWords,        \* values of the PC in words; 2^30 in the program
  FetchMoments,   \* when a cached word may arrive: 2 (its block was selected before)
                  \* and 3 (it was not)
  Shown,          \* words of other instructions that the instruction cache may show
                  \* until it has the right one
  InstantOrder    \* units that are due at one moment run: "any", in any order;
                  \* "queue", the shifter before the decoder, and both before others

VARIABLES
  pc, registers, memory,
  instruction,   \* the word at the decoder
  fetched,       \* it is the word at the PC
  shown,         \* the moment at which the word was last replaced by another, 0 if none
  moment,
  committing,    \* the edge has been, register file and PC have not changed yet
  busy,          \* BUSYWAIT as the edge sampled it
  out,           \* output of every unit
  wake,          \* when a unit that is at work is due, 0 if it waits for an event
  type           \* the SHIFT_TYPE that the shifter has sampled

archVars == <<pc, registers, memory>>
fetchVars == <<instruction, fetched, shown>>
clockVars == <<moment, committing, busy>>
unitVars == <<out, wake, type>>
vars == <<archVars, fetchVars, clockVars, unitVars>>

\* Only PC[9:0] goes to the instruction cache.
fetchAddress == pc % ProgramWords

Machine == INSTANCE ISA WITH pc <- fetchAddress

ASSUME DatapathAssumption ==
  /\ {NumRegs, ProgramWords} \subseteq Nat \ {0}
  /\ Program \in [0 .. ProgramWords - 1 -> Machine!Instructions]
  /\ PCWords \in Nat \ {0, 1} /\ PCWords % ProgramWords = 0
  /\ FetchMoments \subseteq {2, 3} /\ FetchMoments # {}
  /\ Shown \subseteq Machine!Instructions
  /\ InstantOrder \in {"any", "queue"}

\* Delayed assignments, whose pending change is replaced by a later one; and processes,
\* which miss the events that occur during their delay.
Assigns   == {"OUT1", "OUT2", "PC_NEXT", "TARGET"}
Processes == {"decode", "comp", "fwd", "add", "and", "or", "shift", "mult"}
Units     == Assigns \union Processes

\* The # of every unit: 2 for the ports of the register file, the target adder, the adder and
\* the multiplier.
delaySlow(u) == 2
delay(u) == IF u \in {"OUT1", "OUT2", "TARGET", "add", "mult"} THEN 2 ELSE 1

-----------------------------------------------------------------------------
(* Combinational logic. *)

\* The control signals of a word.
control(i) ==
  [ WRITEENABLE |-> i.op \in {"loadi", "mov", "add", "sub", "and", "or", "mult", "sll",
                              "srl", "sra", "ror", "lwd", "lwi"},
    ALUOP       |-> CASE i.op \in {"add", "sub", "beq", "bne"}   -> "add"
                      [] i.op = "and"                            -> "and"
                      [] i.op = "or"                             -> "or"
                      [] i.op \in {"sll", "srl", "sra", "ror"}   -> "shift"
                      [] i.op = "mult"                           -> "mult"
                      [] OTHER                                   -> "fwd",
    MUX_IMM_SEL  |-> i.op \in {"loadi", "sll", "srl", "sra", "ror", "lwi", "swi"},
    MUX_COMP_SEL |-> i.op \in {"sub", "beq", "bne"},
    MUX_MEM_SEL  |-> i.op \in {"lwd", "lwi"},
    SHIFT_MODE   |-> CASE i.op = "srl" -> 1 [] i.op = "sra" -> 2 [] i.op = "ror" -> 3
                       [] OTHER -> 0,
    JUMP |-> i.op = "j", BRANCH |-> i.op = "beq", BRANCH_NEQ |-> i.op = "bne",
    READ_MEM  |-> i.op \in {"lwd", "lwi"},
    WRITE_MEM |-> i.op \in {"swd", "swi"},
    IMMEDIATE |-> i.rs, OFFSET |-> i.rd, WRITEREG |-> i.rd % NumRegs ]

signals == out.decode

READREG1 == instruction.rt % NumRegs
READREG2 == (IF instruction.op = "mov" THEN instruction.rt ELSE instruction.rs) % NumRegs

\* DATA2 of the ALU, behind the two multiplexers.
operand2 ==
  IF signals.MUX_IMM_SEL THEN signals.IMMEDIATE
  ELSE IF signals.MUX_COMP_SEL THEN out.comp ELSE out.OUT2

ALURESULT == out[signals.ALUOP]
ZERO == ALURESULT = 0

PC_SELECT ==
  signals.JUMP \/ (signals.BRANCH /\ ZERO) \/ (signals.BRANCH_NEQ /\ ~ZERO)

\* The 8-bit offset sign-extended to the width of the PC, in words.
sign_extended(offset) ==
  IF bit(offset, Width - 1) = 1 THEN PCWords - Modulus + offset ELSE offset

REG_IN_DATA == IF signals.MUX_MEM_SEL THEN memory[ALURESULT] ELSE ALURESULT

\* What a unit computes from its inputs.
value(u) ==
  CASE u = "OUT1"    -> registers[READREG1]
    [] u = "OUT2"    -> registers[READREG2]
    [] u = "decode"  -> control(instruction)
    [] u = "comp"    -> twos_complement(out.OUT2)
    [] u = "fwd"     -> forward_unit(operand2)
    [] u = "add"     -> add_unit(out.OUT1, operand2)
    [] u = "and"     -> and_unit(out.OUT1, operand2)
    [] u = "or"      -> or_unit(out.OUT1, operand2)
    [] u = "shift"   -> shift_unit(out.OUT1, operand2, type)
    [] u = "mult"    -> mult_unit(out.OUT1, operand2)
    [] u = "PC_NEXT" -> (pc + 1) % PCWords
    [] u = "TARGET"  -> (out.PC_NEXT + sign_extended(signals.OFFSET)) % PCWords

\* The signals whose events wake a unit; the shifter and the multiplier wait for their
\* results and partial products, which may stay when an operand moves.
sensitivity(u) ==
  CASE u = "decode" -> instruction
    [] u = "comp"   -> out.OUT2
    [] u = "fwd"    -> operand2
    [] u \in {"add", "and", "or", "mult"} -> <<out.OUT1, operand2>>
    [] u = "shift"  -> <<out.OUT1, operand2, signals.SHIFT_MODE>>
    [] OTHER        -> value(u)

products       == partial_products(out.OUT1, operand2)
shiftedAnyMode == shift_results(out.OUT1, operand2)
shifted        == <<shift_results(out.OUT1, operand2), signals.SHIFT_MODE>>

notices(u) ==
  /\ sensitivity(u)' # sensitivity(u)
  /\ u = "mult"  => products' # products
  /\ u = "shift" => shifted' # shifted

-----------------------------------------------------------------------------
(* Steps. *)

\* What the events of a step do to the units; `fired' are those whose delay ended.
React(fired) ==
  /\ wake' = [u \in Units |->
       LET w == IF u \in fired THEN 0 ELSE wake[u]
       IN  IF ~notices(u) THEN w
           ELSE IF u \in Assigns
                THEN IF value(u)' = out'[u] THEN 0 ELSE moment + delay(u)
                ELSE IF w = 0 THEN moment + delay(u) ELSE w]
  /\ type' = IF wake'["shift"] = 0 THEN 0
             ELSE IF wake["shift"] = 0 THEN signals.SHIFT_MODE' ELSE type

due(u) == wake[u] = moment

\* The order that a simulator serving an instant first come, first served keeps.
InOrder(u) ==
  InstantOrder = "queue" =>
    /\ u # "shift" => ~due("shift")
    /\ u \notin {"shift", "decode"} => ~due("decode")

Fire(u) ==
  /\ due(u) /\ InOrder(u)
  /\ out' = [out EXCEPT ![u] = value(u)]
  /\ UNCHANGED <<archVars, fetchVars, clockVars>>
  /\ React({u})

\* Register file, PC and data cache complete the edge #1 after it.
Writes(b) == signals.WRITEENABLE /\ ~b

Commit ==
  /\ moment = 1 /\ committing
  /\ committing' = FALSE
  /\ registers' = IF Writes(busy) THEN [registers EXCEPT ![signals.WRITEREG] = REG_IN_DATA]
                  ELSE registers
  /\ \E done \in {TRUE} \union (IF busy THEN {FALSE} ELSE {}) :
       memory' = IF signals.WRITE_MEM /\ done THEN [memory EXCEPT ![ALURESULT] = out.OUT1]
                 ELSE memory
  /\ pc' = IF busy THEN pc ELSE IF PC_SELECT THEN out.TARGET ELSE out.PC_NEXT
  /\ fetched' = (fetched /\ pc' = pc)
  /\ UNCHANGED <<instruction, shown, moment, busy, out>>
  /\ React({})

Word(w, right) ==
  /\ ~fetched /\ ~committing
  /\ instruction' = w
  /\ fetched' = right
  /\ UNCHANGED <<archVars, clockVars, out>>
  /\ React({})

Fetch ==
  /\ moment \in FetchMoments
  /\ shown' = 0
  /\ Word(Program[fetchAddress], TRUE)

Show(w) ==
  /\ moment \in {2, 3} /\ shown < moment
  /\ shown' = moment
  /\ Word(w, FALSE)

Tick ==
  /\ moment < 8 /\ ~committing
  /\ \A u \in Units : ~due(u)
  /\ moment' = moment + 1
  /\ UNCHANGED <<archVars, fetchVars, committing, busy, unitVars>>

\* A CPU whose word has not arrived is held by icache; dcache may hold it as well.
Edge ==
  /\ moment = 8
  /\ \A u \in Units : ~due(u)
  /\ busy' \in {TRUE, ~fetched}
  /\ moment' = 1 /\ committing' = TRUE /\ shown' = 0
  /\ wake' = [u \in Units |-> IF wake[u] = 0 THEN 0 ELSE wake[u] - 8]
  /\ UNCHANGED <<archVars, instruction, fetched, out, type>>

\* Reset has been, the first instruction misses, and the units have settled on the word
\* of zeros that an empty line shows.
ZeroWord == [op |-> "loadi", rd |-> 0, rt |-> 0, rs |-> 0]

Init ==
  /\ pc = 0
  /\ registers = [r \in 0 .. NumRegs - 1 |-> 0]
  /\ memory = [a \in Words |-> 0]
  /\ instruction = ZeroWord /\ fetched = FALSE /\ shown = 0
  /\ moment = 1 /\ committing = FALSE /\ busy = TRUE
  /\ out = [u \in Units |-> IF u \in {"PC_NEXT", "TARGET"} THEN 1
                            ELSE IF u = "decode" THEN control(ZeroWord) ELSE 0]
  /\ wake = [u \in Units |-> 0]
  /\ type = 0

Next ==
  \/ \E u \in Units : Fire(u)
  \/ Commit
  \/ Fetch
  \/ \E w \in Shown : Show(w)
  \/ Tick
  \/ Edge

Spec == Init /\ [][Next]_vars

-----------------------------------------------------------------------------
(* Safety *)

\* The datapath with all its races is the instruction set: registers, memory and the
\* fetch address change only as one instruction of the program after the other
\* changes them, however long each is held.
IsISA == Machine!Spec

\* No unit is still at work when the register file, the PC and the data cache take
\* their values: the longest path, OUT2, negation and adder, ends with the period
\* (control_unit.v:37-39, cpu.v:9-12).
SettlesInTime == committing => \A u \in Units : wake[u] = 0

\* The address and data of a load or store stand when moment 6 is over until the edge is
\* over. That leaves dcache the #1.9 that its lookup takes (dcache.v:59-75); DCacheSystem
\* rests on it.
AddressStands ==
  [][(signals.READ_MEM \/ signals.WRITE_MEM) /\ moment > 6
       => /\ ALURESULT' = ALURESULT
          /\ out'.OUT1 = out.OUT1]_vars

\* The strobes of a load or store change at moment 3 or 4, before its address settles, and
\* never again while dcache looks: DCache rests on it (dcache.v:92-108).
StrobesFirst ==
  [][signals'.READ_MEM # signals.READ_MEM \/ signals'.WRITE_MEM # signals.WRITE_MEM
       => moment \in {3, 4}]_vars

\* The shifter's output is that of the mode it is asked for.
ShiftsAsAsked ==
  committing /\ signals.ALUOP = "shift"
    => out.shift = shift_unit(out.OUT1, operand2, signals.SHIFT_MODE)

(* The units on all pairs of operands, at the moment when their results are taken. *)

\* Negation by inversion and one more makes the adder subtract and its result zero just
\* for equal operands, the sum of the partial products is the product, and the gates split
\* a sum (twos_complement.v, mult_unit.v, and_unit.v, or_unit.v).
ArithmeticUnits == committing => ArithmeticExact

\* The shifts multiply and divide, a rotation loses no bit, and of the amount only the low
\* bits count (shift_unit.v).
ShiftUnits == committing => ShiftsExact
=============================================================================
