-------------------------------- MODULE ISA --------------------------------
(***************************************************************************)
(* What the processor promises to a program: one instruction after the     *)
(* other, each with the effect that control_unit.v and cpu.v state for it, *)
(* in arithmetic modulo 2^Width, on registers and a memory of bytes.       *)
(***************************************************************************)
EXTENDS ALU

CONSTANTS
  NumRegs,        \* registers; 8 in the program
  ProgramWords,   \* words of instruction memory; 256 in the program
  Program         \* the contents of instruction memory

Opcodes == {"loadi", "mov", "add", "sub", "and", "or", "j", "beq", "mult", "sll",
            "srl", "sra", "ror", "bne", "lwd", "lwi", "swd", "swi", "none"}

\* The fields of a word: bits 31-24, 23-16, 15-8 and 7-0.
Instructions == [op : Opcodes, rd : Words, rt : Words, rs : Words]

Registers == 0 .. NumRegs - 1

VARIABLES pc,          \* the word that is executed
          registers, memory

isaVars == <<pc, registers, memory>>

Init ==
  /\ pc = 0
  /\ registers = [r \in Registers |-> 0]
  /\ memory = [a \in Words |-> 0]

-----------------------------------------------------------------------------
current == Program[pc]

reg(field) == registers[field % NumRegs]

\* The address of a load or store.
address(i) == IF i.op \in {"lwd", "swd"} THEN reg(i.rs) ELSE i.rs

\* What an instruction writes to its register.
result(i) ==
  LET x == reg(i.rt)
      y == reg(i.rs)
      p == 2 ^ (i.rs % Width)
  IN  CASE i.op = "loadi" -> i.rs
        [] i.op = "mov"   -> x
        [] i.op = "add"   -> (x + y) % Modulus
        [] i.op = "sub"   -> (x - y) % Modulus
        [] i.op = "and"   -> and_unit(x, y)
        [] i.op = "or"    -> or_unit(x, y)
        [] i.op = "mult"  -> (x * y) % Modulus
        [] i.op = "sll"   -> (x * p) % Modulus
        [] i.op = "srl"   -> x \div p
        [] i.op = "sra"   -> (signed(x) \div p) % Modulus
        [] i.op = "ror"   -> (x \div p) + (x % p) * (Modulus \div p)
        [] i.op \in {"lwd", "lwi"} -> memory[address(i)]

Writers == Opcodes \ {"j", "beq", "bne", "swd", "swi", "none"}

\* j, beq and bne count their offset from the next word, as a signed number.
taken(i) ==
  \/ i.op = "j"
  \/ i.op = "beq" /\ reg(i.rt) = reg(i.rs)
  \/ i.op = "bne" /\ reg(i.rt) # reg(i.rs)

Store(i) ==
  memory' = IF i.op \in {"swd", "swi"} THEN [memory EXCEPT ![address(i)] = reg(i.rt)]
            ELSE memory

Execute ==
  /\ registers' = IF current.op \in Writers
                  THEN [registers EXCEPT ![current.rd % NumRegs] = result(current)]
                  ELSE registers
  /\ Store(current)
  /\ pc' = (pc + 1 + IF taken(current) THEN signed(current.rd) ELSE 0) % ProgramWords

\* A stalled store may reach memory before its instruction completes.
EarlyStore ==
  /\ Store(current)
  /\ UNCHANGED <<pc, registers>>

Next == Execute \/ EarlyStore

Spec == Init /\ [][Next]_isaVars
=============================================================================
