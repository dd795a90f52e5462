----------------------------- MODULE Processor -----------------------------
(***************************************************************************)
(* cpu_tb.v as a whole: the CPU with both caches and both memories on one  *)
(* clock.  Each cache can hold the CPU, and while one does the other goes  *)
(* on with what it is shown: dcache serves the word that icache shows in   *)
(* place of the one that it is still fetching.                             *)
(*                                                                         *)
(* A period is an edge, the word that the decoder meets (perhaps another   *)
(* one before it, when the PC has moved to another block), and the         *)
(* operands.  Inside the CPU an instruction has the effect that Datapath   *)
(* shows it to have.                                                       *)
(***************************************************************************)
EXTENDS ALU

CONSTANTS
  NumRegs, ProgramWords, Program,   \* as in ISA
  ITags, ILines, BlockWords,        \* the instruction cache: 8, 8 and 4 in the program
  DTags, DLines, BlockBytes,        \* the data cache: 8, 8 and 4 in the program
  IBeat, DBeat,                     \* clock periods in the #40 of a byte of each memory
  EdgeOrders, LookupOrders          \* as in DCacheSystem and ICacheSystem

VARIABLES
  registers,
  word,          \* INSTRUCTION, as the decoder knows it
  passing,       \* what the block before shows at the offset of the new PC
  phase,         \* "edge", "passing", "decode", "operands"
  \* the data side, as in DCacheSystem
  read, write, address, writedata, busywait,
  valid_array, dirty_array, tag_array, data_array, state,
  memory_array, mem_readdata, mem_busywait, mem_readaccess, mem_writeaccess, process,
  \* the instruction side, as in ICacheSystem
  pc, ibusywait, ivalid_array, itag_array, idata_array, istate,
  imem_readdata, imem_busywait, ireadaccess, iprocess

cpuVars  == <<registers, word, passing, phase>>
dataVars == <<read, write, address, writedata, busywait, valid_array, dirty_array,
              tag_array, data_array, state, memory_array, mem_readdata, mem_busywait,
              mem_readaccess, mem_writeaccess, process>>
instructionVars == <<pc, ibusywait, ivalid_array, itag_array, idata_array, istate,
                     imem_readdata, imem_busywait, ireadaccess, iprocess>>
vars == <<cpuVars, dataVars, instructionVars>>

\* The fields of a number.
slice(n, lines, size) ==
  [tag |-> n \div (lines * size), index |-> (n \div size) % lines, offset |-> n % size]

wordIndex == (pc.tag * ILines + pc.index) * BlockWords + pc.offset

ZeroWord == [op |-> "loadi", rd |-> 0, rt |-> 0, rs |-> 0]

\* The blocks of instruction memory; a word is the byte of its cache here.
image == [b \in (0 .. ITags - 1) \X (0 .. ILines - 1) |->
            [k \in 0 .. BlockWords - 1 |-> Program[(b[1] * ILines + b[2]) * BlockWords + k]]]

DC == INSTANCE DCacheSystem WITH
        Tags <- 0 .. DTags - 1, Indices <- 0 .. DLines - 1, Bytes <- Words,
        ZeroTag <- 0, ZeroByte <- 0, BeatCycles <- DBeat, AddressEarly <- FALSE,
        loaded <- registers

\* Memory as the program sees it.
memory == [a \in Words |-> DC!memoryView[slice(a, DLines, BlockBytes)]]

Machine == INSTANCE ISA WITH pc <- wordIndex

IC == INSTANCE ICacheSystem WITH
        Tags <- 0 .. ITags - 1, Indices <- 0 .. ILines - 1, Bytes <- Machine!Instructions,
        ZeroTag <- 0, ZeroByte <- ZeroWord, BlockBytes <- BlockWords, WordBytes <- 1,
        ResetPC <- slice(0, ILines, BlockWords), BeatCycles <- IBeat, memory_array <- image,
        busywait <- ibusywait, valid_array <- ivalid_array, tag_array <- itag_array,
        data_array <- idata_array, state <- istate,
        readaccess <- ireadaccess, process <- iprocess

ASSUME ProcessorAssumption ==
  /\ Modulus = DTags * DLines * BlockBytes
  /\ ProgramWords = ITags * ILines * BlockWords
  /\ Program \in [0 .. ProgramWords - 1 -> Machine!Instructions]
  /\ {NumRegs, IBeat, DBeat} \subseteq Nat \ {0}
  /\ IBeat * BlockWords > 2 * DBeat * BlockBytes

-----------------------------------------------------------------------------
(* The CPU. *)

isLoad(w)  == w.op \in {"lwd", "lwi"}
isStore(w) == w.op \in {"swd", "swi"}

\* ALURESULT, which is the address of the data cache.
aluResult(w) ==
  CASE isLoad(w) \/ isStore(w)        -> Machine!address(w)
    [] w.op \in {"beq", "bne"}        -> (Machine!reg(w.rt) - Machine!reg(w.rs)) % Modulus
    [] w.op \in {"j", "none"}         -> Machine!reg(w.rs)
    [] OTHER                          -> Machine!result(w)

\* The PC that the unit of pc_unit.v has ready.
pcNext ==
  (wordIndex + 1 + IF Machine!taken(word) THEN signed(word.rd) ELSE 0) % ProgramWords

CPU_BUSYWAITData == busywait
CPU_BUSYWAIT == ibusywait \/ busywait

WriteBack ==
  registers' =
    IF CPU_BUSYWAIT \/ word.op \notin Machine!Writers THEN registers
    ELSE [registers EXCEPT ![word.rd % NumRegs] =
            IF isLoad(word) THEN DC!readdata ELSE Machine!result(word)]

\* The clock edge, and the lookup of icache.
Edge ==
  \E iedge, dedge \in EdgeOrders, order \in LookupOrders :
    /\ DC!Edge(dedge)
    /\ IC!Period(iedge, order, CPU_BUSYWAIT, slice(pcNext, ILines, BlockWords))
    /\ WriteBack
    /\ passing' = IC!wordOf(idata_array'[pc.index], pc'.offset)[0]
    /\ phase' = "passing"
    /\ UNCHANGED word

\* The decoder sets the strobes anew whenever the word changes.
Meet(w) ==
  /\ word' = w
  /\ IF w = word
     THEN UNCHANGED <<read, write, address, writedata, busywait, valid_array, dirty_array,
                      tag_array, data_array, state>>
     ELSE DC!StrobeEvent(isLoad(w), isStore(w))
  /\ DC!Outputs
  /\ UNCHANGED <<passing, instructionVars>>

\* The word select of icache may run before its block has changed.
Pass ==
  /\ phase = "passing" /\ phase' = "decode"
  /\ Meet(passing) \/ Meet(word)

Decode ==
  /\ phase = "decode" /\ phase' = "operands"
  /\ Meet(IC!instruction[0])

Operands ==
  /\ phase = "operands" /\ phase' = "edge"
  /\ DC!AddressEvent(slice(aluResult(word), DLines, BlockBytes), Machine!reg(word.rt))
  /\ DC!Outputs
  /\ UNCHANGED <<word, passing, instructionVars>>

Init ==
  /\ registers = [r \in 0 .. NumRegs - 1 |-> 0]
  /\ word = ZeroWord /\ passing = ZeroWord
  /\ phase = "edge"
  /\ DC!CacheInit /\ DC!MemoryInit
  /\ address = slice(0, DLines, BlockBytes) /\ writedata = 0
  /\ IC!Init

Next == Edge \/ Pass \/ Decode \/ Operands

\* Simulated time goes on for as long as the test bench runs.
Spec == Init /\ [][Next]_vars /\ WF_vars(Next)

-----------------------------------------------------------------------------
(* Safety *)

\* The processor runs its program: behind both caches, with every interleaving of their
\* stalls, registers, PC and memory change as the instruction set says.
RunsProgram == Machine!Spec

\* A CPU that waits for its instruction stores nothing: whatever changes memory is the
\* store at the PC (cpu_tb.v:34-35, dcache.v:110-128).
StoresOnlyFetched ==
  [][memory' # memory => word = Program[wordIndex] /\ isStore(word)]_vars

(* Liveness *)

\* Neither cache holds the CPU for ever, though each may begin to work while the CPU
\* waits for the other (cpu_tb.v:34-35).
StallsEnd == CPU_BUSYWAIT /\ phase = "edge" ~> ~CPU_BUSYWAIT /\ phase = "edge"
=============================================================================
