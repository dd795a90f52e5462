---------------------------- MODULE Lab05System ----------------------------
(***************************************************************************)
(* Lab05: the CPU on a memory of bytes that takes #40 for each of them     *)
(* (data_memory.v) and no cache.  The memory has two processes: one        *)
(* notices the strobes, one sleeps through the access and ends in the      *)
(* instant of a clock edge.  In which order the two happen makes no        *)
(* difference: the flags that the process meets if it runs first are       *)
(* clear, and PC and register file look at busywait #1 after the edge.     *)
(***************************************************************************)
EXTENDS AddressSpace

CONSTANTS
  BeatCycles,   \* clock periods in the #40; 5 in the program
  OwnAddress    \* TRUE: any program.  FALSE: no load into the register that holds its
                \* own address is followed by the very same word

ASSUME Lab05Assumption ==
  /\ BeatCycles \in Nat \ {0}
  /\ OwnAddress \in BOOLEAN

VARIABLES read, write, address, writedata,
          busywait, readaccess, writeaccess,
          memory_array,  \* address -> byte
          readdata,
          process,       \* the access that the memory sleeps through, the clock periods
                         \* left, and the right-hand side it sampled
          loaded,        \* the register that loads write
          phase          \* "edge", "decode", then "operands" or, behind a word that stands
                         \* for the second time, "repeated"

requestVars == <<read, write, address, writedata>>
memoryVars  == <<memory_array, readdata, process>>
vars == <<requestVars, busywait, readaccess, writeaccess, memoryVars, loaded, phase>>

Waiting == [op |-> "wait", left |-> BeatCycles, byte |-> ZeroByte]

TypeOK ==
  /\ read \in BOOLEAN /\ write \in BOOLEAN
  /\ address \in Addresses /\ writedata \in Bytes
  /\ busywait \in BOOLEAN /\ readaccess \in BOOLEAN /\ writeaccess \in BOOLEAN
  /\ memory_array \in [Addresses -> Bytes]
  /\ readdata \in Bytes /\ loaded \in Bytes
  /\ process \in [op : {"wait", "read", "write"}, left : 1 .. BeatCycles, byte : Bytes]
  /\ phase \in {"edge", "decode", "operands", "repeated"}

\* The state that posedge reset leaves; address, writedata and readdata are not reset.
Init ==
  /\ read = FALSE /\ write = FALSE
  /\ address \in Addresses /\ writedata \in Bytes
  /\ busywait = FALSE /\ readaccess = FALSE /\ writeaccess = FALSE
  /\ memory_array = [a \in Addresses |-> ZeroByte]
  /\ readdata \in Bytes
  /\ process = Waiting
  /\ loaded = ZeroByte
  /\ phase = "decode"

-----------------------------------------------------------------------------
AccessEnds == process.op # "wait" /\ process.left = 1

Sleep(op, byte) == process' = [op |-> op, left |-> BeatCycles, byte |-> byte]

\* A process that waits takes up a load before a store.
TakesLoads == IF readaccess THEN Sleep("read", memory_array[address]) ELSE UNCHANGED process

TakesAccess ==
  \/ readaccess /\ Sleep("read", memory_array[address])
  \/ writeaccess /\ ~readaccess /\ Sleep("write", writedata)
  \/ ~readaccess /\ ~writeaccess /\ UNCHANGED process

\* The posedge process.
MemoryPosedge ==
  \/ /\ process.op = "wait"
     /\ TakesAccess
     /\ UNCHANGED <<memory_array, readdata, busywait, readaccess, writeaccess>>
  \/ /\ process.op # "wait" /\ ~AccessEnds
     /\ process' = [process EXCEPT !.left = @ - 1]
     /\ UNCHANGED <<memory_array, readdata, busywait, readaccess, writeaccess>>
  \/ /\ AccessEnds
     /\ process' = Waiting
     /\ busywait' = FALSE
     /\ IF process.op = "read"
        THEN readdata' = process.byte /\ readaccess' = FALSE
             /\ UNCHANGED <<memory_array, writeaccess>>
        ELSE memory_array' = [memory_array EXCEPT ![address] = process.byte]
             /\ writeaccess' = FALSE /\ UNCHANGED <<readdata, readaccess>>

\* What PC and register file see #1 after the edge.
stalledByLoads == busywait' /\ read
stalled        == busywait'

loadsUngated == read
loads        == read /\ ~stalled

Edge ==
  /\ phase = "edge"
  /\ MemoryPosedge
  /\ loaded' = IF loads THEN readdata' ELSE loaded
  /\ phase' = IF stalled THEN "edge" ELSE "decode"
  /\ UNCHANGED requestVars

\* The decoder clears both strobes before it sets them, so that the other process wakes
\* if one was or is up.
detectLevel(r, w) == <<r, w>> # <<read, write>>
detect(r, w)      == read \/ write \/ r \/ w

Decode(r, w) ==
  /\ phase = "decode" /\ phase' = "operands"
  /\ ~(r /\ w)
  /\ read' = r /\ write' = w
  /\ IF detect(r, w)
     THEN busywait' = (r \/ w) /\ readaccess' = r /\ writeaccess' = w
     ELSE UNCHANGED <<busywait, readaccess, writeaccess>>
  /\ UNCHANGED <<address, writedata, memoryVars, loaded>>

\* The next instruction is the same word: the decoder has no event, and neither has memory.
DecodeSameWord ==
  /\ phase = "decode" /\ phase' = "repeated"
  /\ UNCHANGED <<requestVars, busywait, readaccess, writeaccess, memoryVars, loaded>>

\* A repeated word finds in the registers what it found before, except what it has loaded
\* itself.
Operands(a, d) ==
  /\ phase \in {"operands", "repeated"} /\ phase' = "edge"
  /\ phase = "repeated" /\ write => a = address /\ d = writedata
  /\ phase = "repeated" /\ read /\ ~OwnAddress => a = address
  /\ address' = a /\ writedata' = d
  /\ UNCHANGED <<read, write, busywait, readaccess, writeaccess, memoryVars, loaded>>

Next ==
  \/ Edge
  \/ \E r, w \in BOOLEAN : Decode(r, w)
  \/ DecodeSameWord
  \/ \E a \in Addresses, d \in Bytes : Operands(a, d)

\* Simulated time goes on for as long as the test bench runs.
Spec == Init /\ [][Next]_vars /\ WF_vars(Next)

-----------------------------------------------------------------------------
(* Safety *)

Flat == INSTANCE FlatMemory WITH
          memory <- memory_array,
          turn   <- IF phase = "edge" THEN "serve" ELSE "prepare"

\* Every load returns the last byte stored at its address and every store is done when
\* its instruction completes: the CPU waits for the memory, neither too short nor past
\* the moment at which the answer is there, and where a repeated word makes no access the
\* answer is that of the access before it (pc_unit.v:27-40, reg_file.v:35-46,
\* data_memory.v:34-58).
IsFlatMemory == Flat!Spec

\* Memory works on the request that stands, and the CPU waits while it does.
MemoryServesRequest ==
  /\ process.op # "wait" => busywait /\ phase = "edge"
  /\ process.op = "read" => readaccess /\ read /\ process.byte = memory_array[address]
  /\ process.op = "write" => writeaccess /\ write /\ process.byte = writedata

\* The flags are those of the decoder's strobes until the access has ended.
FlagsInv ==
  /\ ~(read /\ write)
  /\ readaccess = (busywait /\ read)
  /\ writeaccess = (busywait /\ write)
  /\ busywait => read \/ write
  /\ phase \in {"decode", "repeated"} => ~busywait
  /\ phase = "operands" => busywait = (read \/ write)

\* What a strobe asks for is there once busywait is low, although memory does not notice
\* the same word again: the byte is stored, and readdata still shows it.
ServedInv ==
  /\ write /\ ~busywait => memory_array[address] = writedata
  /\ read /\ ~busywait /\ ~OwnAddress => readdata = memory_array[address]

\* The inductive invariant of Lab05Proofs.
IInv == TypeOK /\ FlagsInv /\ ServedInv /\ MemoryServesRequest

(* Liveness *)

\* Every access comes to an end.
StallEnds == busywait ~> ~busywait
=============================================================================
