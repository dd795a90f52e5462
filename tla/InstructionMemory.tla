------------------------- MODULE InstructionMemory -------------------------
(***************************************************************************)
(* The block instruction memory of Lab07 (imem_for_icache.v): it delivers  *)
(* a block one byte every #40.  Like data_memory it has a process that     *)
(* notices the strobe and a process that sleeps through the bytes.         *)
(***************************************************************************)
EXTENDS AddressSpace

CONSTANTS BeatCycles,     \* clock periods in the #40 of one byte; 5 in the program
          memory_array    \* the machine code that $readmemb loads: block address -> block

ASSUME InstructionMemoryAssumption ==
  /\ BeatCycles \in Nat \ {0}
  /\ memory_array \in [BlockAddresses -> Blocks]

VARIABLES imem_readdata,  \* readinst, the 128-bit output register
          imem_busywait,
          readaccess,
          process         \* where the posedge process sleeps, with the byte it sampled

imemVars == <<imem_readdata, imem_busywait, readaccess, process>>

Processes == [op   : {"wait", "read"},
              beat : Offsets,
              left : 1 .. BeatCycles,
              byte : Bytes]

Waiting == [op |-> "wait", beat |-> 0, left |-> BeatCycles, byte |-> ZeroByte]

MemoryTypeOK ==
  /\ imem_readdata \in Blocks
  /\ imem_busywait \in BOOLEAN
  /\ readaccess \in BOOLEAN
  /\ process \in Processes

MemoryInit ==
  /\ imem_readdata = ZeroBlock
  /\ imem_busywait = FALSE
  /\ readaccess = FALSE
  /\ process = Waiting

-----------------------------------------------------------------------------
ByteEndsLate == process.op = "read" /\ process.left = 0
ByteEnds   == process.op = "read" /\ process.left = 1
AccessEnds == ByteEnds /\ process.beat = BlockBytes - 1

\* The right-hand side of byte k is sampled before its #40, from the address of
\* this moment.
Sleep(k, blockaddress) ==
  process' = [op |-> "read", beat |-> k, left |-> BeatCycles,
              byte |-> memory_array[blockaddress][k]]

\* The posedge process at one clock edge.
MemoryPosedge(blockaddress) ==
  /\ imem_readdata' = IF ByteEnds
                      THEN [imem_readdata EXCEPT ![process.beat] = process.byte]
                      ELSE imem_readdata
  /\ \/ process.op = "wait" /\ ~readaccess /\ UNCHANGED process
     \/ process.op = "wait" /\ readaccess /\ Sleep(0, blockaddress)
     \/ process.op = "read" /\ ~ByteEnds /\ process' = [process EXCEPT !.left = @ - 1]
     \/ ByteEnds /\ ~AccessEnds /\ Sleep(process.beat + 1, blockaddress)
     \/ AccessEnds /\ process' = Waiting

\* The strobe process, if the strobe had an event after the edge's process.
AccessDetect(event, r, ends) ==
  /\ imem_busywait' = IF event THEN r ELSE imem_busywait /\ ~ends
  /\ readaccess'    = IF event THEN r ELSE readaccess /\ ~ends
=============================================================================
