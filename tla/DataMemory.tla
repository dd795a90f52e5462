---------------------------- MODULE DataMemory ----------------------------
(***************************************************************************)
(* The block data memory of Lab07 (dmem_for_dcache.v): a slow memory that  *)
(* moves one byte of a block every #40, and holds busywait high from the   *)
(* moment a strobe rises to the end of the last byte.                      *)
(*                                                                         *)
(* The module has two processes.  The one on @(read, write) latches the    *)
(* kind of access (AccessDetect).  The one on @(posedge clock) waits for   *)
(* a clock edge that finds a latched access and then sleeps through the    *)
(* bytes of the block (MemoryPosedge); it does not see clock edges while   *)
(* it sleeps.  #40 is a whole number of clock periods (five), so a sleep   *)
(* that starts on an edge ends on an edge: BeatCycles edges later.         *)
(***************************************************************************)
EXTENDS AddressSpace

CONSTANT BeatCycles   \* clock periods in the #40 of one byte; 5 in the program

ASSUME BeatAssumption == BeatCycles \in Nat \ {0}

VARIABLES memory_array,     \* block address -> block
          mem_readdata,     \* the 32-bit output register
          mem_busywait,
          mem_readaccess,
          mem_writeaccess,
          process           \* where the posedge process sleeps: the access it
                            \* serves, the byte, the edges left in this #40, and
                            \* the right-hand side sampled when the #40 began

memoryVars == <<memory_array, mem_readdata, mem_busywait, mem_readaccess,
                mem_writeaccess, process>>

Processes == [op   : {"wait", "read", "write"},
              beat : Offsets,
              left : 1 .. BeatCycles,
              byte : Bytes]

Waiting == [op |-> "wait", beat |-> 0, left |-> BeatCycles, byte |-> ZeroByte]

MemoryTypeOK ==
  /\ memory_array \in [BlockAddresses -> Blocks]
  /\ mem_readdata \in Blocks
  /\ mem_busywait \in BOOLEAN
  /\ mem_readaccess \in BOOLEAN
  /\ mem_writeaccess \in BOOLEAN
  /\ process \in Processes

\* The state that posedge reset leaves; readdata is never reset.
MemoryInit ==
  /\ memory_array = [b \in BlockAddresses |-> ZeroBlock]
  /\ mem_readdata = ZeroBlock
  /\ mem_busywait = FALSE
  /\ mem_readaccess = FALSE
  /\ mem_writeaccess = FALSE
  /\ process = Waiting

-----------------------------------------------------------------------------
\* The #40 of the current byte ends on this edge.
ByteEndsLate == process.op # "wait" /\ process.left = 0
ByteEnds == process.op # "wait" /\ process.left = 1

\* ... and the byte is the last of the block, so the access is over.
AccessEnds == ByteEnds /\ process.beat = BlockBytes - 1

\* The access that the posedge process turns to when the current one is over.
\* A write that was latched during a read is served in the same pass of the
\* process; a read that was latched during a write needs the clock edge that
\* the process meets only if it ran before the clock's event.
NextAccess(order) ==
  IF process.op = "read"
  THEN IF mem_writeaccess THEN "write" ELSE "wait"
  ELSE IF order = "memory_first" /\ mem_readaccess THEN "read" ELSE "wait"

\* The process goes to sleep on byte k, with the right-hand side it will store.
Sleep(op, k, contents, blockaddress, writedata) ==
  process' = [op   |-> op,
              beat |-> k,
              left |-> BeatCycles,
              byte |-> IF op = "read" THEN contents[blockaddress][k]
                                      ELSE writedata[k]]

\* The byte whose #40 ended is stored.  Only the right-hand side was sampled at
\* the start of the #40: the destination address is the one of this moment.
StoreByte(blockaddress) ==
  /\ mem_readdata' =
       IF ByteEnds /\ process.op = "read"
       THEN [mem_readdata EXCEPT ![process.beat] = process.byte]
       ELSE mem_readdata
  /\ memory_array' =
       IF ByteEnds /\ process.op = "write"
       THEN [memory_array EXCEPT ![blockaddress][process.beat] = process.byte]
       ELSE memory_array

\* The posedge process at one clock edge, given the inputs it reads.
MemoryPosedge(order, blockaddress, writedata) ==
  /\ StoreByte(blockaddress)
  /\ \/ /\ process.op = "wait"
        /\ ~mem_readaccess /\ ~mem_writeaccess
        /\ UNCHANGED process
     \/ /\ process.op = "wait"
        /\ mem_readaccess \/ mem_writeaccess
        /\ Sleep(IF mem_readaccess THEN "read" ELSE "write", 0,
                 memory_array, blockaddress, writedata)
     \/ /\ process.op # "wait" /\ ~ByteEnds
        /\ process' = [process EXCEPT !.left = @ - 1]
     \/ /\ ByteEnds /\ ~AccessEnds
        /\ Sleep(process.op, process.beat + 1, memory_array, blockaddress, writedata)
     \/ /\ AccessEnds
        /\ IF NextAccess(order) = "wait"
           THEN process' = Waiting
           ELSE Sleep(NextAccess(order), 0, memory_array', blockaddress, writedata)

\* The access flags after the edge's process, and after the @(read, write)
\* process if the strobes had an event since.  The end of an access clears
\* busywait and the flag of that access.
AccessDetect(event, r, w, ends) ==
  /\ mem_busywait'    = IF event THEN r \/ w
                        ELSE mem_busywait /\ ~ends
  /\ mem_readaccess'  = IF event THEN r /\ ~w
                        ELSE mem_readaccess /\ ~(ends /\ process.op = "read")
  /\ mem_writeaccess' = IF event THEN ~r /\ w
                        ELSE mem_writeaccess /\ ~(ends /\ process.op = "write")
=============================================================================
