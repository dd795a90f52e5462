--------------------------- MODULE DCacheSystem ---------------------------
(***************************************************************************)
(* The data side of cpu_tb.v: the CPU as a client that executes any        *)
(* sequence of instructions, the data cache, and the data memory, on one   *)
(* clock.  A period is an edge (Stall, Complete or Hold), then, unless the *)
(* edge found the CPU stalled, Decode and Operands; a stalled CPU keeps    *)
(* its PC and so its instruction, and none of its outputs has an event.    *)
(***************************************************************************)
EXTENDS DCache, DataMemory

CONSTANTS
  EdgeOrders,   \* which of a clock edge and the end of a #40 at the same instant
                \* may come first: a subset of {"memory_first", "clock_first"}
  AddressEarly  \* TRUE: the program presents the address of a load or store with
                \* the instruction before it, and never gives two accesses of the
                \* same kind in a row.  FALSE: any program.

ASSUME SystemAssumption ==
  /\ EdgeOrders \subseteq {"memory_first", "clock_first"}
  /\ EdgeOrders # {}
  /\ AddressEarly \in BOOLEAN

VARIABLES phase,    \* the next moment of the period: "edge", "decode", "operands"
          loaded    \* the register that loads write

vars == <<cacheVars, memoryVars, phase, loaded>>

TypeOK ==
  /\ CacheTypeOK
  /\ MemoryTypeOK
  /\ phase \in {"edge", "decode", "operands"}
  /\ loaded \in Bytes

Init ==
  /\ CacheInit
  /\ MemoryInit
  /\ phase = "decode"
  /\ loaded = ZeroByte

-----------------------------------------------------------------------------
\* One clock edge, up to the moment the lookup has settled again.  The cache sees
\* the end of a memory access on this very edge only if the memory ran first.
Edge(order) ==
  /\ phase = "edge"
  /\ UNCHANGED inputVars
  /\ MemoryPosedge(order, mem_address, mem_writedata)
  /\ LET busy == mem_busywait /\ ~(order = "memory_first" /\ AccessEnds)
     IN  /\ PosedgeArrays(busy, mem_readdata')
         /\ PosedgeState(busy)
  /\ AccessDetect(outputView' # outputView, mem_read', mem_write', AccessEnds)

\* The PC and the register file see busywait high.
Stall ==
  /\ busywait
  /\ \E order \in EdgeOrders : Edge(order)
  /\ UNCHANGED <<phase, loaded>>

\* The instruction completes: a load's register is written, the PC moves on.
Complete ==
  /\ ~busywait
  /\ \E order \in EdgeOrders : Edge(order)
  /\ phase' = "decode"
  /\ loaded' = IF readaccess THEN readdata ELSE loaded

\* dcache is ready but icache holds the CPU, which presents the same request.
Hold ==
  /\ ~busywait
  /\ \E order \in EdgeOrders : Edge(order)
  /\ UNCHANGED <<phase, loaded>>

\* The block outputs follow the CPU's moves as well.
Outputs ==
  /\ AccessDetect(outputView' # outputView, mem_read', mem_write', FALSE)
  /\ UNCHANGED <<memory_array, mem_readdata, process, loaded>>

\* The decoder meets a new instruction word, and sets the strobes anew.
Decode(r, w) ==
  /\ phase = "decode" /\ phase' = "operands"
  /\ ~(r /\ w)
  /\ AddressEarly /\ (r \/ w) => <<r, w>> # <<read, write>>
  /\ StrobeEvent(r, w)
  /\ Outputs

\* The next instruction is the same word: the decoder has no event.
DecodeSameWord ==
  /\ phase = "decode" /\ phase' = "operands"
  /\ UNCHANGED cacheVars
  /\ Outputs

\* The ALU and the register file drive the operands of the instruction.
Operands(a, d) ==
  /\ phase = "operands" /\ phase' = "edge"
  /\ AddressEarly /\ access => a = address
  /\ AddressEvent(a, d)
  /\ Outputs

Next ==
  \/ Stall
  \/ Complete
  \/ Hold
  \/ \E r, w \in BOOLEAN : Decode(r, w)
  \/ DecodeSameWord
  \/ \E a \in Addresses, d \in Bytes : Operands(a, d)

\* Simulated time goes on for as long as the test bench runs.
Spec == Init /\ [][Next]_vars /\ WF_vars(Next)

-----------------------------------------------------------------------------
(* Safety *)

\* A byte as the CPU should see it: the cached one if its block is cached.
cached(a) == valid_array[a.index] /\ tag_array[a.index] = a.tag

memoryView ==
  [a \in Addresses |-> IF cached(a) THEN data_array[a.index][a.offset]
                       ELSE memory_array[<<a.tag, a.index>>][a.offset]]

\* The CPU cannot tell the cache and its memory from a memory of bytes that
\* answers at once: every load returns the last byte stored at its address, every
\* store is done once its instruction completes, and nothing else changes a byte.
Flat == INSTANCE FlatMemory WITH
          memory <- memoryView,
          turn   <- IF phase = "edge" THEN "serve" ELSE "prepare"

IsFlatMemory == Flat!Spec

\* A valid line that is not dirty holds what memory holds, so that it may be
\* dropped without a write-back (dcache.v:146-151); and only valid lines are dirty.
CleanLineMatchesMemory ==
  \A i \in Indices :
    IF valid_array[i]
    THEN dirty_array[i] \/ data_array[i] = memory_array[<<tag_array[i], i>>]
    ELSE ~dirty_array[i]

\* A load or store whose block is not in the cache reaches the clock edge with
\* busywait high, so the CPU does not complete it (dcache.v:91-99).
NoUnstalledMiss == phase = "edge" /\ miss => busywait

\* A line is handed to another block only when memory holds its bytes: a dirty
\* line is never replaced before its write-back is over (dcache.v:156-157).
WriteBackFirst ==
  [][\A i \in Indices :
       valid_array[i] /\ tag_array'[i] # tag_array[i]
         => data_array[i] = memory_array[<<tag_array[i], i>>]]_vars

\* While the memory works on a block, the cache holds the block address and the
\* written block still, although memory samples them anew for every byte
\* (dmem_for_dcache.v:46-66).
BlockHeldDuringAccess ==
  [][process.op # "wait" /\ ~AccessEnds
       => /\ mem_address' = mem_address
          /\ process.op = "write" => mem_writedata' = mem_writedata]_vars

\* The pulse that the output process puts on mem_read when it is evaluated again
\* (dcache.v:191-229) never costs a second transaction: memory is set to work only
\* for a miss, and fetches a block only if the cache does not hold it.
NoUselessTransaction ==
  [][process.op = "wait" /\ process'.op # "wait" => miss /\ state' # "IDLE"]_vars

\* Whatever instructions follow one another, the FSM and the memory agree on what is going
\* on, provided that addresses are early (AddressEarly): memory works only with its busywait
\* high and while the FSM waits for that very access, so that a second access is never
\* latched behind a running one (dcache.v:139-229, dmem_for_dcache.v:37-66).
MemoryServesFSM ==
  process.op # "wait" =>
    /\ mem_busywait
    /\ state = (IF process.op = "read" THEN "MEM_READ" ELSE "MEM_WRITE")
    /\ mem_readaccess = (process.op = "read")
    /\ mem_writeaccess = (process.op = "write")

(* Liveness *)

\* busywait falls again: a stalled instruction completes (dcache.v:102-104).
StallEnds == busywait ~> ~busywait
=============================================================================
