--------------------------- MODULE ICacheSystem ---------------------------
(***************************************************************************)
(* The instruction side of cpu_tb.v: the PC, the instruction cache and the *)
(* instruction memory on one clock.  The CPU may jump or branch from any   *)
(* instruction to any other, and dcache may stall it at any edge.          *)
(***************************************************************************)
EXTENDS ICache, InstructionMemory

CONSTANTS
  EdgeOrders,    \* which of a clock edge and the end of a #40 at the same instant may
                 \* come first: a subset of {"memory_first", "clock_first"}
  LookupOrders   \* which of the comparator and the process on @(pc) may come first
                 \* #1.9 after the PC moved: a subset of {"lookup_first", "process_first"}

ASSUME OrderAssumption ==
  /\ EdgeOrders \subseteq {"memory_first", "clock_first"}
  /\ EdgeOrders # {}
  /\ LookupOrders \subseteq {"lookup_first", "process_first"}
  /\ LookupOrders # {}

vars == <<icacheVars, imemVars>>

TypeOK == CacheTypeOK /\ MemoryTypeOK

\* The strobe is up from the reset on, because no line is valid.
Init ==
  /\ CacheInit
  /\ imem_readdata = ZeroBlock
  /\ imem_busywait = TRUE
  /\ readaccess = TRUE
  /\ process = Waiting

-----------------------------------------------------------------------------
\* One clock period.  The cache sees the end of a memory access on this very edge
\* only if the memory ran first.
Period(edge, order, stall, target) ==
  LET busy == imem_busywait /\ ~(edge = "memory_first" /\ AccessEnds)
  IN  /\ MemoryPosedge(mem_address)
      /\ PosedgePC(stall, target)
      /\ \E at \in {pc, pc'} : PosedgeArrays(busy, imem_readdata', at)
      /\ PosedgeState(busy)
      /\ Lookup(order)
      /\ AccessDetect(outputView' # outputView, mem_read', AccessEnds)

\* icache or dcache holds the PC.
Stall ==
  \E edge \in EdgeOrders, order \in LookupOrders, target \in PCs,
     dcache_busywait \in BOOLEAN :
    /\ busywait \/ dcache_busywait
    /\ Period(edge, order, TRUE, target)

\* The instruction completes and the PC goes on, to the next word or to the target of
\* a jump or branch.
Advance ==
  \E edge \in EdgeOrders, order \in LookupOrders, target \in PCs :
    /\ ~busywait
    /\ Period(edge, order, FALSE, target)

Next == Stall \/ Advance

\* Simulated time goes on for as long as the test bench runs.
Spec == Init /\ [][Next]_vars /\ WF_vars(Next)

-----------------------------------------------------------------------------
(* Safety *)

\* An edge with icache's busywait low executes the word that the program has at the
\* PC: a miss is never taken for a hit (icache.v:60-77).
FetchCorrect ==
  ~busywait => instruction = wordOf(memory_array[mem_address], pc.offset)

\* Every valid line holds the block that its tag names (icache.v:133-145).
LinesMatchMemory ==
  \A i \in Indices :
    valid_array[i] => data_array[i] = memory_array[<<tag_array[i], i>>]

\* The block address does not move while the memory is reading the block, although
\* memory samples it anew for every byte (imem_for_icache.v:42-65).
BlockHeldDuringFetch ==
  [][process.op = "read" /\ ~AccessEnds => mem_address' = mem_address]_vars

\* The pulse on mem_read after a fetch (icache.v:115-130) does not start another one:
\* memory is set to work only for a miss.
NoUselessFetch ==
  [][process.op = "wait" /\ process'.op = "read" => ~hit]_vars

(* Liveness *)

\* Every miss is served (icache.v:71-77).
FetchEnds == busywait ~> ~busywait
=============================================================================
