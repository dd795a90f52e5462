-------------------------- MODULE DCacheInvariant --------------------------
(***************************************************************************)
(* Why the data cache works for a program that presents its addresses      *)
(* early: the inductive invariant behind the theorems of DCacheProofs.     *)
(***************************************************************************)
EXTENDS DCacheSystem

\* The block that is asked for, and the block whose line stands in its way.
requestBlock == <<tag, index>>
lineBlock    == <<stored_tag, index>>

\* busywait is exact: it is high for a miss and for nothing else; the FSM leaves
\* IDLE only for a miss, and while it is away the CPU does not move.
StallInv ==
  /\ ~(read /\ write)
  /\ busywait <=> miss
  /\ phase = "decode" => ~miss
  /\ state # "IDLE" => miss /\ phase = "edge"
  /\ state = "MEM_WRITE" => evict

\* The memory is asked for what the FSM wants, and works on nothing else.
BusInv ==
  /\ mem_busywait <=> mem_readaccess \/ mem_writeaccess
  /\ state = "IDLE" => /\ process.op = "wait"
                       /\ mem_readaccess <=> mem_read
                       /\ mem_writeaccess <=> mem_write
  /\ state = "MEM_READ"  => ~mem_writeaccess /\ process.op # "write"
  /\ state = "MEM_WRITE" => ~mem_readaccess /\ process.op # "read"
  /\ process.op # "wait" => mem_busywait

\* A fetch under way has the bytes it passed, and one that is over the block.
FetchInv ==
  /\ process.op = "read" =>
       /\ process.byte = memory_array[requestBlock][process.beat]
       /\ \A k \in Offsets : k < process.beat
            => mem_readdata[k] = memory_array[requestBlock][k]
  /\ state = "MEM_READ" /\ ~mem_busywait => mem_readdata = memory_array[requestBlock]

\* The same of a write-back; once the FSM has moved on to the fetch, memory holds
\* the line that is about to be replaced.
WriteBackInv ==
  /\ process.op = "write" =>
       /\ process.byte = stored_block[process.beat]
       /\ \A k \in Offsets : k < process.beat
            => memory_array[lineBlock][k] = stored_block[k]
  /\ state = "MEM_WRITE" /\ ~mem_busywait => memory_array[lineBlock] = stored_block
  /\ state = "MEM_READ" /\ evict => memory_array[lineBlock] = stored_block

\* The inductive invariant: each part is needed to show that a step keeps the next,
\* and all of it to show that no dirty line is lost (dcache.v:139-245 with
\* dmem_for_dcache.v:37-66).
IInv == TypeOK /\ StallInv /\ BusInv /\ FetchInv /\ WriteBackInv
               /\ CleanLineMatchesMemory
=============================================================================
