-------------------------- MODULE ICacheInvariant --------------------------
(***************************************************************************)
(* Why the instruction cache works when the comparator settles before the  *)
(* process on @(pc) reads `hit': the inductive invariant behind the        *)
(* theorems of ICacheProofs.                                               *)
(***************************************************************************)
EXTENDS ICacheSystem

\* busywait is exact: it is high for a miss and for nothing else; and the FSM leaves
\* IDLE only for a miss.
StallInv ==
  /\ busywait <=> ~hit
  /\ state = "MEM_READ" => ~hit

\* The memory is asked for what the FSM wants, and works on nothing else.
BusInv ==
  /\ imem_busywait <=> readaccess
  /\ state = "IDLE" => /\ process.op = "wait"
                       /\ readaccess <=> ~hit
  /\ process.op = "read" => readaccess

\* A fetch under way has the bytes it passed, and one that is over the block.
FetchInv ==
  /\ process.op = "read" =>
       /\ process.byte = memory_array[mem_address][process.beat]
       /\ \A k \in Offsets : k < process.beat
            => imem_readdata[k] = memory_array[mem_address][k]
  /\ state = "MEM_READ" /\ ~imem_busywait => imem_readdata = memory_array[mem_address]

\* The inductive invariant: a miss holds the PC (StallInv), so the address stands
\* while memory works (BusInv), so the block that is stored is the one that was asked
\* for (icache.v:60-145 with imem_for_icache.v:36-65).
IInv == TypeOK /\ StallInv /\ BusInv /\ FetchInv /\ LinesMatchMemory
=============================================================================
