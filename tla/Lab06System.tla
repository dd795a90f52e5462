---------------------------- MODULE Lab06System ----------------------------
(***************************************************************************)
(* Lab06: the data cache of that lab (dcache.v) between the CPU and the    *)
(* block memory.  Its lines are those of the Lab07 cache, but busywait is  *)
(* a level, computed from the lookup, where Lab07 waits for events; and    *)
(* memory is asked only once the FSM has left IDLE.                        *)
(*                                                                         *)
(* A period is an edge, the decoder's strobes and the operands; what is    *)
(* combinational has settled before the next edge.                         *)
(***************************************************************************)
EXTENDS DataMemory

CONSTANT EdgeOrders   \* which of a clock edge and the end of a #40 at the same instant
                      \* may come first; "between" is an end that the arrays see on this
                      \* edge while next_state has not been computed anew

ASSUME Lab06Assumption ==
  EdgeOrders \subseteq {"memory_first", "clock_first", "between"} /\ EdgeOrders # {}

VARIABLES read, write, address, writedata,
          valid_array, dirty_array, tag_array, data_array,
          state,
          loaded,   \* the register that loads write
          phase     \* "edge", "decode", "operands"

requestVars == <<read, write, address, writedata>>
arrayVars == <<valid_array, dirty_array, tag_array, data_array>>
vars == <<requestVars, arrayVars, state, memoryVars, loaded, phase>>

TypeOK ==
  /\ MemoryTypeOK
  /\ read \in BOOLEAN /\ write \in BOOLEAN
  /\ address \in Addresses /\ writedata \in Bytes
  /\ valid_array \in [Indices -> BOOLEAN] /\ dirty_array \in [Indices -> BOOLEAN]
  /\ tag_array \in [Indices -> Tags] /\ data_array \in [Indices -> Blocks]
  /\ state \in {"IDLE", "MEM_READ", "MEM_WRITE"}
  /\ loaded \in Bytes
  /\ phase \in {"edge", "decode", "operands"}

\* The state that reset leaves.  The ALU result is unknown at reset.
Init ==
  /\ MemoryInit
  /\ read = FALSE /\ write = FALSE
  /\ address \in Addresses /\ writedata \in Bytes
  /\ valid_array = [i \in Indices |-> FALSE] /\ dirty_array = [i \in Indices |-> FALSE]
  /\ tag_array = [i \in Indices |-> ZeroTag] /\ data_array = [i \in Indices |-> ZeroBlock]
  /\ state = "IDLE"
  /\ loaded = ZeroByte
  /\ phase = "decode"

-----------------------------------------------------------------------------
index == address.index

valid_out == valid_array[index]
dirty_out == dirty_array[index]
tag_out   == tag_array[index]
block_out == data_array[index]

hitAnyTag == valid_out
hit       == valid_out /\ address.tag = tag_out

readdata == block_out[address.offset]

access == read \/ write

busywait(s) == s # "IDLE" \/ (access /\ ~hit)

mem_read      == state = "MEM_READ"
mem_write     == state = "MEM_WRITE"
mem_address   == <<IF mem_write THEN tag_out ELSE address.tag, index>>
mem_writedata == block_out

\* What the always @(*) process of the outputs reads: an event on it makes a pulse on a
\* strobe that is up, which memory notices.
outputView == <<state, address.tag, index, tag_out, block_out>>

event ==
  /\ outputView' # outputView
  /\ mem_read \/ mem_write \/ mem_read' \/ mem_write'

\* busy is the mem_busywait that the FSM sees.
next_stateClean(busy) ==
  CASE state = "IDLE"      -> IF access /\ ~hit THEN "MEM_READ" ELSE "IDLE"
    [] state = "MEM_WRITE" -> IF busy THEN "MEM_WRITE" ELSE "MEM_READ"
    [] state = "MEM_READ"  -> IF busy THEN "MEM_READ" ELSE "IDLE"

next_stateHasty(busy) ==
  CASE state = "IDLE" -> IF access /\ ~hit
                         THEN IF dirty_out /\ valid_out THEN "MEM_WRITE" ELSE "MEM_READ"
                         ELSE "IDLE"
    [] state = "MEM_WRITE" -> "MEM_READ"
    [] state = "MEM_READ"  -> IF busy THEN "MEM_READ" ELSE "IDLE"

next_stateRetry(busy) ==
  CASE state = "IDLE" -> IF access /\ ~hit
                         THEN IF dirty_out /\ valid_out THEN "MEM_WRITE" ELSE "MEM_READ"
                         ELSE "IDLE"
    [] state = "MEM_WRITE" -> IF busy THEN "MEM_WRITE" ELSE "IDLE"
    [] state = "MEM_READ"  -> IF busy THEN "MEM_READ" ELSE "IDLE"

next_state(busy) ==
  CASE state = "IDLE" -> IF access /\ ~hit
                         THEN IF dirty_out /\ valid_out THEN "MEM_WRITE" ELSE "MEM_READ"
                         ELSE "IDLE"
    [] state = "MEM_WRITE" -> IF busy THEN "MEM_WRITE" ELSE "MEM_READ"
    [] state = "MEM_READ"  -> IF busy THEN "MEM_READ" ELSE "IDLE"

\* The arrays change #1 after the edge.  The process fills first and then looks for a write
\* hit; behind a fill that is #1 after the edge, when the FSM has moved but the lookup is
\* still that of the old line.  It hits if that was filled before (order "between").
Fill(busy)  == state = "MEM_READ" /\ ~busy
WriteHit(s) == s = "IDLE" /\ write /\ hit

\* The dirty bit behind a fill, a write hit, or both.
dirtyFillLast(fills, writes) == ~fills /\ (writes \/ dirty_out)
dirtied(fills, writes)       == writes \/ (~fills /\ dirty_out)

PosedgeArrays(busy, block) ==
  LET fills  == Fill(busy)
      writes == WriteHit(IF fills THEN state' ELSE state)
      line   == IF fills THEN block ELSE block_out
  IN  /\ data_array'  = [data_array EXCEPT
                           ![index] = IF writes THEN [line EXCEPT ![address.offset] = writedata]
                                      ELSE line]
      /\ tag_array'   = [tag_array   EXCEPT ![index] = IF fills THEN address.tag ELSE @]
      /\ valid_array' = [valid_array EXCEPT ![index] = fills \/ @]
      /\ dirty_array' = [dirty_array EXCEPT ![index] = dirtied(fills, writes)]

-----------------------------------------------------------------------------
\* mem_busywait as next_state was computed from it, and as the arrays see it.
stateBusy(order) == mem_busywait /\ ~(order = "memory_first" /\ AccessEnds)
fillBusy(order)  == mem_busywait /\ ~(order # "clock_first" /\ AccessEnds)

\* What PC and register file see #1 after the edge: the FSM has moved, the lookup has not.
stalled == busywait(state')

\* The CPU completes its instruction on an edge with busywait low.
Edge ==
  /\ phase = "edge"
  /\ \E order \in EdgeOrders :
       /\ MemoryPosedge(order, mem_address, mem_writedata)
       /\ state' = next_state(stateBusy(order))
       /\ PosedgeArrays(fillBusy(order), mem_readdata')
  /\ UNCHANGED requestVars
  /\ AccessDetect(event, mem_read', mem_write', AccessEnds)
  /\ loaded' = IF read /\ ~stalled THEN readdata ELSE loaded
  /\ phase' = IF stalled THEN "edge" ELSE "decode"

Settle ==
  /\ UNCHANGED <<arrayVars, state, memory_array, mem_readdata, process, loaded>>
  /\ AccessDetect(event, mem_read', mem_write', FALSE)

\* The decoder meets a new instruction, or the same word again.
Decode(r, w) ==
  /\ phase = "decode" /\ phase' = "operands"
  /\ ~(r /\ w)
  /\ read' = r /\ write' = w /\ UNCHANGED <<address, writedata>>
  /\ Settle

Operands(a, d) ==
  /\ phase = "operands" /\ phase' = "edge"
  /\ address' = a /\ writedata' = d /\ UNCHANGED <<read, write>>
  /\ Settle

Next ==
  \/ Edge
  \/ \E r, w \in BOOLEAN : Decode(r, w)
  \/ \E a \in Addresses, d \in Bytes : Operands(a, d)

\* Simulated time goes on for as long as the test bench runs.
Spec == Init /\ [][Next]_vars /\ WF_vars(Next)

-----------------------------------------------------------------------------
(* Safety *)

cached(a) == valid_array[a.index] /\ tag_array[a.index] = a.tag

memoryView ==
  [a \in Addresses |-> IF cached(a) THEN data_array[a.index][a.offset]
                       ELSE memory_array[<<a.tag, a.index>>][a.offset]]

Flat == INSTANCE FlatMemory WITH
          memory <- memoryView,
          turn   <- IF phase = "edge" THEN "serve" ELSE "prepare"

\* The CPU cannot tell the cache from a memory of bytes (dcache.v:90-101), under any
\* program: nothing asks, as Lab07's cache does, that addresses stand early.
IsFlatMemory == Flat!Spec

\* The memory works only for the state that the FSM is in, and only with busywait high.
MemoryServesFSM ==
  process.op # "wait" =>
    /\ mem_busywait
    /\ state = (IF process.op = "read" THEN "MEM_READ" ELSE "MEM_WRITE")

\* A line is replaced only when memory holds its bytes (dcache.v:107-111).
WriteBackFirst ==
  [][\A i \in Indices :
       valid_array[i] /\ tag_array'[i] # tag_array[i]
         => data_array[i] = memory_array[<<tag_array[i], i>>]]_vars

-----------------------------------------------------------------------------
(* The inductive invariant of Lab06Proofs, in three parts. *)

requestBlock == <<address.tag, index>>   \* the block that the CPU asks for
lineBlock    == <<tag_out, index>>       \* the block that its line holds

\* The request stands while the FSM is at work, and a write-back has a reason.
RequestInv ==
  /\ ~(read /\ write)
  /\ state # "IDLE" => phase = "edge" /\ access
  /\ state = "MEM_WRITE" => valid_out /\ dirty_out /\ ~hit

\* Memory has one access at most, the one of the state.
BusInv ==
  /\ state = "IDLE" => ~mem_busywait
  /\ mem_readaccess = (mem_busywait /\ state = "MEM_READ")
  /\ mem_writeaccess = (mem_busywait /\ state = "MEM_WRITE")
  /\ MemoryServesFSM

\* Clean lines are copies, as is the line that a fetch will replace, and each transfer has
\* carried the right bytes up to its beat.
DataInv ==
  /\ \A i \in Indices :
       valid_array[i] /\ ~dirty_array[i] => data_array[i] = memory_array[<<tag_array[i], i>>]
  /\ state = "MEM_READ" /\ valid_out => block_out = memory_array[lineBlock]
  /\ state = "MEM_READ" /\ ~mem_busywait => mem_readdata = memory_array[requestBlock]
  /\ state = "MEM_WRITE" /\ ~mem_busywait => block_out = memory_array[lineBlock]
  /\ process.op = "read" =>
       /\ process.byte = memory_array[requestBlock][process.beat]
       /\ \A k \in Offsets : k < process.beat => mem_readdata[k] = memory_array[requestBlock][k]
  /\ process.op = "write" =>
       /\ process.byte = block_out[process.beat]
       /\ \A k \in Offsets : k < process.beat => block_out[k] = memory_array[lineBlock][k]

\* All of it is inductive, in each of the three orders (dcache.v:90-191 with
\* data_memory.v): the FSM, the memory and the arrays agree at every moment of a miss.
IInv == TypeOK /\ RequestInv /\ BusInv /\ DataInv

-----------------------------------------------------------------------------
(* Liveness *)

\* Every miss is served.
StallEnds == phase = "edge" ~> phase # "edge"
=============================================================================
