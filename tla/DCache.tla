------------------------------ MODULE DCache ------------------------------
(***************************************************************************)
(* The direct-mapped, write-back data cache of Lab07 (dcache.v).           *)
(*                                                                         *)
(* Time inside a clock period is abstracted to the three moments at which  *)
(* the cache's inputs move, because that is what decides its behaviour:    *)
(*   - the rising clock edge (PosedgeState, PosedgeArrays): the FSM steps, *)
(*     and #1 later the arrays are written; the lookup (#1 for the arrays, *)
(*     #0.9 for the comparator) has settled at #2.9;                       *)
(*   - the decoder's strobes, #4 after the edge (StrobeEvent);             *)
(*   - the ALU result, #5 or #6 after the edge (AddressEvent): the lookup  *)
(*     of the new address has settled at #7.9, just before the next edge.  *)
(* So at the strobes `hit' still speaks of the previous ALU result.  That  *)
(* staleness is not a variable: `hit' below is computed from the current   *)
(* address, and the address moves after the strobes.                       *)
(*                                                                         *)
(* mem_busywait and mem_readdata, which the data memory drives, come in as *)
(* parameters.                                                             *)
(***************************************************************************)
EXTENDS AddressSpace

VARIABLES read, write,       \* strobes of the CPU; dcache never sees both high
          address,           \* the ALU result
          writedata,         \* OUT1 of the register file
          busywait,
          valid_array, dirty_array, tag_array, data_array,
          state              \* the miss FSM

inputVars == <<read, write, address, writedata>>
arrayVars == <<valid_array, dirty_array, tag_array, data_array>>
cacheVars == <<inputVars, busywait, arrayVars, state>>

States == {"IDLE", "MEM_READ", "MEM_WRITE"}

CacheTypeOK ==
  /\ read \in BOOLEAN /\ write \in BOOLEAN
  /\ address \in Addresses
  /\ writedata \in Bytes
  /\ busywait \in BOOLEAN
  /\ valid_array \in [Indices -> BOOLEAN]
  /\ dirty_array \in [Indices -> BOOLEAN]
  /\ tag_array \in [Indices -> Tags]
  /\ data_array \in [Indices -> Blocks]
  /\ state \in States

\* The state that posedge reset leaves.  The ALU result is unknown at reset.
CacheInit ==
  /\ read = FALSE /\ write = FALSE
  /\ address \in Addresses
  /\ writedata \in Bytes
  /\ busywait = FALSE
  /\ valid_array = [i \in Indices |-> FALSE]
  /\ dirty_array = [i \in Indices |-> FALSE]
  /\ tag_array = [i \in Indices |-> ZeroTag]
  /\ data_array = [i \in Indices |-> ZeroBlock]
  /\ state = "IDLE"

-----------------------------------------------------------------------------
(* Combinational signals, in the values they settle to. *)

tag    == address.tag
index  == address.index
offset == address.offset

valid        == valid_array[index]
dirty        == dirty_array[index]
stored_tag   == tag_array[index]
stored_block == data_array[index]

hit      == valid /\ tag = stored_tag
readdata == stored_block[offset]

readaccess  == read /\ ~write
writeaccess == ~read /\ write
access      == readaccess \/ writeaccess
miss        == access /\ ~hit

\* A miss on this line has to write the line back first.
evictNever == FALSE
evict == dirty /\ valid

\* busy is the mem_busywait that the FSM sees.
next_stateHasty(busy) ==
  CASE state = "IDLE" /\ ~miss -> "IDLE"
    [] state = "IDLE" /\ miss  -> IF evict THEN "MEM_WRITE" ELSE "MEM_READ"
    [] state = "MEM_READ"      -> IF busy THEN "MEM_READ" ELSE "IDLE"
    [] state = "MEM_WRITE"     -> "MEM_READ"

next_state(busy) ==
  CASE state = "IDLE" /\ ~miss -> "IDLE"
    [] state = "IDLE" /\ miss  -> IF evict THEN "MEM_WRITE" ELSE "MEM_READ"
    [] state = "MEM_READ"      -> IF busy THEN "MEM_READ" ELSE "IDLE"
    [] state = "MEM_WRITE"     -> IF busy THEN "MEM_WRITE" ELSE "MEM_READ"

mem_write == state = "MEM_WRITE" \/ (state = "IDLE" /\ miss /\ evict)

mem_readOnHit == state = "MEM_READ" \/ (state = "IDLE" /\ access /\ ~evict)
mem_read      == state = "MEM_READ" \/ (state = "IDLE" /\ miss /\ ~evict)

\* The two outputs are 0 when no strobe is up, when nobody reads them.
mem_addressOfRequest == <<tag, index>>
mem_address   == IF mem_write THEN <<stored_tag, index>> ELSE <<tag, index>>
mem_writedata == stored_block

\* Everything the always @(*) process of the outputs reads.  Any event on it
\* clears the strobes before it sets them, which data_memory notices as an event
\* on read or write even when their value has not changed.
outputViewStateOnly == <<state>>
outputView == <<state, readaccess, writeaccess, hit, dirty, valid,
                stored_tag, stored_block, index, tag>>

-----------------------------------------------------------------------------
(* The processes, by the moment that wakes them. *)

\* @(read, write), then @(hit, readaccess, writeaccess).  The decoder clears both
\* strobes before it sets them, so a new instruction wakes the first process
\* whenever a strobe was or is high; the second wakes only if the kind of access
\* changed, and it reads the hit of the address that is still there.
strobeHitAnyAddress(r, w) == <<r, w>> # <<read, write>> /\ r # w
strobeHit(r, w)           == <<r, w>> # <<read, write>> /\ r # w /\ hit

StrobeEvent(r, w) ==
  /\ read' = r /\ write' = w
  /\ busywait' = IF read \/ write \/ r \/ w
                 THEN (r \/ w) /\ ~strobeHit(r, w)
                 ELSE busywait
  /\ UNCHANGED <<address, writedata, arrayVars, state>>

\* hit at the four stages of the lookup of a new address a: the old one; the
\* comparator with the new tag and the old line; valid of the new line, while the
\* comparator has not seen its tag; settled.
lookupStages(a) ==
  << hit,
     valid /\ a.tag = stored_tag,
     valid_array[a.index] /\ a.tag = stored_tag,
     valid_array[a.index] /\ a.tag = tag_array[a.index] >>

\* A new ALU result and store operand: busywait falls if an access is up and hit
\* rises at any stage.
AddressEvent(a, d) ==
  /\ address' = a /\ writedata' = d
  /\ LET stage == lookupStages(a)
         rises == \E n \in 1 .. 3 : ~stage[n] /\ stage[n + 1]
     IN  busywait' = (busywait /\ ~(access /\ rises))
  /\ UNCHANGED <<read, write, arrayVars, state>>

\* The FSM register, and the fall of busywait when the edge makes a hit.
PosedgeStateNoWake(busy) ==
  /\ state' = next_state(busy)
  /\ busywait' = busywait

PosedgeState(busy) ==
  /\ state' = next_state(busy)
  /\ busywait' = (busywait /\ ~(access /\ ~hit /\ hit'))

\* The two edge-triggered processes that write the arrays sample their condition
\* on the edge and write #1 later.  If both do, either may be the last.
Fill(busy) == state = "MEM_READ" /\ ~busy
WriteHit   == hit /\ writeaccess

SetLineKeepDirty(block, isDirty) ==
  /\ data_array'  = [data_array  EXCEPT ![index] = block]
  /\ dirty_array' = dirty_array
  /\ valid_array' = [valid_array EXCEPT ![index] = TRUE]
  /\ tag_array'   = [tag_array   EXCEPT ![index] = tag]

SetLine(block, isDirty) ==
  /\ data_array'  = [data_array  EXCEPT ![index] = block]
  /\ dirty_array' = [dirty_array EXCEPT ![index] = isDirty]
  /\ valid_array' = [valid_array EXCEPT ![index] = TRUE]
  /\ tag_array'   = [tag_array   EXCEPT ![index] = tag]

PosedgeArrays(busy, block) ==
  \/ ~Fill(busy) /\ ~WriteHit /\ UNCHANGED arrayVars
  \/ Fill(busy) /\ SetLine(block, FALSE)
  \/ WriteHit /\ SetLine([IF Fill(busy) THEN block ELSE stored_block
                            EXCEPT ![offset] = writedata], TRUE)
=============================================================================
