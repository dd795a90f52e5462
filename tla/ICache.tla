------------------------------ MODULE ICache ------------------------------
(***************************************************************************)
(* The direct-mapped instruction cache of Lab07 (icache.v) with the PC     *)
(* that drives it (pc_unit.v).                                             *)
(*                                                                         *)
(* One action is one clock period.  On the edge the FSM steps; #1 later    *)
(* the fill writes its line and the PC moves; the lookup of the new PC has *)
(* settled #1.9 after that, which is the instant at which the process on   *)
(* @(pc) wakes to look at `hit'.  The word it selects reaches the decoder  *)
(* later in the period and is executed up to the next edge.                *)
(***************************************************************************)
EXTENDS AddressSpace

CONSTANTS WordBytes,    \* bytes in an instruction; 4 in the program
          BlockWords,   \* instructions in a block; 4 in the program
          ResetPC       \* what reset stores in the PC; all fields 0 in the program

PCs == [tag : Tags, index : Indices, offset : 0 .. BlockWords - 1]

ASSUME WordAssumption ==
  /\ WordBytes \in Nat \ {0}
  /\ BlockWords \in Nat \ {0}
  /\ BlockBytes = BlockWords * WordBytes
  /\ ResetPC \in PCs

VARIABLES pc,           \* PC[9:0], the two zero bits left out
          busywait,
          valid_array, tag_array, data_array,
          state         \* the miss FSM

arrayVars == <<valid_array, tag_array, data_array>>
icacheVars == <<pc, busywait, arrayVars, state>>

\* An instruction is the row of its bytes.
Instructions == [0 .. WordBytes - 1 -> Bytes]

wordOf(block, o) == [j \in 0 .. WordBytes - 1 |-> block[o * WordBytes + j]]

CacheTypeOK ==
  /\ pc \in PCs
  /\ busywait \in BOOLEAN
  /\ valid_array \in [Indices -> BOOLEAN]
  /\ tag_array \in [Indices -> Tags]
  /\ data_array \in [Indices -> Blocks]
  /\ state \in {"IDLE", "MEM_READ"}

\* Reset clears the arrays; the edge under reset then gives the PC its first value,
\* which is an event on pc and finds no valid line.
CacheInit ==
  /\ pc = ResetPC
  /\ busywait = TRUE
  /\ valid_array = [i \in Indices |-> FALSE]
  /\ tag_array = [i \in Indices |-> ZeroTag]
  /\ data_array = [i \in Indices |-> ZeroBlock]
  /\ state = "IDLE"

-----------------------------------------------------------------------------
(* Combinational signals, in the values they settle to. *)

tag    == pc.tag
index  == pc.index

valid      == valid_array[index]
stored_tag == tag_array[index]

hit == valid /\ tag = stored_tag

\* The word that the CPU executes.
instruction == wordOf(data_array[index], pc.offset)

next_state(busy) ==
  CASE state = "IDLE"     -> IF hit THEN "IDLE" ELSE "MEM_READ"
    [] state = "MEM_READ" -> IF busy THEN "MEM_READ" ELSE "IDLE"

mem_readAlways == state = "IDLE" \/ state = "MEM_READ"
mem_read       == (state = "IDLE" /\ ~hit) \/ state = "MEM_READ"

\* The output is 0 while mem_read is low, when memory does not read it.
mem_address == <<tag, index>>

\* What the always @(*) process of the outputs reads; any event on it makes a pulse
\* of mem_read, which instruction_memory notices.
outputViewStateOnly == <<state>>
outputView == <<state, hit, tag, index>>

-----------------------------------------------------------------------------
(* The processes. *)

\* The PC moves unless the CPU is stalled; the decoder may send it anywhere.
PosedgePCUnstalled(stall, target) == pc' = target
PosedgePC(stall, target)          == pc' = IF stall THEN pc ELSE target

\* The fill: condition sampled on the edge, line written #1 later, at the instant at
\* which the PC may move: `at' is the PC it finds.
FillUnderway(busy) == state = "MEM_READ"
Fill(busy)         == state = "MEM_READ" /\ ~busy

PosedgeArrays(busy, block, at) ==
  IF Fill(busy)
  THEN /\ data_array'  = [data_array  EXCEPT ![at.index] = block]
       /\ tag_array'   = [tag_array   EXCEPT ![at.index] = at.tag]
       /\ valid_array' = [valid_array EXCEPT ![at.index] = TRUE]
  ELSE UNCHANGED arrayVars

PosedgeState(busy) == state' = next_state(busy)

\* hit at the stages of the lookup that follows the edge: the old one; the comparator
\* with the new tag and the old line; valid of the new line, while the comparator has
\* not seen its tag; settled.
lookupStages ==
  << hit,
     valid /\ tag' = stored_tag,
     valid' /\ tag' = stored_tag,
     hit' >>

\* busywait after the lookup.  The process on @(pc) raises it when the PC moves, and
\* lowers it if it finds a hit when it wakes: the settled one if the comparator's
\* update at that instant came first ("lookup_first"), else the one before
\* ("process_first").  The process on @(hit) lowers it at every rise.
wakeHitAlways(order) == TRUE
wakeHit(order) == IF order = "lookup_first" THEN hit' ELSE lookupStages[3]

LookupNoRise(order) ==
  LET moved == pc' # pc
  IN  busywait' = ((busywait \/ moved) /\ ~(moved /\ wakeHit(order)))

Lookup(order) ==
  LET moved == pc' # pc
      rises == \E n \in 1 .. 3 : ~lookupStages[n] /\ lookupStages[n + 1]
  IN  busywait' = ((busywait \/ moved) /\ ~rises /\ ~(moved /\ wakeHit(order)))
=============================================================================
