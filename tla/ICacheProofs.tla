--------------------------- MODULE ICacheProofs ---------------------------
(***************************************************************************)
(* Theorems about ICacheSystem, for any program, any number of tags, lines *)
(* and words in a block, and for either order of a clock edge and the end  *)
(* of a #40.  All but the first need the comparator to settle before the   *)
(* process on @(pc) looks at `hit'.                                        *)
(***************************************************************************)
EXTENDS ICacheInvariant, TLAPS

\* The mem_busywait that the cache sees on the edge.
seen(edge) == imem_busywait /\ ~(edge = "memory_first" /\ AccessEnds)

\* What Stall and Advance have in common.
Step(edge, order, stall, target) ==
  /\ Period(edge, order, stall, target)
  /\ stall \/ ~busywait

LEMMA NextIsStep ==
  ASSUME Next, TypeOK
  PROVE  \E edge \in EdgeOrders, order \in LookupOrders, stall \in BOOLEAN,
            target \in PCs : Step(edge, order, stall, target)
<1>1. CASE Stall
  BY <1>1 DEF Stall, Step, TypeOK, CacheTypeOK
<1>2. CASE Advance
  BY <1>2 DEF Advance, Step
<1> QED BY <1>1, <1>2 DEF Next

-----------------------------------------------------------------------------
(* Types *)

LEMMA SignalTypes ==
  ASSUME CacheTypeOK
  PROVE  /\ tag \in Tags /\ index \in Indices
         /\ valid \in BOOLEAN /\ stored_tag \in Tags /\ hit \in BOOLEAN
         /\ mem_address \in BlockAddresses
BY DEF CacheTypeOK, PCs, tag, index, valid, stored_tag, hit, mem_address, BlockAddresses

\* Where the posedge process of instruction_memory goes on an edge, and what the
\* output register then holds.
LEMMA ProcessStep ==
  ASSUME MemoryTypeOK, NEW b \in BlockAddresses, MemoryPosedge(b)
  PROVE  /\ process.op = "wait" /\ ~readaccess => process' = process
         /\ process.op = "wait" /\ readaccess
              => process' = [op |-> "read", beat |-> 0, left |-> BeatCycles,
                             byte |-> memory_array[b][0]]
         /\ process.op = "read" /\ ~ByteEnds
              => process' = [process EXCEPT !.left = @ - 1]
         /\ ByteEnds /\ ~AccessEnds
              => process' = [op |-> "read", beat |-> process.beat + 1, left |-> BeatCycles,
                             byte |-> memory_array[b][process.beat + 1]]
         /\ AccessEnds => process' = Waiting
         /\ imem_readdata' = IF ByteEnds
                             THEN [imem_readdata EXCEPT ![process.beat] = process.byte]
                             ELSE imem_readdata
BY DEF MemoryPosedge, Sleep, MemoryTypeOK, Processes, ByteEnds, AccessEnds

LEMMA MemoryPosedgeTypes ==
  ASSUME MemoryTypeOK, NEW b \in BlockAddresses, MemoryPosedge(b)
  PROVE  imem_readdata' \in Blocks /\ process' \in Processes
<1> USE InstructionMemoryAssumption, SpaceAssumption
<1>1. imem_readdata' \in Blocks
  BY ProcessStep DEF MemoryTypeOK, Blocks, Processes
<1>2. memory_array[b] \in [Offsets -> Bytes] /\ 0 \in Offsets
  BY DEF Blocks, Offsets
<1>3. ASSUME process.op = "wait" PROVE process' \in Processes
  BY <1>2, <1>3, ProcessStep DEF MemoryTypeOK, Processes
<1>4. ASSUME process.op = "read", ~ByteEnds PROVE process' \in Processes
  BY <1>4, ProcessStep DEF MemoryTypeOK, Processes, ByteEnds
<1>5. ASSUME ByteEnds, ~AccessEnds PROVE process' \in Processes
  <2>1. process.beat + 1 \in Offsets
    BY <1>5 DEF MemoryTypeOK, Processes, Offsets, AccessEnds
  <2> QED BY <1>2, <1>5, <2>1, ProcessStep DEF Processes
<1>6. ASSUME AccessEnds PROVE process' \in Processes
  BY <1>2, <1>6, ProcessStep DEF Waiting, Processes
<1> QED BY <1>1, <1>3, <1>4, <1>5, <1>6 DEF MemoryTypeOK, Processes, ByteEnds, AccessEnds

LEMMA TypeInitial == Init => TypeOK
<1> SUFFICES ASSUME Init PROVE TypeOK
  OBVIOUS
<1>1. ZeroBlock \in Blocks /\ Waiting \in Processes
  BY SpaceAssumption, InstructionMemoryAssumption
     DEF ZeroBlock, Blocks, Waiting, Processes, Offsets
<1> QED BY <1>1, SpaceAssumption, WordAssumption
        DEF Init, CacheInit, TypeOK, CacheTypeOK, MemoryTypeOK

LEMMA TypeStep ==
  ASSUME TypeOK, [Next]_vars
  PROVE  TypeOK'
<1>1. CASE UNCHANGED vars
  BY <1>1 DEF vars, icacheVars, arrayVars, imemVars, TypeOK, CacheTypeOK, MemoryTypeOK
<1>2. CASE Next
  <2>1. PICK edge \in EdgeOrders, order \in LookupOrders, stall \in BOOLEAN,
             target \in PCs : Step(edge, order, stall, target)
    BY <1>2, NextIsStep
  <2>2. CacheTypeOK /\ MemoryTypeOK /\ mem_address \in BlockAddresses
    BY SignalTypes DEF TypeOK
  <2>3. imem_readdata' \in Blocks /\ process' \in Processes
    BY <2>1, <2>2, MemoryPosedgeTypes DEF Step, Period
  <2>4. pc' \in PCs
    BY <2>1, <2>2 DEF Step, Period, PosedgePC, CacheTypeOK
  <2>5. /\ valid_array' \in [Indices -> BOOLEAN]
        /\ tag_array' \in [Indices -> Tags]
        /\ data_array' \in [Indices -> Blocks]
    <3>1. PICK at \in {pc, pc'} : PosedgeArrays(seen(edge), imem_readdata', at)
      BY <2>1 DEF Step, Period, seen
    <3>2. at.index \in Indices /\ at.tag \in Tags
      BY <2>2, <2>4 DEF CacheTypeOK, PCs
    <3> QED BY <2>2, <2>3, <3>1, <3>2 DEF PosedgeArrays, arrayVars, CacheTypeOK
  <2>6. state' \in {"IDLE", "MEM_READ"}
    BY <2>1, <2>2 DEF Step, Period, PosedgeState, next_state, CacheTypeOK
  <2>7. busywait' \in BOOLEAN
    BY <2>1 DEF Step, Period, Lookup
  <2>8. imem_busywait' \in BOOLEAN /\ readaccess' \in BOOLEAN
    BY <2>1, <2>2 DEF Step, Period, AccessDetect, MemoryTypeOK, mem_read
  <2> QED BY <2>3, <2>4, <2>5, <2>6, <2>7, <2>8 DEF TypeOK, CacheTypeOK, MemoryTypeOK
<1> QED BY <1>1, <1>2

\* Every register of the instruction side keeps its declared width (icache.v:21-24,
\* imem_for_icache.v:20-25), whatever the order of simultaneous events.
THEOREM TypeCorrect == Spec => []TypeOK
BY TypeInitial, TypeStep, PTL DEF Spec

-----------------------------------------------------------------------------
(* A miss holds the PC *)

\* A period stores the fetched block in the line of the PC, which makes a hit, or it
\* leaves the arrays alone; and the PC moves only from a hit.
Filled(edge) ==
  /\ state = "MEM_READ" /\ ~seen(edge)
  /\ pc' = pc
  /\ data_array' = [data_array EXCEPT ![index] = imem_readdata']
  /\ tag_array' = [tag_array EXCEPT ![index] = tag]
  /\ valid_array' = [valid_array EXCEPT ![index] = TRUE]
  /\ hit'

Quiet(edge) ==
  /\ ~(state = "MEM_READ" /\ ~seen(edge))
  /\ UNCHANGED arrayVars
  /\ \/ pc' = pc /\ hit' = hit
     \/ pc' # pc /\ hit /\ state = "IDLE"

LEMMA PeriodCases ==
  ASSUME TypeOK, StallInv, NEW edge, NEW order, NEW stall \in BOOLEAN,
         NEW target \in PCs, Step(edge, order, stall, target)
  PROVE  /\ Filled(edge) \/ Quiet(edge)
         /\ state' = next_state(seen(edge))
<1>1. PICK at \in {pc, pc'} : PosedgeArrays(seen(edge), imem_readdata', at)
  BY DEF Step, Period, seen
<1>2. state' = next_state(seen(edge)) /\ (pc' # pc => ~stall)
  BY DEF Step, Period, PosedgeState, PosedgePC, seen
<1>3. pc' # pc => hit /\ state = "IDLE"
  BY <1>2 DEF Step, StallInv, TypeOK, CacheTypeOK
<1>4. CASE Fill(seen(edge))
  <2>1. pc' = pc /\ at = pc /\ state = "MEM_READ" /\ ~seen(edge)
    BY <1>1, <1>3, <1>4 DEF Fill
  <2>2. /\ data_array' = [data_array EXCEPT ![index] = imem_readdata']
        /\ tag_array' = [tag_array EXCEPT ![index] = tag]
        /\ valid_array' = [valid_array EXCEPT ![index] = TRUE]
    BY <1>1, <1>4, <2>1 DEF PosedgeArrays, index, tag
  <2>3. index \in Indices /\ index' = index /\ tag' = tag
    BY <2>1, SignalTypes DEF TypeOK, index, tag
  <2>4. valid_array'[index] = TRUE /\ tag_array'[index] = tag
    BY <2>2, <2>3 DEF TypeOK, CacheTypeOK
  <2>5. hit'
    BY <2>3, <2>4 DEF hit, valid, stored_tag
  <2> QED BY <1>2, <2>1, <2>2, <2>5 DEF Filled
<1>5. CASE ~Fill(seen(edge))
  <2>1. UNCHANGED arrayVars
    BY <1>1, <1>5 DEF PosedgeArrays
  <2>2. pc' = pc => hit' = hit
    BY <2>1 DEF arrayVars, hit, valid, tag, stored_tag, index
  <2> QED BY <1>2, <1>3, <1>5, <2>1, <2>2 DEF Quiet, Fill
<1> QED BY <1>4, <1>5

LEMMA LookupRises ==
  (\E n \in 1 .. 3 : ~lookupStages[n] /\ lookupStages[n + 1]) <=>
     \/ ~lookupStages[1] /\ lookupStages[2]
     \/ ~lookupStages[2] /\ lookupStages[3]
     \/ ~lookupStages[3] /\ lookupStages[4]
<1>1. \A n \in 1 .. 3 : n = 1 \/ n = 2 \/ n = 3
  OBVIOUS
<1>2. 1 + 1 = 2 /\ 2 + 1 = 3 /\ 3 + 1 = 4 /\ {1, 2, 3} \subseteq 1 .. 3
  OBVIOUS
<1> QED BY <1>1, <1>2

LEMMA StallStep ==
  ASSUME "process_first" \notin LookupOrders, TypeOK, StallInv, [Next]_vars
  PROVE  StallInv'
<1>1. CASE UNCHANGED vars
  BY <1>1 DEF vars, icacheVars, arrayVars, StallInv, hit, valid, tag, stored_tag, index
<1>2. CASE Next
  <2>1. PICK edge \in EdgeOrders, order \in LookupOrders, stall \in BOOLEAN,
             target \in PCs : Step(edge, order, stall, target)
    BY <1>2, NextIsStep
  <2>2. /\ Filled(edge) \/ Quiet(edge)
        /\ state' = next_state(seen(edge))
    BY <2>1, PeriodCases
  <2>3. /\ Lookup(order) /\ order = "lookup_first"
        /\ hit \in BOOLEAN /\ hit' \in BOOLEAN /\ busywait \in BOOLEAN
    BY <2>1, OrderAssumption DEF Step, Period, hit, TypeOK, CacheTypeOK
  <2> DEFINE newTagOldLine == valid /\ tag' = stored_tag
             newLineOldTag == valid' /\ tag' = stored_tag
  <2>4. /\ lookupStages[1] = hit /\ lookupStages[2] = newTagOldLine
        /\ lookupStages[3] = newLineOldTag /\ lookupStages[4] = hit'
    BY DEF lookupStages
  <2>5. busywait' = (/\ busywait \/ pc' # pc
                     /\ ~(\/ ~hit /\ newTagOldLine
                          \/ ~newTagOldLine /\ newLineOldTag
                          \/ ~newLineOldTag /\ hit')
                     /\ ~(pc' # pc /\ hit'))
    <3> HIDE DEF newTagOldLine, newLineOldTag
    <3>1. wakeHit(order) = hit'
      BY <2>3 DEF wakeHit
    <3> QED BY <2>3, <2>4, <3>1, LookupRises DEF Lookup
  <2>6. busywait' <=> ~hit'
    <3>1. CASE Filled(edge)
      <4>1. ~hit /\ hit' /\ pc' = pc
        BY <3>1 DEF Filled, StallInv
      <4> QED BY <2>5, <4>1
    <3>2. CASE Quiet(edge) /\ pc' = pc
      <4>1. /\ hit' = hit /\ tag' = tag /\ valid' = valid
        BY <3>2 DEF Quiet, arrayVars, tag, valid, index
      <4>2. newTagOldLine = hit /\ newLineOldTag = hit
        BY <4>1 DEF hit
      <4> HIDE DEF newTagOldLine, newLineOldTag
      <4> QED BY <2>5, <3>2, <4>1, <4>2 DEF StallInv
    <3>3. CASE Quiet(edge) /\ pc' # pc
      <4>1. hit /\ valid
        BY <3>3 DEF Quiet, hit
      <4>2. newLineOldTag => newTagOldLine
        BY <4>1
      <4> HIDE DEF newTagOldLine, newLineOldTag
      <4> QED BY <2>3, <2>5, <3>3, <4>1, <4>2
    <3> QED BY <2>2, <3>1, <3>2, <3>3
  <2>7. state' = "MEM_READ" => ~hit'
    BY <2>2 DEF Filled, Quiet, next_state, StallInv, TypeOK, CacheTypeOK
  <2> QED BY <2>6, <2>7 DEF StallInv
<1> QED BY <1>1, <1>2

LEMMA StallInitial == Init => StallInv
BY WordAssumption DEF Init, CacheInit, StallInv, hit, valid, index, PCs

-----------------------------------------------------------------------------
(* The FSM and the memory stay in step *)

LEMMA BusStep ==
  ASSUME TypeOK, StallInv, StallInv', BusInv,
         NEW edge, NEW order, NEW stall \in BOOLEAN, NEW target \in PCs,
         Step(edge, order, stall, target)
  PROVE  BusInv'
<1>1. /\ Filled(edge) \/ Quiet(edge)
      /\ state' = next_state(seen(edge))
  BY PeriodCases
<1>2. /\ MemoryTypeOK /\ mem_address \in BlockAddresses
      /\ MemoryPosedge(mem_address)
      /\ AccessDetect(outputView' # outputView, mem_read', AccessEnds)
      /\ state \in {"IDLE", "MEM_READ"} /\ hit \in BOOLEAN
  BY SignalTypes DEF Step, Period, TypeOK, CacheTypeOK
<1>3. imem_busywait' <=> readaccess'
  BY <1>2 DEF AccessDetect, BusInv
<1>4. outputView' = outputView => state' = state /\ hit' = hit
  BY DEF outputView
<1>5. mem_read' <=> ~hit'
  <2>1. state' \in {"IDLE", "MEM_READ"}
    BY <1>1, <1>2 DEF next_state
  <2> QED BY <2>1 DEF mem_read, StallInv
<1>6. AccessEnds => process.op = "read"
  BY DEF AccessEnds, ByteEnds
<1>7. CASE state = "IDLE" /\ hit
  <2>1. state' = "IDLE" /\ process.op = "wait" /\ ~readaccess
    BY <1>1, <1>7 DEF next_state, BusInv
  <2>2. process' = process
    BY <1>2, <2>1, ProcessStep
  <2>3. readaccess' <=> ~hit'
    BY <1>2, <1>4, <1>5, <1>7, <2>1 DEF AccessDetect, MemoryTypeOK
  <2> QED BY <1>3, <2>1, <2>2, <2>3 DEF BusInv
<1>8. CASE state = "IDLE" /\ ~hit
  <2>1. state' = "MEM_READ"
    BY <1>1, <1>8 DEF next_state
  <2>2. readaccess'
    BY <1>2, <1>4, <1>5, <1>8, <2>1 DEF AccessDetect, StallInv
  <2> QED BY <1>3, <2>1, <2>2 DEF BusInv
<1>9. CASE state = "MEM_READ" /\ seen(edge)
  <2>1. state' = "MEM_READ" /\ ~hit' /\ readaccess
    BY <1>1, <1>9 DEF next_state, StallInv, seen, BusInv
  <2>2. process'.op = "read" => ~AccessEnds
    BY <1>2, ProcessStep DEF Waiting
  <2>3. process'.op = "read" => readaccess'
    BY <1>2, <1>5, <2>1, <2>2 DEF AccessDetect
  <2> QED BY <1>3, <2>1, <2>3 DEF BusInv
<1>10. CASE state = "MEM_READ" /\ ~seen(edge)
  <2>1. state' = "IDLE" /\ hit'
    BY <1>1, <1>10 DEF next_state, Filled, Quiet
  <2>2. ~readaccess'
    BY <1>2, <1>4, <1>5, <1>10, <2>1 DEF AccessDetect
  <2>3. \/ process.op = "wait" /\ ~readaccess
        \/ AccessEnds
    BY <1>2, <1>10 DEF seen, BusInv, MemoryTypeOK, Processes
  <2>4. process'.op = "wait"
    BY <1>2, <2>3, ProcessStep DEF Waiting
  <2> QED BY <1>3, <2>1, <2>2, <2>4 DEF BusInv
<1> QED BY <1>2, <1>7, <1>8, <1>9, <1>10

LEMMA BusInitial == Init => BusInv
BY WordAssumption DEF Init, CacheInit, BusInv, Waiting, hit, valid, index, PCs

-----------------------------------------------------------------------------
(* The block that is stored is the one that was asked for *)

\* What a fetch has brought in after an edge, of the block it was started for.
LEMMA ReadProgress ==
  ASSUME TypeOK, BusInv, FetchInv, MemoryPosedge(mem_address)
  PROVE  /\ process'.op = "read" =>
              /\ process'.byte = memory_array[mem_address][process'.beat]
              /\ \A k \in Offsets : k < process'.beat
                   => imem_readdata'[k] = memory_array[mem_address][k]
         /\ AccessEnds => imem_readdata' = memory_array[mem_address]
<1>1. /\ MemoryTypeOK /\ mem_address \in BlockAddresses
      /\ process.op \in {"wait", "read"} /\ process.beat \in Offsets
      /\ imem_readdata \in [Offsets -> Bytes]
  BY SignalTypes DEF TypeOK, MemoryTypeOK, Processes, Blocks
<1>2. ASSUME ByteEnds
      PROVE  \A k \in Offsets : k < process.beat + 1
                => imem_readdata'[k] = memory_array[mem_address][k]
  <2>1. process.op = "read"
    BY <1>2 DEF ByteEnds
  <2>2. process.byte = memory_array[mem_address][process.beat]
    BY <2>1 DEF FetchInv
  <2>3. imem_readdata' = [imem_readdata EXCEPT ![process.beat] = process.byte]
    BY <1>1, <1>2, ProcessStep
  <2>4. \A k \in Offsets : k < process.beat + 1 => k < process.beat \/ k = process.beat
    BY <1>1 DEF Offsets
  <2> QED BY <1>1, <2>1, <2>2, <2>3, <2>4 DEF FetchInv
<1>3. ASSUME process'.op = "read"
      PROVE  /\ process'.byte = memory_array[mem_address][process'.beat]
             /\ \A k \in Offsets : k < process'.beat
                  => imem_readdata'[k] = memory_array[mem_address][k]
  <2>1. CASE process.op = "wait"
    <3>1. process'.beat = 0 /\ process'.byte = memory_array[mem_address][0]
      BY <1>1, <1>3, <2>1, ProcessStep
    <3> QED BY <3>1 DEF Offsets
  <2>2. CASE process.op = "read" /\ ~ByteEnds
    <3>1. /\ process'.beat = process.beat /\ process'.byte = process.byte
          /\ imem_readdata' = imem_readdata
      BY <1>1, <2>2, ProcessStep DEF MemoryTypeOK, Processes
    <3> QED BY <2>2, <3>1 DEF FetchInv
  <2>3. CASE ByteEnds /\ ~AccessEnds
    <3>1. /\ process'.beat = process.beat + 1
          /\ process'.byte = memory_array[mem_address][process.beat + 1]
      BY <1>1, <2>3, ProcessStep
    <3> QED BY <1>2, <2>3, <3>1
  <2>4. CASE AccessEnds
    BY <1>1, <1>3, <2>4, ProcessStep DEF Waiting
  <2> QED BY <1>1, <2>1, <2>2, <2>3, <2>4
<1>4. ASSUME AccessEnds PROVE imem_readdata' = memory_array[mem_address]
  <2>1. \A k \in Offsets : k < process.beat + 1
    BY <1>4, SpaceAssumption DEF AccessEnds, Offsets
  <2>2. \A k \in Offsets : imem_readdata'[k] = memory_array[mem_address][k]
    BY <1>2, <1>4, <2>1 DEF AccessEnds
  <2>3. imem_readdata' \in Blocks /\ memory_array[mem_address] \in Blocks
    BY <1>1, MemoryPosedgeTypes, InstructionMemoryAssumption
  <2> QED BY <2>2, <2>3 DEF Blocks
<1> QED BY <1>3, <1>4

LEMMA FetchStep ==
  ASSUME TypeOK, StallInv, StallInv', BusInv, FetchInv,
         NEW edge, NEW order, NEW stall \in BOOLEAN, NEW target \in PCs,
         Step(edge, order, stall, target)
  PROVE  FetchInv'
<1>1. /\ Filled(edge) \/ Quiet(edge)
      /\ state' = next_state(seen(edge))
  BY PeriodCases
<1>2. /\ MemoryTypeOK /\ mem_address \in BlockAddresses
      /\ MemoryPosedge(mem_address)
      /\ AccessDetect(outputView' # outputView, mem_read', AccessEnds)
  BY SignalTypes DEF Step, Period, TypeOK
<1>3. BusInv'
  BY BusStep
<1>4. CASE state' = "IDLE"
  BY <1>3, <1>4 DEF BusInv, FetchInv
<1>5. CASE state' = "MEM_READ"
  <2>1. ~hit'
    BY <1>5 DEF StallInv
  <2>2. Quiet(edge) /\ pc' = pc
    BY <1>1, <1>5, <2>1 DEF Filled, Quiet, next_state
  <2>3. mem_address' = mem_address
    BY <2>2 DEF mem_address, tag, index
  <2>4. ~imem_busywait' => imem_readdata' = memory_array[mem_address]
    <3>1. CASE outputView' # outputView
      BY <1>2, <1>5, <3>1 DEF AccessDetect, mem_read
    <3>2. CASE outputView' = outputView
      <4>1. state = "MEM_READ" /\ seen(edge)
        BY <1>1, <1>5, <3>2 DEF outputView, next_state
      <4>2. imem_busywait' = (imem_busywait /\ ~AccessEnds)
        BY <1>2, <3>2 DEF AccessDetect
      <4> QED BY <1>2, <4>1, <4>2, ReadProgress DEF seen
    <3> QED BY <3>1, <3>2
  <2> QED BY <1>2, <2>3, <2>4, ReadProgress DEF FetchInv
<1> QED BY <1>1, <1>4, <1>5 DEF next_state, TypeOK, CacheTypeOK

LEMMA LinesStep ==
  ASSUME TypeOK, StallInv, BusInv, FetchInv, LinesMatchMemory,
         NEW edge, NEW order, NEW stall \in BOOLEAN, NEW target \in PCs,
         Step(edge, order, stall, target)
  PROVE  LinesMatchMemory'
<1>1. Filled(edge) \/ Quiet(edge)
  BY PeriodCases
<1>2. CASE Filled(edge)
  <2>1. /\ MemoryTypeOK /\ MemoryPosedge(mem_address)
        /\ mem_address \in BlockAddresses /\ index \in Indices
    BY SignalTypes DEF Step, Period, TypeOK
  <2>2. imem_readdata' = memory_array[mem_address]
    <3>1. CASE AccessEnds
      BY <2>1, <3>1, ReadProgress
    <3>2. CASE ~AccessEnds
      <4>1. ~imem_busywait /\ process.op # "read"
        BY <1>2, <3>2 DEF Filled, seen, BusInv
      <4>2. imem_readdata' = imem_readdata
        BY <2>1, <4>1, ProcessStep DEF ByteEnds
      <4> QED BY <1>2, <4>1, <4>2 DEF Filled, FetchInv
    <3> QED BY <3>1, <3>2
  <2>3. ASSUME NEW i \in Indices, valid_array'[i]
        PROVE  data_array'[i] = memory_array[<<tag_array'[i], i>>]
    BY <1>2, <2>1, <2>2, <2>3
       DEF Filled, LinesMatchMemory, mem_address, TypeOK, CacheTypeOK
  <2> QED BY <2>3 DEF LinesMatchMemory
<1>3. CASE Quiet(edge)
  BY <1>3 DEF Quiet, arrayVars, LinesMatchMemory
<1> QED BY <1>1, <1>2, <1>3

LEMMA FetchInitial == Init => FetchInv /\ LinesMatchMemory
BY DEF Init, CacheInit, FetchInv, LinesMatchMemory, Waiting

LEMMA InvariantStep ==
  ASSUME "process_first" \notin LookupOrders, IInv, [Next]_vars
  PROVE  IInv'
<1>1. TypeOK' /\ StallInv'
  BY TypeStep, StallStep DEF IInv
<1>2. CASE UNCHANGED vars
  BY <1>1, <1>2 DEF vars, icacheVars, arrayVars, imemVars, IInv, BusInv, FetchInv,
     LinesMatchMemory, mem_address, tag, index, hit, valid, stored_tag
<1>3. CASE Next
  <2>1. PICK edge \in EdgeOrders, order \in LookupOrders, stall \in BOOLEAN,
             target \in PCs : Step(edge, order, stall, target)
    BY <1>3, NextIsStep DEF IInv
  <2> QED BY <1>1, <2>1, BusStep, FetchStep, LinesStep DEF IInv
<1> QED BY <1>2, <1>3

\* The inductive invariant of the instruction side, if the comparator of icache.v:41
\* settles before the process of icache.v:62-70 reads `hit'.
THEOREM Invariance ==
  ASSUME "process_first" \notin LookupOrders
  PROVE  Spec => []IInv
<1>1. Init => IInv
  BY TypeInitial, StallInitial, BusInitial, FetchInitial DEF IInv
<1>2. IInv /\ [Next]_vars => IInv'
  BY InvariantStep
<1> QED BY <1>1, <1>2, PTL DEF Spec

\* Every valid line holds the block that its tag names: the fetched block is stored
\* where, and as what, it was asked for (icache.v:133-145).
THEOREM LinesCorrect ==
  ASSUME "process_first" \notin LookupOrders
  PROVE  Spec => []LinesMatchMemory
<1>1. IInv => LinesMatchMemory
  BY DEF IInv
<1> QED BY <1>1, Invariance, PTL

\* The CPU never executes a word other than the one the program has at the PC
\* (icache.v:46-77 with imem_for_icache.v:36-65).
THEOREM FetchesCorrect ==
  ASSUME "process_first" \notin LookupOrders
  PROVE  Spec => []FetchCorrect
<1>1. IInv => FetchCorrect
  <2> SUFFICES ASSUME IInv, ~busywait
               PROVE  instruction = wordOf(memory_array[mem_address], pc.offset)
    BY DEF FetchCorrect
  <2>1. hit /\ index \in Indices
    BY SignalTypes DEF IInv, StallInv, TypeOK
  <2>2. data_array[index] = memory_array[mem_address]
    BY <2>1 DEF IInv, LinesMatchMemory, mem_address, hit, valid, stored_tag
  <2> QED BY <2>2 DEF instruction
<1> QED BY <1>1, Invariance, PTL

\* The block address stands while memory reads the block (imem_for_icache.v:42-65),
\* because the PC waits for the miss to be served.
THEOREM BlockHeld ==
  ASSUME "process_first" \notin LookupOrders
  PROVE  Spec => BlockHeldDuringFetch
<1>1. ASSUME IInv, [Next]_vars, process.op = "read"
      PROVE  mem_address' = mem_address
  <2>1. ~hit
    BY <1>1 DEF IInv, BusInv, StallInv, TypeOK, CacheTypeOK
  <2>2. CASE UNCHANGED vars
    BY <2>2 DEF vars, icacheVars, mem_address, tag, index
  <2>3. CASE Next
    <3>1. PICK edge \in EdgeOrders, order \in LookupOrders, stall \in BOOLEAN,
               target \in PCs : Step(edge, order, stall, target)
      BY <1>1, <2>3, NextIsStep DEF IInv
    <3>2. Filled(edge) \/ Quiet(edge)
      BY <1>1, <3>1, PeriodCases DEF IInv
    <3>3. pc' = pc
      BY <2>1, <3>2 DEF Filled, Quiet
    <3> QED BY <3>3 DEF mem_address, tag, index
  <2> QED BY <1>1, <2>2, <2>3
<1>2. IInv /\ [Next]_vars
        => [process.op = "read" /\ ~AccessEnds => mem_address' = mem_address]_vars
  BY <1>1
<1> QED BY <1>2, Invariance, PTL DEF BlockHeldDuringFetch, Spec

\* The pulse on mem_read after a fetch starts no other one: memory is set to work for a miss
\* only (icache.v:115-130, imem_for_icache.v:36-44).
THEOREM FetchesUseful ==
  ASSUME "process_first" \notin LookupOrders
  PROVE  Spec => NoUselessFetch
<1>1. ASSUME IInv, [Next]_vars, process.op = "wait", process'.op = "read"
      PROVE  ~hit
  <2>1. MemoryPosedge(mem_address)
    BY <1>1 DEF Next, Stall, Advance, Period, vars, imemVars
  <2>2. readaccess
    BY <1>1, <2>1 DEF MemoryPosedge, ByteEnds, AccessEnds
  <2>3. state \in {"IDLE", "MEM_READ"}
    BY <1>1 DEF IInv, TypeOK, CacheTypeOK
  <2> QED BY <1>1, <2>2, <2>3 DEF IInv, StallInv, BusInv
<1>2. IInv /\ [Next]_vars
        => (process.op = "wait" /\ process'.op = "read" => ~hit)
  BY <1>1
<1> QED BY <1>2, Invariance, PTL DEF NoUselessFetch, Spec
=============================================================================
