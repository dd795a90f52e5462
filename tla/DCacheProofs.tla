--------------------------- MODULE DCacheProofs ---------------------------
(***************************************************************************)
(* Theorems about DCacheSystem, for any number of tags, lines, bytes in a  *)
(* block and clock periods in a #40, and for either order of simultaneous  *)
(* events.  At the end: the data cache with its memory implements          *)
(* FlatMemory, for a program that presents its addresses early.            *)
(***************************************************************************)
EXTENDS DCacheInvariant, DataMemoryProofs

-----------------------------------------------------------------------------
(* Types *)

\* The signals computed from the arrays have the widths that the code declares.
LEMMA SignalTypes ==
  ASSUME CacheTypeOK
  PROVE  /\ tag \in Tags /\ index \in Indices /\ offset \in Offsets
         /\ valid \in BOOLEAN /\ dirty \in BOOLEAN
         /\ stored_tag \in Tags /\ stored_block \in Blocks
         /\ requestBlock \in BlockAddresses /\ lineBlock \in BlockAddresses
         /\ mem_address \in BlockAddresses /\ mem_writedata \in Blocks
         /\ readdata \in Bytes
         /\ hit \in BOOLEAN /\ miss \in BOOLEAN /\ access \in BOOLEAN
<1>1. tag \in Tags /\ index \in Indices /\ offset \in Offsets
  BY DEF CacheTypeOK, Addresses, tag, index, offset
<1>2. /\ valid \in BOOLEAN /\ dirty \in BOOLEAN
      /\ stored_tag \in Tags /\ stored_block \in Blocks
  BY <1>1 DEF CacheTypeOK, valid, dirty, stored_tag, stored_block
<1>3. readdata \in Bytes
  BY <1>1, <1>2 DEF readdata, Blocks
<1>4. requestBlock \in BlockAddresses /\ lineBlock \in BlockAddresses
  BY <1>1, <1>2 DEF requestBlock, lineBlock, BlockAddresses
<1>5. mem_address \in BlockAddresses /\ mem_writedata \in Blocks
  BY <1>2, <1>4 DEF mem_address, mem_writedata, requestBlock, lineBlock
<1>6. hit \in BOOLEAN /\ miss \in BOOLEAN /\ access \in BOOLEAN
  BY DEF hit, miss, access
<1> QED BY <1>1, <1>2, <1>3, <1>4, <1>5, <1>6

\* The edge-triggered processes of dcache write lines of the declared widths.
LEMMA CacheEdgeTypes ==
  ASSUME CacheTypeOK, NEW busy \in BOOLEAN, NEW block \in Blocks,
         PosedgeArrays(busy, block), PosedgeState(busy), UNCHANGED inputVars
  PROVE  CacheTypeOK'
<1>1. /\ tag \in Tags /\ index \in Indices /\ offset \in Offsets
      /\ stored_block \in Blocks
  BY SignalTypes
<1>2. ASSUME NEW b \in Blocks, NEW isDirty \in BOOLEAN, SetLine(b, isDirty)
      PROVE  /\ valid_array' \in [Indices -> BOOLEAN]
             /\ dirty_array' \in [Indices -> BOOLEAN]
             /\ tag_array' \in [Indices -> Tags]
             /\ data_array' \in [Indices -> Blocks]
  BY <1>1, <1>2 DEF CacheTypeOK, SetLine
<1>3. [IF Fill(busy) THEN block ELSE stored_block EXCEPT ![offset] = writedata] \in Blocks
  BY <1>1 DEF CacheTypeOK, Blocks
<1>4. /\ valid_array' \in [Indices -> BOOLEAN]
      /\ dirty_array' \in [Indices -> BOOLEAN]
      /\ tag_array' \in [Indices -> Tags]
      /\ data_array' \in [Indices -> Blocks]
  <2>1. CASE UNCHANGED arrayVars
    BY <2>1 DEF CacheTypeOK, arrayVars
  <2>2. CASE SetLine(block, FALSE)
    BY <1>2, <2>2
  <2>3. CASE SetLine([IF Fill(busy) THEN block ELSE stored_block
                        EXCEPT ![offset] = writedata], TRUE)
    BY <1>2, <1>3, <2>3
  <2> QED BY <2>1, <2>2, <2>3 DEF PosedgeArrays
<1>5. state' \in States /\ busywait' \in BOOLEAN
  BY DEF PosedgeState, next_state, CacheTypeOK, States
<1> QED BY <1>4, <1>5 DEF CacheTypeOK, inputVars

LEMMA EdgeTypes ==
  ASSUME TypeOK, NEW order, Edge(order)
  PROVE  CacheTypeOK' /\ MemoryTypeOK'
<1>1. /\ mem_address \in BlockAddresses /\ mem_writedata \in Blocks
      /\ MemoryTypeOK /\ CacheTypeOK
  BY SignalTypes DEF TypeOK
<1>2. /\ memory_array' \in [BlockAddresses -> Blocks]
      /\ mem_readdata' \in Blocks
      /\ process' \in Processes
  BY <1>1, MemoryPosedgeTypes DEF Edge
<1>3. CacheTypeOK'
  <2> DEFINE busy == mem_busywait /\ ~(order = "memory_first" /\ AccessEnds)
  <2>1. busy \in BOOLEAN
    OBVIOUS
  <2>2. PosedgeArrays(busy, mem_readdata') /\ PosedgeState(busy) /\ UNCHANGED inputVars
    BY DEF Edge
  <2> HIDE DEF busy
  <2> QED BY <1>1, <1>2, <2>1, <2>2, CacheEdgeTypes
<1>4. mem_busywait' \in BOOLEAN /\ mem_readaccess' \in BOOLEAN /\ mem_writeaccess' \in BOOLEAN
  BY <1>1 DEF Edge, AccessDetect, MemoryTypeOK
<1> QED BY <1>2, <1>3, <1>4 DEF MemoryTypeOK

LEMMA TypeInitial == Init => TypeOK
<1>1. ZeroBlock \in Blocks
  BY SpaceAssumption DEF ZeroBlock, Blocks
<1>2. Waiting \in Processes
  BY SpaceAssumption, BeatAssumption DEF Waiting, Processes, Offsets
<1>3. CacheInit => CacheTypeOK
  BY <1>1, SpaceAssumption DEF CacheInit, CacheTypeOK, States
<1>4. MemoryInit => MemoryTypeOK
  BY <1>1, <1>2 DEF MemoryInit, MemoryTypeOK
<1> QED BY <1>3, <1>4, SpaceAssumption DEF Init, TypeOK

LEMMA TypeStep ==
  ASSUME TypeOK, [Next]_vars
  PROVE  TypeOK'
<1>1. ASSUME AccessDetect(outputView' # outputView, mem_read', mem_write', FALSE),
             UNCHANGED <<memory_array, mem_readdata, process, loaded>>
      PROVE  MemoryTypeOK' /\ loaded' \in Bytes
  BY <1>1 DEF AccessDetect, TypeOK, MemoryTypeOK
<1>2. CASE Stall
  BY <1>2, EdgeTypes DEF Stall, TypeOK
<1>3. CASE Complete
  <2>1. loaded' \in Bytes
    BY <1>3, SignalTypes DEF Complete, TypeOK
  <2> QED BY <1>3, <2>1, EdgeTypes DEF Complete, TypeOK
<1>4. CASE Hold
  BY <1>4, EdgeTypes DEF Hold, TypeOK
<1>5. ASSUME NEW r \in BOOLEAN, NEW w \in BOOLEAN, Decode(r, w) PROVE TypeOK'
  <2>1. CacheTypeOK'
    BY <1>5 DEF Decode, StrobeEvent, arrayVars, TypeOK, CacheTypeOK
  <2> QED BY <1>1, <1>5, <2>1 DEF Decode, Outputs, TypeOK
<1>6. CASE DecodeSameWord
  <2>1. CacheTypeOK'
    BY <1>6 DEF DecodeSameWord, cacheVars, inputVars, arrayVars, TypeOK, CacheTypeOK
  <2> QED BY <1>1, <1>6, <2>1 DEF DecodeSameWord, Outputs, TypeOK
<1>7. ASSUME NEW a \in Addresses, NEW d \in Bytes, Operands(a, d) PROVE TypeOK'
  <2>1. CacheTypeOK'
    BY <1>7 DEF Operands, AddressEvent, arrayVars, TypeOK, CacheTypeOK
  <2> QED BY <1>1, <1>7, <2>1 DEF Operands, Outputs, TypeOK
<1>8. CASE UNCHANGED vars
  BY <1>8 DEF vars, cacheVars, inputVars, arrayVars, memoryVars, TypeOK, CacheTypeOK,
              MemoryTypeOK
<1> QED BY <1>2, <1>3, <1>4, <1>5, <1>6, <1>7, <1>8 DEF Next

\* Every register of the data side keeps the width that the code declares for it.
THEOREM TypeCorrect == Spec => []TypeOK
BY TypeInitial, TypeStep, PTL DEF Spec

-----------------------------------------------------------------------------
(* What a clock edge does to the arrays *)

\* A line that was just written answers the request, and no other line moved.
LEMMA SetLineEffect ==
  ASSUME CacheTypeOK, UNCHANGED inputVars, NEW b \in Blocks, NEW d \in BOOLEAN,
         SetLine(b, d)
  PROVE  /\ hit' /\ valid' /\ stored_tag' = tag /\ stored_block' = b /\ dirty' = d
         /\ tag' = tag /\ index' = index /\ access' = access
         /\ \A i \in Indices \ {index} :
              /\ valid_array'[i] = valid_array[i] /\ dirty_array'[i] = dirty_array[i]
              /\ tag_array'[i] = tag_array[i] /\ data_array'[i] = data_array[i]
<1>1. index \in Indices
  BY SignalTypes
<1>2. tag' = tag /\ index' = index /\ access' = access
  BY DEF inputVars, tag, index, access, readaccess, writeaccess
<1>3. /\ valid_array'[index] = TRUE /\ tag_array'[index] = tag
      /\ data_array'[index] = b /\ dirty_array'[index] = d
  BY <1>1 DEF SetLine, CacheTypeOK
<1>4. \A i \in Indices \ {index} :
        /\ valid_array'[i] = valid_array[i] /\ dirty_array'[i] = dirty_array[i]
        /\ tag_array'[i] = tag_array[i] /\ data_array'[i] = data_array[i]
  BY <1>1 DEF SetLine, CacheTypeOK
<1>5. /\ valid' /\ stored_tag' = tag /\ stored_block' = b /\ dirty' = d
  BY <1>2, <1>3 DEF valid, stored_tag, stored_block, dirty
<1>6. hit'
  BY <1>2, <1>5 DEF hit
<1> QED BY <1>2, <1>4, <1>5, <1>6

\* Nothing the lookup computes moves if neither the request nor the arrays do.
LEMMA QuietLookup ==
  ASSUME UNCHANGED inputVars, UNCHANGED arrayVars
  PROVE  /\ hit' = hit /\ access' = access /\ miss' = miss /\ evict' = evict
         /\ readaccess' = readaccess /\ writeaccess' = writeaccess
         /\ tag' = tag /\ index' = index /\ valid' = valid /\ dirty' = dirty
         /\ stored_tag' = stored_tag /\ stored_block' = stored_block
BY DEF inputVars, arrayVars, hit, access, miss, evict, readaccess, writeaccess, tag,
       index, valid, dirty, stored_tag, stored_block

\* The mem_busywait that the FSM sees on an edge.
seen(order) == mem_busywait /\ ~(order = "memory_first" /\ AccessEnds)

\* The block that a store to a cached block leaves in its line.
stored == [stored_block EXCEPT ![offset] = writedata]

\* An edge does one of three things, if busywait is exact.
Quiet(order) ==
  /\ UNCHANGED arrayVars
  /\ ~WriteHit
  /\ state = "MEM_READ" => seen(order)
  /\ state' = next_state(seen(order))

Filled(order) ==
  /\ state = "MEM_READ" /\ ~seen(order) /\ miss
  /\ SetLine(mem_readdata', FALSE)
  /\ state' = "IDLE"

Written ==
  /\ hit /\ writeaccess /\ ~miss
  /\ SetLine(stored, TRUE)
  /\ state = "IDLE" /\ state' = "IDLE"

LEMMA EdgeCases ==
  ASSUME TypeOK, StallInv, NEW order, Edge(order)
  PROVE  Quiet(order) \/ Filled(order) \/ Written
<1>1. PosedgeArrays(seen(order), mem_readdata') /\ state' = next_state(seen(order))
  BY DEF Edge, seen, PosedgeState
<1>2. state \in States
  BY DEF TypeOK, CacheTypeOK
<1>3. CASE ~Fill(seen(order)) /\ ~WriteHit /\ UNCHANGED arrayVars
  BY <1>1, <1>3 DEF Quiet, Fill
<1>4. CASE Fill(seen(order)) /\ SetLine(mem_readdata', FALSE)
  BY <1>1, <1>4 DEF Filled, Fill, StallInv, next_state
<1>5. CASE WriteHit /\ SetLine([IF Fill(seen(order)) THEN mem_readdata' ELSE stored_block
                                  EXCEPT ![offset] = writedata], TRUE)
  <2>1. ~miss /\ hit /\ writeaccess
    BY <1>5 DEF WriteHit, miss
  <2>2. state = "IDLE" /\ ~Fill(seen(order))
    BY <2>1 DEF StallInv, Fill
  <2>3. state' = "IDLE"
    BY <1>1, <2>1, <2>2 DEF next_state
  <2> QED BY <1>5, <2>1, <2>2, <2>3 DEF Written, stored
<1> QED BY <1>1, <1>3, <1>4, <1>5 DEF PosedgeArrays

-----------------------------------------------------------------------------
(* busywait is exact *)

LEMMA EdgeStall ==
  ASSUME TypeOK, StallInv, NEW order, Edge(order)
  PROVE  /\ ~(read /\ write)'
         /\ (busywait <=> miss)'
         /\ ~miss => ~miss' /\ state' = "IDLE"
         /\ state' # "IDLE" => miss'
         /\ state' = "MEM_WRITE" => evict'
<1>1. /\ UNCHANGED inputVars /\ CacheTypeOK /\ MemoryTypeOK /\ state \in States
      /\ busywait' = (busywait /\ ~(access /\ ~hit /\ hit'))
      /\ mem_readdata' \in Blocks /\ stored \in Blocks
  <2>1. mem_readdata' \in Blocks
    BY EdgeTypes DEF MemoryTypeOK
  <2>2. stored \in Blocks
    BY SignalTypes DEF TypeOK, CacheTypeOK, stored, Blocks
  <2> QED BY <2>1, <2>2 DEF Edge, PosedgeState, TypeOK, CacheTypeOK
<1>2. ~(read /\ write)'
  BY <1>1 DEF StallInv, inputVars
<1>3. CASE Quiet(order)
  <2>1. /\ hit' = hit /\ access' = access /\ miss' = miss /\ evict' = evict
    BY <1>1, <1>3, QuietLookup DEF Quiet
  <2>2. busywait' = busywait
    BY <1>1, <2>1 DEF CacheTypeOK
  <2>3. /\ state' # "IDLE" => miss
        /\ state' = "MEM_WRITE" => evict
        /\ ~miss => state' = "IDLE"
    BY <1>1, <1>3 DEF Quiet, next_state, StallInv, States
  <2> QED BY <1>2, <2>1, <2>2, <2>3 DEF StallInv
<1>4. CASE Filled(order)
  <2>1. hit' /\ access' = access
    BY <1>1, <1>4, SetLineEffect DEF Filled
  <2> QED BY <1>1, <1>2, <1>4, <2>1 DEF Filled, StallInv, miss
<1>5. CASE Written
  <2>1. hit' /\ access' = access
    BY <1>1, <1>5, SetLineEffect DEF Written
  <2> QED BY <1>1, <1>2, <1>5, <2>1 DEF Written, StallInv, miss
<1> QED BY <1>3, <1>4, <1>5, EdgeCases

\* The moves of the CPU between two edges keep busywait exact, because the address
\* of an access does not move after its strobe.
LEMMA DecodeStall ==
  ASSUME TypeOK, StallInv, AddressEarly,
         NEW r \in BOOLEAN, NEW w \in BOOLEAN, Decode(r, w)
  PROVE  StallInv'
<1>1. /\ ~(r /\ w) /\ (r \/ w => <<r, w>> # <<read, write>>)
      /\ read' = r /\ write' = w /\ phase' = "operands" /\ phase = "decode"
      /\ UNCHANGED <<address, arrayVars, state>>
      /\ busywait' = IF read \/ write \/ r \/ w
                     THEN (r \/ w) /\ ~strobeHit(r, w) ELSE busywait
  BY DEF Decode, StrobeEvent
<1>2. state = "IDLE" /\ ~miss /\ ~busywait
  BY <1>1 DEF StallInv
<1>3. hit' = hit
  BY <1>1 DEF arrayVars, hit, valid, stored_tag, index, tag
<1>4. (access' <=> r \/ w) /\ (r # w <=> r \/ w)
  BY <1>1 DEF access, readaccess, writeaccess
<1>5. busywait' <=> (r \/ w) /\ ~hit
  BY <1>1, <1>2, <1>4 DEF strobeHit
<1> QED BY <1>1, <1>2, <1>3, <1>4, <1>5 DEF StallInv, miss

LEMMA OperandsStall ==
  ASSUME TypeOK, StallInv, AddressEarly,
         NEW a \in Addresses, NEW d \in Bytes, Operands(a, d)
  PROVE  StallInv'
<1>1. /\ access => a = address
      /\ address' = a /\ phase = "operands" /\ phase' = "edge"
      /\ UNCHANGED <<read, write, arrayVars, state>>
  BY DEF Operands, AddressEvent
<1>2. state = "IDLE" /\ access' = access
  BY <1>1 DEF StallInv, access, readaccess, writeaccess
<1>3. CASE access
  <2>1. hit' = hit
    BY <1>1, <1>3 DEF arrayVars, hit, valid, stored_tag, index, tag
  <2>2. lookupStages(a) = <<hit, hit, hit, hit>>
    BY <1>1, <1>3 DEF lookupStages, hit, valid, stored_tag, tag, index
  <2>3. busywait' = busywait
    <3>1. ~ \E n \in 1 .. 3 : ~lookupStages(a)[n] /\ lookupStages(a)[n + 1]
      BY <2>2
    <3> QED BY <3>1 DEF Operands, AddressEvent, TypeOK, CacheTypeOK
  <2> QED BY <1>1, <1>2, <2>1, <2>3 DEF StallInv, miss
<1>4. CASE ~access
  <2>1. ~busywait /\ ~miss' /\ ~busywait'
    BY <1>1, <1>2, <1>4 DEF StallInv, miss, Operands, AddressEvent
  <2> QED BY <1>1, <1>2, <2>1 DEF StallInv
<1> QED BY <1>3, <1>4

LEMMA StallStep ==
  ASSUME TypeOK, StallInv, AddressEarly, [Next]_vars
  PROVE  StallInv'
<1>1. ASSUME NEW order, Edge(order), phase' = phase PROVE StallInv'
  BY <1>1, EdgeStall DEF StallInv, Edge
<1>2. ASSUME NEW order, Edge(order), Complete PROVE StallInv'
  <2>1. ~miss /\ phase' = "decode"
    BY <1>2 DEF Complete, StallInv
  <2> QED BY <1>2, <2>1, EdgeStall DEF StallInv
<1>3. CASE Stall \/ Hold
  BY <1>1, <1>3 DEF Stall, Hold
<1>4. CASE Complete
  BY <1>2, <1>4 DEF Complete
<1>5. CASE \E r, w \in BOOLEAN : Decode(r, w)
  BY <1>5, DecodeStall
<1>6. CASE \E a \in Addresses, d \in Bytes : Operands(a, d)
  BY <1>6, OperandsStall
<1>7. ASSUME UNCHANGED cacheVars, phase' = phase \/ phase = "decode", phase' # "decode" \/ phase = "decode"
      PROVE  StallInv'
  <2>1. /\ read' = read /\ write' = write /\ busywait' = busywait /\ state' = state
        /\ miss' = miss /\ evict' = evict
    BY <1>7, QuietLookup DEF cacheVars, inputVars
  <2> QED BY <1>7, <2>1 DEF StallInv
<1>8. CASE DecodeSameWord
  BY <1>7, <1>8 DEF DecodeSameWord
<1>9. CASE UNCHANGED vars
  BY <1>7, <1>9 DEF vars
<1> QED BY <1>3, <1>4, <1>5, <1>6, <1>8, <1>9 DEF Next

LEMMA StallInitial == Init => StallInv
BY DEF Init, CacheInit, StallInv, miss, access, readaccess, writeaccess

\* If a program presents its addresses early, no load or store whose block is
\* missing reaches a clock edge without busywait (dcache.v:91-109).
THEOREM MissesStall ==
  ASSUME AddressEarly
  PROVE  Spec => []NoUnstalledMiss
<1>1. Init => TypeOK /\ StallInv
  BY TypeInitial, StallInitial
<1>2. TypeOK /\ StallInv /\ [Next]_vars => (TypeOK /\ StallInv)'
  BY TypeStep, StallStep
<1>3. StallInv => NoUnstalledMiss
  BY DEF StallInv, NoUnstalledMiss
<1> QED BY <1>1, <1>2, <1>3, PTL DEF Spec

-----------------------------------------------------------------------------
(* The FSM and the memory stay in step *)

LEMMA ViewFixesOutputs ==
  ASSUME outputView' = outputView
  PROVE  mem_read' = mem_read /\ mem_write' = mem_write
BY DEF outputView, mem_read, mem_write, miss, access, evict

LEMMA OneStrobe == ~(mem_read /\ mem_write)
BY DEF mem_read, mem_write

\* Where the posedge process of data_memory goes on an edge.
LEMMA ProcessStep ==
  ASSUME MemoryTypeOK, BusInv, state \in States, NEW order, NEW b, NEW d,
         MemoryPosedge(order, b, d)
  PROVE  /\ process.op = "wait" /\ ~mem_busywait => process' = process
         /\ process.op = "wait" /\ mem_busywait
              => /\ process'.op = IF mem_readaccess THEN "read" ELSE "write"
                 /\ process'.beat = 0
                 /\ process'.byte = IF mem_readaccess THEN memory_array[b][0] ELSE d[0]
         /\ process.op # "wait" /\ ~ByteEnds
              => /\ process'.op = process.op
                 /\ process'.beat = process.beat
                 /\ process'.byte = process.byte
         /\ ByteEnds /\ ~AccessEnds
              => /\ process'.op = process.op
                 /\ process'.beat = process.beat + 1
                 /\ process'.byte = IF process.op = "read"
                                    THEN memory_array[b][process.beat + 1]
                                    ELSE d[process.beat + 1]
         /\ AccessEnds => process' = Waiting
<1>1. CASE process.op = "wait" /\ ~mem_busywait
  BY <1>1 DEF MemoryPosedge, BusInv, ByteEnds, AccessEnds
<1>2. CASE process.op = "wait" /\ mem_busywait
  BY <1>2 DEF MemoryPosedge, Sleep, BusInv, ByteEnds, AccessEnds
<1>3. CASE process.op # "wait" /\ ~ByteEnds
  BY <1>3 DEF MemoryPosedge, MemoryTypeOK, Processes, AccessEnds, ByteEnds
<1>4. CASE ByteEnds /\ ~AccessEnds
  BY <1>4 DEF MemoryPosedge, Sleep, AccessEnds, ByteEnds
<1>5. CASE AccessEnds
  <2>1. NextAccess(order) = "wait"
    BY <1>5 DEF NextAccess, BusInv, AccessEnds, ByteEnds, MemoryTypeOK, Processes, States
  <2> QED BY <1>5, <2>1 DEF MemoryPosedge, AccessEnds, ByteEnds
<1> QED BY <1>1, <1>2, <1>3, <1>4, <1>5 DEF AccessEnds, ByteEnds

LEMMA EdgeBus ==
  ASSUME TypeOK, StallInv, BusInv, NEW order, Edge(order)
  PROVE  BusInv'
<1>1. /\ MemoryTypeOK /\ CacheTypeOK /\ state \in States
      /\ UNCHANGED inputVars
      /\ MemoryPosedge(order, mem_address, mem_writedata)
      /\ AccessDetect(outputView' # outputView, mem_read', mem_write', AccessEnds)
  BY DEF Edge, TypeOK, CacheTypeOK
<1>2. ~mem_busywait => process.op = "wait" /\ ~AccessEnds
  BY DEF BusInv, AccessEnds, ByteEnds
<1>3. ~seen(order) => process'.op = "wait"
  BY <1>1, <1>2, ProcessStep DEF seen, Waiting
<1>4. CASE Quiet(order)
  <2>1. /\ miss' = miss /\ evict' = evict
        /\ state' = state => outputView' = outputView
        /\ state' # state => outputView' # outputView
    BY <1>1, <1>4, QuietLookup DEF Quiet, outputView
  <2>2. CASE state = "IDLE" /\ ~miss
    <3>1. state' = "IDLE" /\ ~mem_read /\ ~mem_write
      BY <1>4, <2>2 DEF Quiet, next_state, mem_read, mem_write
    <3>2. ~mem_busywait /\ process.op = "wait" /\ ~mem_readaccess /\ ~mem_writeaccess
      BY <2>2, <3>1 DEF BusInv
    <3>3. process' = process /\ outputView' = outputView
      BY <1>1, <2>1, <2>2, <3>1, <3>2, ProcessStep
    <3>4. ~mem_busywait' /\ ~mem_readaccess' /\ ~mem_writeaccess'
      BY <1>1, <3>2, <3>3 DEF AccessDetect
    <3>5. ~mem_read' /\ ~mem_write'
      BY <3>1, <3>3, ViewFixesOutputs
    <3> QED BY <3>1, <3>2, <3>3, <3>4, <3>5 DEF BusInv
  <2>3. CASE state = "IDLE" /\ miss
    <3>1. state' = (IF evict THEN "MEM_WRITE" ELSE "MEM_READ")
      BY <1>4, <2>3 DEF Quiet, next_state
    <3>2. /\ process.op = "wait" /\ mem_busywait
          /\ mem_readaccess <=> ~evict
      BY <2>3 DEF BusInv, mem_read, mem_write
    <3>3. process'.op = (IF evict THEN "write" ELSE "read")
      BY <1>1, <3>2, ProcessStep
    <3>4. (mem_read' <=> ~evict) /\ (mem_write' <=> evict)
      BY <2>1, <3>1 DEF mem_read, mem_write
    <3>5. /\ mem_busywait'
          /\ mem_readaccess' <=> ~evict
          /\ mem_writeaccess' <=> evict
      BY <1>1, <2>1, <2>3, <3>1, <3>4 DEF AccessDetect
    <3> QED BY <3>1, <3>3, <3>5 DEF BusInv
  <2>4. CASE state = "MEM_READ"
    <3>1. seen(order) /\ state' = "MEM_READ" /\ outputView' = outputView
      BY <1>4, <2>1, <2>4 DEF Quiet, next_state
    <3>2. ~mem_writeaccess /\ mem_readaccess /\ mem_busywait /\ process.op # "write"
      BY <2>4, <3>1 DEF BusInv, seen
    <3>3. process.op \in {"wait", "read"}
      BY <1>1, <3>2 DEF MemoryTypeOK, Processes
    <3>4. IF AccessEnds THEN process'.op = "wait" ELSE process'.op = "read"
      BY <1>1, <3>2, <3>3, ProcessStep DEF AccessEnds, ByteEnds, Waiting
    <3>5. ~mem_writeaccess' /\ (mem_busywait' <=> ~AccessEnds) /\ (mem_readaccess' <=> ~AccessEnds)
      BY <1>1, <3>1, <3>2, <3>3 DEF AccessDetect, AccessEnds, ByteEnds
    <3> QED BY <3>1, <3>4, <3>5 DEF BusInv
  <2>5. CASE state = "MEM_WRITE" /\ seen(order)
    <3>1. state' = "MEM_WRITE" /\ outputView' = outputView
      BY <1>4, <2>1, <2>5 DEF Quiet, next_state
    <3>2. ~mem_readaccess /\ mem_writeaccess /\ mem_busywait /\ process.op # "read"
      BY <2>5 DEF BusInv, seen
    <3>3. process.op \in {"wait", "write"}
      BY <1>1, <3>2 DEF MemoryTypeOK, Processes
    <3>4. IF AccessEnds THEN process'.op = "wait" ELSE process'.op = "write"
      BY <1>1, <3>2, <3>3, ProcessStep DEF AccessEnds, ByteEnds, Waiting
    <3>5. ~mem_readaccess' /\ (mem_busywait' <=> ~AccessEnds) /\ (mem_writeaccess' <=> ~AccessEnds)
      BY <1>1, <3>1, <3>2, <3>3 DEF AccessDetect, AccessEnds, ByteEnds
    <3> QED BY <3>1, <3>4, <3>5 DEF BusInv
  <2>6. CASE state = "MEM_WRITE" /\ ~seen(order)
    <3>1. state' = "MEM_READ" /\ outputView' # outputView
      BY <1>4, <2>1, <2>6 DEF Quiet, next_state
    <3>2. mem_read' /\ ~mem_write'
      BY <3>1 DEF mem_read, mem_write
    <3>3. mem_busywait' /\ mem_readaccess' /\ ~mem_writeaccess'
      BY <1>1, <3>1, <3>2 DEF AccessDetect
    <3> QED BY <1>3, <2>6, <3>1, <3>3 DEF BusInv
  <2> QED BY <1>1, <2>2, <2>3, <2>4, <2>5, <2>6 DEF States
<1>5. CASE Filled(order)
  <2>1. /\ state' = "IDLE" /\ outputView' # outputView /\ process'.op = "wait"
    BY <1>3, <1>5 DEF Filled, outputView
  <2>2. /\ mem_busywait' <=> mem_read' \/ mem_write'
        /\ mem_readaccess' <=> mem_read' /\ ~mem_write'
        /\ mem_writeaccess' <=> ~mem_read' /\ mem_write'
    BY <1>1, <2>1 DEF AccessDetect
  <2>3. ~(mem_read /\ mem_write)'
    BY <2>1 DEF mem_read, mem_write
  <2> QED BY <2>1, <2>2, <2>3 DEF BusInv
<1>6. CASE Written
  <2>1. state = "IDLE" /\ state' = "IDLE" /\ ~miss /\ ~miss'
    BY <1>6, EdgeStall DEF Written
  <2>2. ~mem_read /\ ~mem_write /\ ~mem_read' /\ ~mem_write'
    BY <2>1 DEF mem_read, mem_write
  <2>3. ~mem_busywait /\ process.op = "wait" /\ ~mem_readaccess /\ ~mem_writeaccess
    BY <2>1, <2>2 DEF BusInv
  <2>4. process' = process
    BY <1>1, <2>3, ProcessStep
  <2>5. ~mem_busywait' /\ ~mem_readaccess' /\ ~mem_writeaccess'
    BY <1>1, <2>2, <2>3 DEF AccessDetect
  <2> QED BY <2>1, <2>2, <2>3, <2>4, <2>5 DEF BusInv
<1> QED BY <1>4, <1>5, <1>6, EdgeCases

LEMMA BusStep ==
  ASSUME TypeOK, StallInv, BusInv, [Next]_vars
  PROVE  BusInv'
<1>1. ASSUME phase # "edge", state' = state, Outputs PROVE BusInv'
  <2>1. state = "IDLE" /\ process' = process /\ process.op = "wait"
    BY <1>1 DEF StallInv, BusInv, Outputs
  <2>2. CASE outputView' = outputView
    <3>1. mem_read' = mem_read /\ mem_write' = mem_write
      BY <2>2, ViewFixesOutputs
    <3>2. /\ mem_busywait' = mem_busywait /\ mem_readaccess' = mem_readaccess
          /\ mem_writeaccess' = mem_writeaccess
      BY <1>1, <2>2 DEF Outputs, AccessDetect, TypeOK, MemoryTypeOK
    <3> QED BY <1>1, <2>1, <3>1, <3>2 DEF BusInv
  <2>3. CASE outputView' # outputView
    <3>1. ~(mem_read /\ mem_write)'
      BY <1>1, <2>1 DEF mem_read, mem_write
    <3> QED BY <1>1, <2>1, <2>3, <3>1 DEF Outputs, AccessDetect, BusInv
  <2> QED BY <2>2, <2>3
<1>2. CASE Stall \/ Complete \/ Hold
  BY <1>2, EdgeBus DEF Stall, Complete, Hold
<1>3. CASE \E r, w \in BOOLEAN : Decode(r, w)
  BY <1>1, <1>3 DEF Decode, StrobeEvent
<1>4. CASE DecodeSameWord
  BY <1>1, <1>4 DEF DecodeSameWord, cacheVars
<1>5. CASE \E a \in Addresses, d \in Bytes : Operands(a, d)
  BY <1>1, <1>5 DEF Operands, AddressEvent
<1>6. CASE UNCHANGED vars
  <2>1. UNCHANGED inputVars /\ UNCHANGED arrayVars /\ UNCHANGED memoryVars /\ state' = state
    BY <1>6 DEF vars, cacheVars
  <2>2. mem_read' = mem_read /\ mem_write' = mem_write
    BY <2>1, QuietLookup DEF mem_read, mem_write
  <2> QED BY <2>1, <2>2 DEF BusInv, memoryVars
<1> QED BY <1>2, <1>3, <1>4, <1>5, <1>6 DEF Next

LEMMA BusInitial == Init => BusInv
BY DEF Init, CacheInit, MemoryInit, Waiting, BusInv, mem_read, mem_write, miss, access,
       readaccess, writeaccess

-----------------------------------------------------------------------------
(* The bytes that move between a line and memory *)

\* A write-back puts the bytes of the line where the line came from, in order, and
\* touches no other block.
LEMMA WriteProgress ==
  ASSUME TypeOK, StallInv, BusInv, WriteBackInv, NEW order, Edge(order),
         state = "MEM_WRITE"
  PROVE  /\ process'.op = "write" =>
              /\ process'.byte = stored_block[process'.beat]
              /\ \A k \in Offsets : k < process'.beat
                   => memory_array'[lineBlock][k] = stored_block[k]
         /\ ~mem_busywait \/ AccessEnds => memory_array'[lineBlock] = stored_block
         /\ \A b \in BlockAddresses \ {lineBlock} : memory_array'[b] = memory_array[b]
<1>1. /\ MemoryTypeOK /\ CacheTypeOK /\ state \in States
      /\ lineBlock \in BlockAddresses /\ stored_block \in Blocks
      /\ mem_address = lineBlock /\ mem_writedata = stored_block
      /\ process.op # "read" /\ ~mem_readaccess
      /\ MemoryPosedge(order, lineBlock, stored_block)
  BY SignalTypes DEF TypeOK, CacheTypeOK, mem_address, mem_write, mem_writedata,
                     lineBlock, BusInv, Edge
<1>2. process.op \in {"wait", "write"} /\ process.beat \in Offsets
  BY <1>1 DEF MemoryTypeOK, Processes
<1>3. memory_array' = IF ByteEnds
                      THEN [memory_array EXCEPT ![lineBlock][process.beat] = process.byte]
                      ELSE memory_array
  BY <1>1, <1>2 DEF MemoryPosedge, StoreByte, ByteEnds
<1>4. \A b \in BlockAddresses \ {lineBlock} : memory_array'[b] = memory_array[b]
  BY <1>1, <1>3 DEF MemoryTypeOK
<1>5. ASSUME ByteEnds
      PROVE  \A k \in Offsets : k < process.beat + 1
                => memory_array'[lineBlock][k] = stored_block[k]
  <2>1. process.op = "write"
    BY <1>2, <1>5 DEF ByteEnds
  <2>2. memory_array'[lineBlock] = [memory_array[lineBlock] EXCEPT ![process.beat] = process.byte]
    BY <1>1, <1>3, <1>5 DEF MemoryTypeOK
  <2>3. memory_array[lineBlock] \in [Offsets -> Bytes]
    BY <1>1 DEF MemoryTypeOK, Blocks
  <2>4. process.byte = stored_block[process.beat]
    BY <2>1 DEF WriteBackInv
  <2>5. \A k \in Offsets : k < process.beat + 1 => k < process.beat \/ k = process.beat
    BY <1>2 DEF Offsets
  <2> QED BY <1>2, <2>1, <2>2, <2>3, <2>4, <2>5 DEF WriteBackInv
<1>6. ASSUME process'.op = "write"
      PROVE  /\ process'.byte = stored_block[process'.beat]
             /\ \A k \in Offsets : k < process'.beat
                  => memory_array'[lineBlock][k] = stored_block[k]
  <2>1. CASE process.op = "wait"
    <3>1. process'.beat = 0 /\ process'.byte = stored_block[0]
      BY <1>1, <1>6, <2>1, ProcessStep
    <3> QED BY <3>1 DEF Offsets
  <2>2. CASE process.op = "write" /\ ~ByteEnds
    BY <1>1, <1>3, <2>2, ProcessStep DEF WriteBackInv
  <2>3. CASE ByteEnds /\ ~AccessEnds
    BY <1>1, <1>2, <1>5, <2>3, ProcessStep DEF ByteEnds
  <2>4. CASE AccessEnds
    BY <1>1, <1>6, <2>4, ProcessStep DEF Waiting
  <2> QED BY <1>2, <2>1, <2>2, <2>3, <2>4
<1>7. ASSUME ~mem_busywait PROVE memory_array'[lineBlock] = stored_block
  BY <1>3, <1>7 DEF BusInv, WriteBackInv, ByteEnds
<1>8. ASSUME AccessEnds PROVE memory_array'[lineBlock] = stored_block
  <2>1. \A k \in Offsets : k < process.beat + 1
    BY <1>8, SpaceAssumption DEF AccessEnds, Offsets
  <2>2. \A k \in Offsets : memory_array'[lineBlock][k] = stored_block[k]
    BY <1>5, <1>8, <2>1 DEF AccessEnds
  <2>3. memory_array'[lineBlock] \in Blocks
    BY <1>1, EdgeTypes DEF MemoryTypeOK
  <2> QED BY <1>1, <2>2, <2>3 DEF Blocks
<1> QED BY <1>4, <1>6, <1>7, <1>8

\* A fetch collects the bytes of the block that is asked for, in order.
LEMMA ReadProgress ==
  ASSUME TypeOK, StallInv, BusInv, FetchInv, NEW order, Edge(order),
         state = "MEM_READ"
  PROVE  /\ memory_array' = memory_array
         /\ process'.op = "read" =>
              /\ process'.byte = memory_array[requestBlock][process'.beat]
              /\ \A k \in Offsets : k < process'.beat
                   => mem_readdata'[k] = memory_array[requestBlock][k]
         /\ ~mem_busywait \/ AccessEnds => mem_readdata' = memory_array[requestBlock]
<1>1. /\ MemoryTypeOK /\ CacheTypeOK /\ state \in States
      /\ requestBlock \in BlockAddresses /\ mem_writedata \in Blocks
      /\ mem_address = requestBlock
      /\ process.op # "write" /\ ~mem_writeaccess
      /\ MemoryPosedge(order, requestBlock, mem_writedata)
  BY SignalTypes DEF TypeOK, CacheTypeOK, mem_address, mem_write, requestBlock, BusInv, Edge
<1>2. process.op \in {"wait", "read"} /\ process.beat \in Offsets
  BY <1>1 DEF MemoryTypeOK, Processes
<1>3. /\ memory_array' = memory_array
      /\ mem_readdata' = IF ByteEnds
                         THEN [mem_readdata EXCEPT ![process.beat] = process.byte]
                         ELSE mem_readdata
  BY <1>1, <1>2 DEF MemoryPosedge, StoreByte, ByteEnds
<1>4. ASSUME ByteEnds
      PROVE  \A k \in Offsets : k < process.beat + 1
                => mem_readdata'[k] = memory_array[requestBlock][k]
  <2>1. process.op = "read"
    BY <1>2, <1>4 DEF ByteEnds
  <2>2. mem_readdata \in [Offsets -> Bytes]
    BY <1>1 DEF MemoryTypeOK, Blocks
  <2>3. process.byte = memory_array[requestBlock][process.beat]
    BY <2>1 DEF FetchInv
  <2>4. \A k \in Offsets : k < process.beat + 1 => k < process.beat \/ k = process.beat
    BY <1>2 DEF Offsets
  <2> QED BY <1>2, <1>3, <1>4, <2>1, <2>2, <2>3, <2>4 DEF FetchInv
<1>5. ASSUME process'.op = "read"
      PROVE  /\ process'.byte = memory_array[requestBlock][process'.beat]
             /\ \A k \in Offsets : k < process'.beat
                  => mem_readdata'[k] = memory_array[requestBlock][k]
  <2>1. CASE process.op = "wait"
    <3>1. process'.beat = 0 /\ process'.byte = memory_array[requestBlock][0]
      BY <1>1, <1>5, <2>1, ProcessStep
    <3> QED BY <3>1 DEF Offsets
  <2>2. CASE process.op = "read" /\ ~ByteEnds
    BY <1>1, <1>3, <2>2, ProcessStep DEF FetchInv
  <2>3. CASE ByteEnds /\ ~AccessEnds
    BY <1>1, <1>2, <1>4, <2>3, ProcessStep DEF ByteEnds
  <2>4. CASE AccessEnds
    BY <1>1, <1>5, <2>4, ProcessStep DEF Waiting
  <2> QED BY <1>2, <2>1, <2>2, <2>3, <2>4
<1>6. ASSUME ~mem_busywait PROVE mem_readdata' = memory_array[requestBlock]
  BY <1>3, <1>6 DEF BusInv, FetchInv, ByteEnds
<1>7. ASSUME AccessEnds PROVE mem_readdata' = memory_array[requestBlock]
  <2>1. \A k \in Offsets : k < process.beat + 1
    BY <1>7, SpaceAssumption DEF AccessEnds, Offsets
  <2>2. \A k \in Offsets : mem_readdata'[k] = memory_array[requestBlock][k]
    BY <1>4, <1>7, <2>1 DEF AccessEnds
  <2>3. mem_readdata' \in Blocks /\ memory_array[requestBlock] \in Blocks
    BY <1>1, EdgeTypes DEF MemoryTypeOK
  <2> QED BY <2>2, <2>3 DEF Blocks
<1> QED BY <1>3, <1>5, <1>6, <1>7

-----------------------------------------------------------------------------
(* No dirty line is lost *)

DataInv == FetchInv /\ WriteBackInv /\ CleanLineMatchesMemory

\* The clean lines survive if neither they nor their blocks move.
LEMMA CleanLinesKept ==
  ASSUME TypeOK, CleanLineMatchesMemory, NEW S,
         \A i \in Indices \ S :
           /\ valid_array'[i] = valid_array[i] /\ dirty_array'[i] = dirty_array[i]
           /\ tag_array'[i] = tag_array[i] /\ data_array'[i] = data_array[i]
           /\ memory_array'[<<tag_array[i], i>>] = memory_array[<<tag_array[i], i>>]
  PROVE  \A i \in Indices \ S :
           IF valid_array'[i]
           THEN dirty_array'[i] \/ data_array'[i] = memory_array'[<<tag_array'[i], i>>]
           ELSE ~dirty_array'[i]
BY DEF CleanLineMatchesMemory

LEMMA QuietData ==
  ASSUME TypeOK, StallInv, BusInv, DataInv, NEW order, Edge(order), Quiet(order)
  PROVE  DataInv'
<1>1. /\ MemoryTypeOK /\ CacheTypeOK /\ state \in States /\ UNCHANGED inputVars
      /\ AccessDetect(outputView' # outputView, mem_read', mem_write', AccessEnds)
      /\ UNCHANGED arrayVars /\ BusInv'
  BY EdgeBus DEF Edge, TypeOK, CacheTypeOK, Quiet
<1>2. /\ requestBlock' = requestBlock /\ lineBlock' = lineBlock
      /\ stored_block' = stored_block /\ evict' = evict /\ miss' = miss
      /\ state' = state => outputView' = outputView
      /\ state' # state => outputView' # outputView
  BY <1>1, QuietLookup DEF requestBlock, lineBlock, outputView
<1>3. ~mem_busywait => process.op = "wait" /\ ~AccessEnds
  BY DEF BusInv, AccessEnds, ByteEnds
<1>4. CASE state = "IDLE"
  <2>1. /\ process.op = "wait" /\ ~ByteEnds
        /\ memory_array' = memory_array /\ mem_readdata' = mem_readdata
    BY <1>4 DEF BusInv, ByteEnds, Edge, MemoryPosedge, StoreByte
  <2>2. CleanLineMatchesMemory'
    BY <1>1, <2>1 DEF DataInv, CleanLineMatchesMemory, arrayVars
  <2>3. state' = (IF ~miss THEN "IDLE" ELSE IF evict THEN "MEM_WRITE" ELSE "MEM_READ")
    BY <1>4 DEF Quiet, next_state
  <2>4. CASE ~miss
    BY <1>1, <2>2, <2>3, <2>4 DEF DataInv, FetchInv, WriteBackInv, BusInv
  <2>5. CASE miss
    <3>1. /\ mem_busywait
          /\ mem_readaccess <=> ~evict
          /\ mem_address = IF evict THEN lineBlock ELSE requestBlock
          /\ mem_writedata = stored_block
      BY <1>4, <2>5 DEF BusInv, mem_read, mem_write, mem_address, mem_writedata,
                        lineBlock, requestBlock
    <3>2. /\ process'.op = (IF evict THEN "write" ELSE "read") /\ process'.beat = 0
          /\ process'.byte = (IF evict THEN stored_block[0] ELSE memory_array[requestBlock][0])
      BY <1>1, <2>1, <3>1, ProcessStep DEF Edge
    <3>3. mem_busywait'
      BY <1>1, <3>2 DEF BusInv
    <3>4. \A k \in Offsets : ~(k < 0)
      BY DEF Offsets
    <3> QED BY <1>2, <2>1, <2>2, <2>3, <2>5, <3>2, <3>3, <3>4 DEF DataInv, FetchInv, WriteBackInv
  <2> QED BY <2>4, <2>5
<1>5. CASE state = "MEM_READ"
  <2>1. seen(order) /\ state' = "MEM_READ"
    BY <1>5 DEF Quiet, next_state
  <2>2. mem_busywait /\ (mem_busywait' <=> ~AccessEnds)
    BY <1>1, <1>2, <1>5, <2>1 DEF seen, AccessDetect, MemoryTypeOK
  <2>3. memory_array' = memory_array
    BY <1>5, ReadProgress DEF DataInv
  <2>4. CleanLineMatchesMemory'
    BY <1>1, <2>3 DEF DataInv, CleanLineMatchesMemory, arrayVars
  <2>5. FetchInv'
    BY <1>2, <1>5, <2>1, <2>2, <2>3, ReadProgress DEF DataInv, FetchInv
  <2>6. WriteBackInv'
    BY <1>1, <1>2, <1>5, <2>1, <2>3 DEF DataInv, WriteBackInv, BusInv
  <2> QED BY <2>4, <2>5, <2>6 DEF DataInv
<1>6. CASE state = "MEM_WRITE"
  <2>1. evict
    BY <1>6 DEF StallInv
  <2>2. \A i \in Indices \ {index} : memory_array'[<<tag_array[i], i>>] = memory_array[<<tag_array[i], i>>]
    BY <1>1, <1>6, WriteProgress DEF DataInv, lineBlock, BlockAddresses, CacheTypeOK
  <2>3. CleanLineMatchesMemory'
    <3>1. \A i \in Indices \ {index} :
           IF valid_array'[i]
           THEN dirty_array'[i] \/ data_array'[i] = memory_array'[<<tag_array'[i], i>>]
           ELSE ~dirty_array'[i]
      BY <1>1, <2>2, CleanLinesKept DEF DataInv, arrayVars
    <3>2. valid_array'[index] /\ dirty_array'[index]
      BY <1>1, <2>1 DEF evict, valid, dirty, arrayVars
    <3> QED BY <3>1, <3>2 DEF CleanLineMatchesMemory
  <2>4. CASE seen(order)
    <3>1. state' = "MEM_WRITE" /\ mem_busywait /\ (mem_busywait' <=> ~AccessEnds)
      BY <1>1, <1>2, <1>6, <2>4 DEF Quiet, next_state, seen, AccessDetect, MemoryTypeOK
    <3>2. process'.op # "read"
      BY <1>1, <3>1 DEF BusInv
    <3> QED BY <1>2, <1>6, <2>3, <3>1, <3>2, WriteProgress DEF DataInv, FetchInv, WriteBackInv
  <2>5. CASE ~seen(order)
    <3>1. state' = "MEM_READ" /\ mem_busywait'
      BY <1>1, <1>2, <1>6, <2>5 DEF Quiet, next_state, AccessDetect, mem_read
    <3>2. ~mem_busywait \/ AccessEnds
      BY <2>5 DEF seen
    <3>3. process'.op = "wait"
      BY <1>1, <1>3, <3>2, ProcessStep DEF Edge, Waiting
    <3> QED BY <1>2, <1>6, <2>3, <3>1, <3>2, <3>3, WriteProgress DEF DataInv, FetchInv, WriteBackInv
  <2> QED BY <2>4, <2>5
<1> QED BY <1>1, <1>4, <1>5, <1>6 DEF States

LEMMA FilledData ==
  ASSUME TypeOK, StallInv, BusInv, DataInv, NEW order, Edge(order), Filled(order)
  PROVE  DataInv'
<1>1. /\ CacheTypeOK /\ UNCHANGED inputVars /\ BusInv' /\ mem_readdata' \in Blocks
      /\ state = "MEM_READ" /\ state' = "IDLE" /\ SetLine(mem_readdata', FALSE)
  BY EdgeBus, EdgeTypes DEF Edge, TypeOK, MemoryTypeOK, Filled
<1>2. memory_array' = memory_array /\ mem_readdata' = memory_array[requestBlock]
  BY <1>1, ReadProgress DEF DataInv, Filled, seen
<1>3. /\ index' = index /\ index \in Indices
      /\ valid_array'[index] = TRUE /\ data_array'[index] = mem_readdata'
      /\ tag_array'[index] = tag
      /\ \A i \in Indices \ {index} :
              /\ valid_array'[i] = valid_array[i] /\ dirty_array'[i] = dirty_array[i]
              /\ tag_array'[i] = tag_array[i] /\ data_array'[i] = data_array[i]
  BY <1>1, SetLineEffect, SignalTypes DEF SetLine, CacheTypeOK
<1>4. CleanLineMatchesMemory'
  <2>1. \A i \in Indices \ {index} :
           IF valid_array'[i]
           THEN dirty_array'[i] \/ data_array'[i] = memory_array'[<<tag_array'[i], i>>]
           ELSE ~dirty_array'[i]
    BY <1>2, <1>3, CleanLinesKept DEF DataInv
  <2> QED BY <1>2, <1>3, <2>1 DEF CleanLineMatchesMemory, requestBlock
<1> QED BY <1>1, <1>4 DEF DataInv, FetchInv, WriteBackInv, BusInv

LEMMA WrittenData ==
  ASSUME TypeOK, StallInv, BusInv, DataInv, NEW order, Edge(order), Written
  PROVE  DataInv'
<1>1. /\ CacheTypeOK /\ UNCHANGED inputVars /\ BusInv'
      /\ state = "IDLE" /\ state' = "IDLE" /\ SetLine(stored, TRUE)
  BY EdgeBus DEF Edge, TypeOK, Written
<1>2. memory_array' = memory_array
  BY <1>1 DEF BusInv, ByteEnds, Edge, MemoryPosedge, StoreByte
<1>3. /\ index \in Indices
      /\ valid_array'[index] = TRUE /\ dirty_array'[index] = TRUE
      /\ \A i \in Indices \ {index} :
              /\ valid_array'[i] = valid_array[i] /\ dirty_array'[i] = dirty_array[i]
              /\ tag_array'[i] = tag_array[i] /\ data_array'[i] = data_array[i]
  BY <1>1, SignalTypes DEF SetLine, CacheTypeOK
<1>4. CleanLineMatchesMemory'
  <2>1. \A i \in Indices \ {index} :
           IF valid_array'[i]
           THEN dirty_array'[i] \/ data_array'[i] = memory_array'[<<tag_array'[i], i>>]
           ELSE ~dirty_array'[i]
    BY <1>2, <1>3, CleanLinesKept DEF DataInv
  <2> QED BY <1>2, <1>3, <2>1 DEF CleanLineMatchesMemory
<1> QED BY <1>1, <1>4 DEF DataInv, FetchInv, WriteBackInv, BusInv

LEMMA DataStep ==
  ASSUME TypeOK, StallInv, BusInv, DataInv, AddressEarly, [Next]_vars
  PROVE  DataInv'
<1>1. ASSUME NEW order, Edge(order) PROVE DataInv'
  BY <1>1, EdgeCases, QuietData, FilledData, WrittenData
<1>2. ASSUME phase # "edge", state' = state, UNCHANGED arrayVars, Outputs PROVE DataInv'
  <2>1. state' = "IDLE" /\ process' = process /\ process.op = "wait"
    BY <1>2 DEF StallInv, BusInv, Outputs
  <2>2. CleanLineMatchesMemory'
    BY <1>2 DEF DataInv, CleanLineMatchesMemory, arrayVars, Outputs
  <2> QED BY <2>1, <2>2 DEF DataInv, FetchInv, WriteBackInv
<1>3. CASE Stall \/ Complete \/ Hold
  BY <1>1, <1>3 DEF Stall, Complete, Hold
<1>4. CASE \E r, w \in BOOLEAN : Decode(r, w)
  BY <1>2, <1>4 DEF Decode, StrobeEvent
<1>5. CASE DecodeSameWord
  BY <1>2, <1>5 DEF DecodeSameWord, cacheVars
<1>6. CASE \E a \in Addresses, d \in Bytes : Operands(a, d)
  BY <1>2, <1>6 DEF Operands, AddressEvent
<1>7. CASE UNCHANGED vars
  <2>1. UNCHANGED inputVars /\ UNCHANGED arrayVars /\ UNCHANGED memoryVars /\ state' = state
    BY <1>7 DEF vars, cacheVars
  <2>2. /\ requestBlock' = requestBlock /\ lineBlock' = lineBlock
        /\ stored_block' = stored_block /\ evict' = evict
    BY <2>1, QuietLookup DEF requestBlock, lineBlock
  <2>3. CleanLineMatchesMemory'
    BY <2>1 DEF DataInv, CleanLineMatchesMemory, arrayVars, memoryVars
  <2> QED BY <2>1, <2>2, <2>3 DEF DataInv, FetchInv, WriteBackInv, memoryVars
<1> QED BY <1>3, <1>4, <1>5, <1>6, <1>7 DEF Next

LEMMA DataInitial == Init => DataInv
<1>1. Init => CleanLineMatchesMemory
  BY DEF Init, CacheInit, CleanLineMatchesMemory
<1>2. Init => FetchInv /\ WriteBackInv
  BY DEF Init, CacheInit, MemoryInit, Waiting, FetchInv, WriteBackInv
<1> QED BY <1>1, <1>2 DEF DataInv

\* The inductive invariant of the data side, for a program that presents its
\* addresses early (dcache.v:91-245 with dmem_for_dcache.v:37-66).
THEOREM Invariance ==
  ASSUME AddressEarly
  PROVE  Spec => []IInv
<1>1. Init => IInv
  BY TypeInitial, StallInitial, BusInitial, DataInitial DEF IInv, DataInv
<1>2. IInv /\ [Next]_vars => IInv'
  BY TypeStep, StallStep, BusStep, DataStep DEF IInv, DataInv
<1> QED BY <1>1, <1>2, PTL DEF Spec

\* Memory works only with its busywait high and while the FSM waits for that very access
\* (dcache.v:139-229, dmem_for_dcache.v:37-66).
THEOREM ServesFSM ==
  ASSUME AddressEarly
  PROVE  Spec => []MemoryServesFSM
<1>1. IInv => MemoryServesFSM
  BY DEF IInv, TypeOK, CacheTypeOK, MemoryTypeOK, States, Processes, BusInv, MemoryServesFSM
<1> QED BY <1>1, Invariance, PTL

\* A valid line that is not dirty equals its block in memory, whatever the program
\* stored and evicted before.
THEOREM CleanLines ==
  ASSUME AddressEarly
  PROVE  Spec => []CleanLineMatchesMemory
<1>1. IInv => CleanLineMatchesMemory
  BY DEF IInv
<1> QED BY <1>1, Invariance, PTL

\* No dirty line is lost: a line changes its tag only when memory holds its bytes
\* (dcache.v:146-157, 231-245).
THEOREM WriteBacksFirst ==
  ASSUME AddressEarly
  PROVE  Spec => WriteBackFirst
<1>1. ASSUME IInv, [Next]_vars, NEW i \in Indices,
             valid_array[i], tag_array'[i] # tag_array[i]
      PROVE  data_array[i] = memory_array[<<tag_array[i], i>>]
  <2>1. PICK order : Edge(order)
    BY <1>1 DEF Next, Stall, Complete, Hold, Decode, StrobeEvent, DecodeSameWord,
       Operands, AddressEvent, vars, cacheVars, arrayVars
  <2>2. Quiet(order) \/ Filled(order) \/ Written
    BY <1>1, <2>1, EdgeCases DEF IInv
  <2>3. CacheTypeOK /\ UNCHANGED inputVars /\ index \in Indices
    BY <1>1, <2>1, SignalTypes DEF IInv, TypeOK, Edge
  <2>4. ~Written
    BY <1>1, <2>3 DEF Written, SetLine, hit, stored_tag, CacheTypeOK
  <2>5. Filled(order)
    BY <1>1, <2>2, <2>4 DEF Quiet, arrayVars
  <2>6. i = index
    BY <1>1, <2>3, <2>5 DEF Filled, SetLine, CacheTypeOK
  <2>7. CASE dirty_array[i]
    BY <1>1, <2>5, <2>6, <2>7
       DEF Filled, IInv, WriteBackInv, evict, dirty, valid, lineBlock, stored_tag, stored_block
  <2>8. CASE ~dirty_array[i]
    BY <1>1, <2>8 DEF IInv, CleanLineMatchesMemory
  <2> QED BY <2>7, <2>8
<1>2. IInv /\ [Next]_vars
        => [\A i \in Indices :
              valid_array[i] /\ tag_array'[i] # tag_array[i]
                => data_array[i] = memory_array[<<tag_array[i], i>>]]_vars
  BY <1>1
<1> QED BY <1>2, Invariance, PTL DEF WriteBackFirst, Spec

\* The block address and the written block stand while memory works on the block
\* (dmem_for_dcache.v:46-66), because the CPU is stalled and the FSM waits.
THEOREM BlockHeld ==
  ASSUME AddressEarly
  PROVE  Spec => BlockHeldDuringAccess
<1>1. ASSUME IInv, [Next]_vars, process.op # "wait", ~AccessEnds
      PROVE  /\ mem_address' = mem_address
             /\ process.op = "write" => mem_writedata' = mem_writedata
  <2>1. state # "IDLE" /\ miss /\ phase = "edge" /\ mem_busywait
    BY <1>1 DEF IInv, BusInv, StallInv
  <2>2. CASE UNCHANGED vars
    BY <2>2, QuietLookup DEF vars, cacheVars, mem_address, mem_write, mem_writedata
  <2>3. CASE Next
    <3>1. PICK order : Edge(order)
      BY <2>1, <2>3 DEF Next, Stall, Complete, Hold, Decode, DecodeSameWord, Operands
    <3>2. seen(order) /\ UNCHANGED inputVars /\ state \in States
      BY <1>1, <2>1, <3>1 DEF seen, Edge, IInv, TypeOK, CacheTypeOK
    <3>3. Quiet(order)
      BY <1>1, <2>1, <3>1, <3>2, EdgeCases DEF Filled, Written, IInv
    <3>4. state' = state
      BY <2>1, <3>2, <3>3 DEF Quiet, next_state, States
    <3>5. /\ tag' = tag /\ index' = index /\ stored_tag' = stored_tag
          /\ stored_block' = stored_block /\ miss' = miss /\ evict' = evict
      BY <3>2, <3>3, QuietLookup DEF Quiet
    <3>6. mem_write' = mem_write
      BY <3>4, <3>5 DEF mem_write
    <3> QED BY <3>5, <3>6 DEF mem_address, mem_writedata
  <2> QED BY <1>1, <2>2, <2>3
<1>2. IInv /\ [Next]_vars
        => [process.op # "wait" /\ ~AccessEnds
              => /\ mem_address' = mem_address
                 /\ process.op = "write" => mem_writedata' = mem_writedata]_vars
  BY <1>1
<1> QED BY <1>2, Invariance, PTL DEF BlockHeldDuringAccess, Spec

\* The pulse of the output process starts no transaction of its own: memory is set to work
\* for a miss only, and while the FSM is on its way to serve it (dcache.v:191-229).
THEOREM TransactionsUseful ==
  ASSUME AddressEarly
  PROVE  Spec => NoUselessTransaction
<1>1. ASSUME IInv, [Next]_vars, process.op = "wait", process'.op # "wait"
      PROVE  miss /\ state' # "IDLE"
  <2>1. PICK order : Edge(order)
    BY <1>1 DEF Next, Stall, Complete, Hold, Decode, DecodeSameWord, Operands, Outputs,
       vars, memoryVars
  <2>2. ~ByteEnds /\ ~AccessEnds
    BY <1>1 DEF ByteEnds, AccessEnds
  <2>3. mem_readaccess \/ mem_writeaccess
    BY <1>1, <2>1, <2>2 DEF Edge, MemoryPosedge
  <2>4. state \in States
    BY <1>1 DEF IInv, TypeOK, CacheTypeOK
  <2>5. mem_busywait /\ state' = next_state(mem_busywait)
    BY <1>1, <2>1, <2>2, <2>3 DEF Edge, PosedgeState, IInv, BusInv
  <2>6. CASE state = "IDLE"
    <3>1. miss
      BY <1>1, <2>3, <2>6 DEF IInv, BusInv, mem_read, mem_write
    <3> QED BY <2>5, <2>6, <3>1 DEF next_state
  <2>7. CASE state # "IDLE"
    BY <1>1, <2>4, <2>5, <2>7 DEF next_state, States, IInv, StallInv
  <2> QED BY <2>6, <2>7
<1>2. IInv /\ [Next]_vars
        => (process.op = "wait" /\ process'.op # "wait" => miss /\ state' # "IDLE")
  BY <1>1
<1> QED BY <1>2, Invariance, PTL DEF NoUselessTransaction, Spec

-----------------------------------------------------------------------------
(* Refinement.  memoryView, the refinement mapping, takes a byte from the cache if its *)
(* block is there and from memory_array otherwise; fetches and write-backs leave it     *)
(* alone and a store moves exactly one byte of it.                                      *)

\* An address is its block and its place in the block.
LEMMA AddressParts ==
  ASSUME NEW a \in Addresses
  PROVE  a.tag \in Tags /\ a.index \in Indices /\ a.offset \in Offsets
BY DEF Addresses

LEMMA QuietView ==
  ASSUME TypeOK, StallInv, BusInv, DataInv, NEW order, Edge(order), Quiet(order)
  PROVE  memoryView' = memoryView
<1>1. MemoryTypeOK /\ CacheTypeOK /\ UNCHANGED arrayVars
  BY DEF TypeOK, Quiet
<1>2. CASE state = "MEM_WRITE"
  <2>1. \A b \in BlockAddresses \ {lineBlock} : memory_array'[b] = memory_array[b]
    BY <1>2, WriteProgress DEF DataInv
  <2>2. valid_array[index] /\ tag_array[index] = stored_tag
    BY <1>2 DEF StallInv, evict, valid, stored_tag
  <2>3. ASSUME NEW a \in Addresses, ~cached(a)
        PROVE  memory_array'[<<a.tag, a.index>>] = memory_array[<<a.tag, a.index>>]
    BY <2>1, <2>2, <2>3, AddressParts DEF cached, lineBlock, BlockAddresses
  <2>4. \A a \in Addresses : cached(a)' = cached(a)
    BY <1>1 DEF cached, arrayVars
  <2> QED BY <1>1, <2>3, <2>4 DEF memoryView, arrayVars
<1>3. CASE state # "MEM_WRITE"
  <2>1. process.op # "write"
    BY <1>1, <1>3 DEF BusInv, CacheTypeOK, States
  <2>2. memory_array' = memory_array
    BY <2>1 DEF Edge, MemoryPosedge, StoreByte
  <2> QED BY <1>1, <2>2 DEF memoryView, cached, arrayVars
<1> QED BY <1>2, <1>3

\* A fetch replaces a line whose bytes memory holds with a line that memory holds.
LEMMA FilledView ==
  ASSUME TypeOK, StallInv, BusInv, DataInv, NEW order, Edge(order), Filled(order)
  PROVE  memoryView' = memoryView
<1>1. /\ CacheTypeOK /\ UNCHANGED inputVars /\ state = "MEM_READ" /\ miss
      /\ mem_readdata' \in Blocks /\ SetLine(mem_readdata', FALSE)
  BY EdgeTypes DEF Edge, TypeOK, MemoryTypeOK, Filled
<1>2. memory_array' = memory_array /\ mem_readdata' = memory_array[requestBlock]
  BY <1>1, ReadProgress DEF DataInv, Filled, seen
<1>3. /\ index \in Indices
      /\ valid_array'[index] = TRUE /\ data_array'[index] = memory_array[requestBlock]
      /\ tag_array'[index] = tag
      /\ \A i \in Indices \ {index} :
              /\ valid_array'[i] = valid_array[i]
              /\ tag_array'[i] = tag_array[i] /\ data_array'[i] = data_array[i]
  BY <1>1, <1>2, SignalTypes DEF SetLine, CacheTypeOK
<1>4. valid_array[index] => /\ data_array[index] = memory_array[lineBlock]
                            /\ tag_array[index] # tag
  <2>1. valid_array[index] => tag_array[index] # tag
    BY <1>1 DEF miss, hit, valid, stored_tag
  <2>2. evict => data_array[index] = memory_array[lineBlock]
    BY <1>1 DEF DataInv, WriteBackInv, stored_block
  <2>3. valid_array[index] /\ ~evict => data_array[index] = memory_array[lineBlock]
    BY <1>3 DEF DataInv, CleanLineMatchesMemory, evict, valid, dirty, lineBlock, stored_tag
  <2> QED BY <2>1, <2>2, <2>3
<1>5. ASSUME NEW a \in Addresses PROVE memoryView'[a] = memoryView[a]
  <2>1. CASE a.index # index
    BY <1>2, <1>3, <2>1, AddressParts DEF memoryView, cached
  <2>2. CASE a.index = index /\ a.tag = tag
    BY <1>2, <1>3, <1>4, <2>2, AddressParts DEF memoryView, cached, requestBlock
  <2>3. CASE a.index = index /\ a.tag # tag
    BY <1>2, <1>3, <1>4, <2>3, AddressParts DEF memoryView, cached, lineBlock, stored_tag
  <2> QED BY <2>1, <2>2, <2>3
<1> QED BY <1>5 DEF memoryView

\* A store moves the byte at its address, and no other.
LEMMA WrittenView ==
  ASSUME TypeOK, StallInv, BusInv, DataInv, NEW order, Edge(order), Written
  PROVE  memoryView' = [memoryView EXCEPT ![address] = writedata]
<1>1. /\ CacheTypeOK /\ state = "IDLE" /\ hit /\ SetLine(stored, TRUE)
      /\ address \in Addresses
  BY DEF TypeOK, CacheTypeOK, Written
<1>2. memory_array' = memory_array
  BY <1>1 DEF BusInv, ByteEnds, Edge, MemoryPosedge, StoreByte
<1>3. /\ index \in Indices /\ offset \in Offsets /\ stored_block \in Blocks
      /\ valid_array[index] /\ tag_array[index] = tag
  BY <1>1, SignalTypes DEF hit, valid, stored_tag
<1>4. /\ valid_array'[index] = TRUE /\ data_array'[index] = stored
      /\ tag_array'[index] = tag
      /\ \A i \in Indices \ {index} :
              /\ valid_array'[i] = valid_array[i]
              /\ tag_array'[i] = tag_array[i] /\ data_array'[i] = data_array[i]
  BY <1>1, <1>3 DEF SetLine, CacheTypeOK
<1>5. /\ stored[offset] = writedata
      /\ \A k \in Offsets : k # offset => stored[k] = data_array[index][k]
  BY <1>3 DEF stored, Blocks, stored_block
<1>6. ASSUME NEW a \in Addresses
      PROVE  memoryView'[a] = IF a = address THEN writedata ELSE memoryView[a]
  <2>1. CASE a.index # index
    BY <1>2, <1>4, <2>1, AddressParts DEF memoryView, cached, index
  <2>2. CASE a.index = index /\ a.tag # tag
    BY <1>2, <1>3, <1>4, <2>2, AddressParts DEF memoryView, cached, tag
  <2>3. CASE a.index = index /\ a.tag = tag /\ a.offset # offset
    BY <1>3, <1>4, <1>5, <2>3, AddressParts DEF memoryView, cached, offset
  <2>4. CASE a.index = index /\ a.tag = tag /\ a.offset = offset
    <3>1. a = address
      BY <1>1, <2>4 DEF Addresses, tag, index, offset
    <3> QED BY <1>4, <1>5, <2>4, <3>1 DEF memoryView, cached
  <2> QED BY <2>1, <2>2, <2>3, <2>4
<1>7. memoryView' = [a \in Addresses |-> memoryView'[a]]
  BY DEF memoryView
<1>8. memoryView = [a \in Addresses |-> memoryView[a]]
  BY DEF memoryView
<1> QED BY <1>1, <1>6, <1>7, <1>8

\* An edge with busywait low does the store that is asked for, if one is; an edge
\* with busywait high changes no byte.
LEMMA EdgeView ==
  ASSUME TypeOK, StallInv, BusInv, DataInv, NEW order, Edge(order)
  PROVE  /\ busywait => memoryView' = memoryView
         /\ ~busywait => memoryView' = IF write
                                       THEN [memoryView EXCEPT ![address] = writedata]
                                       ELSE memoryView
<1>1. busywait <=> miss
  BY DEF StallInv
<1>2. CASE Quiet(order)
  <2>1. ~miss => ~write
    BY <1>2 DEF Quiet, WriteHit, miss, access, writeaccess, StallInv
  <2> QED BY <1>1, <1>2, <2>1, QuietView
<1>3. CASE Filled(order)
  BY <1>1, <1>3, FilledView DEF Filled
<1>4. CASE Written
  BY <1>1, <1>4, WrittenView DEF Written, writeaccess
<1> QED BY <1>2, <1>3, <1>4, EdgeCases

LEMMA LoadedView ==
  ASSUME TypeOK, StallInv, ~miss, read
  PROVE  readaccess /\ memoryView[address] = readdata
<1>1. readaccess /\ hit
  BY DEF StallInv, miss, access, readaccess
<1> QED BY <1>1 DEF TypeOK, CacheTypeOK, memoryView, cached, hit, valid, stored_tag, tag,
                   index, readdata, stored_block, offset

-----------------------------------------------------------------------------
LEMMA SameAddresses == Flat!Addresses = Addresses
BY DEF Flat!Addresses, Flat!Offsets, Addresses, Offsets

LEMMA FlatInitial == Init => Flat!Init
<1>1. Init => memoryView = [a \in Addresses |-> ZeroByte]
  <2> SUFFICES ASSUME Init, NEW a \in Addresses
               PROVE  ~cached(a) /\ memory_array[<<a.tag, a.index>>][a.offset] = ZeroByte
    BY DEF memoryView
  <2>1. a.tag \in Tags /\ a.index \in Indices /\ a.offset \in Offsets
    BY AddressParts
  <2>2. <<a.tag, a.index>> \in BlockAddresses
    BY <2>1 DEF BlockAddresses
  <2>3. memory_array[<<a.tag, a.index>>] = ZeroBlock
    BY <2>2 DEF Init, MemoryInit
  <2> QED BY <2>1, <2>3 DEF Init, CacheInit, cached, ZeroBlock
<1> QED BY <1>1, SpaceAssumption, SameAddresses DEF Init, CacheInit, Flat!Init

LEMMA FlatStep ==
  ASSUME IInv, AddressEarly, [Next]_vars
  PROVE  [Flat!Next]_(Flat!flatVars)
<1>1. /\ TypeOK /\ StallInv /\ BusInv /\ DataInv /\ TypeOK'
      /\ busywait <=> miss
  BY TypeStep DEF IInv, DataInv, StallInv
<1>2. CASE Stall
  <2>1. memoryView' = memoryView
    BY <1>1, <1>2, EdgeView DEF Stall
  <2> QED BY <1>2, <2>1 DEF Stall, Edge, inputVars, Flat!flatVars, Flat!requestVars
<1>3. CASE Complete
  <2>1. /\ phase = "edge" /\ phase' = "decode" /\ UNCHANGED inputVars
        /\ memoryView' = IF write THEN [memoryView EXCEPT ![address] = writedata]
                         ELSE memoryView
    BY <1>1, <1>3, EdgeView DEF Complete, Edge
  <2>2. loaded' = IF read THEN memoryView[address] ELSE loaded
    BY <1>1, <1>3, LoadedView DEF Complete, readaccess
  <2>3. Flat!Serve
    BY <2>1, <2>2 DEF Flat!Serve, Flat!Store, Flat!requestVars, inputVars
  <2> QED BY <2>3 DEF Flat!Next
<1>4. CASE Hold
  <2>1. /\ phase = "edge" /\ phase' = "edge" /\ UNCHANGED inputVars /\ UNCHANGED loaded
        /\ memoryView' = IF write THEN [memoryView EXCEPT ![address] = writedata]
                         ELSE memoryView
    BY <1>1, <1>4, EdgeView DEF Hold, Edge
  <2>2. Flat!Hold
    BY <2>1 DEF Flat!Hold, Flat!Store, Flat!requestVars, inputVars
  <2> QED BY <2>2 DEF Flat!Next
<1>5. ASSUME UNCHANGED arrayVars, Outputs, phase # "edge", phase' # "decode"
      PROVE  Flat!Prepare
  <2>1. memoryView' = memoryView /\ loaded' = loaded
    BY <1>5 DEF memoryView, cached, arrayVars, Outputs
  <2>2. /\ read' \in BOOLEAN /\ write' \in BOOLEAN
        /\ address' \in Addresses /\ writedata' \in Bytes
        /\ phase' \in {"edge", "operands"}
    BY <1>1, <1>5 DEF TypeOK, CacheTypeOK
  <2>3. /\ (IF phase = "edge" THEN "serve" ELSE "prepare") = "prepare"
        /\ (IF phase' = "edge" THEN "serve" ELSE "prepare") \in {"prepare", "serve"}
    BY <1>5
  <2> QED BY <2>1, <2>2, <2>3, SameAddresses DEF Flat!Prepare
<1>6. CASE \E r, w \in BOOLEAN : Decode(r, w)
  BY <1>5, <1>6 DEF Decode, StrobeEvent, Flat!Next
<1>7. CASE DecodeSameWord
  BY <1>5, <1>7 DEF DecodeSameWord, cacheVars, Flat!Next
<1>8. CASE \E a \in Addresses, d \in Bytes : Operands(a, d)
  BY <1>5, <1>8 DEF Operands, AddressEvent, Flat!Next
<1>9. CASE UNCHANGED vars
  BY <1>9 DEF vars, cacheVars, inputVars, arrayVars, memoryVars, memoryView, cached,
              Flat!flatVars, Flat!requestVars
<1> QED BY <1>2, <1>3, <1>4, <1>6, <1>7, <1>8, <1>9 DEF Next

\* A program that presents its addresses early cannot tell the cache from a memory of
\* bytes that answers at once: no load returns a stale byte, no store is lost.
THEOREM CacheIsFlatMemory ==
  ASSUME AddressEarly
  PROVE  Spec => IsFlatMemory
<1>1. IInv /\ [Next]_vars => [Flat!Next]_(Flat!flatVars)
  BY FlatStep
<1>2. Spec => []IInv
  BY Invariance
<1> QED BY <1>1, <1>2, FlatInitial, PTL DEF Spec, IsFlatMemory, Flat!Spec
=============================================================================
