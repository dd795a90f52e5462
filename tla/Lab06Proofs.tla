---------------------------- MODULE Lab06Proofs ----------------------------
(***************************************************************************)
(* The data cache of Lab06 with its memory implements FlatMemory: for      *)
(* every program, any number of tags, lines, bytes in a block and clock    *)
(* periods in a #40, and in each of the three orders of events.            *)
(***************************************************************************)
EXTENDS Lab06System, DataMemoryProofs

-----------------------------------------------------------------------------
(* Types *)

States == {"IDLE", "MEM_READ", "MEM_WRITE"}

LEMMA Signals ==
  ASSUME TypeOK
  PROVE  /\ address.tag \in Tags /\ index \in Indices /\ address.offset \in Offsets
         /\ valid_out \in BOOLEAN /\ dirty_out \in BOOLEAN
         /\ tag_out \in Tags /\ block_out \in Blocks /\ readdata \in Bytes
         /\ requestBlock \in BlockAddresses /\ lineBlock \in BlockAddresses
         /\ mem_address = IF mem_write THEN lineBlock ELSE requestBlock
         /\ mem_address \in BlockAddresses /\ mem_writedata = block_out
<1>1. address.tag \in Tags /\ index \in Indices /\ address.offset \in Offsets
  BY DEF TypeOK, Addresses, index
<1>2. /\ valid_out \in BOOLEAN /\ dirty_out \in BOOLEAN
      /\ tag_out \in Tags /\ block_out \in Blocks
  BY <1>1 DEF TypeOK, valid_out, dirty_out, tag_out, block_out
<1>3. readdata \in Bytes
  BY <1>1, <1>2 DEF readdata, Blocks
<1>4. requestBlock \in BlockAddresses /\ lineBlock \in BlockAddresses
  BY <1>1, <1>2 DEF requestBlock, lineBlock, BlockAddresses
<1>5. mem_address = IF mem_write THEN lineBlock ELSE requestBlock
  BY DEF mem_address, lineBlock, requestBlock
<1> QED BY <1>1, <1>2, <1>3, <1>4, <1>5 DEF mem_writedata

LEMMA NextState ==
  ASSUME state \in States, NEW busy
  PROVE  /\ state = "IDLE" =>
              next_state(busy) = IF access /\ ~hit
                                 THEN IF dirty_out /\ valid_out THEN "MEM_WRITE" ELSE "MEM_READ"
                                 ELSE "IDLE"
         /\ state = "MEM_WRITE" => next_state(busy) = IF busy THEN "MEM_WRITE" ELSE "MEM_READ"
         /\ state = "MEM_READ" => next_state(busy) = IF busy THEN "MEM_READ" ELSE "IDLE"
<1>1. CASE state = "IDLE"
  BY <1>1 DEF next_state
<1>2. CASE state = "MEM_WRITE"
  BY <1>2 DEF next_state
<1>3. CASE state = "MEM_READ"
  BY <1>3 DEF next_state
<1> QED BY <1>1, <1>2, <1>3 DEF States

\* What the arrays do on an edge: nothing, a write hit, a fill, or one behind the other.
LEMMA ArrayCases ==
  ASSUME TypeOK, NEW busy \in BOOLEAN, NEW block \in Blocks, PosedgeArrays(busy, block)
  PROVE  /\ ~Fill(busy) /\ ~WriteHit(state) => UNCHANGED arrayVars
         /\ ~Fill(busy) /\ WriteHit(state) =>
              /\ data_array' = [data_array EXCEPT ![index][address.offset] = writedata]
              /\ dirty_array' = [dirty_array EXCEPT ![index] = TRUE]
              /\ UNCHANGED <<tag_array, valid_array>>
         /\ Fill(busy) =>
              /\ tag_array'   = [tag_array   EXCEPT ![index] = address.tag]
              /\ valid_array' = [valid_array EXCEPT ![index] = TRUE]
              /\ dirty_array' = [dirty_array EXCEPT ![index] = WriteHit(state')]
              /\ ~WriteHit(state') => data_array' = [data_array EXCEPT ![index] = block]
              /\ WriteHit(state') =>
                   data_array' = [data_array EXCEPT
                                    ![index] = [block EXCEPT ![address.offset] = writedata]]
<1>1. /\ index \in Indices /\ block_out = data_array[index] /\ dirty_out = dirty_array[index]
      /\ valid_array \in [Indices -> BOOLEAN] /\ dirty_array \in [Indices -> BOOLEAN]
      /\ tag_array \in [Indices -> Tags] /\ data_array \in [Indices -> Blocks]
  BY Signals DEF TypeOK, block_out, dirty_out
<1>2. /\ [data_array EXCEPT ![index] = block_out] = data_array
      /\ [tag_array EXCEPT ![index] = tag_array[index]] = tag_array
      /\ [valid_array EXCEPT ![index] = valid_array[index]] = valid_array
      /\ [dirty_array EXCEPT ![index] = dirty_out] = dirty_array
  BY <1>1
<1>3. CASE ~Fill(busy)
  <2>1. /\ tag_array' = tag_array /\ valid_array' = valid_array
        /\ dirty_array' = [dirty_array EXCEPT ![index] = WriteHit(state) \/ dirty_out]
        /\ data_array' = [data_array EXCEPT
                            ![index] = IF WriteHit(state)
                                       THEN [block_out EXCEPT ![address.offset] = writedata]
                                       ELSE block_out]
    BY <1>1, <1>2, <1>3 DEF PosedgeArrays, dirtied
  <2>2. CASE WriteHit(state)
    BY <1>1, <1>3, <2>1, <2>2
  <2>3. CASE ~WriteHit(state)
    <3>1. (WriteHit(state) \/ dirty_out) = dirty_out
      BY <1>1, <2>3
    <3> QED BY <1>2, <1>3, <2>1, <2>3, <3>1 DEF arrayVars
  <2> QED BY <2>2, <2>3
<1>4. CASE Fill(busy)
  <2>1. /\ tag_array'   = [tag_array EXCEPT ![index] = address.tag]
        /\ valid_array' = [valid_array EXCEPT ![index] = TRUE]
        /\ dirty_array' = [dirty_array EXCEPT ![index] = WriteHit(state') \/ FALSE]
        /\ data_array'  = [data_array EXCEPT
                             ![index] = IF WriteHit(state')
                                        THEN [block EXCEPT ![address.offset] = writedata]
                                        ELSE block]
    BY <1>1, <1>4 DEF PosedgeArrays, dirtied
  <2>2. WriteHit(state') \in BOOLEAN
    BY DEF WriteHit
  <2>3. (WriteHit(state') \/ FALSE) = WriteHit(state')
    BY <2>2
  <2>4. dirty_array' = [dirty_array EXCEPT ![index] = WriteHit(state')]
    BY <2>1, <2>3
  <2> QED BY <1>4, <2>1, <2>4
<1> QED BY <1>3, <1>4

LEMMA EdgeTypes ==
  ASSUME TypeOK, Edge
  PROVE  TypeOK'
<1>1. PICK order \in EdgeOrders :
        /\ MemoryPosedge(order, mem_address, mem_writedata)
        /\ state' = next_state(stateBusy(order))
        /\ PosedgeArrays(fillBusy(order), mem_readdata')
  BY DEF Edge
<1>2. /\ memory_array' \in [BlockAddresses -> Blocks]
      /\ mem_readdata' \in Blocks /\ process' \in Processes
  BY <1>1, Signals, MemoryPosedgeTypes DEF TypeOK
<1>3. MemoryTypeOK'
  BY <1>2 DEF TypeOK, MemoryTypeOK, Edge, AccessDetect
<1>4. state' \in States
  BY <1>1, NextState DEF TypeOK, States
<1> DEFINE fills  == Fill(fillBusy(order))
           writes == WriteHit(IF fills THEN state' ELSE state)
           line   == IF fills THEN mem_readdata' ELSE block_out
           after  == IF writes THEN [line EXCEPT ![address.offset] = writedata] ELSE line
<1>5. /\ valid_array' \in [Indices -> BOOLEAN] /\ dirty_array' \in [Indices -> BOOLEAN]
      /\ tag_array' \in [Indices -> Tags]
  <2>1. fills \in BOOLEAN /\ dirtied(fills, writes) \in BOOLEAN
    BY Signals DEF TypeOK, Fill, dirtied, WriteHit
  <2>2. /\ valid_array' = [valid_array EXCEPT ![index] = fills \/ valid_array[index]]
        /\ dirty_array' = [dirty_array EXCEPT ![index] = dirtied(fills, writes)]
        /\ tag_array' = [tag_array EXCEPT ![index] = IF fills THEN address.tag
                                                     ELSE tag_array[index]]
    BY <1>1 DEF PosedgeArrays
  <2> HIDE DEF fills, writes
  <2> QED BY <2>1, <2>2, Signals DEF TypeOK
<1>6. data_array' \in [Indices -> Blocks]
  <2>1. line \in Blocks
    BY <1>2, Signals
  <2>2. after \in Blocks
    <3> HIDE DEF line, writes
    <3> QED BY <2>1, Signals DEF TypeOK, Blocks
  <2>3. data_array' = [data_array EXCEPT ![index] = after]
    BY <1>1 DEF PosedgeArrays
  <2> HIDE DEF after
  <2> QED BY <2>2, <2>3, Signals DEF TypeOK
<1>7. UNCHANGED requestVars /\ phase' \in {"edge", "decode", "operands"}
  BY DEF Edge
<1>8. loaded' \in Bytes
  BY Signals DEF TypeOK, Edge
<1> QED BY <1>3, <1>4, <1>5, <1>6, <1>7, <1>8 DEF TypeOK, States, requestVars

-----------------------------------------------------------------------------
(* What the edge does, by the state that it finds the FSM in. *)

Flags(busy, r, w) == mem_busywait' = busy /\ mem_readaccess' = r /\ mem_writeaccess' = w

\* The instruction completes.
Served ==
  /\ state = "IDLE" /\ (access => hit)
  /\ state' = "IDLE" /\ phase' = "decode"
  /\ UNCHANGED memoryVars
  /\ UNCHANGED <<tag_array, valid_array>>
  /\ data_array' = IF write /\ hit THEN [data_array EXCEPT ![index][address.offset] = writedata]
                   ELSE data_array
  /\ dirty_array' = IF write /\ hit THEN [dirty_array EXCEPT ![index] = TRUE] ELSE dirty_array
  /\ loaded' = IF read THEN readdata ELSE loaded

Held == phase' = "edge" /\ loaded' = loaded

\* The FSM takes up a miss.
Missed ==
  /\ state = "IDLE" /\ access /\ ~hit
  /\ state' = IF dirty_out /\ valid_out THEN "MEM_WRITE" ELSE "MEM_READ"
  /\ Flags(TRUE, state' = "MEM_READ", state' = "MEM_WRITE")
  /\ UNCHANGED <<memory_array, mem_readdata, process>> /\ UNCHANGED arrayVars
  /\ Held

\* A write-back goes on, or hands over to the fetch.
WritesBack ==
  /\ state = "MEM_WRITE"
  /\ \/ /\ state' = "MEM_WRITE"
        /\ Flags(mem_busywait /\ ~AccessEnds, FALSE, mem_busywait /\ ~AccessEnds)
     \/ /\ state' = "MEM_READ" /\ (~mem_busywait \/ AccessEnds)
        /\ Flags(TRUE, TRUE, FALSE)
  /\ UNCHANGED arrayVars
  /\ Held

\* A fetch goes on.
Fetches ==
  /\ state = "MEM_READ" /\ state' = "MEM_READ"
  /\ Flags(mem_busywait /\ ~AccessEnds, mem_busywait /\ ~AccessEnds, FALSE)
  /\ UNCHANGED arrayVars
  /\ Held

\* The line takes the block, and the CPU is held once more: until its lookup hits, or the
\* FSM moves.
Fills ==
  /\ state = "MEM_READ" /\ (~mem_busywait \/ AccessEnds)
  /\ \/ state' = "IDLE" /\ Flags(FALSE, FALSE, FALSE)
     \/ state' = "MEM_READ" /\ \E busy \in BOOLEAN : Flags(busy, busy, FALSE)
  /\ data_array'  = [data_array  EXCEPT ![index] = mem_readdata']
  /\ tag_array'   = [tag_array   EXCEPT ![index] = address.tag]
  /\ valid_array' = [valid_array EXCEPT ![index] = TRUE]
  /\ dirty_array' = [dirty_array EXCEPT ![index] = FALSE]
  /\ Held

\* The line takes a block that it holds, and the request is served on the same edge.
Refills ==
  /\ state = "MEM_READ" /\ (~mem_busywait \/ AccessEnds)
  /\ state' = "IDLE" /\ phase' = "decode" /\ Flags(FALSE, FALSE, FALSE)
  /\ access /\ hit
  /\ data_array' = [data_array EXCEPT
                      ![index] = IF write THEN [mem_readdata' EXCEPT ![address.offset] = writedata]
                                 ELSE mem_readdata']
  /\ tag_array'   = [tag_array   EXCEPT ![index] = address.tag]
  /\ valid_array' = [valid_array EXCEPT ![index] = TRUE]
  /\ dirty_array' = [dirty_array EXCEPT ![index] = write]
  /\ loaded' = IF read THEN readdata ELSE loaded

\* The FSM changes its state, and so do the strobes that memory sees.
LEMMA EventOfState ==
  ASSUME state' # state
  PROVE  event = (mem_read \/ mem_write \/ mem_read' \/ mem_write')
BY DEF event, outputView

\* Nothing that the outputs depend on moves.
LEMMA NoEvent ==
  ASSUME state' = state, UNCHANGED arrayVars, UNCHANGED requestVars
  PROVE  ~event
BY DEF event, outputView, index, tag_out, block_out, arrayVars, requestVars

LEMMA Bus ==
  ASSUME IInv
  PROVE  /\ OneAccess /\ MemoryTypeOK /\ state \in States
         /\ state = "IDLE" => process.op = "wait" /\ ~mem_busywait
         /\ state = "MEM_READ" => mem_readaccess = mem_busywait /\ ~mem_writeaccess
         /\ state = "MEM_WRITE" => mem_writeaccess = mem_busywait /\ ~mem_readaccess
<1>1. TypeOK /\ BusInv /\ MemoryTypeOK /\ process.op \in {"wait", "read", "write"}
  BY DEF IInv, TypeOK, MemoryTypeOK, Processes
<1>2. state = "IDLE" => process.op = "wait" /\ ~mem_busywait
  BY <1>1 DEF BusInv, MemoryServesFSM
<1>3. state \in States
  BY <1>1 DEF TypeOK, States
<1>4. /\ state = "MEM_READ" => mem_readaccess = mem_busywait /\ ~mem_writeaccess
      /\ state = "MEM_WRITE" => mem_writeaccess = mem_busywait /\ ~mem_readaccess
      /\ state = "IDLE" => ~mem_readaccess /\ ~mem_writeaccess
  BY <1>1 DEF BusInv, MemoryTypeOK
<1>5. /\ process.op = "read" => mem_busywait /\ state = "MEM_READ"
      /\ process.op = "write" => mem_busywait /\ state = "MEM_WRITE"
  BY <1>1 DEF BusInv, MemoryServesFSM
<1>6. OneAccess
  BY <1>1, <1>2, <1>3, <1>4, <1>5 DEF OneAccess, States, MemoryTypeOK
<1> QED BY <1>1, <1>2, <1>3, <1>4, <1>6

LEMMA EdgeCases ==
  ASSUME IInv, Edge
  PROVE  Served \/ Missed \/ WritesBack \/ Fetches \/ Fills \/ Refills
<1>1. PICK order \in EdgeOrders :
        /\ MemoryPosedge(order, mem_address, mem_writedata)
        /\ state' = next_state(stateBusy(order))
        /\ PosedgeArrays(fillBusy(order), mem_readdata')
  BY DEF Edge
<1>2. /\ AccessDetect(event, mem_read', mem_write', AccessEnds)
      /\ loaded' = IF read /\ ~stalled THEN readdata ELSE loaded
      /\ phase' = IF stalled THEN "edge" ELSE "decode"
      /\ UNCHANGED requestVars
  BY DEF Edge
<1>3. TypeOK /\ MemoryTypeOK /\ RequestInv /\ mem_readdata' \in Blocks
  BY EdgeTypes DEF IInv, TypeOK, MemoryTypeOK
<1> DEFINE sBusy == stateBusy(order)
           fBusy == fillBusy(order)
<1>4. /\ sBusy \in BOOLEAN /\ fBusy \in BOOLEAN
      /\ fBusy => sBusy
      /\ ~sBusy => ~mem_busywait \/ AccessEnds
      /\ ~fBusy => ~mem_busywait \/ AccessEnds
  BY <1>3 DEF stateBusy, fillBusy, MemoryTypeOK
<1>5. state' = next_state(sBusy) /\ PosedgeArrays(fBusy, mem_readdata')
  BY <1>1
<1> HIDE DEF sBusy, fBusy
<1>8. /\ ~Fill(fBusy) /\ ~WriteHit(state) => UNCHANGED arrayVars
      /\ ~Fill(fBusy) /\ WriteHit(state) =>
           /\ data_array' = [data_array EXCEPT ![index][address.offset] = writedata]
           /\ dirty_array' = [dirty_array EXCEPT ![index] = TRUE]
           /\ UNCHANGED <<tag_array, valid_array>>
      /\ Fill(fBusy) =>
           /\ tag_array'   = [tag_array   EXCEPT ![index] = address.tag]
           /\ valid_array' = [valid_array EXCEPT ![index] = TRUE]
           /\ dirty_array' = [dirty_array EXCEPT ![index] = WriteHit(state')]
           /\ ~WriteHit(state') => data_array' = [data_array EXCEPT ![index] = mem_readdata']
           /\ WriteHit(state') =>
                data_array' = [data_array EXCEPT
                                 ![index] = [mem_readdata' EXCEPT ![address.offset] = writedata]]
  BY <1>3, <1>4, <1>5, ArrayCases
<1>6. CASE state = "IDLE"
  <2>1. process.op = "wait" /\ ~mem_busywait /\ ~mem_readaccess /\ ~mem_writeaccess
    BY <1>6, Bus DEF OneAccess
  <2>2. ~AccessEnds /\ UNCHANGED <<memory_array, mem_readdata, process>>
    BY <1>1, <2>1 DEF AccessEnds, ByteEnds, MemoryPosedge, StoreByte
  <2>3. CASE access /\ ~hit
    <3>1. state' = IF dirty_out /\ valid_out THEN "MEM_WRITE" ELSE "MEM_READ"
      BY <1>3, <1>5, <1>6, <2>3, NextState DEF TypeOK, States
    <3>2. UNCHANGED arrayVars
      BY <1>6, <1>8, <2>3 DEF Fill, WriteHit
    <3>3. event /\ mem_read' = (state' = "MEM_READ") /\ mem_write' = (state' = "MEM_WRITE")
      BY <1>6, <3>1, EventOfState DEF mem_read, mem_write
    <3>4. Flags(TRUE, state' = "MEM_READ", state' = "MEM_WRITE")
      <4>1. CASE state' = "MEM_READ"
        BY <1>2, <3>3, <4>1 DEF AccessDetect, Flags
      <4>2. CASE state' = "MEM_WRITE"
        BY <1>2, <3>3, <4>2 DEF AccessDetect, Flags
      <4> QED BY <3>1, <4>1, <4>2
    <3>5. Held
      BY <1>2, <2>3, <3>1 DEF Held, stalled, busywait
    <3> QED BY <1>6, <2>2, <2>3, <3>1, <3>2, <3>4, <3>5 DEF Missed
  <2>4. CASE ~(access /\ ~hit)
    <3>1. state' = "IDLE" /\ ~stalled
      BY <1>3, <1>5, <1>6, <2>4, NextState DEF TypeOK, States, stalled, busywait
    <3>2. ~event
      BY <1>6, <3>1 DEF event, mem_read, mem_write
    <3>3. UNCHANGED <<mem_busywait, mem_readaccess, mem_writeaccess>>
      BY <1>2, <1>3, <2>2, <3>2 DEF AccessDetect, MemoryTypeOK
    <3>4. /\ UNCHANGED <<tag_array, valid_array>>
          /\ data_array' = IF write /\ hit
                           THEN [data_array EXCEPT ![index][address.offset] = writedata]
                           ELSE data_array
          /\ dirty_array' = IF write /\ hit THEN [dirty_array EXCEPT ![index] = TRUE]
                            ELSE dirty_array
      BY <1>6, <1>8 DEF Fill, WriteHit, arrayVars
    <3> QED BY <1>2, <1>6, <2>2, <2>4, <3>1, <3>3, <3>4 DEF Served, memoryVars
  <2> QED BY <2>3, <2>4
<1>7. CASE state # "IDLE"
  <2>1. state' # "IDLE" => Held
    BY <1>2 DEF stalled, busywait, Held
  <2>2. CASE state = "MEM_WRITE"
    <3>1. UNCHANGED arrayVars
      BY <1>8, <2>2 DEF Fill, WriteHit
    <3>2. state' = IF sBusy THEN "MEM_WRITE" ELSE "MEM_READ"
      BY <1>3, <1>5, <2>2, NextState DEF TypeOK, States
    <3>3. mem_writeaccess = mem_busywait /\ ~mem_readaccess
      BY <2>2, Bus
    <3>4. CASE sBusy
      <4>1. ~event
        BY <1>2, <2>2, <3>1, <3>2, <3>4, NoEvent
      <4>2. AccessEnds => process.op = "write"
        BY <2>2, Bus DEF AccessEnds, ByteEnds, OneAccess, MemoryTypeOK, Processes
      <4>3. Flags(mem_busywait /\ ~AccessEnds, FALSE, mem_busywait /\ ~AccessEnds)
        BY <1>2, <1>3, <3>3, <4>1, <4>2 DEF AccessDetect, Flags, MemoryTypeOK
      <4> QED BY <2>1, <2>2, <3>1, <3>2, <3>4, <4>3 DEF WritesBack
    <3>5. CASE ~sBusy
      <4>1. event /\ mem_read' /\ ~mem_write'
        BY <2>2, <3>2, <3>5, EventOfState DEF mem_read, mem_write
      <4>2. Flags(TRUE, TRUE, FALSE)
        BY <1>2, <4>1 DEF AccessDetect, Flags
      <4> QED BY <1>4, <2>1, <2>2, <3>1, <3>2, <3>5, <4>2 DEF WritesBack
    <3> QED BY <3>4, <3>5
  <2>3. CASE state = "MEM_READ"
    <3>1. state' = IF sBusy THEN "MEM_READ" ELSE "IDLE"
      BY <1>3, <1>5, <2>3, NextState DEF TypeOK, States
    <3>2. mem_readaccess = mem_busywait /\ ~mem_writeaccess
      BY <2>3, Bus
    <3>3. AccessEnds => process.op = "read"
      BY <2>3, Bus DEF AccessEnds, ByteEnds, OneAccess, MemoryTypeOK, Processes
    <3>4. ~event => Flags(mem_busywait /\ ~AccessEnds, mem_busywait /\ ~AccessEnds, FALSE)
      BY <1>2, <1>3, <3>2, <3>3 DEF AccessDetect, Flags, MemoryTypeOK
    <3>5. CASE fBusy
      <4>1. UNCHANGED arrayVars
        BY <1>8, <2>3, <3>5 DEF Fill, WriteHit
      <4>2. state' = "MEM_READ" /\ ~event
        BY <1>2, <1>4, <2>3, <3>1, <3>5, <4>1, NoEvent
      <4> QED BY <2>1, <2>3, <3>4, <4>1, <4>2 DEF Fetches
    <3>6. CASE ~fBusy
      <4>1. /\ Fill(fBusy)
            /\ tag_array'   = [tag_array   EXCEPT ![index] = address.tag]
            /\ valid_array' = [valid_array EXCEPT ![index] = TRUE]
        BY <1>8, <2>3, <3>6 DEF Fill
      <4>2. ~WriteHit(state') =>
              /\ data_array'  = [data_array  EXCEPT ![index] = mem_readdata']
              /\ dirty_array' = [dirty_array EXCEPT ![index] = FALSE]
        <5>1. WriteHit(state') \in BOOLEAN
          BY DEF WriteHit
        <5> QED BY <1>8, <4>1, <5>1
      <4>3. CASE ~sBusy
        <5>1. event /\ ~mem_read' /\ ~mem_write' /\ state' = "IDLE"
          BY <2>3, <3>1, <4>3, EventOfState DEF mem_read, mem_write
        <5>2. Flags(FALSE, FALSE, FALSE)
          BY <1>2, <5>1 DEF AccessDetect, Flags
        <5>3. CASE hit
          <6>1. access /\ ~stalled
            BY <1>3, <2>3, <5>1, <5>3 DEF RequestInv, stalled, busywait
          <6>2. WriteHit(state') = write /\ write \in BOOLEAN
            BY <1>3, <5>1, <5>3 DEF WriteHit, TypeOK
          <6>3. /\ dirty_array' = [dirty_array EXCEPT ![index] = write]
                /\ data_array' = [data_array EXCEPT
                      ![index] = IF write THEN [mem_readdata' EXCEPT ![address.offset] = writedata]
                                 ELSE mem_readdata']
            BY <1>8, <4>1, <6>2
          <6> QED BY <1>2, <1>4, <2>3, <3>6, <4>1, <5>1, <5>2, <5>3, <6>1, <6>3 DEF Refills
        <5>4. CASE ~hit
          <6>1. Held
            BY <1>2, <1>3, <2>3, <5>4 DEF RequestInv, stalled, busywait, Held
          <6>2. ~WriteHit(state')
            BY <5>4 DEF WriteHit
          <6> QED BY <1>4, <2>3, <3>6, <4>1, <4>2, <5>1, <5>2, <6>1, <6>2 DEF Fills
        <5> QED BY <5>3, <5>4
      <4>4. CASE sBusy
        <5>1. state' = "MEM_READ" /\ mem_read' /\ ~mem_write'
          BY <3>1, <4>4 DEF mem_read, mem_write
        <5>2. event => Flags(TRUE, TRUE, FALSE)
          BY <1>2, <5>1 DEF AccessDetect, Flags
        <5>3. \E busy \in BOOLEAN : Flags(busy, busy, FALSE)
          BY <1>3, <3>4, <5>2 DEF MemoryTypeOK
        <5>4. ~WriteHit(state')
          BY <5>1 DEF WriteHit
        <5> QED BY <1>4, <2>1, <2>3, <3>6, <4>1, <4>2, <5>1, <5>3, <5>4 DEF Fills
      <4> QED BY <4>3, <4>4
    <3> QED BY <3>5, <3>6
  <2> QED BY <1>3, <1>7, <2>2, <2>3 DEF TypeOK
<1> QED BY <1>6, <1>7

-----------------------------------------------------------------------------
(* The bytes that move between a line and memory. *)

\* A write-back puts the line's bytes where the line came from, in order.
LEMMA WriteBackBytes ==
  ASSUME IInv, Edge, state = "MEM_WRITE"
  PROVE  /\ process'.op = "write" =>
              /\ process'.byte = block_out[process'.beat]
              /\ \A k \in Offsets : k < process'.beat => memory_array'[lineBlock][k] = block_out[k]
         /\ ~mem_busywait \/ AccessEnds => memory_array'[lineBlock] = block_out
         /\ \A c \in BlockAddresses \ {lineBlock} : memory_array'[c] = memory_array[c]
         /\ process'.op \in {"wait", "write"}
         /\ process'.op = "write" => mem_busywait /\ ~AccessEnds
<1>1. PICK order \in EdgeOrders : MemoryPosedge(order, mem_address, mem_writedata)
  BY DEF Edge
<1>2. /\ mem_address = lineBlock /\ mem_writedata = block_out
      /\ lineBlock \in BlockAddresses /\ block_out \in Blocks
  BY Signals DEF IInv, mem_write
<1>3. SentOn(lineBlock, block_out)
  BY DEF IInv, DataInv, SentOn
<1>4. MemoryTypeOK /\ OneAccess /\ ~mem_readaccess
  BY Bus
<1>5. ~mem_busywait => block_out = memory_array[lineBlock]
  BY DEF IInv, DataInv
<1> QED BY <1>1, <1>2, <1>3, <1>4, <1>5, WriteGoesOn

\* A fetch collects the bytes of the block that is asked for, in order.
LEMMA FetchBytes ==
  ASSUME IInv, Edge, state = "MEM_READ"
  PROVE  /\ memory_array' = memory_array
         /\ process'.op = "read" =>
              /\ process'.byte = memory_array[requestBlock][process'.beat]
              /\ \A k \in Offsets :
                   k < process'.beat => mem_readdata'[k] = memory_array[requestBlock][k]
         /\ ~mem_busywait \/ AccessEnds => mem_readdata' = memory_array[requestBlock]
         /\ process'.op \in {"wait", "read"}
         /\ process'.op = "read" => mem_busywait /\ ~AccessEnds
<1>1. PICK order \in EdgeOrders : MemoryPosedge(order, mem_address, mem_writedata)
  BY DEF Edge
<1>2. /\ mem_address = requestBlock /\ mem_writedata \in Blocks
      /\ requestBlock \in BlockAddresses
  BY Signals DEF IInv, mem_write
<1>3. Collected(requestBlock)
  BY DEF IInv, DataInv, Collected
<1>4. MemoryTypeOK /\ OneAccess /\ ~mem_writeaccess
  BY Bus
<1>5. ~mem_busywait => mem_readdata = memory_array[requestBlock]
  BY DEF IInv, DataInv
<1> QED BY <1>1, <1>2, <1>3, <1>4, <1>5, ReadGoesOn

-----------------------------------------------------------------------------
(* The invariant. *)

\* The lookup stands as long as request and arrays do.
LEMMA SameLookup ==
  ASSUME UNCHANGED arrayVars, UNCHANGED requestVars
  PROVE  UNCHANGED <<index, valid_out, dirty_out, tag_out, block_out, hit, access,
                     requestBlock, lineBlock>>
BY DEF arrayVars, requestVars, index, valid_out, dirty_out, tag_out, block_out, hit, access,
       requestBlock, lineBlock

\* Clean lines of the arrays are copies of their blocks.
CleanInv ==
  \A i \in Indices :
    valid_array[i] /\ ~dirty_array[i] => data_array[i] = memory_array[<<tag_array[i], i>>]

LEMMA ServedInv ==
  ASSUME IInv, Served, UNCHANGED requestVars
  PROVE  RequestInv' /\ BusInv' /\ DataInv'
<1>1. TypeOK /\ RequestInv /\ BusInv /\ DataInv /\ state = "IDLE" /\ state' = "IDLE"
  BY DEF IInv, Served
<1>2. RequestInv'
  BY <1>1 DEF RequestInv, requestVars
<1>3. UNCHANGED memoryVars /\ process.op = "wait"
  BY <1>1, Bus DEF Served
<1>4. BusInv'
  BY <1>1, <1>3 DEF BusInv, MemoryServesFSM, memoryVars
<1>5. CleanInv'
  <2>1. ASSUME NEW i \in Indices, valid_array'[i], ~dirty_array'[i]
        PROVE  data_array'[i] = memory_array'[<<tag_array'[i], i>>]
    <3>1. valid_array[i] /\ ~dirty_array[i] /\ data_array'[i] = data_array[i]
      BY <1>1, <2>1, Signals DEF Served, TypeOK
    <3> QED BY <1>1, <1>3, <3>1 DEF Served, DataInv, memoryVars
  <2> QED BY <2>1 DEF CleanInv
<1> QED BY <1>1, <1>2, <1>3, <1>4, <1>5 DEF DataInv, CleanInv, memoryVars

LEMMA MissedInv ==
  ASSUME IInv, Missed, phase = "edge", UNCHANGED requestVars
  PROVE  RequestInv' /\ BusInv' /\ DataInv'
<1>1. TypeOK /\ RequestInv /\ DataInv /\ UNCHANGED arrayVars /\ state = "IDLE"
  BY DEF IInv, Missed
<1>2. UNCHANGED <<index, valid_out, dirty_out, tag_out, block_out, hit, access,
                  requestBlock, lineBlock>>
  BY <1>1, SameLookup
<1>3. RequestInv'
  BY <1>1, <1>2 DEF RequestInv, Missed, Held, requestVars
<1>4. process.op = "wait" /\ UNCHANGED <<memory_array, mem_readdata, process>> /\ mem_busywait'
  BY <1>1, Bus DEF Missed, Flags
<1>5. state' \in {"MEM_READ", "MEM_WRITE"} /\ (state' = "MEM_READ" => ~(dirty_out /\ valid_out))
  BY DEF Missed
<1>6. BusInv'
  BY <1>4, <1>5 DEF BusInv, MemoryServesFSM, Missed, Flags
<1>7. state' = "MEM_READ" /\ valid_out => block_out = memory_array[lineBlock]
  <2>1. index \in Indices
    BY <1>1, Signals
  <2> QED BY <1>1, <1>5, <2>1 DEF DataInv, valid_out, dirty_out, block_out, lineBlock, tag_out
<1>8. CleanInv'
  BY <1>1, <1>4 DEF CleanInv, DataInv, arrayVars
<1> QED BY <1>2, <1>3, <1>4, <1>6, <1>7, <1>8 DEF DataInv, CleanInv

LEMMA WritesBackInv ==
  ASSUME IInv, Edge, WritesBack
  PROVE  RequestInv' /\ BusInv' /\ DataInv'
<1>1. /\ TypeOK /\ RequestInv /\ BusInv /\ DataInv /\ MemoryTypeOK
      /\ UNCHANGED arrayVars /\ UNCHANGED requestVars /\ state = "MEM_WRITE"
  BY DEF IInv, TypeOK, WritesBack, Edge
<1>2. UNCHANGED <<index, valid_out, dirty_out, tag_out, block_out, hit, access,
                  requestBlock, lineBlock>>
  BY <1>1, SameLookup
<1>3. RequestInv'
  BY <1>1, <1>2 DEF RequestInv, WritesBack, Held, requestVars
<1>4. /\ process'.op \in {"wait", "write"}
      /\ process'.op = "write" => mem_busywait /\ ~AccessEnds
      /\ ~mem_busywait \/ AccessEnds => memory_array'[lineBlock] = block_out
  BY <1>1, WriteBackBytes
<1>5. \/ /\ state' = "MEM_WRITE"
         /\ Flags(mem_busywait /\ ~AccessEnds, FALSE, mem_busywait /\ ~AccessEnds)
      \/ /\ state' = "MEM_READ" /\ (~mem_busywait \/ AccessEnds)
         /\ Flags(TRUE, TRUE, FALSE)
  BY DEF WritesBack
<1>6. BusInv'
  <2>1. CASE state' = "MEM_WRITE"
    BY <1>4, <1>5, <2>1 DEF BusInv, MemoryServesFSM, Flags
  <2>2. CASE state' = "MEM_READ"
    BY <1>4, <1>5, <2>2 DEF BusInv, MemoryServesFSM, Flags
  <2> QED BY <1>5, <2>1, <2>2
<1>7. CleanInv'
  <2>1. ASSUME NEW i \in Indices, valid_array[i], ~dirty_array[i]
        PROVE  data_array[i] = memory_array'[<<tag_array[i], i>>]
    <3>1. i # index
      BY <1>1, <2>1 DEF RequestInv, dirty_out
    <3>2. <<tag_array[i], i>> \in BlockAddresses \ {lineBlock}
      BY <1>1, <3>1 DEF TypeOK, BlockAddresses, lineBlock
    <3> QED BY <1>1, <2>1, <3>2, WriteBackBytes DEF DataInv
  <2> QED BY <1>1, <2>1 DEF CleanInv, arrayVars
<1>8. state' = "MEM_READ" => memory_array'[lineBlock] = block_out
  BY <1>4, <1>5
<1>9. state' = "MEM_WRITE" /\ ~mem_busywait' => memory_array'[lineBlock] = block_out
  BY <1>1, <1>4, <1>5 DEF Flags, MemoryTypeOK
<1>10. state' = "MEM_READ" => mem_busywait'
  BY <1>5 DEF Flags
<1>11. process'.op = "write" =>
         /\ process'.byte = block_out[process'.beat]
         /\ \A k \in Offsets : k < process'.beat => memory_array'[lineBlock][k] = block_out[k]
  BY <1>1, WriteBackBytes
<1>12. DataInv'
  BY <1>2, <1>4, <1>7, <1>8, <1>9, <1>10, <1>11 DEF DataInv, CleanInv
<1> QED BY <1>3, <1>6, <1>12

LEMMA FetchesInv ==
  ASSUME IInv, Edge, Fetches
  PROVE  RequestInv' /\ BusInv' /\ DataInv'
<1>1. /\ TypeOK /\ RequestInv /\ BusInv /\ DataInv /\ MemoryTypeOK
      /\ UNCHANGED arrayVars /\ UNCHANGED requestVars /\ state = "MEM_READ" /\ state' = "MEM_READ"
  BY DEF IInv, TypeOK, Fetches, Edge
<1>2. UNCHANGED <<index, valid_out, dirty_out, tag_out, block_out, hit, access,
                  requestBlock, lineBlock>>
  BY <1>1, SameLookup
<1>3. RequestInv'
  BY <1>1, <1>2 DEF RequestInv, Fetches, Held, requestVars
<1>4. /\ memory_array' = memory_array
      /\ process'.op \in {"wait", "read"}
      /\ process'.op = "read" => mem_busywait /\ ~AccessEnds
      /\ ~mem_busywait \/ AccessEnds => mem_readdata' = memory_array[requestBlock]
  BY <1>1, FetchBytes
<1>5. Flags(mem_busywait /\ ~AccessEnds, mem_busywait /\ ~AccessEnds, FALSE)
  BY DEF Fetches
<1>6. BusInv'
  BY <1>1, <1>4, <1>5 DEF BusInv, MemoryServesFSM, Flags
<1>7. ~mem_busywait' => mem_readdata' = memory_array[requestBlock]
  BY <1>1, <1>4, <1>5 DEF Flags, MemoryTypeOK
<1>8. process'.op = "read" =>
        /\ process'.byte = memory_array[requestBlock][process'.beat]
        /\ \A k \in Offsets : k < process'.beat => mem_readdata'[k] = memory_array[requestBlock][k]
  BY <1>1, FetchBytes
<1>9. CleanInv'
  BY <1>1, <1>4 DEF CleanInv, DataInv, arrayVars
<1>10. valid_out => block_out = memory_array[lineBlock]
  BY <1>1 DEF DataInv
<1>11. DataInv'
  BY <1>1, <1>2, <1>4, <1>7, <1>8, <1>9, <1>10 DEF DataInv, CleanInv
<1> QED BY <1>3, <1>6, <1>11

LEMMA FillsInv ==
  ASSUME IInv, Edge, Fills
  PROVE  RequestInv' /\ BusInv' /\ DataInv'
<1>1. /\ TypeOK /\ RequestInv /\ BusInv /\ DataInv /\ MemoryTypeOK
      /\ UNCHANGED requestVars /\ state = "MEM_READ" /\ index \in Indices
      /\ ~mem_busywait \/ AccessEnds
  BY Signals DEF IInv, TypeOK, Fills, Edge
<1>2. /\ memory_array' = memory_array /\ mem_readdata' = memory_array[requestBlock]
      /\ process'.op = "wait"
  BY <1>1, FetchBytes
<1>3. state' \in {"IDLE", "MEM_READ"} /\ index' = index /\ access' = access
  BY <1>1 DEF Fills, index, access, requestVars
<1>4. RequestInv'
  BY <1>1, <1>3 DEF RequestInv, Fills, Held, requestVars
<1>5. BusInv'
  <2>1. CASE state' = "IDLE" /\ Flags(FALSE, FALSE, FALSE)
    BY <1>2, <2>1 DEF BusInv, MemoryServesFSM, Flags
  <2>2. ASSUME state' = "MEM_READ", NEW busy \in BOOLEAN, Flags(busy, busy, FALSE) PROVE BusInv'
    BY <1>2, <2>2 DEF BusInv, MemoryServesFSM, Flags
  <2> QED BY <2>1, <2>2 DEF Fills
<1>6. data_array'[index] = memory_array[requestBlock] /\ tag_array'[index] = address.tag
  BY <1>1, <1>2 DEF Fills, TypeOK
<1>7. CleanInv'
  <2>1. ASSUME NEW i \in Indices, i # index, valid_array'[i], ~dirty_array'[i]
        PROVE  data_array'[i] = memory_array'[<<tag_array'[i], i>>]
    BY <1>1, <1>2, <2>1 DEF Fills, TypeOK, DataInv
  <2>2. data_array'[index] = memory_array'[<<tag_array'[index], index>>]
    BY <1>2, <1>6 DEF requestBlock
  <2> QED BY <2>1, <2>2 DEF CleanInv
<1>8. requestBlock' = requestBlock /\ lineBlock' = requestBlock
      /\ block_out' = memory_array[requestBlock]
  BY <1>1, <1>3, <1>6 DEF requestBlock, lineBlock, tag_out, block_out, requestVars
<1>9. DataInv'
  BY <1>2, <1>3, <1>7, <1>8 DEF DataInv, CleanInv
<1> QED BY <1>4, <1>5, <1>9

LEMMA RefillsInv ==
  ASSUME IInv, Edge, Refills
  PROVE  RequestInv' /\ BusInv' /\ DataInv'
<1>1. /\ TypeOK /\ RequestInv /\ UNCHANGED requestVars /\ DataInv /\ state' = "IDLE"
  BY DEF IInv, Refills, Edge
<1>2. RequestInv'
  BY <1>1 DEF RequestInv, requestVars
<1>3. memory_array' = memory_array /\ process'.op = "wait"
  BY FetchBytes DEF Refills, IInv
<1>4. BusInv'
  BY <1>1, <1>3 DEF BusInv, MemoryServesFSM, Refills, Flags
<1>5. CleanInv'
  <2>1. ASSUME NEW i \in Indices, valid_array'[i], ~dirty_array'[i]
        PROVE  data_array'[i] = memory_array'[<<tag_array'[i], i>>]
    <3>1. CASE i # index
      BY <1>1, <1>3, <2>1, <3>1 DEF Refills, TypeOK, DataInv
    <3>2. CASE i = index
      <4>1. ~write /\ tag_array'[i] = address.tag /\ data_array'[i] = mem_readdata'
        BY <1>1, <2>1, <3>2 DEF Refills, TypeOK
      <4> QED BY <1>3, <3>2, <4>1, FetchBytes DEF Refills, IInv, requestBlock
    <3> QED BY <3>1, <3>2
  <2> QED BY <2>1 DEF CleanInv
<1> QED BY <1>1, <1>2, <1>3, <1>4, <1>5 DEF DataInv, CleanInv

\* Between edges the FSM is idle and memory sees nothing.
LEMMA SettleInv ==
  ASSUME IInv, phase # "edge", Settle, ~(read' /\ write')
  PROVE  RequestInv' /\ BusInv' /\ DataInv' /\ MemoryTypeOK'
         /\ UNCHANGED <<memory_array, arrayVars, state, process, loaded>>
<1>1. TypeOK /\ RequestInv /\ BusInv /\ DataInv /\ MemoryTypeOK /\ state = "IDLE" /\ state' = "IDLE"
  BY DEF IInv, TypeOK, RequestInv, Settle
<1>2. ~event
  BY <1>1 DEF event, mem_read, mem_write
<1>3. UNCHANGED memoryVars
  BY <1>1, <1>2 DEF Settle, AccessDetect, memoryVars, MemoryTypeOK
<1>4. process.op = "wait" /\ ~mem_busywait /\ UNCHANGED arrayVars
  BY <1>1, Bus DEF Settle
<1>5. RequestInv' /\ BusInv'
  BY <1>1, <1>3, <1>4 DEF RequestInv, BusInv, MemoryServesFSM, memoryVars
<1>6. CleanInv'
  BY <1>1, <1>3, <1>4 DEF CleanInv, DataInv, memoryVars, arrayVars
<1>7. DataInv'
  BY <1>1, <1>3, <1>4, <1>6 DEF DataInv, CleanInv, memoryVars
<1>8. MemoryTypeOK'
  BY <1>1, <1>3 DEF MemoryTypeOK, memoryVars
<1> QED BY <1>3, <1>5, <1>7, <1>8 DEF Settle, memoryVars

LEMMA NextIInv == IInv /\ [Next]_vars => IInv'
<1> SUFFICES ASSUME IInv, [Next]_vars PROVE IInv'
  OBVIOUS
<1>1. CASE Edge
  <2>1. TypeOK' /\ UNCHANGED requestVars /\ phase = "edge"
    BY <1>1, EdgeTypes DEF IInv, Edge
  <2>2. RequestInv' /\ BusInv' /\ DataInv'
    BY <1>1, <2>1, EdgeCases, ServedInv, MissedInv, WritesBackInv, FetchesInv,
       FillsInv, RefillsInv
  <2> QED BY <2>1, <2>2 DEF IInv
<1>2. ASSUME NEW r \in BOOLEAN, NEW w \in BOOLEAN, Decode(r, w) PROVE IInv'
  <2>1. Settle /\ phase # "edge" /\ ~(read' /\ write')
    BY <1>2 DEF Decode
  <2>2. TypeOK'
    BY <1>2, <2>1, SettleInv DEF IInv, TypeOK, Decode, arrayVars
  <2> QED BY <2>1, <2>2, SettleInv DEF IInv
<1>3. ASSUME NEW a \in Addresses, NEW d \in Bytes, Operands(a, d) PROVE IInv'
  <2>1. Settle /\ phase # "edge" /\ ~(read' /\ write')
    BY <1>3 DEF Operands, IInv, RequestInv
  <2>2. TypeOK'
    BY <1>3, <2>1, SettleInv DEF IInv, TypeOK, Operands, arrayVars
  <2> QED BY <2>1, <2>2, SettleInv DEF IInv
<1>4. CASE UNCHANGED vars
  <2>1. UNCHANGED requestVars /\ UNCHANGED arrayVars /\ UNCHANGED memoryVars
        /\ UNCHANGED <<state, loaded, phase>>
    BY <1>4 DEF vars
  <2>2. UNCHANGED <<index, valid_out, dirty_out, tag_out, block_out, hit, access,
                    requestBlock, lineBlock>>
    BY <2>1, SameLookup
  <2>3. TypeOK'
    BY <2>1 DEF IInv, TypeOK, MemoryTypeOK, requestVars, arrayVars, memoryVars
  <2>4. RequestInv' /\ BusInv'
    BY <2>1, <2>2 DEF IInv, RequestInv, BusInv, MemoryServesFSM, requestVars, memoryVars
  <2>5. CleanInv'
    BY <2>1 DEF IInv, DataInv, CleanInv, arrayVars, memoryVars
  <2>6. DataInv'
    BY <2>1, <2>2, <2>5 DEF IInv, DataInv, CleanInv, memoryVars
  <2> QED BY <2>3, <2>4, <2>6 DEF IInv
<1> QED BY <1>1, <1>2, <1>3, <1>4 DEF Next

LEMMA InitIInv == Init => IInv
<1> SUFFICES ASSUME Init PROVE IInv
  OBVIOUS
<1>1. ZeroBlock \in Blocks /\ 0 \in Offsets /\ BeatCycles \in 1 .. BeatCycles
  BY SpaceAssumption, BeatAssumption DEF ZeroBlock, Blocks, Offsets
<1>2. MemoryTypeOK
  BY <1>1, SpaceAssumption DEF Init, MemoryInit, MemoryTypeOK, Waiting, Processes
<1>3. TypeOK
  BY <1>1, <1>2, SpaceAssumption DEF Init, TypeOK
<1> QED BY <1>3 DEF IInv, RequestInv, BusInv, MemoryServesFSM, DataInv, Init, MemoryInit, Waiting

\* The inductive invariant holds for every program (src/Lab06/dcache.v:90-192).
THEOREM Invariance == Spec => []IInv
<1>1. Init => IInv
  BY InitIInv
<1>2. IInv /\ [Next]_vars => IInv'
  BY NextIInv
<1> QED BY <1>1, <1>2, PTL DEF Spec

\* Every register keeps its width.
THEOREM TypeCorrect == Spec => []TypeOK
<1>1. IInv => TypeOK
  BY DEF IInv
<1> QED BY <1>1, Invariance, PTL

\* Memory works only for the state that the FSM is in (src/Lab06/dcache.v:104-153).
THEOREM ServesFSM == Spec => []MemoryServesFSM
<1>1. IInv => MemoryServesFSM
  BY DEF IInv, BusInv
<1> QED BY <1>1, Invariance, PTL

\* Only a fill changes a tag, and what a fetch replaces is what memory holds
\* (src/Lab06/dcache.v:107-129).
THEOREM WriteBacksFirst == Spec => WriteBackFirst
<1> DEFINE Replaced == \A i \in Indices :
                          valid_array[i] /\ tag_array'[i] # tag_array[i]
                            => data_array[i] = memory_array[<<tag_array[i], i>>]
<1>1. ASSUME IInv, [Next]_vars PROVE Replaced
  <2>1. CASE Edge
    <3>1. UNCHANGED tag_array \/ Fills
      <4>1. Refills => UNCHANGED tag_array
        BY <1>1, Signals DEF Refills, hit, tag_out, IInv, TypeOK
      <4> QED BY <1>1, <2>1, <4>1, EdgeCases DEF Served, Missed, WritesBack, Fetches, arrayVars
    <3>2. CASE Fills
      <4>1. valid_array[index] => data_array[index] = memory_array[<<tag_array[index], index>>]
        BY <1>1, <3>2 DEF IInv, DataInv, Fills, valid_out, block_out, lineBlock, tag_out
      <4>2. \A i \in Indices \ {index} : tag_array'[i] = tag_array[i]
        BY <1>1, <3>2 DEF IInv, TypeOK, Fills
      <4> QED BY <4>1, <4>2
    <3> QED BY <3>1, <3>2
  <2>2. CASE ~Edge
    BY <1>1, <2>2 DEF Next, Decode, Operands, Settle, arrayVars, vars
  <2> QED BY <2>1, <2>2
<1>2. IInv /\ [Next]_vars => [Replaced]_vars
  BY <1>1
<1> QED BY <1>2, Invariance, PTL DEF Spec, WriteBackFirst

-----------------------------------------------------------------------------
(* The refinement: what the CPU finds at an address, memoryView, is left   *)
(* alone by fetches and write-backs, and a store moves one byte of it.     *)

LEMMA AddressParts ==
  ASSUME NEW a \in Addresses
  PROVE  /\ a.tag \in Tags /\ a.index \in Indices /\ a.offset \in Offsets
         /\ <<a.tag, a.index>> \in BlockAddresses
BY DEF Addresses, BlockAddresses

\* While the line stays, memory changes under it at most where the line hides it.
LEMMA StallView ==
  ASSUME IInv, Edge, Missed \/ WritesBack \/ Fetches
  PROVE  memoryView' = memoryView
<1>1. UNCHANGED arrayVars
  BY DEF Missed, WritesBack, Fetches
<1>2. CASE state = "MEM_WRITE"
  <2>1. valid_out
    BY <1>2 DEF IInv, RequestInv
  <2>2. \A b \in BlockAddresses \ {lineBlock} : memory_array'[b] = memory_array[b]
    BY <1>2, WriteBackBytes
  <2>3. ASSUME NEW a \in Addresses, ~cached(a)
        PROVE  memory_array'[<<a.tag, a.index>>] = memory_array[<<a.tag, a.index>>]
    BY <2>1, <2>2, <2>3, AddressParts DEF cached, lineBlock, tag_out, valid_out
  <2>4. \A a \in Addresses : cached(a)' = cached(a)
    BY <1>1 DEF cached, arrayVars
  <2> QED BY <1>1, <2>3, <2>4 DEF memoryView, arrayVars
<1>3. CASE state # "MEM_WRITE"
  <2>1. memory_array' = memory_array
    BY <1>3, FetchBytes DEF Missed, WritesBack, Fetches
  <2> QED BY <1>1, <2>1 DEF memoryView, cached, arrayVars
<1> QED BY <1>2, <1>3

\* A fill replaces a line whose bytes memory holds by a block that memory holds.
LEMMA FilledView ==
  ASSUME IInv, Edge, Fills
  PROVE  memoryView' = memoryView
<1>1. /\ TypeOK /\ index \in Indices /\ state = "MEM_READ"
      /\ ~mem_busywait \/ AccessEnds
  BY Signals DEF IInv, Fills
<1>2. memory_array' = memory_array /\ mem_readdata' = memory_array[requestBlock]
  BY <1>1, FetchBytes
<1>3. /\ valid_array'[index] = TRUE /\ data_array'[index] = memory_array[requestBlock]
      /\ tag_array'[index] = address.tag
      /\ \A i \in Indices \ {index} :
            /\ valid_array'[i] = valid_array[i]
            /\ tag_array'[i] = tag_array[i] /\ data_array'[i] = data_array[i]
  BY <1>1, <1>2 DEF Fills, TypeOK
<1>4. valid_array[index] => data_array[index] = memory_array[lineBlock]
  BY <1>1 DEF IInv, DataInv, valid_out, block_out
<1>5. ASSUME NEW a \in Addresses PROVE memoryView'[a] = memoryView[a]
  <2>1. CASE a.index # index
    BY <1>2, <1>3, <2>1, AddressParts DEF memoryView, cached
  <2>2. CASE a.index = index /\ a.tag = address.tag
    BY <1>2, <1>3, <1>4, <2>2, AddressParts
       DEF memoryView, cached, requestBlock, lineBlock, tag_out
  <2>3. CASE a.index = index /\ a.tag # address.tag
    BY <1>2, <1>3, <1>4, <2>3, AddressParts DEF memoryView, cached, lineBlock, tag_out
  <2> QED BY <2>1, <2>2, <2>3
<1> QED BY <1>5 DEF memoryView

\* What an edge that completes an instruction has done, whether or not it fills a line.
Answered ==
  /\ access => hit
  /\ phase' = "decode"
  /\ UNCHANGED <<memory_array, tag_array, valid_array>>
  /\ data_array' = IF write THEN [data_array EXCEPT ![index][address.offset] = writedata]
                   ELSE data_array
  /\ loaded' = IF read THEN readdata ELSE loaded

LEMMA EdgeAnswers ==
  ASSUME IInv, Edge, Served \/ Refills
  PROVE  Answered
<1>1. CASE Served
  BY <1>1 DEF Served, Answered, access, memoryVars
<1>2. CASE Refills
  <2>1. /\ TypeOK /\ DataInv /\ state = "MEM_READ" /\ access /\ hit /\ index \in Indices
        /\ ~mem_busywait \/ AccessEnds
    BY <1>2, Signals DEF IInv, Refills
  <2>2. memory_array' = memory_array /\ mem_readdata' = memory_array[requestBlock]
    BY <2>1, FetchBytes
  <2>3. valid_array[index] = TRUE /\ tag_array[index] = address.tag
    BY <2>1 DEF hit, valid_out, tag_out, TypeOK
  <2>4. mem_readdata' = data_array[index]
    BY <2>1, <2>2, <2>3 DEF DataInv, valid_out, block_out, lineBlock, tag_out, requestBlock
  <2>5. UNCHANGED <<tag_array, valid_array>>
    BY <1>2, <2>1, <2>3 DEF Refills, TypeOK
  <2>6. data_array' = IF write THEN [data_array EXCEPT ![index][address.offset] = writedata]
                      ELSE data_array
    BY <1>2, <2>1, <2>4 DEF Refills, TypeOK
  <2> QED BY <1>2, <2>1, <2>2, <2>5, <2>6 DEF Refills, Answered
<1> QED BY <1>1, <1>2

\* A request that is answered finds its byte, and a store moves that byte alone.
LEMMA AnswerView ==
  ASSUME IInv, Answered
  PROVE  /\ memoryView' = IF write THEN [memoryView EXCEPT ![address] = writedata]
                          ELSE memoryView
         /\ read => memoryView[address] = readdata
<1>1. /\ TypeOK /\ index \in Indices /\ address.offset \in Offsets /\ address \in Addresses
      /\ memory_array' = memory_array /\ UNCHANGED <<tag_array, valid_array>>
  BY Signals DEF IInv, TypeOK, Answered
<1>2. access => valid_array[index] /\ tag_array[index] = address.tag
  BY DEF Answered, hit, valid_out, tag_out
<1>3. read => memoryView[address] = readdata
  BY <1>1, <1>2 DEF access, memoryView, cached, readdata, block_out, index
<1>4. CASE ~write
  BY <1>1, <1>3, <1>4 DEF Answered, memoryView, cached
<1>5. CASE write
  <2>1. data_array' = [data_array EXCEPT ![index][address.offset] = writedata]
    BY <1>5 DEF Answered, access
  <2>2. /\ data_array'[index][address.offset] = writedata
        /\ \A i \in Indices, k \in Offsets :
              ~(i = index /\ k = address.offset) => data_array'[i][k] = data_array[i][k]
    BY <1>1, <2>1 DEF TypeOK, Blocks
  <2>3. ASSUME NEW a \in Addresses
        PROVE  memoryView'[a] = IF a = address THEN writedata ELSE memoryView[a]
    <3>1. cached(a)' = cached(a)
      BY <1>1 DEF cached
    <3>2. CASE a = address
      BY <1>1, <1>2, <1>5, <2>2, <3>1, <3>2 DEF access, memoryView, cached, index
    <3>3. CASE a # address
      <4>1. cached(a) => ~(a.index = index /\ a.offset = address.offset)
        BY <1>1, <1>2, <1>5, <3>3 DEF access, cached, Addresses, index
      <4> QED BY <1>1, <2>2, <3>1, <3>3, <4>1, AddressParts DEF memoryView
    <3> QED BY <3>2, <3>3
  <2>4. /\ memoryView' = [a \in Addresses |-> memoryView'[a]]
        /\ memoryView = [a \in Addresses |-> memoryView[a]]
    BY DEF memoryView
  <2> QED BY <1>1, <1>3, <1>5, <2>3, <2>4
<1> QED BY <1>4, <1>5

LEMMA SameAddresses == Flat!Addresses = Addresses
BY DEF Flat!Addresses, Flat!Offsets, Addresses, Offsets

LEMMA FlatInitial == Init => Flat!Init
<1>1. Init => memoryView = [a \in Addresses |-> ZeroByte]
  <2> SUFFICES ASSUME Init, NEW a \in Addresses
               PROVE  ~cached(a) /\ memory_array[<<a.tag, a.index>>][a.offset] = ZeroByte
    BY DEF memoryView
  <2> QED BY AddressParts DEF Init, MemoryInit, cached, ZeroBlock
<1> QED BY <1>1, SpaceAssumption, SameAddresses DEF Init, Flat!Init

LEMMA FlatStep ==
  ASSUME IInv, [Next]_vars
  PROVE  [Flat!Next]_(Flat!flatVars)
<1>1. TypeOK /\ RequestInv
  BY DEF IInv
<1>2. CASE Edge /\ (Served \/ Refills)
  <2>1. Answered
    BY <1>2, EdgeAnswers
  <2>2. /\ phase = "edge" /\ phase' = "decode" /\ UNCHANGED requestVars
        /\ loaded' = IF read THEN memoryView[address] ELSE loaded
    BY <1>2, <2>1, AnswerView DEF Edge, Answered
  <2>3. Flat!Serve
    BY <2>1, <2>2, AnswerView DEF Flat!Serve, Flat!Store, Flat!requestVars, requestVars
  <2> QED BY <2>3 DEF Flat!Next
<1>3. CASE Edge /\ ~(Served \/ Refills)
  <2>1. Missed \/ WritesBack \/ Fetches \/ Fills
    BY <1>3, EdgeCases
  <2>2. memoryView' = memoryView
    BY <1>3, <2>1, StallView, FilledView
  <2>3. Held /\ phase = "edge" /\ UNCHANGED requestVars
    BY <1>3, <2>1 DEF Missed, WritesBack, Fetches, Fills, Edge
  <2> QED BY <2>2, <2>3 DEF Held, Flat!flatVars, Flat!requestVars, requestVars
<1>4. ASSUME phase # "edge", Settle,
             read' \in BOOLEAN, write' \in BOOLEAN, address' \in Addresses, writedata' \in Bytes
      PROVE  Flat!Prepare
  <2>1. memoryView' = memoryView /\ loaded' = loaded
    BY <1>4 DEF Settle, memoryView, cached, arrayVars
  <2> QED BY <1>4, <2>1, SameAddresses DEF Flat!Prepare
<1>5. ASSUME NEW r \in BOOLEAN, NEW w \in BOOLEAN, Decode(r, w) PROVE Flat!Next
  BY <1>1, <1>4, <1>5 DEF Decode, TypeOK, Flat!Next
<1>6. ASSUME NEW a \in Addresses, NEW d \in Bytes, Operands(a, d) PROVE Flat!Next
  BY <1>1, <1>4, <1>6 DEF Operands, TypeOK, Flat!Next
<1>7. CASE UNCHANGED vars
  BY <1>7 DEF vars, requestVars, arrayVars, memoryVars, memoryView, cached,
              Flat!flatVars, Flat!requestVars
<1> QED BY <1>2, <1>3, <1>5, <1>6, <1>7 DEF Next

\* No program can tell the cache of Lab06 from a memory of bytes that answers at once: no
\* load returns a stale byte and no store is lost (src/Lab06/dcache.v:55-192).
THEOREM CacheIsFlatMemory == Spec => IsFlatMemory
<1>1. IInv /\ [Next]_vars => [Flat!Next]_(Flat!flatVars)
  BY FlatStep
<1> QED BY <1>1, Invariance, FlatInitial, PTL DEF Spec, IsFlatMemory, Flat!Spec
=============================================================================
