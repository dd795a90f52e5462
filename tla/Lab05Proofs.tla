---------------------------- MODULE Lab05Proofs ----------------------------
(***************************************************************************)
(* Proofs about Lab05System: its registers keep their width and the memory *)
(* serves the request that stands, for every program; and it implements    *)
(* FlatMemory unless a load replaces its own address and the very same     *)
(* word follows.                                                           *)
(***************************************************************************)
EXTENDS Lab05System, TLAPS

LEMMA WaitingType ==
  Waiting \in [op : {"wait", "read", "write"}, left : 1 .. BeatCycles, byte : Bytes]
<1>1. BeatCycles \in 1 .. BeatCycles
  BY Lab05Assumption
<1> QED BY <1>1, SpaceAssumption DEF Waiting

LEMMA InitIInv == Init => IInv
<1> SUFFICES ASSUME Init PROVE IInv
  OBVIOUS
<1>1. TypeOK
  BY WaitingType, SpaceAssumption DEF Init, TypeOK
<1>2. FlagsInv /\ ServedInv /\ MemoryServesRequest
  BY DEF Init, FlagsInv, ServedInv, MemoryServesRequest, Waiting
<1> QED BY <1>1, <1>2 DEF IInv

-----------------------------------------------------------------------------
(* The clock edge. *)

\* What an edge does to the memory.
Quiet == UNCHANGED <<memory_array, readdata, busywait, readaccess, writeaccess>>

NoAccess == process.op = "wait" /\ ~busywait /\ UNCHANGED process /\ Quiet

Begins ==
  /\ process.op = "wait" /\ busywait /\ Quiet
  /\ \/ read /\ Sleep("read", memory_array[address])
     \/ write /\ Sleep("write", writedata)

Continues ==
  /\ process.op # "wait" /\ ~AccessEnds /\ Quiet
  /\ process' = [process EXCEPT !.left = @ - 1]

LoadEnds ==
  /\ AccessEnds /\ read /\ ~write /\ busywait
  /\ process' = Waiting
  /\ busywait' = FALSE /\ readaccess' = FALSE /\ UNCHANGED writeaccess
  /\ readdata' = memory_array[address] /\ UNCHANGED memory_array

StoreEnds ==
  /\ AccessEnds /\ write /\ ~read /\ busywait
  /\ process' = Waiting
  /\ busywait' = FALSE /\ writeaccess' = FALSE /\ UNCHANGED readaccess
  /\ memory_array' = [memory_array EXCEPT ![address] = writedata] /\ UNCHANGED readdata

LEMMA EdgeCases ==
  ASSUME IInv, Edge
  PROVE  NoAccess \/ Begins \/ Continues \/ LoadEnds \/ StoreEnds
<1>1. MemoryPosedge /\ phase = "edge" /\ TypeOK /\ FlagsInv /\ MemoryServesRequest
  BY DEF Edge, IInv
<1>3. CASE process.op = "wait" /\ ~busywait
  <2>1. ~readaccess /\ ~writeaccess
    BY <1>1, <1>3 DEF FlagsInv
  <2>2. UNCHANGED process /\ Quiet
    BY <1>1, <1>3, <2>1 DEF MemoryPosedge, TakesAccess, AccessEnds, Quiet
  <2> QED BY <1>3, <2>2 DEF NoAccess
<1>4. CASE process.op = "wait" /\ busywait
  <2>1. /\ readaccess = read /\ writeaccess = write
        /\ read \/ write
    BY <1>1, <1>4 DEF FlagsInv, TypeOK
  <2>2. TakesAccess /\ Quiet
    BY <1>1, <1>4 DEF MemoryPosedge, AccessEnds, Quiet
  <2> QED BY <1>4, <2>1, <2>2 DEF TakesAccess, Begins
<1>5. CASE process.op # "wait" /\ ~AccessEnds
  BY <1>1, <1>5 DEF MemoryPosedge, AccessEnds, Quiet, Continues
<1>6. CASE AccessEnds
  <2>1. process.op \in {"read", "write"} /\ busywait
    BY <1>1, <1>6 DEF AccessEnds, TypeOK, MemoryServesRequest
  <2>2. CASE process.op = "read"
    BY <1>1, <1>6, <2>1, <2>2
       DEF MemoryPosedge, AccessEnds, MemoryServesRequest, FlagsInv, LoadEnds
  <2>3. CASE process.op = "write"
    BY <1>1, <1>6, <2>1, <2>3
       DEF MemoryPosedge, AccessEnds, MemoryServesRequest, FlagsInv, StoreEnds
  <2> QED BY <2>1, <2>2, <2>3
<1> QED BY <1>3, <1>4, <1>5, <1>6 DEF AccessEnds

\* The registers keep their types.
LEMMA EdgeTypes ==
  ASSUME IInv, Edge
  PROVE  TypeOK'
<1> DEFINE Sleeping == [op : {"wait", "read", "write"}, left : 1 .. BeatCycles, byte : Bytes]
<1>1. TypeOK /\ UNCHANGED requestVars /\ process \in Sleeping
  BY DEF IInv, Edge, TypeOK
<1>2. memory_array[address] \in Bytes /\ writedata \in Bytes
  BY <1>1 DEF TypeOK
<1>3. BeatCycles \in Nat \ {0} /\ BeatCycles \in 1 .. BeatCycles
  BY Lab05Assumption
<1>4. process' \in Sleeping
  <2>1. CASE Begins
    BY <1>2, <1>3, <2>1 DEF Begins, Sleep
  <2>2. CASE Continues
    BY <1>1, <1>3, <2>2 DEF Continues, AccessEnds
  <2>3. CASE LoadEnds \/ StoreEnds
    BY <2>3, WaitingType DEF LoadEnds, StoreEnds
  <2> QED BY <1>1, <2>1, <2>2, <2>3, EdgeCases DEF NoAccess
<1>5. /\ memory_array' \in [Addresses -> Bytes] /\ readdata' \in Bytes
      /\ busywait' \in BOOLEAN /\ readaccess' \in BOOLEAN /\ writeaccess' \in BOOLEAN
  BY <1>1, <1>2, EdgeCases
     DEF TypeOK, NoAccess, Begins, Continues, LoadEnds, StoreEnds, Quiet
<1>6. loaded' \in Bytes
  BY <1>1, <1>5 DEF Edge, TypeOK
<1>7. phase' \in {"edge", "decode", "operands", "repeated"}
  BY DEF Edge
<1> QED BY <1>1, <1>4, <1>5, <1>6, <1>7 DEF TypeOK, requestVars

LEMMA EdgeIInv ==
  ASSUME IInv, Edge
  PROVE  IInv'
<1>1. TypeOK /\ FlagsInv /\ ServedInv /\ MemoryServesRequest /\ phase = "edge"
  BY DEF IInv, Edge
<1>2. read' = read /\ write' = write /\ address' = address /\ writedata' = writedata
  BY DEF Edge, requestVars
<1>3. phase' = IF busywait' THEN "edge" ELSE "decode"
  BY DEF Edge, stalled
<1>4. FlagsInv'
  <2>1. CASE Quiet
    BY <1>1, <1>2, <1>3, <2>1 DEF Quiet, FlagsInv
  <2>2. CASE LoadEnds \/ StoreEnds
    BY <1>1, <1>2, <1>3, <2>2 DEF LoadEnds, StoreEnds, FlagsInv, TypeOK
  <2> QED BY <2>1, <2>2, EdgeCases DEF NoAccess, Begins, Continues
<1>5. MemoryServesRequest'
  <2>1. CASE process.op = "wait" /\ UNCHANGED process
    BY <1>1, <2>1 DEF MemoryServesRequest
  <2>2. CASE Begins
    <3>1. busywait' /\ phase' = "edge" /\ memory_array' = memory_array
      BY <1>3, <2>2 DEF Begins, Quiet
    <3>2. (read => readaccess') /\ (write => writeaccess')
      BY <1>1, <2>2 DEF Begins, Quiet, FlagsInv
    <3>3. CASE read /\ Sleep("read", memory_array[address])
      BY <1>2, <3>1, <3>2, <3>3 DEF Sleep, MemoryServesRequest
    <3>4. CASE write /\ Sleep("write", writedata)
      BY <1>2, <3>1, <3>2, <3>4 DEF Sleep, MemoryServesRequest
    <3> QED BY <2>2, <3>3, <3>4 DEF Begins
  <2>3. CASE Continues
    <3>1. process'.op = process.op /\ process'.byte = process.byte
      BY <1>1, <2>3 DEF Continues, TypeOK
    <3> QED BY <1>1, <1>2, <1>3, <2>3, <3>1 DEF Continues, Quiet, MemoryServesRequest
  <2>4. CASE LoadEnds \/ StoreEnds
    BY <2>4 DEF LoadEnds, StoreEnds, Waiting, MemoryServesRequest
  <2> QED BY <2>1, <2>2, <2>3, <2>4, EdgeCases DEF NoAccess
<1>6. ServedInv'
  <2>1. CASE Quiet
    BY <1>1, <1>2, <2>1 DEF Quiet, ServedInv
  <2>2. CASE LoadEnds
    BY <1>2, <2>2 DEF LoadEnds, ServedInv
  <2>3. CASE StoreEnds
    <3>1. memory_array'[address] = writedata
      BY <1>1, <2>3 DEF StoreEnds, TypeOK
    <3> QED BY <1>2, <2>3, <3>1 DEF StoreEnds, ServedInv
  <2> QED BY <2>1, <2>2, <2>3, EdgeCases DEF NoAccess, Begins, Continues
<1> QED BY <1>4, <1>5, <1>6, EdgeTypes DEF IInv

-----------------------------------------------------------------------------
(* The steps between edges, and their sum. *)

LEMMA NextIInv == IInv /\ [Next]_vars => IInv'
<1> SUFFICES ASSUME IInv, [Next]_vars PROVE IInv'
  OBVIOUS
<1> USE DEF IInv
<1>1. CASE Edge
  BY <1>1, EdgeIInv
<1>2. ASSUME NEW r \in BOOLEAN, NEW w \in BOOLEAN, Decode(r, w) PROVE IInv'
  <2>1. TypeOK'
    BY <1>2 DEF TypeOK, Decode, detect, memoryVars
  <2>2. process.op = "wait" /\ process' = process /\ phase' = "operands"
    BY <1>2 DEF Decode, memoryVars, MemoryServesRequest
  <2>3. FlagsInv'
    BY <1>2 DEF TypeOK, FlagsInv, Decode, detect
  <2>4. ServedInv'
    BY <1>2, <2>2, <2>3 DEF TypeOK, FlagsInv, ServedInv
  <2> QED BY <2>1, <2>2, <2>3, <2>4 DEF MemoryServesRequest
<1>3. CASE DecodeSameWord
  <2>1. TypeOK' /\ MemoryServesRequest'
    BY <1>3 DEF TypeOK, MemoryServesRequest, DecodeSameWord, requestVars, memoryVars
  <2>2. FlagsInv' /\ ServedInv'
    BY <1>3 DEF TypeOK, FlagsInv, ServedInv, DecodeSameWord, requestVars, memoryVars
  <2> QED BY <2>1, <2>2
<1>4. ASSUME NEW a \in Addresses, NEW d \in Bytes, Operands(a, d) PROVE IInv'
  <2>1. process.op = "wait"
    BY <1>4 DEF Operands, MemoryServesRequest
  <2>2. ServedInv'
    <3>1. CASE phase = "operands"
      BY <1>4, <3>1 DEF TypeOK, FlagsInv, ServedInv, Operands
    <3>2. CASE phase = "repeated"
      BY <1>4, <3>2 DEF ServedInv, Operands, memoryVars
    <3> QED BY <1>4, <3>1, <3>2 DEF Operands
  <2> QED BY <1>4, <2>1, <2>2 DEF TypeOK, FlagsInv, MemoryServesRequest, Operands, memoryVars
<1>5. CASE UNCHANGED vars
  BY <1>5 DEF TypeOK, FlagsInv, ServedInv, MemoryServesRequest, vars, requestVars, memoryVars
<1> QED BY <1>1, <1>2, <1>3, <1>4, <1>5 DEF Next

\* The inductive invariant holds for every program: memory's flags, its process and the
\* CPU's stall are in step, and what a strobe asks for is there once busywait is low
\* (data_memory.v:34-58, pc_unit.v:29-40).
THEOREM Invariance == Spec => []IInv
<1>1. Init => IInv
  BY InitIInv
<1>2. IInv /\ [Next]_vars => IInv'
  BY NextIInv
<1> QED BY <1>1, <1>2, PTL DEF Spec

\* Every register of Lab05's memory keeps its width.
THEOREM TypeCorrect == Spec => []TypeOK
<1>1. IInv => TypeOK
  BY DEF IInv
<1> QED BY <1>1, Invariance, PTL

\* Memory works on the request that stands, with busywait high, and on the byte that was
\* there when it took the request up (data_memory.v:44-58).
THEOREM ServesRequest == Spec => []MemoryServesRequest
<1>1. IInv => MemoryServesRequest
  BY DEF IInv
<1> QED BY <1>1, Invariance, PTL

-----------------------------------------------------------------------------
(* Lab05's memory implements FlatMemory. *)

LEMMA FlatAddresses == Flat!Addresses = Addresses
BY DEF Flat!Addresses, Flat!Offsets, Addresses, Offsets

LEMMA EdgeIsFlat ==
  ASSUME IInv, Edge, ~OwnAddress
  PROVE  [Flat!Next]_(Flat!flatVars)
<1>1. TypeOK /\ FlagsInv /\ ServedInv /\ phase = "edge" /\ UNCHANGED requestVars
  BY DEF IInv, Edge
<1>2. loaded' = IF read /\ ~busywait' THEN readdata' ELSE loaded
  BY DEF Edge, loads, stalled
<1>3. phase' = IF busywait' THEN "edge" ELSE "decode"
  BY DEF Edge, stalled
<1>4. CASE Begins \/ Continues
  <2>1. busywait' /\ Quiet
    BY <1>4 DEF Begins, Continues, IInv, MemoryServesRequest, Quiet
  <2>2. UNCHANGED <<requestVars, memory_array, loaded, phase>>
    BY <1>1, <1>2, <1>3, <2>1 DEF Quiet
  <2> QED BY <2>2 DEF Flat!flatVars, Flat!requestVars, requestVars
<1>5. CASE NoAccess
  <2>1. ~busywait /\ ~busywait' /\ memory_array' = memory_array /\ readdata' = readdata
    BY <1>5 DEF NoAccess, Quiet
  <2>2. write => memory_array[address] = writedata
    BY <1>1, <2>1 DEF ServedInv
  <2>3. read => readdata = memory_array[address]
    BY <1>1, <2>1 DEF ServedInv
  <2>4. Flat!Store
    BY <1>1, <2>1, <2>2 DEF Flat!Store, TypeOK
  <2> QED BY <1>1, <1>2, <1>3, <2>1, <2>3, <2>4
          DEF Flat!Next, Flat!Serve, Flat!requestVars, requestVars
<1>6. CASE LoadEnds
  BY <1>1, <1>2, <1>3, <1>6
     DEF LoadEnds, Flat!Next, Flat!Serve, Flat!Store, Flat!requestVars, requestVars
<1>7. CASE StoreEnds
  BY <1>1, <1>2, <1>3, <1>7
     DEF StoreEnds, Flat!Next, Flat!Serve, Flat!Store, Flat!requestVars, requestVars
<1> QED BY <1>4, <1>5, <1>6, <1>7, EdgeCases

LEMMA NextIsFlat ==
  ASSUME ~OwnAddress
  PROVE  IInv /\ [Next]_vars => [Flat!Next]_(Flat!flatVars)
<1> SUFFICES ASSUME IInv, [Next]_vars PROVE [Flat!Next]_(Flat!flatVars)
  OBVIOUS
<1>1. CASE Edge
  BY <1>1, EdgeIsFlat
<1>2. ASSUME NEW r \in BOOLEAN, NEW w \in BOOLEAN, Decode(r, w)
      PROVE  [Flat!Next]_(Flat!flatVars)
  BY <1>2, FlatAddresses DEF IInv, TypeOK, Decode, memoryVars, Flat!Next, Flat!Prepare
<1>3. CASE DecodeSameWord
  BY <1>3 DEF DecodeSameWord, requestVars, memoryVars, Flat!flatVars, Flat!requestVars
<1>4. ASSUME NEW a \in Addresses, NEW d \in Bytes, Operands(a, d)
      PROVE  [Flat!Next]_(Flat!flatVars)
  BY <1>4, FlatAddresses DEF IInv, TypeOK, Operands, memoryVars, Flat!Next, Flat!Prepare
<1>5. CASE UNCHANGED vars
  BY <1>5 DEF vars, requestVars, memoryVars, Flat!flatVars, Flat!requestVars
<1> QED BY <1>1, <1>2, <1>3, <1>4, <1>5 DEF Next

\* The memory of Lab05 behind busywait is a memory of bytes that answers at once: no load
\* returns a stale byte and no store is lost, although memory does not notice a word that
\* follows itself; except for a load that replaces its own address and is followed by the
\* very same word (data_memory.v:34-58, pc_unit.v:29-40, reg_file.v:35-46, cpu.v:222).
THEOREM MemoryIsFlatMemory ==
  ASSUME ~OwnAddress
  PROVE  Spec => IsFlatMemory
<1>1. Init => Flat!Init
  BY SpaceAssumption, FlatAddresses DEF Init, Flat!Init
<1>2. IInv /\ [Next]_vars => [Flat!Next]_(Flat!flatVars)
  BY NextIsFlat
<1> QED BY <1>1, <1>2, Invariance, PTL DEF Spec, IsFlatMemory, Flat!Spec
=============================================================================
