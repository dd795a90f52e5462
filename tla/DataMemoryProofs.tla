-------------------------- MODULE DataMemoryProofs --------------------------
(***************************************************************************)
(* What one clock edge does in the data memory, whichever cache drives it: *)
(* lemmas for the proofs about Lab06 and Lab07.                            *)
(***************************************************************************)
EXTENDS DataMemory, TLAPS

\* The posedge process of data_memory stores bytes at offsets of a block, and
\* sleeps only on an offset of a block.
LEMMA MemoryPosedgeTypes ==
  ASSUME MemoryTypeOK,
         NEW order, NEW b \in BlockAddresses, NEW d \in Blocks,
         MemoryPosedge(order, b, d)
  PROVE  /\ memory_array' \in [BlockAddresses -> Blocks]
         /\ mem_readdata' \in Blocks
         /\ process' \in Processes
<1> USE BeatAssumption, SpaceAssumption
<1>1. mem_readdata' \in Blocks
  BY DEF MemoryPosedge, StoreByte, MemoryTypeOK, Blocks, Processes
<1>2. memory_array' \in [BlockAddresses -> Blocks]
  BY DEF MemoryPosedge, StoreByte, MemoryTypeOK, Blocks, Processes
<1>3. ASSUME NEW op \in {"read", "write"}, NEW k \in Offsets,
             NEW contents \in [BlockAddresses -> Blocks],
             Sleep(op, k, contents, b, d)
      PROVE  process' \in Processes
  BY <1>3 DEF Sleep, Processes, Blocks
<1>4. 0 \in Offsets
  BY DEF Offsets
<1>5. ASSUME process.op = "wait" PROVE process' \in Processes
  BY <1>3, <1>4, <1>5 DEF MemoryPosedge, MemoryTypeOK, ByteEnds, AccessEnds
<1>6. ASSUME process.op # "wait", ~ByteEnds PROVE process' \in Processes
  BY <1>6 DEF MemoryPosedge, MemoryTypeOK, Processes, ByteEnds, AccessEnds
<1>7. ASSUME ByteEnds, ~AccessEnds PROVE process' \in Processes
  <2>1. process.beat + 1 \in Offsets /\ process.op \in {"read", "write"}
    BY <1>7 DEF MemoryTypeOK, Processes, Offsets, ByteEnds, AccessEnds
  <2> QED BY <1>3, <1>7, <2>1 DEF MemoryPosedge, MemoryTypeOK, ByteEnds
<1>8. ASSUME AccessEnds PROVE process' \in Processes
  <2>1. Waiting \in Processes
    BY <1>4 DEF Waiting, Processes
  <2>2. NextAccess(order) \in {"wait", "read", "write"}
    BY DEF NextAccess
  <2>3. process.op # "wait" /\ ByteEnds
    BY <1>8 DEF AccessEnds, ByteEnds
  <2>4. IF NextAccess(order) = "wait" THEN process' = Waiting
        ELSE Sleep(NextAccess(order), 0, memory_array', b, d)
    BY <1>8, <2>3 DEF MemoryPosedge
  <2> QED BY <1>2, <1>3, <1>4, <2>1, <2>2, <2>4
<1> QED BY <1>1, <1>2, <1>5, <1>6, <1>7, <1>8 DEF AccessEnds, ByteEnds

-----------------------------------------------------------------------------
(* The bytes of an access. *)

\* The flags speak of one access, and the process works on no other.
OneAccess ==
  /\ mem_readaccess => ~mem_writeaccess
  /\ mem_busywait <=> mem_readaccess \/ mem_writeaccess
  /\ process.op = "read" => mem_readaccess
  /\ process.op = "write" => mem_writeaccess

\* Where the process goes on an edge.
LEMMA NextByte ==
  ASSUME MemoryTypeOK, OneAccess, NEW order, NEW b, NEW d, MemoryPosedge(order, b, d)
  PROVE  /\ process.op = "wait" /\ ~mem_busywait => process' = process
         /\ process.op = "wait" /\ mem_busywait
              => /\ process'.op = IF mem_readaccess THEN "read" ELSE "write"
                 /\ process'.beat = 0
                 /\ process'.byte = IF mem_readaccess THEN memory_array[b][0] ELSE d[0]
         /\ process.op # "wait" /\ ~ByteEnds
              => /\ process'.op = process.op
                 /\ process'.beat = process.beat
                 /\ process'.byte = process.byte
         /\ ByteEnds /\ ~AccessEnds
              => /\ process'.op = process.op
                 /\ process'.beat = process.beat + 1
                 /\ process'.byte = IF process.op = "read"
                                    THEN memory_array[b][process.beat + 1]
                                    ELSE d[process.beat + 1]
         /\ AccessEnds => process' = Waiting
<1>1. CASE process.op = "wait" /\ ~mem_busywait
  BY <1>1 DEF MemoryPosedge, OneAccess, ByteEnds, AccessEnds
<1>2. CASE process.op = "wait" /\ mem_busywait
  BY <1>2 DEF MemoryPosedge, Sleep, OneAccess, ByteEnds, AccessEnds
<1>3. CASE process.op # "wait" /\ ~ByteEnds
  BY <1>3 DEF MemoryPosedge, MemoryTypeOK, Processes, AccessEnds, ByteEnds
<1>4. CASE ByteEnds /\ ~AccessEnds
  BY <1>4 DEF MemoryPosedge, Sleep, AccessEnds, ByteEnds
<1>5. CASE AccessEnds
  <2>1. NextAccess(order) = "wait"
    BY <1>5 DEF NextAccess, OneAccess, AccessEnds, ByteEnds, MemoryTypeOK, Processes
  <2> QED BY <1>5, <2>1 DEF MemoryPosedge, AccessEnds, ByteEnds
<1> QED BY <1>1, <1>2, <1>3, <1>4, <1>5 DEF AccessEnds, ByteEnds

\* The bytes of block d that a write has put at b before its present beat.
SentOn(b, d) ==
  process.op = "write" =>
    /\ process.byte = d[process.beat]
    /\ \A k \in Offsets : k < process.beat => memory_array[b][k] = d[k]

\* The bytes of block b that a read has collected before its present beat.
Collected(b) ==
  process.op = "read" =>
    /\ process.byte = memory_array[b][process.beat]
    /\ \A k \in Offsets : k < process.beat => mem_readdata[k] = memory_array[b][k]

\* A write goes on, and touches no other block.
LEMMA WriteGoesOn ==
  ASSUME MemoryTypeOK, OneAccess, ~mem_readaccess,
         NEW order, NEW b \in BlockAddresses, NEW d \in Blocks,
         MemoryPosedge(order, b, d), SentOn(b, d)
  PROVE  /\ process'.op = "write" =>
              /\ process'.byte = d[process'.beat]
              /\ \A k \in Offsets : k < process'.beat => memory_array'[b][k] = d[k]
         /\ AccessEnds => memory_array'[b] = d
         /\ ~mem_busywait => memory_array' = memory_array
         /\ \A c \in BlockAddresses \ {b} : memory_array'[c] = memory_array[c]
         /\ mem_readdata' = mem_readdata
         /\ process'.op \in {"wait", "write"}
         /\ process'.op = "write" => mem_busywait /\ ~AccessEnds
<1>1. process.op \in {"wait", "write"} /\ process.beat \in Offsets
  BY DEF MemoryTypeOK, Processes, OneAccess
<1>2. /\ mem_readdata' = mem_readdata
      /\ memory_array' = IF ByteEnds
                         THEN [memory_array EXCEPT ![b][process.beat] = process.byte]
                         ELSE memory_array
  BY <1>1 DEF MemoryPosedge, StoreByte, ByteEnds
<1>3. \A c \in BlockAddresses \ {b} : memory_array'[c] = memory_array[c]
  BY <1>2 DEF MemoryTypeOK
<1>4. ASSUME ByteEnds
      PROVE  \A k \in Offsets : k < process.beat + 1 => memory_array'[b][k] = d[k]
  <2>1. process.op = "write"
    BY <1>1, <1>4 DEF ByteEnds
  <2>2. memory_array'[b] = [memory_array[b] EXCEPT ![process.beat] = process.byte]
    BY <1>2, <1>4 DEF MemoryTypeOK
  <2>3. memory_array[b] \in [Offsets -> Bytes]
    BY DEF MemoryTypeOK, Blocks
  <2>4. \A k \in Offsets : k < process.beat + 1 => k < process.beat \/ k = process.beat
    BY <1>1 DEF Offsets
  <2> QED BY <1>1, <2>1, <2>2, <2>3, <2>4 DEF SentOn
<1>5. /\ process'.op \in {"wait", "write"}
      /\ process'.op = "write" => mem_busywait /\ ~AccessEnds
  BY <1>1, NextByte DEF Waiting, OneAccess, ByteEnds
<1>6. ASSUME process'.op = "write"
      PROVE  /\ process'.byte = d[process'.beat]
             /\ \A k \in Offsets : k < process'.beat => memory_array'[b][k] = d[k]
  <2>1. CASE process.op = "wait"
    <3>1. process'.beat = 0 /\ process'.byte = d[0]
      BY <1>5, <1>6, <2>1, NextByte
    <3> QED BY <3>1 DEF Offsets
  <2>2. CASE process.op = "write" /\ ~ByteEnds
    BY <1>2, <2>2, NextByte DEF SentOn
  <2>3. CASE ByteEnds
    BY <1>1, <1>4, <1>5, <1>6, <2>3, NextByte DEF ByteEnds
  <2> QED BY <1>1, <2>1, <2>2, <2>3
<1>7. ASSUME AccessEnds PROVE memory_array'[b] = d
  <2>1. \A k \in Offsets : k < process.beat + 1
    BY <1>7, SpaceAssumption DEF AccessEnds, Offsets
  <2>2. \A k \in Offsets : memory_array'[b][k] = d[k]
    BY <1>4, <1>7, <2>1 DEF AccessEnds
  <2>3. memory_array'[b] \in Blocks
    BY MemoryPosedgeTypes
  <2> QED BY <2>2, <2>3 DEF Blocks
<1>8. ~mem_busywait => memory_array' = memory_array
  BY <1>2 DEF OneAccess, ByteEnds, MemoryTypeOK, Processes
<1> QED BY <1>2, <1>3, <1>5, <1>6, <1>7, <1>8

\* A read goes on, and changes nothing in memory.
LEMMA ReadGoesOn ==
  ASSUME MemoryTypeOK, OneAccess, ~mem_writeaccess,
         NEW order, NEW b \in BlockAddresses, NEW d \in Blocks,
         MemoryPosedge(order, b, d), Collected(b)
  PROVE  /\ memory_array' = memory_array
         /\ process'.op = "read" =>
              /\ process'.byte = memory_array[b][process'.beat]
              /\ \A k \in Offsets : k < process'.beat => mem_readdata'[k] = memory_array[b][k]
         /\ AccessEnds => mem_readdata' = memory_array[b]
         /\ ~mem_busywait => mem_readdata' = mem_readdata
         /\ process'.op \in {"wait", "read"}
         /\ process'.op = "read" => mem_busywait /\ ~AccessEnds
<1>1. process.op \in {"wait", "read"} /\ process.beat \in Offsets
  BY DEF MemoryTypeOK, Processes, OneAccess
<1>2. /\ memory_array' = memory_array
      /\ mem_readdata' = IF ByteEnds
                         THEN [mem_readdata EXCEPT ![process.beat] = process.byte]
                         ELSE mem_readdata
  BY <1>1 DEF MemoryPosedge, StoreByte, ByteEnds
<1>3. ASSUME ByteEnds
      PROVE  \A k \in Offsets : k < process.beat + 1 => mem_readdata'[k] = memory_array[b][k]
  <2>1. process.op = "read"
    BY <1>1, <1>3 DEF ByteEnds
  <2>2. mem_readdata \in [Offsets -> Bytes]
    BY DEF MemoryTypeOK, Blocks
  <2>3. \A k \in Offsets : k < process.beat + 1 => k < process.beat \/ k = process.beat
    BY <1>1 DEF Offsets
  <2> QED BY <1>1, <1>2, <1>3, <2>1, <2>2, <2>3 DEF Collected
<1>4. /\ process'.op \in {"wait", "read"}
      /\ process'.op = "read" => mem_busywait /\ ~AccessEnds
  BY <1>1, NextByte DEF Waiting, OneAccess, ByteEnds
<1>5. ASSUME process'.op = "read"
      PROVE  /\ process'.byte = memory_array[b][process'.beat]
             /\ \A k \in Offsets : k < process'.beat => mem_readdata'[k] = memory_array[b][k]
  <2>1. CASE process.op = "wait"
    <3>1. process'.beat = 0 /\ process'.byte = memory_array[b][0]
      BY <1>4, <1>5, <2>1, NextByte
    <3> QED BY <3>1 DEF Offsets
  <2>2. CASE process.op = "read" /\ ~ByteEnds
    BY <1>2, <2>2, NextByte DEF Collected
  <2>3. CASE ByteEnds
    BY <1>1, <1>3, <1>4, <1>5, <2>3, NextByte DEF ByteEnds
  <2> QED BY <1>1, <2>1, <2>2, <2>3
<1>6. ASSUME AccessEnds PROVE mem_readdata' = memory_array[b]
  <2>1. \A k \in Offsets : k < process.beat + 1
    BY <1>6, SpaceAssumption DEF AccessEnds, Offsets
  <2>2. \A k \in Offsets : mem_readdata'[k] = memory_array[b][k]
    BY <1>3, <1>6, <2>1 DEF AccessEnds
  <2>3. mem_readdata' \in Blocks /\ memory_array[b] \in Blocks
    BY MemoryPosedgeTypes DEF MemoryTypeOK
  <2> QED BY <2>2, <2>3 DEF Blocks
<1>7. ~mem_busywait => mem_readdata' = mem_readdata
  BY <1>2 DEF OneAccess, ByteEnds, MemoryTypeOK, Processes
<1> QED BY <1>2, <1>4, <1>5, <1>6, <1>7
=============================================================================
