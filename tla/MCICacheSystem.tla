--------------------------- MODULE MCICacheSystem ---------------------------
(* Small instances of ICacheSystem for TLC: every byte of the program differs. *)
EXTENDS ICacheInvariant, FiniteSets

\* 0 is the byte of reset; the others number the bytes of the program.
MCBytes == 0 .. Cardinality(BlockAddresses) * BlockBytes

MCProgram ==
  [b \in BlockAddresses |->
     [k \in Offsets |-> 1 + k + BlockBytes * (b[2] + Cardinality(Indices) * b[1])]]

MCResetPC == [tag |-> 0, index |-> 0, offset |-> 0]
=============================================================================
