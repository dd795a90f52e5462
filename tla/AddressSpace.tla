--------------------------- MODULE AddressSpace ---------------------------
(***************************************************************************)
(* The data address space that the data cache and the data memory share.   *)
(* The program slices an 8-bit address into a 3-bit tag, a 3-bit index and *)
(* a 2-bit offset (dcache.v:46-52); here an address is the record of those *)
(* three fields, so a slice is a field selection and {tag, index} is a     *)
(* pair.                                                                   *)
(***************************************************************************)
EXTENDS Naturals

CONSTANTS Tags,        \* values of address[7:5]; 0..7 in the program
          Indices,     \* values of address[4:2]; 0..7 in the program
          BlockBytes,  \* bytes in a block; 4 in the program
          Bytes,       \* values of one byte
          ZeroTag,     \* what reset stores in every tag_array entry
          ZeroByte     \* what reset stores in every byte

ASSUME SpaceAssumption ==
  /\ ZeroTag \in Tags
  /\ ZeroByte \in Bytes
  /\ BlockBytes \in Nat \ {0}

Offsets == 0 .. BlockBytes - 1

Addresses == [tag : Tags, index : Indices, offset : Offsets]

\* The 6-bit address of a block, {tag, index}.
BlockAddresses == Tags \X Indices

\* The contents of a block: one byte at each offset.
Blocks == [Offsets -> Bytes]

ZeroBlock == [k \in Offsets |-> ZeroByte]
=============================================================================
