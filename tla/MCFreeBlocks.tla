----------------------------- MODULE MCFreeBlocks ------------------------------
(******************************************************************************)
(* The search of free blocks, and the bit array under it: a behaviour is of   *)
(* one of them, and the other stays at rest.  FreeBlocks takes a bitmap for   *)
(* the set of its set bits, and ImplementsBitSet is what lets it.             *)
(******************************************************************************)
EXTENDS FreeBlocks, Bitarray

\* The group left of group 0 is cut to group 1 of the first volume, to no group
\* of the second, and the third does not say how long its inodes are.
SomeSuperblocks ==
  {[blockcount |-> 24, first_data_block |-> 1, inode_size |-> 128],
   [blockcount |-> 21, first_data_block |-> 0, inode_size |-> 128],
   [blockcount |-> 24, first_data_block |-> 1, inode_size |-> 0]}

VARIABLE part

all == <<part, vars, byteVars>>

\* A part at rest has one state.
FreeBlocksInit ==
  /\ part \in {"bits", "search"}
  /\ IF part = "bits"
     THEN /\ bitmap = [g \in 0 .. Groups - 1 |-> {}]
          /\ superblock = CHOOSE sb \in Superblocks : TRUE
     ELSE bytes = [b \in 0 .. Size - 1 |-> 0]
  /\ Init /\ bitarray_create

BitsStep == part = "bits" /\ BitarrayNext /\ UNCHANGED <<part, vars>>

SearchStep == part = "search" /\ Next /\ UNCHANGED <<part, byteVars>>

FreeBlocksNext == BitsStep \/ SearchStep

FreeBlocksSpec == FreeBlocksInit /\ [][FreeBlocksNext]_all
================================================================================
