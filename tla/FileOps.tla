-------------------------------- MODULE FileOps --------------------------------
(******************************************************************************)
(* The size arithmetic of one inode's data: which clusters (blocks) a size    *)
(* needs, what a resize makes of the size, and how many bytes a read gets.    *)
(* Shared by the block-level model (InodeData), its abstract specification    *)
(* (FileContent) and the remote file system (FuseRpc).                        *)
(*                                                                            *)
(* Here and in the other modules, a definition placed just before another and *)
(* introduced as a mutated form is a slip a programmer could make in it; it   *)
(* is used by no specification.                                               *)
(******************************************************************************)
EXTENDS Integers

CONSTANT BlockSize      \* fs->block_size, in bytes

ASSUME BlockSizeAssumption == BlockSize \in Nat \ {0}

\* ceil((double) n / (double) self->block_size)
Clusters(n) == (n + BlockSize - 1) \div BlockSize

(******************************************************************************)
(* What ext2_resize_inode_data makes of inode->size: a resize inside the      *)
(* current number of clusters returns before inode->size is assigned.         *)
(******************************************************************************)
SizeAfterResize(old, new) == IF Clusters(new) = Clusters(old) THEN old ELSE new

\* ext2_write_inode_data resizes only when the write ends beyond the size.
SizeAfterWrite(old, off, len) ==
  IF off + len > old THEN SizeAfterResize(old, off + len) ELSE old

(******************************************************************************)
(* The number of bytes ext2_service__read answers: none beyond the size, and  *)
(* otherwise what is left of the file.  request->offset + request->length is  *)
(* a 32-bit sum; here it does not wrap (Transfer is about what happens then). *)
(******************************************************************************)
ReadLength(size, off, length) ==
  IF off > size THEN 0
  ELSE IF off + length > size THEN size - off ELSE length
================================================================================
