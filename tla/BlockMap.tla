------------------------------- MODULE BlockMap --------------------------------
(******************************************************************************)
(* From the number of a block of a file to the number of a block of the       *)
(* device: ext2_get_inode_block_entry walks over the pointers of the inode    *)
(* until it has passed the entry wanted, and ext2_find_block_entry goes down  *)
(* from there, one level of pointer blocks at a time.                         *)
(*                                                                            *)
(* ext2_find_block_entry is handed the pointer block and does not use it: it  *)
(* reads the block that the entry numbers.                                    *)
(******************************************************************************)
EXTENDS Integers, Sequences, FiniteSets

CONSTANTS
  Level,              \* EXT2_INODES_INDIRECTION_LEVEL: twelve 0, then 1, 2, 3
  EntriesPerBlock,    \* fs->entries_per_block
  BlockCount,         \* superblock->blockcount
  Inodes,             \* values of inode->block[], by position from 1
  Devices,            \* what the blocks hold, as pointers
  Entries             \* the entries asked for

\* Levels of indirection from 0 to 3, lowest first.
ASSUME LevelAssumption ==
  /\ Level \in Seq(0 .. 3) /\ Level # <<>>
  /\ \A i, j \in 1 .. Len(Level) : i <= j => Level[i] <= Level[j]

ASSUME EntriesAssumption ==
  EntriesPerBlock \in Nat \ {0, 1} /\ BlockCount \in 1 .. 65536 /\ Entries \subseteq Nat

\* The numbers an inode or a pointer block holds are those of blocks.
ASSUME PointersAssumption ==
  /\ Inodes \subseteq [1 .. Len(Level) -> 0 .. BlockCount - 1]
  /\ Devices \subseteq [0 .. BlockCount * EntriesPerBlock - 1 -> 0 .. BlockCount - 1]

VARIABLES
  block,               \* node->block[]
  device,              \* the device as an array of pointers
  descent,                  \* "idle", "seek", "find", or how the call ended
  wanted,              \* entry_index, of ext2_get_inode_block_entry
  base_block_index, blocks_offset,
  level, entry_index,  \* base_block_level and entry_index of the level below
  result

volume == <<block, device>>
seek == <<base_block_index, blocks_offset>>
find == <<level, entry_index>>
mapVars == <<volume, descent, wanted, seek, find, result>>

Ends == {"found", "fault", "overrun"}

--------------------------------------------------------------------------------
\* powl(self->entries_per_block, level)
Power[l \in 0 .. 3] == IF l = 0 THEN 1 ELSE EntriesPerBlock * Power[l - 1]

\* The blocks below the first i base pointers, as both loops count them.
BlocksBelow[i \in 0 .. Len(Level)] ==
  IF i = 0 THEN 0 ELSE BlocksBelow[i - 1] + Power[Level[i]]

ext2_get_inode_blocks_amount == BlocksBelow[Len(Level)]

\* The pointer at place i from a block on; NULL is dereferenced or the mapping left.
IsMapped(n, i) == n < BlockCount /\ n * EntriesPerBlock + i \in DOMAIN device

Word(n, i) == device[n * EntriesPerBlock + i]

MapInit ==
  /\ block \in Inodes /\ device \in Devices
  /\ descent = "idle"
  /\ wanted = 0 /\ base_block_index = 0 /\ blocks_offset = 0
  /\ level = 0 /\ entry_index = 0 /\ result = 0

Ask(entry) ==
  /\ descent = "idle"
  /\ descent' = "seek"
  /\ wanted' = entry
  /\ UNCHANGED <<volume, seek, find, result>>

\* Mutated form: the walk stops one pointer late.
SeeksFurtherBeyond == blocks_offset <= wanted /\ base_block_index < Len(Level)

SeeksFurther == blocks_offset < wanted /\ base_block_index < Len(Level)

Pass ==
  /\ descent = "seek" /\ SeeksFurther
  /\ blocks_offset' = blocks_offset + Power[Level[base_block_index + 1]]
  /\ base_block_index' = base_block_index + 1
  /\ UNCHANGED <<volume, descent, wanted, find, result>>

(******************************************************************************)
(* The walk is over: at a direct pointer, at an indirect one, or behind the   *)
(* last, where the level and the pointer are read beyond their arrays.        *)
(******************************************************************************)
Choose ==
  /\ descent = "seek" /\ ~ SeeksFurther
  /\ UNCHANGED <<volume, wanted, seek>>
  /\ \/ /\ base_block_index = Len(Level)
        /\ descent' = "overrun"
        /\ UNCHANGED <<find, result>>
     \/ /\ base_block_index < Len(Level) /\ Level[base_block_index + 1] = 0
        /\ descent' = "found"
        /\ result' = block[base_block_index + 1]
        /\ UNCHANGED find
     \/ /\ base_block_index < Len(Level) /\ Level[base_block_index + 1] > 0
        /\ descent' = "find"
        /\ level' = Level[base_block_index + 1]
        /\ entry_index' = wanted
        /\ UNCHANGED result

\* The block read is the one numbered by the entry, at whatever level.
Current == entry_index % 65536

\* One call of ext2_find_block_entry above level 0.
Descend ==
  /\ descent = "find" /\ level > 0
  /\ LET sublevels == Power[level - 1]
         index == entry_index \div sublevels
     IN  /\ descent' = IF IsMapped(Current, index) THEN "find" ELSE "fault"
         /\ entry_index' = entry_index - index * sublevels
  /\ level' = level - 1
  /\ UNCHANGED <<volume, wanted, seek, result>>

\* Level 0.
ReadLeaf ==
  /\ descent = "find" /\ level = 0
  /\ IF IsMapped(Current, entry_index)
     THEN descent' = "found" /\ result' = Word(Current, entry_index)
     ELSE descent' = "fault" /\ UNCHANGED result
  /\ UNCHANGED <<volume, wanted, seek, find>>

Step == Pass \/ Choose \/ Descend \/ ReadLeaf

Ended == descent \in Ends /\ UNCHANGED mapVars

MapNext == (\E entry \in Entries : Ask(entry)) \/ Step \/ Ended

MapSpec == MapInit /\ [][MapNext]_mapVars

--------------------------------------------------------------------------------
(******************************************************************************)
(* Type invariant.                                                            *)
(******************************************************************************)
MapTypeOK ==
  /\ block \in Inodes /\ device \in Devices
  /\ descent \in {"idle", "seek", "find"} \cup Ends
  /\ wanted \in {0} \cup Entries
  /\ base_block_index \in 0 .. Len(Level)
  /\ blocks_offset \in 0 .. ext2_get_inode_blocks_amount
  /\ level \in 0 .. 3
  /\ entry_index \in 0 .. wanted
  /\ result \in 0 .. BlockCount - 1

Direct == Cardinality({i \in DOMAIN Level : Level[i] = 0})

BeyondLastPointer == wanted > ext2_get_inode_blocks_amount - Power[Level[Len(Level)]]

(******************************************************************************)
(* Where every entry leads.  Entry k of a file that needs no pointer block is *)
(* the k-th pointer of its inode, what InodeData takes for granted of files   *)
(* of up to 12 blocks.  The walk passes the pointer an entry is below, unless *)
(* it is the first below it, and so leaves block[] for the entries of the     *)
(* last pointer and for no other.  And no entry between is found through the  *)
(* pointer block of its inode: at the end of the descent the entry is 0, and  *)
(* the answer is the first word of the boot block, the same for every file.   *)
(******************************************************************************)
WhereEntriesLead ==
  descent \in Ends =>
    /\ wanted < Direct => descent = "found" /\ result = block[wanted + 1]
    /\ descent = "overrun" <=> BeyondLastPointer
    /\ descent = "found" /\ wanted >= Direct => result = Word(0, 0)
================================================================================
