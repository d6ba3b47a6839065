------------------------------ MODULE FreeBlocks -------------------------------
(******************************************************************************)
(* The search of blocks for a file: ext2_get_free_blocks of ext2.c looks into *)
(* the block bitmap of a group, then into those of its neighbours, one to the *)
(* left and one to the right at a time.                                       *)
(*                                                                            *)
(* A bitmap is the set of its set bits: Bitarray shows that bitarray.c keeps  *)
(* one.  The code takes a set bit for a free block and sets it again.  The    *)
(* array to fill has room for the amount asked; what happens after a store    *)
(* beyond it is undefined, and the search is "overrun" and goes no further.   *)
(******************************************************************************)
EXTENDS Integers, SequencesExt

CONSTANTS
  Groups,            \* fs->number_of_block_groups
  Superblocks,       \* records of blockcount, first_data_block and inode_size
  Uint16Width,       \* 65536: the number of a group is passed as a uint16_t
  BitmapBits,        \* the bits of a bitmap block
  Starts,            \* the groups other callers may start from
  Amounts            \* the amounts asked for

\* The number of groups is a uint16_t as well, and a group has more than one block.
ASSUME GroupsAssumption ==
  Uint16Width \in Nat /\ Groups \in Nat \ {0} /\ Groups < Uint16Width
ASSUME SuperblocksAssumption ==
  /\ Superblocks \subseteq [blockcount : Nat, first_data_block : {0, 1}, inode_size : Nat]
  /\ \A sb \in Superblocks : 2 * Groups <= sb.blockcount
ASSUME BitsAssumption == BitmapBits \subseteq Nat /\ IsFiniteSet(BitmapBits)
ASSUME StartsAssumption == Starts \subseteq 0 .. Groups - 1
ASSUME AmountsAssumption == Amounts \subseteq Nat

VARIABLES
  superblock,
  bitmap,        \* block bitmap of each group
  pc,            \* "idle", "start", "left", "right", or how the search ended
  group_delta, amount, offset,
  free_blocks,   \* the part of the array filled so far
  searched       \* history: the groups looked into, in order

call == <<group_delta, amount>>
vars == <<superblock, bitmap, pc, call, offset, free_blocks, searched>>

Ends == {"given", "NULL", "overrun", "fault"}

--------------------------------------------------------------------------------
\* The cut of the number of a group to uint16_t.
Uint16(n) == n % Uint16Width

\* The loop advances its index where it means to advance the offset.
ext2_get_block_group_offset(group_number) == superblock.first_data_block

half_groups == Groups \div 2

\* The group to the left; one below 0 becomes one beyond the last block.  (A
\* cut to 32 bits before that to 16 would change nothing.)
Left(delta, o) ==
  IF delta - o < 0 THEN superblock.blockcount - (delta - o) ELSE delta - o

Right(delta, o) ==
  IF delta + o >= superblock.blockcount THEN delta + o - superblock.blockcount ELSE delta + o

\* Mutated form: the last group does not count.
ExistsBelow(group) == group + 1 < Groups

\* ext2_get_block_group is NULL for a group that does not exist.
Exists(group) == group < Groups

\* The bit with i lower ones.
Bit(bits, i) == CHOOSE bit \in bits : Cardinality({b \in bits : b < bit}) = i

\* What ext2_get_free_blocks_in_group stores: every set bit, lowest first.
Found(group) ==
  LET base == ext2_get_block_group_offset(group + 1)
  IN  [i \in 1 .. Cardinality(bitmap[group]) |-> base + Bit(bitmap[group], i - 1)]

\* Mutated form: more blocks than asked are enough.
OutcomeAtLeast(blocks, next) ==
  IF Len(blocks) >= amount THEN "given" ELSE next

\* How the search stands once a group is looked into.
Outcome(blocks, next) ==
  IF Len(blocks) = amount THEN "given"
  ELSE IF Len(blocks) > amount THEN "overrun" ELSE next

(******************************************************************************)
(* One call of ext2_get_free_blocks_in_group and the test that follows it.    *)
(* The group is dereferenced without a look at whether it exists, and its     *)
(* offset divides by inode_size.  The bits it then marks as used are the set  *)
(* ones: no bitmap ever changes.                                              *)
(******************************************************************************)
LookInto(group, next) ==
  IF Exists(group) /\ superblock.inode_size # 0
  THEN /\ free_blocks' = free_blocks \o Found(group)
       /\ searched' = Append(searched, group)
       /\ pc' = Outcome(free_blocks', next)
       /\ UNCHANGED <<superblock, bitmap>>
  ELSE pc' = "fault" /\ UNCHANGED <<superblock, bitmap, free_blocks, searched>>

Init ==
  /\ superblock \in Superblocks
  /\ bitmap \in [0 .. Groups - 1 -> SUBSET BitmapBits]
  /\ pc = "idle"
  /\ group_delta = 0 /\ amount = 0 /\ offset = 0
  /\ free_blocks = <<>> /\ searched = <<>>

ext2_get_free_blocks(start, n) ==
  /\ pc = "idle"
  /\ pc' = "start"
  /\ group_delta' = start
  /\ amount' = n
  /\ UNCHANGED <<superblock, bitmap, offset, free_blocks, searched>>

\* Its only caller starts from group 0, and does nothing with what it gets.
ext2_add_inode_free_blocks(n) == ext2_get_free_blocks(0, n)

\* The group of the caller, before the loop.
LookAtStart ==
  /\ pc = "start"
  /\ LookInto(group_delta, "left")
  /\ offset' = 1
  /\ UNCHANGED call

LookLeft ==
  /\ pc = "left"
  /\ offset < half_groups
  /\ LookInto(Uint16(Left(group_delta, offset)), "right")
  /\ UNCHANGED <<call, offset>>

\* Mutated form: the loop does not go on to the next pair of neighbours.
RightAgain ==
  /\ pc = "right"
  /\ LookInto(Uint16(Right(group_delta, offset)), "left")
  /\ UNCHANGED <<call, offset>>

LookRight ==
  /\ pc = "right"
  /\ LookInto(Uint16(Right(group_delta, offset)), "left")
  /\ offset' = offset + 1
  /\ UNCHANGED call

\* The loop is over: the array is freed.
GiveUp ==
  /\ pc = "left"
  /\ offset >= half_groups
  /\ pc' = "NULL"
  /\ free_blocks' = <<>>
  /\ UNCHANGED <<superblock, bitmap, call, offset, searched>>

Search == LookAtStart \/ LookLeft \/ LookRight \/ GiveUp

Ended == pc \in Ends /\ UNCHANGED vars

Next ==
  \/ \E n \in Amounts : ext2_add_inode_free_blocks(n)
  \/ \E start \in Starts, n \in Amounts : ext2_get_free_blocks(start, n)
  \/ Search
  \/ Ended

Spec == Init /\ [][Next]_vars

--------------------------------------------------------------------------------
(******************************************************************************)
(* The blocks given are as many as asked, and each is a set bit of a group    *)
(* that was looked into, all the set bits of which are given.                 *)
(******************************************************************************)
GivenAreTheSetBits ==
  pc = "given" =>
    /\ Len(free_blocks) = amount
    /\ Range(free_blocks) =
         {superblock.first_data_block + bit : bit \in UNION {bitmap[g] : g \in Range(searched)}}

Distance(g) == IF g < group_delta THEN group_delta - g ELSE g - group_delta

\* The groups looked into, as many as they are, are all neighbours in the volume.
Inside ==
  /\ group_delta - Len(searched) \div 2 >= 0
  /\ group_delta + (Len(searched) - 1) \div 2 < Groups

(******************************************************************************)
(* Left and right neighbours are taken in turn and do not meet: groups nearer *)
(* to the start come first, and half_groups stops the loop before one is      *)
(* looked into a second time, whose blocks would be given twice.  (A neighbour*)
(* outside the volume is one whose number is cut to 16 bits: it may be a      *)
(* group that was looked into already.)                                       *)
(******************************************************************************)
NearestFirst ==
  Inside =>
    /\ IsInjective(searched)
    /\ \A i, j \in DOMAIN searched :
          i < j => Distance(searched[i]) <= Distance(searched[j])

(******************************************************************************)
(* A search faults only by leaving the volume: with a neighbour on each side  *)
(* of its start at every distance below half_groups, it never does, on any    *)
(* volume that says how long its inodes are (one of revision 0 need not).     *)
(******************************************************************************)
FaultsOnlyOutside ==
  LET distance == (Len(searched) + 1) \div 2
  IN  pc = "fault" => \/ superblock.inode_size = 0
                      \/ group_delta - distance < 0
                      \/ group_delta + distance >= Groups
================================================================================
