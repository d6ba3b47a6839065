--------------------------------- MODULE Layout --------------------------------
(******************************************************************************)
(* Where the blocks of a group and the inodes are: in the image, as mke2fs    *)
(* lays it out, and for the code, in the arithmetic of ext2_get_block_group,  *)
(* ext2_get_inode and ext2_get_root_inode.  Volume asks it of every group and *)
(* inode, Directory of the inodes on the way of a path.                       *)
(*                                                                            *)
(* An image has copies of the superblock and of the descriptor table, of      *)
(* descriptor_blocks blocks, in groups 0 and 1 and in the powers of 3, 5 and  *)
(* 7, the bitmaps and the inode table behind them; Placed is that layout.  A  *)
(* pointer into the mapping is the number of the block it is at.              *)
(*                                                                            *)
(* self, the t_ext2 of the code, is the superblock and the number of groups   *)
(* that ext2_create counted.                                                  *)
(******************************************************************************)
EXTENDS Integers

CONSTANTS
  Uint16Width,    \* 65536: numbers of blocks and groups are passed as uint16_t
  Stray           \* descriptors that a block without the table may be read as

ASSUME WidthAssumption == Uint16Width \in Nat /\ Uint16Width > 2

ASSUME StrayAssumption ==
  Stray # {} /\ Stray \subseteq [block_bitmap : Nat, inode_bitmap : Nat, inode_table : Nat]

NULL == -1
Fault == [fault |-> TRUE]

\* The cut of a number to uint16_t.
Uint16(n) == n % Uint16Width

--------------------------------------------------------------------------------
(******************************************************************************)
(* How an image is laid out.  The powers go beyond every group of a volume,   *)
(* whose blocks have numbers of 32 bits (8192 blocks or more to a group).     *)
(******************************************************************************)
PowersOf(p) == {p ^ k : k \in 0 .. 11}

HasCopy(g) == g = 0 \/ g \in PowersOf(3) \cup PowersOf(5) \cup PowersOf(7)

FirstBlock(sb, g) == g * sb.blockper_group + sb.first_data_block

Placed(sb, g) ==
  LET at == FirstBlock(sb, g) + (IF HasCopy(g) THEN 1 + sb.descriptor_blocks ELSE 0)
  IN  [block_bitmap |-> at, inode_bitmap |-> at + 1, inode_table |-> at + 2]

\* The groups of an image, the shorter last one included.
group_amount_up(sb) ==
  (sb.blockcount - sb.first_data_block + sb.blockper_group - 1) \div sb.blockper_group

\* The group whose table has an inode, and whether a place is that of the inode.
Home(sb, n) == (n - 1) \div sb.inodeper_group

IsAt(sb, n, place) ==
  /\ place.table = Placed(sb, Home(sb, n)).inode_table
  /\ Home(sb, n) * sb.inodeper_group + place.index + 1 = n

(******************************************************************************)
(* An image of mke2fs: a group has room for the copies, its bitmaps and its   *)
(* inode table, and no more inodes are counted than the groups have.          *)
(******************************************************************************)
MadeByMke2fs(sb) ==
  /\ sb.first_data_block \in {0, 1} /\ sb.descriptor_blocks \in Nat \ {0}
  /\ sb.blockper_group \in Nat /\ sb.blockper_group > 3 + sb.descriptor_blocks
  /\ sb.blockcount \in Nat /\ sb.blockcount > sb.first_data_block
  /\ sb.inodeper_group \in Nat \ {0} /\ sb.inodecount \in Nat
  /\ sb.inodecount <= sb.inodeper_group * group_amount_up(sb)

--------------------------------------------------------------------------------
\* floor((double) ... / (double) ...), returned as uint16_t.  (C leaves open what
\* a double beyond it becomes; compilers convert to an int and keep its low half.)
ext2_get_number_of_block_group(sb) ==
  Uint16((sb.blockcount - sb.first_data_block) \div sb.blockper_group)

ext2_has_superblock(group_number) ==
  \/ group_number \in {0, 1}
  \/ group_number % 3 = 0 \/ group_number % 5 = 0 \/ group_number % 7 = 0

ext2_get_block(self, block_number) ==
  LET n == Uint16(block_number)
  IN  IF self.superblock.blockcount <= n THEN NULL ELSE n

(******************************************************************************)
(* The descriptor read in the second block of a group, whose number is cut:   *)
(* if a copy of the table is there, the first of the table, whatever the      *)
(* group; the inode bitmap of a group without one, or whatever else is there, *)
(* is read as a stray descriptor.                                             *)
(******************************************************************************)
Descriptors(self, group_number) ==
  LET sb == self.superblock
      block == Uint16(FirstBlock(sb, group_number) + 1)
  IN  IF \E g \in 0 .. group_number : HasCopy(g) /\ block = FirstBlock(sb, g) + 1
      THEN {Placed(sb, 0)} ELSE Stray

\* The places of a group, as its descriptor d gives them or as they are counted.
Pointers(self, d) ==
  [block_bitmap |-> ext2_get_block(self, d.block_bitmap),
   inode_bitmap |-> ext2_get_block(self, d.inode_bitmap),
   inode_table |-> ext2_get_block(self, d.inode_table)]

\* Mutated form: the table is taken to be where the inode bitmap is.
CountedShort(first_block) ==
  [block_bitmap |-> first_block, inode_bitmap |-> first_block + 1,
   inode_table |-> first_block + 1]

Counted(first_block) ==
  [block_bitmap |-> first_block, inode_bitmap |-> first_block + 1,
   inode_table |-> first_block + 2]

\* What ext2_get_block_group may return for a group; none when it returns NULL.
ext2_get_block_group(self, group_number) ==
  IF self.number_of_block_groups <= group_number THEN {}
  ELSE IF ext2_has_superblock(group_number)
       THEN {Pointers(self, d) : d \in Descriptors(self, group_number)}
       ELSE {Pointers(self, Counted(FirstBlock(self.superblock, group_number)))}

\* An inode is the table it is in and its place there.
InodeIn(groups, local_index) ==
  IF groups = {} THEN {Fault}
  ELSE {[table |-> g.inode_table, index |-> local_index] : g \in groups}

\* Mutated form: as if inodes were counted from 0.
GroupOf_from_0(self, inode_index) ==
  Uint16(inode_index \div self.superblock.inodeper_group)

\* block_group_index is a uint16_t.
GroupOf(self, inode_index) ==
  Uint16((inode_index - 1) \div self.superblock.inodeper_group)

\* Mutated form: the first inode is taken to be number 0.
IndexOf_from_0(self, inode_index) == inode_index % self.superblock.inodeper_group

IndexOf(self, inode_index) == (inode_index - 1) % self.superblock.inodeper_group

ext2_get_inode(self, inode_index) ==
  InodeIn(ext2_get_block_group(self, GroupOf(self, inode_index)),
          IndexOf(self, inode_index))

\* EXT2_ROOT_INODE_INDEX is a place in the table of group 0.
ext2_get_root_inode(self) == InodeIn(ext2_get_block_group(self, 0), 1)

--------------------------------------------------------------------------------
\* Groups that the code reads as the image is laid out.
Regular(g) == g = 0 \/ ~ ext2_has_superblock(g)

\* Inodes whose group is one of them and is counted, with a table in a block that
\* has a number of 16 bits.
Reached(self, n) ==
  LET g == Home(self.superblock, n)
  IN  /\ Regular(g) /\ g < self.number_of_block_groups
      /\ Placed(self.superblock, g).inode_table < Uint16Width
================================================================================
