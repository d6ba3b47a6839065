------------------------------ MODULE ServerProofs -----------------------------
(******************************************************************************)
(* What the server works out for a request: where groups and inodes are       *)
(* (Layout, Volume), which block an entry of a file is (BlockMap), and what   *)
(* becomes of offset and length (Transfer), each proved by itself, for every  *)
(* value of its constants.  MCServer composes the same, with Directory, whose *)
(* proofs build on the lemmas about Layout.                                   *)
(******************************************************************************)
EXTENDS Transfer, Volume, BlockMap, FiniteSetTheorems, TLAPS

--------------------------------------------------------------------------------
(******************************************************************************)
(* Arithmetic.                                                                *)
(******************************************************************************)

LEMMA Quotient ==
  ASSUME NEW a \in Nat, NEW b \in Nat \ {0}
  PROVE  /\ a \div b \in Nat /\ a % b \in 0 .. b - 1
         /\ a = (a \div b) * b + (a % b)
OBVIOUS

LEMMA BelowQuotient ==
  ASSUME NEW a \in Nat, NEW b \in Nat \ {0}, NEW k \in Nat, k <= a \div b
  PROVE  k * b <= a
<1>1. a \div b \in Nat /\ (a \div b) * b <= a
  BY Quotient
<1>2. k * b <= (a \div b) * b
  BY <1>1
<1>3. QED
  BY <1>1, <1>2

\* Between the quotient and its rounding up there is only a remainder.
LEMMA RoundedUp ==
  ASSUME NEW a \in Nat, NEW b \in Nat \ {0}
  PROVE  /\ (a + b - 1) \div b \in Nat
         /\ a % b = 0 => (a + b - 1) \div b = a \div b
<1> DEFINE m == a + b - 1
           up == m \div b
           q == a \div b
<1>1. m \in Nat /\ m = a + b - 1
  OBVIOUS
<1> HIDE DEF m
<1>2. /\ up \in Nat /\ up * b <= m /\ m < up * b + b
      /\ q \in Nat /\ a = q * b + (a % b)
  BY <1>1, Quotient
<1> HIDE DEF up, q
<1>3. ASSUME a % b = 0 PROVE up = q
  <2>1. a = q * b
    BY <1>2, <1>3
  <2>2. ~(up < q)
    <3>1. up < q => (up + 1) * b <= q * b
      BY <1>2
    <3>2. QED
      BY <1>1, <1>2, <2>1, <3>1
  <2>3. ~(up > q)
    <3>1. up > q => (q + 1) * b <= up * b
      BY <1>2
    <3>2. QED
      BY <1>1, <1>2, <2>1, <3>1
  <2>4. QED
    BY <1>2, <2>2, <2>3
<1>4. QED
  BY <1>2, <1>3 DEF up, q, m

LEMMA CopyGroups ==
  /\ \A g \in PowersOf(3) : g = 1 \/ g % 3 = 0
  /\ \A g \in PowersOf(5) : g = 1 \/ g % 5 = 0
  /\ \A g \in PowersOf(7) : g = 1 \/ g % 7 = 0
<1>1. 0 .. 11 = {0, 1, 2, 3, 4, 5, 6, 7, 8, 9, 10, 11}
  OBVIOUS
<1>2. /\ 3 ^ 0 = 1 /\ 3 ^ 1 = 3 /\ 3 ^ 2 = 9 /\ 3 ^ 3 = 27 /\ 3 ^ 4 = 81 /\ 3 ^ 5 = 243
      /\ 3 ^ 6 = 729 /\ 3 ^ 7 = 2187 /\ 3 ^ 8 = 6561 /\ 3 ^ 9 = 19683 /\ 3 ^ 10 = 59049 /\ 3 ^ 11 = 177147
  OBVIOUS
<1>3. /\ 5 ^ 0 = 1 /\ 5 ^ 1 = 5 /\ 5 ^ 2 = 25 /\ 5 ^ 3 = 125 /\ 5 ^ 4 = 625 /\ 5 ^ 5 = 3125
      /\ 5 ^ 6 = 15625 /\ 5 ^ 7 = 78125 /\ 5 ^ 8 = 390625 /\ 5 ^ 9 = 1953125
      /\ 5 ^ 10 = 9765625 /\ 5 ^ 11 = 48828125
  OBVIOUS
<1>4. /\ 7 ^ 0 = 1 /\ 7 ^ 1 = 7 /\ 7 ^ 2 = 49 /\ 7 ^ 3 = 343 /\ 7 ^ 4 = 2401 /\ 7 ^ 5 = 16807
      /\ 7 ^ 6 = 117649 /\ 7 ^ 7 = 823543 /\ 7 ^ 8 = 5764801 /\ 7 ^ 9 = 40353607
      /\ 7 ^ 10 = 282475249 /\ 7 ^ 11 = 1977326743
  OBVIOUS
<1>5. /\ PowersOf(3) = {1, 3, 9, 27, 81, 243, 729, 2187, 6561, 19683, 59049, 177147}
      /\ PowersOf(5) = {1, 5, 25, 125, 625, 3125, 15625, 78125, 390625, 1953125, 9765625,
                      48828125}
      /\ PowersOf(7) = {1, 7, 49, 343, 2401, 16807, 117649, 823543, 5764801, 40353607,
                      282475249, 1977326743}
  BY <1>1, <1>2, <1>3, <1>4 DEF PowersOf
<1>6. QED
  BY <1>5

--------------------------------------------------------------------------------
(******************************************************************************)
(* The layout, for every volume that mke2fs may have written (MadeByMke2fs),  *)
(* whatever its sizes and the width of block and group numbers: groups that   *)
(* are counted end inside the volume, the code reads the regular ones where   *)
(* they are, and a place in a table is that of one inode.                     *)
(******************************************************************************)

\* What ext2_create leaves, or has before it.
SoundVolume(self) ==
  /\ MadeByMke2fs(self.superblock)
  /\ \/ self.number_of_block_groups = 0
     \/ self.number_of_block_groups = ext2_get_number_of_block_group(self.superblock)

\* A cut makes no number greater, and leaves alone one that fits.
LEMMA CutTo16 ==
  ASSUME NEW n \in Nat
  PROVE  /\ Uint16(n) \in 0 .. Uint16Width - 1 /\ Uint16(n) <= n
         /\ n < Uint16Width => Uint16(n) = n
<1>1. Uint16Width \in Nat \ {0}
  BY WidthAssumption
<1>2. n % Uint16Width \in 0 .. Uint16Width - 1 /\ n % Uint16Width <= n
  <2>1. /\ n \div Uint16Width \in Nat /\ n % Uint16Width \in 0 .. Uint16Width - 1
        /\ n = (n \div Uint16Width) * Uint16Width + (n % Uint16Width)
    BY <1>1, Quotient
  <2>2. (n \div Uint16Width) * Uint16Width \in Nat
    BY <1>1, <2>1
  <2>3. QED
    BY <2>1, <2>2
<1>3. n < Uint16Width => n % Uint16Width = n
  BY <1>1
<1>4. QED
  BY <1>2, <1>3 DEF Uint16

LEMMA VolumeTypes ==
  ASSUME NEW self, SoundVolume(self)
  PROVE  LET sb == self.superblock
         IN  /\ sb.first_data_block \in {0, 1} /\ sb.descriptor_blocks \in Nat \ {0}
             /\ sb.blockper_group \in Nat \ {0}
             /\ sb.blockper_group > 3 + sb.descriptor_blocks
             /\ sb.blockcount \in Nat /\ sb.blockcount > sb.first_data_block
             /\ sb.inodeper_group \in Nat \ {0} /\ sb.inodecount \in Nat
             /\ sb.inodecount <= sb.inodeper_group * group_amount_up(sb)
             /\ self.number_of_block_groups \in 0 .. Uint16Width - 1
             /\ self.number_of_block_groups
                  <= (sb.blockcount - sb.first_data_block) \div sb.blockper_group
<1> DEFINE sb == self.superblock
           a == sb.blockcount - sb.first_data_block
           b == sb.blockper_group
<1>1. /\ sb.first_data_block \in {0, 1} /\ sb.descriptor_blocks \in Nat \ {0}
      /\ sb.blockper_group \in Nat \ {0} /\ sb.blockper_group > 3 + sb.descriptor_blocks
      /\ sb.blockcount \in Nat /\ sb.blockcount > sb.first_data_block
      /\ sb.inodeper_group \in Nat \ {0} /\ sb.inodecount \in Nat
      /\ sb.inodecount <= sb.inodeper_group * group_amount_up(sb)
  BY DEF SoundVolume, MadeByMke2fs
<1>2. a \in Nat /\ b \in Nat \ {0}
  BY <1>1
<1>3. \/ self.number_of_block_groups = 0
      \/ self.number_of_block_groups = Uint16(a \div b)
  BY DEF SoundVolume, ext2_get_number_of_block_group
<1> HIDE DEF a, b
<1>4. a \div b \in Nat
  BY <1>2, Quotient
<1>5. /\ self.number_of_block_groups \in 0 .. Uint16Width - 1
      /\ self.number_of_block_groups <= a \div b
  BY <1>3, <1>4, CutTo16, WidthAssumption
<1>6. QED
  BY <1>1, <1>5 DEF a, b

LEMMA GroupExists ==
  ASSUME NEW self, SoundVolume(self), NEW n \in Nat, n < self.number_of_block_groups
  PROVE  ext2_get_block_group(self, n) # {}
<1>1. Descriptors(self, n) # {}
  BY StrayAssumption DEF Descriptors
<1>2. {Pointers(self, d) : d \in Descriptors(self, n)} # {}
  BY <1>1
<1>3. ~ (self.number_of_block_groups <= n)
  BY VolumeTypes
<1>4. QED
  BY <1>2, <1>3 DEF ext2_get_block_group

\* A group that exists ends inside the volume.
LEMMA GroupInside ==
  ASSUME NEW self, SoundVolume(self), NEW n \in Nat, n < self.number_of_block_groups
  PROVE  /\ FirstBlock(self.superblock, n) \in Nat
         /\ FirstBlock(self.superblock, n) + self.superblock.blockper_group
              = FirstBlock(self.superblock, n + 1)
         /\ FirstBlock(self.superblock, n + 1) <= self.superblock.blockcount
<1> DEFINE sb == self.superblock
           a == sb.blockcount - sb.first_data_block
           b == sb.blockper_group
<1>1. /\ sb.first_data_block \in {0, 1} /\ b \in Nat \ {0} /\ a \in Nat
      /\ sb.blockcount = a + sb.first_data_block
      /\ self.number_of_block_groups \in Nat /\ self.number_of_block_groups <= a \div b
  BY VolumeTypes, WidthAssumption
<1> HIDE DEF a, b
<1>2. a \div b \in Nat
  BY <1>1, Quotient
<1>3. n + 1 \in Nat /\ n + 1 <= a \div b
  BY <1>1, <1>2
<1>4. (n + 1) * b <= a
  BY <1>1, <1>3, BelowQuotient
<1>5. n * b \in Nat /\ n * b + b = (n + 1) * b
  BY <1>1
<1>6. /\ FirstBlock(sb, n) = n * b + sb.first_data_block
      /\ FirstBlock(sb, n + 1) = (n + 1) * b + sb.first_data_block
      /\ sb.blockper_group = b
  BY DEF FirstBlock, b
<1>7. QED
  BY <1>1, <1>4, <1>5, <1>6

LEMMA BlockOf ==
  ASSUME NEW self, SoundVolume(self),
         NEW n \in Nat, n < Uint16Width, n < self.superblock.blockcount
  PROVE  ext2_get_block(self, n) = n
<1>1. Uint16(n) = n
  BY CutTo16
<1>2. QED
  BY <1>1, VolumeTypes DEF ext2_get_block

LEMMA RegularHasNoCopy ==
  ASSUME NEW g \in Nat, Regular(g), g # 0
  PROVE  ~ HasCopy(g)
BY CopyGroups DEF Regular, HasCopy, ext2_has_superblock

\* The second block of group 0 has a number that is not cut.
LEMMA FirstDescriptor ==
  ASSUME NEW self, SoundVolume(self)
  PROVE  Descriptors(self, 0) = {Placed(self.superblock, 0)}
<1> DEFINE second == FirstBlock(self.superblock, 0) + 1
<1>1. /\ self.superblock.first_data_block \in {0, 1}
      /\ self.superblock.blockper_group \in Nat
  BY VolumeTypes
<1>2. second \in Nat /\ second < Uint16Width
  BY <1>1, WidthAssumption DEF FirstBlock
<1> HIDE DEF second
<1>3. Uint16(second) = second
  BY <1>2, CutTo16
<1>4. \E g \in 0 .. 0 : HasCopy(g) /\ Uint16(second) = FirstBlock(self.superblock, g) + 1
  BY <1>3 DEF HasCopy, second
<1>5. QED
  BY <1>4 DEF Descriptors, second

LEMMA RegularGroup ==
  ASSUME NEW self, SoundVolume(self), NEW n \in Nat, n < self.number_of_block_groups,
         Regular(n), NEW g \in ext2_get_block_group(self, n)
  PROVE  LET placed == Placed(self.superblock, n)
         IN  /\ g = Pointers(self, placed)
             /\ \A place \in DOMAIN placed :
                  placed[place] < Uint16Width => g[place] = placed[place]
<1> DEFINE placed == Placed(self.superblock, n)
<1>0. ~ (self.number_of_block_groups <= n)
  BY VolumeTypes
<1>1. g = Pointers(self, placed)
  <2>1. CASE n = 0
    <3>1. ext2_get_block_group(self, n) = {Pointers(self, d) : d \in Descriptors(self, n)}
      BY <1>0, <2>1 DEF ext2_get_block_group, ext2_has_superblock
    <3>2. Descriptors(self, n) = {placed}
      BY <2>1, FirstDescriptor
    <3>3. QED
      BY <3>1, <3>2
  <2>2. CASE n # 0
    <3>1. ~ HasCopy(n)
      BY <2>2, RegularHasNoCopy
    <3>2. ext2_get_block_group(self, n)
            = {Pointers(self, Counted(FirstBlock(self.superblock, n)))}
      BY <1>0, <2>2 DEF ext2_get_block_group, Regular
    <3>3. Counted(FirstBlock(self.superblock, n)) = placed
      BY <3>1, GroupInside DEF Counted, Placed
    <3>4. QED
      BY <3>2, <3>3
  <2>3. QED
    BY <2>1, <2>2
<1>2. /\ placed.block_bitmap \in Nat /\ placed.block_bitmap < self.superblock.blockcount
      /\ placed.inode_bitmap \in Nat /\ placed.inode_bitmap < self.superblock.blockcount
      /\ placed.inode_table \in Nat /\ placed.inode_table < self.superblock.blockcount
      /\ DOMAIN placed = {"block_bitmap", "inode_bitmap", "inode_table"}
  BY GroupInside, VolumeTypes DEF Placed
<1> HIDE DEF placed
<1>3. /\ placed.block_bitmap < Uint16Width => g.block_bitmap = placed.block_bitmap
      /\ placed.inode_bitmap < Uint16Width => g.inode_bitmap = placed.inode_bitmap
      /\ placed.inode_table < Uint16Width => g.inode_table = placed.inode_table
  BY <1>1, <1>2, BlockOf DEF Pointers
<1>4. \A place \in DOMAIN placed : placed[place] < Uint16Width => g[place] = placed[place]
  BY <1>2, <1>3
<1>5. QED
  BY <1>1, <1>4 DEF placed

\* Inodes are counted from 1, and from 0 in the table of their group.
LEMMA InodeNumber ==
  ASSUME NEW self, SoundVolume(self), NEW n \in Nat, n >= 1
  PROVE  /\ Home(self.superblock, n) \in Nat /\ IndexOf(self, n) \in Nat
         /\ GroupOf(self, n) = Uint16(Home(self.superblock, n))
         /\ Home(self.superblock, n) * self.superblock.inodeper_group
              + IndexOf(self, n) + 1 = n
<1> DEFINE a == n - 1
           b == self.superblock.inodeper_group
<1>1. a \in Nat /\ a = n - 1 /\ b \in Nat \ {0}
  BY VolumeTypes
<1>2. /\ Home(self.superblock, n) = a \div b /\ IndexOf(self, n) = a % b
      /\ GroupOf(self, n) = Uint16(Home(self.superblock, n))
  BY DEF Home, IndexOf, GroupOf
<1> HIDE DEF a
<1> HIDE DEF b
<1>3. a \div b \in Nat /\ (a % b) \in 0 .. b - 1 /\ a = (a \div b) * b + (a % b)
  BY <1>1, Quotient
<1>4. QED
  BY <1>1, <1>2, <1>3 DEF b

\* The root is in group 0, or in one that is not regular.
LEMMA RootGroup ==
  ASSUME NEW self, SoundVolume(self), Regular(Home(self.superblock, 2))
  PROVE  Home(self.superblock, 2) = 0 /\ IndexOf(self, 2) = 1
<1> DEFINE b == self.superblock.inodeper_group
           h == Home(self.superblock, 2)
           i == IndexOf(self, 2)
           p == h * b
<1>1. b \in Nat \ {0}
  BY VolumeTypes
<1>2. h \in Nat /\ i \in Nat /\ p + i + 1 = 2
  BY InodeNumber
<1>3. h # 1
  BY DEF Regular, ext2_has_superblock
<1> HIDE DEF h, i, b
<1>4. p \in Nat /\ p >= h
  BY <1>1, <1>2
<1> HIDE DEF p
<1>5. h = 0
  BY <1>2, <1>3, <1>4
<1>6. p = 0
  BY <1>1, <1>5 DEF p
<1>7. QED
  BY <1>2, <1>5, <1>6 DEF h, i

\* Where an inode is read that the code reaches, and the root.
LEMMA ReachedInode ==
  ASSUME NEW self, SoundVolume(self), NEW n \in Nat, n >= 1, Reached(self, n)
  PROVE  /\ \E place \in ext2_get_inode(self, n) : TRUE
         /\ \A place \in ext2_get_inode(self, n) :
              place # Fault /\ IsAt(self.superblock, n, place)
         /\ n = 2 => ext2_get_root_inode(self) = ext2_get_inode(self, n)
<1> DEFINE h == Home(self.superblock, n)
           groups == ext2_get_block_group(self, h)
           index == IndexOf(self, n)
           table == Placed(self.superblock, h).inode_table
<1>1. /\ h \in Nat /\ index \in Nat /\ GroupOf(self, n) = Uint16(h)
      /\ h * self.superblock.inodeper_group + index + 1 = n
  BY InodeNumber
<1>2. /\ Regular(h) /\ h < self.number_of_block_groups /\ table < Uint16Width
  BY DEF Reached
<1>3. Uint16(h) = h
  <2>1. self.number_of_block_groups \in 0 .. Uint16Width - 1
    BY VolumeTypes
  <2> HIDE DEF h
  <2>2. h < Uint16Width
    BY <1>1, <1>2, <2>1, WidthAssumption
  <2>3. QED
    BY <1>1, <2>2, CutTo16
<1>4. groups # {}
  BY <1>1, <1>2, GroupExists
<1>5. ext2_get_inode(self, n) = {[table |-> g.inode_table, index |-> index] : g \in groups}
  BY <1>1, <1>3, <1>4 DEF ext2_get_inode, InodeIn
<1>6. \A g \in groups : g.inode_table = table
  <2> SUFFICES ASSUME NEW g \in groups PROVE g.inode_table = table
    OBVIOUS
  <2>1. \A place \in DOMAIN Placed(self.superblock, h) :
          Placed(self.superblock, h)[place] < Uint16Width =>
            g[place] = Placed(self.superblock, h)[place]
    BY <1>1, <1>2, RegularGroup
  <2>2. "inode_table" \in DOMAIN Placed(self.superblock, h)
    BY DEF Placed
  <2>3. QED
    BY <1>2, <2>1, <2>2
<1>7. n = 2 => ext2_get_root_inode(self) = ext2_get_inode(self, n)
  <2> SUFFICES ASSUME n = 2 PROVE ext2_get_root_inode(self) = ext2_get_inode(self, n)
    OBVIOUS
  <2>1. h = 0 /\ index = 1
    BY <1>2, RootGroup
  <2>2. QED
    BY <1>1, <1>3, <2>1 DEF ext2_get_root_inode, ext2_get_inode
<1>8. ASSUME NEW place \in ext2_get_inode(self, n)
      PROVE  place # Fault /\ IsAt(self.superblock, n, place)
  <2>1. PICK g \in groups : place = [table |-> g.inode_table, index |-> index]
    BY <1>5
  <2>2. place.table = table /\ place.index = index
    BY <1>6, <2>1
  <2>3. DOMAIN place = {"table", "index"} /\ DOMAIN Fault = {"fault"}
    BY <2>1 DEF Fault
  <2>4. place # Fault
    BY <2>3
  <2>5. QED
    BY <1>1, <2>2, <2>4 DEF IsAt
<1>9. \E place \in ext2_get_inode(self, n) : TRUE
  BY <1>4, <1>5
<1>10. QED
  BY <1>7, <1>8, <1>9

\* The tables of two groups are not in one block.
LEMMA OneTable ==
  ASSUME NEW self, SoundVolume(self), NEW g \in Nat, NEW h \in Nat, g < h
  PROVE  Placed(self.superblock, g).inode_table # Placed(self.superblock, h).inode_table
<1> DEFINE sb == self.superblock
           b == sb.blockper_group
           d == sb.descriptor_blocks
           f == sb.first_data_block
<1>1. b \in Nat /\ d \in Nat /\ f \in Nat /\ b > 3 + d
  BY VolumeTypes
<1>2. /\ Placed(sb, g).inode_table \in {g * b + f + 2, g * b + f + 1 + d + 2}
      /\ Placed(sb, h).inode_table \in {h * b + f + 2, h * b + f + 1 + d + 2}
  <2>1. FirstBlock(sb, g) = g * b + f /\ FirstBlock(sb, h) = h * b + f
    BY DEF FirstBlock
  <2>2. g * b \in Nat /\ h * b \in Nat
    BY <1>1
  <2>3. QED
    BY <1>1, <2>1, <2>2 DEF Placed
<1> HIDE DEF b, d, f, sb
<1>3. g * b \in Nat /\ h * b \in Nat /\ g * b + b <= h * b
  <2>1. g + 1 <= h
    OBVIOUS
  <2>2. (g + 1) * b <= h * b
    BY <1>1, <2>1
  <2>3. QED
    BY <1>1, <2>2
<1>4. QED
  BY <1>1, <1>2, <1>3 DEF sb

\* One inode is at a place.
LEMMA OneInode ==
  ASSUME NEW self, SoundVolume(self), NEW place,
         NEW m \in Nat \ {0}, IsAt(self.superblock, m, place),
         NEW n \in Nat \ {0}, IsAt(self.superblock, n, place)
  PROVE  m = n
<1> DEFINE g == Home(self.superblock, m)
           h == Home(self.superblock, n)
<1>1. g \in Nat /\ h \in Nat
  BY InodeNumber
<1>2. Placed(self.superblock, g).inode_table = Placed(self.superblock, h).inode_table
  BY DEF IsAt
<1>3. g = h
  <2> HIDE DEF g, h
  <2>1. ~ (g < h) /\ ~ (h < g)
    BY <1>1, <1>2, OneTable
  <2>2. QED
    BY <1>1, <2>1
<1>4. QED
  BY <1>3 DEF IsAt

--------------------------------------------------------------------------------
(******************************************************************************)
(* The volume.  An answer is one to the last question (VolumeInv); that it is *)
(* right is what is known of the layout.                                      *)
(******************************************************************************)

Answered ==
  \/ question = Nothing /\ answer = Nothing
  \/ \E n \in 0 .. fs.number_of_block_groups :
       /\ question = [kind |-> "group", n |-> n]
       /\ answer \in IF ext2_get_block_group(fs, n) = {} THEN {Nothing}
                     ELSE ext2_get_block_group(fs, n)
  \/ \E n \in 1 .. fs.superblock.inodecount :
       question = [kind |-> "inode", n |-> n] /\ answer \in ext2_get_inode(fs, n)
  \/ question = [kind |-> "root", n |-> 2] /\ answer \in ext2_get_root_inode(fs)

VolumeInv ==
  /\ start \in {"open", "fstat", "regular", "mmap", "create", "up", "exited"}
  /\ \E sb \in Superblocks :
       fs = [superblock |-> sb,
             number_of_block_groups |->
               IF start = "up" THEN ext2_get_number_of_block_group(sb) ELSE 0]
  /\ start # "up" => question = Nothing /\ answer = Nothing
  /\ Answered

LEMMA InitVolumeInv == VolumeInit => VolumeInv
<1> SUFFICES ASSUME VolumeInit PROVE VolumeInv
  OBVIOUS
<1>1. start = "open" /\ question = Nothing /\ answer = Nothing
  BY DEF VolumeInit
<1>2. PICK sb \in Superblocks : fs = [superblock |-> sb, number_of_block_groups |-> 0]
  BY DEF VolumeInit
<1>3. QED
  BY <1>1, <1>2 DEF VolumeInv, Answered

LEMMA NextVolumeInv == VolumeInv /\ [VolumeNext]_volumeVars => VolumeInv'
<1> SUFFICES ASSUME VolumeInv, [VolumeNext]_volumeVars PROVE VolumeInv'
  OBVIOUS
<1>1. CASE ext2_server_create
  <2>1. /\ start # "up" /\ start' # "up" /\ UNCHANGED <<fs, question, answer>>
        /\ start' \in {"open", "fstat", "regular", "mmap", "create", "up", "exited"}
    BY <1>1 DEF ext2_server_create
  <2>2. QED
    BY <2>1 DEF VolumeInv, Answered
<1>2. CASE ext2_create
  <2>1. start = "create" /\ UNCHANGED <<question, answer>>
    BY <1>2 DEF ext2_create
  <2>2. PICK sb \in Superblocks : fs = [superblock |-> sb, number_of_block_groups |-> 0]
    BY <2>1 DEF VolumeInv
  <2>3. \/ /\ start' = "up"
           /\ fs' = [superblock |-> sb,
                     number_of_block_groups |-> ext2_get_number_of_block_group(sb)]
        \/ start' = "exited" /\ fs' = fs
    BY <1>2, <2>2 DEF ext2_create
  <2>4. question' = Nothing /\ answer' = Nothing
    BY <2>1 DEF VolumeInv
  <2>5. QED
    BY <2>2, <2>3, <2>4 DEF VolumeInv, Answered
<1>3. CASE AskGroup \/ AskInode \/ AskRoot
  <2>1. start = "up" /\ UNCHANGED <<start, fs>>
    BY <1>3 DEF AskGroup, AskInode, AskRoot, AskFor
  <2>2. Answered'
    BY <1>3, <2>1 DEF AskGroup, AskInode, AskRoot, AskFor, Answered
  <2>3. QED
    BY <2>1, <2>2 DEF VolumeInv
<1>4. CASE Exited \/ UNCHANGED volumeVars
  BY <1>4 DEF Exited, volumeVars, VolumeInv, Answered
<1>5. QED
  BY <1>1, <1>2, <1>3, <1>4 DEF VolumeNext

LEMMA VolumeInvAlways == VolumeSpec => []VolumeInv
BY InitVolumeInv, NextVolumeInv, PTL DEF VolumeSpec

LEMMA VolumeIsSound ==
  ASSUME VolumeInv
  PROVE  /\ SoundVolume(fs) /\ fs.superblock \in Superblocks
         /\ start = "up" =>
              fs.number_of_block_groups = ext2_get_number_of_block_group(fs.superblock)
<1>1. PICK sb \in Superblocks :
        fs = [superblock |-> sb,
              number_of_block_groups |->
                IF start = "up" THEN ext2_get_number_of_block_group(sb) ELSE 0]
  BY DEF VolumeInv
<1>2. fs.superblock = sb /\ MadeByMke2fs(sb)
  BY <1>1, VolumeAssumption
<1>3. QED
  BY <1>1, <1>2 DEF SoundVolume

LEMMA InvGroupsWhereTheyAre ==
  VolumeInv => GroupsWhereTheyAre
<1> SUFFICES ASSUME VolumeInv,
                    Asked("group"), question.n < fs.number_of_block_groups
             PROVE  LET placed == Placed(fs.superblock, question.n)
                    IN  /\ FirstBlock(fs.superblock, question.n + 1)
                             <= fs.superblock.blockcount
                        /\ Regular(question.n) =>
                             \A place \in DOMAIN placed :
                               placed[place] < Uint16Width => answer[place] = placed[place]
  BY Zenon DEF GroupsWhereTheyAre
<1> DEFINE n == question.n
<1>0. SoundVolume(fs)
  BY VolumeIsSound
<1>1. /\ n \in 0 .. fs.number_of_block_groups
      /\ answer \in IF ext2_get_block_group(fs, n) = {} THEN {Nothing}
                    ELSE ext2_get_block_group(fs, n)
  BY DEF VolumeInv, Answered, Asked, Nothing
<1>2. n \in Nat
  BY <1>0, <1>1, VolumeTypes, WidthAssumption
<1>3. FirstBlock(fs.superblock, n + 1) <= fs.superblock.blockcount
  BY <1>0, <1>2, GroupInside
<1>4. ext2_get_block_group(fs, n) # {}
  BY <1>0, <1>2, GroupExists
<1>5. answer \in ext2_get_block_group(fs, n)
  BY <1>1, <1>4
<1>6. ASSUME Regular(n)
      PROVE  \A place \in DOMAIN Placed(fs.superblock, n) :
               Placed(fs.superblock, n)[place] < Uint16Width =>
                 answer[place] = Placed(fs.superblock, n)[place]
  BY <1>0, <1>2, <1>5, <1>6, RegularGroup
<1>7. QED
  BY <1>3, <1>6

(******************************************************************************)
(* The groups of a volume end inside it, and those that the code reads as     *)
(* they are laid out are found (ext2_get_block_group): for every volume and   *)
(* every width of a block number and a group number.                          *)
(******************************************************************************)
THEOREM GroupsAreFound ==
  VolumeSpec => []GroupsWhereTheyAre
<1>1. VolumeInv => GroupsWhereTheyAre
  BY InvGroupsWhereTheyAre
<1>2. QED
  BY <1>1, VolumeInvAlways, PTL

LEMMA InvInodesWhereTheyAre ==
  VolumeInv => InodesWhereTheyAre
<1> SUFFICES ASSUME VolumeInv, Asked("inode") \/ Asked("root"), Reached(fs, question.n)
             PROVE  IsAt(fs.superblock, question.n, answer)
  BY DEF InodesWhereTheyAre
<1>0. SoundVolume(fs)
  BY VolumeIsSound
<1>1. CASE Asked("inode")
  <2>1. question.n \in 1 .. fs.superblock.inodecount /\ answer \in ext2_get_inode(fs, question.n)
    BY <1>1 DEF VolumeInv, Answered, Asked, Nothing
  <2>2. question.n \in Nat /\ question.n >= 1
    BY <1>0, <2>1, VolumeTypes
  <2>3. QED
    BY <1>0, <2>1, <2>2, ReachedInode
<1>2. CASE Asked("root")
  <2>1. question.n = 2 /\ answer \in ext2_get_root_inode(fs)
    BY <1>2 DEF VolumeInv, Answered, Asked, Nothing
  <2>2. ext2_get_root_inode(fs) = ext2_get_inode(fs, 2)
    BY <1>0, <2>1, ReachedInode
  <2>3. QED
    BY <1>0, <2>1, <2>2, ReachedInode
<1>3. QED
  BY <1>1, <1>2

(******************************************************************************)
(* An inode and the root are found in their place of the table of their group *)
(* (ext2_get_inode, ext2_get_root_inode), where the code reaches it, for      *)
(* every number of inodes in a group and of groups.                           *)
(******************************************************************************)
THEOREM InodesAreFound ==
  VolumeSpec => []InodesWhereTheyAre
<1>1. VolumeInv => InodesWhereTheyAre
  BY InvInodesWhereTheyAre
<1>2. QED
  BY <1>1, VolumeInvAlways, PTL

Whole(sb) ==
  /\ (sb.blockcount - sb.first_data_block) % sb.blockper_group = 0
  /\ group_amount_up(sb) < Uint16Width

\* A volume of whole groups has one, and all of them are counted.
LEMMA WholeVolume ==
  ASSUME VolumeInv, start = "up", Whole(fs.superblock)
  PROVE  /\ fs.number_of_block_groups = group_amount_up(fs.superblock)
         /\ fs.number_of_block_groups \in Nat \ {0}
<1> DEFINE sb == fs.superblock
           a == sb.blockcount - sb.first_data_block
           b == sb.blockper_group
           q == a \div b
<1>0. SoundVolume(fs) /\ fs.number_of_block_groups = Uint16(q)
  BY VolumeIsSound DEF ext2_get_number_of_block_group
<1>1. a \in Nat \ {0} /\ b \in Nat \ {0}
  <2>1. /\ sb.first_data_block \in Nat /\ sb.blockcount \in Nat
        /\ sb.blockcount > sb.first_data_block /\ b \in Nat \ {0}
    BY <1>0, VolumeTypes
  <2>2. QED
    BY <2>1
<1>2. group_amount_up(sb) = (a + b - 1) \div b
  BY DEF group_amount_up
<1>3. a % b = 0 /\ group_amount_up(sb) < Uint16Width
  BY DEF Whole
<1> HIDE DEF a, b
<1>4. q \in Nat /\ a = q * b
  BY <1>1, <1>3, Quotient
<1>5. group_amount_up(sb) = q
  BY <1>1, <1>2, <1>3, RoundedUp
<1>6. q # 0
  BY <1>1, <1>4
<1>7. Uint16(q) = q
  BY <1>3, <1>4, <1>5, CutTo16
<1>8. QED
  BY <1>0, <1>4, <1>5, <1>6, <1>7

\* An inode of a volume of whole groups is in a group that exists.
LEMMA WholeGroups ==
  ASSUME VolumeInv, start = "up", Whole(fs.superblock),
         NEW n \in 1 .. fs.superblock.inodecount
  PROVE  GroupOf(fs, n) \in Nat /\ GroupOf(fs, n) < fs.number_of_block_groups
<1> DEFINE i == fs.superblock.inodeper_group
           q == fs.number_of_block_groups
           h == Home(fs.superblock, n)
           x == IndexOf(fs, n)
<1>0. SoundVolume(fs)
  BY VolumeIsSound
<1>1. /\ q \in Nat /\ q = group_amount_up(fs.superblock)
  BY WholeVolume
<1>2. /\ i \in Nat \ {0} /\ n \in Nat /\ n >= 1 /\ n <= fs.superblock.inodecount
      /\ fs.superblock.inodecount \in Nat
      /\ fs.superblock.inodecount <= i * group_amount_up(fs.superblock)
  BY <1>0, VolumeTypes
<1>3. h \in Nat /\ x \in Nat /\ h * i + x + 1 = n /\ GroupOf(fs, n) = Uint16(h)
  BY <1>0, <1>2, InodeNumber
<1> HIDE DEF i, q, h, x
<1>4. n <= i * q
  BY <1>1, <1>2
<1>5. h < q
  <2>1. h * i \in Nat /\ h * i < i * q
    BY <1>1, <1>2, <1>3, <1>4
  <2>2. h >= q => h * i >= q * i
    BY <1>1, <1>2, <1>3
  <2>3. QED
    BY <1>1, <1>2, <1>3, <2>1, <2>2
<1>6. Uint16(h) \in Nat /\ Uint16(h) <= h
  BY <1>3, CutTo16, WidthAssumption
<1>7. QED
  BY <1>1, <1>3, <1>5, <1>6 DEF q

LEMMA NoFaultOfGroup ==
  ASSUME NEW groups, NEW m, groups # {}, NEW i \in InodeIn(groups, m)
  PROVE  i # Fault
<1>1. PICK g \in groups : i = [table |-> g.inode_table, index |-> m]
  BY DEF InodeIn
<1>2. DOMAIN i = {"table", "index"}
  BY <1>1
<1>3. DOMAIN Fault = {"fault"}
  BY DEF Fault
<1>4. QED
  BY <1>2, <1>3

LEMMA InvWholeGroupsNeverFault ==
  VolumeInv => WholeGroupsNeverFault
<1> SUFFICES ASSUME VolumeInv, Whole(fs.superblock)
             PROVE  answer # Fault
  BY DEF WholeGroupsNeverFault, Whole
<1>0. SoundVolume(fs)
  BY VolumeIsSound
<1>1. CASE question = Nothing /\ answer = Nothing
  <2>1. DOMAIN Nothing = {"kind", "n"} /\ DOMAIN Fault = {"fault"}
    BY DEF Nothing, Fault
  <2>2. QED
    BY <1>1, <2>1
<1>2. CASE ~ (question = Nothing /\ answer = Nothing)
  <2>1. start = "up"
    BY <1>2 DEF VolumeInv
  <2>2. ASSUME NEW n,
               answer \in IF ext2_get_block_group(fs, n) = {} THEN {Nothing}
                          ELSE ext2_get_block_group(fs, n)
        PROVE  answer # Fault
    <3>1. ASSUME NEW d
          PROVE  DOMAIN Pointers(fs, d) = {"block_bitmap", "inode_bitmap", "inode_table"}
      BY DEF Pointers
    <3>2. DOMAIN Nothing = {"kind", "n"} /\ DOMAIN Fault = {"fault"}
      BY DEF Nothing, Fault
    <3>3. answer = Nothing \/ \E d : answer = Pointers(fs, d)
      BY <2>2 DEF ext2_get_block_group
    <3>4. QED
      BY <3>1, <3>2, <3>3
  <2>3. ASSUME NEW n \in 1 .. fs.superblock.inodecount, answer \in ext2_get_inode(fs, n)
        PROVE  answer # Fault
    <3>1. GroupOf(fs, n) \in Nat /\ GroupOf(fs, n) < fs.number_of_block_groups
      BY <2>1, <2>3, WholeGroups
    <3>2. ext2_get_block_group(fs, GroupOf(fs, n)) # {}
      BY <1>0, <3>1, GroupExists
    <3>3. QED
      BY <2>3, <3>2, NoFaultOfGroup DEF ext2_get_inode
  <2>4. ASSUME answer \in ext2_get_root_inode(fs) PROVE answer # Fault
    <3>1. 0 < fs.number_of_block_groups
      BY <2>1, WholeVolume
    <3>2. ext2_get_block_group(fs, 0) # {}
      BY <1>0, <3>1, GroupExists
    <3>3. QED
      BY <2>4, <3>2, NoFaultOfGroup DEF ext2_get_root_inode
  <2>5. QED
    BY <1>2, <2>2, <2>3, <2>4 DEF VolumeInv, Answered
<1>3. QED
  BY <1>1, <1>2

(******************************************************************************)
(* No inode of a volume of whole groups, as many as a group number counts, is *)
(* asked of a group that does not exist, which ext2_get_inode would           *)
(* dereference: for every volume whose inodes the groups have room for, and   *)
(* every width of a group number.                                             *)
(******************************************************************************)
THEOREM WholeGroupsAreSafe ==
  VolumeSpec => []WholeGroupsNeverFault
<1>1. VolumeInv => WholeGroupsNeverFault
  BY InvWholeGroupsNeverFault
<1>2. QED
  BY <1>1, VolumeInvAlways, PTL

--------------------------------------------------------------------------------
(******************************************************************************)
(* Types.                                                                     *)
(******************************************************************************)

Blocks(self) == {NULL} \cup 0 .. self.superblock.blockcount - 1

Descriptor(self) == [{"block_bitmap", "inode_bitmap", "inode_table"} -> Blocks(self)]

LEMMA BlockType ==
  ASSUME NEW self, SoundVolume(self), NEW b \in Nat
  PROVE  ext2_get_block(self, b) \in Blocks(self)
<1> DEFINE n == Uint16(b)
<1>1. n \in Nat
  BY CutTo16, WidthAssumption
<1> HIDE DEF n
<1>2. self.superblock.blockcount \in Nat
  BY VolumeTypes
<1>3. ext2_get_block(self, b) = IF self.superblock.blockcount <= n THEN NULL ELSE n
  BY DEF ext2_get_block, n
<1>4. QED
  BY <1>1, <1>2, <1>3 DEF Blocks

LEMMA PointersType ==
  ASSUME NEW self, SoundVolume(self), NEW d,
         d.block_bitmap \in Nat, d.inode_bitmap \in Nat, d.inode_table \in Nat
  PROVE  Pointers(self, d) \in Descriptor(self)
<1>1. /\ ext2_get_block(self, d.block_bitmap) \in Blocks(self)
      /\ ext2_get_block(self, d.inode_bitmap) \in Blocks(self)
      /\ ext2_get_block(self, d.inode_table) \in Blocks(self)
  BY BlockType
<1>2. QED
  BY <1>1 DEF Pointers, Descriptor

LEMMA GroupType ==
  ASSUME NEW self, SoundVolume(self), NEW n \in Nat,
         NEW g \in ext2_get_block_group(self, n)
  PROVE  g \in Descriptor(self)
<1>1. /\ FirstBlock(self.superblock, 0) \in Nat /\ FirstBlock(self.superblock, n) \in Nat
      /\ self.superblock.descriptor_blocks \in Nat
  <2>1. /\ self.superblock.first_data_block \in Nat /\ self.superblock.blockper_group \in Nat
        /\ self.superblock.descriptor_blocks \in Nat
    BY VolumeTypes
  <2>2. n * self.superblock.blockper_group \in Nat /\ 0 * self.superblock.blockper_group \in Nat
    BY <2>1
  <2>3. QED
    BY <2>1, <2>2 DEF FirstBlock
<1>2. ASSUME NEW d \in Descriptors(self, n) PROVE Pointers(self, d) \in Descriptor(self)
  <2>1. d = Placed(self.superblock, 0) \/ d \in Stray
    BY <1>2 DEF Descriptors
  <2>2. /\ d.block_bitmap \in Nat /\ d.inode_bitmap \in Nat /\ d.inode_table \in Nat
    <3>1. CASE d \in Stray
      BY <3>1, StrayAssumption
    <3>2. CASE d = Placed(self.superblock, 0)
      BY <1>1, <3>2 DEF Placed
    <3>3. QED
      BY <2>1, <3>1, <3>2
  <2>3. QED
    BY <2>2, PointersType
<1>3. Pointers(self, Counted(FirstBlock(self.superblock, n))) \in Descriptor(self)
  <2> DEFINE d == Counted(FirstBlock(self.superblock, n))
  <2>1. /\ d.block_bitmap \in Nat /\ d.inode_bitmap \in Nat /\ d.inode_table \in Nat
    BY <1>1 DEF Counted
  <2> HIDE DEF d
  <2>2. Pointers(self, d) \in Descriptor(self)
    BY <2>1, PointersType
  <2>3. QED
    BY <2>2 DEF d
<1>4. QED
  BY <1>2, <1>3 DEF ext2_get_block_group

LEMMA InvVolumeTypeOK ==
  VolumeInv => VolumeTypeOK
<1> SUFFICES ASSUME VolumeInv PROVE VolumeTypeOK
  OBVIOUS
<1>0. SoundVolume(fs) /\ fs.superblock \in Superblocks
  BY VolumeIsSound
<1>1. /\ fs.number_of_block_groups \in 0 .. Uint16Width - 1
      /\ fs.superblock.inodecount \in Nat /\ Uint16Width \in Nat
  BY <1>0, VolumeTypes, WidthAssumption
<1>2. question.kind \in {"none", "group", "inode", "root"} /\ question.n \in Nat
  BY <1>1 DEF VolumeInv, Answered, Nothing
<1>3. ASSUME question.kind = "group", answer # Nothing PROVE answer \in Descriptor(fs)
  <2>1. /\ question.n \in Nat
        /\ answer \in IF ext2_get_block_group(fs, question.n) = {} THEN {Nothing}
                      ELSE ext2_get_block_group(fs, question.n)
    BY <1>1, <1>3 DEF VolumeInv, Answered, Nothing
  <2>2. answer \in ext2_get_block_group(fs, question.n)
    BY <1>3, <2>1
  <2>3. QED
    BY <1>0, <2>1, <2>2, GroupType
<1>4. QED
  BY <1>0, <1>1, <1>2, <1>3 DEF VolumeTypeOK, VolumeInv, Descriptor, Blocks

(******************************************************************************)
(* The types of the state: whatever a descriptor says, a place found for a    *)
(* block is NULL or a block of the volume (ext2_get_block).                   *)
(******************************************************************************)
THEOREM VolumeTypeCorrect ==
  VolumeSpec => []VolumeTypeOK
<1>1. VolumeInv => VolumeTypeOK
  BY InvVolumeTypeOK
<1>2. QED
  BY <1>1, VolumeInvAlways, PTL

--------------------------------------------------------------------------------
(******************************************************************************)
(* Where the entries of a file lead, for every number of base pointers, of    *)
(* entries in a block and of blocks, and whatever the blocks hold.            *)
(*                                                                            *)
(* The walk stops at the first pointer that has as many blocks below it as    *)
(* the entry (MapInv), and what is below the pointers only grows; the descent *)
(* divides by 1 at the last level, so that nothing is left of the entry.      *)
(******************************************************************************)

(******************************************************************************)
(* Induction, and the two functions defined by recursion.                     *)
(******************************************************************************)

LEMMA LeastNatural ==
  ASSUME NEW T \in SUBSET Nat, T # {}
  PROVE  \E m \in T : \A k \in T : m <= k
<1>1. IsWellFoundedOn(OpToRel(<, Nat), Nat)
  BY NatLessThanWellFounded
<1>2. PICK m \in T : \A k \in T : ~ (<<k, m>> \in OpToRel(<, Nat))
  BY <1>1, WFMin
<1>3. \A k \in T : k \in Nat /\ m \in Nat
  BY <1>2
<1>4. \A k \in T : ~ (k < m)
  BY <1>2, <1>3 DEF OpToRel
<1>5. QED
  BY <1>3, <1>4

LEMMA Induction ==
  ASSUME NEW T, 0 \in T, \A n \in Nat : n \in T => n + 1 \in T
  PROVE  Nat \subseteq T
<1> SUFFICES ASSUME Nat \ T # {} PROVE FALSE
  OBVIOUS
<1>1. PICK m \in Nat \ T : \A k \in Nat \ T : m <= k
  BY LeastNatural
<1>2. m # 0 /\ m - 1 \in Nat /\ m - 1 \notin Nat \ T
  BY <1>1
<1>3. QED
  BY <1>1, <1>2

\* The assumptions, one constant at a time.
LEMMA Constants ==
  /\ EntriesPerBlock \in Nat \ {0, 1}
  /\ BlockCount \in Nat \ {0}
  /\ \A entry \in Entries : entry \in Nat
  /\ \A i \in Inodes : i \in [1 .. Len(Level) -> 0 .. BlockCount - 1]
  /\ \A d \in Devices :
       d \in [0 .. BlockCount * EntriesPerBlock - 1 -> 0 .. BlockCount - 1]
<1>1. EntriesPerBlock \in Nat \ {0, 1}
  BY EntriesAssumption, SMTT(30)
<1>2. BlockCount \in Nat \ {0}
  BY EntriesAssumption, SMTT(30)
<1>3. \A entry \in Entries : entry \in Nat
  BY EntriesAssumption, SMTT(30)
<1>4. \A i \in Inodes : i \in [1 .. Len(Level) -> 0 .. BlockCount - 1]
  BY PointersAssumption
<1>5. \A d \in Devices :
        d \in [0 .. BlockCount * EntriesPerBlock - 1 -> 0 .. BlockCount - 1]
  BY PointersAssumption
<1>6. QED
  BY <1>1, <1>2, <1>3, <1>4, <1>5, Zenon

LEMMA PowerOfLevel ==
  Power[0] = 1 /\ \A l \in 0 .. 3 : Power[l] \in Nat \ {0}
<1> DEFINE E == EntriesPerBlock
           Is(f) == f = [l \in 0 .. 3 |-> IF l = 0 THEN 1 ELSE E * f[l - 1]]
           power == [l \in 0 .. 3 |-> IF l = 0 THEN 1 ELSE IF l = 1 THEN E
                                      ELSE IF l = 2 THEN E * E ELSE E * (E * E)]
<1>1. E \in Nat \ {0}
  BY Constants
<1> HIDE DEF E
<1>2. Is(power)
  <2>1. ASSUME NEW l \in 0 .. 3
        PROVE  power[l] = IF l = 0 THEN 1 ELSE E * power[l - 1]
    BY <1>1
  <2>2. QED
    BY <2>1
<1>3. Power = CHOOSE f : Is(f)
  BY DEF Power, E
<1> HIDE DEF power
<1>4. Is(Power)
  BY <1>2, <1>3
<1>5. /\ Power[0] = 1 /\ Power[1] = E * Power[0]
      /\ Power[2] = E * Power[1] /\ Power[3] = E * Power[2]
  BY <1>4
<1> HIDE DEF Is
<1>6. \A a, b \in Nat \ {0} : a * b \in Nat \ {0}
  OBVIOUS
<1>7. Power[0] \in Nat \ {0} /\ Power[1] \in Nat \ {0}
  BY <1>1, <1>5, <1>6
<1>8. Power[2] \in Nat \ {0}
  BY <1>1, <1>5, <1>6, <1>7
<1>9. Power[3] \in Nat \ {0}
  BY <1>1, <1>5, <1>6, <1>8
<1>10. \A l \in 0 .. 3 : l = 0 \/ l = 1 \/ l = 2 \/ l = 3
  OBVIOUS
<1>11. QED
  BY <1>5, <1>7, <1>8, <1>9, <1>10

LEMMA Levels ==
  /\ Len(Level) \in Nat \ {0}
  /\ DOMAIN Level = 1 .. Len(Level)
  /\ \A i \in 1 .. Len(Level) : Level[i] \in 0 .. 3 /\ Power[Level[i]] \in Nat \ {0}
<1>1. Level \in Seq(0 .. 3) /\ Level # <<>>
  BY LevelAssumption
<1>2. /\ Len(Level) \in Nat \ {0} /\ DOMAIN Level = 1 .. Len(Level)
      /\ \A i \in 1 .. Len(Level) : Level[i] \in 0 .. 3
  BY <1>1
<1>3. QED
  BY <1>2, PowerOfLevel

LEMMA BlocksBelowDef ==
  BlocksBelow = [i \in 0 .. Len(Level) |->
                   IF i = 0 THEN 0 ELSE BlocksBelow[i - 1] + Power[Level[i]]]
<1> DEFINE Is(f, n) == f = [i \in 0 .. n |-> IF i = 0 THEN 0 ELSE f[i - 1] + Power[Level[i]]]
           T == {n \in Nat : \E f : Is(f, n)}
<1>1. 0 \in T
  <2> DEFINE f == [i \in 0 .. 0 |-> 0]
  <2>1. Is(f, 0)
    OBVIOUS
  <2> HIDE DEF f
  <2>2. QED
    BY <2>1
<1>2. ASSUME NEW n \in Nat, n \in T PROVE n + 1 \in T
  <2>1. PICK f : Is(f, n)
    BY <1>2
  <2> DEFINE g == [i \in 0 .. n + 1 |-> IF i <= n THEN f[i] ELSE f[n] + Power[Level[n + 1]]]
  <2>2. ASSUME NEW i \in 0 .. n + 1
        PROVE  g[i] = IF i = 0 THEN 0 ELSE g[i - 1] + Power[Level[i]]
    <3>1. CASE i <= n
      <4>1. i \in 0 .. n /\ (i # 0 => i - 1 \in 0 .. n + 1 /\ i - 1 <= n)
        BY <3>1
      <4>2. f[i] = IF i = 0 THEN 0 ELSE f[i - 1] + Power[Level[i]]
        BY <2>1, <4>1
      <4>3. g[i] = f[i] /\ (i # 0 => g[i - 1] = f[i - 1])
        BY <3>1, <4>1
      <4>4. QED
        BY <4>2, <4>3
    <3>2. CASE ~ (i <= n)
      <4>1. i = n + 1 /\ i - 1 = n /\ i # 0 /\ n \in 0 .. n + 1
        BY <3>2
      <4>2. QED
        BY <4>1
    <3>3. QED
      BY <3>1, <3>2
  <2>3. Is(g, n + 1)
    BY <2>2
  <2> HIDE DEF g
  <2>4. QED
    BY <2>3
<1>3. Nat \subseteq T
  <2> HIDE DEF T
  <2> QED
    BY <1>1, <1>2, Induction
<1>4. \E f : Is(f, Len(Level))
  BY <1>3, Levels
<1>5. BlocksBelow = CHOOSE f : Is(f, Len(Level))
  BY DEF BlocksBelow
<1>6. Is(BlocksBelow, Len(Level))
  BY <1>4, <1>5
<1>7. QED
  BY <1>6

--------------------------------------------------------------------------------
(******************************************************************************)
(* The blocks below a pointer.                                                *)
(******************************************************************************)

LEMMA BlocksBelowStep ==
  /\ BlocksBelow[0] = 0
  /\ \A i \in 0 .. Len(Level) - 1 :
       BlocksBelow[i + 1] = BlocksBelow[i] + Power[Level[i + 1]]
<1>1. Len(Level) \in Nat
  BY Levels
<1>2. BlocksBelow[0] = 0
  BY <1>1, BlocksBelowDef
<1>3. ASSUME NEW i \in 0 .. Len(Level) - 1
      PROVE  BlocksBelow[i + 1] = BlocksBelow[i] + Power[Level[i + 1]]
  <2>1. i + 1 \in 0 .. Len(Level) /\ i + 1 # 0 /\ (i + 1) - 1 = i
    BY <1>1
  <2>2. QED
    BY <2>1, BlocksBelowDef
<1>4. QED
  BY <1>2, <1>3

LEMMA BlocksBelowType ==
  \A i \in 0 .. Len(Level) : BlocksBelow[i] \in Nat /\ i <= BlocksBelow[i]
<1> DEFINE N == Len(Level)
           T == {n \in Nat : n <= N => BlocksBelow[n] \in Nat /\ n <= BlocksBelow[n]}
<1>1. N \in Nat /\ \A i \in 1 .. N : Power[Level[i]] \in Nat \ {0}
  BY Levels
<1>2. /\ BlocksBelow[0] = 0
      /\ \A i \in 0 .. N - 1 : BlocksBelow[i + 1] = BlocksBelow[i] + Power[Level[i + 1]]
  BY BlocksBelowStep
<1> HIDE DEF N
<1>3. 0 \in T
  BY <1>2
<1>4. ASSUME NEW n \in Nat, n \in T PROVE n + 1 \in T
  <2> SUFFICES ASSUME n + 1 <= N
               PROVE  BlocksBelow[n + 1] \in Nat /\ n + 1 <= BlocksBelow[n + 1]
    OBVIOUS
  <2>1. n <= N /\ n \in 0 .. N - 1 /\ n + 1 \in 1 .. N
    BY <1>1
  <2>2. BlocksBelow[n] \in Nat /\ n <= BlocksBelow[n]
    BY <1>4, <2>1
  <2>3. Power[Level[n + 1]] \in Nat \ {0}
    BY <1>1, <2>1
  <2>4. BlocksBelow[n + 1] = BlocksBelow[n] + Power[Level[n + 1]]
    BY <1>2, <2>1
  <2>5. QED
    BY <2>2, <2>3, <2>4
<1>5. Nat \subseteq T
  <2> HIDE DEF T
  <2> QED
    BY <1>3, <1>4, Induction
<1>6. QED
  BY <1>1, <1>5 DEF N

\* They grow with every pointer passed.
LEMMA BlocksBelowGrow ==
  ASSUME NEW i \in 0 .. Len(Level), NEW j \in i .. Len(Level)
  PROVE  BlocksBelow[i] <= BlocksBelow[j]
<1> DEFINE N == Len(Level)
           T == {n \in Nat : i + n <= N => BlocksBelow[i] <= BlocksBelow[i + n]}
<1>1. /\ N \in Nat /\ i \in Nat /\ i <= N
      /\ \A k \in 1 .. N : Power[Level[k]] \in Nat \ {0}
  BY Levels
<1>2. \A k \in 0 .. N : BlocksBelow[k] \in Nat
  BY BlocksBelowType
<1>3. \A k \in 0 .. N - 1 : BlocksBelow[k + 1] = BlocksBelow[k] + Power[Level[k + 1]]
  BY BlocksBelowStep
<1> HIDE DEF N
<1>4. 0 \in T
  <2>1. i + 0 = i /\ BlocksBelow[i] \in Nat
    BY <1>1, <1>2
  <2>2. QED
    BY <2>1
<1>5. ASSUME NEW n \in Nat, n \in T PROVE n + 1 \in T
  <2> SUFFICES ASSUME i + (n + 1) <= N PROVE BlocksBelow[i] <= BlocksBelow[i + (n + 1)]
    OBVIOUS
  <2> DEFINE k == i + n
  <2>1. k \in 0 .. N - 1 /\ k + 1 \in 1 .. N /\ k <= N /\ i + (n + 1) = k + 1
    BY <1>1
  <2>2. BlocksBelow[i] <= BlocksBelow[k]
    BY <1>5, <2>1
  <2> HIDE DEF k
  <2>3. BlocksBelow[k + 1] = BlocksBelow[k] + Power[Level[k + 1]]
    BY <1>3, <2>1
  <2>4. BlocksBelow[i] \in Nat /\ BlocksBelow[k] \in Nat /\ Power[Level[k + 1]] \in Nat
    BY <1>1, <1>2, <2>1
  <2>5. BlocksBelow[i] <= BlocksBelow[k + 1]
    BY <2>2, <2>3, <2>4
  <2>6. QED
    BY <2>1, <2>5
<1>6. Nat \subseteq T
  <2> HIDE DEF T
  <2> QED
    BY <1>4, <1>5, Induction
<1>7. j - i \in Nat /\ i + (j - i) = j /\ j <= N
  BY <1>1 DEF N
<1>8. QED
  BY <1>6, <1>7

\* The direct pointers are the first ones.
LEMMA DirectPointers ==
  /\ Direct \in 0 .. Len(Level)
  /\ \A i \in 1 .. Len(Level) : Level[i] = 0 <=> i <= Direct
<1> DEFINE N == Len(Level)
           T == {n \in Nat : n = N \/ (n < N /\ Level[n + 1] # 0)}
<1>1. N \in Nat /\ DOMAIN Level = 1 .. N /\ \A i \in 1 .. N : Level[i] \in 0 .. 3
  BY Levels
<1>2. \A i, j \in 1 .. N : i <= j => Level[i] <= Level[j]
  BY LevelAssumption
<1> HIDE DEF N
<1>3. T \in SUBSET Nat /\ T # {}
  <2>1. N \in Nat /\ (N = N \/ (N < N /\ Level[N + 1] # 0))
    BY <1>1
  <2>2. N \in T
    BY <2>1, Zenon
  <2>3. QED
    BY <2>2
<1>4. PICK d \in T : \A k \in T : d <= k
  <2> HIDE DEF T
  <2> QED
    BY <1>3, LeastNatural
<1>5. d \in 0 .. N /\ (d < N => Level[d + 1] # 0)
  BY <1>1, <1>4
<1>6. ASSUME NEW i \in 1 .. N PROVE Level[i] = 0 <=> i <= d
  <2>1. CASE i <= d
    <3>1. i - 1 \in Nat /\ i - 1 < d /\ i - 1 < N /\ (i - 1) + 1 = i
      BY <1>1, <1>5, <2>1
    <3>2. i - 1 \notin T
      BY <1>4, <1>5, <3>1
    <3>3. Level[i] = 0
      BY <3>1, <3>2
    <3>4. QED
      BY <2>1, <3>3
  <2>2. CASE ~ (i <= d)
    <3>1. d + 1 \in 1 .. N /\ d + 1 <= i /\ d < N
      BY <1>1, <1>5, <2>2
    <3>2. Level[d + 1] # 0 /\ Level[d + 1] <= Level[i] /\ Level[d + 1] \in 0 .. 3 /\ Level[i] \in 0 .. 3
      BY <1>1, <1>2, <1>5, <3>1
    <3>3. QED
      BY <2>2, <3>2
  <2>3. QED
    BY <2>1, <2>2
<1>7. {i \in DOMAIN Level : Level[i] = 0} = 1 .. d
  BY <1>1, <1>5, <1>6
<1>8. Direct = d
  <2>1. Cardinality(1 .. d) = d
    BY <1>5, FS_Interval
  <2>2. QED
    BY <1>7, <2>1 DEF Direct
<1>9. QED
  BY <1>5, <1>6, <1>8 DEF N

\* Below them there is one block each.
LEMMA BelowDirect ==
  \A i \in 0 .. Direct : BlocksBelow[i] = i
<1> DEFINE N == Len(Level)
           T == {n \in Nat : n <= Direct => BlocksBelow[n] = n}
<1>1. /\ N \in Nat /\ Direct \in 0 .. N
      /\ \A i \in 1 .. N : Level[i] = 0 <=> i <= Direct
  BY Levels, DirectPointers
<1>2. /\ BlocksBelow[0] = 0 /\ Power[0] = 1
      /\ \A i \in 0 .. N - 1 : BlocksBelow[i + 1] = BlocksBelow[i] + Power[Level[i + 1]]
  BY BlocksBelowStep, PowerOfLevel
<1> HIDE DEF N
<1>3. 0 \in T
  BY <1>2
<1>4. ASSUME NEW n \in Nat, n \in T PROVE n + 1 \in T
  <2> SUFFICES ASSUME n + 1 <= Direct PROVE BlocksBelow[n + 1] = n + 1
    OBVIOUS
  <2>1. n <= Direct /\ n \in 0 .. N - 1 /\ n + 1 \in 1 .. N
    BY <1>1
  <2>2. BlocksBelow[n] = n /\ Level[n + 1] = 0
    BY <1>1, <1>4, <2>1
  <2>3. BlocksBelow[n + 1] = BlocksBelow[n] + Power[Level[n + 1]]
    BY <1>2, <2>1
  <2>4. QED
    BY <1>2, <2>2, <2>3
<1>5. Nat \subseteq T
  <2> HIDE DEF T
  <2> QED
    BY <1>3, <1>4, Induction
<1>6. QED
  BY <1>1, <1>5

--------------------------------------------------------------------------------
(******************************************************************************)
(* The walk and the descent.                                                  *)
(******************************************************************************)

AtPointer == base_block_index < Len(Level)

\* How far the walk is, and that it is over after it.
WalkOK ==
  /\ base_block_index \in 0 .. Len(Level)
  /\ blocks_offset = BlocksBelow[base_block_index]
  /\ base_block_index > 0 => BlocksBelow[base_block_index - 1] < wanted
  /\ descent = "idle" => base_block_index = 0
  /\ descent \in {"find"} \cup Ends => ~ SeeksFurther
  /\ descent = "overrun" <=> descent \in {"find"} \cup Ends /\ ~ AtPointer

\* Nothing is left of the entry below level 1.
DescentOK ==
  /\ level \in 0 .. 3 /\ entry_index \in 0 .. wanted
  /\ descent \in {"idle", "seek"} => entry_index = 0
  /\ descent = "find" /\ level = 0 => entry_index = 0
  /\ descent \in {"find", "fault"} => Level[base_block_index + 1] > 0

ResultOK ==
  descent = "found" =>
    IF Level[base_block_index + 1] = 0 THEN result = block[base_block_index + 1]
    ELSE result = Word(0, 0)

MapInv ==
  /\ block \in Inodes /\ device \in Devices
  /\ descent \in {"idle", "seek", "find"} \cup Ends
  /\ wanted \in {0} \cup Entries
  /\ result \in 0 .. BlockCount - 1
  /\ WalkOK /\ DescentOK /\ ResultOK

LEMMA InitMapInv ==
  ASSUME MapInit
  PROVE  MapInv
<1>1. BlockCount \in Nat \ {0}
  BY Constants
<1>2. 0 \in 0 .. BlockCount - 1
  BY <1>1
<1>3. Len(Level) \in Nat
  BY Levels
<1>4. BlocksBelow[0] = 0
  BY BlocksBelowStep
<1>5. /\ block \in Inodes /\ device \in Devices /\ descent = "idle" /\ wanted = 0
      /\ base_block_index = 0 /\ blocks_offset = 0 /\ level = 0 /\ entry_index = 0 /\ result = 0
  BY DEF MapInit
<1>6. WalkOK
  BY <1>3, <1>4, <1>5 DEF WalkOK, Ends
<1>7. DescentOK /\ ResultOK
  BY <1>5 DEF DescentOK, ResultOK
<1>8. QED
  BY <1>2, <1>5, <1>6, <1>7 DEF MapInv

LEMMA MapTypes ==
  ASSUME MapInv
  PROVE  /\ wanted \in Nat /\ Len(Level) \in Nat \ {0}
         /\ base_block_index \in 0 .. Len(Level) /\ blocks_offset \in Nat
         /\ level \in 0 .. 3 /\ entry_index \in 0 .. wanted
<1>1. /\ wanted \in {0} \cup Entries /\ level \in 0 .. 3 /\ entry_index \in 0 .. wanted
      /\ base_block_index \in 0 .. Len(Level) /\ blocks_offset = BlocksBelow[base_block_index]
  BY DEF MapInv, WalkOK, DescentOK
<1>2. wanted \in Nat
  BY <1>1, Constants
<1>3. Len(Level) \in Nat \ {0}
  BY Levels
<1>4. blocks_offset \in Nat
  BY <1>1, BlocksBelowType
<1>5. QED
  BY <1>1, <1>2, <1>3, <1>4

LEMMA AskKeeps ==
  ASSUME MapInv, NEW entry \in Entries, Ask(entry)
  PROVE  MapInv'
<1>1. /\ descent = "idle" /\ descent' = "seek" /\ wanted' = entry
      /\ UNCHANGED <<block, device, base_block_index, blocks_offset, level, entry_index, result>>
  BY DEF Ask, volume, seek, find
<1>2. /\ base_block_index = 0 /\ entry_index = 0 /\ level \in 0 .. 3
      /\ blocks_offset = BlocksBelow[base_block_index] /\ base_block_index \in 0 .. Len(Level)
  BY <1>1 DEF MapInv, WalkOK, DescentOK
<1>0. entry \in Nat
  BY Constants
<1>3. WalkOK'
  BY <1>1, <1>2 DEF WalkOK, Ends
<1>4. DescentOK' /\ ResultOK'
  BY <1>0, <1>1, <1>2 DEF DescentOK, ResultOK
<1>5. QED
  BY <1>1, <1>3, <1>4 DEF MapInv

LEMMA PassKeeps ==
  ASSUME MapInv, Pass
  PROVE  MapInv'
<1>1. /\ descent = "seek" /\ blocks_offset < wanted /\ base_block_index < Len(Level)
      /\ blocks_offset' = blocks_offset + Power[Level[base_block_index + 1]]
      /\ base_block_index' = base_block_index + 1
      /\ UNCHANGED <<block, device, descent, wanted, level, entry_index, result>>
  BY DEF Pass, SeeksFurther, volume, find
<1>2. /\ base_block_index \in 0 .. Len(Level) - 1 /\ Len(Level) \in Nat
      /\ blocks_offset = BlocksBelow[base_block_index]
  BY <1>1, MapTypes DEF MapInv, WalkOK
<1>3. blocks_offset' = BlocksBelow[base_block_index']
  BY <1>1, <1>2, BlocksBelowStep
<1>4. WalkOK'
  BY <1>1, <1>2, <1>3 DEF WalkOK, Ends
<1>5. DescentOK' /\ ResultOK'
  BY <1>1 DEF MapInv, DescentOK, ResultOK
<1>6. QED
  BY <1>1, <1>4, <1>5 DEF MapInv

LEMMA ChooseKeeps ==
  ASSUME MapInv, Choose
  PROVE  MapInv'
<1>1. /\ descent = "seek" /\ ~ SeeksFurther
      /\ UNCHANGED <<block, device, wanted, base_block_index, blocks_offset>>
  BY DEF Choose, volume, seek
<1>2. /\ wanted \in Nat /\ Len(Level) \in Nat /\ base_block_index \in 0 .. Len(Level)
      /\ level \in 0 .. 3 /\ entry_index \in 0 .. wanted
  BY MapTypes
<1>3. base_block_index < Len(Level) => Level[base_block_index + 1] \in 0 .. 3
  BY <1>2, Levels
<1>4. ASSUME descent' \in {"find"} \cup Ends, descent' = "overrun" <=> ~ AtPointer
      PROVE  WalkOK'
  BY <1>1, <1>4 DEF MapInv, WalkOK, SeeksFurther, AtPointer, Ends
<1>5. CASE base_block_index = Len(Level) /\ descent' = "overrun" /\ UNCHANGED find /\ UNCHANGED result
  <2>1. WalkOK'
    BY <1>2, <1>4, <1>5 DEF AtPointer, Ends
  <2>2. DescentOK' /\ ResultOK'
    BY <1>1, <1>2, <1>5 DEF DescentOK, ResultOK, find
  <2>3. QED
    BY <1>1, <1>5, <2>1, <2>2 DEF MapInv, Ends
<1>6. CASE /\ base_block_index < Len(Level) /\ Level[base_block_index + 1] = 0
           /\ descent' = "found" /\ result' = block[base_block_index + 1] /\ UNCHANGED find
  <2>1. WalkOK'
    BY <1>4, <1>6 DEF AtPointer, Ends
  <2>2. DescentOK' /\ ResultOK'
    BY <1>1, <1>2, <1>6 DEF DescentOK, ResultOK, find
  <2>3. result' \in 0 .. BlockCount - 1
    <3>1. block \in [1 .. Len(Level) -> 0 .. BlockCount - 1]
      BY Constants DEF MapInv
    <3>2. base_block_index + 1 \in 1 .. Len(Level)
      BY <1>2, <1>6
    <3>3. QED
      BY <1>6, <3>1, <3>2
  <2>4. QED
    BY <1>1, <1>6, <2>1, <2>2, <2>3 DEF MapInv, Ends
<1>7. CASE /\ base_block_index < Len(Level) /\ Level[base_block_index + 1] > 0
           /\ descent' = "find" /\ level' = Level[base_block_index + 1] /\ entry_index' = wanted
           /\ UNCHANGED result
  <2>1. WalkOK'
    BY <1>4, <1>7 DEF AtPointer, Ends
  <2>2. DescentOK' /\ ResultOK'
    BY <1>1, <1>2, <1>3, <1>7 DEF DescentOK, ResultOK
  <2>3. QED
    BY <1>1, <1>7, <2>1, <2>2 DEF MapInv, Ends
<1>8. QED
  BY <1>5, <1>6, <1>7 DEF Choose

\* The search of the entry goes on, or ends, without moving the walk.
LEMMA FindKeepsWalk ==
  ASSUME MapInv, descent = "find", descent' \in {"find", "found", "fault"},
         UNCHANGED <<wanted, base_block_index, blocks_offset>>
  PROVE  WalkOK'
BY DEF MapInv, WalkOK, SeeksFurther, AtPointer, Ends

LEMMA RestOfEntry ==
  ASSUME NEW a \in Nat, NEW b \in Nat \ {0}
  PROVE  /\ a - (a \div b) * b \in 0 .. a
         /\ b = 1 => a - (a \div b) * b = 0
OBVIOUS

LEMMA DescendKeeps ==
  ASSUME MapInv, Descend
  PROVE  MapInv'
<1> DEFINE sublevels == Power[level - 1]
           left == entry_index - (entry_index \div sublevels) * sublevels
<1>1. /\ descent = "find" /\ level > 0 /\ descent' \in {"find", "fault"}
      /\ entry_index' = left /\ level' = level - 1
      /\ UNCHANGED <<block, device, wanted, base_block_index, blocks_offset, result>>
  BY DEF Descend, volume, seek
<1>2. wanted \in Nat /\ level \in 0 .. 3 /\ entry_index \in 0 .. wanted
  BY MapTypes
<1>3. sublevels \in Nat \ {0} /\ (level = 1 => sublevels = 1)
  BY <1>1, <1>2, PowerOfLevel
<1> HIDE DEF sublevels
<1>4. left \in 0 .. wanted /\ (level = 1 => left = 0)
  BY <1>2, <1>3, RestOfEntry
<1> HIDE DEF left
<1>5. WalkOK'
  BY <1>1, FindKeepsWalk
<1>6. DescentOK' /\ ResultOK'
  BY <1>1, <1>2, <1>4 DEF MapInv, DescentOK, ResultOK
<1>7. QED
  BY <1>1, <1>5, <1>6 DEF MapInv, Ends

LEMMA ReadLeafKeeps ==
  ASSUME MapInv, ReadLeaf
  PROVE  MapInv'
<1>1. /\ descent = "find" /\ level = 0
      /\ UNCHANGED <<block, device, wanted, base_block_index, blocks_offset, level, entry_index>>
      /\ \/ IsMapped(Current, entry_index) /\ descent' = "found" /\ result' = Word(Current, entry_index)
         \/ descent' = "fault" /\ UNCHANGED result
  BY DEF ReadLeaf, volume, seek, find
<1>2. entry_index = 0 /\ Level[base_block_index + 1] > 0
  BY <1>1 DEF MapInv, DescentOK
<1>3. Current = 0
  BY <1>2 DEF Current
<1>4. WalkOK'
  BY <1>1, FindKeepsWalk
<1>5. DescentOK'
  BY <1>1, <1>2 DEF MapInv, DescentOK
<1>6. ResultOK'
  BY <1>1, <1>2, <1>3 DEF MapInv, WalkOK, AtPointer, ResultOK, Word
<1>7. result' \in 0 .. BlockCount - 1
  <2>1. device \in [0 .. BlockCount * EntriesPerBlock - 1 -> 0 .. BlockCount - 1]
    BY Constants DEF MapInv
  <2>2. QED
    BY <1>1, <2>1 DEF MapInv, IsMapped, Word
<1>8. QED
  BY <1>1, <1>4, <1>5, <1>6, <1>7 DEF MapInv, Ends

LEMMA NextMapInv ==
  ASSUME MapInv, [MapNext]_mapVars
  PROVE  MapInv'
<1>1. CASE Ended \/ UNCHANGED mapVars
  <2>1. UNCHANGED <<block, device, descent, wanted, base_block_index, blocks_offset, level,
                    entry_index, result>>
    BY <1>1 DEF Ended, mapVars, volume, seek, find
  <2>2. WalkOK'
    BY <2>1 DEF MapInv, WalkOK, SeeksFurther, AtPointer
  <2>3. DescentOK' /\ ResultOK'
    BY <2>1 DEF MapInv, DescentOK, ResultOK, Word
  <2>4. QED
    BY <2>1, <2>2, <2>3 DEF MapInv
<1>2. QED
  BY <1>1, AskKeeps, PassKeeps, ChooseKeeps, DescendKeeps, ReadLeafKeeps DEF MapNext, Step

LEMMA MapInvAlways ==
  MapSpec => []MapInv
<1>1. MapInit => MapInv
  BY InitMapInv
<1>2. MapInv /\ [MapNext]_mapVars => MapInv'
  BY NextMapInv
<1>3. QED
  BY <1>1, <1>2, PTL DEF MapSpec

--------------------------------------------------------------------------------
(******************************************************************************)
(* Where the entries lead.                                                    *)
(******************************************************************************)

LEMMA InvMapTypeOK ==
  ASSUME MapInv
  PROVE  MapTypeOK
<1>1. base_block_index \in 0 .. Len(Level) /\ Len(Level) \in Nat /\ blocks_offset \in Nat
  BY MapTypes
<1>2. blocks_offset = BlocksBelow[base_block_index]
  BY DEF MapInv, WalkOK
<1>3. /\ blocks_offset <= ext2_get_inode_blocks_amount
      /\ ext2_get_inode_blocks_amount \in Nat
  BY <1>1, <1>2, BlocksBelowType, BlocksBelowGrow DEF ext2_get_inode_blocks_amount
<1>4. blocks_offset \in 0 .. ext2_get_inode_blocks_amount
  BY <1>1, <1>3
<1>5. QED
  BY <1>1, <1>4 DEF MapInv, DescentOK, MapTypeOK

(******************************************************************************)
(* The types of the state: the walk counts no more blocks than the pointers   *)
(* of an inode have, and an entry found is a block of the device.             *)
(******************************************************************************)
THEOREM MapTypeCorrect ==
  MapSpec => []MapTypeOK
<1>1. MapInv => MapTypeOK
  BY InvMapTypeOK
<1>2. QED
  BY <1>1, MapInvAlways, PTL

\* At the end the walk is at the first pointer with as many blocks below it.
LEMMA WhereTheWalkEnds ==
  ASSUME MapInv, descent \in Ends
  PROVE  /\ base_block_index <= wanted
         /\ AtPointer => wanted <= BlocksBelow[base_block_index]
<1>1. /\ wanted \in Nat /\ Len(Level) \in Nat /\ base_block_index \in 0 .. Len(Level)
  BY MapTypes
<1>2. base_block_index > 0 =>
        /\ BlocksBelow[base_block_index - 1] < wanted
        /\ BlocksBelow[base_block_index - 1] \in Nat
        /\ base_block_index - 1 <= BlocksBelow[base_block_index - 1]
  <2> SUFFICES ASSUME base_block_index > 0
               PROVE  /\ BlocksBelow[base_block_index - 1] < wanted
                      /\ BlocksBelow[base_block_index - 1] \in Nat
                      /\ base_block_index - 1 <= BlocksBelow[base_block_index - 1]
    OBVIOUS
  <2>1. base_block_index - 1 \in 0 .. Len(Level)
    BY <1>1
  <2>2. QED
    BY <2>1, BlocksBelowType DEF MapInv, WalkOK
<1>3. base_block_index <= wanted
  BY <1>1, <1>2
<1>4. AtPointer => wanted <= BlocksBelow[base_block_index]
  <2>1. BlocksBelow[base_block_index] \in Nat
    BY <1>1, BlocksBelowType
  <2>2. ~ (blocks_offset < wanted /\ base_block_index < Len(Level))
    BY DEF MapInv, WalkOK, SeeksFurther, Ends
  <2>3. blocks_offset = BlocksBelow[base_block_index]
    BY DEF MapInv, WalkOK
  <2>4. QED
    BY <1>1, <2>1, <2>2, <2>3 DEF AtPointer
<1>5. QED
  BY <1>3, <1>4

LEMMA DirectEntries ==
  ASSUME MapInv, descent \in Ends
  PROVE  /\ wanted < Direct => descent = "found" /\ result = block[wanted + 1]
         /\ descent = "found" /\ wanted >= Direct => result = Word(0, 0)
<1> DEFINE base == base_block_index
<1>a. wanted \in Nat /\ Len(Level) \in Nat /\ base \in 0 .. Len(Level)
  BY MapTypes
<1>b. Direct \in 0 .. Len(Level) /\ \A i \in 1 .. Len(Level) : Level[i] = 0 <=> i <= Direct
  BY DirectPointers
<1>c. \A i \in 1 .. Len(Level) : Level[i] \in 0 .. 3
  BY Levels
<1>1. /\ wanted \in Nat /\ Len(Level) \in Nat /\ base \in 0 .. Len(Level)
      /\ Direct \in 0 .. Len(Level)
      /\ \A i \in 1 .. Len(Level) : Level[i] \in 0 .. 3 /\ (Level[i] = 0 <=> i <= Direct)
  BY <1>a, <1>b, <1>c, Zenon
<1>2. base <= wanted /\ (AtPointer => wanted <= BlocksBelow[base])
  BY WhereTheWalkEnds
<1>3. base < Direct => BlocksBelow[base] = base
  BY <1>1, BelowDirect
<1>4. /\ descent = "overrun" <=> ~ AtPointer
      /\ descent = "fault" => Level[base + 1] > 0
      /\ descent = "found" => IF Level[base + 1] = 0 THEN result = block[base + 1]
                         ELSE result = Word(0, 0)
      /\ descent \in {"found", "fault", "overrun"}
  BY DEF MapInv, WalkOK, DescentOK, ResultOK, Ends
<1>5. ASSUME wanted < Direct PROVE descent = "found" /\ result = block[wanted + 1]
  <2>1. base < Direct /\ base < Len(Level) /\ base + 1 \in 1 .. Len(Level) /\ base + 1 <= Direct
    BY <1>1, <1>2, <1>5
  <2>2. AtPointer /\ Level[base + 1] = 0
    BY <1>1, <2>1 DEF AtPointer
  <2>3. base = wanted
    BY <1>1, <1>2, <1>3, <2>1, <2>2
  <2>4. QED
    BY <1>4, <2>2, <2>3
<1>6. ASSUME descent = "found", wanted >= Direct PROVE result = Word(0, 0)
  <2>1. AtPointer /\ base + 1 \in 1 .. Len(Level)
    BY <1>1, <1>4, <1>6 DEF AtPointer
  <2>2. CASE Level[base + 1] # 0
    BY <1>4, <1>6, <2>2
  <2>3. CASE Level[base + 1] = 0
    <3>1. base + 1 <= Direct /\ base < Direct
      BY <1>1, <2>1, <2>3
    <3>2. wanted <= base
      BY <1>2, <1>3, <2>1, <3>1
    <3>3. QED
      BY <1>1, <1>6, <3>1, <3>2
  <2>4. QED
    BY <2>2, <2>3
<1>7. QED
  BY <1>5, <1>6

LEMMA LastPointer ==
  ASSUME MapInv, descent \in Ends
  PROVE  descent = "overrun" <=> BeyondLastPointer
<1> DEFINE N == Len(Level)
           base == base_block_index
<1>a. wanted \in Nat /\ N \in Nat \ {0} /\ base \in 0 .. N
  BY MapTypes
<1>b. N \in 1 .. N
  BY <1>a
<1>1. /\ wanted \in Nat /\ N \in Nat \ {0} /\ base \in 0 .. N
      /\ Power[Level[N]] \in Nat
  BY <1>a, <1>b, Levels
<1>2. /\ N - 1 \in 0 .. N /\ (N - 1) + 1 = N
      /\ BlocksBelow[N] = BlocksBelow[N - 1] + Power[Level[N]]
  <2>1. N - 1 \in 0 .. N - 1 /\ (N - 1) + 1 = N
    BY <1>1
  <2>2. BlocksBelow[(N - 1) + 1] = BlocksBelow[N - 1] + Power[Level[(N - 1) + 1]]
    BY <2>1, BlocksBelowStep
  <2>3. QED
    BY <1>1, <2>1, <2>2
<1>3. BlocksBelow[N - 1] \in Nat
  BY <1>2, BlocksBelowType
<1>4. BeyondLastPointer <=> wanted > BlocksBelow[N - 1]
  BY <1>1, <1>2, <1>3 DEF BeyondLastPointer, ext2_get_inode_blocks_amount
<1>5. descent = "overrun" <=> ~ (base < N)
  BY DEF MapInv, WalkOK, AtPointer, Ends
<1>6. CASE base < N
  <2>1. wanted <= BlocksBelow[base] /\ base \in 0 .. N /\ N - 1 \in base .. N
    BY <1>1, <1>6, WhereTheWalkEnds DEF AtPointer
  <2>2. BlocksBelow[base] <= BlocksBelow[N - 1] /\ BlocksBelow[base] \in Nat
    BY <2>1, BlocksBelowGrow, BlocksBelowType
  <2>3. QED
    BY <1>1, <1>3, <1>4, <1>5, <1>6, <2>1, <2>2
<1>7. CASE ~ (base < N)
  <2>1. base = N /\ base > 0
    BY <1>1, <1>7
  <2>2. BlocksBelow[N - 1] < wanted
    BY <2>1 DEF MapInv, WalkOK
  <2>3. QED
    BY <1>1, <1>3, <1>4, <1>5, <1>7, <2>2
<1>8. QED
  BY <1>6, <1>7

(******************************************************************************)
(* Where ext2_get_inode_block_entry leads, for every file: the entries of the *)
(* direct pointers to them, those of the last pointer beyond block[], and no  *)
(* other through the pointer blocks of the inode.                             *)
(******************************************************************************)
THEOREM EntriesLeadThere ==
  MapSpec => []WhereEntriesLead
<1>1. MapInv => WhereEntriesLead
  BY DirectEntries, LastPointer DEF WhereEntriesLead
<1>2. QED
  BY <1>1, MapInvAlways, PTL

--------------------------------------------------------------------------------
(******************************************************************************)
(* What the widths of the numbers do to a read or write, for every width,     *)
(* file and request of the kernel: a read fits the buffer and passes the end  *)
(* of the file only by a sum that wrapped, what ends below the width is of    *)
(* the right bytes, and a write below it never shortens the file.             *)
(*                                                                            *)
(* The properties are about the request that is served.  TInv adds what the   *)
(* request and the bytes touched are made from.                               *)
(******************************************************************************)

Uint == 0 .. Width - 1

TypeInv ==
  /\ pc \in {"idle", "sent", "answered", "done"}
  /\ asked \in [kind : {"read", "write"}, offset : Nat, length : Uint]
  /\ request \in [offset : Uint, length : Uint]
  /\ size \in Uint
  /\ touched \in [first : Nat, count : Nat]

SentIsAsked ==
  pc # "idle" => request.offset = Uint32(asked.offset) /\ request.length = asked.length

ServedAsSent ==
  /\ Served("read") \/ Served("write") => touched.first = request.offset
  /\ Served("read") =>
       touched.count = size_to_read(size, request.offset, request.length)
  /\ Served("write") => touched.count = request.length

TInv == TypeInv /\ SentIsAsked /\ ServedAsSent

--------------------------------------------------------------------------------
\* What a cut to the width gives.
LEMMA Cut ==
  ASSUME NEW n \in Nat
  PROVE  Uint32(n) \in Uint /\ (n < Width => Uint32(n) = n)
<1>1. Width \in Nat /\ Width > 0
  BY TransferAssumption
<1>2. n % Width \in 0 .. Width - 1
  BY <1>1
<1>3. n < Width => n % Width = n
  BY <1>1
<1>4. QED
  BY <1>2, <1>3 DEF Uint32, Uint

\* A sum of two numbers never wraps to more than itself.
LEMMA CutIsNoMore ==
  ASSUME NEW n \in Nat
  PROVE  Uint32(n) <= n
<1>1. Width \in Nat /\ Width > 0
  BY TransferAssumption
<1>2. CASE n < Width
  BY <1>2, Cut
<1>3. CASE n >= Width
  BY <1>1, <1>3, Cut DEF Uint
<1>4. QED
  BY <1>1, <1>2, <1>3

\* The answer to a read is no longer than the request, nor than what is left
\* unless the sum wrapped.
LEMMA ReadSize ==
  ASSUME NEW n \in Uint, NEW o \in Uint, NEW l \in Uint
  PROVE  /\ size_to_read(n, o, l) \in 0 .. l
         /\ o <= n /\ o + l < Width => o + size_to_read(n, o, l) <= n
<1>1. Width \in Nat /\ n \in Nat /\ o \in Nat /\ l \in Nat
  BY TransferAssumption DEF Uint
<1>2. Uint32(o + l) <= o + l /\ Uint32(o + l) \in Nat
  BY <1>1, Cut, CutIsNoMore DEF Uint
<1>3. o + l < Width => Uint32(o + l) = o + l
  BY <1>1, Cut
<1>4. QED
  BY <1>1, <1>2, <1>3 DEF size_to_read

\* A write leaves a size of the width, and no smaller one if it ends below it.
LEMMA WriteSize ==
  ASSUME NEW n \in Uint, NEW o \in Uint, NEW l \in Uint
  PROVE  /\ Grown(n, o, l) \in Uint
         /\ o + l < Width => Grown(n, o, l) >= n
<1>1. Width \in Nat /\ n \in Nat /\ o \in Nat /\ l \in Nat /\ n < Width
  BY TransferAssumption DEF Uint
<1>2. SizeAfterWrite(n, o, l) \in {n, o + l}
  BY DEF SizeAfterWrite, SizeAfterResize
<1>3. SizeAfterWrite(n, o, l) >= n /\ SizeAfterWrite(n, o, l) \in Nat
  BY <1>1 DEF SizeAfterWrite, SizeAfterResize
<1>4. o + l < Width => SizeAfterWrite(n, o, l) < Width
  BY <1>1, <1>2
<1>5. QED
  BY <1>3, <1>4, Cut DEF Grown

--------------------------------------------------------------------------------
LEMMA InitTInv == Init => TInv
<1> SUFFICES ASSUME Init PROVE TInv
  OBVIOUS
<1>1. Width \in Nat /\ Width > 0 /\ Sizes \subseteq Uint
  BY TransferAssumption DEF Uint
<1>2. TypeInv
  BY <1>1 DEF Init, TypeInv, Uint
<1>3. pc = "idle"
  BY DEF Init
<1>4. QED
  BY <1>2, <1>3 DEF TInv, SentIsAsked, ServedAsSent, Served

LEMMA NextTInv == TInv /\ [Next]_vars => TInv'
<1> SUFFICES ASSUME TInv, [Next]_vars PROVE TInv'
  OBVIOUS
<1> USE DEF TInv
<1>1. ASSUME NEW kind \in {"read", "write"}, NEW o \in Offsets, NEW n \in Lengths,
             Send(kind, o, n)
      PROVE  TInv'
  <2>1. o \in Nat /\ n \in Uint /\ Uint32(o) \in Uint
    BY TransferAssumption, Cut DEF Uint
  <2>2. TypeInv'
    BY <1>1, <2>1 DEF Send, TypeInv
  <2>3. SentIsAsked'
    BY <1>1 DEF Send, SentIsAsked, Uint32
  <2>4. ServedAsSent'
    BY <1>1 DEF Send, ServedAsSent, Served
  <2>5. QED
    BY <2>2, <2>3, <2>4
<1>2. CASE ServeRead
  <2>1. size_to_read(size, request.offset, request.length) \in Nat
    BY ReadSize DEF TypeInv, Uint
  <2>2. TypeInv'
    BY <1>2, <2>1 DEF ServeRead, TypeInv, Uint
  <2>3. SentIsAsked'
    BY <1>2 DEF ServeRead, SentIsAsked, Uint32
  <2>4. ServedAsSent'
    BY <1>2 DEF ServeRead, ServedAsSent, Served, size_to_read, Uint32
  <2>5. QED
    BY <2>2, <2>3, <2>4
<1>3. CASE ServeWrite
  <2>1. Grown(size, request.offset, request.length) \in Uint
    BY WriteSize DEF TypeInv
  <2>2. TypeInv'
    BY <1>3, <2>1 DEF ServeWrite, TypeInv, Uint
  <2>3. SentIsAsked'
    BY <1>3 DEF ServeWrite, SentIsAsked, Uint32
  <2>4. ServedAsSent'
    BY <1>3 DEF ServeWrite, ServedAsSent, Served
  <2>5. QED
    BY <2>2, <2>3, <2>4
<1>4. CASE Receive
  BY <1>4 DEF Receive, TypeInv, SentIsAsked, ServedAsSent, Served, Uint32, size_to_read
<1>5. CASE Again
  BY <1>5 DEF Again, TypeInv, SentIsAsked, ServedAsSent, Served
<1>6. CASE UNCHANGED vars
  BY <1>6 DEF vars, TypeInv, SentIsAsked, ServedAsSent, Served, Uint32, size_to_read
<1>7. QED
  BY <1>1, <1>2, <1>3, <1>4, <1>5, <1>6 DEF Next

LEMMA TInvAlways == Spec => []TInv
BY InitTInv, NextTInv, PTL DEF Spec

--------------------------------------------------------------------------------
(******************************************************************************)
(* A read never answers more than the kernel has room for, whatever wraps     *)
(* between fuse_ext2_read and ext2_service__read.                             *)
(******************************************************************************)
THEOREM ReadFitsBuffer == Spec => []AnswerFitsBuffer
<1>1. TInv => AnswerFitsBuffer
  <2> SUFFICES ASSUME TInv, Served("read") PROVE touched.count <= asked.length
    BY DEF AnswerFitsBuffer
  <2>1. request.length = asked.length
    BY DEF TInv, SentIsAsked, Served
  <2>2. size_to_read(size, request.offset, request.length) \in 0 .. request.length
    BY ReadSize DEF TInv, TypeInv
  <2>3. touched.count \in 0 .. request.length
    BY <2>2 DEF TInv, ServedAsSent
  <2>4. request.length \in Nat
    BY TransferAssumption DEF TInv, TypeInv, Uint
  <2>5. QED
    BY <2>1, <2>3, <2>4
<1>2. QED
  BY <1>1, TInvAlways, PTL

(******************************************************************************)
(* Only a read whose 32-bit end wraps goes beyond the end of the file.        *)
(******************************************************************************)
THEOREM ReadPassesEndOnlyWrapped == Spec => []OnlyWrappedReadsPassTheEnd
<1>1. TInv => OnlyWrappedReadsPassTheEnd
  <2> SUFFICES ASSUME TInv, Served("read"), touched.first <= size,
                      request.offset + request.length < Width
               PROVE  touched.first + touched.count <= size
    BY TransferAssumption
       DEF OnlyWrappedReadsPassTheEnd, TInv, TypeInv, Uint
  <2>1. /\ touched.first = request.offset
        /\ touched.count = size_to_read(size, request.offset, request.length)
    BY DEF TInv, ServedAsSent
  <2>2. QED
    BY <2>1, ReadSize DEF TInv, TypeInv
<1>2. QED
  BY <1>1, TInvAlways, PTL

\* The bytes of a request that are in a file of size n.
InFile(n, o, l) == {p \in o .. o + l - 1 : p < n}

\* What is left of a request in the file.
Rest(n, o, l) == IF o > n THEN 0 ELSE IF o + l > n THEN n - o ELSE l

LEMMA BytesInFile ==
  ASSUME NEW n \in Nat, NEW o \in Nat, NEW l \in Nat
  PROVE  Cardinality(InFile(n, o, l)) = Rest(n, o, l)
<1>1. \A b \in Int : Cardinality(o .. b) = IF o > b THEN 0 ELSE b - o + 1
  BY FS_Interval
<1>2. CASE o + l > n
  <2>1. InFile(n, o, l) = o .. n - 1
    BY <1>2 DEF InFile
  <2>2. Cardinality(o .. n - 1) = IF o > n THEN 0 ELSE n - o
    BY <1>1
  <2>3. QED
    BY <1>2, <2>1, <2>2 DEF Rest
<1>3. CASE o + l <= n
  <2>1. InFile(n, o, l) = o .. o + l - 1
    BY <1>3 DEF InFile
  <2>2. Cardinality(o .. o + l - 1) = l
    BY <1>1
  <2>3. QED
    BY <1>3, <2>1, <2>2 DEF Rest
<1>4. QED
  BY <1>2, <1>3

(******************************************************************************)
(* What ends below the width is read and written where the kernel means it,   *)
(* a read as far as the file goes.                                            *)
(******************************************************************************)
THEOREM BytesAreRight == Spec => []RightBytes
<1>1. TInv => RightBytes
  <2> SUFFICES ASSUME TInv, Served("read") \/ Served("write"), Fits
               PROVE  /\ touched.first = asked.offset
                      /\ asked.kind = "write" => touched.count = asked.length
                      /\ asked.kind = "read" =>
                           touched.count =
                             Cardinality({p \in asked.offset .. asked.offset + asked.length - 1 :
                                            p < size})
    BY DEF RightBytes
  <2>1. /\ asked.offset \in Nat /\ asked.length \in Nat /\ size \in Nat /\ Width \in Nat
        /\ asked.offset + asked.length < Width /\ asked.offset < Width
    BY TransferAssumption DEF TInv, TypeInv, Uint, Fits
  <2>2. request.offset = asked.offset /\ request.length = asked.length
    BY <2>1, Cut DEF TInv, SentIsAsked, Served
  <2>3. touched.first = asked.offset
    BY <2>2 DEF TInv, ServedAsSent
  <2>4. ASSUME asked.kind = "write" PROVE touched.count = asked.length
    BY <2>2, <2>4 DEF TInv, ServedAsSent, Served
  <2>5. ASSUME asked.kind = "read"
        PROVE  touched.count =
                 Cardinality({p \in asked.offset .. asked.offset + asked.length - 1 : p < size})
    <3>1. touched.count = size_to_read(size, asked.offset, asked.length)
      BY <2>2, <2>5 DEF TInv, ServedAsSent, Served
    <3>2. Uint32(asked.offset + asked.length) = asked.offset + asked.length
      BY <2>1, Cut
    <3>3. size_to_read(size, asked.offset, asked.length) =
            Rest(size, asked.offset, asked.length)
      BY <3>2 DEF size_to_read, Rest
    <3>4. Cardinality(InFile(size, asked.offset, asked.length)) =
            Rest(size, asked.offset, asked.length)
      BY <2>1, BytesInFile
    <3>5. QED
      BY <3>1, <3>3, <3>4 DEF InFile
  <2>6. QED
    BY <2>3, <2>4, <2>5
<1>2. QED
  BY <1>1, TInvAlways, PTL

(******************************************************************************)
(* A write that ends below the width never makes the file shorter, and        *)
(* nothing else changes its size.                                             *)
(******************************************************************************)
THEOREM WritesGrow == Spec => WritesNeverShrink
<1>1. ASSUME TInv, [Next]_vars
      PROVE  [request'.offset + request'.length < Width => size' >= size]_vars
  <2>1. ASSUME ServeWrite, request'.offset + request'.length < Width PROVE size' >= size
    BY <1>1, <2>1, WriteSize DEF ServeWrite, TInv, TypeInv
  <2>2. ASSUME ~ ServeWrite PROVE size' >= size
    <3>1. size' = size
      BY <1>1, <2>2 DEF Next, Send, ServeRead, Receive, Again, vars
    <3>2. QED
      BY <1>1, <3>1, TransferAssumption DEF TInv, TypeInv, Uint
  <2>3. QED
    BY <2>1, <2>2
<1>2. QED
  BY <1>1, TInvAlways, PTL DEF Spec, WritesNeverShrink
================================================================================
