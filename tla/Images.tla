-------------------------------- MODULE Images ---------------------------------
(******************************************************************************)
(* The small images that MCServer has the server work on: superblocks,        *)
(* inodes with their pointer blocks, and trees of directories.                *)
(******************************************************************************)
EXTENDS Integers, TLC

(******************************************************************************)
(* Superblocks, with and without a shorter last group and a boot block of its *)
(* own: 13 groups (of which 1, 3, 5, 7 and 9 hold a copy, and the code takes  *)
(* 6, 10 and 12 to), 28 groups (the last ones beyond the width of a block     *)
(* number), less than one group, as many groups as the width of a group       *)
(* number and two more; and one image that is not ext2.                       *)
(******************************************************************************)
Volume(magic, first, blocks, in_group, inodes) ==
  [magic |-> magic, first_data_block |-> first, blockcount |-> blocks,
   blockper_group |-> in_group, inodeper_group |-> inodes, descriptor_blocks |-> 1,
   inodecount |-> inodes * ((blocks - first + in_group - 1) \div in_group)]

SomeSuperblocks ==
  {Volume("ext2", 1, 1 + 13 * 8, 8, 2), Volume("ext2", 0, 13 * 8, 8, 2),
   Volume("ext2", 1, 1 + 28 * 8 + 5, 8, 2), Volume("ext2", 1, 7, 8, 2),
   Volume("ext2", 1, 1 + 128 * 8, 8, 2), Volume("ext2", 1, 1 + 130 * 8, 8, 2),
   Volume("other", 1, 105, 8, 2)}

\* What is read where no descriptor is: the table of group 0 of these volumes, or
\* no table.
SomeStray ==
  {[block_bitmap |-> b, inode_bitmap |-> b, inode_table |-> b] : b \in {0, 5, 200}}

--------------------------------------------------------------------------------
(******************************************************************************)
(* Inodes of five pointers, two of them direct, over blocks of two pointers:  *)
(* the largest file has 2 + 2 + 4 + 8 = 16 entries.  The boot block starts    *)
(* with 0 or with 5, and the pointers behind it are all different.            *)
(******************************************************************************)
Levels == <<0, 0, 1, 2, 3>>

SomeInodes == {<<7, 8, 9, 10, 11>>, <<3, 0, 5, 0, 0>>, <<12, 4, 0, 6, 2>>}

SomeDevices ==
  {[w \in 0 .. 31 |-> IF w = 0 THEN boot ELSE (w * 7) % 16] : boot \in {0, 5}}

--------------------------------------------------------------------------------
(******************************************************************************)
(* Trees.  Inode 2 is the root, 3 and 6 are directories, 4 and 5 are files, 1 *)
(* is free; 7 is a file of the next group.  A directory block is a function   *)
(* from the place of each entry to the entry; blocks are four units, or two   *)
(* sectors, long.                                                             *)
(******************************************************************************)
E(name, number, length) == [name |-> name, inode |-> number, rec_len |-> length]

Dir(blocks, pointers) ==
  [mode |-> "EXT2_IFDIR", blocks |-> blocks * 2, block |-> pointers]

File == [mode |-> "EXT2_IFREG", blocks |-> 0, block |-> <<0>>]

Free == [mode |-> "0", blocks |-> 0, block |-> <<0>>]

Blocks ==
  [b \in 9 .. 15 |->
     CASE b = 9 -> (0 :> E("f", 0, 1) @@ 1 :> E("a", 3, 1) @@ 2 :> E("f", 4, 2))
       [] b = 10 -> (0 :> E("b", 5, 4))
       [] b = 11 -> (0 :> E("b", 0, 3) @@ 3 :> E("a", 6, 1))
       [] b = 12 -> (0 :> E("f", 0, 2) @@ 2 :> E("b", 0, 2))
       [] b = 13 -> (0 :> E("a", 5, 3) @@ 3 :> E("f", 5, 1))
       [] b = 14 -> (0 :> E("f", 5, 1) @@ 1 :> E("b", 7, 3))
       [] b = 15 -> (0 :> E("", 0, 0))]

Mounted(superblock, groups) ==
  [superblock |-> superblock, number_of_block_groups |-> groups]

Table(root, a, aa) ==
  1 :> Free @@ 2 :> root @@ 3 :> a @@ 4 :> File @@ 5 :> File @@ 6 :> aa

\* One group and a shorter one, which is not counted.
Tree(root, a, aa) ==
  [fs |-> Mounted(Volume("ext2", 1, 1 + 16 + 9, 16, 6), 1),
   inodes |-> Table(root, a, aa) @@ 7 :> File, device |-> Blocks]

SoundTree(root, a, aa) ==
  [Tree(root, a, aa) EXCEPT !.device = [b \in 9 .. 14 |-> Blocks[b]]]

(******************************************************************************)
(* The root in two blocks; in one, with an attribute block counted; with a    *)
(* hole before its block; a directory below it that lists a file of the last  *)
(* group; and one whose second block is all zeros.                            *)
(******************************************************************************)
TreesInOneGroup ==
  {SoundTree(Dir(2, <<9, 10>>), Dir(1, <<11, 0>>), Dir(1, <<12, 0>>)),
   SoundTree(Dir(2, <<9, 0>>), Dir(2, <<11, 10>>), Dir(1, <<13, 0>>)),
   SoundTree(Dir(2, <<0, 9>>), Dir(1, <<12, 0>>), Dir(1, <<13, 0>>)),
   SoundTree(Dir(2, <<9, 10>>), Dir(2, <<11, 0>>), Dir(1, <<14, 0>>)),
   Tree(Dir(1, <<9, 0>>), Dir(2, <<11, 15>>), Dir(1, <<13, 0>>))}

(******************************************************************************)
(* Nine groups.  Inodes 13 and 14 are in group 2, where they are found; 8 and *)
(* 9 in group 1, which is read in group 0 (as 2 and 3), and 38 in group 6,    *)
(* which has no descriptor where one is looked for.  Blocks beyond 128 have   *)
(* numbers that are cut, to that of another directory block (138) or of none. *)
(******************************************************************************)
WideBlocks ==
  [b \in 9 .. 14 |-> Blocks[b]] @@
  40 :> (0 :> E("a", 13, 1) @@ 1 :> E("f", 8, 1) @@ 2 :> E("b", 38, 2)) @@
  41 :> (0 :> E("a", 9, 1) @@ 1 :> E("f", 14, 1) @@ 2 :> E("b", 3, 2)) @@
  42 :> (0 :> E("f", 14, 4)) @@
  136 :> (0 :> E("b", 5, 4)) @@
  138 :> (0 :> E("b", 3, 2) @@ 2 :> E("a", 6, 2))

WideTree(group2) ==
  [fs |-> Mounted(Volume("ext2", 1, 1 + 9 * 16, 16, 6), 9),
   inodes |-> Table(Dir(1, <<40, 0>>), Dir(1, <<11, 0>>), Dir(1, <<12, 0>>)) @@
              8 :> File @@ 9 :> Dir(1, <<10, 0>>) @@ 13 :> group2 @@
              14 :> File @@ 38 :> File,
   device |-> WideBlocks]

\* The last has no whole group.
SomeTrees ==
  TreesInOneGroup \cup
  {WideTree(Dir(1, <<41, 0>>)), WideTree(Dir(2, <<42, 138>>)), WideTree(Dir(2, <<42, 136>>)),
   [fs |-> Mounted(Volume("ext2", 1, 1 + 9, 16, 6), 0),
    inodes |-> Table(Dir(1, <<9, 0>>), Dir(0, <<0, 0>>), Dir(0, <<0, 0>>)),
    device |-> 9 :> Blocks[9]]}

Pieces == {"", "a", "b", "f"}

SomePaths == UNION {[1 .. n -> Pieces] : n \in 1 .. 3} \cup
             {<<"a", "a", "f", "f">>, <<"", "a", "", "a">>}
================================================================================
