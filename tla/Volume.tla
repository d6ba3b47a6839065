-------------------------------- MODULE Volume ---------------------------------
(******************************************************************************)
(* The volume as the server finds it: the start of the server over an image   *)
(* (ext2_server_create, ext2_create), and then where it takes each group and  *)
(* inode to be (ext2_get_block_group, ext2_get_inode, ext2_get_root_inode;    *)
(* see Layout).                                                               *)
(******************************************************************************)
EXTENDS Layout

CONSTANTS
  Superblocks,    \* the superblocks of the images the server may be started on
  Magic           \* EXT2_SUPER_MAGIC

ASSUME VolumeAssumption == \A sb \in Superblocks : MadeByMke2fs(sb)

VARIABLES
  start,       \* a step of the start, "up", or "exited"
  fs,          \* the mapped superblock and the number of groups
  question,    \* what the last call asked: a group, an inode, or nothing
  answer       \* and what it returned

volumeVars == <<start, fs, question, answer>>

Nothing == [kind |-> "none", n |-> 0]

--------------------------------------------------------------------------------
VolumeInit ==
  /\ start = "open"
  /\ fs \in [superblock : Superblocks, number_of_block_groups : {0}]
  /\ question = Nothing /\ answer = Nothing

(******************************************************************************)
(* The start: the device is opened, looked at and mapped; each step may fail, *)
(* and the server then exits.                                                 *)
(******************************************************************************)
ext2_server_create ==
  /\ \/ start = "open" /\ start' \in {"fstat", "exited"}
     \/ start = "fstat" /\ start' \in {"regular", "exited"}
     \/ start = "regular" /\ start' \in {"mmap", "exited"}
     \/ start = "mmap" /\ start' \in {"create", "exited"}
  /\ UNCHANGED <<fs, question, answer>>

\* What is not an ext2 volume is refused.
ext2_create ==
  /\ start = "create"
  /\ IF fs.superblock.magic = Magic
     THEN /\ start' = "up"
          /\ fs' = [fs EXCEPT !.number_of_block_groups =
                               ext2_get_number_of_block_group(fs.superblock)]
     ELSE start' = "exited" /\ UNCHANGED fs
  /\ UNCHANGED <<question, answer>>

AskFor(kind, n, answers) ==
  /\ start = "up"
  /\ question' = [kind |-> kind, n |-> n]
  /\ answer' \in answers
  /\ UNCHANGED <<start, fs>>

AskGroup ==
  \E n \in 0 .. fs.number_of_block_groups :
    LET groups == ext2_get_block_group(fs, n)
    IN  AskFor("group", n, IF groups = {} THEN {Nothing} ELSE groups)

AskInode ==
  \E n \in 1 .. fs.superblock.inodecount : AskFor("inode", n, ext2_get_inode(fs, n))

AskRoot == AskFor("root", 2, ext2_get_root_inode(fs))

Exited == start = "exited" /\ UNCHANGED volumeVars

VolumeNext == ext2_server_create \/ ext2_create \/ AskGroup \/ AskInode \/ AskRoot \/ Exited

VolumeSpec == VolumeInit /\ [][VolumeNext]_volumeVars

--------------------------------------------------------------------------------
(******************************************************************************)
(* Type invariant.                                                            *)
(******************************************************************************)
VolumeTypeOK ==
  /\ start \in {"open", "fstat", "regular", "mmap", "create", "up", "exited"}
  /\ fs.superblock \in Superblocks /\ fs.number_of_block_groups \in 0 .. Uint16Width - 1
  /\ question.kind \in {"none", "group", "inode", "root"}
  /\ question.n \in Nat
  /\ start # "up" => question = Nothing
  /\ question.kind = "group" /\ answer # Nothing =>
       answer \in [{"block_bitmap", "inode_bitmap", "inode_table"} ->
                    {NULL} \cup 0 .. fs.superblock.blockcount - 1]

Asked(kind) == question.kind = kind

(******************************************************************************)
(* A group that exists ends inside the volume, the shorter last one being     *)
(* left out.  ext2_get_block_group finds the bitmaps and the inode table of   *)
(* group 0, and of every group the code takes to have no copy of the          *)
(* superblock, where mke2fs put them, as long as the block has a number of 16 *)
(* bits.  (It does not for the others: it reads them in the descriptor of     *)
(* group 0, or in what is no descriptor.)                                     *)
(******************************************************************************)
GroupsWhereTheyAre ==
  Asked("group") /\ question.n < fs.number_of_block_groups =>
    LET placed == Placed(fs.superblock, question.n)
    IN  /\ FirstBlock(fs.superblock, question.n + 1) <= fs.superblock.blockcount
        /\ Regular(question.n) =>
             \A place \in DOMAIN placed :
                placed[place] < Uint16Width => answer[place] = placed[place]

(******************************************************************************)
(* An inode that the code reaches is found in the table of its own group at   *)
(* its place there, counted from 1, and the root is inode 2.                  *)
(******************************************************************************)
InodesWhereTheyAre ==
  (Asked("inode") \/ Asked("root")) /\ Reached(fs, question.n) =>
    IsAt(fs.superblock, question.n, answer)

(******************************************************************************)
(* ext2_get_inode does not look at whether the group exists.  On a volume of  *)
(* whole groups, as many as a uint16_t can count, no inode is in a group that *)
(* does not.  (One group more, and the code counts none: the root faults.)    *)
(******************************************************************************)
WholeGroupsNeverFault ==
  /\ (fs.superblock.blockcount - fs.superblock.first_data_block)
       % fs.superblock.blockper_group = 0
  /\ group_amount_up(fs.superblock) < Uint16Width
  => answer # Fault
================================================================================
