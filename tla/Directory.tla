------------------------------- MODULE Directory -------------------------------
(******************************************************************************)
(* Directories and paths: ext2_get_element_inode and ext2_list_dir of ext2.c, *)
(* with ext2_find_inode, which lists the directory it is in and goes down by  *)
(* one name, ext2_list_inode, which goes over the blocks of a directory, and  *)
(* ext2_get_block_directory_entrys, which follows rec_len through a block.    *)
(*                                                                            *)
(* A path is the pieces between its slashes, "" where two are next to each    *)
(* other or the path ends: "/a//b/" is <<"a", "", "b", "">>.  The tree does   *)
(* not change while it is read: no request of the server changes a directory. *)
(*                                                                            *)
(* An inode is gone to at the place that ext2_get_inode gives for its number, *)
(* and a block at the number that ext2_get_block cuts (Layout), so that the   *)
(* search may go on in an inode or a block that was not meant.                *)
(******************************************************************************)
EXTENDS Layout, SequencesExt

CONSTANTS
  Root,               \* inode 2
  Trees,              \* images: volume, inodes, and directory blocks (see Images)
  DirBlockSize,       \* fs->block_size, in units of the shortest entry
  SectorsPerBlock,    \* 2 << superblock->log_block_size
  Paths               \* paths asked for

VARIABLES
  tree,       \* the image
  walk,       \* "idle", "find", "block", "entry", "listed", or how it ended
  kind,       \* "element" (ext2_get_element_inode) or "list" (ext2_list_dir)
  path_asked, \* the path as it was asked, in pieces
  path,       \* what string_split made of it: its names
  depth,      \* names already found
  inode,      \* the inode that ext2_find_inode or ext2_list_inode is at
  index, offset,
  list,       \* the entries listed so far
  found       \* the inode found, or none

call == <<kind, path_asked, path, found>>
directoryVars == <<tree, walk, call, depth, inode, index, offset, list>>

ASSUME SizesAssumption ==
  /\ DirBlockSize \in Nat \ {0} /\ SectorsPerBlock \in Nat \ {0}
  /\ Paths \subseteq Seq(STRING) /\ Root = 2

(******************************************************************************)
(* A directory as mke2fs and the kernel leave it.  An entry ends where the    *)
(* next one begins or the block does, and one without a length, in a block    *)
(* that was never written, names nothing.  A directory counts the sectors of  *)
(* all its blocks, with no pointer beyond them, and no name is in it twice.   *)
(******************************************************************************)
WholeBlock(entries) ==
  /\ 0 \in DOMAIN entries /\ DOMAIN entries \subseteq 0 .. DirBlockSize - 1
  /\ \A o \in DOMAIN entries :
       /\ entries[o].rec_len \in Nat /\ entries[o].inode \in Nat
       /\ entries[o].rec_len = 0 => entries[o].inode = 0
       /\ o + entries[o].rec_len \in DOMAIN entries \cup {DirBlockSize}
       /\ \A p \in DOMAIN entries : p > o => p >= o + entries[o].rec_len

LivePlaces(t, i) ==
  {x \in (DOMAIN t.inodes[i].block) \X (0 .. DirBlockSize - 1) :
     /\ t.inodes[i].block[x[1]] # 0
     /\ x[2] \in DOMAIN t.device[t.inodes[i].block[x[1]]]
     /\ t.device[t.inodes[i].block[x[1]]][x[2]].inode # 0}

EntryAt(t, i, place) == t.device[t.inodes[i].block[place[1]]][place[2]]

WholeDirectory(t, i) ==
  /\ t.inodes[i].block \in Seq(Nat) /\ t.inodes[i].blocks \in Nat
  /\ t.inodes[i].blocks \div SectorsPerBlock <= Len(t.inodes[i].block)
  /\ \A k \in DOMAIN t.inodes[i].block :
       t.inodes[i].block[k] # 0 => /\ k <= t.inodes[i].blocks \div SectorsPerBlock
                                  /\ t.inodes[i].block[k] \in DOMAIN t.device
  /\ \A x \in LivePlaces(t, i) : EntryAt(t, i, x).inode \in DOMAIN t.inodes
  /\ \A x, y \in LivePlaces(t, i) :
       EntryAt(t, i, x).name = EntryAt(t, i, y).name => x = y

(******************************************************************************)
(* A tree is in a volume as ext2_create leaves it; its inodes are some of     *)
(* those of the volume, with all of the first table (a free inode there is no *)
(* directory), and its directory blocks some of the blocks.                   *)
(******************************************************************************)
ASSUME TreesAssumption ==
  \A t \in Trees :
    /\ MadeByMke2fs(t.fs.superblock)
    /\ t.fs.number_of_block_groups = ext2_get_number_of_block_group(t.fs.superblock)
    /\ Root \in DOMAIN t.inodes /\ 1 .. t.fs.superblock.inodeper_group \subseteq DOMAIN t.inodes
    /\ DOMAIN t.inodes \subseteq 1 .. t.fs.superblock.inodecount
    /\ DOMAIN t.device \subseteq 1 .. t.fs.superblock.blockcount - 1
    /\ \A b \in DOMAIN t.device : WholeBlock(t.device[b])
    /\ \A i \in DOMAIN t.inodes : t.inodes[i].mode = "EXT2_IFDIR" => WholeDirectory(t, i)

NoInode == 0                                                          \* NULL

\* How a search ends; "astray" is one that goes on in what is no inode or no
\* directory block, where it may find anything.
WalkEnds == {"found", "listing", "NULL", "fault", "astray"}

--------------------------------------------------------------------------------
\* Mutated form: empty pieces are kept, as by a split at every separator.
string_split_all(pieces) == pieces

\* strtok_r takes separators that follow each other for one.
string_split(pieces) ==
  LET substrings[i \in 0 .. Len(pieces)] ==
        IF i = 0 THEN <<>>
        ELSE IF pieces[i] = "" THEN substrings[i - 1]
        ELSE Append(substrings[i - 1], pieces[i])
  IN  substrings[Len(pieces)]

IsDirectory(i) == tree.inodes[i].mode = "EXT2_IFDIR"

\* Mutated form: the loop over the blocks leaves out the last.
block_amount_short(i) == tree.inodes[i].blocks \div SectorsPerBlock - 1

\* root->blocks counts sectors, those of an attribute block included.
block_amount(i) == tree.inodes[i].blocks \div SectorsPerBlock

\* The block read for a pointer, counted from 1, and the entry in hand.
BlockRead(i, k) == ext2_get_block(tree.fs, tree.inodes[i].block[k])

Entry == tree.device[BlockRead(inode, index + 1)][offset]

DirectoryInit ==
  /\ tree \in Trees
  /\ walk = "idle" /\ kind = "element" /\ path_asked = <<>> /\ path = <<>> /\ found = NoInode
  /\ depth = 0 /\ inode = Root /\ index = 0 /\ offset = 0 /\ list = <<>>

(******************************************************************************)
(* The search goes on with the inode at a place, if there is one; a place in  *)
(* a table that does not exist is a fault.                                    *)
(******************************************************************************)
GoTo(place) ==
  IF place = Fault THEN walk' = "fault" /\ UNCHANGED inode
  ELSE \/ \E i \in DOMAIN tree.inodes :
            IsAt(tree.fs.superblock, i, place) /\ walk' = "find" /\ inode' = i
       \/ /\ \A i \in DOMAIN tree.inodes : ~ IsAt(tree.fs.superblock, i, place)
          /\ walk' = "astray" /\ UNCHANGED inode

\* ext2_get_element_inode, called by the handlers or by ext2_list_dir.
Look(k, pieces) ==
  /\ walk = "idle"
  /\ \E place \in ext2_get_root_inode(tree.fs) : GoTo(place)
  /\ kind' = k
  /\ path_asked' = pieces
  /\ path' = string_split(pieces)
  /\ UNCHANGED <<tree, depth, index, offset, list, found>>

\* ext2_list_inode, entered for the inode in hand.
StartList == index' = 0 /\ list' = <<>> /\ UNCHANGED offset

\* No name is left: the inode is the element; ext2_list_dir then lists it.
FindEnds ==
  /\ walk = "find" /\ depth = Len(path)
  /\ found' = inode
  /\ IF kind = "list" /\ IsDirectory(inode) THEN walk' = "block" /\ StartList
     ELSE /\ walk' = IF kind = "list" THEN "NULL" ELSE "found"
          /\ UNCHANGED <<index, offset, list>>
  /\ UNCHANGED <<tree, kind, path_asked, path, depth, inode>>

(******************************************************************************)
(* A name is left: the inode is listed and list_find looks for the name.  The *)
(* list of an inode that is no directory is NULL, which list_find follows.    *)
(******************************************************************************)
FindGoesDown ==
  /\ walk = "find" /\ depth < Len(path)
  /\ IF IsDirectory(inode) THEN walk' = "block" /\ StartList
     ELSE walk' = "fault" /\ UNCHANGED <<index, offset, list>>
  /\ UNCHANGED <<tree, call, depth, inode>>

\* The loop over the blocks; one that is not there is passed over.
NextBlock ==
  /\ walk = "block"
  /\ IF index >= block_amount(inode) THEN walk' = "listed" /\ UNCHANGED <<index, offset>>
     ELSE IF tree.inodes[inode].block[index + 1] = 0
     THEN index' = index + 1 /\ UNCHANGED <<walk, offset>>
     ELSE IF BlockRead(inode, index + 1) \in DOMAIN tree.device
     THEN walk' = "entry" /\ offset' = 0 /\ UNCHANGED index
     ELSE walk' = "astray" /\ UNCHANGED <<index, offset>>
  /\ UNCHANGED <<tree, call, depth, inode, list>>

Takes(entry) == entry.inode # 0

\* Mutated form: the scan goes on after the entries it takes only.
StepOverTaken(entry) == IF Takes(entry) THEN entry.rec_len ELSE 0

\* Mutated form: rec_len is taken to leave out the head of the entry.
StepOverHead(entry) == 1 + entry.rec_len

StepBy(entry) == entry.rec_len

(******************************************************************************)
(* ext2_inode_entry_create gets the inode of each entry it lists, and faults  *)
(* at one in a group, as the shorter last one, that was not counted.          *)
(******************************************************************************)
NextEntry ==
  /\ walk = "entry" /\ offset < DirBlockSize
  /\ IF Takes(Entry) /\ Fault \in ext2_get_inode(tree.fs, Entry.inode)
     THEN walk' = "fault" /\ UNCHANGED <<list, offset>>
     ELSE /\ list' = IF Takes(Entry) THEN Append(list, Entry) ELSE list
          /\ offset' = offset + StepBy(Entry)
          /\ UNCHANGED walk
  /\ UNCHANGED <<tree, call, depth, inode, index>>

BlockEnds ==
  /\ walk = "entry" /\ offset >= DirBlockSize
  /\ walk' = "block"
  /\ index' = index + 1
  /\ UNCHANGED <<tree, call, depth, inode, offset, list>>

\* list_find: the first entry of that name, 0 when there is none.
FirstNamed(entries, name) == SelectInSeq(entries, LAMBDA e : e.name = name)

(******************************************************************************)
(* The list is complete: ext2_list_dir returns it, ext2_find_inode looks for  *)
(* its name and goes down to the inode it gets for the entry, or returns NULL.*)
(******************************************************************************)
Listed ==
  /\ walk = "listed"
  /\ IF depth = Len(path)
     THEN walk' = "listing" /\ UNCHANGED <<depth, inode>>
     ELSE LET at == FirstNamed(list, path[depth + 1])
          IN  IF at = 0 THEN walk' = "NULL" /\ UNCHANGED <<depth, inode>>
              ELSE /\ \E place \in ext2_get_inode(tree.fs, list[at].inode) : GoTo(place)
                   /\ depth' = depth + 1
  /\ UNCHANGED <<tree, call, index, offset, list>>

WalkStep == FindEnds \/ FindGoesDown \/ NextBlock \/ NextEntry \/ BlockEnds \/ Listed

WalkEnded == walk \in WalkEnds /\ UNCHANGED directoryVars

DirectoryNext ==
  (\E k \in {"element", "list"}, p \in Paths : Look(k, p)) \/ WalkStep \/ WalkEnded

DirectorySpec == DirectoryInit /\ [][DirectoryNext]_directoryVars /\ WF_directoryVars(WalkStep)

--------------------------------------------------------------------------------
(******************************************************************************)
(* What a path means, apart from any search: the live entries of a directory, *)
(* wherever they are, and the inodes that a sequence of names can lead to.    *)
(******************************************************************************)
BlocksOf(i) == Range(tree.inodes[i].block) \ {0}

Live(i) == {e \in UNION {Range(tree.device[b]) : b \in BlocksOf(i)} : e.inode # 0}

Children(i, name) ==
  IF IsDirectory(i) THEN {e.inode : e \in {x \in Live(i) : x.name = name}} ELSE {}

\* The names of a path: its k-th piece that is not empty is the k-th.
NamesUpTo(i) == Cardinality({j \in 1 .. i : path_asked[j] # ""})

Names ==
  [k \in 1 .. NamesUpTo(Len(path_asked)) |->
     path_asked[CHOOSE i \in DOMAIN path_asked : path_asked[i] # "" /\ NamesUpTo(i) = k]]

\* Where the first n of them lead.
Leads[n \in 0 .. Len(Names)] ==
  IF n = 0 THEN {Root}
  ELSE UNION {Children(i, Names[n]) : i \in Leads[n - 1]}

(******************************************************************************)
(* Inodes that are gone to where they are, and whose blocks, if they are      *)
(* directories, have numbers that are not cut.                                *)
(******************************************************************************)
Uncut(i) == \A k \in DOMAIN tree.inodes[i].block : tree.inodes[i].block[k] < Uint16Width

ReadRight(i) == Reached(tree.fs, i) /\ (IsDirectory(i) => Uncut(i))

\* The way of the first n names has an inode that is not.
Misread(n) == \E k \in 0 .. n : \E i \in Leads[k] : ~ ReadRight(i)

\* Every entry brings the scan further.
WellFormed ==
  \A b \in DOMAIN tree.device : \A o \in DOMAIN tree.device[b] : tree.device[b][o].rec_len > 0

(******************************************************************************)
(* Type invariant.                                                            *)
(******************************************************************************)
DirectoryTypeOK ==
  /\ tree \in Trees
  /\ walk \in {"idle", "find", "block", "entry", "listed"} \cup WalkEnds
  /\ kind \in {"element", "list"}
  /\ depth \in 0 .. Len(path)
  /\ inode \in DOMAIN tree.inodes
  /\ walk = "entry" => /\ BlockRead(inode, index + 1) \in DOMAIN tree.device
                       /\ offset \in DOMAIN tree.device[BlockRead(inode, index + 1)]
                                     \cup {DirBlockSize}
  /\ found \in {NoInode} \cup DOMAIN tree.inodes

(******************************************************************************)
(* A path whose inodes are all read right finds the one inode that its names  *)
(* lead to, over any number of directories, removed entries of the same name  *)
(* and empty pieces, and finds NULL only when they lead nowhere, or to a file *)
(* that is to be listed.  (An inode of a group that the code wrongly takes to *)
(* have a copy of the superblock, 1, 3, 5 and so on, is read in group 0: its  *)
(* path finds another inode.)                                                 *)
(******************************************************************************)
PathFindsItsInode ==
  ~ Misread(Len(Names)) =>
    /\ walk \in {"found", "listing"} => Leads[Len(Names)] = {found}
    /\ walk = "NULL" => \A i \in Leads[Len(Names)] : kind = "list" /\ ~ IsDirectory(i)

(******************************************************************************)
(* The search faults or goes astray only for a path that goes on after the    *)
(* name of a file, or that has on its way a directory with an entry of a      *)
(* group that was not counted, or an inode that is not read right: never for  *)
(* a path whose directories are whole and read right, however many there are. *)
(******************************************************************************)
FaultsOnlyOnTheWay ==
  walk \in {"fault", "astray"} =>
    \/ Misread(Len(Names))
    \/ \E n \in 0 .. Len(Names) : \E i \in Leads[n] :
         \/ n < Len(Names) /\ ~ IsDirectory(i)
         \/ /\ IsDirectory(i)
            /\ \E e \in Live(i) :
                 Home(tree.fs.superblock, e.inode) >= tree.fs.number_of_block_groups

(******************************************************************************)
(* A listing has each live entry of the directory, of whatever block, once,   *)
(* and no other, as long as its blocks have numbers of 16 bits.               *)
(******************************************************************************)
ListingIsComplete ==
  walk = "listing" /\ Uncut(found) => IsInjective(list) /\ Range(list) = Live(found)

(******************************************************************************)
(* Every call ends, or goes astray, on an image each of whose entries has a   *)
(* length; the scan of a block stays for ever at an entry that has none.      *)
(******************************************************************************)
LookupEnds == (walk = "find" /\ WellFormed) ~> (walk \in WalkEnds)
================================================================================
