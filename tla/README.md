# TLA+ verification of fuse_ext2

`fuse_ext2` mounts an ext2 image by remote procedure call: a FUSE client turns
each file system call of the kernel into an RPC, and a server answers it from
an image file it has mapped into memory. This directory models the parts of it
whose correctness is hard to see by testing. TLC checks the models on small
instances; TLAPS proves the most important facts for every value of the
constants. The repository has no tests and few comments, so every definition is
translated from the code.

## The system

| Component | Source | State | Operations |
|---|---|---|---|
| FUSE client | `fuse_ext2_client/src/fuse_client.c` | one stack frame per call in progress: query, `is_done`, `res`, the kernel's buffer | `getattr`, `readdir`, `open`, `read`, `write`; `main` connects, then hands over to libfuse |
| RPC messages | `rpc_layer.proto`, `rpc_layer.pb-c.[ch]` (generated) | none | pack, unpack, dispatch |
| RPC server | `fuse_ext2_server/src/ext2_server.[ch]` | mapped image, service | `ext2_server_create`, `ext2_server_run`, handlers `read_dir`, `get_attr`, `read`, `write` |
| Inode data I/O | `ext2.c:258-354` | `inode->size`, `inode->block[]`, the blocks themselves | `ext2_read_inode_data`, `ext2_write_inode_data`, `ext2_resize_inode_data` |
| Block addressing | `ext2.c:59-65, 207-238, 461-473` | none | `ext2_get_block`, `ext2_get_inode_block_entry`, `ext2_find_block_entry` |
| Volume, block groups | `ext2.c:38-125, 440-455` | superblock, group descriptors | `ext2_create`, `ext2_get_block_group`, `ext2_get_inode`, `ext2_has_superblock`, ... |
| Directories | `ext2.c:127-205, 240-256, 521-533` | none | `ext2_list_dir`, `ext2_find_inode`, `ext2_get_block_directory_entrys` |
| Free blocks | `ext2.c:356-438, 494-514`, `bitarray.[ch]` | the block bitmaps | `ext2_get_free_blocks`, `ext2_get_free_blocks_in_group`, `bitarray_*` |
| Linked list | `collections/list.c` | nodes, count | `list_add`, `list_remove`, `list_find`, `list_remove_by_condition`, ... |
| Log | `log.c` | detail, file, console or not | `log_create`, `log_destroy`, `log_error`, ..., `log_level_from_string` |
| Strings | `string.c` | the caller's string | `string_append`, `string_trim`, `string_split`, ... |
| Time, errors | `temporal.c`, `error.c` | none | `temporal_get_string_time`; `error_show`, which prints |

How they interact. libfuse runs each client handler in a worker thread of its
own (several at a time unless mounted with `-s`). The handler sends its request
over the one connection and then runs the one dispatch loop of the process,
`protobuf_c_dispatch_run`, until its `is_done` is set. Whoever dispatches reads
whatever responses there are, and runs their closures: nested functions that
store into the stack frame of the handler that made the call. The server runs
one dispatch loop in one thread; a handler finds the inode by path, reads or
writes its data through the shared mapping of the image, and calls the response
closure before it returns. There is no journal and no `msync`: what a server
stored before it died is what the next one finds.

What is hard here:

- a response handled by a thread other than its caller's, and frames that go
  away while a closure is still storing into them;
- the server's death: before, in the middle of and after a request, and what
  the client's pending closures are then called with;
- writes that a death interrupts between or inside two `memcpy`s, and resizes
  it interrupts between attaching blocks and assigning the size;
- arithmetic at block boundaries; blocks of value 0 (holes, failed
  allocation), which the code does not test for;
- the way from a path to an inode, from an inode to a group, and from a block
  of a file to a block of the device: searches and index arithmetic in numbers
  of 16 and 32 bits, over an image the code did not write;
- the wrap-around search for free blocks;
- a time stamp put together from two readings of a clock that moves, and lines
  of several threads in two sinks.

What makes each component correct:

- client and connection: each call is served at most once, returns what it was
  served, and returns; a closure runs in a frame that is there;
- inode data: a read gets the bytes of the file, a write changes those it
  covers and no others, an interrupted one leaves each byte old or new; no copy
  leaves the file or its buffer; two clusters never share a block;
- block addressing: an entry is found where the tree of pointers of ext2 puts it;
- volume: a group, a descriptor and an inode are where ext2 puts them, or it is
  known of which they are not;
- directories: a listing has each entry once and ends; a path finds the inode
  it names or nothing;
- free blocks: what is handed out is as much as asked, once, and from near by;
- list: the operations of a sequence;
- log: each enabled call leaves one line in each sink, in order; strings: the
  loops compute what a definition without loops says.

`PROJECT.json` lists the hazards one by one, each at its line with the
properties that cover it.

## The modules

| Module | What it is |
|---|---|
| `FileOps` | size arithmetic: clusters of a size, the size after a resize or a write, the length of a read |
| `FileContent` | abstract specification of one file: a size, bytes, requests that take effect at once |
| `InodeData` | the block-level code: loops, pointers, device, deaths of the server; implements `FileContent` |
| `MCInodeData` | instances of `InodeData` for TLC |
| `InodeDataProofs` | theorems about `InodeData`, the refinement of `FileContent` among them |
| `FsCalls` | the calls, their answers and their effect, file by file |
| `RemoteCalls` | abstract specification of the calls: served at most once, between start and return |
| `FuseRpc` | client threads, dispatch, closures, connection and server; implements `RemoteCalls` |
| `FuseRpcProofs` | theorems about `FuseRpc`, the refinement of `RemoteCalls` among them |
| `ListSequence` | abstract specification of the list: a sequence, and what each call returns and destroys |
| `LinkedList` | nodes, head and count of `list.c`; implements `ListSequence` |
| `LinkedListProofs` | theorems about `LinkedList`, the refinement of `ListSequence` among them |
| `Transfer` | offset and length of a call from the kernel through 32-bit fields and sums |
| `Layout` | where the blocks of a group and the inodes are, in the image and for the code; under `Volume` and `Directory` |
| `Volume` | start of the server, and what it finds of each group and inode |
| `BlockMap` | from an entry of a file to a block, through the pointers of the inode |
| `ServerProofs` | theorems about `Transfer`, `Volume` with `Layout`, and `BlockMap` |
| `Directory` | listing a directory, finding the inode of a path |
| `DirectoryProofs` | theorems about `Directory` |
| `Images` | small images: superblocks, inodes with their pointer blocks, trees of directories |
| `MCServer` | `Transfer`, `Volume`, `Directory` and `BlockMap` on them |
| `BitSet` | abstract specification of a set of bits |
| `Bitarray` | the masks and bytes of `bitarray.c`; implements `BitSet` |
| `FreeBlocks` | the search for free blocks over groups |
| `FreeBlocksProofs` | theorems about `FreeBlocks` and `Bitarray`, the refinement of `BitSet` among them |
| `MCFreeBlocks` | `FreeBlocks` and `Bitarray` together, for TLC |
| `Temporal` | a time stamp, for any number of threads |
| `Log` | the logger on top of `Temporal` |
| `LogProofs` | theorems about `Log` and `Temporal` |
| `Strings` | the functions of `string.c` |
| `StringsProofs` | theorems about `Strings` |
| `MCLibrary` | instances of `Log`, `Strings` and `LinkedList` for TLC |

A definition introduced as a *mutated form* is a slip a programmer could make
in the definition after it. No specification uses it; putting it in the place
of the real one shows that a property notices.

### InodeData and FileContent

State and code: `device` is the mapping, `size` and `block` the inode's fields;
`blocks_offset`, `offset_inside_block`, `block_size_to_copy` and `size_copied`
are the locals of the two loops under their own names; `off`, `len` and `buff`
the arguments, `goal` the `new_size` of a resize. `before` is a history
variable: what the file held when the request came. `pc` says where the call
is:

| Action | Code |
|---|---|
| `StartRead` | `ext2_service__read` (`ext2_server.c:140-174`) with its clamp, and the locals before the loop (`ext2.c:258-271`) |
| `StartWrite` | `ext2_service__write` and the head of `ext2_write_inode_data` (`ext2.c:294-311`), up to the call of the resize |
| `StartResize` | `ext2_resize_inode_data` called on its own |
| `ext2_add_clusters`, `ext2_remove_clusters` | external: called by the resize (`ext2.c:344-351`) and defined nowhere |
| `AssignSize` | `inode->size = new_size` (`ext2.c:353`) |
| `CopyRead`, `CopyWrite` | one iteration of the do-while (`ext2.c:273-291`, `313-332`) |
| `Return` | the response closure |
| `Crash` | the process dies; a `memcpy` under way has stored any subset of its bytes |

`FileContent` knows no blocks. Three of its clauses say what the code does
rather than what one might expect: a write that grows the file inside its last
cluster leaves the size alone (the resize returns early), the bytes of a new
cluster that the write does not cover are arbitrary, and a death leaves any of
the covered bytes written and either size. The refinement holds for files
without holes; `before` supplies the old content until the call is done, which
is when the abstract step is taken.

### FuseRpc and RemoteCalls

Each thread has a frame (`req`, `isDone`, `out`), a place in its loop (`pc`) and
the responses its current dispatch has read (`batch`). `requests` and
`responses` are the two directions of the connection, `waiting` the closures
the RPC library has not run.

| Action | Code |
|---|---|
| `Call`, `CallWithoutLink` | a handler up to and with the stub call (`fuse_client.c:17-38` and alike) |
| `LoopTest` | `while (!is_done)` |
| `DispatchRun`, `WokenTooLate` | `protobuf_c_dispatch_run`: sleep, read, and wake for something another thread took |
| `FindLinkLost`, `Reconnect` | the library's side of a lost connection |
| `GetattrDone`, `GetattrFill`, `GetattrFillLate` | the closure of `getattr`, split because it sets `is_done` first |
| `ReaddirClosure`, `ReadClosure`, `WriteClosure` | the other closures |
| `Return` | `return res` |
| `ServerHandle`, `ServerDies`, `ServerStarts` | `ext2_server_run`, its handlers, and death and restart |

External parts, modelled from how the code uses them: libfuse (the worker
threads), protobuf-c-rpc (dispatch, connection, the closure called with NULL
when the connection is lost, which no handler tests for, so the client dies).
The steps inside one dispatch are atomic, except the stores of closures.
`WriteClosure` takes the `WriteResponse` for a `ReadResponse` and reads a field
beyond its end: any value may be found, a nondeterministic choice.
`GetattrFillLate` stores through a pointer into a frame that is gone: it hits
nothing, or what the thread has there now.

`FsCalls` abstracts the file system: one directory, one value per file. Which
bytes a call moves is the subject of `InodeData`, so neither needs the other's
detail. A `readdir` may be asked for a name that is missing: the answer then has
no elements (`Listing`).

### LinkedList and ListSequence

`heap` holds the link elements allocated, `head` and `elements_count` the list;
`last` records the last call and its outcome, what it gave the caller's
destroyer included. There is no list until `list_create`. Each function of
`list.c` is an action or, where it changes nothing, an operator that `Look`
calls; `malloc` takes any address that is free. The code walks a list in two
ways: by `next` until NULL (`Walk`: iterate, find, filter, map, clean) and by
the count (`list_get_element`: get, add, remove, take). `list_take_and_remove`
is as many calls of `list_remove` at 0 as it makes (`RemovedFirst`).
`list_remove` outside a list that is not empty dereferences NULL
(`RemoveFault`): the process is gone, and with it the list. A call is one step,
since no list is shared between threads.

### Transfer

`asked` is what the kernel wants, `request` the fields of the query that
`fuse_ext2_read` and `fuse_ext2_write` fill (`Send`; the offset is cut to 32
bits), `size` the size of the file, `touched` the bytes that `ServeRead` and
`ServeWrite` read or write, `res` what the handler returns. `size_to_read` has
the 32-bit sum of `ext2_server.c:162`, `Grown` the 64-bit sum of
`ext2_write_inode_data` and its cut when the size is assigned. `InodeData`
starts where this ends, with an offset and a length.

### Volume, Directory, BlockMap

These follow a request inside the server. They read an image that nothing
changes meanwhile (no handler changes a superblock, a directory or a pointer
block) and have no state in common, so `MCServer`, which extends
`Transfer`, `Volume`, `BlockMap` and `Directory`, runs each by itself over the
images of `Images`. What one takes for granted is a property of another:
`InodeData` that the first entries of a file are its direct pointers
(`BlockMap`), `FsCalls` that a path finds its inode (`Directory`).

`Layout` is the arithmetic that `Volume` and `Directory` share: `Placed` is
where `mke2fs` puts the bitmaps and the table of a group (external), and
`ext2_get_block_group`, `ext2_get_inode` and `ext2_get_block` are what the code
works out, with every number cut to 16 bits where the code passes it as a
`uint16_t`. `Volume` compares the two for each group and inode. `Directory` goes
to an inode at the place `ext2_get_inode` gives for its number (`GoTo`), and to a
block at the number `ext2_get_block` makes of the pointer (`BlockRead`). That may
be another inode or another directory block, and the search goes on there; at
what is no inode, or no directory block, it is "astray", and nothing is said of
what it does from there.

| Action | Code |
|---|---|
| `Volume.ext2_server_create`, `ext2_create` | the start of the server, each system call of which may fail (`ext2_server.c:28-64`, `ext2.c:38-57`) |
| `Volume.AskGroup`, `AskInode`, `AskRoot` | `ext2_get_block_group`, `ext2_get_inode`, `ext2_get_root_inode`; `answer` is what they return |
| `Directory.Look` | `ext2_get_element_inode`, `ext2_list_dir`: the path is split |
| `Directory.FindEnds`, `FindGoesDown`, `Listed` | `ext2_find_inode`: no name left; list and go down; look for the name |
| `Directory.NextBlock` | the loop of `ext2_list_inode` |
| `Directory.NextEntry`, `BlockEnds` | the loop of `ext2_get_block_directory_entrys` |
| `BlockMap.Pass`, `Choose` | the walk of `ext2_get_inode_block_entry` over the pointers, and its end |
| `BlockMap.Descend`, `ReadLeaf` | `ext2_find_block_entry`, above and at level 0 |

Where the code reads something else as a descriptor, what it finds there is a
nondeterministic choice (`Stray`). NULL followed, or the mapping left, is the end
of the call ("fault").

### Bitarray and FreeBlocks

`Bitarray` is the bytes of a bitmap and the three operations on a bit; it
implements `BitSet`. `FreeBlocks` builds on that: a `bitmap` is the set of its
set bits. `LookInto` is one call of `ext2_get_free_blocks_in_group` with the
test of the amount behind it, `LookAtStart`, `LookLeft` and `LookRight` are the
places it is called from, `GiveUp` is the end of the loop. `searched` is a
history variable. The number of a group is cut to 16 bits as it is passed, so
that a left neighbour below 0 may be a group of the volume again. A group that
does not exist is NULL, and an `inode_size` of 0 a division by zero: both end
the search ("fault"). The search stores every set bit, wanted or not; when they
are more than the array has room for, the search is "overrun", and the behaviour
is undefined from there. Nothing calls the search but
`ext2_add_inode_free_blocks`, which nothing calls; `Starts` are the groups other
callers could start from.

### Temporal, Log, Strings

In `Temporal` an instant is a number of milliseconds. `ReadSeconds` is `time`,
`Localtime` stores into the buffer all threads share, `ReadMilliseconds` is
`ftime`, `Format` reads the buffer; the clock ticks in between. `Log` adds the
logger and, for each thread, the call it is in: `log_in_level` is any of the
five functions, `StampLine` and `TakeStamp` the stamp, `WriteFile` and
`WriteConsole` the two prints. stdio locks a stream for one print. `calls` is a
history variable. `Strings` calls the functions of `string.c` one after the
other on one string; their loops are recursive functions on a position, and the
property says without a loop what they compute.

### Limits of the client

Known limits of the client that the models show (a property below is stated
under the condition that excludes them):

- with two workers and `getattr`, `ImplementsRemoteCalls` fails: the second
  thread's dispatch runs the first's closure, sets `is_done`, the first returns
  attributes not yet filled, and the closure then stores into a frame that has
  gone;
- with two workers, `OneWorkerReturns` without its condition fails: a thread
  tests `is_done`, another thread handles its response, and the first then
  sleeps in a dispatch with nothing to come;
- a read of a missing file never returns, also with one worker: its closure
  returns before it sets `is_done`.

### Limits of the server and of the common code

Shown by the models in the same way, or written into their definitions:

- `ext2_find_block_entry` is handed the pointer block and reads the block that
  the entry numbers instead: a file beyond its direct pointers gets, for each
  further block, the first word of the boot block (`WhereEntriesLead`);
- the walk over the pointers goes on until it has passed the entry: only the
  first entry below an indirect pointer stays at it, the others go to the next
  pointer, and those below the last one leave the array;
- groups with a copy of the superblock are taken to be the multiples of 3, 5 and
  7, and their descriptor to be the first of their table, that of group 0: all
  of them but group 0 are misplaced, and `GroupsWhereTheyAre` leaves them out. An
  inode of groups 1, 3, 5 and so on is read in the table of group 0, so that a
  path to it, or through it, goes on in another inode, and may fault there
  (`PathFindsItsInode` and `FaultsOnlyOnTheWay` are stated for the paths that
  meet none: `Misread`);
- the numbers of blocks, of groups and of the group of an inode are cut to 16
  bits: a block of 65536 or more is another block, also in a directory
  (`Uncut`), and a volume of 65536 whole groups has none for the code, whose
  first request then follows NULL for the root (`WholeGroupsNeverFault` stops
  one group short of that);
- the last, shorter group of an image does not exist for the code: its inodes
  make `ext2_get_inode` follow NULL, for every path through a directory that
  names one;
- a path that goes on after the name of a file follows NULL
  (`FaultsOnlyOnTheWay`), and an entry of length 0 keeps the server in its
  block for ever;
- the free block search takes a set bit for a free block, marks nothing that
  is not marked, and numbers the blocks of every group as those of group 0:
  `ext2_get_block_group_offset` advances its index where its comments
  (`ext2.c:501-508`) count blocks;
- from group 0, the left neighbour is beyond the volume: a search that needs a
  second group follows NULL if there are four groups or more, or, on a volume of
  nearly 65536 blocks, looks into a group it has looked into and gives its
  blocks twice (`NearestFirst` is stated for neighbours inside the volume);
- on a volume of revision 0, which may leave `inode_size` 0, the search divides
  by zero at the first group (`FaultsOnlyOutside`);
- offsets and sizes beyond 4 GiB wrap: a read may then pass the end of the
  file, and a write shorten it;
- a time stamp may be of a time before the call, by up to a second, when a
  second ends between the two readings, where its comment (`temporal.c:28`)
  promises the current time;
- `string_trim` takes blanks off the left and all white space off the right,
  where its comments (`string.c:100-102`) speak of the same empty characters:
  `LoopsMeetDefinitions` says what the code does, and the run `trim_ends` shows
  that it is not what the comments say;
- `log_destroy` closes the file of a logger made without one.

## Runs

| Run | Module | Checks | Instance |
|---|---|---|---|
| `file_data` | `MCInodeData` | `TypeOK`, `NoHole`, `BootBlockKept`, `ImplementsFileContent` | dense file, 2 clusters of 2 bytes, 3 data blocks, 2 payload bytes, lengths to 3 |
| `file_blocks` | `MCInodeData` | `CopyStaysInFile`, `CopyIsAligned`, `PrefixWritten` | dense file, 3 clusters, lengths to 5 |
| `file_holes` | `MCInodeData` | `NoSharing`, `OtherBlocksKept`, `EveryCallEnds` | 2 clusters, 2 data blocks, holes, failing allocation, resizes to any size |
| `one_worker` | `FuseRpc` | `TypeOK`, `ImplementsRemoteCalls`, `OneWorkerReturns` | one thread, all four calls, a file present and one missing, 2 values |
| `two_workers` | `FuseRpc` | `ImplementsRemoteCalls` | two threads, `readdir`, `read`, `write` |
| `two_workers_getattr` | `FuseRpc` | `FrameAlive`, `EveryClosureRuns` | two threads, `getattr` and `write` of one file |
| `list_destroy_matches` | `LinkedList` | `DestroysEveryMatch` (violated) | up to 2 elements |
| `server` | `MCServer` | of `Volume`: `GroupsWhereTheyAre`, `InodesWhereTheyAre`, `WholeGroupsNeverFault`; of `Directory`: `DirectoryTypeOK`, `PathFindsItsInode`, `FaultsOnlyOnTheWay`, `ListingIsComplete`, `LookupEnds`; of `BlockMap`: `WhereEntriesLead`; of `Transfer`: `AnswerFitsBuffer`, `RightBytes`, `WritesNeverShrink` | 7 superblocks of up to 130 groups, numbers of groups and blocks below 128; 9 trees, all paths of up to 3 pieces and two of 4; 3 inodes of 5 pointers over 16 blocks; offsets and sizes of 4 and 5 bits |
| `free_blocks` | `MCFreeBlocks` | `GivenAreTheSetBits`, `NearestFirst`, `FaultsOnlyOutside`; of `Bitarray`: `CountsAgree`, `ImplementsBitSet` | all bitmaps of 6 groups of 2 bits, 5 starts, 3 amounts, 3 superblocks, numbers of groups of 3 bits; 2 bytes of 3 bits |
| `library` | `MCLibrary` | of `Log`: `EnabledCallsAreWritten`, `ConsoleIsInFile`, `NeverASecondAhead`; of `Strings`: `LoopsMeetDefinitions`; of `LinkedList`: `WalksAgree`, `NothingLost`, `ImplementsSequence` | 2 threads, 2 calls each, 2 levels, a second of 2 ticks; strings of up to 4 of 5 characters; lists of up to 3 elements, 2 data, all conditions and transformers |
| `log_level_shown` | `MCLibrary` | `ShowsLevelOfCall` (violated) | 1 thread, 1 call |
| `trim_ends` | `MCLibrary` | `TrimTakesAllSpace` (violated) | strings of up to 4 of 5 characters |

What they show:

- `file_data`: on a file without holes the block loops compute what
  `FileContent` says, with deaths at every point; no death opens a hole, and
  nothing is stored into block 0.
- `file_blocks`: in the middle of a call too, each chunk is inside the file and
  in its place, and an unfinished write has stored a prefix and nothing else.
- `file_holes`: what is left when blocks are missing or let go. Clusters still
  never share a block, and the damage of writing through a hole is to block 0
  alone. Every call ends.
- `one_worker`: the client as mounted with `-s`. Whatever the server does, a
  call that returns gives what it was served, once; `getattr` and `readdir`
  return.
- `two_workers`, `two_workers_getattr`: how much of that is left when threads
  read each other's responses.
- `list_destroy_matches`: the comment of `list_remove_and_destroy_by_condition`
  (`list.c:186`) promises that the elements that match go; the code removes the
  first one.
- `server`: what of an image the server finds where it is, and exactly which
  groups, inodes, entries and requests it does not. A path whose inodes are
  where the code looks for them leads to the one inode its names lead to, over
  removed entries of the same name and empty pieces; a listing has each live
  entry once, over holes and attribute blocks; the search ends. Whatever wraps,
  an answer fits the kernel's buffer.
- `free_blocks`: as long as its neighbours are inside the volume, the search
  looks at each group once, nearest first, and does not fault if inodes have a
  size; what it gives is the amount asked. Beyond the edge it faults or looks at
  a group again. That
  the bits of a byte are counted from the other end than on disk changes which
  blocks are named, not how many.
- `library`: no line is lost, doubled or out of its thread's order, what
  the console shows is in the file, and a stamp is never a whole second ahead
  whatever the threads mix. The splits, trims and appends others rest on are
  right for every string, also for one that another call has made. Insertions,
  removals and replacements at the first, a middle and the last position, in any
  order, keep the list a sequence.
- `log_level_shown`: the comments of the five functions (`log.c:157` and alike)
  show a line with the level of the function; the code prints the detail of the
  logger.
- `trim_ends`: the comments of the trims (`string.c:100-102`, `109-112`,
  `127-131`) speak of the same empty characters at both ends; a newline stays at
  the left.

Why the bounds are enough. Blocks of 2 bytes have every alignment that differs
to the code (start of a block, inside it, end on or off a boundary), and three
clusters give a partial first chunk, a whole middle one and a partial last one;
the loop treats every further block as the middle one. A data block more than
the clusters need lets an allocation choose; with holes or failed allocations
there is a choice already, and pointers left behind by a death could be confused
with those of the file if the code did so. The loops have no other parameter,
and the proofs below hold for all values. In `FuseRpc` calls of one thread never
overlap, so two threads give every pair of a reader of the connection and an
owner of a response; nothing in the code depends on a third. The connection
holds at most one message of each thread, so it needs no bound. A list of three
elements has a first, a middle and a last one, and two data give repeated and
different neighbours; each function touches at most two neighbouring elements.

For `server`: 13 groups contain group 0, powers (1, 3, 5, 7, 9), multiples that
are no powers (6, 10, 12) and groups that are neither. With a width of 128, the
image of 28 groups goes beyond the numbers of blocks and has a shorter last
group; those of 128 and 130 go beyond the numbers of groups. Five pointers, two
of them direct and one of each level, over blocks of two entries have every
boundary between pointers and levels that twelve and three have; the entries
asked for go three beyond the largest file. Four bits for 32 and five for 64 put
offsets and sums on both sides of each width, and the proofs hold for every
width. The trees have directories of one and two blocks, two levels below the
root, a removed entry before, between and behind live ones, and one of each
fault. In those of nine groups a path meets inodes of groups 1 (read as another
directory, or as no inode), 2 (where it is) and 6 (at a stray descriptor), and
directory blocks with a number that is cut, to another directory block or to
none.

For `free_blocks`: with six groups there are two neighbours on each side at
most, `half_groups` stops between them, and starts near both ends reach beyond
them; the neighbour left of group 0 is cut to group 1 of one volume and to no
group of another, and the third has no size of inodes. For the log: a second of
two ticks can end between any two steps of a stamp; two threads share the one
buffer. The string loops look at one character and the next one; four characters
put a separator or blank at both ends, in the middle, and twice in a row.

Bounds that are assumptions about the code's world. Of `InodeData` and the
modules on it: offsets and lengths whose sum does not wrap 32 bits (`Transfer`
has the wrap); files of at most 12 blocks, the direct pointers (`BlockMap` has
the others); requests that fit `Capacity`. Of `InodeData` and of `BlockMap`: at
most 65536 blocks (`Volume` and `Directory` have the cut of block numbers to 16
bits, `FreeBlocks` that of group numbers). Of `Directory`: direct blocks only.
The server handles a request the moment it chooses, also before the caller's
first dispatch has flushed it, which only adds behaviours. The death is that of
a process: the page cache survives it. Loss of power is not modelled.

Fairness. `InodeData`: weak fairness of the steps of a request (`Progress`):
the server's one thread runs a request to its end and waits for nothing.
Requests and deaths need not happen. `FuseRpc`: weak fairness of the steps of
each thread that can run, and of a server that is up and has a request: threads
of an operating system's scheduler, and a server loop that does nothing else.
No fairness for new calls, deaths, restarts, reconnection or late wake-ups, so
no liveness property rests on them; a thread whose dispatch has nothing to read
is not enabled and may sleep for ever. `Directory`: weak fairness of the search,
which the server's one thread runs to its end, as `MCServer` repeats;
`LookupEnds` rests on it.
`Volume`, `BlockMap`, `Transfer`, `FreeBlocks` and `Log` claim safety only and
have none.

Deadlock is checked in all runs: a state in which the client is dead still has
the server dying and starting, and where a call, a search or the logger has
ended, the specification says that it stays so (`Ended`, `WalkEnded`, `Exited`,
`Over`).

## Proofs

The theorems hold for every value of the constants that the named assumptions of
the modules allow. What these ask for is what the program or `mke2fs` sees to:

- `InodeData`, `FileOps`: any block size, 1 to 12 pointers, any device, blocks,
  payload and lengths;
- `FuseRpc`: any finite set of threads, any calls, values and files;
- `LinkedList`: any addresses, data and bound on the length; NULL is none of
  them;
- `Transfer`: any width, file and request;
- `Layout` (`WidthAssumption`, `StrayAssumption`): any width of the numbers of
  blocks and groups above 2, and any descriptors where none is;
- `Volume` (`VolumeAssumption`): any superblocks as `mke2fs` makes them
  (`MadeByMke2fs`), with any number of groups: a group has more blocks than the
  superblock, the descriptors and two bitmaps take, and no more inodes are
  counted than the groups have;
- `BlockMap`: any number of pointers, with levels that do not decrease, two or
  more entries to a block, any content of the pointer blocks within the device
  of at most 65536 blocks;
- `Directory` (`TreesAssumption`, `SizesAssumption`): any trees of directories
  that are whole, in a volume of any number of groups as `mke2fs` makes it and
  `ext2_create` counts them, and any paths. The inodes of a tree are some of the
  volume's, those of the first table among them. A directory is whole as `mke2fs`
  and the kernel leave it: each entry ends where the next one begins or its block
  does; one of length 0, in a block never written, names no inode; the sector
  count covers every block pointed to, and no more blocks than there are
  pointers; live entries name inodes that are there, no two under one name.
  Nothing is asked of what the entries lead to: loops, files in the way, holes,
  and inodes in any group, misplaced or not counted, are allowed;
- `Strings` (`StringsAssumption`): any characters and strings; `toupper` and
  `tolower` as in the C locale, in which the program stays (nothing calls
  `setlocale`): the lower case of an upper or lower case letter is that of the
  letter, and blanks are white space;
- `FreeBlocks`: as many groups as a number of that width can count, which is
  how the code counts them (`GroupsAssumption`), in any volumes of at least two
  blocks to a group and any size of inodes (`SuperblocksAssumption`), any
  bitmaps, starts and amounts; `Bitarray`: any size;
- `Log`, `Temporal`: any threads, levels, calls and length of a second.

| Module | Theorem | States |
|---|---|---|
| `InodeDataProofs` | `TypeCorrect` | `Spec => []TypeOK` |
| | `CopiesStayInFile` | `Spec => []CopyStaysInFile` |
| | `CopiesAreAligned` | `Spec => []CopyIsAligned` |
| | `DenseStaysDense` | `Spec => []NoHole` |
| | `BootBlockIsKept` | `Spec => BootBlockKept` |
| | `OtherBlocksAreKept` | `Spec => OtherBlocksKept` |
| | `NothingIsShared` | `Spec => []NoSharing` |
| | `PrefixIsWritten` | `Dense`: `Spec => []PrefixWritten` |
| | `DenseFileIsItsContent` | `Dense`: `Spec => ImplementsFileContent` |
| `FuseRpcProofs` | `RpcTypeCorrect` | `Spec => []TypeOK` |
| | `FramesAreAlive` | `Spec => []FrameAlive` |
| | `CallsAreRemoteCalls` | `OneReader`: `Spec => ImplementsRemoteCalls` |
| `LinkedListProofs` | `WalksAlwaysAgree` | `ListSpec => []WalksAgree` |
| | `NoElementIsLost` | `ListSpec => []NothingLost` |
| | `ListIsItsSequence` | `ListSpec => ImplementsSequence` |
| `ServerProofs` | `ReadFitsBuffer` | `Spec => []AnswerFitsBuffer` |
| | `ReadPassesEndOnlyWrapped` | `Spec => []OnlyWrappedReadsPassTheEnd` |
| | `BytesAreRight` | `Spec => []RightBytes` |
| | `WritesGrow` | `Spec => WritesNeverShrink` |
| | `GroupsAreFound` | `VolumeSpec => []GroupsWhereTheyAre` |
| | `InodesAreFound` | `VolumeSpec => []InodesWhereTheyAre` |
| | `WholeGroupsAreSafe` | `VolumeSpec => []WholeGroupsNeverFault` |
| | `VolumeTypeCorrect` | `VolumeSpec => []VolumeTypeOK` |
| | `EntriesLeadThere` | `MapSpec => []WhereEntriesLead` |
| | `MapTypeCorrect` | `MapSpec => []MapTypeOK` |
| `DirectoryProofs` | `PathsLeadThere` | `DirectorySpec => []PathFindsItsInode` |
| | `ListingsAreComplete` | `DirectorySpec => []ListingIsComplete` |
| | `FaultsAreOnTheWay` | `DirectorySpec => []FaultsOnlyOnTheWay` |
| | `TypeCorrect` | `DirectorySpec => []DirectoryTypeOK` |
| `FreeBlocksProofs` | `GivenBlocksAreSetBits` | `Spec => []GivenAreTheSetBits` |
| | `SearchIsNearestFirst` | `Spec => []NearestFirst` |
| | `SearchFaultsOnlyOutside` | `Spec => []FaultsOnlyOutside` |
| | `BitsAreCounted` | `BitarraySpec => []CountsAgree` |
| | `BitArrayIsASet` | `CharBit = 8`: `BitarraySpec => ImplementsBitSet` |
| `LogProofs` | `ConsoleFollowsFile` | `Spec => []ConsoleIsInFile` |
| | `StampsAreNotAhead` | `Spec => []NeverASecondAhead` |
| | `LinesAreWritten` | `Spec => []EnabledCallsAreWritten` |
| `StringsProofs` | `LoopsAreRight` | `StringsSpec => []LoopsMeetDefinitions` |

A name before a colon is a hypothesis of the theorem. `Dense` is the constant of
`InodeData` that keeps it to files without holes; with holes two entries of a
file are both block 0, and neither property is to be expected. `OneReader` is
one worker, or several that make no `getattr`: with two workers and `getattr`
the refinement fails (see Limits). The run of `Bitarray` has bytes of 3 bits,
which are other bytes than those of the theorem and keep its state small.

The arguments, module by module.

`InodeData`. `CopyStaysInFile` does not follow from itself: that a chunk is in
the file needs to know where the loop is and how large the file was made. The
inductive invariant is `IInv`, the conjunction of `TypeOK`; `BuffOK` (a write
has a byte for each of its places, so that what it stores is a byte); `LoopOK`
(block number and offset inside the block are those of `off + size_copied`, and
the chunk ends with the block or with the call); `Fits` (once copying, the call
ends within the clusters of the size); and `AtRest` (an idle server has copied
nothing). `Invariance` proves `Spec => []IInv`, with one lemma for each action.
`NoHole` needs one thing more, that a dense file only grows (`GrowsOnly`): then
the clusters a resize attaches are all those between the old size and the new.
Store by store, `BootBlockKept` and `OtherBlocksKept` follow from where the
chunk's target is. `NoSharing` speaks of one size, the one a resize is heading
for between its two steps; a death brings back the other one, so the invariant
`SInv` says it of both. The arithmetic (`ClustersBounds`, `DivisionBounds`, ...)
is stated once and cited.

The refinement of `FileContent` compares a request with the file as it found it.
`CInv` says what has become of it at each point: before the first chunk nothing
(`Kept`), in the loop of a read the bytes up to `size_copied` (`ReadSoFar`), in
that of a write the prefix and no other byte (`WrittenSoFar`, which contains
`PrefixWritten`). One store changes one place of the file because no two
clusters are one block (`SInv`) and none is missing (`HInv`); the step that ends
the loop, or a death, is the abstract step.

`FuseRpc`. `FrameAlive` bounds the messages of one call by counting them. The
invariant `RpcInv` says it pairwise, of any two messages wherever they are (the
connection, or the batch some thread has read), which is what one step can be
seen to keep: a message moves, or a new one is made when there was none.
For the calls, `HeldInv` adds what each message in transit or closure under way
will give: the answer that was served for the call, once. Under `OneReader` the
only closure that fills its frame after setting `is_done` has no other thread to
overtake it.

`LinkedList`. `ListInv` has a sequence of elements without repetition, each
leading to the next and the last to NULL, that is all there is in the heap and
as long as `elements_count` says. There is only one way to follow `next`
(`OneWay`), so the sequence is what the code meets by `next` (`WalkIs`) and, by
induction on the index, what it meets by counting (`ElementAt`). Each call makes
a longer chain of it (`Inserted`), a shorter one (`Without`, `Shortened`), or
one with other data (`Replaced`), and the data along the new chain are those of
`InsertAt`, `RemoveAt`, `SubSeq` or `ReplaceAt` on the old ones (`Insertion`,
`Removal`). What `list_take_and_remove` takes and leaves is an induction on the
removals it makes (`RemovedFirstIs`). `ListStep` puts the calls together, for
the invariant and for the refinement at once.

`Transfer`. Its properties say nothing of where the request and the bytes
touched come from. The invariant `TInv` does: the request is what was asked, cut
to the width, and the bytes are those `size_to_read` gives for it. The rest is
arithmetic (`Cut`, `ReadSize`, `WriteSize`) and the size of an interval
(`BytesInFile`).

`Volume`. In `VolumeInv` the answer is one to the last question. That it is
right is arithmetic: rounding up (`RoundedUp`) gives groups of which all but the
last end inside the volume; a cut takes a number below the width to itself and
makes none larger (`CutTo16`), so that the groups counted are some of those that
are there; the groups with a superblock, 0, 1 and the powers of 3, 5 and 7, are
among the multiples the code tests for (`CopyGroups`), so that what is no such
multiple is read as it is laid out; and number and place in a table are quotient
and remainder (`Quotient`, `BelowQuotient`).

`BlockMap`. `MapInv` says that the walk has counted the blocks of the pointers
it passed, that all but the last of these do not reach the entry (`WalkOK`), and
that nothing is left of the entry at level 0 (`DescentOK`): the code divides by
1 to get there. So whatever is found through a pointer block is the first word
of block 0 (`ResultOK`), which is what `WhereEntriesLead` states. The blocks
below a number of pointers are a recursive function; that they only grow is
proved by induction, from the least natural number of a set (`LeastNatural`).

`FreeBlocks`. The i-th group of a search is known from i alone (`Neighbour`),
and `SearchInv` says that each group looked into is that of its turn, or, where
this one is outside the volume, some group, and the blocks so far are those of
their set bits. While all turns are inside (`Inside`), nothing is cut, and no
group comes twice. That a search faults only beyond the edge needs groups of two
blocks or more, since `half_groups` is compared with block numbers. In
`Bitarray` the bits of a byte are counted from the other end than on disk: a
reflection, which maps the set bits of one count to those of the other one to
one. That setting and cleaning a bit leaves the others needs what a mask does to
the bit of another mask, linear arithmetic once the masks are numbers.

`Log`. `StampInv` adds to `NeverASecondAhead` that every second that may get
into a stamp has begun: those read, and that in the shared buffer. `LogInv` adds
to `ConsoleIsInFile` that a thread between its two prints has its line in the
file, and that the line stays as it is: its stamp is not worked on (`at` is
"out"), and the other threads have stamps of their own. `LinesInv` says for each
thread and sink which of its calls have a line there while one is in progress.

`Directory`. What a path leads to is defined without the code, name by name from
the root (`Names`, `Leads`), and what a directory holds as a set of entries. The
place that `ext2_get_inode` gives for an inode that is read right is its own, and
no other inode's (`GoesThere`); for any other it is some inode, a fault or no
inode (`GoesSomewhere`). The invariant `DirInv` joins the two searches: the names
found so far lead to one inode, the one in hand, unless one of those on the way
is misread (`WayOK`), and the list has the entries at the live places
that the scan has passed, each once (`ScanOK`, `Passed`). One step of the scan
passes one place at most, since no entry begins inside another (`BeforeNext`);
at the end of the last block all are passed (`BeforeAll`). Then the first entry
of the next name is the only one (`FirstNamedIs`, `ChildrenListed`), so the names
lead on to its inode and no other. That `string_split` gives the names that are
not empty, in their order, is an induction on the pieces (`SplitIs`,
`SplitGivesNames`). The trees are never asked to be free of cycles: a path is
finite, and each name uses it up.

`Strings`. A loop is a recursive function on a position, and TLAPS knows nothing
of such a function but that it is *some* value with its equation, if there is
one. So each proof begins with existence: of loops that go on from a position
and stop at the first character that is not of a kind, by giving what they come
to (`ForwardExists`, `FirstExists`); of those that come back from the end, and
of `string_split`, which jumps, by induction on how much of the string is left
(`BackwardExists`, `SplitExists`). The equation then says where they stop
(`ForwardIs`, `BackwardIs`), and `RunsFrom` what the split has from a position
on: a position between two runs is passed over, or a run begins there and is put
before those behind it (`RunsOverSeparator`, `RunsOverPiece`). A call says
nothing of earlier ones, so the invariant (`TextInv`) needs only that strings
are strings. Induction itself is a lemma about sets of numbers (`Induction`,
from `LeastNatural`), which needs no theorem with an operator as parameter.

Only model-checked is liveness (`EveryCallEnds`, `OneWorkerReturns`,
`EveryClosureRuns`, `LookupEnds`), which is out of the prover's reach, and the
three runs that end in a violation, which show a counterexample and have nothing
to prove.

## Not modelled

- The client's `main`: it connects and hands over to libfuse, the initial state
  of `FuseRpc`.
- The generated RPC code and its packing; the messages are records.
- `fuse_ext2_open`, which returns 0; `error_show`, which prints.
- `string_duplicate` (`strdup`) and `string_iterate_lines` (calls the caller's
  closure on each string), which do nothing else.
- The wording of a log line, and messages longer than its buffer of 1024
  characters; memory that cannot be had, apart from the logger's own.
- `ext2_add_clusters` and `ext2_remove_clusters`, called and defined nowhere,
  are modelled as what their names and their caller ask of them.
- Directories with indirect blocks: an entry beyond the direct ones is what
  `BlockMap` says, a word of the boot block.

## What could come next

Every invariant, action property and refinement that a run checks is proved, and
the type invariants of `Volume` and `BlockMap`, which no run lists, besides. The
model itself could still grow by directories with indirect blocks, which would
put `BlockMap` under `Directory`.
