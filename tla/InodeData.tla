------------------------------- MODULE InodeData -------------------------------
(******************************************************************************)
(* Reading, writing and resizing the data of one inode, block by block:       *)
(* ext2_read_inode_data, ext2_write_inode_data and ext2_resize_inode_data of  *)
(* ext2.c, called by ext2_service__read and ext2_service__write of the        *)
(* server, which runs one request at a time.                                  *)
(*                                                                            *)
(* The device is a shared mapping of the image file, so what the process has  *)
(* stored survives its death: Crash ends the process between two stores, or   *)
(* inside a memcpy, and the next request is served by a new process that      *)
(* finds the device as it was left.                                           *)
(*                                                                            *)
(* ext2_add_clusters and ext2_remove_clusters are called by                   *)
(* ext2_resize_inode_data and defined nowhere in the repository: the two      *)
(* external actions below model them from that use.                           *)
(******************************************************************************)
EXTENDS FileOps, FiniteSets

CONSTANTS
  Direct,         \* number of block pointers of the inode in use (12 direct ones)
  BlockCount,     \* superblock->blockcount
  DataBlocks,     \* blocks that this file holds or may be given
  Byte,           \* what a byte can hold
  Payload,        \* what the bytes of a write can hold
  InitialDevices, \* device contents to start from
  MaxLength,      \* longest read or write asked for
  ResizeArgs,     \* sizes asked of ext2_resize_inode_data by callers of the library
  Sparse          \* TRUE: the file may have holes, and ext2_add_clusters may fail

Blocks == 0 .. BlockCount - 1
Offsets == 0 .. BlockSize - 1
Pointers == 0 .. Direct - 1
Capacity == Direct * BlockSize

(******************************************************************************)
(* A block number fits the uint16_t that ext2_get_block takes, and block 0    *)
(* (boot block and superblock) is never a data block.                         *)
(******************************************************************************)
ASSUME DirectAssumption == Direct \in 1 .. 12
ASSUME BlockCountAssumption == BlockCount \in Nat \ {0} /\ BlockCount <= 65536
ASSUME LengthAssumption == MaxLength \in Nat
ASSUME SparseAssumption == Sparse \in BOOLEAN
ASSUME BlocksAssumption == DataBlocks \subseteq Blocks \ {0}
ASSUME PayloadAssumption == Payload \subseteq Byte
ASSUME DevicesAssumption == InitialDevices \subseteq [Blocks -> [Offsets -> Byte]]
ASSUME ResizeAssumption == ResizeArgs \subseteq 0 .. Capacity

VARIABLES
  device,       \* fs->device: what each block holds
  size,         \* inode->size
  block,        \* inode->block[]: block numbers, 0 for none
  pc,           \* where the request in progress is
  op,           \* "none", "read", "write" or "resize"
  off, len,     \* offset, and size / size_to_copy, of the call
  goal,         \* new_size, of the resize in progress
  buff,         \* what a write stores, or what a read has got so far
  blocks_offset, offset_inside_block, block_size_to_copy, size_copied,
  before        \* history: size and content when the request came, length wanted

inode == <<size, block>>
loop == <<blocks_offset, offset_inside_block, block_size_to_copy, size_copied>>
call == <<op, off, len, goal, before>>
vars == <<device, inode, pc, call, buff, loop>>

Empty == [i \in {} |-> 0]
NoCall == [size |-> 0, bytes |-> Empty, want |-> 0]

--------------------------------------------------------------------------------
(******************************************************************************)
(* Addresses.                                                                 *)
(******************************************************************************)
NullBlock == -1

\* The argument is a uint16_t; a block at or beyond blockcount is NULL.
ext2_get_block(block_number) ==
  LET n == block_number % 65536
  IN  IF BlockCount <= n THEN NullBlock ELSE n

\* The block data_to_copy points into.
Target == ext2_get_block(block[blocks_offset])

\* What the file holds, seen through its block pointers.
Content ==
  [p \in 0 .. Clusters(size) * BlockSize - 1 |->
     device[ext2_get_block(block[p \div BlockSize])][p % BlockSize]]

\* Blocks attached below the size: not to be given away again.
Held == {block[k] : k \in 0 .. Clusters(size) - 1} \ {0}

\* Mutated form: free blocks are looked for without looking at the block bitmap.
AnyBlock == DataBlocks

Free == DataBlocks \ Held

--------------------------------------------------------------------------------
(******************************************************************************)
(* A request arrives.                                                         *)
(******************************************************************************)
MinOf(a, b) == IF a < b THEN a ELSE b

\* Mutated form: the first chunk forgets the offset inside the block.
FirstChunkWhole(o, n) == MinOf(BlockSize, n)

\* block_size_to_copy before the loop.
FirstChunk(o, n) == MinOf(BlockSize - (o - (o \div BlockSize) * BlockSize), n)

\* The local variables set up before the loop, the same in both functions.
Locate(o, n) ==
  /\ blocks_offset' = o \div BlockSize
  /\ offset_inside_block' = o - (o \div BlockSize) * BlockSize
  /\ block_size_to_copy' = FirstChunk(o, n)
  /\ size_copied' = 0

Arrive(kind, o, n, new_size, want) ==
  /\ pc = "idle"
  /\ op' = kind
  /\ off' = o
  /\ len' = n
  /\ goal' = new_size
  /\ before' = [size |-> size, bytes |-> Content, want |-> want]
  /\ UNCHANGED <<device, inode>>

(******************************************************************************)
(* ext2_service__read: an offset beyond the size is answered at once with no  *)
(* data; otherwise the length is clamped and ext2_read_inode_data entered.    *)
(******************************************************************************)
StartRead(o, length) ==
  LET n == ReadLength(size, o, length) IN
  /\ Arrive("read", o, n, size, length)
  /\ buff' = Empty
  /\ IF o > size THEN pc' = "done" /\ UNCHANGED loop
                 ELSE pc' = "copy" /\ Locate(o, n)

\* Mutated form: the write forgets to resize.
NeverResizes(o, n) == FALSE

\* The write ends beyond the size, and in another cluster.
Resizes(o, n) == o + n > size /\ Clusters(o + n) # Clusters(size)

(******************************************************************************)
(* ext2_service__write and the head of ext2_write_inode_data: a write that    *)
(* ends beyond the size calls ext2_resize_inode_data, which does nothing when *)
(* the number of clusters stays the same.                                     *)
(******************************************************************************)
StartWrite(o, n, data) ==
  /\ Arrive("write", o, n, o + n, n)
  /\ buff' = data
  /\ Locate(o, n)
  /\ pc' = IF Resizes(o, n) THEN "clusters" ELSE "copy"

(******************************************************************************)
(* ext2_resize_inode_data called on its own.  With the same number of         *)
(* clusters it returns at once and changes nothing.                           *)
(******************************************************************************)
StartResize(new_size) ==
  /\ Clusters(new_size) # Clusters(size)
  /\ Arrive("resize", 0, 0, new_size, 0)
  /\ pc' = "clusters"
  /\ UNCHANGED <<buff, loop>>

--------------------------------------------------------------------------------
(******************************************************************************)
(* ext2_resize_inode_data.                                                    *)
(******************************************************************************)

\* Mutated form: one cluster is added, however many are missing.
AddOneCluster ==
  /\ pc = "clusters"
  /\ Clusters(goal) > Clusters(size)
  /\ \E b \in Free : block' = [block EXCEPT ![Clusters(size)] = b]
  /\ pc' = "size"
  /\ UNCHANGED <<device, size, call, buff, loop>>

(******************************************************************************)
(* ext2_add_clusters (external): the clusters missing get distinct free       *)
(* blocks, whose old bytes are still there.  Its outcome is not looked at by  *)
(* the caller, so a failure leaves pointers at 0 and the resize goes on.      *)
(******************************************************************************)
ext2_add_clusters ==
  /\ pc = "clusters"
  /\ Clusters(goal) > Clusters(size)
  /\ \E f \in [Clusters(size) .. Clusters(goal) - 1 ->
                 Free \cup (IF Sparse THEN {0} ELSE {})] :
       /\ \A i, j \in DOMAIN f : i # j /\ f[i] = f[j] => f[i] = 0
       /\ block' = [k \in Pointers |-> IF k \in DOMAIN f THEN f[k] ELSE block[k]]
  /\ pc' = "size"
  /\ UNCHANGED <<device, size, call, buff, loop>>

\* ext2_remove_clusters (external): the clusters beyond the new size are let go.
ext2_remove_clusters ==
  /\ pc = "clusters"
  /\ Clusters(goal) < Clusters(size)
  /\ block' = [k \in Pointers |-> IF k < Clusters(goal) THEN block[k] ELSE 0]
  /\ pc' = "size"
  /\ UNCHANGED <<device, size, call, buff, loop>>

\* inode->size = new_size, the last statement of the resize.
AssignSize ==
  /\ pc = "size"
  /\ size' = goal
  /\ pc' = IF op = "write" THEN "copy" ELSE "done"
  /\ UNCHANGED <<device, block, call, buff, loop>>

--------------------------------------------------------------------------------
(******************************************************************************)
(* The copying loops.                                                         *)
(******************************************************************************)

\* Mutated form: a whole block is taken although less is asked for.
NextChunkWhole(copied) == BlockSize

\* block_size_to_copy after an iteration.
NextChunk(copied) ==
  IF copied + BlockSize <= len THEN BlockSize ELSE len - copied

\* Mutated form: the offset inside the block is not reset.
AdvanceKeepingOffset ==
  LET copied == size_copied + block_size_to_copy IN
  /\ size_copied' = copied
  /\ IF copied < len
       THEN /\ blocks_offset' = blocks_offset + 1
            /\ block_size_to_copy' = NextChunk(copied)
            /\ pc' = "copy"
       ELSE /\ pc' = "done"
            /\ UNCHANGED <<blocks_offset, block_size_to_copy>>
  /\ UNCHANGED <<inode, call, offset_inside_block>>

\* The second half of the body, and the condition of the do-while.
Advance ==
  LET copied == size_copied + block_size_to_copy IN
  /\ size_copied' = copied
  /\ IF copied < len
       THEN /\ blocks_offset' = blocks_offset + 1
            /\ offset_inside_block' = 0
            /\ block_size_to_copy' = NextChunk(copied)
            /\ pc' = "copy"
       ELSE /\ pc' = "done"
            /\ UNCHANGED <<blocks_offset, offset_inside_block, block_size_to_copy>>
  /\ UNCHANGED <<inode, call>>

\* Mutated form: buff is not advanced by what has been copied.
InBuffFromStart(i) == i - offset_inside_block

\* The place in buff of the byte at i of the target block, and whether this
\* iteration copies it.
InBuff(i) == size_copied + i - offset_inside_block

\* Mutated form: the last byte of the chunk is left out.
InChunkOneShort(i) ==
  offset_inside_block <= i /\ i < offset_inside_block + block_size_to_copy - 1

InChunk(i) == offset_inside_block <= i /\ i < offset_inside_block + block_size_to_copy

\* What the device holds once the bytes at the places in S have been stored.
Stored(S) ==
  IF S = {} THEN device
  ELSE [device EXCEPT ![Target] =
          [i \in Offsets |-> IF i \in S THEN buff[InBuff(i)] ELSE @[i]]]

Chunk == {i \in Offsets : InChunk(i)}

CopyRead ==
  /\ pc = "copy" /\ op = "read"
  /\ buff' = [b \in 0 .. size_copied + block_size_to_copy - 1 |->
                IF b < size_copied THEN buff[b]
                ELSE device[Target][offset_inside_block + b - size_copied]]
  /\ Advance
  /\ UNCHANGED device

CopyWrite ==
  /\ pc = "copy" /\ op = "write"
  /\ device' = Stored(Chunk)
  /\ Advance
  /\ UNCHANGED buff

--------------------------------------------------------------------------------
\* The stack frame of the request is gone.
Forget ==
  /\ pc' = "idle"
  /\ op' = "none" /\ off' = 0 /\ len' = 0 /\ goal' = 0 /\ buff' = Empty
  /\ blocks_offset' = 0 /\ offset_inside_block' = 0
  /\ block_size_to_copy' = 0 /\ size_copied' = 0
  /\ before' = NoCall

\* Mutated form: a call that copied nothing is never answered.
ReturnIfCopied ==
  /\ pc = "done" /\ size_copied > 0
  /\ Forget
  /\ UNCHANGED <<device, inode>>

\* closure(&response, closure_data): the response is handed over.
Return ==
  /\ pc = "done"
  /\ Forget
  /\ UNCHANGED <<device, inode>>

\* The process dies; a memcpy under way has stored any part of its chunk.
Crash ==
  /\ pc # "idle"
  /\ \E S \in SUBSET (IF pc = "copy" /\ op = "write" THEN Chunk ELSE {}) :
       device' = Stored(S)
  /\ Forget
  /\ UNCHANGED inode

Init ==
  /\ device \in InitialDevices
  /\ size \in 0 .. Capacity
  /\ block \in [Pointers -> DataBlocks \cup {0}]
  /\ \A k \in Pointers :
       /\ block[k] = 0 <=> k >= Clusters(size) \/ (Sparse /\ block[k] = 0)
       /\ \A j \in Pointers : j # k /\ block[j] = block[k] => block[k] = 0
  /\ pc = "idle"
  /\ op = "none" /\ off = 0 /\ len = 0 /\ goal = 0 /\ buff = Empty
  /\ blocks_offset = 0 /\ offset_inside_block = 0
  /\ block_size_to_copy = 0 /\ size_copied = 0
  /\ before = NoCall

Request ==
  \/ \E o \in 0 .. Capacity, n \in 0 .. MaxLength :
       \/ StartRead(o, n)
       \/ o + n <= Capacity /\ \E data \in [0 .. n - 1 -> Payload] : StartWrite(o, n, data)
  \/ \E s \in ResizeArgs : StartResize(s)

Progress ==
  \/ ext2_add_clusters \/ ext2_remove_clusters \/ AssignSize
  \/ CopyRead \/ CopyWrite \/ Return

Next == Request \/ Progress \/ Crash

(******************************************************************************)
(* The server runs a request to its end without waiting for anything, so its  *)
(* steps are weakly fair; requests and crashes need not happen.               *)
(******************************************************************************)
Spec == Init /\ [][Next]_vars /\ WF_vars(Progress)

--------------------------------------------------------------------------------
(******************************************************************************)
(* Properties.                                                                *)
(******************************************************************************)
TypeOK ==
  /\ device \in [Blocks -> [Offsets -> Byte]]
  /\ size \in 0 .. Capacity
  /\ block \in [Pointers -> DataBlocks \cup {0}]
  /\ pc \in {"idle", "clusters", "size", "copy", "done"}
  /\ op \in {"none", "read", "write", "resize"}
  /\ off \in 0 .. Capacity
  /\ len \in 0 .. MaxLength
  /\ goal \in 0 .. Capacity
  /\ blocks_offset \in 0 .. Direct
  /\ offset_inside_block \in Offsets
  /\ block_size_to_copy \in 0 .. BlockSize
  /\ size_copied \in 0 .. len

(******************************************************************************)
(* Every memcpy stays inside one block of the file: its pointer is one of the *)
(* clusters below the size (the resize came first), its bytes end inside the  *)
(* block, and it reads or fills no more of buff than the call has.            *)
(******************************************************************************)
CopyStaysInFile ==
  pc = "copy" /\ block_size_to_copy > 0 =>
    /\ blocks_offset < Clusters(size)
    /\ Target # NullBlock
    /\ offset_inside_block + block_size_to_copy <= BlockSize
    /\ size_copied + block_size_to_copy <= len

(******************************************************************************)
(* The loop is where it should be: each byte of buff goes to, or comes from,  *)
(* its own place in the file (off + its index), whatever the alignment.       *)
(******************************************************************************)
CopyIsAligned ==
  pc = "copy" =>
    blocks_offset * BlockSize + offset_inside_block = off + size_copied

(******************************************************************************)
(* No two clusters of the file ever share a block, also after a crash left    *)
(* pointers beyond the size behind (ext2.c:344-353).                          *)
(******************************************************************************)
NoSharing ==
  \A i, j \in 0 .. Clusters(IF pc = "size" THEN goal ELSE size) - 1 :
    i # j /\ block[i] = block[j] => block[i] = 0

\* The file starts without holes, gets all the blocks it asks for, and is never
\* shrunk.
Dense == ~Sparse /\ ResizeArgs = {}

(******************************************************************************)
(* A dense file keeps a block for each cluster: the clusters are attached     *)
(* before the size is assigned, so no crash opens a hole.  A hole is fatal:   *)
(* its pointer, 0, is the address of the boot block and the superblock.       *)
(* (Shrinking does the two steps in the same order, and does open holes.)     *)
(******************************************************************************)
NoHole ==
  Dense =>
    \A k \in 0 .. Clusters(IF pc = "size" THEN goal ELSE size) - 1 : block[k] # 0

(******************************************************************************)
(* Nothing stores into block 0 on behalf of a dense file.                     *)
(******************************************************************************)
BootBlockKept == [][Dense => device'[0] = device[0]]_vars

(******************************************************************************)
(* A write in progress has stored the prefix of its data that size_copied     *)
(* says and nothing else: the rest of the file is as it was.                  *)
(******************************************************************************)
PrefixWritten ==
  pc = "copy" /\ op = "write" =>
    \A p \in DOMAIN Content :
      IF off <= p /\ p < off + size_copied THEN Content[p] = buff[p - off]
      ELSE p \in DOMAIN before.bytes => Content[p] = before.bytes[p]

(******************************************************************************)
(* Blocks that belong to other files or to the file system keep their bytes,  *)
(* except that a hole stands for block 0.                                     *)
(******************************************************************************)
OtherBlocksKept ==
  [][\A b \in Blocks \ (Held \cup {0}) : device'[b] = device[b]]_vars

(******************************************************************************)
(* Every request is answered, unless the process dies: the loops end.         *)
(******************************************************************************)
EveryCallEnds == pc # "idle" ~> pc = "idle"

(******************************************************************************)
(* Reads and writes of a file without holes are those of FileContent: a read  *)
(* gets the bytes and the length it should, a write stores its data and       *)
(* nothing else, and a crash leaves each byte old or new.                     *)
(******************************************************************************)
Abstract == INSTANCE FileContent WITH
  size  <- IF pc \in {"idle", "done"} THEN size ELSE before.size,
  bytes <- IF pc \in {"idle", "done"} THEN Content ELSE before.bytes,
  phase <- IF pc \in {"idle", "done"} THEN pc ELSE "busy",
  want  <- before.want,
  input <- IF op = "write" THEN buff ELSE Empty,
  answer <- IF op = "read" /\ pc = "done" THEN buff ELSE Empty

ImplementsFileContent == Abstract!Spec
================================================================================
