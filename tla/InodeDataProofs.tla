---------------------------- MODULE InodeDataProofs ----------------------------
(******************************************************************************)
(* Proofs about InodeData, for every block size, number of pointers, set of   *)
(* blocks and device content: its type invariant; that no copy leaves the     *)
(* file or, without holes, reaches block 0, nor any two of its clusters share *)
(* a block; and that a dense file is read and written as FileContent says.    *)
(*                                                                            *)
(* CopyStaysInFile is not inductive: that a chunk is inside the file follows  *)
(* from where the loop is (LoopOK) and from the size the resize left (Fits),  *)
(* and the type of device from the domain of buff (BuffOK).                   *)
(******************************************************************************)
EXTENDS InodeData, TLAPS

--------------------------------------------------------------------------------
(******************************************************************************)
(* Arithmetic of blocks and clusters.                                         *)
(******************************************************************************)

LEMMA DivisionBounds ==
  ASSUME NEW n \in Nat
  PROVE  /\ n \div BlockSize \in Nat
         /\ (n \div BlockSize) * BlockSize <= n
         /\ n < (n \div BlockSize) * BlockSize + BlockSize
BY BlockSizeAssumption

LEMMA ProductOrder ==
  ASSUME NEW a \in Int, NEW b \in Int, a * BlockSize < b * BlockSize
  PROVE  a < b
BY BlockSizeAssumption

LEMMA ClustersBounds ==
  ASSUME NEW n \in Nat
  PROVE  /\ Clusters(n) \in Nat
         /\ n <= Clusters(n) * BlockSize
         /\ Clusters(n) * BlockSize < n + BlockSize
<1>1. n + BlockSize - 1 \in Nat
  BY BlockSizeAssumption
<1>2. QED
  BY <1>1, DivisionBounds, BlockSizeAssumption DEF Clusters

LEMMA ClustersOfCapacity ==
  ASSUME NEW n \in 0 .. Capacity
  PROVE  Clusters(n) \in 0 .. Direct
<1>1. n \in Nat /\ Capacity \in Nat /\ n <= Direct * BlockSize
  BY BlockSizeAssumption, DirectAssumption DEF Capacity
<1>2. Clusters(n) \in Nat /\ Clusters(n) * BlockSize < n + BlockSize
  BY <1>1, ClustersBounds
<1>3. Clusters(n) * BlockSize < (Direct + 1) * BlockSize
  BY <1>1, <1>2, BlockSizeAssumption, DirectAssumption
<1>4. Clusters(n) < Direct + 1
  BY <1>2, <1>3, ProductOrder, DirectAssumption
<1>5. QED
  BY <1>2, <1>4, DirectAssumption

--------------------------------------------------------------------------------
(******************************************************************************)
(* The inductive invariant.                                                   *)
(******************************************************************************)

\* What a write stores: a byte for each of its places.
BuffOK == op = "write" => buff \in [0 .. len - 1 -> Payload]

\* The loop variables are set for a copy, under way or to come.
Looping == pc = "copy" \/ (pc \in {"clusters", "size"} /\ op = "write")

\* The chunk starts where the bytes already copied end, and is the rest of the
\* block or the rest of the call, whichever is shorter.
LoopOK ==
  Looping =>
    /\ blocks_offset * BlockSize + offset_inside_block = off + size_copied
    /\ block_size_to_copy = MinOf(BlockSize - offset_inside_block, len - size_copied)

\* The file has, or will have after the resize, clusters for the whole call.
Fits ==
  /\ pc = "copy" => off + len <= Clusters(size) * BlockSize
  /\ pc \in {"clusters", "size"} /\ op = "write" => goal = off + len

\* No bytes are counted as copied before a request comes.
AtRest == pc = "idle" => size_copied = 0

IInv == TypeOK /\ BuffOK /\ LoopOK /\ Fits /\ AtRest

LEMMA Constants ==
  /\ BlockSize \in Nat \ {0} /\ Direct \in Nat \ {0} /\ MaxLength \in Nat
  /\ Capacity \in Nat /\ 0 \in Offsets
BY BlockSizeAssumption, DirectAssumption, LengthAssumption DEF Capacity, Offsets

\* The block numbers a pointer can hold are addresses of blocks of the device.
LEMMA Addressable ==
  /\ DataBlocks \cup {0} \subseteq Blocks
  /\ \A b \in DataBlocks \cup {0} : ext2_get_block(b) = b
<1>1. DataBlocks \cup {0} \subseteq Blocks
  BY BlocksAssumption, BlockCountAssumption DEF Blocks
<1>2. ASSUME NEW b \in Blocks PROVE ext2_get_block(b) = b
  BY BlockCountAssumption DEF Blocks, ext2_get_block
<1>3. QED
  BY <1>1, <1>2

LEMMA InitIInv == Init => IInv
<1> SUFFICES ASSUME Init PROVE IInv
  OBVIOUS
<1>1. device \in [Blocks -> [Offsets -> Byte]]
  <2>1. device \in InitialDevices
    BY Zenon DEF Init
  <2>2. QED
    BY <2>1, DevicesAssumption
<1>2. /\ size \in 0 .. Capacity
      /\ block \in [Pointers -> DataBlocks \cup {0}]
  BY DEF Init
<1>3. pc = "idle" /\ op = "none" /\ size_copied = 0
  BY DEF Init
<1>4. /\ off \in 0 .. Capacity /\ len \in 0 .. MaxLength /\ goal \in 0 .. Capacity
      /\ blocks_offset \in 0 .. Direct /\ offset_inside_block \in Offsets
      /\ block_size_to_copy \in 0 .. BlockSize /\ size_copied \in 0 .. len
  BY Constants DEF Init
<1>5. TypeOK
  BY <1>1, <1>2, <1>3, <1>4 DEF TypeOK
<1>6. QED
  BY <1>3, <1>5 DEF IInv, BuffOK, LoopOK, Looping, Fits, AtRest

\* Where the first chunk of a call at o begins, and how long it is.
LEMMA Located ==
  ASSUME TypeOK, NEW o \in 0 .. Capacity, NEW n \in 0 .. MaxLength,
         Locate(o, n)
  PROVE  /\ blocks_offset' \in 0 .. Direct
         /\ offset_inside_block' \in Offsets
         /\ block_size_to_copy' \in 0 .. BlockSize
         /\ size_copied' = 0
         /\ blocks_offset' * BlockSize + offset_inside_block' = o
         /\ block_size_to_copy' = MinOf(BlockSize - offset_inside_block', n)
<1>1. /\ o \div BlockSize \in Nat
      /\ (o \div BlockSize) * BlockSize <= o
      /\ o < (o \div BlockSize) * BlockSize + BlockSize
  BY DivisionBounds, Constants
<1>2. (o \div BlockSize) * BlockSize < (Direct + 1) * BlockSize
  BY <1>1, Constants DEF Capacity
<1>3. o \div BlockSize \in 0 .. Direct
  BY <1>1, <1>2, ProductOrder, Constants
<1>4. o - (o \div BlockSize) * BlockSize \in Offsets
  BY <1>1, Constants DEF Offsets
<1>5. QED
  BY <1>3, <1>4, Constants DEF Locate, FirstChunk, MinOf, Offsets

LEMMA ReadLengthBounds ==
  ASSUME NEW s \in Nat, NEW o \in Nat, NEW n \in 0 .. MaxLength
  PROVE  /\ ReadLength(s, o, n) \in 0 .. n
         /\ o <= s => o + ReadLength(s, o, n) <= s
BY Constants DEF ReadLength

LEMMA StartReadIInv ==
  ASSUME IInv, NEW o \in 0 .. Capacity, NEW n \in 0 .. MaxLength, StartRead(o, n)
  PROVE  IInv'
<1> DEFINE m == ReadLength(size, o, n)
<1>1. /\ m \in 0 .. n /\ m \in 0 .. MaxLength
      /\ o <= size => o + m <= size
  <2>1. size \in Nat /\ o \in Nat
    BY Constants DEF IInv, TypeOK
  <2>2. m \in 0 .. n /\ (o <= size => o + m <= size)
    BY <2>1, ReadLengthBounds
  <2>3. QED
    BY <2>2, Constants
<1>2. /\ UNCHANGED <<device, size, block>>
      /\ op' = "read" /\ off' = o /\ len' = m /\ goal' = size
  BY DEF StartRead, Arrive, inode
<1>3. CASE o > size
  <2>1. pc' = "done" /\ UNCHANGED <<blocks_offset, offset_inside_block, block_size_to_copy>>
        /\ size_copied' = size_copied
    BY <1>3 DEF StartRead, loop
  <2>2. pc = "idle"
    BY DEF StartRead, Arrive
  <2>3. TypeOK'
    BY <1>1, <1>2, <2>1, <2>2, Constants DEF IInv, TypeOK, AtRest
  <2>4. QED
    BY <1>2, <2>1, <2>3 DEF IInv, BuffOK, LoopOK, Looping, Fits, AtRest
<1>4. CASE ~(o > size)
  <2>1. pc' = "copy" /\ Locate(o, m)
    BY <1>4 DEF StartRead
  <2>2. size \in Nat /\ size <= Clusters(size) * BlockSize /\ Clusters(size) \in Nat
    BY ClustersBounds, Constants DEF IInv, TypeOK
  <2>3. o + m <= Clusters(size) * BlockSize
    BY <1>1, <1>4, <2>2, Constants DEF IInv, TypeOK
  <2>4. Clusters(size)' = Clusters(size)
    BY <1>2 DEF Clusters
  <2>5. /\ blocks_offset' \in 0 .. Direct
        /\ offset_inside_block' \in Offsets
        /\ block_size_to_copy' \in 0 .. BlockSize
        /\ size_copied' = 0
        /\ blocks_offset' * BlockSize + offset_inside_block' = o
        /\ block_size_to_copy' = MinOf(BlockSize - offset_inside_block', m)
    BY <1>1, <2>1, Located DEF IInv
  <2>6. TypeOK'
    BY <1>1, <1>2, <2>1, <2>5, Constants DEF IInv, TypeOK
  <2>7. LoopOK'
    BY <1>1, <1>2, <2>5, Constants DEF LoopOK, MinOf
  <2>8. QED
    BY <1>2, <2>1, <2>3, <2>4, <2>6, <2>7 DEF IInv, BuffOK, Fits, AtRest
<1>5. QED
  BY <1>3, <1>4

LEMMA StartWriteIInv ==
  ASSUME IInv, NEW o \in 0 .. Capacity, NEW n \in 0 .. MaxLength, o + n <= Capacity,
         NEW data \in [0 .. n - 1 -> Payload], StartWrite(o, n, data)
  PROVE  IInv'
<1>1. /\ UNCHANGED <<device, size, block>>
      /\ op' = "write" /\ off' = o /\ len' = n /\ goal' = o + n /\ buff' = data
      /\ pc' = IF Resizes(o, n) THEN "clusters" ELSE "copy"
      /\ Locate(o, n)
  BY DEF StartWrite, Arrive, inode
<1>2. /\ blocks_offset' \in 0 .. Direct
      /\ offset_inside_block' \in Offsets
      /\ block_size_to_copy' \in 0 .. BlockSize
      /\ size_copied' = 0
      /\ blocks_offset' * BlockSize + offset_inside_block' = o
      /\ block_size_to_copy' = MinOf(BlockSize - offset_inside_block', n)
  BY <1>1, Located DEF IInv
<1>3. TypeOK'
  BY <1>1, <1>2, Constants DEF IInv, TypeOK
<1>4. LoopOK'
  BY <1>1, <1>2, Constants DEF LoopOK, MinOf
<1>5. ASSUME ~Resizes(o, n) PROVE o + n <= Clusters(size) * BlockSize
  <2>1. size \in Nat /\ o + n \in Nat
    BY Constants DEF IInv, TypeOK
  <2>2. /\ size <= Clusters(size) * BlockSize /\ Clusters(size) \in Nat
        /\ o + n <= Clusters(o + n) * BlockSize
    BY <2>1, ClustersBounds
  <2>3. o + n <= size \/ Clusters(o + n) = Clusters(size)
    BY <1>5, <2>1 DEF Resizes
  <2>4. QED
    BY <2>1, <2>2, <2>3, Constants
<1>6. Clusters(size)' = Clusters(size)
  BY <1>1 DEF Clusters
<1>7. Fits'
  BY <1>1, <1>5, <1>6 DEF Fits
<1>8. QED
  BY <1>1, <1>3, <1>4, <1>7 DEF IInv, BuffOK, AtRest

LEMMA StartResizeIInv ==
  ASSUME IInv, NEW s \in ResizeArgs, StartResize(s)
  PROVE  IInv'
<1>1. /\ pc = "idle" /\ pc' = "clusters" /\ op' = "resize"
      /\ off' = 0 /\ len' = 0 /\ goal' = s
      /\ UNCHANGED <<device, size, block, loop>>
  BY DEF StartResize, Arrive, inode
<1>2. s \in 0 .. Capacity
  BY ResizeAssumption
<1>3. size_copied = 0
  BY <1>1 DEF IInv, AtRest
<1>4. TypeOK'
  BY <1>1, <1>2, <1>3, Constants DEF IInv, TypeOK, loop
<1>5. QED
  BY <1>1, <1>4 DEF IInv, BuffOK, LoopOK, Looping, Fits, AtRest

\* What the resize does to the pointers keeps their type.
LEMMA ClusterStepIInv ==
  ASSUME IInv, ext2_add_clusters \/ ext2_remove_clusters
  PROVE  IInv'
<1>1. /\ pc = "clusters" /\ pc' = "size"
      /\ UNCHANGED <<device, size, call, buff, loop>>
  BY DEF ext2_add_clusters, ext2_remove_clusters
<1>2. block' \in [Pointers -> DataBlocks \cup {0}]
  <2>1. CASE ext2_add_clusters
    <3>1. PICK f \in [Clusters(size) .. Clusters(goal) - 1 ->
                        Free \cup (IF Sparse THEN {0} ELSE {})] :
            block' = [k \in Pointers |-> IF k \in DOMAIN f THEN f[k] ELSE block[k]]
      BY <2>1 DEF ext2_add_clusters
    <3>2. \A k \in DOMAIN f : f[k] \in DataBlocks \cup {0}
      BY DEF Free
    <3>3. QED
      BY <3>1, <3>2 DEF IInv, TypeOK
  <2>2. CASE ext2_remove_clusters
    BY <2>2 DEF ext2_remove_clusters, IInv, TypeOK
  <2>3. QED
    BY <2>1, <2>2
<1>3. TypeOK'
  BY <1>1, <1>2 DEF IInv, TypeOK, call, loop
<1>4. LoopOK'
  BY <1>1 DEF IInv, LoopOK, Looping, call, loop
<1>5. QED
  BY <1>1, <1>3, <1>4 DEF IInv, BuffOK, Fits, AtRest, call

LEMMA AssignSizeIInv ==
  ASSUME IInv, AssignSize
  PROVE  IInv'
<1>1. /\ pc = "size" /\ size' = goal
      /\ pc' = IF op = "write" THEN "copy" ELSE "done"
      /\ UNCHANGED <<device, block, call, buff, loop>>
  BY DEF AssignSize
<1>2. TypeOK'
  BY <1>1 DEF IInv, TypeOK, call, loop
<1>3. LoopOK'
  BY <1>1 DEF IInv, LoopOK, Looping, call, loop
<1>4. Clusters(size)' = Clusters(goal)
  BY <1>1 DEF Clusters
<1>5. goal <= Clusters(goal) * BlockSize
  BY ClustersBounds, Constants DEF IInv, TypeOK
<1>6. Fits'
  BY <1>1, <1>4, <1>5 DEF IInv, Fits, call
<1>7. QED
  BY <1>1, <1>2, <1>3, <1>6 DEF IInv, BuffOK, AtRest, call

--------------------------------------------------------------------------------
(******************************************************************************)
(* The copying loops.                                                         *)
(******************************************************************************)

LEMMA ChunkInFile == IInv => CopyStaysInFile
<1> SUFFICES ASSUME IInv, pc = "copy", block_size_to_copy > 0
             PROVE  /\ blocks_offset < Clusters(size)
                    /\ Target # NullBlock
                    /\ offset_inside_block + block_size_to_copy <= BlockSize
                    /\ size_copied + block_size_to_copy <= len
  BY DEF CopyStaysInFile
<1>1. /\ blocks_offset \in Nat /\ offset_inside_block \in Nat /\ size_copied \in Nat
      /\ block_size_to_copy \in Nat /\ off \in Nat /\ len \in Nat /\ size \in Nat
      /\ offset_inside_block < BlockSize
  BY Constants DEF IInv, TypeOK, Offsets
<1>2. /\ blocks_offset * BlockSize + offset_inside_block = off + size_copied
      /\ block_size_to_copy = MinOf(BlockSize - offset_inside_block, len - size_copied)
      /\ off + len <= Clusters(size) * BlockSize
  BY DEF IInv, LoopOK, Looping, Fits
<1>3. /\ offset_inside_block + block_size_to_copy <= BlockSize
      /\ size_copied + block_size_to_copy <= len
  BY <1>1, <1>2, Constants DEF MinOf
<1>4. Clusters(size) \in 0 .. Direct
  BY ClustersOfCapacity DEF IInv, TypeOK
<1>5. blocks_offset * BlockSize < Clusters(size) * BlockSize
  BY <1>1, <1>2, <1>3, <1>4, Constants
<1>6. blocks_offset < Clusters(size)
  BY <1>1, <1>4, <1>5, ProductOrder
<1>7. Target # NullBlock
  <2>1. blocks_offset \in Pointers
    BY <1>1, <1>4, <1>6, Constants DEF Pointers
  <2>2. block[blocks_offset] \in DataBlocks \cup {0}
    BY <2>1 DEF IInv, TypeOK
  <2>3. Target \in Blocks
    BY <2>2, Addressable DEF Target
  <2>4. QED
    BY <2>3 DEF Blocks, NullBlock
<1>8. QED
  BY <1>3, <1>6, <1>7

\* What a write stores comes from its buffer, and the device keeps its type.
LEMMA StoredType ==
  ASSUME IInv, pc = "copy", op = "write", NEW S \in SUBSET Chunk
  PROVE  Stored(S) \in [Blocks -> [Offsets -> Byte]]
<1>1. device \in [Blocks -> [Offsets -> Byte]]
  BY DEF IInv, TypeOK
<1>2. CASE S = {}
  BY <1>1, <1>2 DEF Stored
<1>3. CASE S # {}
  <2>1. ASSUME NEW i \in Chunk PROVE buff[InBuff(i)] \in Byte
    <3>1. /\ block_size_to_copy > 0 /\ i \in Nat
          /\ offset_inside_block <= i /\ i < offset_inside_block + block_size_to_copy
      BY <2>1, Constants DEF Chunk, InChunk, Offsets, IInv, TypeOK
    <3>2. size_copied + block_size_to_copy <= len
      BY <3>1, ChunkInFile DEF CopyStaysInFile
    <3>3. InBuff(i) \in 0 .. len - 1
      BY <3>1, <3>2, Constants DEF InBuff, IInv, TypeOK, Offsets
    <3>4. buff[InBuff(i)] \in Payload
      BY <3>3 DEF IInv, BuffOK
    <3>5. QED
      BY <3>4, PayloadAssumption
  <2>2. [i \in Offsets |-> IF i \in S THEN buff[InBuff(i)] ELSE device[Target][i]]
          \in [Offsets -> Byte] \/ Target \notin Blocks
    BY <1>1, <2>1
  <2>3. QED
    BY <1>1, <1>3, <2>2 DEF Stored
<1>4. QED
  BY <1>2, <1>3

\* The second half of an iteration keeps the loop in step.
LEMMA Advances ==
  ASSUME IInv, pc = "copy", Advance
  PROVE  /\ blocks_offset' \in 0 .. Direct
         /\ offset_inside_block' \in Offsets
         /\ block_size_to_copy' \in 0 .. BlockSize
         /\ size_copied' \in 0 .. len
         /\ pc' \in {"copy", "done"}
         /\ LoopOK'
<1> DEFINE copied == size_copied + block_size_to_copy
<1>1. /\ blocks_offset \in 0 .. Direct /\ offset_inside_block \in Offsets
      /\ size_copied \in 0 .. len /\ block_size_to_copy \in 0 .. BlockSize
      /\ off \in Nat /\ len \in Nat /\ size \in Nat
  BY Constants DEF IInv, TypeOK
<1>2. /\ blocks_offset * BlockSize + offset_inside_block = off + size_copied
      /\ block_size_to_copy = MinOf(BlockSize - offset_inside_block, len - size_copied)
      /\ off + len <= Clusters(size) * BlockSize
  BY DEF IInv, LoopOK, Looping, Fits
<1>3. copied \in 0 .. len /\ size_copied' = copied /\ UNCHANGED <<op, off, len>>
  BY <1>1, <1>2, Constants DEF MinOf, Offsets, Advance, call
<1>4. CASE copied < len
  <2>1. /\ blocks_offset' = blocks_offset + 1 /\ offset_inside_block' = 0
        /\ block_size_to_copy' = NextChunk(copied) /\ pc' = "copy"
    BY <1>4 DEF Advance
  <2>2. block_size_to_copy = BlockSize - offset_inside_block
    BY <1>1, <1>2, <1>4, Constants DEF MinOf, Offsets
  <2>3. (blocks_offset + 1) * BlockSize = off + copied
    BY <1>1, <1>2, <2>2, Constants DEF Offsets
  <2>4. Clusters(size) \in 0 .. Direct
    BY ClustersOfCapacity DEF IInv, TypeOK
  <2>5. (blocks_offset + 1) * BlockSize < Clusters(size) * BlockSize
    BY <1>1, <1>2, <1>3, <1>4, <2>3, <2>4, Constants
  <2>6. blocks_offset + 1 < Clusters(size)
    BY <1>1, <2>4, <2>5, ProductOrder
  <2>7. NextChunk(copied) = MinOf(BlockSize - 0, len - copied)
    BY <1>1, <1>3, Constants DEF NextChunk, MinOf
  <2>8. LoopOK'
    BY <1>3, <2>1, <2>3, <2>7, Constants DEF LoopOK, MinOf
  <2>9. NextChunk(copied) \in 0 .. BlockSize
    BY <1>1, <1>3, <1>4, Constants DEF NextChunk
  <2>10. QED
    BY <1>1, <1>3, <2>1, <2>4, <2>6, <2>8, <2>9, Constants
<1>5. CASE ~(copied < len)
  BY <1>1, <1>3, <1>5 DEF Advance, LoopOK, Looping
<1>6. QED
  BY <1>4, <1>5

LEMMA CopyIInv ==
  ASSUME IInv, CopyRead \/ CopyWrite
  PROVE  IInv'
<1>1. pc = "copy" /\ Advance /\ UNCHANGED <<size, block, op, off, len, goal>>
  BY DEF CopyRead, CopyWrite, Advance, inode, call
<1>2. /\ blocks_offset' \in 0 .. Direct
      /\ offset_inside_block' \in Offsets
      /\ block_size_to_copy' \in 0 .. BlockSize
      /\ size_copied' \in 0 .. len
      /\ pc' \in {"copy", "done"}
      /\ LoopOK'
  BY <1>1, Advances
<1>3. /\ device' \in [Blocks -> [Offsets -> Byte]]
      /\ BuffOK'
  <2>1. CASE CopyRead
    BY <1>1, <2>1 DEF CopyRead, IInv, TypeOK, BuffOK
  <2>2. CASE CopyWrite
    BY <1>1, <2>2, StoredType DEF CopyWrite, IInv, BuffOK
  <2>3. QED
    BY <2>1, <2>2
<1>4. TypeOK'
  BY <1>1, <1>2, <1>3 DEF IInv, TypeOK
<1>5. Clusters(size)' = Clusters(size)
  BY <1>1 DEF Clusters
<1>6. QED
  BY <1>1, <1>2, <1>3, <1>4, <1>5 DEF IInv, Fits, AtRest

\* The end of a request, answered or not.
LEMMA ForgetIInv ==
  ASSUME IInv, Forget, UNCHANGED inode, device' \in [Blocks -> [Offsets -> Byte]]
  PROVE  IInv'
<1>1. TypeOK'
  BY Constants DEF IInv, TypeOK, Forget, inode
<1>2. QED
  BY <1>1 DEF IInv, BuffOK, LoopOK, Looping, Fits, AtRest, Forget

LEMMA CrashIInv ==
  ASSUME IInv, Crash
  PROVE  IInv'
<1>1. PICK S \in SUBSET (IF pc = "copy" /\ op = "write" THEN Chunk ELSE {}) :
        device' = Stored(S)
  BY DEF Crash
<1>2. device' \in [Blocks -> [Offsets -> Byte]]
  <2>1. CASE pc = "copy" /\ op = "write"
    BY <1>1, <2>1, StoredType
  <2>2. CASE ~(pc = "copy" /\ op = "write")
    BY <1>1, <2>2 DEF Stored, IInv, TypeOK
  <2>3. QED
    BY <2>1, <2>2
<1>3. QED
  BY <1>2, ForgetIInv DEF Crash

LEMMA NextIInv == IInv /\ [Next]_vars => IInv'
<1> SUFFICES ASSUME IInv, [Next]_vars PROVE IInv'
  OBVIOUS
<1>1. CASE Request
  <2>1. ASSUME NEW o \in 0 .. Capacity, NEW n \in 0 .. MaxLength, StartRead(o, n)
        PROVE  IInv'
    BY <2>1, StartReadIInv
  <2>2. ASSUME NEW o \in 0 .. Capacity, NEW n \in 0 .. MaxLength, o + n <= Capacity,
               NEW data \in [0 .. n - 1 -> Payload], StartWrite(o, n, data)
        PROVE  IInv'
    BY <2>2, StartWriteIInv
  <2>3. ASSUME NEW s \in ResizeArgs, StartResize(s)
        PROVE  IInv'
    BY <2>3, StartResizeIInv
  <2>4. QED
    BY <1>1, <2>1, <2>2, <2>3 DEF Request
<1>2. CASE ext2_add_clusters \/ ext2_remove_clusters
  BY <1>2, ClusterStepIInv
<1>3. CASE AssignSize
  BY <1>3, AssignSizeIInv
<1>4. CASE CopyRead \/ CopyWrite
  BY <1>4, CopyIInv
<1>5. CASE Return
  BY <1>5, ForgetIInv DEF Return, IInv, TypeOK
<1>6. CASE Crash
  BY <1>6, CrashIInv
<1>7. CASE UNCHANGED vars
  <2>1. UNCHANGED <<device, size, block, pc, op, off, len, goal, buff, blocks_offset,
                    offset_inside_block, block_size_to_copy, size_copied>>
    BY <1>7 DEF vars, inode, call, loop
  <2>2. TypeOK'
    BY <2>1 DEF IInv, TypeOK
  <2>3. Clusters(size)' = Clusters(size)
    BY <2>1 DEF Clusters
  <2>4. LoopOK' /\ Fits'
    BY <2>1, <2>3 DEF IInv, LoopOK, Looping, Fits
  <2>5. QED
    BY <2>1, <2>2, <2>4 DEF IInv, BuffOK, AtRest
<1>8. QED
  BY <1>1, <1>2, <1>3, <1>4, <1>5, <1>6, <1>7 DEF Next, Progress

\* The inductive invariant holds throughout, a death of the server included.
THEOREM Invariance == Spec => []IInv
BY InitIInv, NextIInv, PTL DEF Spec

(******************************************************************************)
(* The variables of a request keep their types: in particular blocks_offset   *)
(* never runs past the pointers of the inode, and size_copied never past the  *)
(* length asked for (ext2.c:258-333).                                         *)
(******************************************************************************)
THEOREM TypeCorrect == Spec => []TypeOK
<1>1. IInv => TypeOK
  BY DEF IInv
<1>2. QED
  BY <1>1, Invariance, PTL

(******************************************************************************)
(* Every memcpy of a read or write stays in a block of the file below its     *)
(* size, and inside the caller's buffer.                                      *)
(******************************************************************************)
THEOREM CopiesStayInFile == Spec => []CopyStaysInFile
BY ChunkInFile, Invariance, PTL

\* Each byte of the buffer goes to, or comes from, its own place in the file.
THEOREM CopiesAreAligned == Spec => []CopyIsAligned
<1>1. IInv => CopyIsAligned
  BY DEF IInv, LoopOK, Looping, CopyIsAligned
<1>2. QED
  BY <1>1, Invariance, PTL

--------------------------------------------------------------------------------
(******************************************************************************)
(* Holes and block 0.  Only a write calls for clusters, and only to grow.     *)
(******************************************************************************)
GrowsOnly ==
  Dense /\ pc \in {"clusters", "size"} => Clusters(goal) > Clusters(size)

HInv == IInv /\ NoHole /\ GrowsOnly

LEMMA ClustersMonotonic ==
  ASSUME NEW m \in Nat, NEW n \in Nat, m <= n
  PROVE  Clusters(m) <= Clusters(n)
<1>1. /\ Clusters(m) \in Nat /\ Clusters(n) \in Nat
      /\ Clusters(m) * BlockSize < m + BlockSize
      /\ n <= Clusters(n) * BlockSize
  BY ClustersBounds
<1>2. Clusters(m) * BlockSize < (Clusters(n) + 1) * BlockSize
  BY <1>1, Constants
<1>3. QED
  BY <1>1, <1>2, ProductOrder

\* The clusters whose pointers NoHole looks at are among the inode's.
LEMMA PointersBelow ==
  ASSUME TypeOK, NEW k \in 0 .. Clusters(IF pc = "size" THEN goal ELSE size) - 1
  PROVE  k \in Pointers
<1>1. Clusters(IF pc = "size" THEN goal ELSE size) \in 0 .. Direct
  BY ClustersOfCapacity DEF TypeOK
<1>2. QED
  BY <1>1, Constants DEF Pointers

LEMMA InitHInv == Init => HInv
<1> SUFFICES ASSUME Init PROVE HInv
  OBVIOUS
<1>1. IInv
  BY InitIInv
<1>2. ASSUME Dense, NEW k \in 0 .. Clusters(IF pc = "size" THEN goal ELSE size) - 1
      PROVE  block[k] # 0
  <2>1. pc = "idle" /\ k \in Pointers /\ k < Clusters(size) /\ Clusters(size) \in Nat
    BY <1>1, <1>2, PointersBelow, ClustersOfCapacity, Constants DEF Init, IInv, TypeOK
  <2>2. block[k] = 0 <=> k >= Clusters(size)
    BY <1>2, <2>1 DEF Init, Dense
  <2>3. QED
    BY <2>1, <2>2, Constants DEF Pointers
<1>3. QED
  BY <1>1, <1>2 DEF HInv, NoHole, GrowsOnly, Init

LEMMA AddKeepsNoHole ==
  ASSUME HInv, Dense, ext2_add_clusters,
         NEW k \in 0 .. Clusters(goal) - 1, k \in Pointers
  PROVE  block'[k] # 0
<1>1. PICK f \in [Clusters(size) .. Clusters(goal) - 1 ->
                    Free \cup (IF Sparse THEN {0} ELSE {})] :
        block' = [j \in Pointers |-> IF j \in DOMAIN f THEN f[j] ELSE block[j]]
  BY DEF ext2_add_clusters
<1>2. CASE k \in DOMAIN f
  <2>1. f[k] \in DataBlocks
    BY <1>1, <1>2 DEF Free, Dense
  <2>2. f[k] # 0
    BY <2>1, BlocksAssumption
  <2>3. QED
    BY <1>1, <1>2, <2>2
<1>3. CASE k \notin DOMAIN f
  <2>1. Clusters(size) \in Nat /\ Clusters(goal) \in Nat
    BY ClustersOfCapacity, Constants DEF HInv, IInv, TypeOK
  <2>2. k \in 0 .. Clusters(size) - 1
    BY <1>3, <2>1
  <2>3. block[k] # 0
    BY <2>2 DEF HInv, NoHole, ext2_add_clusters
  <2>4. QED
    BY <1>1, <1>3, <2>3
<1>4. QED
  BY <1>2, <1>3

\* A write asks for clusters when it needs more than there are.
LEMMA ResizesGrow ==
  ASSUME TypeOK, NEW o \in Nat, NEW n \in Nat, Resizes(o, n)
  PROVE  Clusters(o + n) > Clusters(size)
<1>1. size \in Nat /\ o + n \in Nat /\ size <= o + n
  BY Constants DEF TypeOK, Resizes
<1>2. Clusters(size) <= Clusters(o + n) /\ Clusters(size) # Clusters(o + n)
      /\ Clusters(size) \in Nat /\ Clusters(o + n) \in Nat
  BY <1>1, ClustersMonotonic, ClustersBounds DEF Resizes
<1>3. QED
  BY <1>2

LEMMA NextHInv == HInv /\ [Next]_vars => HInv'
<1> SUFFICES ASSUME HInv, [Next]_vars PROVE HInv'
  OBVIOUS
<1> USE DEF HInv
<1>1. IInv'
  BY NextIInv
<1>2. ASSUME Dense PROVE NoHole' /\ GrowsOnly'
  <2>1. CASE Request
    <3>1. pc = "idle" /\ UNCHANGED inode /\ pc' # "size"
      BY <2>1 DEF Request, StartRead, StartWrite, StartResize, Arrive
    <3>2. Clusters(size)' = Clusters(size)
      BY <3>1 DEF inode, Clusters
    <3>3. NoHole'
      BY <3>1, <3>2 DEF NoHole, inode
    <3>4. ASSUME pc' = "clusters" PROVE Clusters(goal)' > Clusters(size)'
      <4>1. PICK o \in 0 .. Capacity, n \in 0 .. MaxLength :
              goal' = o + n /\ Resizes(o, n)
        BY <1>2, <2>1, <3>4
           DEF Request, StartRead, StartWrite, StartResize, Arrive, Dense
      <4>2. Clusters(o + n) > Clusters(size)
        BY <4>1, ResizesGrow, Constants DEF IInv
      <4>3. Clusters(goal)' = Clusters(o + n)
        BY <4>1 DEF Clusters
      <4>4. QED
        BY <3>2, <4>2, <4>3
    <3>5. QED
      BY <3>1, <3>3, <3>4 DEF GrowsOnly
  <2>2. CASE ext2_add_clusters
    <3>1. pc = "clusters" /\ pc' = "size" /\ UNCHANGED <<size, goal>>
      BY <2>2 DEF ext2_add_clusters, call
    <3>2. Clusters(size)' = Clusters(size) /\ Clusters(goal)' = Clusters(goal)
      BY <3>1 DEF Clusters
    <3>3. ASSUME NEW k \in 0 .. Clusters(goal) - 1 PROVE k \in Pointers
      BY <1>1, <3>1, <3>2, <3>3, ClustersOfCapacity, Constants DEF IInv, TypeOK, Pointers
    <3>4. NoHole'
      BY <1>2, <2>2, <3>1, <3>2, <3>3, AddKeepsNoHole DEF NoHole
    <3>5. QED
      BY <3>1, <3>2, <3>4 DEF GrowsOnly
  <2>3. CASE ext2_remove_clusters
    <3>1. pc = "clusters" /\ Clusters(goal) < Clusters(size)
      BY <2>3 DEF ext2_remove_clusters
    <3>2. Clusters(goal) > Clusters(size)
      BY <1>2, <3>1 DEF GrowsOnly
    <3>3. Clusters(goal) \in Nat /\ Clusters(size) \in Nat
      BY ClustersOfCapacity, Constants DEF IInv, TypeOK
    <3>4. QED
      BY <3>1, <3>2, <3>3
  <2>4. CASE AssignSize
    <3>1. /\ pc = "size" /\ pc' \in {"copy", "done"}
          /\ size' = goal /\ UNCHANGED block
      BY <2>4 DEF AssignSize
    <3>2. Clusters(size)' = Clusters(goal)
      BY <3>1 DEF Clusters
    <3>3. QED
      BY <1>2, <3>1, <3>2 DEF NoHole, GrowsOnly
  <2>5. CASE CopyRead \/ CopyWrite
    <3>1. pc = "copy" /\ pc' \in {"copy", "done"} /\ UNCHANGED inode
      BY <2>5 DEF CopyRead, CopyWrite, Advance
    <3>2. Clusters(size)' = Clusters(size)
      BY <3>1 DEF inode, Clusters
    <3>3. QED
      BY <1>2, <3>1, <3>2 DEF NoHole, GrowsOnly, inode
  <2>6. CASE Return \/ Crash
    <3>1. pc' = "idle" /\ UNCHANGED inode
      BY <2>6 DEF Return, Crash, Forget
    <3>2. Clusters(size)' = Clusters(size) /\ Clusters(size) \in Nat
          /\ Clusters(goal) \in Nat
      BY <3>1, ClustersOfCapacity, Constants DEF inode, Clusters, IInv, TypeOK
    <3>3. \A k \in 0 .. Clusters(size) - 1 : block[k] # 0
      <4>1. pc = "size" => Clusters(goal) > Clusters(size)
        BY <1>2 DEF GrowsOnly
      <4>2. QED
        BY <1>2, <3>2, <4>1 DEF NoHole
    <3>4. QED
      BY <1>2, <3>1, <3>2, <3>3 DEF NoHole, GrowsOnly, inode
  <2>7. CASE UNCHANGED vars
    <3>1. UNCHANGED <<pc, size, block, goal>>
      BY <2>7 DEF vars, inode, call
    <3>2. Clusters(size)' = Clusters(size) /\ Clusters(goal)' = Clusters(goal)
      BY <3>1 DEF Clusters
    <3>3. QED
      BY <3>1, <3>2 DEF NoHole, GrowsOnly
  <2>8. QED
    BY <2>1, <2>2, <2>3, <2>4, <2>5, <2>6, <2>7 DEF Next, Progress
<1>3. QED
  BY <1>1, <1>2 DEF NoHole, GrowsOnly, Dense

(******************************************************************************)
(* A file that is only written to, and gets the blocks it asks for, never has *)
(* a hole, wherever the process dies (ext2.c:344-353).                        *)
(******************************************************************************)
THEOREM DenseStaysDense == Spec => []NoHole
<1>1. HInv => NoHole
  BY DEF HInv
<1>2. QED
  BY <1>1, InitHInv, NextHInv, PTL DEF Spec

\* A store goes to a block of the file, or to block 0 when the pointer is a hole.
LEMMA StoreTarget ==
  ASSUME IInv, pc = "copy", NEW S \in SUBSET Chunk,
         NEW b \in Blocks, Stored(S)[b] # device[b]
  PROVE  /\ blocks_offset \in 0 .. Clusters(size) - 1
         /\ block[blocks_offset] = b
<1>1. PICK i \in Chunk : TRUE
  BY DEF Stored
<1>2. block_size_to_copy > 0
  BY <1>1, Constants DEF Chunk, InChunk, Offsets, IInv, TypeOK
<1>3. blocks_offset < Clusters(size) /\ Clusters(size) \in 0 .. Direct
  BY <1>2, ChunkInFile, ClustersOfCapacity DEF CopyStaysInFile, IInv, TypeOK
<1>4. blocks_offset \in 0 .. Clusters(size) - 1 /\ blocks_offset \in Pointers
  BY <1>3, Constants DEF IInv, TypeOK, Pointers
<1>5. Target = block[blocks_offset]
  BY <1>4, Addressable DEF Target, IInv, TypeOK
<1>6. Target = b
  BY DEF Stored, IInv, TypeOK
<1>7. QED
  BY <1>4, <1>5, <1>6

\* Every change of the device is such a store.
LEMMA DeviceChanges ==
  ASSUME IInv, [Next]_vars, NEW b \in Blocks, device'[b] # device[b]
  PROVE  pc = "copy" /\ \E S \in SUBSET Chunk : device' = Stored(S)
<1>1. CASE CopyWrite
  BY <1>1 DEF CopyWrite
<1>2. CASE Crash
  <2>1. PICK S \in SUBSET (IF pc = "copy" /\ op = "write" THEN Chunk ELSE {}) :
          device' = Stored(S)
    BY <1>2 DEF Crash
  <2>2. S # {}
    BY <2>1 DEF Stored
  <2>3. QED
    BY <2>1, <2>2
<1>3. CASE UNCHANGED device
  BY <1>3
<1>4. QED
  BY <1>1, <1>2, <1>3
     DEF Next, Request, Progress, StartRead, StartWrite, StartResize, Arrive,
         ext2_add_clusters, ext2_remove_clusters, AssignSize, CopyRead, Return, vars

(******************************************************************************)
(* The boot block and the superblock (block 0) are never stored into on       *)
(* behalf of a dense file.                                                    *)
(******************************************************************************)
THEOREM BootBlockIsKept == Spec => BootBlockKept
<1>1. ASSUME HInv, [Next]_vars, Dense PROVE device'[0] = device[0]
  <2>1. SUFFICES ASSUME device'[0] # device[0] PROVE FALSE
    OBVIOUS
  <2>2. 0 \in Blocks
    BY Addressable
  <2>3. PICK S \in SUBSET Chunk : device' = Stored(S) /\ pc = "copy"
    BY <1>1, <2>1, <2>2, DeviceChanges DEF HInv
  <2>4. blocks_offset \in 0 .. Clusters(size) - 1 /\ block[blocks_offset] = 0
    BY <1>1, <2>1, <2>2, <2>3, StoreTarget DEF HInv
  <2>5. QED
    BY <1>1, <2>3, <2>4 DEF HInv, NoHole
<1>2. HInv /\ [Next]_vars => [Dense => device'[0] = device[0]]_vars
  BY <1>1
<1>3. QED
  BY <1>2, InitHInv, NextHInv, PTL DEF Spec, BootBlockKept

(******************************************************************************)
(* No call for this file, nor its interruption, changes a block of another    *)
(* file or of the file system, block 0 apart.                                 *)
(******************************************************************************)
THEOREM OtherBlocksAreKept == Spec => OtherBlocksKept
<1>1. ASSUME IInv, [Next]_vars, NEW b \in Blocks \ (Held \cup {0})
      PROVE  device'[b] = device[b]
  <2>1. SUFFICES ASSUME device'[b] # device[b] PROVE FALSE
    OBVIOUS
  <2>2. PICK S \in SUBSET Chunk : device' = Stored(S) /\ pc = "copy"
    BY <1>1, <2>1, DeviceChanges
  <2>3. blocks_offset \in 0 .. Clusters(size) - 1 /\ block[blocks_offset] = b
    BY <1>1, <2>1, <2>2, StoreTarget
  <2>4. QED
    BY <2>3 DEF Held
<1>2. IInv /\ [Next]_vars
        => [\A b \in Blocks \ (Held \cup {0}) : device'[b] = device[b]]_vars
  BY <1>1
<1>3. QED
  BY <1>2, InitIInv, NextIInv, PTL DEF Spec, OtherBlocksKept

--------------------------------------------------------------------------------
(******************************************************************************)
(* No two clusters of a file share a block, whatever allocation gives and     *)
(* wherever the server dies.                                                  *)
(*                                                                            *)
(* NoSharing looks at the clusters of one size, the one the resize is heading *)
(* for between its two steps; a death brings back the other.  The inductive   *)
(* invariant says it of both.                                                 *)
(******************************************************************************)
Distinct(n) ==
  \A i, j \in 0 .. n - 1 : i # j /\ block[i] = block[j] => block[i] = 0

SInv ==
  /\ IInv
  /\ Distinct(Clusters(size))
  /\ pc = "size" => Distinct(Clusters(goal))

LEMMA ClustersInPointers ==
  ASSUME TypeOK
  PROVE  /\ Clusters(size) \in Nat /\ 0 .. Clusters(size) - 1 \subseteq Pointers
         /\ Clusters(goal) \in Nat /\ 0 .. Clusters(goal) - 1 \subseteq Pointers
<1>1. Clusters(size) \in 0 .. Direct /\ Clusters(goal) \in 0 .. Direct
  BY ClustersOfCapacity DEF TypeOK
<1>2. QED
  BY <1>1, Constants DEF Pointers

LEMMA InitSInv == Init => SInv
<1> SUFFICES ASSUME Init PROVE SInv
  OBVIOUS
<1>1. IInv
  BY InitIInv
<1>2. \A i, j \in Pointers : i # j /\ block[i] = block[j] => block[i] = 0
  BY Zenon DEF Init
<1>3. pc # "size"
  BY DEF Init
<1>4. QED
  BY <1>1, <1>2, <1>3, ClustersInPointers DEF SInv, Distinct, IInv

\* The blocks attached are free, and differ from one another.
LEMMA AddKeepsDistinct ==
  ASSUME SInv, ext2_add_clusters
  PROVE  Distinct(Clusters(goal))' /\ Distinct(Clusters(size))'
<1>1. /\ UNCHANGED <<size, goal>>
      /\ Clusters(goal) > Clusters(size)
  BY DEF ext2_add_clusters, call
<1>2. Clusters(size)' = Clusters(size) /\ Clusters(goal)' = Clusters(goal)
  BY <1>1 DEF Clusters
<1>3. PICK f \in [Clusters(size) .. Clusters(goal) - 1 ->
                    Free \cup (IF Sparse THEN {0} ELSE {})] :
        /\ \A i, j \in DOMAIN f : i # j /\ f[i] = f[j] => f[i] = 0
        /\ block' = [k \in Pointers |-> IF k \in DOMAIN f THEN f[k] ELSE block[k]]
  BY DEF ext2_add_clusters
<1>4. /\ Clusters(size) \in Nat /\ Clusters(goal) \in Nat
      /\ 0 .. Clusters(goal) - 1 \subseteq Pointers
  BY ClustersInPointers DEF SInv, IInv
<1>5. ASSUME NEW i \in 0 .. Clusters(goal) - 1
      PROVE  block'[i] = IF i < Clusters(size) THEN block[i] ELSE f[i]
  BY <1>3, <1>4, <1>5
<1>6. ASSUME NEW i \in 0 .. Clusters(goal) - 1, i >= Clusters(size),
             NEW j \in 0 .. Clusters(size) - 1, f[i] = block[j]
      PROVE  f[i] = 0
  <2>1. f[i] \in Free \cup {0}
    BY <1>3, <1>4, <1>6
  <2>2. block[j] = 0 \/ block[j] \in Held
    BY <1>6 DEF Held
  <2>3. QED
    BY <1>6, <2>1, <2>2 DEF Free
<1>7. ASSUME NEW i \in 0 .. Clusters(goal) - 1, NEW j \in 0 .. Clusters(goal) - 1,
             i # j, block'[i] = block'[j]
      PROVE  block'[i] = 0
  <2>1. CASE i < Clusters(size) /\ j < Clusters(size)
    BY <1>4, <1>5, <1>7, <2>1 DEF SInv, Distinct
  <2>2. CASE i >= Clusters(size) /\ j >= Clusters(size)
    BY <1>3, <1>4, <1>5, <1>7, <2>2
  <2>3. CASE i >= Clusters(size) /\ j < Clusters(size)
    BY <1>4, <1>5, <1>6, <1>7, <2>3
  <2>4. CASE i < Clusters(size) /\ j >= Clusters(size)
    BY <1>4, <1>5, <1>6, <1>7, <2>4
  <2>5. QED
    BY <1>4, <2>1, <2>2, <2>3, <2>4
<1>8. QED
  BY <1>1, <1>2, <1>4, <1>7 DEF Distinct

\* The pointers kept are those there were, and the others are 0.
LEMMA RemoveKeepsDistinct ==
  ASSUME SInv, ext2_remove_clusters
  PROVE  Distinct(Clusters(goal))' /\ Distinct(Clusters(size))'
<1>1. /\ UNCHANGED <<size, goal>>
      /\ Clusters(goal) < Clusters(size)
      /\ block' = [k \in Pointers |-> IF k < Clusters(goal) THEN block[k] ELSE 0]
  BY DEF ext2_remove_clusters, call
<1>2. Clusters(size)' = Clusters(size) /\ Clusters(goal)' = Clusters(goal)
  BY <1>1 DEF Clusters
<1>3. /\ Clusters(size) \in Nat /\ Clusters(goal) \in Nat
      /\ 0 .. Clusters(size) - 1 \subseteq Pointers
  BY ClustersInPointers DEF SInv, IInv
<1>4. \A i \in 0 .. Clusters(size) - 1 : block'[i] \in {block[i], 0}
  BY <1>1, <1>3
<1>5. \A i \in 0 .. Clusters(goal) - 1 : i \in 0 .. Clusters(size) - 1
  BY <1>1, <1>3
<1>6. ASSUME NEW i \in 0 .. Clusters(size) - 1, NEW j \in 0 .. Clusters(size) - 1,
             i # j, block'[i] = block'[j]
      PROVE  block'[i] = 0
  BY <1>4, <1>6 DEF SInv, Distinct
<1>7. QED
  BY <1>2, <1>5, <1>6 DEF Distinct

\* A step that leaves size and pointers alone.
LEMMA SameInodeKeepsDistinct ==
  ASSUME SInv, UNCHANGED inode, pc' # "size"
  PROVE  Distinct(Clusters(size))'
<1>1. Clusters(size)' = Clusters(size)
  BY DEF inode, Clusters
<1>2. QED
  BY <1>1 DEF SInv, Distinct, inode

LEMMA NextSInv == SInv /\ [Next]_vars => SInv'
<1> SUFFICES ASSUME SInv, [Next]_vars PROVE SInv'
  OBVIOUS
<1>1. IInv'
  BY NextIInv DEF SInv
<1>2. CASE Request
  <2>1. UNCHANGED inode /\ pc' # "size"
    BY <1>2 DEF Request, StartRead, StartWrite, StartResize, Arrive
  <2>2. QED
    BY <1>1, <2>1, SameInodeKeepsDistinct DEF SInv
<1>3. CASE ext2_add_clusters
  BY <1>1, <1>3, AddKeepsDistinct DEF SInv
<1>4. CASE ext2_remove_clusters
  BY <1>1, <1>4, RemoveKeepsDistinct DEF SInv
<1>5. CASE AssignSize
  <2>1. /\ pc = "size" /\ pc' # "size"
        /\ size' = goal /\ UNCHANGED block
    BY <1>5 DEF AssignSize
  <2>2. Clusters(size)' = Clusters(goal)
    BY <2>1 DEF Clusters
  <2>3. QED
    BY <1>1, <2>1, <2>2 DEF SInv, Distinct
<1>6. CASE CopyRead \/ CopyWrite \/ Return \/ Crash
  <2>1. UNCHANGED inode /\ pc' # "size"
    BY <1>6 DEF CopyRead, CopyWrite, Advance, Return, Crash, Forget
  <2>2. QED
    BY <1>1, <2>1, SameInodeKeepsDistinct DEF SInv
<1>7. CASE UNCHANGED vars
  <2>1. UNCHANGED <<pc, size, block, goal>>
    BY <1>7 DEF vars, inode, call
  <2>2. Clusters(size)' = Clusters(size) /\ Clusters(goal)' = Clusters(goal)
    BY <2>1 DEF Clusters
  <2>3. QED
    BY <1>1, <2>1, <2>2 DEF SInv, Distinct
<1>8. QED
  BY <1>2, <1>3, <1>4, <1>5, <1>6, <1>7 DEF Next, Progress

(******************************************************************************)
(* No two clusters of the file share a block: blocks are attached below the   *)
(* new size only when they are free, and what an interrupted resize left      *)
(* beyond the size is not of the file (ext2.c:335-354).                       *)
(******************************************************************************)
THEOREM NothingIsShared == Spec => []NoSharing
<1>1. SInv => NoSharing
  BY DEF SInv, NoSharing, Distinct
<1>2. QED
  BY <1>1, InitSInv, NextSInv, PTL DEF Spec

--------------------------------------------------------------------------------
(******************************************************************************)
(* Reads and writes of a dense file are those of FileContent, whatever its    *)
(* blocks, the lengths asked for and wherever the server dies.                *)
(*                                                                            *)
(* A request is compared with the content there was when it came: CInv says,  *)
(* at every point of the loop, what has become of it.  That a store changes   *)
(* one place of the file and no other is the point where the blocks must be   *)
(* distinct (SInv) and none of them missing (HInv).                           *)
(******************************************************************************)

Places(n) == 0 .. Clusters(n) * BlockSize - 1

Busy == pc \in {"clusters", "size", "copy"}

\* The request in progress, and the file as it found it.
Kept ==
  Busy =>
    /\ op \in {"read", "write"}
    /\ before.size \in 0 .. Capacity
    /\ before.bytes \in [Places(before.size) -> Byte]
    /\ op = "write" => before.want = len
    /\ pc # "copy" => /\ op = "write" /\ size_copied = 0
                      /\ off + len > before.size
                      /\ Clusters(off + len) # Clusters(before.size)
    /\ op = "read" \/ pc # "copy" => size = before.size /\ Content = before.bytes

\* A read has got the bytes that size_copied says.
ReadSoFar ==
  pc = "copy" /\ op = "read" =>
    /\ off <= size /\ len = ReadLength(size, off, before.want)
    /\ buff = [i \in 0 .. size_copied - 1 |-> Content[off + i]]

\* A write has its clusters, none of the old ones lost, and the prefix is there.
WrittenSoFar ==
  pc = "copy" /\ op = "write" =>
    /\ size = SizeAfterWrite(before.size, off, len)
    /\ Clusters(before.size) <= Clusters(size)
    /\ PrefixWritten

CInv == SInv /\ HInv /\ Kept /\ ReadSoFar /\ WrittenSoFar

--------------------------------------------------------------------------------
(******************************************************************************)
(* Places of the file, and what it holds there.                               *)
(******************************************************************************)

LEMMA PlaceOf ==
  ASSUME NEW n \in Nat, NEW p \in 0 .. n * BlockSize - 1
  PROVE  /\ p \div BlockSize \in 0 .. n - 1 /\ p % BlockSize \in Offsets
         /\ p = (p \div BlockSize) * BlockSize + (p % BlockSize)
<1>1. p \in Nat /\ p < n * BlockSize
  BY Constants
<1>2. /\ p \div BlockSize \in Nat /\ p % BlockSize \in 0 .. BlockSize - 1
      /\ p = (p \div BlockSize) * BlockSize + (p % BlockSize)
  BY <1>1, BlockSizeAssumption
<1>3. (p \div BlockSize) * BlockSize < n * BlockSize
  BY <1>1, <1>2, Constants
<1>4. p \div BlockSize < n
  BY <1>2, <1>3, ProductOrder
<1>5. QED
  BY <1>2, <1>4 DEF Offsets

\* A place has one block and one offset in it.
LEMMA OnePlace ==
  ASSUME NEW a \in Nat, NEW b \in Nat, NEW i \in Offsets, NEW j \in Offsets,
         a * BlockSize + i = b * BlockSize + j
  PROVE  a = b /\ i = j
<1>1. i \in 0 .. BlockSize - 1 /\ j \in 0 .. BlockSize - 1
  BY DEF Offsets
<1>2. a * BlockSize < (b + 1) * BlockSize /\ b * BlockSize < (a + 1) * BlockSize
  BY <1>1, Constants
<1>3. a < b + 1 /\ b < a + 1
  BY <1>2, ProductOrder
<1>4. a = b
  BY <1>3
<1>5. QED
  BY <1>1, <1>4, Constants

\* What the device holds at a place of the file.
LEMMA ContentAt ==
  ASSUME TypeOK
  PROVE  /\ Content \in [Places(size) -> Byte]
         /\ \A p \in Places(size) :
              /\ p \div BlockSize \in 0 .. Clusters(size) - 1
              /\ p \div BlockSize \in Pointers /\ p % BlockSize \in Offsets
              /\ Content[p] = device[block[p \div BlockSize]][p % BlockSize]
<1>1. Clusters(size) \in Nat /\ 0 .. Clusters(size) - 1 \subseteq Pointers
  BY ClustersInPointers
<1>2. ASSUME NEW p \in Places(size)
      PROVE  /\ p \div BlockSize \in 0 .. Clusters(size) - 1
             /\ p \div BlockSize \in Pointers /\ p % BlockSize \in Offsets
             /\ ext2_get_block(block[p \div BlockSize]) = block[p \div BlockSize]
             /\ device[block[p \div BlockSize]][p % BlockSize] \in Byte
  <2>1. /\ p \div BlockSize \in 0 .. Clusters(size) - 1
        /\ p \div BlockSize \in Pointers /\ p % BlockSize \in Offsets
    BY <1>1, <1>2, PlaceOf DEF Places
  <2>2. block[p \div BlockSize] \in DataBlocks \cup {0}
    BY <2>1 DEF TypeOK
  <2>3. /\ block[p \div BlockSize] \in Blocks
        /\ ext2_get_block(block[p \div BlockSize]) = block[p \div BlockSize]
    BY <2>2, Addressable
  <2>4. QED
    BY <2>1, <2>3 DEF TypeOK
<1>3. Content = [p \in Places(size) |-> device[ext2_get_block(block[p \div BlockSize])][p % BlockSize]]
  BY DEF Content, Places
<1>4. QED
  BY <1>2, <1>3

\* A step that leaves the device, the size and the pointers below it alone.
LEMMA SameContent ==
  ASSUME TypeOK, UNCHANGED <<device, size>>,
         \A k \in 0 .. Clusters(size) - 1 : block'[k] = block[k]
  PROVE  Content' = Content
<1>1. \A p \in Places(size) : p \div BlockSize \in 0 .. Clusters(size) - 1
  BY ContentAt
<1>2. Content' = [p \in Places(size) |-> device[ext2_get_block(block'[p \div BlockSize])][p % BlockSize]]
  BY DEF Content, Places, Clusters, ext2_get_block
<1>3. Content = [p \in Places(size) |-> device[ext2_get_block(block[p \div BlockSize])][p % BlockSize]]
  BY DEF Content, Places
<1>4. QED
  BY <1>1, <1>2, <1>3

--------------------------------------------------------------------------------
(******************************************************************************)
(* One iteration of a loop.                                                   *)
(******************************************************************************)

\* Where the loop is.
LEMMA AtCopy ==
  ASSUME IInv, pc = "copy"
  PROVE  /\ off \in Nat /\ len \in Nat /\ size \in Nat /\ blocks_offset \in Nat
         /\ size_copied \in 0 .. len /\ offset_inside_block \in 0 .. BlockSize - 1
         /\ block_size_to_copy \in Nat
         /\ blocks_offset * BlockSize + offset_inside_block = off + size_copied
         /\ offset_inside_block + block_size_to_copy <= BlockSize
         /\ size_copied + block_size_to_copy <= len
         /\ off + len <= Clusters(size) * BlockSize /\ Clusters(size) \in Nat
<1>1. /\ off \in Nat /\ len \in Nat /\ size \in Nat /\ blocks_offset \in Nat
      /\ size_copied \in 0 .. len /\ offset_inside_block \in 0 .. BlockSize - 1
      /\ block_size_to_copy \in Nat
  BY Constants DEF IInv, TypeOK, Offsets
<1>2. /\ blocks_offset * BlockSize + offset_inside_block = off + size_copied
      /\ block_size_to_copy = MinOf(BlockSize - offset_inside_block, len - size_copied)
      /\ off + len <= Clusters(size) * BlockSize
  BY DEF IInv, LoopOK, Looping, Fits
<1>3. /\ offset_inside_block + block_size_to_copy <= BlockSize
      /\ size_copied + block_size_to_copy <= len
  BY <1>1, <1>2, Constants DEF MinOf
<1>4. Clusters(size) \in Nat
  BY <1>1, ClustersBounds
<1>5. QED
  BY <1>1, <1>2, <1>3, <1>4

\* The places of the file that the chunk covers.
LEMMA ChunkPlaces ==
  ASSUME IInv, pc = "copy", NEW p \in Places(size)
  PROVE  /\ off + size_copied <= p /\ p < off + size_copied + block_size_to_copy
              <=> p \div BlockSize = blocks_offset /\ p % BlockSize \in Chunk
         /\ p \div BlockSize = blocks_offset => InBuff(p % BlockSize) = p - off
<1> DEFINE q == p \div BlockSize
           i == p % BlockSize
<1>1. /\ off \in Nat /\ len \in Nat /\ blocks_offset \in Nat
      /\ size_copied \in Nat /\ offset_inside_block \in 0 .. BlockSize - 1
      /\ block_size_to_copy \in Nat
      /\ blocks_offset * BlockSize + offset_inside_block = off + size_copied
      /\ offset_inside_block + block_size_to_copy <= BlockSize
  BY AtCopy
<1>2. p \in Nat /\ q \in Nat /\ i \in Offsets /\ p = q * BlockSize + i
  <2>1. Clusters(size) \in Nat
    BY AtCopy
  <2>2. q \in 0 .. Clusters(size) - 1 /\ i \in Offsets /\ p = q * BlockSize + i
    BY <2>1, PlaceOf DEF Places
  <2>3. QED
    BY <2>1, <2>2, Constants DEF Places
<1> HIDE DEF q, i
<1>3. ASSUME q = blocks_offset
      PROVE  /\ InBuff(i) = p - off
             /\ i \in Chunk <=> off + size_copied <= p /\ p < off + size_copied + block_size_to_copy
  BY <1>1, <1>2, <1>3, Constants DEF InBuff, Chunk, InChunk, Offsets
<1>4. ASSUME off + size_copied <= p, p < off + size_copied + block_size_to_copy
      PROVE  q = blocks_offset
  <2> DEFINE j == p - off - size_copied + offset_inside_block
  <2>1. j \in Offsets /\ p = blocks_offset * BlockSize + j
    BY <1>1, <1>2, <1>4, Constants DEF Offsets
  <2>2. QED
    BY <1>1, <1>2, <2>1, OnePlace
<1>5. QED
  BY <1>3, <1>4 DEF q, i

(******************************************************************************)
(* A store reaches the places of the file that it is for and no other: no two *)
(* of the clusters have the same block.                                       *)
(******************************************************************************)
LEMMA StoreInPlace ==
  ASSUME CInv, Dense, pc = "copy", op = "write", NEW S \in SUBSET Chunk,
         device' = Stored(S), UNCHANGED inode, NEW p \in Places(size)
  PROVE  Content'[p] = IF p \div BlockSize = blocks_offset /\ p % BlockSize \in S
                       THEN buff[p - off] ELSE Content[p]
<1> DEFINE k == p \div BlockSize
           i == p % BlockSize
<1>1. /\ k \in 0 .. Clusters(size) - 1 /\ k \in Pointers /\ i \in Offsets
      /\ Content[p] = device[block[k]][i]
  BY ContentAt DEF CInv, SInv, IInv
<1>2. block[k] \in DataBlocks /\ block[k] \in Blocks /\ ext2_get_block(block[k]) = block[k]
  <2>1. block[k] \in DataBlocks \cup {0}
    BY <1>1 DEF CInv, SInv, IInv, TypeOK
  <2>2. block[k] # 0
    BY <1>1 DEF CInv, HInv, NoHole
  <2>3. QED
    BY <2>1, <2>2, Addressable
<1>3. Content'[p] = device'[block[k]][i]
  <2>1. Content' = [r \in Places(size) |-> device'[ext2_get_block(block[r \div BlockSize])][r % BlockSize]]
    BY DEF Content, Places, Clusters, ext2_get_block, inode
  <2>2. QED
    BY <1>2, <2>1
<1>4. CASE S = {}
  BY <1>1, <1>3, <1>4 DEF Stored
<1>5. CASE S # {}
  <2>1. blocks_offset \in 0 .. Clusters(size) - 1 /\ blocks_offset \in Pointers
    <3>1. PICK j \in Chunk : TRUE
      BY <1>5
    <3>2. block_size_to_copy > 0
      BY <3>1, AtCopy DEF Chunk, InChunk, Offsets, CInv, SInv
    <3>3. blocks_offset < Clusters(size)
      BY <3>2, ChunkInFile DEF CopyStaysInFile, CInv, SInv
    <3>4. blocks_offset \in 0 .. Clusters(size) - 1
      BY <3>3, AtCopy DEF CInv, SInv
    <3>5. QED
      BY <3>4, ClustersInPointers DEF CInv, SInv, IInv
  <2>2. Target = block[blocks_offset]
    BY <2>1, Addressable DEF Target, CInv, SInv, IInv, TypeOK
  <2>3. block[k] = Target <=> k = blocks_offset
    BY <1>1, <1>2, <2>1, <2>2, BlocksAssumption DEF CInv, SInv, Distinct
  <2>4. device'[block[k]][i] = IF block[k] = Target /\ i \in S THEN buff[InBuff(i)]
                               ELSE device[block[k]][i]
    BY <1>1, <1>2, <1>5 DEF Stored, CInv, SInv, IInv, TypeOK
  <2>5. k = blocks_offset => InBuff(i) = p - off
    BY ChunkPlaces DEF CInv, SInv
  <2>6. QED
    BY <1>1, <1>3, <2>3, <2>4, <2>5
<1>6. QED
  BY <1>4, <1>5

\* The content has its type after a step, too.
LEMMA ContentType == TypeOK => Content \in [Places(size) -> Byte]
BY ContentAt

LEMMA ContentTypeNext == (TypeOK => Content \in [Places(size) -> Byte])'
BY ContentType, PTL

\* What a read has got after an iteration.
LEMMA ReadGets ==
  ASSUME CInv, CopyRead
  PROVE  /\ buff' = [i \in 0 .. size_copied' - 1 |-> Content[off + i]]
         /\ pc' = "done" => size_copied' = len
<1> DEFINE n == size_copied + block_size_to_copy
<1>1. /\ pc = "copy" /\ op = "read" /\ size_copied' = n
      /\ n < len => pc' = "copy"
      /\ buff' = [b \in 0 .. size_copied + block_size_to_copy - 1 |->
                    IF b < size_copied THEN buff[b]
                    ELSE device[Target][offset_inside_block + b - size_copied]]
  BY DEF CopyRead, Advance
<1>2. /\ off \in Nat /\ len \in Nat /\ size \in Nat /\ blocks_offset \in Nat
      /\ size_copied \in 0 .. len /\ offset_inside_block \in 0 .. BlockSize - 1
      /\ block_size_to_copy \in Nat /\ n <= len
      /\ blocks_offset * BlockSize + offset_inside_block = off + size_copied
      /\ offset_inside_block + block_size_to_copy <= BlockSize
      /\ off + len <= Clusters(size) * BlockSize
  BY <1>1, AtCopy DEF CInv, SInv
<1> n - 1 = size_copied + block_size_to_copy - 1
  BY <1>2
<1>3. ASSUME NEW b \in 0 .. n - 1
      PROVE  buff'[b] = Content[off + b]
  <2>1. CASE b < size_copied
    <3>1. b \in 0 .. size_copied - 1
      BY <1>2, <1>3, <2>1
    <3>2. buff[b] = Content[off + b]
      BY <1>1, <3>1 DEF CInv, ReadSoFar
    <3>3. QED
      BY <1>1, <1>3, <2>1, <3>2
  <2>2. CASE ~(b < size_copied)
    <3> DEFINE p == off + b
               j == offset_inside_block + b - size_copied
    <3>1. Clusters(size) \in Nat
      BY <1>1, AtCopy DEF CInv, SInv
    <3>2. p \in Places(size) /\ j \in Offsets /\ p = blocks_offset * BlockSize + j
      BY <1>2, <1>3, <2>2, <3>1, Constants DEF Places, Offsets
    <3>3. p \div BlockSize \in Nat /\ p % BlockSize \in Offsets
          /\ p = (p \div BlockSize) * BlockSize + (p % BlockSize)
      BY <3>1, <3>2, PlaceOf DEF Places
    <3>4. p \div BlockSize = blocks_offset /\ p % BlockSize = j
      BY <1>2, <3>2, <3>3, OnePlace
    <3>5. /\ Content[p] = device[block[blocks_offset]][j] /\ blocks_offset \in Pointers
      BY <3>2, <3>4, ContentAt DEF CInv, SInv, IInv
    <3>6. Target = block[blocks_offset]
      BY <3>5, Addressable DEF Target, CInv, SInv, IInv, TypeOK
    <3>7. buff'[b] = device[Target][j]
      BY <1>1, <1>3, <2>2
    <3>8. QED
      BY <3>5, <3>6, <3>7
  <2>3. QED
    BY <2>1, <2>2
<1>4. buff' = [b \in 0 .. n - 1 |-> Content[off + b]]
  BY <1>1, <1>3
<1>5. pc' = "done" => n = len
  BY <1>1, <1>2
<1>6. QED
  BY <1>1, <1>4, <1>5

\* What a write has stored after an iteration.
LEMMA WriteStores ==
  ASSUME CInv, Dense, CopyWrite
  PROVE  /\ \A p \in Places(size) :
              IF off <= p /\ p < off + size_copied' THEN Content'[p] = buff[p - off]
              ELSE p \in DOMAIN before.bytes => Content'[p] = before.bytes[p]
         /\ pc' = "done" => size_copied' = len
<1> DEFINE n == size_copied + block_size_to_copy
<1>1. /\ pc = "copy" /\ op = "write" /\ size_copied' = n /\ UNCHANGED inode
      /\ pc' = IF n < len THEN "copy" ELSE "done"
      /\ device' = Stored(Chunk)
  BY DEF CopyWrite, Advance
<1>2. /\ off \in Nat /\ len \in Nat /\ size_copied \in 0 .. len /\ n <= len
      /\ block_size_to_copy \in Nat /\ Clusters(size) \in Nat
  BY <1>1, AtCopy DEF CInv, SInv
<1>3. ASSUME NEW p \in Places(size)
      PROVE  IF off <= p /\ p < off + n THEN Content'[p] = buff[p - off]
             ELSE p \in DOMAIN before.bytes => Content'[p] = before.bytes[p]
  <2>1. Content'[p] = IF off + size_copied <= p /\ p < off + n THEN buff[p - off] ELSE Content[p]
    <3>1. Content'[p] = IF p \div BlockSize = blocks_offset /\ p % BlockSize \in Chunk
                        THEN buff[p - off] ELSE Content[p]
      BY <1>1, StoreInPlace
    <3>2. off + size_copied <= p /\ p < off + size_copied + block_size_to_copy
            <=> p \div BlockSize = blocks_offset /\ p % BlockSize \in Chunk
      BY <1>1, ChunkPlaces DEF CInv, SInv
    <3>3. off + n = off + size_copied + block_size_to_copy
      BY <1>2
    <3>4. QED
      BY <3>1, <3>2, <3>3
  <2>2. IF off <= p /\ p < off + size_copied THEN Content[p] = buff[p - off]
        ELSE p \in DOMAIN before.bytes => Content[p] = before.bytes[p]
    <3>1. p \in DOMAIN Content
      BY ContentAt DEF CInv, SInv, IInv
    <3>2. QED
      BY <1>1, <3>1 DEF CInv, WrittenSoFar, PrefixWritten
  <2>3. p \in Int
    BY <1>2, Constants DEF Places
  <2>4. QED
    BY <1>2, <2>1, <2>2, <2>3
<1>4. pc' = "done" => n = len
  BY <1>1, <1>2
<1>5. QED
  BY <1>1, <1>3, <1>4

--------------------------------------------------------------------------------
(******************************************************************************)
(* The invariant.                                                             *)
(******************************************************************************)

LEMMA InitCInv == Init => CInv
<1> SUFFICES ASSUME Init PROVE CInv
  OBVIOUS
<1>1. SInv /\ HInv
  BY InitSInv, InitHInv
<1>2. pc = "idle"
  BY DEF Init
<1>3. QED
  BY <1>1, <1>2 DEF CInv, Kept, Busy, ReadSoFar, WrittenSoFar

\* A step after which no request is in progress.
LEMMA NotBusy ==
  ASSUME CInv, [Next]_vars, ~Busy'
  PROVE  CInv'
<1>1. SInv' /\ HInv'
  BY NextSInv, NextHInv DEF CInv
<1>2. QED
  BY <1>1 DEF CInv, Kept, Busy, ReadSoFar, WrittenSoFar

LEMMA StartReadCInv ==
  ASSUME CInv, NEW o \in 0 .. Capacity, NEW n \in 0 .. MaxLength, StartRead(o, n)
  PROVE  Kept' /\ ReadSoFar' /\ WrittenSoFar'
<1> DEFINE m == ReadLength(size, o, n)
<1>1. /\ op' = "read" /\ off' = o /\ len' = m /\ buff' = Empty
      /\ UNCHANGED <<device, size, block>>
      /\ before' = [size |-> size, bytes |-> Content, want |-> n]
      /\ pc' = IF o > size THEN "done" ELSE "copy"
      /\ ~(o > size) => size_copied' = 0
  BY DEF StartRead, Arrive, inode, Locate
<1>2. Content' = Content
  BY <1>1, SameContent DEF CInv, SInv, IInv
<1>3. size \in 0 .. Capacity /\ Content \in [Places(size) -> Byte]
  BY ContentType DEF CInv, SInv, IInv, TypeOK
<1>4. Kept'
  BY <1>1, <1>2, <1>3 DEF Kept, Busy, Places, Clusters
<1>5. ReadSoFar'
  <2>1. ASSUME pc' = "copy"
        PROVE  o <= size /\ buff' = [i \in 0 .. size_copied' - 1 |-> Content'[off' + i]]
    BY <1>1, <1>3, <2>1, Constants DEF Empty
  <2>2. QED
    BY <1>1, <2>1 DEF ReadSoFar, ReadLength
<1>6. QED
  BY <1>1, <1>4, <1>5 DEF WrittenSoFar

LEMMA StartWriteCInv ==
  ASSUME CInv, NEW o \in 0 .. Capacity, NEW n \in 0 .. MaxLength, o + n <= Capacity,
         NEW data \in [0 .. n - 1 -> Payload], StartWrite(o, n, data)
  PROVE  Kept' /\ ReadSoFar' /\ WrittenSoFar'
<1>1. /\ op' = "write" /\ off' = o /\ len' = n /\ buff' = data /\ size_copied' = 0
      /\ UNCHANGED <<device, size, block>>
      /\ before' = [size |-> size, bytes |-> Content, want |-> n]
      /\ pc' = IF Resizes(o, n) THEN "clusters" ELSE "copy"
  BY DEF StartWrite, Arrive, inode, Locate
<1>2. Content' = Content
  BY <1>1, SameContent DEF CInv, SInv, IInv
<1>3. /\ size \in 0 .. Capacity /\ Content \in [Places(size) -> Byte]
      /\ o \in Nat /\ n \in Nat /\ size \in Nat /\ Clusters(size) \in Nat
  BY ContentType, ClustersInPointers, Constants DEF CInv, SInv, IInv, TypeOK
<1>4. Kept'
  BY <1>1, <1>2, <1>3 DEF Kept, Busy, Places, Clusters, Resizes
<1>5. ASSUME pc' = "copy" PROVE size = SizeAfterWrite(size, o, n)
  BY <1>1, <1>3, <1>5 DEF Resizes, SizeAfterWrite, SizeAfterResize
<1>6. PrefixWritten'
  BY <1>1, <1>2, <1>3 DEF PrefixWritten, Places
<1>7. WrittenSoFar'
  BY <1>1, <1>3, <1>5, <1>6 DEF WrittenSoFar, SizeAfterWrite, SizeAfterResize, Clusters
<1>8. QED
  BY <1>1, <1>4, <1>7 DEF ReadSoFar

\* The clusters attached are beyond the size.
LEMMA AddCInv ==
  ASSUME CInv, ext2_add_clusters
  PROVE  Kept' /\ ReadSoFar' /\ WrittenSoFar' /\ Content' = Content
<1>1. /\ pc = "clusters" /\ pc' = "size"
      /\ UNCHANGED <<device, size, op, off, len, before, size_copied>>
  BY DEF ext2_add_clusters, call, loop
<1>2. \A k \in 0 .. Clusters(size) - 1 : block'[k] = block[k]
  <2>1. PICK f \in [Clusters(size) .. Clusters(goal) - 1 ->
                      Free \cup (IF Sparse THEN {0} ELSE {})] :
          block' = [k \in Pointers |-> IF k \in DOMAIN f THEN f[k] ELSE block[k]]
    BY DEF ext2_add_clusters
  <2>2. /\ Clusters(size) \in Nat /\ Clusters(goal) \in Nat
        /\ 0 .. Clusters(size) - 1 \subseteq Pointers
    BY ClustersInPointers DEF CInv, SInv, IInv
  <2>3. QED
    BY <2>1, <2>2
<1>3. Content' = Content
  BY <1>1, <1>2, SameContent DEF CInv, SInv, IInv
<1>4. Kept'
  BY <1>1, <1>3 DEF CInv, Kept, Busy, Places, Clusters
<1>5. QED
  BY <1>1, <1>3, <1>4 DEF ReadSoFar, WrittenSoFar

\* The size assigned is the one the write wants, and what was there stays.
LEMMA AssignCInv ==
  ASSUME CInv, AssignSize
  PROVE  Kept' /\ ReadSoFar' /\ WrittenSoFar'
<1>1. /\ pc = "size" /\ op = "write" /\ pc' = "copy" /\ size' = goal
      /\ UNCHANGED <<device, block, op, off, len, before, size_copied, buff>>
  BY DEF AssignSize, call, loop, CInv, Kept, Busy
<1>2. /\ goal = off + len /\ goal \in Nat /\ off \in Nat /\ len \in Nat
      /\ size = before.size /\ Content = before.bytes /\ size_copied = 0
      /\ size \in Nat /\ size \in 0 .. Capacity /\ before.bytes \in [Places(size) -> Byte]
      /\ before.want = len /\ off + len > size /\ Clusters(off + len) # Clusters(size)
  BY <1>1, Constants DEF CInv, SInv, IInv, TypeOK, Fits, Kept, Busy
<1>3. goal = SizeAfterWrite(size, off, len)
  BY <1>2 DEF SizeAfterWrite, SizeAfterResize
<1>4. /\ Clusters(size) <= Clusters(goal)
      /\ Clusters(size) \in Nat /\ Clusters(goal) \in Nat
  BY <1>2, ClustersMonotonic, ClustersBounds
<1>5. \A p \in Places(size) : p \in Places(goal) /\ Content'[p] = Content[p]
  <2>1. \A p \in Places(size) : p \in Places(goal)
    BY <1>4, Constants DEF Places
  <2>2. /\ Content = [p \in Places(size) |-> device[ext2_get_block(block[p \div BlockSize])][p % BlockSize]]
        /\ Content' = [p \in Places(goal) |-> device[ext2_get_block(block[p \div BlockSize])][p % BlockSize]]
    BY <1>1 DEF Content, Places, Clusters, ext2_get_block
  <2>3. QED
    BY <2>1, <2>2
<1>6. PrefixWritten'
  <2>1. \A p \in DOMAIN before.bytes : Content'[p] = before.bytes[p]
    BY <1>2, <1>5
  <2>2. DOMAIN Content' = Places(goal)
    BY <1>1 DEF Content, Places, Clusters
  <2>3. \A p \in Places(goal) : ~(off <= p /\ p < off + 0)
    BY <1>2, <1>4, Constants DEF Places
  <2>4. QED
    BY <1>1, <1>2, <2>1, <2>2, <2>3 DEF PrefixWritten
<1>7. Kept'
  BY <1>1, <1>2 DEF Kept, Busy, Places, Clusters
<1>8. QED
  BY <1>1, <1>2, <1>3, <1>4, <1>6, <1>7 DEF ReadSoFar, WrittenSoFar, Clusters

LEMMA CopyReadCInv ==
  ASSUME CInv, CopyRead
  PROVE  Kept' /\ ReadSoFar' /\ WrittenSoFar'
<1>1. /\ pc = "copy" /\ op = "read"
      /\ UNCHANGED <<device, size, block, op, off, len, before>>
  BY DEF CopyRead, Advance, inode, call
<1>2. pc' = "copy" \/ pc' = "done"
  BY DEF CopyRead, Advance
<1>3. Content' = Content
  BY <1>1, SameContent DEF CInv, SInv, IInv
<1>4. buff' = [i \in 0 .. size_copied' - 1 |-> Content[off + i]]
  BY ReadGets
<1>5. Kept'
  BY <1>1, <1>2, <1>3 DEF CInv, Kept, Busy, Places, Clusters
<1>6. off <= size /\ len = ReadLength(size, off, before.want)
  BY <1>1 DEF CInv, ReadSoFar
<1>7. ReadSoFar'
  BY <1>1, <1>3, <1>4, <1>6 DEF ReadSoFar, ReadLength
<1>8. QED
  BY <1>1, <1>5, <1>7 DEF WrittenSoFar

LEMMA CopyWriteCInv ==
  ASSUME CInv, Dense, CopyWrite
  PROVE  Kept' /\ ReadSoFar' /\ WrittenSoFar'
<1>1. /\ pc = "copy" /\ op = "write"
      /\ UNCHANGED <<size, block, op, off, len, before, buff>>
  BY DEF CopyWrite, Advance, inode, call
<1>2. pc' = "copy" \/ pc' = "done"
  BY DEF CopyWrite, Advance
<1>3. \A p \in Places(size) :
        IF off <= p /\ p < off + size_copied' THEN Content'[p] = buff[p - off]
        ELSE p \in DOMAIN before.bytes => Content'[p] = before.bytes[p]
  BY WriteStores
<1>4. DOMAIN Content' = Places(size)
  BY <1>1 DEF Content, Places, Clusters
<1>5. PrefixWritten'
  BY <1>1, <1>3, <1>4 DEF PrefixWritten
<1>6. Kept'
  BY <1>1, <1>2 DEF CInv, Kept, Busy, Places, Clusters
<1>7. /\ size = SizeAfterWrite(before.size, off, len)
      /\ Clusters(before.size) <= Clusters(size)
  BY <1>1 DEF CInv, WrittenSoFar
<1>8. WrittenSoFar'
  BY <1>1, <1>5, <1>7 DEF WrittenSoFar, SizeAfterWrite, SizeAfterResize, Clusters
<1>9. QED
  BY <1>1, <1>6, <1>8 DEF ReadSoFar

\* A dense file is never asked to shrink.
LEMMA NeverShrinks ==
  ASSUME CInv, Dense
  PROVE  ~ext2_remove_clusters /\ \A s \in ResizeArgs : ~StartResize(s)
<1>1. ASSUME ext2_remove_clusters PROVE FALSE
  <2>1. Clusters(goal) < Clusters(size) /\ Clusters(goal) > Clusters(size)
    BY <1>1 DEF ext2_remove_clusters, CInv, HInv, GrowsOnly
  <2>2. Clusters(goal) \in Nat /\ Clusters(size) \in Nat
    BY ClustersInPointers DEF CInv, SInv, IInv
  <2>3. QED
    BY <2>1, <2>2
<1>2. QED
  BY <1>1 DEF Dense

LEMMA NextCInv ==
  ASSUME CInv, Dense, [Next]_vars
  PROVE  CInv'
<1>1. SInv' /\ HInv'
  BY NextSInv, NextHInv DEF CInv
<1>2. CASE Request
  <2>1. ASSUME NEW o \in 0 .. Capacity, NEW n \in 0 .. MaxLength, StartRead(o, n)
        PROVE  CInv'
    BY <1>1, <2>1, StartReadCInv DEF CInv
  <2>2. ASSUME NEW o \in 0 .. Capacity, NEW n \in 0 .. MaxLength, o + n <= Capacity,
               NEW data \in [0 .. n - 1 -> Payload], StartWrite(o, n, data)
        PROVE  CInv'
    BY <1>1, <2>2, StartWriteCInv DEF CInv
  <2>3. QED
    BY <1>2, <2>1, <2>2, NeverShrinks DEF Request
<1>3. CASE ext2_add_clusters
  BY <1>1, <1>3, AddCInv DEF CInv
<1>4. CASE AssignSize
  BY <1>1, <1>4, AssignCInv DEF CInv
<1>5. CASE CopyRead
  BY <1>1, <1>5, CopyReadCInv DEF CInv
<1>6. CASE CopyWrite
  BY <1>1, <1>6, CopyWriteCInv DEF CInv
<1>7. CASE Return \/ Crash
  <2>1. ~Busy'
    BY <1>7 DEF Return, Crash, Forget, Busy
  <2>2. QED
    BY <2>1, NotBusy
<1>8. CASE UNCHANGED vars
  <2>1. UNCHANGED <<device, size, block, pc, op, off, len, before, buff, size_copied>>
    BY <1>8 DEF vars, inode, call, loop
  <2>2. Content' = Content
    BY <2>1 DEF Content, Clusters, ext2_get_block
  <2>3. Kept'
    BY <2>1, <2>2 DEF CInv, Kept, Busy, Places, Clusters
  <2>4. ReadSoFar'
    BY <2>1, <2>2 DEF CInv, ReadSoFar, ReadLength
  <2>5. PrefixWritten' <=> PrefixWritten
    BY <2>1, <2>2 DEF PrefixWritten
  <2>6. WrittenSoFar'
    BY <2>1, <2>5 DEF CInv, WrittenSoFar, SizeAfterWrite, SizeAfterResize, Clusters
  <2>7. QED
    BY <1>1, <2>3, <2>4, <2>6 DEF CInv
<1>9. QED
  BY <1>2, <1>3, <1>4, <1>5, <1>6, <1>7, <1>8, NeverShrinks DEF Next, Progress

(******************************************************************************)
(* A write in progress has stored the prefix of its data that it counts, each *)
(* byte in its place, and changed nothing else in the file (ext2.c:258-333).  *)
(******************************************************************************)
THEOREM PrefixIsWritten ==
  ASSUME Dense
  PROVE  Spec => []PrefixWritten
<1>1. CInv => PrefixWritten
  BY DEF CInv, WrittenSoFar, PrefixWritten
<1>2. CInv /\ [Next]_vars => CInv'
  BY NextCInv
<1>3. QED
  BY <1>1, <1>2, InitCInv, PTL DEF Spec

--------------------------------------------------------------------------------
(******************************************************************************)
(* FileContent is implemented.                                                *)
(******************************************************************************)

LEMMA SameOps ==
  /\ Abstract!Empty = Empty
  /\ \A n : Abstract!Domain(n) = Places(n)
  /\ \A s, o, n : /\ Abstract!ReadLength(s, o, n) = ReadLength(s, o, n)
                  /\ Abstract!SizeAfterWrite(s, o, n) = SizeAfterWrite(s, o, n)
BY DEF Abstract!Empty, Empty, Abstract!Domain, Abstract!Clusters, Places, Clusters,
       Abstract!ReadLength, ReadLength, Abstract!SizeAfterWrite, SizeAfterWrite,
       Abstract!SizeAfterResize, SizeAfterResize

LEMMA InitMaps == Init => Abstract!Init
<1> SUFFICES ASSUME Init PROVE Abstract!Init
  OBVIOUS
<1>1. /\ pc = "idle" /\ op = "none" /\ off = 0 /\ before = NoCall
      /\ size \in 0 .. Capacity
  BY DEF Init
<1>2. Content \in [Places(size) -> Byte]
  BY InitCInv, ContentType DEF CInv, SInv, IInv
<1>3. QED
  BY <1>1, <1>2, SameOps DEF Abstract!Init, NoCall

LEMMA StartReadMaps ==
  ASSUME CInv, NEW o \in 0 .. Capacity, NEW n \in 0 .. MaxLength, StartRead(o, n)
  PROVE  Abstract!RequestRead
<1>1. /\ pc = "idle" /\ op' = "read" /\ off' = o /\ buff' = Empty
      /\ UNCHANGED <<device, size, block>>
      /\ before' = [size |-> size, bytes |-> Content, want |-> n]
      /\ pc' = IF o > size THEN "done" ELSE "copy"
  BY DEF StartRead, Arrive, inode
<1>2. Content' = Content
  BY <1>1, SameContent DEF CInv, SInv, IInv
<1>3. Abstract!Request("read", o, n, Empty, IF o > size THEN "done" ELSE "busy")
  BY <1>1, <1>2 DEF Abstract!Request
<1>4. QED
  BY <1>1, <1>3, SameOps DEF Abstract!RequestRead

LEMMA StartWriteMaps ==
  ASSUME CInv, NEW o \in 0 .. Capacity, NEW n \in 0 .. MaxLength, o + n <= Capacity,
         NEW data \in [0 .. n - 1 -> Payload], StartWrite(o, n, data)
  PROVE  Abstract!RequestWrite
<1>1. /\ pc = "idle" /\ op' = "write" /\ off' = o /\ buff' = data
      /\ UNCHANGED <<device, size, block>>
      /\ before' = [size |-> size, bytes |-> Content, want |-> n]
      /\ pc' \in {"clusters", "copy"}
  BY DEF StartWrite, Arrive, inode
<1>2. Content' = Content
  BY <1>1, SameContent DEF CInv, SInv, IInv
<1>3. Abstract!Request("write", o, n, data, "busy")
  BY <1>1, <1>2 DEF Abstract!Request
<1>4. data \in [0 .. n - 1 -> Byte]
  BY PayloadAssumption
<1>5. QED
  BY <1>3, <1>4 DEF Abstract!RequestWrite

\* The steps between a request and its last chunk are none of FileContent.
LEMMA Stutters ==
  ASSUME Busy, Busy', UNCHANGED <<op, off, before>>, op = "write" => UNCHANGED buff
  PROVE  UNCHANGED Abstract!vars
<1>1. pc \notin {"idle", "done"} /\ pc' \notin {"idle", "done"}
  BY DEF Busy
<1>2. QED
  BY <1>1 DEF Abstract!vars, Abstract!request

LEMMA CopyReadMaps ==
  ASSUME CInv, CopyRead
  PROVE  [Abstract!Next]_Abstract!vars
<1>1. /\ pc = "copy" /\ op = "read"
      /\ UNCHANGED <<device, size, block, op, off, len, before>>
  BY DEF CopyRead, Advance, inode, call
<1>2. CASE pc' = "copy"
  BY <1>1, <1>2, Stutters DEF Busy
<1>3. CASE pc' = "done"
  <2>1. /\ size = before.size /\ Content = before.bytes
        /\ len = ReadLength(size, off, before.want)
    BY <1>1 DEF CInv, Kept, Busy, ReadSoFar
  <2>2. Content' = Content
    BY <1>1, SameContent DEF CInv, SInv, IInv
  <2>3. buff' = [i \in 0 .. ReadLength(before.size, off, before.want) - 1 |->
                   before.bytes[off + i]]
    BY <1>3, <2>1, ReadGets
  <2>4. Abstract!CommitRead
    BY <1>1, <1>3, <2>1, <2>2, <2>3, SameOps DEF Abstract!CommitRead, Abstract!request
  <2>5. QED
    BY <2>4 DEF Abstract!Next
<1>4. QED
  BY <1>2, <1>3 DEF CopyRead, Advance

LEMMA CopyWriteMaps ==
  ASSUME CInv, CInv', Dense, CopyWrite
  PROVE  [Abstract!Next]_Abstract!vars
<1>1. /\ pc = "copy" /\ op = "write"
      /\ UNCHANGED <<size, block, op, off, len, before, buff>>
  BY DEF CopyWrite, Advance, inode, call
<1>2. CASE pc' = "copy"
  BY <1>1, <1>2, Stutters DEF Busy
<1>3. CASE pc' = "done"
  <2>1. size = SizeAfterWrite(before.size, off, len) /\ before.want = len
    BY <1>1 DEF CInv, Kept, Busy, WrittenSoFar
  <2>2. Content' \in [Places(size) -> Byte]
    BY <1>1, ContentTypeNext DEF CInv, SInv, IInv, Places, Clusters
  <2>3. \A p \in Places(size) :
          IF off <= p /\ p < off + len THEN Content'[p] = buff[p - off]
          ELSE p \in DOMAIN before.bytes => Content'[p] = before.bytes[p]
    BY <1>3, WriteStores
  <2>4. Abstract!NewSize = size
    BY <1>1, <2>1, SameOps DEF Abstract!NewSize
  <2>5. \A p : Abstract!Covered(p) <=> off <= p /\ p < off + len
    BY <2>1 DEF Abstract!Covered
  <2>6. Abstract!CommitWrite
    BY <1>1, <1>3, <2>2, <2>3, <2>4, <2>5, SameOps DEF Abstract!CommitWrite, Abstract!request
  <2>7. QED
    BY <2>6 DEF Abstract!Next
<1>4. QED
  BY <1>2, <1>3 DEF CopyWrite, Advance

LEMMA ReturnMaps ==
  ASSUME CInv, Return
  PROVE  Abstract!Return
<1>1. /\ pc = "done" /\ UNCHANGED <<device, size, block>>
      /\ pc' = "idle" /\ op' = "none" /\ off' = 0 /\ before' = NoCall
  BY DEF Return, Forget, inode
<1>2. Content' = Content
  BY <1>1, SameContent DEF CInv, SInv, IInv
<1>3. QED
  BY <1>1, <1>2, SameOps DEF Abstract!Return, Abstract!Forget, NoCall

\* What is left of a write that a death stops: each byte it covers is new or
\* old, and the others are as they were.
LEMMA PartlyStored ==
  ASSUME CInv, Dense, Crash, pc = "copy", op = "write", NEW p \in DOMAIN before.bytes
  PROVE  Content'[p] \in {before.bytes[p]} \cup
           (IF off <= p /\ p < off + len THEN {buff[p - off]} ELSE {})
<1>1. PICK S \in SUBSET Chunk : device' = Stored(S)
  BY DEF Crash
<1>2. UNCHANGED inode
  BY DEF Crash
<1>3. p \in Places(size) /\ p \in Int
  <2>1. p \in Places(before.size) /\ Clusters(before.size) <= Clusters(size)
        /\ before.size \in Nat
    BY Constants DEF CInv, Kept, Busy, WrittenSoFar
  <2>2. Clusters(before.size) \in Nat /\ Clusters(size) \in Nat
    BY <2>1, ClustersBounds, ClustersInPointers DEF CInv, SInv, IInv
  <2>3. QED
    BY <2>1, <2>2, Constants DEF Places
<1>4. Content'[p] = IF p \div BlockSize = blocks_offset /\ p % BlockSize \in S
                    THEN buff[p - off] ELSE Content[p]
  BY <1>1, <1>2, <1>3, StoreInPlace
<1>5. /\ off \in Nat /\ len \in Nat /\ size_copied \in 0 .. len
      /\ block_size_to_copy \in Nat /\ size_copied + block_size_to_copy <= len
  BY AtCopy DEF CInv, SInv
<1>6. CASE p \div BlockSize = blocks_offset /\ p % BlockSize \in S
  <2>1. off + size_copied <= p /\ p < off + size_copied + block_size_to_copy
    BY <1>1, <1>3, <1>6, ChunkPlaces DEF CInv, SInv
  <2>2. off <= p /\ p < off + len
    BY <1>3, <1>5, <2>1
  <2>3. QED
    BY <1>4, <1>6, <2>2
<1>7. CASE ~(p \div BlockSize = blocks_offset /\ p % BlockSize \in S)
  <2>1. IF off <= p /\ p < off + size_copied THEN Content[p] = buff[p - off]
        ELSE Content[p] = before.bytes[p]
    <3>1. p \in DOMAIN Content
      BY <1>3, ContentAt DEF CInv, SInv, IInv
    <3>2. QED
      BY <3>1 DEF CInv, WrittenSoFar, PrefixWritten
  <2>2. off <= p /\ p < off + size_copied => off <= p /\ p < off + len
    BY <1>3, <1>5
  <2>3. QED
    BY <1>4, <1>7, <2>1, <2>2
<1>8. QED
  BY <1>6, <1>7

LEMMA CrashMaps ==
  ASSUME CInv, CInv', Dense, Crash
  PROVE  Abstract!Crash
<1>1. /\ pc # "idle" /\ UNCHANGED <<size, block>>
      /\ pc' = "idle" /\ op' = "none" /\ off' = 0 /\ before' = NoCall
  BY DEF Crash, Forget, inode
<1>2. Content' \in [Places(size) -> Byte]
  BY <1>1, ContentTypeNext DEF CInv, SInv, IInv, Places, Clusters
<1>3. Abstract!Forget
  BY <1>1, SameOps DEF Abstract!Forget, NoCall
<1>4. CASE pc = "copy" /\ op = "write"
  <2>1. /\ size = SizeAfterWrite(before.size, off, len) /\ before.want = len
        /\ DOMAIN before.bytes = Places(before.size)
    BY <1>4 DEF CInv, Kept, Busy, WrittenSoFar
  <2>2. Abstract!NewSize = size
    BY <1>4, <2>1, SameOps DEF Abstract!NewSize
  <2>3. \A p : Abstract!Covered(p) <=> off <= p /\ p < off + len
    BY <2>1 DEF Abstract!Covered
  <2>4. \A p \in DOMAIN before.bytes :
          Content'[p] \in {before.bytes[p]} \cup
            (IF off <= p /\ p < off + len THEN {buff[p - off]} ELSE {})
    BY <1>4, PartlyStored
  <2>5. QED
    BY <1>1, <1>2, <1>3, <1>4, <2>2, <2>3, <2>4, SameOps DEF Abstract!Crash
<1>5. CASE ~(pc = "copy" /\ op = "write")
  <2>1. device' = device
    BY <1>5 DEF Crash, Stored
  <2>2. Content' = Content
    BY <1>1, <2>1, SameContent DEF CInv, SInv, IInv
  <2>3. pc \in {"clusters", "size", "copy", "done"}
    BY <1>1 DEF CInv, SInv, IInv, TypeOK
  <2>4. pc # "done" => size = before.size /\ Content = before.bytes
    BY <1>5, <2>3 DEF CInv, Kept, Busy
  <2>5. QED
    BY <1>1, <1>2, <1>3, <2>2, <2>3, <2>4, SameOps DEF Abstract!Crash
<1>6. QED
  BY <1>4, <1>5

LEMMA NextMaps ==
  ASSUME CInv, CInv', Dense, [Next]_vars
  PROVE  [Abstract!Next]_Abstract!vars
<1>1. CASE Request
  <2>1. ASSUME NEW o \in 0 .. Capacity, NEW n \in 0 .. MaxLength, StartRead(o, n)
        PROVE  Abstract!Next
    BY <2>1, StartReadMaps DEF Abstract!Next
  <2>2. ASSUME NEW o \in 0 .. Capacity, NEW n \in 0 .. MaxLength, o + n <= Capacity,
               NEW data \in [0 .. n - 1 -> Payload], StartWrite(o, n, data)
        PROVE  Abstract!Next
    BY <2>2, StartWriteMaps DEF Abstract!Next
  <2>3. QED
    BY <1>1, <2>1, <2>2, NeverShrinks DEF Request
<1>2. CASE ext2_add_clusters
  BY <1>2, Stutters DEF ext2_add_clusters, Busy, call
<1>3. CASE AssignSize
  <2>1. op = "write"
    BY <1>3 DEF AssignSize, CInv, Kept, Busy
  <2>2. QED
    BY <1>3, <2>1, Stutters DEF AssignSize, Busy, call
<1>4. CASE CopyRead
  BY <1>4, CopyReadMaps
<1>5. CASE CopyWrite
  BY <1>5, CopyWriteMaps
<1>6. CASE Return
  BY <1>6, ReturnMaps DEF Abstract!Next
<1>7. CASE Crash
  BY <1>7, CrashMaps DEF Abstract!Next
<1>8. CASE UNCHANGED vars
  <2>1. UNCHANGED <<device, size, block, pc, op, off, before, buff>>
    BY <1>8 DEF vars, inode, call
  <2>2. Content' = Content
    BY <2>1 DEF Content, Clusters, ext2_get_block
  <2>3. QED
    BY <2>1, <2>2 DEF Abstract!vars, Abstract!request
<1>9. QED
  BY <1>1, <1>2, <1>3, <1>4, <1>5, <1>6, <1>7, <1>8, NeverShrinks DEF Next, Progress

(******************************************************************************)
(* The loops of ext2_read_inode_data and ext2_write_inode_data make one read  *)
(* or write of the whole file, and a death in the middle of one leaves each   *)
(* byte it covers old or new and no other byte changed (ext2.c:258-353).      *)
(******************************************************************************)
THEOREM DenseFileIsItsContent ==
  ASSUME Dense
  PROVE  Spec => ImplementsFileContent
<1>1. Init => CInv /\ Abstract!Init
  BY InitCInv, InitMaps
<1>2. CInv /\ [Next]_vars => CInv'
  BY NextCInv
<1>3. CInv /\ CInv' /\ [Next]_vars => [Abstract!Next]_Abstract!vars
  BY NextMaps
<1>4. QED
  BY <1>1, <1>2, <1>3, PTL DEF Spec, ImplementsFileContent, Abstract!Spec

================================================================================
