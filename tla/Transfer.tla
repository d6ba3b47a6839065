-------------------------------- MODULE Transfer -------------------------------
(******************************************************************************)
(* The numbers of one read or write on their way from the kernel to the file: *)
(* the handlers of fuse_client.c put a 64-bit offset and length into 32-bit   *)
(* fields of the request, and the handlers of the server clamp a read to the  *)
(* size of the file and grow the file of a write, with sums of 32 and of 64   *)
(* bits.  The bytes themselves are in InodeData, the calls in FuseRpc.        *)
(******************************************************************************)
EXTENDS FileOps, FiniteSets

CONSTANTS
  Width,         \* 2^32: one more than the largest uint32_t
  Sizes,         \* sizes of the file
  Offsets,       \* offsets the kernel asks for (off_t)
  Lengths        \* lengths it asks for, all below Width

ASSUME TransferAssumption ==
  /\ Width \in Nat \ {0}
  /\ Sizes \subseteq 0 .. Width - 1 /\ Lengths \subseteq 0 .. Width - 1
  /\ Offsets \subseteq Nat

VARIABLES
  pc,          \* "idle", "sent", "answered" or "done"
  asked,       \* what the kernel wants: kind, offset, length
  request,     \* what the client sent
  size,        \* inode->size
  touched,     \* the bytes of the file read or written: first one, how many
  res          \* what the handler of the client returns

vars == <<pc, asked, request, size, touched, res>>

Uint32(n) == n % Width

Init ==
  /\ pc = "idle"
  /\ size \in Sizes
  /\ asked = [kind |-> "read", offset |-> 0, length |-> 0]
  /\ request = [offset |-> 0, length |-> 0]
  /\ touched = [first |-> 0, count |-> 0]
  /\ res = 0

\* fuse_ext2_read and fuse_ext2_write fill the query and send it.
Send(kind, offset, length) ==
  /\ pc = "idle"
  /\ pc' = "sent"
  /\ asked' = [kind |-> kind, offset |-> offset, length |-> length]
  /\ request' = [offset |-> Uint32(offset), length |-> length]
  /\ UNCHANGED <<size, touched, res>>

\* Mutated form: the length is clamped to the size, not to what is left of it.
ClampToSize(n, offset, length) ==
  IF offset > n THEN 0 ELSE IF Uint32(offset + length) > n THEN n ELSE length

(******************************************************************************)
(* size_to_read of ext2_service__read.  Where the sum does not wrap this is   *)
(* ReadLength of FileOps.                                                     *)
(******************************************************************************)
size_to_read(n, offset, length) ==
  IF offset > n THEN 0
  ELSE IF Uint32(offset + length) > n THEN n - offset ELSE length

ServeRead ==
  /\ pc = "sent" /\ asked.kind = "read"
  /\ pc' = "answered"
  /\ touched' = [first |-> request.offset,
                 count |-> size_to_read(size, request.offset, request.length)]
  /\ UNCHANGED <<asked, request, size, res>>

\* Mutated form: the size grows by the length of the write.
GrownByLength(n, offset, length) == IF offset + length > n THEN Uint32(n + length) ELSE n

(******************************************************************************)
(* ext2_write_inode_data: the sum is one of 64 bits, its place in the inode   *)
(* has 32.  A resize within the last cluster leaves the size alone.           *)
(******************************************************************************)
Grown(n, offset, length) == Uint32(SizeAfterWrite(n, offset, length))

ServeWrite ==
  /\ pc = "sent" /\ asked.kind = "write"
  /\ pc' = "answered"
  /\ size' = Grown(size, request.offset, request.length)
  /\ touched' = [first |-> request.offset, count |-> request.length]
  /\ UNCHANGED <<asked, request, res>>

\* The closures: a read returns what it copied to the buffer, a write 0.
Receive ==
  /\ pc = "answered"
  /\ pc' = "done"
  /\ res' = IF asked.kind = "read" THEN touched.count ELSE 0
  /\ UNCHANGED <<asked, request, size, touched>>

\* The next request of the kernel.
Again ==
  /\ pc = "done"
  /\ pc' = "idle"
  /\ UNCHANGED <<asked, request, size, touched, res>>

Next ==
  \/ \E kind \in {"read", "write"}, o \in Offsets, n \in Lengths : Send(kind, o, n)
  \/ ServeRead \/ ServeWrite \/ Receive \/ Again

Spec == Init /\ [][Next]_vars

--------------------------------------------------------------------------------
Served(kind) == pc \in {"answered", "done"} /\ asked.kind = kind

(******************************************************************************)
(* Whatever wraps on the way, a read never brings more than the kernel has    *)
(* room for: the client copies the answer into the buffer without a look.     *)
(******************************************************************************)
AnswerFitsBuffer == Served("read") => touched.count <= asked.length

\* The request ends below 4 GiB, so that nothing wraps.
Fits == asked.offset + asked.length < Width

(******************************************************************************)
(* A read or write that ends below 4 GiB is of the bytes the kernel means,    *)
(* and a read gets those of them that are in the file.                        *)
(******************************************************************************)
RightBytes ==
  (Served("read") \/ Served("write")) /\ Fits =>
    /\ touched.count > 0 => touched.first = asked.offset
    /\ asked.kind = "write" => touched.count = asked.length
    /\ asked.kind = "read" =>
         touched.count =
           Cardinality({p \in asked.offset .. asked.offset + asked.length - 1 : p < size})

(******************************************************************************)
(* Bytes beyond the end of the file are read only by a request whose end      *)
(* wraps to a place inside it.                                                *)
(******************************************************************************)
OnlyWrappedReadsPassTheEnd ==
  Served("read") /\ touched.first <= size /\ touched.first + touched.count > size =>
    request.offset + request.length >= Width

(******************************************************************************)
(* A file never loses bytes to a write, unless the write ends beyond 4 GiB.   *)
(******************************************************************************)
WritesNeverShrink ==
  [][request'.offset + request'.length < Width => size' >= size]_vars
================================================================================
