------------------------------ MODULE FileContent ------------------------------
(******************************************************************************)
(* What ext2_service__read and ext2_service__write promise of one file, with  *)
(* no blocks, pointers or loops: a size, bytes, and requests served one at a  *)
(* time, each taking effect at once.  InodeData implements it as long as the  *)
(* file has no holes.                                                         *)
(*                                                                            *)
(* Two facts of the code that a reader might not expect are in here: a write  *)
(* that grows the file inside its last cluster leaves the size as it was, and *)
(* the bytes of a new cluster that the write does not cover are arbitrary     *)
(* (nothing clears a block given to a file).                                  *)
(******************************************************************************)
EXTENDS FileOps

CONSTANTS Byte, Capacity, MaxLength

VARIABLES
  size, bytes,          \* bytes of all the clusters of the file
  phase,                \* "idle", "busy" or "done"
  op, off, want,        \* the request: kind, offset, length
  input, answer         \* what a write stores, what a read got

request == <<op, off, want, input>>
vars == <<size, bytes, phase, request, answer>>

Empty == [i \in {} |-> 0]
Domain(n) == 0 .. Clusters(n) * BlockSize - 1
Covered(p) == off <= p /\ p < off + want
NewSize == SizeAfterWrite(size, off, want)

Init ==
  /\ size \in 0 .. Capacity
  /\ bytes \in [Domain(size) -> Byte]
  /\ phase = "idle"
  /\ op = "none" /\ off = 0 /\ want = 0 /\ input = Empty
  /\ answer = Empty

Request(kind, o, n, data, phase_next) ==
  /\ phase = "idle"
  /\ op' = kind /\ off' = o /\ want' = n /\ input' = data
  /\ phase' = phase_next
  /\ UNCHANGED <<size, bytes, answer>>

\* A read beyond the size is answered, with nothing, as soon as it arrives.
RequestRead == \E o \in 0 .. Capacity, n \in 0 .. MaxLength :
  Request("read", o, n, Empty, IF o > size THEN "done" ELSE "busy")

RequestWrite == \E o \in 0 .. Capacity, n \in 0 .. MaxLength :
  /\ o + n <= Capacity
  /\ \E data \in [0 .. n - 1 -> Byte] : Request("write", o, n, data, "busy")

CommitRead ==
  /\ phase = "busy" /\ op = "read"
  /\ answer' = [i \in 0 .. ReadLength(size, off, want) - 1 |-> bytes[off + i]]
  /\ phase' = "done"
  /\ UNCHANGED <<size, bytes, request>>

CommitWrite ==
  /\ phase = "busy" /\ op = "write"
  /\ size' = NewSize
  /\ bytes' \in [Domain(NewSize) -> Byte]
  /\ \A p \in Domain(NewSize) :
       bytes'[p] = IF Covered(p) THEN input[p - off]
                   ELSE IF p \in DOMAIN bytes THEN bytes[p] ELSE bytes'[p]
  /\ phase' = "done"
  /\ UNCHANGED <<request, answer>>

Forget ==
  /\ phase' = "idle"
  /\ op' = "none" /\ off' = 0 /\ want' = 0 /\ input' = Empty /\ answer' = Empty

Return ==
  /\ phase = "done"
  /\ Forget
  /\ UNCHANGED <<size, bytes>>

(******************************************************************************)
(* The server dies.  A write may have reached any of the bytes it covers, and *)
(* has changed no other byte of the file.                                     *)
(******************************************************************************)
Crash ==
  /\ phase # "idle"
  /\ Forget
  /\ size' \in IF phase = "busy" /\ op = "write" THEN {size, NewSize} ELSE {size}
  /\ bytes' \in [Domain(size') -> Byte]
  /\ \A p \in DOMAIN bytes :
       bytes'[p] \in {bytes[p]} \cup
         IF phase = "busy" /\ op = "write" /\ Covered(p) THEN {input[p - off]} ELSE {}

Next == RequestRead \/ RequestWrite \/ CommitRead \/ CommitWrite \/ Return \/ Crash

Spec == Init /\ [][Next]_vars
================================================================================
