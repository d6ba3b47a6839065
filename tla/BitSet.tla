-------------------------------- MODULE BitSet ---------------------------------
(******************************************************************************)
(* What a bit array promises: a set of the bits below a bound, to which bits  *)
(* are added, from which they are removed, and which is asked for one.  The   *)
(* callers of bitarray.c count on nothing else.                               *)
(******************************************************************************)
EXTENDS Integers

CONSTANTS Bound, Requests    \* bits are 0 .. Bound - 1; a request names any number

VARIABLES marked, answer     \* the bits that are set, the answer of the last test

Bits == 0 .. Bound - 1

Init == marked \in SUBSET Bits /\ answer = FALSE

\* A request beyond the bound is ignored.
Set(bit) == marked' = marked \cup ({bit} \cap Bits) /\ UNCHANGED answer

Clean(bit) == marked' = marked \ {bit} /\ UNCHANGED answer

Test(bit) == bit \in Bits /\ answer' = (bit \in marked) /\ UNCHANGED marked

Next == \E bit \in Requests : Set(bit) \/ Clean(bit) \/ Test(bit)

Spec == Init /\ [][Next]_<<marked, answer>>
================================================================================
