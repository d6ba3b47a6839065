----------------------------- MODULE MCInodeData -------------------------------
(******************************************************************************)
(* Small instances of InodeData.                                              *)
(******************************************************************************)
EXTENDS InodeData

\* Block 0 holds the boot block; the others hold what deleted files left there.
Formatted ==
  {[b \in Blocks |-> [i \in Offsets |-> IF b = 0 THEN "boot" ELSE "old"]]}
================================================================================
