------------------------------- MODULE MCServer --------------------------------
(******************************************************************************)
(* What the server works out for a request, each part of it by itself: where  *)
(* its groups and inodes are (Volume), which inode a path names (Directory),  *)
(* which block an entry of a file is (BlockMap), and what becomes of offset   *)
(* and length (Transfer).  The parts keep no state in common, so a behaviour  *)
(* is that of one of them, and the others stay at rest.                       *)
(******************************************************************************)
EXTENDS Transfer, Volume, BlockMap, Directory, Images

VARIABLE part                                            \* the part that runs

all == <<part, vars, volumeVars, directoryVars, mapVars>>

Some(S) == CHOOSE x \in S : TRUE

\* A part at rest has one state.
ServerInit ==
  /\ part \in {"volume", "directory", "map", "transfer"}
  /\ fs \in [superblock : IF part = "volume" THEN Superblocks ELSE {Some(Superblocks)},
            number_of_block_groups : {0}]
  /\ tree \in IF part = "directory" THEN Trees ELSE {Some(Trees)}
  /\ block \in IF part = "map" THEN Inodes ELSE {Some(Inodes)}
  /\ device \in IF part = "map" THEN Devices ELSE {Some(Devices)}
  /\ size \in IF part = "transfer" THEN Sizes ELSE {Some(Sizes)}
  /\ VolumeInit /\ DirectoryInit /\ MapInit /\ Init

VolumeStep ==
  part = "volume" /\ VolumeNext /\ UNCHANGED <<part, vars, directoryVars, mapVars>>

OthersRest == UNCHANGED <<part, vars, volumeVars, mapVars>>

DirectoryStep == part = "directory" /\ DirectoryNext /\ OthersRest

MapStep ==
  part = "map" /\ MapNext /\ UNCHANGED <<part, vars, volumeVars, directoryVars>>

TransferStep ==
  part = "transfer" /\ Next /\ UNCHANGED <<part, volumeVars, directoryVars, mapVars>>

ServerNext == VolumeStep \/ DirectoryStep \/ MapStep \/ TransferStep

\* A call of the server's one thread runs on until it ends.
ServerSpec ==
  /\ ServerInit /\ [][ServerNext]_all
  /\ WF_all(part = "directory" /\ WalkStep /\ OthersRest)
================================================================================
