-------------------------------- MODULE FsCalls --------------------------------
(******************************************************************************)
(* The file system calls that travel from the FUSE client to the server, and  *)
(* what the server answers to each.  Files lie in the root directory, and a   *)
(* file holds one value: its bytes are the matter of InodeData.               *)
(******************************************************************************)
CONSTANTS
  Root,         \* the path of the root directory
  Names,        \* names asked for
  Present,      \* names of the files of the root directory
  Value,        \* what a file can hold
  NoValue,      \* what a request that is not a write carries
  Ops           \* the calls made: a subset of the four operations

ASSUME FsCallsAssumption ==
  /\ Present \subseteq Names
  /\ Root \notin Names
  /\ NoValue \notin Value
  /\ Ops \subseteq {"getattr", "readdir", "read", "write"}

(******************************************************************************)
(* Requests and answers.  A readdir asks for the root directory or for what   *)
(* is not there; a getattr asks for any path.                                 *)
(******************************************************************************)
Requests ==
  [op : Ops \cap {"readdir"}, path : {Root} \cup (Names \ Present), data : {NoValue}]
    \cup [op : Ops \cap {"getattr"}, path : Names \cup {Root}, data : {NoValue}]
    \cup [op : Ops \cap {"read"}, path : Names, data : {NoValue}]
    \cup [op : Ops \cap {"write"}, path : Names, data : Value]

Codes == {"ok", "ENOENT"}
Answers == [code : Codes, data : SUBSET (Names \cup {Root} \cup Value)]
Nothing == [code |-> "ok", data |-> {}]
NotFound == [code |-> "ENOENT", data |-> {}]

(******************************************************************************)
(* The server's four handlers: ext2_service__read_dir, __get_attr, __read and *)
(* __write.  A response with error set, or fileexist not, is NotFound.        *)
(******************************************************************************)

\* read_dir has no error to answer: a path without a list has no elements.
Listing(path) == IF path = Root THEN Present ELSE {}

\* Mutated form: the read of a missing file answers a buffer never filled.
AnswerUnfilled(files, r) ==
  CASE r.op = "readdir" -> [code |-> "ok", data |-> Listing(r.path)]
    [] r.op = "getattr" -> IF r.path \in Present \cup {Root}
                           THEN [code |-> "ok", data |-> {r.path}] ELSE NotFound
    [] r.op = "read"    -> [code |-> "ok", data |->
                             {IF r.path \in Present THEN files[r.path] ELSE NoValue}]
    [] r.op = "write"   -> IF r.path \in Present THEN Nothing ELSE NotFound

Answer(files, r) ==
  CASE r.op = "readdir" -> [code |-> "ok", data |-> Listing(r.path)]
    [] r.op = "getattr" -> IF r.path \in Present \cup {Root}
                           THEN [code |-> "ok", data |-> {r.path}] ELSE NotFound
    [] r.op = "read"    -> IF r.path \in Present
                           THEN [code |-> "ok", data |-> {files[r.path]}] ELSE NotFound
    [] r.op = "write"   -> IF r.path \in Present THEN Nothing ELSE NotFound

After(files, r) ==
  IF r.op = "write" /\ r.path \in Present THEN [files EXCEPT ![r.path] = r.data] ELSE files

NoRequest == [op |-> "none", path |-> Root, data |-> NoValue]
================================================================================
