------------------------------ MODULE RemoteCalls ------------------------------
(******************************************************************************)
(* What the file system calls promise the kernel, with no messages, loops or  *)
(* closures: a call is served at most once, at one instant between its start  *)
(* and its return, and returns what it was served.  A call may also be lost   *)
(* with the server, having taken effect or not; then it never returns.        *)
(*                                                                            *)
(* Two things the code does are part of it: a read that failed never returns, *)
(* and a write that returns gives 0, also when the server reported an error.  *)
(******************************************************************************)
EXTENDS FsCalls

CONSTANT Threads        \* worker threads of the FUSE client

VARIABLES
  files,        \* what each file holds
  phase,        \* of each thread: "idle", "called", "served" or "lost"
  req,          \* its call
  answer,       \* what it was served
  result        \* what its last call to return gave the kernel

vars == <<files, phase, req, answer, result>>

Init ==
  /\ files \in [Present -> Value]
  /\ phase = [t \in Threads |-> "idle"]
  /\ req = [t \in Threads |-> NoRequest]
  /\ answer = [t \in Threads |-> Nothing]
  /\ result = [t \in Threads |-> Nothing]

\* Called, or lost from the start: the server is gone already.
Call(t) ==
  /\ phase[t] = "idle"
  /\ \E r \in Requests : req' = [req EXCEPT ![t] = r]
  /\ \E p \in {"called", "lost"} : phase' = [phase EXCEPT ![t] = p]
  /\ UNCHANGED <<files, answer, result>>

Serve(t) ==
  /\ phase[t] = "called"
  /\ answer' = [answer EXCEPT ![t] = Answer(files, req[t])]
  /\ files' = After(files, req[t])
  /\ phase' = [phase EXCEPT ![t] = "served"]
  /\ UNCHANGED <<req, result>>

\* The server is gone with the calls it has not answered, at most one of which
\* took effect.
Lose ==
  /\ phase' = [t \in Threads |-> IF phase[t] = "called" THEN "lost" ELSE phase[t]]
  /\ \/ files' = files
     \/ \E t \in Threads : phase[t] = "called" /\ files' = After(files, req[t])
  /\ UNCHANGED <<req, answer, result>>

Return(t) ==
  /\ phase[t] = "served"
  /\ req[t].op = "read" => answer[t].code = "ok"
  /\ result' = [result EXCEPT ![t] = IF req[t].op = "write" THEN Nothing ELSE answer[t]]
  /\ phase' = [phase EXCEPT ![t] = "idle"]
  /\ req' = [req EXCEPT ![t] = NoRequest]
  /\ answer' = [answer EXCEPT ![t] = Nothing]
  /\ UNCHANGED files

Next == Lose \/ \E t \in Threads : Call(t) \/ Serve(t) \/ Return(t)

Spec == Init /\ [][Next]_vars
================================================================================
