-------------------------------- MODULE FuseRpc --------------------------------
(******************************************************************************)
(* The FUSE client (fuse_client.c), its RPC connection and the server loop    *)
(* (ext2_server.c).                                                           *)
(*                                                                            *)
(* libfuse runs a handler of the client in a worker thread per call.  Each    *)
(* handler sends its request and then runs the one dispatch loop the process  *)
(* has until its is_done is set.  Any thread's dispatch may read any thread's *)
(* response, and runs the closure of that response's handler, which stores    *)
(* into the other thread's stack frame.  With the -s option of libfuse there  *)
(* is a single worker.                                                        *)
(*                                                                            *)
(* External: libfuse (the worker threads) and protobuf-c-rpc (dispatch, the   *)
(* connection, request ids, a closure called with NULL when the connection is *)
(* lost).  The steps inside one dispatch are atomic here but for the stores   *)
(* of the closures, whose order is the client's own code.                     *)
(******************************************************************************)
EXTENDS FsCalls, Sequences, SequencesExt, FiniteSets

CONSTANT Threads        \* worker threads of the FUSE client

ASSUME FuseRpcAssumption == IsFiniteSet(Threads) /\ Threads # {}

VARIABLES
  files,                \* what the image holds, file by file
  serverUp,
  link,                 \* "up"; "broken": lost, not noticed; "down": noticed
  clientUp,
  requests, responses,  \* the two directions of the connection
  pc,                   \* of each thread: see TypeOK
  req,                  \* query of the handler running in it
  isDone,               \* is_done of its frame
  out,                  \* res, and the buffer the closure fills, of its frame
  waiting,              \* threads whose closure the library still has
  batch,                \* responses read by the dispatch a thread is running
  result,               \* what the last handler to return gave libfuse
  served                \* history: what the server answered the call

client == <<pc, req, isDone, out, waiting, batch, result>>
wire == <<link, requests, responses>>
vars == <<files, serverUp, clientUp, client, wire, served>>

Serial == Cardinality(Threads) = 1

\* Closure stages: "new", not begun; "fill", a getattr that has set is_done and
\* not yet res or stbuf; "late", the same after the frame it fills has gone.
Responses == [to : Threads, op : Ops, answer : Answers, stage : {"new", "fill", "late"}]

InCall(t) == pc[t] # "idle"

--------------------------------------------------------------------------------
(******************************************************************************)
(* A handler begins: the frame is set up and the request handed to the        *)
(* library.  With the connection known to be lost, the library calls the      *)
(* closure with NULL at once, and it dereferences it: the client dies.        *)
(******************************************************************************)
Call(t) ==
  /\ clientUp /\ pc[t] = "idle"
  /\ link # "down"
  /\ \E r \in Requests :
       /\ req' = [req EXCEPT ![t] = r]
       /\ requests' = IF link = "up" THEN Append(requests, [from |-> t, request |-> r])
                                     ELSE requests
  /\ pc' = [pc EXCEPT ![t] = "test"]
  /\ isDone' = [isDone EXCEPT ![t] = FALSE]
  /\ out' = [out EXCEPT ![t] = Nothing]
  /\ waiting' = waiting \cup {t}
  /\ UNCHANGED <<files, serverUp, clientUp, link, responses, batch, result, served>>

CallWithoutLink(t) ==
  /\ clientUp /\ pc[t] = "idle"
  /\ link = "down"
  /\ clientUp' = FALSE
  /\ UNCHANGED <<files, serverUp, client, wire, served>>

\* while (!is_done)
LoopTest(t) ==
  /\ clientUp /\ pc[t] = "test"
  /\ pc' = [pc EXCEPT ![t] = IF isDone[t] THEN "return" ELSE "dispatch"]
  /\ UNCHANGED <<files, serverUp, clientUp, wire, req, isDone, out, waiting, batch,
                 result, served>>

(******************************************************************************)
(* protobuf_c_dispatch_run: it sleeps until there is something to read, and   *)
(* reads one or more responses, whoever they are for.                         *)
(******************************************************************************)
DispatchRun(t) ==
  /\ clientUp /\ pc[t] = "dispatch"
  /\ \E n \in 1 .. Len(responses) :
       /\ batch' = [batch EXCEPT ![t] = SubSeq(responses, 1, n)]
       /\ responses' = SubSeq(responses, n + 1, Len(responses))
  /\ pc' = [pc EXCEPT ![t] = "closure"]
  /\ UNCHANGED <<files, serverUp, clientUp, link, requests, req, isDone, out, waiting,
                 result, served>>

\* The sleep may also end because of a response another thread has read since.
WokenTooLate(t) ==
  /\ clientUp /\ pc[t] = "dispatch" /\ isDone[t]
  /\ pc' = [pc EXCEPT ![t] = "test"]
  /\ UNCHANGED <<files, serverUp, clientUp, wire, req, isDone, out, waiting, batch,
                 result, served>>

\* Mutated form: the closures are forgotten with the connection.
FindLinkLostSilently(t) ==
  /\ clientUp /\ pc[t] = "dispatch"
  /\ link = "broken" /\ responses = <<>>
  /\ link' = "down"
  /\ pc' = [pc EXCEPT ![t] = "test"]
  /\ UNCHANGED <<files, serverUp, clientUp, requests, responses, req, isDone, out, waiting,
                 batch, result, served>>

(******************************************************************************)
(* The connection is found lost: every closure the library still has is       *)
(* called with NULL, which none of the four handlers allows for.              *)
(******************************************************************************)
FindLinkLost(t) ==
  /\ clientUp /\ pc[t] = "dispatch"
  /\ link = "broken" /\ responses = <<>>
  /\ IF waiting # {}
       THEN /\ clientUp' = FALSE
            /\ UNCHANGED <<link, pc>>
       ELSE /\ link' = "down"
            /\ pc' = [pc EXCEPT ![t] = "test"]
            /\ UNCHANGED clientUp
  /\ UNCHANGED <<files, serverUp, requests, responses, req, isDone, out, waiting, batch,
                 result, served>>

\* The library connects again, while some thread dispatches.
Reconnect(t) ==
  /\ clientUp /\ pc[t] = "dispatch"
  /\ link = "down" /\ serverUp
  /\ link' = "up"
  /\ pc' = [pc EXCEPT ![t] = "test"]
  /\ UNCHANGED <<files, serverUp, clientUp, requests, responses, req, isDone, out, waiting,
                 batch, result, served>>

--------------------------------------------------------------------------------
(******************************************************************************)
(* The closures.  Thread t runs the closure of the first response it has      *)
(* read, in the frame of thread u.                                            *)
(******************************************************************************)
Running(t, op, stage) ==
  /\ clientUp /\ pc[t] = "closure"
  /\ Head(batch[t]).op = op /\ Head(batch[t]).stage = stage

\* Mutated form: the handler dispatches once instead of until is_done.
FinishAndReturn(t) ==
  /\ batch' = [batch EXCEPT ![t] = Tail(batch[t])]
  /\ pc' = [pc EXCEPT ![t] = IF Len(batch[t]) = 1 THEN "return" ELSE "closure"]

\* The closure returns; the next one runs, or the dispatch is over.
Finish(t) ==
  /\ batch' = [batch EXCEPT ![t] = Tail(batch[t])]
  /\ pc' = [pc EXCEPT ![t] = IF Len(batch[t]) = 1 THEN "test" ELSE "closure"]

\* The closure stores into the frame of u: what it fills, and whether is_done.
Store(u, filled, done) ==
  /\ out' = [out EXCEPT ![u] = filled]
  /\ isDone' = [isDone EXCEPT ![u] = done]
  /\ waiting' = waiting \ {u}

Elsewhere == <<files, serverUp, clientUp, wire, req, result, served>>

\* Mutated form: as in read, a missing file returns before is_done.
GetattrDoneIfFound(t) ==
  LET u == Head(batch[t]).to IN
  /\ Running(t, "getattr", "new")
  /\ isDone' = [isDone EXCEPT ![u] = Head(batch[t]).answer.code = "ok"]
  /\ batch' = [batch EXCEPT ![t][1].stage = "fill"]
  /\ waiting' = waiting \ {u}
  /\ UNCHANGED <<Elsewhere, pc, out>>

\* *(protobuf_c_boolean *) closure_data = 1, the first statement for getattr ...
GetattrDone(t) ==
  LET u == Head(batch[t]).to IN
  /\ Running(t, "getattr", "new")
  /\ isDone' = [isDone EXCEPT ![u] = TRUE]
  /\ batch' = [batch EXCEPT ![t][1].stage = "fill"]
  /\ waiting' = waiting \ {u}
  /\ UNCHANGED <<Elsewhere, pc, out>>

\* ... and then res or stbuf.
GetattrFill(t) ==
  LET m == Head(batch[t]) IN
  /\ Running(t, "getattr", "fill")
  /\ out' = [out EXCEPT ![m.to] = m.answer]
  /\ Finish(t)
  /\ UNCHANGED <<Elsewhere, isDone, waiting>>

\* The frame has gone: what lies there now, a later frame of the same thread
\* included, may or may not be hit.
GetattrFillLate(t) ==
  LET m == Head(batch[t]) IN
  /\ Running(t, "getattr", "late")
  /\ \/ UNCHANGED out
     \/ InCall(m.to) /\ out' = [out EXCEPT ![m.to] = m.answer]
  /\ Finish(t)
  /\ UNCHANGED <<Elsewhere, isDone, waiting>>

\* filler() for each element, then is_done.
ReaddirClosure(t) ==
  LET m == Head(batch[t]) IN
  /\ Running(t, "readdir", "new")
  /\ Store(m.to, m.answer, TRUE)
  /\ Finish(t)
  /\ UNCHANGED Elsewhere

\* An error sets res and returns: is_done stays unset.
ReadClosure(t) ==
  LET m == Head(batch[t]) IN
  /\ Running(t, "read", "new")
  /\ Store(m.to, m.answer, m.answer.code = "ok")
  /\ Finish(t)
  /\ UNCHANGED Elsewhere

(******************************************************************************)
(* The closure of write takes the response for a ReadResponse, and reads      *)
(* error at an offset beyond the end of a WriteResponse: it may find          *)
(* anything, whatever the server answered.                                    *)
(******************************************************************************)
WriteClosure(t) ==
  LET m == Head(batch[t]) IN
  /\ Running(t, "write", "new")
  /\ \E error \in BOOLEAN : Store(m.to, IF error THEN NotFound ELSE Nothing, ~error)
  /\ Finish(t)
  /\ UNCHANGED Elsewhere

Closure(t) ==
  \/ GetattrDone(t) \/ GetattrFill(t) \/ GetattrFillLate(t)
  \/ ReaddirClosure(t) \/ ReadClosure(t) \/ WriteClosure(t)

\* return res: the frame is gone, and a getattr still filling it is late.
Return(t) ==
  /\ clientUp /\ pc[t] = "return"
  /\ pc' = [pc EXCEPT ![t] = "idle"]
  /\ result' = [result EXCEPT ![t] = out[t]]
  /\ req' = [req EXCEPT ![t] = NoRequest]
  /\ isDone' = [isDone EXCEPT ![t] = FALSE]
  /\ out' = [out EXCEPT ![t] = Nothing]
  /\ served' = [served EXCEPT ![t] = Nothing]
  /\ batch' = [u \in Threads |->
       [i \in DOMAIN batch[u] |->
          IF batch[u][i].to = t /\ batch[u][i].stage = "fill"
          THEN [batch[u][i] EXCEPT !.stage = "late"] ELSE batch[u][i]]]
  /\ UNCHANGED <<files, serverUp, clientUp, wire, waiting>>

--------------------------------------------------------------------------------
(******************************************************************************)
(* The server.  Its loop runs one handler at a time; a handler answers by its *)
(* closure before it returns.                                                 *)
(******************************************************************************)
ServerHandle ==
  LET m == Head(requests) IN
  /\ serverUp /\ requests # <<>>
  /\ files' = After(files, m.request)
  /\ requests' = Tail(requests)
  /\ responses' = Append(responses,
       [to |-> m.from, op |-> m.request.op, answer |-> Answer(files, m.request),
        stage |-> "new"])
  /\ served' = [served EXCEPT ![m.from] = Answer(files, m.request)]
  /\ UNCHANGED <<serverUp, clientUp, link, client>>

\* Mutated form: what was not answered is tried again by the next server.
ServerDiesKeepingRequests ==
  /\ serverUp
  /\ serverUp' = FALSE
  /\ files' \in {files} \cup
       (IF requests = <<>> THEN {} ELSE {After(files, Head(requests).request)})
  /\ link' = IF link = "up" THEN "broken" ELSE link
  /\ UNCHANGED <<clientUp, requests, responses, client, served>>

(******************************************************************************)
(* The server dies.  What it has sent can still be read; what it has not      *)
(* handled is lost, but the first request may have taken effect.              *)
(******************************************************************************)
ServerDies ==
  /\ serverUp
  /\ serverUp' = FALSE
  /\ files' \in {files} \cup
       (IF requests = <<>> THEN {} ELSE {After(files, Head(requests).request)})
  /\ requests' = <<>>
  /\ link' = IF link = "up" THEN "broken" ELSE link
  /\ UNCHANGED <<clientUp, responses, client, served>>

ServerStarts ==
  /\ ~serverUp
  /\ serverUp' = TRUE
  /\ UNCHANGED <<files, clientUp, client, wire, served>>

--------------------------------------------------------------------------------
\* main has connected before libfuse runs any handler.
Init ==
  /\ files \in [Present -> Value]
  /\ serverUp = TRUE /\ clientUp = TRUE /\ link = "up"
  /\ requests = <<>> /\ responses = <<>>
  /\ pc = [t \in Threads |-> "idle"]
  /\ req = [t \in Threads |-> NoRequest]
  /\ isDone = [t \in Threads |-> FALSE]
  /\ out = [t \in Threads |-> Nothing]
  /\ waiting = {}
  /\ batch = [t \in Threads |-> <<>>]
  /\ result = [t \in Threads |-> Nothing]
  /\ served = [t \in Threads |-> Nothing]

Step(t) ==
  \/ LoopTest(t) \/ DispatchRun(t) \/ FindLinkLost(t) \/ Closure(t) \/ Return(t)

Next ==
  \/ \E t \in Threads :
       Call(t) \/ CallWithoutLink(t) \/ Step(t) \/ WokenTooLate(t) \/ Reconnect(t)
  \/ ServerHandle \/ ServerDies \/ ServerStarts

(******************************************************************************)
(* Threads that can run do run, and a server that is up serves.  No fairness  *)
(* for new calls, deaths, restarts, reconnection or late wake-ups.            *)
(******************************************************************************)
Fairness == WF_vars(ServerHandle) /\ \A t \in Threads : WF_vars(Step(t))

Spec == Init /\ [][Next]_vars /\ Fairness

--------------------------------------------------------------------------------
(******************************************************************************)
(* Properties.                                                                *)
(******************************************************************************)
TypeOK ==
  /\ files \in [Present -> Value]
  /\ serverUp \in BOOLEAN /\ clientUp \in BOOLEAN
  /\ link \in {"up", "broken", "down"}
  /\ requests \in Seq([from : Threads, request : Requests])
  /\ responses \in Seq(Responses)
  /\ pc \in [Threads -> {"idle", "test", "dispatch", "closure", "return"}]
  /\ req \in [Threads -> Requests \cup {NoRequest}]
  /\ isDone \in [Threads -> BOOLEAN]
  /\ waiting \subseteq Threads
  /\ batch \in [Threads -> Seq(Responses)]
  /\ \A f \in {out, result, served} : f \in [Threads -> Answers]

\* The messages of one call of t that have not reached its closure.
UnansweredOf(t) ==
  {<<"request", i>> : i \in {j \in DOMAIN requests : requests[j].from = t}} \cup
  {<<"response", i>> : i \in {j \in DOMAIN responses : responses[j].to = t}} \cup
  UNION {{<<u, i>> : i \in {j \in DOMAIN batch[u] :
                              batch[u][j].to = t /\ batch[u][j].stage = "new"}}
           : u \in Threads}

(******************************************************************************)
(* A call has at most one message under way, request or response, in the      *)
(* connection or read by whatever thread; and while it has one, its handler   *)
(* is in its loop and is_done is not set.  So a closure, which is run by any  *)
(* thread, always begins in a frame that is there (fuse_client.c:24-42).      *)
(******************************************************************************)
FrameAlive ==
  clientUp =>
    \A t \in Threads :
      /\ Cardinality(UnansweredOf(t)) <= 1
      /\ UnansweredOf(t) # {} => InCall(t) /\ ~isDone[t] /\ t \in waiting

(******************************************************************************)
(* Every closure is run in the end, by some thread, unless the client dies:   *)
(* whoever reads a response, and whatever happens to the server.              *)
(******************************************************************************)
EveryClosureRuns ==
  \A t \in Threads : t \in waiting ~> t \notin waiting \/ ~clientUp

(******************************************************************************)
(* With one worker, a getattr and a readdir return, unless the client dies.   *)
(* (With several, a thread that tests is_done just before another thread      *)
(* handles its response may sleep in its dispatch for ever.)                  *)
(******************************************************************************)
OneWorkerReturns ==
  Serial =>
    \A t \in Threads :
      req[t].op \in {"getattr", "readdir"} ~> req[t] = NoRequest \/ ~clientUp

(******************************************************************************)
(* Calls are those of RemoteCalls: a call is served at most once and while it *)
(* is being made, returns what it was served, and never returns when it was   *)
(* lost with the server.  This is so with one worker, or without getattr.     *)
(* (A getattr answered by another thread's dispatch has is_done set before    *)
(* its res and stbuf, fuse_client.c:26-36: it may return before it is filled, *)
(* and the closure then stores into a frame that has gone.)                   *)
(******************************************************************************)
HasServed(t) ==
  \/ \E i \in DOMAIN responses : responses[i].to = t
  \/ InCall(t) /\ t \notin waiting
  \/ \E u \in Threads : \E i \in DOMAIN batch[u] : batch[u][i].to = t

Phase(t) ==
  IF ~InCall(t) THEN "idle"
  ELSE IF \E i \in DOMAIN requests : requests[i].from = t THEN "called"
  ELSE IF HasServed(t) THEN "served" ELSE "lost"

Calls == INSTANCE RemoteCalls WITH
  phase  <- [t \in Threads |-> Phase(t)],
  answer <- served

ImplementsRemoteCalls == Calls!Spec
================================================================================
