----------------------------- MODULE FuseRpcProofs -----------------------------
(******************************************************************************)
(* The client and its RPC connection, for any number of threads, any files    *)
(* and any of the calls: the types, that a closure finds its frame, and that  *)
(* the calls are those of RemoteCalls.                                        *)
(*                                                                            *)
(* FrameAlive is not inductive.  RpcInv says of each pair of messages what it *)
(* says by counting, and adds where a thread is when its closure has run:     *)
(* what is in the loop must not be told that it is done by a message that is  *)
(* not its own.  CallsInv adds what the messages and the frames hold.         *)
(******************************************************************************)
EXTENDS FuseRpc, SequenceTheorems, FiniteSetTheorems, TLAPS

\* A thread is in its closures exactly while it has responses left to handle.
BatchInv ==
  /\ \A t \in Threads : pc[t] = "closure" <=> batch[t] # <<>>
  /\ \A i \in DOMAIN responses : responses[i].stage = "new"
  /\ \A u \in Threads : \A i \in DOMAIN batch[u] : batch[u][i].stage # "new" => i = 1

\* The call of t is waiting for its one message.
Expecting(t) == InCall(t) /\ ~isDone[t] /\ t \in waiting

NewIn(u) == {i \in DOMAIN batch[u] : batch[u][i].stage = "new"}

\* Every message belongs to a call that waits for it ...
ExpectedInv ==
  /\ \A i \in DOMAIN requests : Expecting(requests[i].from)
  /\ \A i \in DOMAIN responses : Expecting(responses[i].to)
  /\ \A u \in Threads : \A i \in NewIn(u) : Expecting(batch[u][i].to)

\* ... and no two belong to the same.
RequestsInv ==
  \A i \in DOMAIN requests :
    /\ \A j \in DOMAIN requests : requests[i].from = requests[j].from => i = j
    /\ \A j \in DOMAIN responses : requests[i].from # responses[j].to
    /\ \A u \in Threads : \A j \in NewIn(u) : requests[i].from # batch[u][j].to

ResponsesInv ==
  \A i \in DOMAIN responses :
    /\ \A j \in DOMAIN responses : responses[i].to = responses[j].to => i = j
    /\ \A u \in Threads : \A j \in NewIn(u) : responses[i].to # batch[u][j].to

BatchesInv ==
  \A u, v \in Threads : \A i \in NewIn(u), j \in NewIn(v) :
    batch[u][i].to = batch[v][j].to => u = v /\ i = j

ReturnInv == \A t \in Threads : pc[t] = "return" => isDone[t]

RpcInv ==
  /\ TypeOK /\ BatchInv /\ ReturnInv
  /\ ExpectedInv /\ RequestsInv /\ ResponsesInv /\ BatchesInv

(******************************************************************************)
(* What the messages and the frames hold.                                     *)
(******************************************************************************)
Carries(m) == m.op = req[m.to].op /\ m.answer = served[m.to]

\* A getattr between is_done and its res or stbuf.
Filling(m) == m.stage = "fill" /\ m.op = "getattr" /\ isDone[m.to] /\ Carries(m)

FillComes(t) == \E u \in Threads : batch[u] # <<>> /\ batch[u][1].to = t /\ batch[u][1].stage = "fill"

\* What a call that is over gives libfuse.
Returned(t) == IF req[t].op = "write" THEN Nothing ELSE served[t]

\* The frame of t when it is done.
FrameFilled(t) ==
  /\ InCall(t) /\ t \notin waiting
  /\ req[t].op = "read" => served[t].code = "ok"
  /\ out[t] = Returned(t) \/ FillComes(t)

HeldInv ==
  /\ \A i \in DOMAIN requests : requests[i].request = req[requests[i].from]
  /\ \A i \in DOMAIN responses : Carries(responses[i])
  /\ \A u \in Threads : \A i \in DOMAIN batch[u] :
       (batch[u][i].stage = "new" /\ Carries(batch[u][i])) \/ Filling(batch[u][i])
  /\ \A t \in Threads : isDone[t] => FrameFilled(t)

CallsInv == RpcInv /\ HeldInv

\* One worker, or several that make no getattr.
OneReader == Serial \/ "getattr" \notin Ops

--------------------------------------------------------------------------------
\* What the server answers is an answer, and what it leaves are files.
LEMMA AnswerType ==
  ASSUME NEW f \in [Present -> Value], NEW r \in Requests
  PROVE  Answer(f, r) \in Answers /\ After(f, r) \in [Present -> Value]
<1>1. Nothing \in Answers /\ NotFound \in Answers
  BY DEF Nothing, NotFound, Answers, Codes
<1>2. /\ Present \subseteq Names
      /\ r.op \in {"getattr", "readdir", "read", "write"}
      /\ r.path \in Names \cup {Root}
      /\ r.op = "write" => r.data \in Value
  BY FsCallsAssumption DEF Requests
<1>3. CASE r.op = "readdir"
  BY <1>2, <1>3 DEF Answer, Listing, After, Answers, Codes
<1>4. CASE r.op = "getattr"
  BY <1>1, <1>2, <1>4 DEF Answer, After, Answers, Codes
<1>5. CASE r.op = "read"
  BY <1>1, <1>2, <1>5 DEF Answer, After, Answers, Codes
<1>6. CASE r.op = "write"
  BY <1>1, <1>2, <1>6 DEF Answer, After
<1>7. QED
  BY <1>2, <1>3, <1>4, <1>5, <1>6

LEMMA SeqElements ==
  ASSUME NEW S, NEW s \in Seq(S)
  PROVE  DOMAIN s = 1 .. Len(s) /\ Len(s) \in Nat /\ \A i \in DOMAIN s : s[i] \in S
BY LenProperties, ElementOfSeq

\* A sequence without its first n elements.
LEMMA RestOfSeq ==
  ASSUME NEW S, NEW s \in Seq(S), NEW n \in 0 .. Len(s)
  PROVE  /\ SubSeq(s, n + 1, Len(s)) \in Seq(S)
         /\ Len(SubSeq(s, n + 1, Len(s))) = Len(s) - n
         /\ \A i \in 1 .. Len(s) - n : SubSeq(s, n + 1, Len(s))[i] = s[n + i]
<1> DEFINE k == n + 1
           l == Len(s)
<1>1. k \in Int /\ l \in Int /\ \A i \in k .. l : s[i] \in S
  BY SeqElements
<1> HIDE DEF k, l
<1>2. /\ SubSeq(s, k, l) \in Seq(S)
      /\ Len(SubSeq(s, k, l)) = IF k <= l THEN l - k + 1 ELSE 0
      /\ \A i \in 1 .. l - k + 1 : SubSeq(s, k, l)[i] = s[k + i - 1]
  BY <1>1, SubSeqProperties
<1>3. QED
  BY <1>2, SeqElements DEF k, l

\* Messages are messages, and their threads are threads.
LEMMA MessageTypes ==
  ASSUME RpcInv
  PROVE  /\ \A i \in DOMAIN requests :
              requests[i].from \in Threads /\ requests[i].request \in Requests
         /\ \A i \in DOMAIN responses :
              responses[i] \in Responses /\ responses[i].to \in Threads
         /\ \A u \in Threads : \A i \in DOMAIN batch[u] :
              batch[u][i] \in Responses /\ batch[u][i].to \in Threads
<1>1. \A i \in DOMAIN requests : requests[i] \in [from : Threads, request : Requests]
  BY SeqElements, Zenon DEF RpcInv, TypeOK
<1>2. /\ \A i \in DOMAIN responses : responses[i] \in Responses
      /\ \A u \in Threads : \A i \in DOMAIN batch[u] : batch[u][i] \in Responses
  BY SeqElements, Zenon DEF RpcInv, TypeOK
<1>3. \A m \in Responses : m.to \in Threads
  BY DEF Responses
<1>4. QED
  BY <1>1, <1>2, <1>3

\* The first of the responses that t has read.
LEMMA BatchHead ==
  ASSUME RpcInv, NEW t \in Threads, pc[t] = "closure"
  PROVE  /\ batch[t] \in Seq(Responses) /\ batch[t] # <<>>
         /\ Len(batch[t]) \in Nat \ {0}
         /\ Head(batch[t]) = batch[t][1]
         /\ batch[t][1] \in Responses /\ batch[t][1].to \in Threads
         /\ 1 \in DOMAIN batch[t] /\ DOMAIN batch[t] = 1 .. Len(batch[t])
         /\ Tail(batch[t]) \in Seq(Responses)
         /\ DOMAIN Tail(batch[t]) = 1 .. Len(batch[t]) - 1
         /\ Len(Tail(batch[t])) = Len(batch[t]) - 1
         /\ \A i \in DOMAIN Tail(batch[t]) : Tail(batch[t])[i] = batch[t][i + 1]
<1>1. batch[t] \in Seq(Responses) /\ batch[t] # <<>>
  BY DEF RpcInv, TypeOK, BatchInv
<1>2. /\ Len(batch[t]) \in Nat \ {0} /\ DOMAIN batch[t] = 1 .. Len(batch[t])
      /\ Head(batch[t]) = batch[t][1] /\ batch[t][1] \in Responses
  BY <1>1, LenProperties, EmptySeq
<1>3. /\ Tail(batch[t]) \in Seq(Responses)
      /\ Len(Tail(batch[t])) = Len(batch[t]) - 1
      /\ DOMAIN Tail(batch[t]) = 1 .. Len(batch[t]) - 1
      /\ \A i \in 1 .. Len(batch[t]) - 1 : Tail(batch[t])[i] = batch[t][i + 1]
  BY <1>1, HeadTailProperties, LenProperties
<1>4. batch[t][1].to \in Threads
  BY <1>2 DEF Responses
<1>5. QED
  BY <1>1, <1>2, <1>3, <1>4

--------------------------------------------------------------------------------
LEMMA InitRpcInv == Init => RpcInv
<1> SUFFICES ASSUME Init PROVE RpcInv
  OBVIOUS
<1>1. TypeOK
  <2>1. Nothing \in Answers
    BY DEF Nothing, Answers, Codes
  <2>2. <<>> \in Seq([from : Threads, request : Requests]) /\ <<>> \in Seq(Responses)
    OBVIOUS
  <2>3. \A f \in {out, result, served} : f \in [Threads -> Answers]
    BY <2>1 DEF Init
  <2>4. batch \in [Threads -> Seq(Responses)]
    BY <2>2 DEF Init
  <2>5. QED
    BY <2>2, <2>3, <2>4 DEF Init, TypeOK
<1>2. DOMAIN requests = {} /\ DOMAIN responses = {} /\ \A u \in Threads : DOMAIN batch[u] = {}
  BY DEF Init
<1>3. \A u \in Threads : NewIn(u) = {}
  BY <1>2 DEF NewIn
<1>4. BatchInv /\ ReturnInv
  BY <1>2 DEF Init, BatchInv, ReturnInv
<1>5. ExpectedInv /\ RequestsInv /\ ResponsesInv /\ BatchesInv
  BY <1>2, <1>3, Zenon DEF ExpectedInv, RequestsInv, ResponsesInv, BatchesInv
<1>6. QED
  BY <1>1, <1>4, <1>5 DEF RpcInv

\* A step that moves no message keeps what is known of them, as long as no
\* thread that waits for one gives up.
LEMMA QuietKeeps ==
  ASSUME RpcInv, TypeOK', ReturnInv', UNCHANGED <<requests, responses, batch>>,
         \A t \in Threads : pc'[t] = "closure" <=> pc[t] = "closure",
         \A t \in Threads : Expecting(t) => Expecting(t)'
  PROVE  RpcInv'
<1>1. \A u \in Threads : NewIn(u)' = NewIn(u)
  BY DEF NewIn
<1>2. BatchInv'
  BY DEF RpcInv, BatchInv
<1>3. RequestsInv' /\ ResponsesInv' /\ BatchesInv'
  BY <1>1 DEF RpcInv, RequestsInv, ResponsesInv, BatchesInv
<1>5. ExpectedInv'
  BY <1>1, MessageTypes DEF RpcInv, ExpectedInv, NewIn
<1>6. QED
  BY <1>2, <1>3, <1>5 DEF RpcInv

LEMMA LoopKeeps ==
  ASSUME RpcInv, NEW t \in Threads,
         LoopTest(t) \/ WokenTooLate(t) \/ FindLinkLost(t) \/ Reconnect(t)
           \/ CallWithoutLink(t)
  PROVE  RpcInv'
<1>1. TypeOK'
  <2>1. /\ UNCHANGED <<files, serverUp, requests, responses, req, isDone, out, waiting,
                       batch, result, served>>
        /\ clientUp' \in BOOLEAN /\ link' \in {"up", "broken", "down"}
        /\ pc' \in [Threads -> {"idle", "test", "dispatch", "closure", "return"}]
    BY DEF RpcInv, TypeOK, LoopTest, WokenTooLate, FindLinkLost, Reconnect,
           CallWithoutLink, client, wire
  <2>2. QED
    BY <2>1 DEF RpcInv, TypeOK
<1>2. ReturnInv'
  BY DEF RpcInv, TypeOK, ReturnInv, LoopTest, WokenTooLate, FindLinkLost, Reconnect,
         CallWithoutLink, client, wire
<1>3. /\ UNCHANGED <<requests, responses, batch>>
      /\ \A u \in Threads : pc'[u] = "closure" <=> pc[u] = "closure"
      /\ \A u \in Threads : Expecting(u) => Expecting(u)'
  BY DEF RpcInv, TypeOK, LoopTest, WokenTooLate, FindLinkLost, Reconnect,
         CallWithoutLink, client, wire, Expecting, InCall
<1>4. QED
  BY <1>1, <1>2, <1>3, QuietKeeps

\* A thread that is not in a call, or is told that it is done, has no message.
LEMMA NoMessageOf ==
  ASSUME RpcInv, NEW t \in Threads, ~Expecting(t)
  PROVE  /\ \A i \in DOMAIN requests : requests[i].from # t
         /\ \A i \in DOMAIN responses : responses[i].to # t
         /\ \A u \in Threads : \A i \in NewIn(u) : batch[u][i].to # t
BY DEF RpcInv, ExpectedInv

LEMMA CallKeeps ==
  ASSUME RpcInv, NEW t \in Threads, Call(t)
  PROVE  RpcInv'
<1>1. PICK r \in Requests :
        /\ req' = [req EXCEPT ![t] = r]
        /\ requests' = IF link = "up" THEN Append(requests, [from |-> t, request |-> r])
                                      ELSE requests
  BY DEF Call
<1>2. ~Expecting(t)
  BY DEF Call, Expecting, InCall
<1>3. /\ pc' = [pc EXCEPT ![t] = "test"] /\ isDone' = [isDone EXCEPT ![t] = FALSE]
      /\ out' = [out EXCEPT ![t] = Nothing] /\ waiting' = waiting \cup {t}
      /\ UNCHANGED <<files, serverUp, clientUp, link, responses, batch, result, served>>
  BY DEF Call
<1>4. [from |-> t, request |-> r] \in [from : Threads, request : Requests]
  OBVIOUS
<1>5. requests' \in Seq([from : Threads, request : Requests])
  BY <1>1, <1>4, AppendProperties, Zenon DEF RpcInv, TypeOK
<1>6. TypeOK'
  <2>1. Nothing \in Answers
    BY DEF Nothing, Answers, Codes
  <2>2. /\ pc' \in [Threads -> {"idle", "test", "dispatch", "closure", "return"}]
        /\ req' \in [Threads -> Requests \cup {NoRequest}]
        /\ isDone' \in [Threads -> BOOLEAN] /\ out' \in [Threads -> Answers]
        /\ waiting' \subseteq Threads
    BY <1>1, <1>3, <2>1 DEF RpcInv, TypeOK
  <2>3. QED
    BY <1>3, <1>5, <2>2 DEF RpcInv, TypeOK
<1>7. ReturnInv' /\ \A u \in Threads : pc'[u] = "closure" <=> pc[u] = "closure"
  BY <1>3 DEF Call, RpcInv, TypeOK, ReturnInv
<1>8. \A u \in Threads : (u # t /\ Expecting(u)) \/ u = t => Expecting(u)'
  BY <1>3 DEF RpcInv, TypeOK, Expecting, InCall
<1>9. CASE link # "up"
  BY <1>1, <1>3, <1>6, <1>7, <1>8, <1>9, QuietKeeps
<1>10. CASE link = "up"
  <2>1. /\ DOMAIN requests' = DOMAIN requests \cup {Len(requests) + 1}
        /\ Len(requests) + 1 \notin DOMAIN requests
        /\ \A i \in DOMAIN requests : requests'[i] = requests[i]
        /\ requests'[Len(requests) + 1].from = t
    <3>1. requests \in Seq([from : Threads, request : Requests])
      BY DEF RpcInv, TypeOK
    <3>2. /\ Len(requests') = Len(requests) + 1 /\ Len(requests) \in Nat
          /\ \A i \in 1 .. Len(requests) : requests'[i] = requests[i]
          /\ requests'[Len(requests) + 1] = [from |-> t, request |-> r]
      BY <1>1, <1>4, <1>10, <3>1, AppendProperties, LenProperties
    <3>3. DOMAIN requests' = 1 .. Len(requests') /\ DOMAIN requests = 1 .. Len(requests)
      BY <1>5, <3>1, SeqElements, Zenon
    <3>4. QED
      BY <3>2, <3>3
  <2>2. \A u \in Threads : NewIn(u)' = NewIn(u)
    BY <1>3 DEF NewIn
  <2>3. BatchInv'
    BY <1>3, <1>7 DEF RpcInv, BatchInv
  <2>4. ExpectedInv'
    BY <1>2, <1>3, <1>8, <2>1, <2>2, MessageTypes DEF RpcInv, ExpectedInv, NewIn
  <2>5. RequestsInv'
    BY <1>2, <1>3, <2>1, <2>2, NoMessageOf, MessageTypes DEF RpcInv, RequestsInv
  <2>6. ResponsesInv' /\ BatchesInv'
    BY <1>3, <2>2 DEF RpcInv, ResponsesInv, BatchesInv
  <2>7. QED
    BY <1>6, <1>7, <2>3, <2>4, <2>5, <2>6 DEF RpcInv
<1>11. QED
  BY <1>9, <1>10

LEMMA HandleKeeps == RpcInv /\ ServerHandle => RpcInv'
<1> SUFFICES ASSUME RpcInv, ServerHandle PROVE RpcInv'
  OBVIOUS
<1> DEFINE m == requests[1]
           a == [to |-> m.from, op |-> m.request.op, answer |-> Answer(files, m.request),
                 stage |-> "new"]
<1>1. /\ requests \in Seq([from : Threads, request : Requests]) /\ requests # <<>>
      /\ responses \in Seq(Responses)
  BY DEF RpcInv, TypeOK, ServerHandle
<1>2. /\ Len(requests) \in Nat \ {0} /\ DOMAIN requests = 1 .. Len(requests)
      /\ requests' = Tail(requests) /\ requests' \in Seq([from : Threads, request : Requests])
      /\ Len(requests') = Len(requests) - 1 /\ DOMAIN requests' = 1 .. Len(requests) - 1
      /\ \A i \in 1 .. Len(requests) - 1 : requests'[i] = requests[i + 1]
  <2>1. requests' = Tail(requests)
    BY DEF ServerHandle
  <2>2. requests' \in Seq([from : Threads, request : Requests])
    BY <1>1, <2>1, HeadTailProperties, Zenon
  <2>3. Len(requests) \in Nat \ {0} /\ DOMAIN requests = 1 .. Len(requests)
    BY <1>1, SeqElements, EmptySeq, Zenon
  <2>4. /\ Len(requests') = Len(requests) - 1
        /\ \A i \in 1 .. Len(requests') : requests'[i] = requests[i + 1]
    BY <1>1, <2>1, HeadTailProperties, Zenon
  <2>5. QED
    BY <2>1, <2>2, <2>3, <2>4, SeqElements
<1>3. m.from \in Threads /\ m.request \in Requests /\ Head(requests) = m
  BY <1>1, <1>2, MessageTypes
<1>4. a \in Responses
  <2>1. Answer(files, m.request) \in Answers
    BY <1>3, AnswerType DEF RpcInv, TypeOK
  <2>2. m.request.op \in Ops
    BY <1>3 DEF Requests
  <2>3. QED
    BY <1>3, <2>1, <2>2 DEF Responses
<1>5. /\ responses' = Append(responses, a)
      /\ files' = After(files, m.request)
      /\ served' = [served EXCEPT ![m.from] = Answer(files, m.request)]
      /\ UNCHANGED <<serverUp, clientUp, link, pc, req, isDone, out, waiting, batch, result>>
  BY <1>3 DEF ServerHandle, client
<1>6. /\ responses' \in Seq(Responses)
      /\ DOMAIN responses' = DOMAIN responses \cup {Len(responses) + 1}
      /\ Len(responses) + 1 \notin DOMAIN responses
      /\ \A i \in DOMAIN responses : responses'[i] = responses[i]
      /\ responses'[Len(responses) + 1] = a
  <2>1. /\ responses' \in Seq(Responses) /\ Len(responses') = Len(responses) + 1
        /\ \A i \in 1 .. Len(responses) : responses'[i] = responses[i]
        /\ responses'[Len(responses) + 1] = a
    BY <1>1, <1>4, <1>5, AppendProperties
  <2>2. /\ DOMAIN responses' = 1 .. Len(responses')
        /\ DOMAIN responses = 1 .. Len(responses) /\ Len(responses) \in Nat
    BY <1>1, <2>1, SeqElements
  <2>3. QED
    BY <2>1, <2>2
<1>7. TypeOK'
  <2>1. files' \in [Present -> Value] /\ Answer(files, m.request) \in Answers
    BY <1>3, <1>5, AnswerType DEF RpcInv, TypeOK
  <2>2. served' \in [Threads -> Answers]
    BY <1>3, <1>5, <2>1 DEF RpcInv, TypeOK
  <2>3. QED
    BY <1>2, <1>5, <1>6, <2>1, <2>2 DEF RpcInv, TypeOK
<1>8. \A u \in Threads : NewIn(u)' = NewIn(u) /\ (Expecting(u)' <=> Expecting(u))
  BY <1>5 DEF NewIn, Expecting, InCall
<1>9. BatchInv' /\ ReturnInv'
  BY <1>5, <1>6 DEF RpcInv, BatchInv, ReturnInv
<1>10. 1 \in DOMAIN requests
  BY <1>2
<1>11. ExpectedInv'
  <2>1. \A i \in DOMAIN requests' : requests'[i].from \in Threads /\ Expecting(requests'[i].from)
    BY <1>2, MessageTypes DEF RpcInv, ExpectedInv
  <2>2. \A i \in DOMAIN responses' : responses'[i].to \in Threads /\ Expecting(responses'[i].to)
    BY <1>3, <1>6, <1>10, MessageTypes DEF RpcInv, ExpectedInv
  <2>3. \A u \in Threads : \A i \in NewIn(u) : batch[u][i].to \in Threads /\ Expecting(batch[u][i].to)
    BY MessageTypes DEF RpcInv, ExpectedInv, NewIn
  <2>4. QED
    BY <1>5, <1>8, <2>1, <2>2, <2>3 DEF ExpectedInv
<1>12. RequestsInv'
  <2>1. \A i \in DOMAIN requests' :
          i + 1 \in DOMAIN requests /\ requests'[i] = requests[i + 1] /\ i + 1 # 1
    BY <1>2
  <2>2. ASSUME NEW i \in DOMAIN requests', NEW j \in DOMAIN requests',
               requests'[i].from = requests'[j].from
        PROVE  i = j
    <3>1. i + 1 = j + 1
      BY <2>1, <2>2 DEF RpcInv, RequestsInv
    <3>2. QED
      BY <1>2, <3>1
  <2>3. ASSUME NEW i \in DOMAIN requests', NEW j \in DOMAIN responses'
        PROVE  requests'[i].from # responses'[j].to
    BY <1>6, <1>10, <2>1 DEF RpcInv, RequestsInv
  <2>4. ASSUME NEW i \in DOMAIN requests', NEW u \in Threads, NEW j \in NewIn(u)'
        PROVE  requests'[i].from # batch'[u][j].to
    BY <1>5, <1>8, <2>1 DEF RpcInv, RequestsInv
  <2>5. QED
    BY <2>2, <2>3, <2>4 DEF RequestsInv
<1>13. ResponsesInv' /\ BatchesInv'
  BY <1>5, <1>6, <1>8, <1>10 DEF RpcInv, RequestsInv, ResponsesInv, BatchesInv
<1>14. QED
  BY <1>7, <1>9, <1>11, <1>12, <1>13 DEF RpcInv

LEMMA DispatchKeeps ==
  ASSUME RpcInv, NEW t \in Threads, DispatchRun(t)
  PROVE  RpcInv'
<1>1. PICK n \in 1 .. Len(responses) :
        /\ batch' = [batch EXCEPT ![t] = SubSeq(responses, 1, n)]
        /\ responses' = SubSeq(responses, n + 1, Len(responses))
  BY DEF DispatchRun
<1> DEFINE s == SubSeq(responses, 1, n)
<1>2. /\ responses \in Seq(Responses) /\ DOMAIN responses = 1 .. Len(responses)
      /\ Len(responses) \in Nat
  BY SeqElements DEF RpcInv, TypeOK
<1>3. /\ s \in Seq(Responses) /\ DOMAIN s = 1 .. n /\ s # <<>>
      /\ \A i \in 1 .. n : i \in DOMAIN responses /\ s[i] = responses[i]
  <2>1. \A i \in 1 .. n : responses[i] \in Responses
    BY <1>2, SeqElements
  <2>2. s \in Seq(Responses) /\ Len(s) = n /\ \A i \in 1 .. n : s[i] = responses[i]
    BY <1>2, <2>1, SubSeqProperties
  <2>3. QED
    BY <1>2, <2>2, SeqElements, EmptySeq
<1>4. /\ responses' \in Seq(Responses) /\ DOMAIN responses' = 1 .. Len(responses) - n
      /\ \A i \in DOMAIN responses' :
           n + i \in DOMAIN responses /\ responses'[i] = responses[n + i] /\ n + i \notin 1 .. n
  <2>1. n \in 0 .. Len(responses)
    BY <1>2
  <2>2. /\ responses' \in Seq(Responses) /\ Len(responses') = Len(responses) - n
        /\ \A i \in 1 .. Len(responses) - n : responses'[i] = responses[n + i]
    BY <1>1, <1>2, <2>1, RestOfSeq, Zenon
  <2>3. QED
    BY <1>2, <2>2, SeqElements
<1>5. /\ pc' = [pc EXCEPT ![t] = "closure"] /\ pc[t] = "dispatch"
      /\ UNCHANGED <<files, serverUp, clientUp, link, requests, req, isDone, out, waiting,
                     result, served>>
  BY DEF DispatchRun
<1>6. batch' = [batch EXCEPT ![t] = s] /\ batch[t] = <<>>
  BY <1>1, <1>5 DEF RpcInv, BatchInv
<1>7. TypeOK'
  <2>1. batch' \in [Threads -> Seq(Responses)]
    BY <1>3, <1>6 DEF RpcInv, TypeOK
  <2>2. pc' \in [Threads -> {"idle", "test", "dispatch", "closure", "return"}]
    BY <1>5 DEF RpcInv, TypeOK
  <2>3. QED
    BY <1>4, <1>5, <2>1, <2>2 DEF RpcInv, TypeOK
<1>8. batch'[t] = s /\ \A u \in Threads \ {t} : batch'[u] = batch[u]
  BY <1>6 DEF RpcInv, TypeOK
<1>9. /\ NewIn(t)' = 1 .. n
      /\ \A u \in Threads \ {t} : NewIn(u)' = NewIn(u)
      /\ \A u \in Threads : Expecting(u)' <=> Expecting(u)
  <2>1. \A i \in 1 .. n : s[i].stage = "new"
    BY <1>3 DEF RpcInv, BatchInv
  <2>2. QED
    BY <1>3, <1>5, <1>8, <2>1 DEF NewIn, Expecting, InCall, RpcInv, TypeOK
<1>10. BatchInv' /\ ReturnInv'
  <2>1. \A u \in Threads : pc'[u] = "closure" <=> batch'[u] # <<>>
    BY <1>3, <1>5, <1>8 DEF RpcInv, TypeOK, BatchInv
  <2>2. \A i \in DOMAIN responses' : responses'[i].stage = "new"
    BY <1>4 DEF RpcInv, BatchInv
  <2>3. \A u \in Threads : \A i \in DOMAIN batch'[u] : batch'[u][i].stage # "new" => i = 1
    BY <1>3, <1>8 DEF RpcInv, BatchInv
  <2>4. ReturnInv'
    BY <1>5 DEF RpcInv, TypeOK, ReturnInv
  <2>5. QED
    BY <2>1, <2>2, <2>3, <2>4 DEF BatchInv
<1>11. ExpectedInv'
  <2>1. \A i \in DOMAIN requests : requests[i].from \in Threads /\ Expecting(requests[i].from)
    BY MessageTypes DEF RpcInv, ExpectedInv
  <2>2. \A i \in DOMAIN responses' : responses'[i].to \in Threads /\ Expecting(responses'[i].to)
    BY <1>4, MessageTypes DEF RpcInv, ExpectedInv
  <2>3. \A u \in Threads : \A i \in NewIn(u)' :
          batch'[u][i].to \in Threads /\ Expecting(batch'[u][i].to)
    BY <1>3, <1>8, <1>9, MessageTypes DEF RpcInv, ExpectedInv, NewIn
  <2>4. QED
    BY <1>5, <1>9, <2>1, <2>2, <2>3 DEF ExpectedInv
<1>12. RequestsInv'
  <2>1. ASSUME NEW i \in DOMAIN requests, NEW u \in Threads, NEW j \in NewIn(u)'
        PROVE  requests[i].from # batch'[u][j].to
    <3>1. CASE u = t
      BY <1>3, <1>8, <1>9, <2>1, <3>1 DEF RpcInv, RequestsInv
    <3>2. CASE u # t
      BY <1>8, <1>9, <2>1, <3>2 DEF RpcInv, RequestsInv
    <3>3. QED
      BY <3>1, <3>2
  <2>2. QED
    BY <1>4, <1>5, <2>1 DEF RpcInv, RequestsInv
<1>13. ResponsesInv'
  <2>1. ASSUME NEW i \in DOMAIN responses', NEW j \in DOMAIN responses',
               responses'[i].to = responses'[j].to
        PROVE  i = j
    <3>1. n + i = n + j
      BY <1>4, <2>1 DEF RpcInv, ResponsesInv
    <3>2. QED
      BY <1>2, <1>4, <3>1
  <2>2. ASSUME NEW i \in DOMAIN responses', NEW u \in Threads, NEW j \in NewIn(u)'
        PROVE  responses'[i].to # batch'[u][j].to
    <3>1. /\ n + i \in DOMAIN responses /\ responses'[i] = responses[n + i]
          /\ n + i \notin 1 .. n
      BY <1>4
    <3>2. CASE u = t
      <4>1. j \in 1 .. n /\ j \in DOMAIN responses /\ batch'[u][j] = responses[j]
        BY <1>3, <1>8, <1>9, <3>2
      <4>2. QED
        BY <3>1, <4>1 DEF RpcInv, ResponsesInv
    <3>3. CASE u # t
      <4>1. j \in NewIn(u) /\ batch'[u][j] = batch[u][j]
        BY <1>8, <1>9, <3>3
      <4>2. QED
        BY <3>1, <4>1 DEF RpcInv, ResponsesInv
    <3>4. QED
      BY <3>2, <3>3
  <2>3. QED
    BY <2>1, <2>2 DEF ResponsesInv
<1>14. BatchesInv'
  BY <1>3, <1>8, <1>9 DEF RpcInv, ResponsesInv, BatchesInv
<1>15. QED
  BY <1>7, <1>10, <1>11, <1>12, <1>13, <1>14 DEF RpcInv

(******************************************************************************)
(* A closure that ends: t drops the first response it has read; if its        *)
(* closure had not begun, it has told the thread it is for whether it is done.*)
(******************************************************************************)
LEMMA FinishKeeps ==
  ASSUME RpcInv, NEW t \in Threads, pc[t] = "closure",
         Finish(t), UNCHANGED Elsewhere,
         out' \in [Threads -> Answers], isDone' \in [Threads -> BOOLEAN],
         waiting' \subseteq Threads,
         \A v \in Threads :
           \/ isDone'[v] = isDone[v] /\ (v \in waiting' <=> v \in waiting)
           \/ v = batch[t][1].to /\ batch[t][1].stage = "new"
  PROVE  RpcInv'
<1> DEFINE u == batch[t][1].to
           waits(v) == pc'[v] # "idle" /\ ~isDone'[v] /\ v \in waiting'
<1>1. /\ batch'[t] = Tail(batch[t])
      /\ \A v \in Threads \ {t} : batch'[v] = batch[v] /\ pc'[v] = pc[v]
      /\ pc'[t] = IF Len(batch[t]) = 1 THEN "test" ELSE "closure"
      /\ UNCHANGED <<files, serverUp, clientUp, link, requests, responses, req, result,
                     served>>
  BY DEF Finish, Elsewhere, wire, RpcInv, TypeOK
<1>2. /\ Len(batch[t]) \in Nat \ {0} /\ DOMAIN batch[t] = 1 .. Len(batch[t])
      /\ batch'[t] \in Seq(Responses) /\ DOMAIN batch'[t] = 1 .. Len(batch[t]) - 1
      /\ \A i \in DOMAIN batch'[t] :
           i + 1 \in DOMAIN batch[t] /\ i + 1 # 1 /\ batch'[t][i] = batch[t][i + 1]
      /\ u \in Threads
  BY <1>1, BatchHead
<1>3. TypeOK'
  <2>1. batch' \in [Threads -> Seq(Responses)]
    BY <1>1, <1>2 DEF Finish, RpcInv, TypeOK
  <2>2. pc' \in [Threads -> {"idle", "test", "dispatch", "closure", "return"}]
    BY DEF Finish, RpcInv, TypeOK
  <2>3. QED
    BY <1>1, <2>1, <2>2 DEF RpcInv, TypeOK
<1>4. \A i \in DOMAIN batch'[t] : batch'[t][i].stage = "new"
  BY <1>2 DEF RpcInv, BatchInv
<1>5. /\ \A i \in NewIn(t)' : i + 1 \in NewIn(t) /\ i + 1 # 1 /\ batch'[t][i] = batch[t][i + 1]
      /\ \A v \in Threads \ {t} : NewIn(v)' = NewIn(v) /\ batch'[v] = batch[v]
  BY <1>1, <1>2, <1>4 DEF NewIn
<1>6. \A v \in Threads : Expecting(v) /\ ~waits(v) => v = u /\ batch[t][1].stage = "new"
  BY <1>1 DEF Expecting, InCall
<1>7. batch[t][1].stage = "new" => 1 \in NewIn(t) /\ Expecting(u)
  BY <1>2 DEF NewIn, RpcInv, ExpectedInv
<1>8. BatchInv'
  <2>1. batch'[t] = <<>> <=> Len(batch[t]) = 1
    <3>1. Len(batch'[t]) = Len(batch[t]) - 1
      BY <1>1, BatchHead
    <3>2. batch'[t] = <<>> <=> Len(batch'[t]) = 0
      BY <1>2, EmptySeq
    <3>3. QED
      BY <1>2, <3>1, <3>2
  <2>2. QED
    BY <1>1, <1>4, <2>1 DEF RpcInv, BatchInv
<1>9. ReturnInv'
  BY <1>1, <1>7 DEF RpcInv, ReturnInv, Expecting
<1>10. ExpectedInv'
  <2>1. \A i \in DOMAIN requests : waits(requests[i].from)
    <3>1. ASSUME NEW i \in DOMAIN requests
          PROVE  /\ requests[i].from \in Threads /\ Expecting(requests[i].from)
                 /\ batch[t][1].stage = "new" => requests[i].from # u
      BY <1>7, MessageTypes DEF RpcInv, ExpectedInv, RequestsInv
    <3>2. QED
      BY <1>6, <3>1
  <2>2. \A i \in DOMAIN responses : waits(responses[i].to)
    <3>1. ASSUME NEW i \in DOMAIN responses
          PROVE  /\ responses[i].to \in Threads /\ Expecting(responses[i].to)
                 /\ batch[t][1].stage = "new" => responses[i].to # u
      BY <1>7, MessageTypes DEF RpcInv, ExpectedInv, ResponsesInv
    <3>2. QED
      BY <1>6, <3>1
  <2>3. ASSUME NEW v \in Threads, NEW i \in NewIn(v)'
        PROVE  waits(batch'[v][i].to)
    <3>1. PICK j \in NewIn(v) : batch'[v][i] = batch[v][j] /\ ~(v = t /\ j = 1)
      <4>1. CASE v = t
        BY <1>5, <4>1
      <4>2. CASE v # t
        BY <1>5, <4>2
      <4>3. QED
        BY <4>1, <4>2
    <3>2. batch[v][j].to \in Threads /\ Expecting(batch[v][j].to)
      BY MessageTypes DEF RpcInv, ExpectedInv, NewIn
    <3>3. batch[t][1].stage = "new" => batch[v][j].to # u
      BY <1>7, <3>1 DEF RpcInv, BatchesInv
    <3>4. QED
      BY <1>6, <3>1, <3>2, <3>3
  <2>4. QED
    BY <1>1, <2>1, <2>2, <2>3 DEF ExpectedInv, Expecting, InCall
<1>11. RequestsInv'
  <2>1. ASSUME NEW i \in DOMAIN requests, NEW v \in Threads, NEW j \in NewIn(v)'
        PROVE  requests[i].from # batch'[v][j].to
    <3>1. CASE v = t
      BY <1>5, <3>1 DEF RpcInv, RequestsInv
    <3>2. CASE v # t
      BY <1>5, <3>2 DEF RpcInv, RequestsInv
    <3>3. QED
      BY <3>1, <3>2
  <2>2. QED
    BY <1>1, <2>1 DEF RpcInv, RequestsInv
<1>12. ResponsesInv'
  <2>1. ASSUME NEW i \in DOMAIN responses, NEW v \in Threads, NEW j \in NewIn(v)'
        PROVE  responses[i].to # batch'[v][j].to
    <3>1. CASE v = t
      BY <1>5, <3>1 DEF RpcInv, ResponsesInv
    <3>2. CASE v # t
      BY <1>5, <3>2 DEF RpcInv, ResponsesInv
    <3>3. QED
      BY <3>1, <3>2
  <2>2. QED
    BY <1>1, <2>1 DEF RpcInv, ResponsesInv
<1>13. BatchesInv'
  <2>1. ASSUME NEW v \in Threads, NEW w \in Threads, NEW i \in NewIn(v)', NEW j \in NewIn(w)',
               batch'[v][i].to = batch'[w][j].to
        PROVE  v = w /\ i = j
    <3>1. NewIn(t)' \subseteq Int
      BY <1>2 DEF NewIn
    <3>2. CASE v = t /\ w = t
      BY <1>5, <2>1, <3>1, <3>2 DEF RpcInv, BatchesInv
    <3>3. CASE v # t /\ w # t
      BY <1>5, <2>1, <3>3 DEF RpcInv, BatchesInv
    <3>4. CASE v = t /\ w # t
      BY <1>5, <2>1, <3>4 DEF RpcInv, BatchesInv
    <3>5. CASE v # t /\ w = t
      BY <1>5, <2>1, <3>5 DEF RpcInv, BatchesInv
    <3>6. QED
      BY <3>2, <3>3, <3>4, <3>5
  <2>2. QED
    BY <2>1 DEF BatchesInv
<1>14. QED
  BY <1>3, <1>8, <1>9, <1>10, <1>11, <1>12, <1>13 DEF RpcInv

\* All closures but the first half of a getattr end.
LEMMA ClosureEndsKeeps ==
  ASSUME RpcInv, NEW t \in Threads,
         GetattrFill(t) \/ GetattrFillLate(t) \/ ReaddirClosure(t) \/ ReadClosure(t)
           \/ WriteClosure(t)
  PROVE  RpcInv'
<1> DEFINE m == batch[t][1]
<1>1. pc[t] = "closure" /\ Finish(t) /\ UNCHANGED Elsewhere
  BY DEF GetattrFill, GetattrFillLate, ReaddirClosure, ReadClosure, WriteClosure, Running
<1>2. Head(batch[t]) = m /\ m \in Responses /\ m.to \in Threads
  BY <1>1, BatchHead
<1>3. m.answer \in Answers /\ Nothing \in Answers /\ NotFound \in Answers
  BY <1>2 DEF Responses, Nothing, NotFound, Answers, Codes
<1>4. out \in [Threads -> Answers] /\ isDone \in [Threads -> BOOLEAN] /\ waiting \subseteq Threads
  BY DEF RpcInv, TypeOK
<1>5. ASSUME NEW filled \in Answers, NEW done \in BOOLEAN, Store(m.to, filled, done),
             m.stage = "new"
      PROVE  RpcInv'
  <2>1. /\ out' \in [Threads -> Answers] /\ isDone' \in [Threads -> BOOLEAN]
        /\ waiting' \subseteq Threads
        /\ \A v \in Threads : v # m.to =>
             isDone'[v] = isDone[v] /\ (v \in waiting' <=> v \in waiting)
    BY <1>2, <1>4, <1>5 DEF Store
  <2>2. QED
    BY <1>1, <1>5, <2>1, FinishKeeps
<1>6. CASE GetattrFill(t) \/ GetattrFillLate(t)
  <2>1. out' \in [Threads -> Answers] /\ isDone' = isDone /\ waiting' = waiting
    BY <1>2, <1>3, <1>4, <1>6 DEF GetattrFill, GetattrFillLate
  <2>2. QED
    BY <1>1, <1>4, <2>1, FinishKeeps
<1>7. CASE ReaddirClosure(t)
  BY <1>2, <1>3, <1>5, <1>7 DEF ReaddirClosure, Running
<1>8. CASE ReadClosure(t)
  <2>1. (m.answer.code = "ok") \in BOOLEAN
    OBVIOUS
  <2>2. Store(m.to, m.answer, m.answer.code = "ok") /\ m.stage = "new"
    BY <1>2, <1>8 DEF ReadClosure, Running
  <2>3. QED
    BY <1>3, <1>5, <2>1, <2>2
<1>9. CASE WriteClosure(t)
  <2>1. PICK error \in BOOLEAN : Store(m.to, IF error THEN NotFound ELSE Nothing, ~error)
    BY <1>2, <1>9 DEF WriteClosure
  <2>2. m.stage = "new"
    BY <1>2, <1>9 DEF WriteClosure, Running
  <2>3. (~error) \in BOOLEAN /\ (IF error THEN NotFound ELSE Nothing) \in Answers
    BY <1>3
  <2>4. QED
    BY <1>5, <2>1, <2>2, <2>3
<1>10. QED
  BY <1>6, <1>7, <1>8, <1>9

\* The first half: the thread is told that it is done.
LEMMA GetattrDoneKeeps ==
  ASSUME RpcInv, NEW t \in Threads, GetattrDone(t)
  PROVE  RpcInv'
<1> DEFINE u == batch[t][1].to
           waits(v) == pc'[v] # "idle" /\ ~isDone'[v] /\ v \in waiting'
<1>1. /\ pc[t] = "closure" /\ Head(batch[t]).stage = "new"
      /\ isDone' = [isDone EXCEPT ![Head(batch[t]).to] = TRUE]
      /\ batch' = [batch EXCEPT ![t][1].stage = "fill"]
      /\ waiting' = waiting \ {Head(batch[t]).to}
      /\ UNCHANGED <<files, serverUp, clientUp, link, requests, responses, req, result,
                     served, pc, out>>
  BY DEF GetattrDone, Running, Elsewhere, wire
<1>2. /\ Head(batch[t]) = batch[t][1] /\ batch[t] \in Seq(Responses) /\ batch[t] # <<>>
      /\ u \in Threads /\ batch[t][1] \in Responses
      /\ 1 \in DOMAIN batch[t] /\ DOMAIN batch[t] = 1 .. Len(batch[t])
  BY <1>1, BatchHead
<1> DEFINE filling == [batch[t][1] EXCEPT !.stage = "fill"]
<1>3. filling \in Responses /\ filling.to = u /\ filling.stage = "fill"
  BY <1>2 DEF Responses
<1>4. /\ batch'[t] = [batch[t] EXCEPT ![1] = filling]
      /\ \A v \in Threads \ {t} : batch'[v] = batch[v]
      /\ batch' = [batch EXCEPT ![t] = [batch[t] EXCEPT ![1] = filling]]
  BY <1>1, <1>2 DEF RpcInv, TypeOK
<1>5. /\ batch'[t] \in Seq(Responses) /\ DOMAIN batch'[t] = DOMAIN batch[t]
      /\ batch'[t][1] = filling /\ batch'[t] # <<>>
      /\ \A i \in DOMAIN batch[t] : i # 1 => batch'[t][i] = batch[t][i]
  <2>1. /\ [batch[t] EXCEPT ![1] = filling] \in Seq(Responses)
        /\ Len([batch[t] EXCEPT ![1] = filling]) = Len(batch[t])
    BY <1>2, <1>3, ExceptSeq
  <2>2. QED
    BY <1>2, <1>4, <2>1
<1>6. TypeOK'
  <2>1. batch' \in [Threads -> Seq(Responses)]
    BY <1>4, <1>5 DEF RpcInv, TypeOK
  <2>2. isDone' \in [Threads -> BOOLEAN] /\ waiting' \subseteq Threads
    BY <1>1 DEF RpcInv, TypeOK
  <2>3. QED
    BY <1>1, <2>1, <2>2 DEF RpcInv, TypeOK
<1>7. /\ \A v \in Threads : \A i \in NewIn(v)' :
           i \in NewIn(v) /\ ~(v = t /\ i = 1) /\ batch'[v][i] = batch[v][i]
      /\ 1 \in NewIn(t) /\ Expecting(u)
  <2>1. \A i \in NewIn(t)' : i \in NewIn(t) /\ i # 1 /\ batch'[t][i] = batch[t][i]
    BY <1>3, <1>5 DEF NewIn
  <2>2. 1 \in NewIn(t) /\ Expecting(u)
    BY <1>1, <1>2 DEF NewIn, RpcInv, ExpectedInv
  <2>3. QED
    BY <1>4, <2>1, <2>2 DEF NewIn
<1>8. \A v \in Threads : Expecting(v) /\ v # u => waits(v)
  BY <1>1, <1>2 DEF Expecting, InCall, RpcInv, TypeOK
<1>9. BatchInv'
  <2>1. \A v \in Threads : pc'[v] = "closure" <=> batch'[v] # <<>>
    BY <1>1, <1>4, <1>5 DEF RpcInv, BatchInv
  <2>2. \A v \in Threads : \A i \in DOMAIN batch'[v] : batch'[v][i].stage # "new" => i = 1
    <3>1. ASSUME NEW v \in Threads, NEW i \in DOMAIN batch'[v], batch'[v][i].stage # "new"
          PROVE  i = 1
      <4>1. CASE v = t
        BY <1>5, <3>1, <4>1 DEF RpcInv, BatchInv
      <4>2. CASE v # t
        BY <1>4, <3>1, <4>2 DEF RpcInv, BatchInv
      <4>3. QED
        BY <4>1, <4>2
    <3>2. QED
      BY <3>1
  <2>3. QED
    BY <1>1, <2>1, <2>2 DEF RpcInv, BatchInv
<1>10. ReturnInv'
  BY <1>1, <1>2 DEF RpcInv, TypeOK, ReturnInv
<1>11. ExpectedInv'
  <2>1. \A i \in DOMAIN requests : waits(requests[i].from)
    BY <1>7, <1>8, MessageTypes DEF RpcInv, ExpectedInv, RequestsInv
  <2>2. \A i \in DOMAIN responses : waits(responses[i].to)
    BY <1>7, <1>8, MessageTypes DEF RpcInv, ExpectedInv, ResponsesInv
  <2>3. ASSUME NEW v \in Threads, NEW i \in NewIn(v)'
        PROVE  waits(batch'[v][i].to)
    <3>1. i \in NewIn(v) /\ ~(v = t /\ i = 1) /\ batch'[v][i] = batch[v][i]
      BY <1>7
    <3>2. batch[v][i].to \in Threads /\ Expecting(batch[v][i].to)
      BY <3>1, MessageTypes DEF RpcInv, ExpectedInv, NewIn
    <3>3. batch[v][i].to # u
      BY <1>7, <3>1 DEF RpcInv, BatchesInv
    <3>4. QED
      BY <1>8, <3>1, <3>2, <3>3
  <2>4. QED
    BY <1>1, <2>1, <2>2, <2>3 DEF ExpectedInv, Expecting, InCall
<1>12. RequestsInv' /\ ResponsesInv'
  BY <1>1, <1>7 DEF RpcInv, RequestsInv, ResponsesInv
<1>13. BatchesInv'
  BY <1>7 DEF RpcInv, BatchesInv
<1>14. QED
  BY <1>6, <1>9, <1>10, <1>11, <1>12, <1>13 DEF RpcInv

LEMMA ReturnKeeps ==
  ASSUME RpcInv, NEW t \in Threads, Return(t)
  PROVE  RpcInv'
<1>1. /\ pc[t] = "return" /\ isDone[t]
      /\ pc' = [pc EXCEPT ![t] = "idle"] /\ isDone' = [isDone EXCEPT ![t] = FALSE]
      /\ UNCHANGED <<files, serverUp, clientUp, link, requests, responses, waiting>>
  BY DEF Return, wire, RpcInv, ReturnInv
<1>2. /\ batch' \in [Threads -> Seq(Responses)]
      /\ \A u \in Threads :
           /\ DOMAIN batch'[u] = DOMAIN batch[u]
           /\ batch'[u] = <<>> <=> batch[u] = <<>>
           /\ \A i \in DOMAIN batch[u] :
                /\ batch'[u][i].to = batch[u][i].to
                /\ batch'[u][i].stage = "new" <=> batch[u][i].stage = "new"
  <2> DEFINE e(u, i) == IF batch[u][i].to = t /\ batch[u][i].stage = "fill"
                        THEN [batch[u][i] EXCEPT !.stage = "late"] ELSE batch[u][i]
  <2>1. batch' = [u \in Threads |-> [i \in DOMAIN batch[u] |-> e(u, i)]]
    BY DEF Return
  <2>2. ASSUME NEW u \in Threads, NEW i \in DOMAIN batch[u]
        PROVE  /\ e(u, i) \in Responses /\ e(u, i).to = batch[u][i].to
               /\ e(u, i).stage = "new" <=> batch[u][i].stage = "new"
    BY MessageTypes DEF Responses
  <2>3. ASSUME NEW u \in Threads
        PROVE  /\ [i \in DOMAIN batch[u] |-> e(u, i)] \in Seq(Responses)
               /\ [i \in DOMAIN batch[u] |-> e(u, i)] = <<>> <=> batch[u] = <<>>
    <3>1. batch[u] \in Seq(Responses) /\ DOMAIN batch[u] = 1 .. Len(batch[u]) /\ Len(batch[u]) \in Nat
      BY SeqElements DEF RpcInv, TypeOK
    <3> HIDE DEF e
    <3>2. [i \in 1 .. Len(batch[u]) |-> e(u, i)] \in Seq(Responses)
      BY <2>2, <3>1
    <3>3. QED
      BY <3>1, <3>2, EmptySeq
  <2>4. QED
    BY <2>1, <2>2, <2>3
<1>3. TypeOK'
  <2>1. /\ Nothing \in Answers
        /\ \A f \in {out, result, served} : f \in [Threads -> Answers]
    BY DEF Nothing, Answers, Codes, RpcInv, TypeOK
  <2>2. out' \in [Threads -> Answers] /\ result' \in [Threads -> Answers]
        /\ served' \in [Threads -> Answers]
    BY <2>1 DEF Return
  <2>3. /\ pc' \in [Threads -> {"idle", "test", "dispatch", "closure", "return"}]
        /\ isDone' \in [Threads -> BOOLEAN]
        /\ req' \in [Threads -> Requests \cup {NoRequest}]
    BY <1>1 DEF Return, RpcInv, TypeOK
  <2>4. QED
    BY <1>1, <1>2, <2>2, <2>3 DEF RpcInv, TypeOK
<1>4. ASSUME NEW u \in Threads
      PROVE  /\ NewIn(u)' = NewIn(u)
             /\ \A i \in NewIn(u) : batch'[u][i].to = batch[u][i].to
  <2>1. /\ DOMAIN batch'[u] = DOMAIN batch[u]
        /\ \A i \in DOMAIN batch[u] :
             /\ batch'[u][i].to = batch[u][i].to
             /\ batch'[u][i].stage = "new" <=> batch[u][i].stage = "new"
    BY <1>2, Zenon
  <2>2. QED
    BY <2>1, Zenon DEF NewIn
<1>5. \A u \in Threads : u # t /\ Expecting(u) => pc'[u] # "idle" /\ ~isDone'[u] /\ u \in waiting'
  BY <1>1 DEF RpcInv, TypeOK, Expecting, InCall
<1>6. ~Expecting(t)
  BY <1>1 DEF Expecting
<1>7. BatchInv' /\ ReturnInv'
  <2>1. \A u \in Threads : pc'[u] = "closure" <=> batch'[u] # <<>>
    <3>1. \A u \in Threads : batch'[u] = <<>> <=> batch[u] = <<>>
      BY <1>2, Zenon
    <3>2. QED
      BY <1>1, <3>1 DEF RpcInv, TypeOK, BatchInv
  <2>2. ASSUME NEW u \in Threads, NEW i \in DOMAIN batch'[u], batch'[u][i].stage # "new"
        PROVE  i = 1
    BY <1>2, <2>2, Zenon DEF RpcInv, BatchInv
  <2>3. ReturnInv'
    BY <1>1 DEF RpcInv, TypeOK, ReturnInv
  <2>4. QED
    BY <1>1, <2>1, <2>2, <2>3 DEF RpcInv, BatchInv
<1>8. ExpectedInv'
  <2> DEFINE waits(u) == pc'[u] # "idle" /\ ~isDone'[u] /\ u \in waiting'
  <2>1. \A i \in DOMAIN requests : waits(requests[i].from)
    BY <1>5, <1>6, NoMessageOf, MessageTypes DEF RpcInv, ExpectedInv
  <2>2. \A i \in DOMAIN responses : waits(responses[i].to)
    BY <1>5, <1>6, NoMessageOf, MessageTypes DEF RpcInv, ExpectedInv
  <2>3. ASSUME NEW u \in Threads, NEW i \in NewIn(u)
        PROVE  waits(batch'[u][i].to)
    <3>1. /\ batch[u][i].to \in Threads /\ Expecting(batch[u][i].to) /\ batch[u][i].to # t
          /\ batch'[u][i].to = batch[u][i].to
      BY <1>4, <1>6, NoMessageOf, MessageTypes DEF RpcInv, ExpectedInv, NewIn
    <3>2. QED
      BY <1>5, <3>1
  <2>4. QED
    BY <1>1, <1>4, <2>1, <2>2, <2>3 DEF ExpectedInv, Expecting, InCall
<1>9. RequestsInv' /\ ResponsesInv' /\ BatchesInv'
  BY <1>1, <1>4 DEF RpcInv, RequestsInv, ResponsesInv, BatchesInv
<1>10. QED
  BY <1>3, <1>7, <1>8, <1>9 DEF RpcInv

\* The death of the server takes requests with it.
LEMMA ServerKeeps == RpcInv /\ (ServerDies \/ ServerStarts) => RpcInv'
<1> SUFFICES ASSUME RpcInv, ServerDies \/ ServerStarts PROVE RpcInv'
  OBVIOUS
<1>1. /\ UNCHANGED <<clientUp, responses, pc, req, isDone, out, waiting, batch, result, served>>
      /\ requests' = requests \/ requests' = <<>>
  BY DEF ServerDies, ServerStarts, client, wire
<1>2. files' \in [Present -> Value]
  <2>1. CASE requests = <<>> \/ ServerStarts
    BY <2>1 DEF ServerDies, ServerStarts, RpcInv, TypeOK
  <2>2. CASE requests # <<>> /\ ServerDies
    <3>1. 1 \in DOMAIN requests /\ Head(requests) = requests[1]
      BY <2>2, SeqElements, EmptySeq DEF RpcInv, TypeOK
    <3>2. After(files, Head(requests).request) \in [Present -> Value]
      BY <3>1, MessageTypes, AnswerType DEF RpcInv, TypeOK
    <3>3. QED
      BY <2>2, <3>2 DEF ServerDies, RpcInv, TypeOK
  <2>3. QED
    BY <2>1, <2>2
<1>3. TypeOK'
  <2>1. serverUp' \in BOOLEAN /\ link' \in {"up", "broken", "down"}
    BY DEF ServerDies, ServerStarts, wire, RpcInv, TypeOK
  <2>2. <<>> \in Seq([from : Threads, request : Requests])
    OBVIOUS
  <2>3. requests' \in Seq([from : Threads, request : Requests])
    BY <1>1, <2>2 DEF RpcInv, TypeOK
  <2>4. QED
    BY <1>1, <1>2, <2>1, <2>3 DEF RpcInv, TypeOK
<1>4. ReturnInv' /\ BatchInv'
  BY <1>1 DEF RpcInv, ReturnInv, BatchInv
<1>5. \A u \in Threads : NewIn(u)' = NewIn(u)
  BY <1>1 DEF NewIn
<1>6. DOMAIN requests' \subseteq DOMAIN requests /\ \A i \in DOMAIN requests' : requests'[i] = requests[i]
  BY <1>1
<1>7. ExpectedInv' /\ RequestsInv' /\ ResponsesInv' /\ BatchesInv'
  BY <1>1, <1>5, <1>6
     DEF RpcInv, ExpectedInv, Expecting, InCall, RequestsInv, ResponsesInv, BatchesInv
<1>8. QED
  BY <1>3, <1>4, <1>7 DEF RpcInv

LEMMA NextRpcInv == RpcInv /\ [Next]_vars => RpcInv'
<1> SUFFICES ASSUME RpcInv, [Next]_vars PROVE RpcInv'
  OBVIOUS
<1>1. ASSUME NEW t \in Threads,
             Call(t) \/ CallWithoutLink(t) \/ Step(t) \/ WokenTooLate(t) \/ Reconnect(t)
      PROVE  RpcInv'
  BY <1>1, CallKeeps, LoopKeeps, DispatchKeeps, ClosureEndsKeeps, GetattrDoneKeeps, ReturnKeeps
     DEF Step, Closure
<1>2. CASE ServerHandle \/ ServerDies \/ ServerStarts
  BY <1>2, HandleKeeps, ServerKeeps
<1>3. CASE UNCHANGED vars
  <2>1. /\ UNCHANGED <<files, serverUp, clientUp, link, requests, responses, pc, req, isDone,
                       out, waiting, batch, result, served>>
    BY <1>3 DEF vars, client, wire
  <2>2. TypeOK' /\ ReturnInv' /\ \A t \in Threads : Expecting(t) => Expecting(t)'
    BY <2>1 DEF RpcInv, TypeOK, ReturnInv, Expecting, InCall
  <2>3. QED
    BY <2>1, <2>2, QuietKeeps
<1>4. QED
  BY <1>1, <1>2, <1>3 DEF Next

LEMMA RpcInvAlways == Spec => []RpcInv
BY InitRpcInv, NextRpcInv, PTL DEF Spec

--------------------------------------------------------------------------------
(******************************************************************************)
(* The types of the state: whatever a closure stores and wherever, the frames *)
(* hold answers, and the connection requests and responses of the workers.    *)
(******************************************************************************)
THEOREM RpcTypeCorrect == Spec => []TypeOK
<1>1. RpcInv => TypeOK
  BY DEF RpcInv
<1>2. QED
  BY <1>1, RpcInvAlways, PTL

\* A set no two elements of which differ has one element at most.
LEMMA AtMostOne ==
  ASSUME NEW S, \A x, y \in S : x = y
  PROVE  Cardinality(S) <= 1
<1>1. CASE S = {}
  BY <1>1, FS_EmptySet
<1>2. CASE S # {}
  <2>1. PICK x \in S : TRUE
    BY <1>2
  <2>2. S = {x}
    BY <2>1
  <2>3. QED
    BY <2>2, FS_Singleton
<1>3. QED
  BY <1>1, <1>2

(******************************************************************************)
(* Whatever thread reads a response, and whatever happens to the server: a    *)
(* call has one message at most, and as long as it has one its handler is in  *)
(* its loop, so that a closure begins in a frame that is there.               *)
(******************************************************************************)
THEOREM FramesAreAlive == Spec => []FrameAlive
<1>1. RpcInv => FrameAlive
  <2> SUFFICES ASSUME RpcInv, NEW t \in Threads
               PROVE  /\ Cardinality(UnansweredOf(t)) <= 1
                      /\ UnansweredOf(t) # {} => InCall(t) /\ ~isDone[t] /\ t \in waiting
    BY DEF FrameAlive
  <2> DEFINE asked == {j \in DOMAIN requests : requests[j].from = t}
             sent == {j \in DOMAIN responses : responses[j].to = t}
             read(u) == {j \in DOMAIN batch[u] : batch[u][j].to = t /\ batch[u][j].stage = "new"}
  <2>1. UnansweredOf(t) =
          {<<"request", i>> : i \in asked} \cup {<<"response", i>> : i \in sent}
            \cup UNION {{<<u, i>> : i \in read(u)} : u \in Threads}
    BY DEF UnansweredOf
  <2>2. \A u \in Threads : \A j \in read(u) : j \in NewIn(u) /\ batch[u][j].to = t
    BY DEF NewIn
  <2>3. \A u \in Threads : \A i \in read(u) :
          /\ asked = {} /\ sent = {}
          /\ \A v \in Threads : \A j \in read(v) : u = v /\ i = j
    BY <2>2 DEF RpcInv, RequestsInv, ResponsesInv, BatchesInv
  <2>4. /\ \A i \in asked : sent = {} /\ \A j \in asked : i = j
        /\ \A i \in sent : \A j \in sent : i = j
    BY DEF RpcInv, RequestsInv, ResponsesInv
  <2>5. /\ asked # {} => Expecting(t)
        /\ sent # {} => Expecting(t)
        /\ \A u \in Threads : read(u) # {} => Expecting(t)
    BY <2>2 DEF RpcInv, ExpectedInv
  <2> HIDE DEF asked, sent, read
  <2>6. ASSUME NEW x \in UnansweredOf(t), NEW y \in UnansweredOf(t)
        PROVE  x = y
    BY <2>1, <2>3, <2>4
  <2>7. UnansweredOf(t) # {} => Expecting(t)
    BY <2>1, <2>5
  <2>8. QED
    BY <2>6, <2>7, AtMostOne DEF Expecting
<1>2. QED
  BY <1>1, RpcInvAlways, PTL

--------------------------------------------------------------------------------
\* With more threads than one there is no getattr.
LEMMA GetattrAlone ==
  ASSUME OneReader, "getattr" \in Ops, NEW t \in Threads, NEW u \in Threads
  PROVE  t = u
<1>1. Cardinality(Threads) = 1
  BY DEF OneReader, Serial
<1>2. PICK x : Threads = {x}
  BY <1>1, FuseRpcAssumption, FS_Singleton
<1>3. QED
  BY <1>2

\* A thread that does not wait for a response has none in the hands of another.
LEMMA NothingForIt ==
  ASSUME OneReader, CallsInv, NEW t \in Threads, pc[t] = "idle" \/ pc[t] = "return"
  PROVE  \A u \in Threads : \A i \in DOMAIN batch[u] : batch[u][i].to # t
<1> SUFFICES ASSUME NEW u \in Threads, NEW i \in DOMAIN batch[u], batch[u][i].to = t
             PROVE  FALSE
  OBVIOUS
<1>1. CASE batch[u][i].stage = "new"
  <2>1. i \in NewIn(u)
    BY <1>1 DEF NewIn
  <2>2. ~Expecting(t)
    BY DEF Expecting, InCall, CallsInv, RpcInv, ReturnInv
  <2>3. QED
    BY <2>1, <2>2, NoMessageOf DEF CallsInv
<1>2. CASE Filling(batch[u][i])
  <2>1. batch[u][i].op = "getattr" /\ batch[u][i] \in Responses
    BY <1>2, MessageTypes DEF Filling, CallsInv
  <2>2. u = t
    BY <2>1, GetattrAlone DEF Responses
  <2>3. batch[t] = <<>>
    BY DEF CallsInv, RpcInv, BatchInv
  <2>4. QED
    BY <2>2, <2>3
<1>3. QED
  BY <1>1, <1>2 DEF CallsInv, HeldInv

LEMMA InitCallsInv == Init => CallsInv
<1> SUFFICES ASSUME Init PROVE CallsInv
  OBVIOUS
<1>1. RpcInv
  BY InitRpcInv
<1>2. DOMAIN requests = {} /\ DOMAIN responses = {} /\ \A u \in Threads : DOMAIN batch[u] = {}
  BY DEF Init
<1>3. \A t \in Threads : ~isDone[t]
  BY DEF Init
<1>4. QED
  BY <1>1, <1>2, <1>3, Zenon DEF CallsInv, HeldInv

\* A step that moves no message and touches no frame.
LEMMA QuietHeld ==
  ASSUME CallsInv, UNCHANGED <<responses, batch, req, served, isDone, out, waiting>>,
         requests' = requests \/ requests' = <<>>,
         \A t \in Threads : InCall(t) => InCall(t)'
  PROVE  HeldInv'
<1>1. \A i \in DOMAIN requests' : requests'[i].request = req'[requests'[i].from]
  BY DEF CallsInv, HeldInv
<1>2. \A i \in DOMAIN responses' : Carries(responses[i])'
  BY DEF CallsInv, HeldInv, Carries
<1>3. \A u \in Threads : \A i \in DOMAIN batch'[u] :
        (batch'[u][i].stage = "new" /\ Carries(batch[u][i])') \/ Filling(batch[u][i])'
  BY DEF CallsInv, HeldInv, Carries, Filling
<1>4. ASSUME NEW t \in Threads, isDone'[t] PROVE FrameFilled(t)'
  <2>1. FrameFilled(t) /\ (FillComes(t) => FillComes(t)') /\ Returned(t)' = Returned(t)
    BY <1>4 DEF CallsInv, HeldInv, FillComes, Returned
  <2>2. QED
    BY <2>1 DEF FrameFilled
<1>5. QED
  BY <1>1, <1>2, <1>3, <1>4 DEF HeldInv

LEMMA CallHeld ==
  ASSUME OneReader, CallsInv, NEW t \in Threads, Call(t)
  PROVE  HeldInv'
<1>1. PICK r \in Requests :
        /\ req' = [req EXCEPT ![t] = r]
        /\ requests' = IF link = "up" THEN Append(requests, [from |-> t, request |-> r])
                                      ELSE requests
  BY DEF Call
<1>2. /\ pc[t] = "idle" /\ pc' = [pc EXCEPT ![t] = "test"]
      /\ isDone' = [isDone EXCEPT ![t] = FALSE]
      /\ out' = [out EXCEPT ![t] = Nothing] /\ waiting' = waiting \cup {t}
      /\ UNCHANGED <<responses, batch, served>>
  BY DEF Call
<1>3. ~Expecting(t)
  BY <1>2 DEF Expecting, InCall
<1>4. /\ \A i \in DOMAIN requests : requests[i].from # t
      /\ \A i \in DOMAIN responses : responses[i].to # t
      /\ \A u \in Threads : \A i \in DOMAIN batch[u] : batch[u][i].to # t
  BY <1>2, <1>3, NoMessageOf, NothingForIt DEF CallsInv
<1>5. \A u \in Threads : u # t => req'[u] = req[u] /\ isDone'[u] = isDone[u] /\ out'[u] = out[u]
                                    /\ (InCall(u) => pc'[u] # "idle") /\ (u \in waiting' => u \in waiting)
  BY <1>1, <1>2 DEF CallsInv, RpcInv, TypeOK, InCall
<1>6. req'[t] = r /\ ~isDone'[t]
  BY <1>1, <1>2 DEF CallsInv, RpcInv, TypeOK
<1>7. \A i \in DOMAIN requests' : requests'[i].request = req'[requests'[i].from]
  <2>1. ASSUME NEW i \in DOMAIN requests
        PROVE  requests[i].request = req'[requests[i].from]
    BY <1>4, <1>5, MessageTypes DEF CallsInv, HeldInv
  <2>2. CASE link # "up"
    BY <1>1, <2>1, <2>2
  <2>3. CASE link = "up"
    <3>1. [from |-> t, request |-> r] \in [from : Threads, request : Requests]
      OBVIOUS
    <3>2. requests \in Seq([from : Threads, request : Requests])
      BY DEF CallsInv, RpcInv, TypeOK
    <3>3. /\ Len(requests') = Len(requests) + 1 /\ Len(requests) \in Nat
          /\ \A i \in 1 .. Len(requests) : requests'[i] = requests[i]
          /\ requests'[Len(requests) + 1] = [from |-> t, request |-> r]
          /\ requests' \in Seq([from : Threads, request : Requests])
      BY <1>1, <2>3, <3>1, <3>2, AppendProperties, LenProperties
    <3>4. DOMAIN requests' = 1 .. Len(requests') /\ DOMAIN requests = 1 .. Len(requests)
      BY <3>2, <3>3, SeqElements, Zenon
    <3>5. QED
      BY <1>6, <2>1, <3>3, <3>4
  <2>4. QED
    BY <2>2, <2>3
<1>8. \A i \in DOMAIN responses' : Carries(responses[i])'
  BY <1>2, <1>4, <1>5, MessageTypes DEF CallsInv, HeldInv, Carries
<1>9. ASSUME NEW u \in Threads, NEW i \in DOMAIN batch'[u]
      PROVE  (batch'[u][i].stage = "new" /\ Carries(batch[u][i])') \/ Filling(batch[u][i])'
  BY <1>2, <1>4, <1>5, MessageTypes DEF CallsInv, HeldInv, Carries, Filling
<1>10. ASSUME NEW u \in Threads, isDone'[u] PROVE FrameFilled(u)'
  <2>1. u # t /\ isDone[u]
    BY <1>5, <1>6, <1>10
  <2>2. FrameFilled(u) /\ (FillComes(u) => FillComes(u)') /\ Returned(u)' = Returned(u)
    BY <1>2, <1>5, <2>1 DEF CallsInv, HeldInv, FillComes, Returned
  <2>3. QED
    BY <1>2, <1>5, <2>1, <2>2 DEF FrameFilled, InCall
<1>11. QED
  BY <1>7, <1>8, <1>9, <1>10 DEF HeldInv

\* The request that the server handles, and its answer behind the responses.
LEMMA Handled ==
  ASSUME RpcInv, ServerHandle
  PROVE  LET m == requests[1] IN
         /\ Head(requests) = m /\ 1 \in DOMAIN requests /\ m.from \in Threads
         /\ m.request \in Requests
         /\ \A i \in DOMAIN requests' :
              i + 1 \in DOMAIN requests /\ i + 1 # 1 /\ requests'[i] = requests[i + 1]
         /\ \A i \in DOMAIN requests : i # 1 =>
              \E j \in DOMAIN requests' : requests'[j] = requests[i]
         /\ DOMAIN responses' = DOMAIN responses \cup {Len(responses) + 1}
         /\ \A i \in DOMAIN responses : responses'[i] = responses[i]
         /\ responses'[Len(responses) + 1] =
              [to |-> m.from, op |-> m.request.op, answer |-> Answer(files, m.request),
               stage |-> "new"]
<1> DEFINE m == requests[1]
           a == [to |-> m.from, op |-> m.request.op, answer |-> Answer(files, m.request),
                 stage |-> "new"]
<1>1. /\ requests \in Seq([from : Threads, request : Requests]) /\ requests # <<>>
      /\ responses \in Seq(Responses) /\ responses' \in Seq(Responses)
      /\ requests' \in Seq([from : Threads, request : Requests])
  BY HandleKeeps DEF RpcInv, TypeOK, ServerHandle
<1>2. /\ Len(requests) \in Nat \ {0} /\ DOMAIN requests = 1 .. Len(requests)
      /\ DOMAIN requests' = 1 .. Len(requests') /\ Len(responses) \in Nat
      /\ DOMAIN responses = 1 .. Len(responses) /\ DOMAIN responses' = 1 .. Len(responses')
  BY <1>1, SeqElements, EmptySeq, Zenon
<1>3. Head(requests) = m /\ 1 \in DOMAIN requests /\ m.from \in Threads /\ m.request \in Requests
  BY <1>1, <1>2, MessageTypes
<1>4. requests' = Tail(requests) /\ responses' = Append(responses, a)
  BY <1>3 DEF ServerHandle
<1>5. /\ Len(requests') = Len(requests) - 1
      /\ \A i \in 1 .. Len(requests') : requests'[i] = requests[i + 1]
  BY <1>1, <1>4, HeadTailProperties, Zenon
<1>6. a \in Responses
  <2>1. Answer(files, m.request) \in Answers
    BY <1>3, AnswerType DEF RpcInv, TypeOK
  <2>2. m.request.op \in Ops
    BY <1>3 DEF Requests
  <2>3. QED
    BY <1>3, <2>1, <2>2 DEF Responses
<1>7. /\ Len(responses') = Len(responses) + 1
      /\ \A i \in 1 .. Len(responses) : responses'[i] = responses[i]
      /\ responses'[Len(responses) + 1] = a
  BY <1>1, <1>4, <1>6, AppendProperties
<1> HIDE DEF a, m
<1>8. /\ \A i \in DOMAIN requests' :
           i + 1 \in DOMAIN requests /\ i + 1 # 1 /\ requests'[i] = requests[i + 1]
      /\ \A i \in DOMAIN requests : i # 1 =>
           i - 1 \in DOMAIN requests' /\ requests'[i - 1] = requests[i]
  BY <1>2, <1>5
<1>9. DOMAIN responses' = DOMAIN responses \cup {Len(responses) + 1}
  BY <1>2, <1>7
<1>10. QED
  BY <1>2, <1>3, <1>7, <1>8, <1>9 DEF a, m

LEMMA HandleHeld ==
  ASSUME CallsInv, ServerHandle
  PROVE  HeldInv'
<1> DEFINE m == requests[1]
           n == Len(responses) + 1
<1>1. /\ Head(requests) = m /\ 1 \in DOMAIN requests /\ m.from \in Threads
      /\ m.request = req[m.from]
      /\ \A i \in DOMAIN requests' :
           i + 1 \in DOMAIN requests /\ i + 1 # 1 /\ requests'[i] = requests[i + 1]
      /\ DOMAIN responses' = DOMAIN responses \cup {n}
      /\ \A i \in DOMAIN responses : responses'[i] = responses[i]
      /\ responses'[n].to = m.from /\ responses'[n].op = m.request.op
      /\ responses'[n].answer = Answer(files, m.request)
  BY Handled DEF CallsInv, HeldInv
<1>2. /\ served' = [served EXCEPT ![m.from] = Answer(files, m.request)]
      /\ UNCHANGED <<pc, req, isDone, out, waiting, batch>>
  BY <1>1 DEF ServerHandle, client
<1>3. /\ served'[m.from] = Answer(files, m.request)
      /\ \A t \in Threads : t # m.from => served'[t] = served[t]
  BY <1>1, <1>2 DEF CallsInv, RpcInv, TypeOK
<1>4. /\ \A i \in DOMAIN responses : responses[i].to # m.from
      /\ \A u \in Threads : \A i \in NewIn(u) : batch[u][i].to # m.from
      /\ ~isDone[m.from]
  BY <1>1 DEF CallsInv, RpcInv, RequestsInv, ExpectedInv, Expecting
<1>5. \A i \in DOMAIN requests' : requests'[i].request = req'[requests'[i].from]
  BY <1>1, <1>2 DEF CallsInv, HeldInv
<1>6. ASSUME NEW i \in DOMAIN responses' PROVE Carries(responses[i])'
  <2>1. CASE i = n
    BY <1>1, <1>2, <1>3, <2>1 DEF Carries
  <2>2. CASE i \in DOMAIN responses
    BY <1>1, <1>2, <1>3, <1>4, <2>2, MessageTypes DEF CallsInv, HeldInv, Carries
  <2>3. QED
    BY <1>1, <2>1, <2>2
<1>7. ASSUME NEW u \in Threads, NEW i \in DOMAIN batch'[u]
      PROVE  (batch'[u][i].stage = "new" /\ Carries(batch[u][i])') \/ Filling(batch[u][i])'
  <2>1. batch[u][i].to \in Threads /\ batch[u][i].to # m.from
    BY <1>2, <1>4, MessageTypes DEF CallsInv, HeldInv, Filling, NewIn
  <2>2. QED
    BY <1>2, <1>3, <2>1 DEF CallsInv, HeldInv, Carries, Filling
<1>8. ASSUME NEW t \in Threads, isDone'[t] PROVE FrameFilled(t)'
  <2>1. t # m.from /\ isDone[t]
    BY <1>2, <1>4, <1>8
  <2>2. QED
    BY <1>2, <1>3, <2>1 DEF CallsInv, HeldInv, FrameFilled, FillComes, Returned, InCall
<1>9. QED
  BY <1>5, <1>6, <1>7, <1>8 DEF HeldInv

\* What t has read was at the head of the responses, and the rest is behind it.
LEMMA Dispatched ==
  ASSUME RpcInv, NEW t \in Threads, DispatchRun(t)
  PROVE  /\ batch[t] = <<>> /\ \A u \in Threads \ {t} : batch'[u] = batch[u]
         /\ \A i \in DOMAIN batch'[t] : i \in DOMAIN responses /\ batch'[t][i] = responses[i]
         /\ \A i \in DOMAIN responses' :
              \E j \in DOMAIN responses : responses'[i] = responses[j]
         /\ \A i \in DOMAIN responses :
              \/ i \in DOMAIN batch'[t]
              \/ \E j \in DOMAIN responses' : responses'[j] = responses[i]
<1>1. PICK n \in 1 .. Len(responses) :
        /\ batch' = [batch EXCEPT ![t] = SubSeq(responses, 1, n)]
        /\ responses' = SubSeq(responses, n + 1, Len(responses))
  BY DEF DispatchRun
<1> DEFINE s == SubSeq(responses, 1, n)
<1>2. /\ responses \in Seq(Responses) /\ DOMAIN responses = 1 .. Len(responses)
      /\ Len(responses) \in Nat /\ n \in 0 .. Len(responses)
  BY SeqElements DEF RpcInv, TypeOK
<1>3. s \in Seq(Responses) /\ DOMAIN s = 1 .. n /\ \A i \in 1 .. n : s[i] = responses[i]
  <2>1. \A i \in 1 .. n : responses[i] \in Responses
    BY <1>2, SeqElements
  <2>2. s \in Seq(Responses) /\ Len(s) = n /\ \A i \in 1 .. n : s[i] = responses[i]
    BY <1>2, <2>1, SubSeqProperties
  <2>3. QED
    BY <2>2, SeqElements
<1>4. /\ responses' \in Seq(Responses) /\ Len(responses') = Len(responses) - n
      /\ \A i \in 1 .. Len(responses) - n : responses'[i] = responses[n + i]
  BY <1>1, <1>2, RestOfSeq, Zenon
<1>5. DOMAIN responses' = 1 .. Len(responses) - n
  BY <1>4, SeqElements
<1>6. batch[t] = <<>> /\ batch'[t] = s /\ \A u \in Threads \ {t} : batch'[u] = batch[u]
  BY <1>1 DEF RpcInv, TypeOK, BatchInv, DispatchRun
<1> HIDE DEF s
<1>7. \A i \in DOMAIN responses' : n + i \in DOMAIN responses /\ responses'[i] = responses[n + i]
  BY <1>2, <1>4, <1>5
<1>8. \A i \in DOMAIN responses :
        \/ i \in 1 .. n
        \/ i - n \in DOMAIN responses' /\ responses'[i - n] = responses[i]
  BY <1>2, <1>4, <1>5
<1>9. QED
  BY <1>2, <1>3, <1>6, <1>7, <1>8

LEMMA DispatchHeld ==
  ASSUME CallsInv, NEW t \in Threads, DispatchRun(t)
  PROVE  HeldInv'
<1>1. /\ batch[t] = <<>> /\ \A u \in Threads \ {t} : batch'[u] = batch[u]
      /\ \A i \in DOMAIN batch'[t] : i \in DOMAIN responses /\ batch'[t][i] = responses[i]
      /\ \A i \in DOMAIN responses' : \E j \in DOMAIN responses : responses'[i] = responses[j]
  BY Dispatched DEF CallsInv
<1>2. /\ UNCHANGED <<requests, req, isDone, out, waiting, served>>
      /\ \A u \in Threads : InCall(u) => pc'[u] # "idle"
  BY DEF DispatchRun, InCall, CallsInv, RpcInv, TypeOK
<1>3. \A i \in DOMAIN requests' : requests'[i].request = req'[requests'[i].from]
  BY <1>2 DEF CallsInv, HeldInv
<1>4. \A i \in DOMAIN responses' : Carries(responses[i])'
  BY <1>1, <1>2 DEF CallsInv, HeldInv, Carries
<1>5. ASSUME NEW u \in Threads, NEW i \in DOMAIN batch'[u]
      PROVE  (batch'[u][i].stage = "new" /\ Carries(batch[u][i])') \/ Filling(batch[u][i])'
  <2>1. CASE u = t
    BY <1>1, <1>2, <2>1 DEF CallsInv, RpcInv, BatchInv, HeldInv, Carries
  <2>2. CASE u # t
    BY <1>1, <1>2, <2>2 DEF CallsInv, HeldInv, Carries, Filling
  <2>3. QED
    BY <2>1, <2>2
<1>6. ASSUME NEW u \in Threads, isDone'[u] PROVE FrameFilled(u)'
  <2>1. FrameFilled(u) /\ Returned(u)' = Returned(u)
    BY <1>2, <1>6 DEF CallsInv, HeldInv, Returned
  <2>2. FillComes(u) => FillComes(u)'
    BY <1>1 DEF FillComes
  <2>3. QED
    BY <1>2, <2>1, <2>2 DEF FrameFilled, InCall
<1>7. QED
  BY <1>3, <1>4, <1>5, <1>6 DEF HeldInv

\* What remains of the responses that t has read has not begun.
LEMMA Finished ==
  ASSUME RpcInv, NEW t \in Threads, pc[t] = "closure", Finish(t)
  PROVE  /\ \A u \in Threads \ {t} : batch'[u] = batch[u] /\ pc'[u] = pc[u]
         /\ pc'[t] \in {"test", "closure"}
         /\ \A i \in DOMAIN batch'[t] :
              /\ i + 1 \in DOMAIN batch[t] /\ i + 1 # 1
              /\ batch'[t][i] = batch[t][i + 1] /\ batch[t][i + 1].stage = "new"
         /\ \A i \in DOMAIN batch[t] : i # 1 =>
              \E j \in DOMAIN batch'[t] : batch'[t][j] = batch[t][i]
<1>1. /\ batch'[t] = Tail(batch[t])
      /\ \A u \in Threads \ {t} : batch'[u] = batch[u] /\ pc'[u] = pc[u]
      /\ pc'[t] \in {"test", "closure"}
  BY DEF Finish, RpcInv, TypeOK
<1>2. /\ DOMAIN batch[t] = 1 .. Len(batch[t]) /\ Len(batch[t]) \in Nat
      /\ DOMAIN batch'[t] = 1 .. Len(batch[t]) - 1
      /\ \A i \in DOMAIN batch'[t] : batch'[t][i] = batch[t][i + 1]
  BY <1>1, BatchHead
<1>3. \A i \in DOMAIN batch'[t] : i + 1 \in DOMAIN batch[t] /\ i + 1 # 1
  BY <1>2
<1>4. \A i \in DOMAIN batch'[t] : batch[t][i + 1].stage = "new"
  BY <1>3 DEF RpcInv, BatchInv
<1>5. \A i \in DOMAIN batch[t] : i # 1 =>
        i - 1 \in DOMAIN batch'[t] /\ batch'[t][i - 1] = batch[t][i]
  BY <1>2
<1>6. QED
  BY <1>1, <1>2, <1>3, <1>4, <1>5

(******************************************************************************)
(* A closure that ends and had begun in its only step: its thread is told     *)
(* that it is done only with its frame filled.                                *)
(******************************************************************************)
LEMMA ClosureHeld ==
  ASSUME CallsInv, NEW t \in Threads, pc[t] = "closure", batch[t][1].stage = "new",
         NEW filled, NEW done \in BOOLEAN, Store(batch[t][1].to, filled, done),
         Finish(t), UNCHANGED Elsewhere,
         done => /\ filled = Returned(batch[t][1].to)
                 /\ batch[t][1].op = "read" => batch[t][1].answer.code = "ok"
  PROVE  HeldInv'
<1> DEFINE m == batch[t][1]
           u == m.to
<1>1. u \in Threads /\ 1 \in DOMAIN batch[t] /\ Carries(m) /\ Expecting(u)
  <2>1. 1 \in DOMAIN batch[t] /\ u \in Threads
    BY BatchHead DEF CallsInv
  <2>2. 1 \in NewIn(t)
    BY <2>1 DEF NewIn
  <2>3. QED
    BY <2>1, <2>2 DEF CallsInv, RpcInv, ExpectedInv, HeldInv, Filling
<1>2. /\ out'[u] = filled /\ isDone'[u] = done /\ u \notin waiting'
      /\ \A v \in Threads : v # u =>
           out'[v] = out[v] /\ isDone'[v] = isDone[v] /\ (v \in waiting' <=> v \in waiting)
      /\ UNCHANGED <<requests, responses, req, served>>
  BY <1>1 DEF Store, Elsewhere, wire, CallsInv, RpcInv, TypeOK
<1>3. /\ \A v \in Threads \ {t} : batch'[v] = batch[v] /\ pc'[v] = pc[v]
      /\ pc'[t] \in {"test", "closure"}
      /\ \A i \in DOMAIN batch'[t] :
           i + 1 \in DOMAIN batch[t] /\ batch'[t][i] = batch[t][i + 1] /\ batch'[t][i].stage = "new"
  BY Finished DEF CallsInv
<1>4. \A i \in DOMAIN requests' : requests'[i].request = req'[requests'[i].from]
  BY <1>2 DEF CallsInv, HeldInv
<1>5. \A i \in DOMAIN responses' : Carries(responses[i])'
  BY <1>2 DEF CallsInv, HeldInv, Carries
<1>6. ASSUME NEW v \in Threads, NEW i \in DOMAIN batch'[v]
      PROVE  (batch'[v][i].stage = "new" /\ Carries(batch[v][i])') \/ Filling(batch[v][i])'
  <2>1. CASE v = t
    <3>1. Carries(batch[t][i + 1])
      BY <1>3, <1>6, <2>1 DEF CallsInv, HeldInv, Filling
    <3>2. QED
      BY <1>2, <1>3, <1>6, <2>1, <3>1 DEF Carries
  <2>2. CASE v # t
    <3>1. i \in DOMAIN batch[v] /\ batch'[v] = batch[v]
      BY <1>3, <2>2
    <3>2. batch[v][i].stage = "new" \/ batch[v][i].to # u
      BY <1>1, <3>1 DEF CallsInv, HeldInv, Filling, Expecting
    <3>3. batch[v][i].to \in Threads
      BY <3>1, MessageTypes DEF CallsInv
    <3>4. QED
      BY <1>2, <3>1, <3>2, <3>3 DEF CallsInv, HeldInv, Carries, Filling
  <2>3. QED
    BY <2>1, <2>2
<1>7. ASSUME NEW v \in Threads, isDone'[v] PROVE FrameFilled(v)'
  <2>1. CASE v = u
    <3>1. filled = Returned(u) /\ (req[u].op = "read" => served[u].code = "ok")
      BY <1>1, <1>2, <1>7, <2>1 DEF Carries
    <3>2. pc'[u] # "idle"
      BY <1>1, <1>3 DEF Expecting, InCall
    <3>3. QED
      BY <1>2, <2>1, <3>1, <3>2 DEF FrameFilled, InCall, Returned
  <2>2. CASE v # u
    <3>1. FrameFilled(v) /\ Returned(v)' = Returned(v)
      BY <1>2, <1>7, <2>2 DEF CallsInv, HeldInv, Returned
    <3>2. FillComes(v) => FillComes(v)'
      BY <1>3, <2>2 DEF FillComes
    <3>3. QED
      BY <1>2, <1>3, <2>2, <3>1, <3>2 DEF FrameFilled, InCall
  <2>3. QED
    BY <2>1, <2>2
<1>8. QED
  BY <1>4, <1>5, <1>6, <1>7 DEF HeldInv

\* The closures of readdir, read and write.
LEMMA EndsHeld ==
  ASSUME CallsInv, NEW t \in Threads,
         ReaddirClosure(t) \/ ReadClosure(t) \/ WriteClosure(t)
  PROVE  HeldInv'
<1> DEFINE m == batch[t][1]
<1>1. /\ pc[t] = "closure" /\ Finish(t) /\ UNCHANGED Elsewhere /\ Head(batch[t]).stage = "new"
  BY DEF ReaddirClosure, ReadClosure, WriteClosure, Running
<1>2. Head(batch[t]) = m /\ 1 \in DOMAIN batch[t] /\ m.stage = "new"
  BY <1>1, BatchHead DEF CallsInv
<1>3. m.op = req[m.to].op /\ m.answer = served[m.to]
  BY <1>2 DEF CallsInv, HeldInv, Filling, Carries
<1>4. CASE ReaddirClosure(t)
  <2>1. m.op = "readdir" /\ Store(m.to, m.answer, TRUE)
    BY <1>2, <1>4 DEF ReaddirClosure, Running
  <2>2. m.answer = Returned(m.to)
    BY <1>3, <2>1 DEF Returned
  <2>3. QED
    BY <1>1, <1>2, <2>1, <2>2, ClosureHeld
<1>5. CASE ReadClosure(t)
  <2>1. m.op = "read" /\ Store(m.to, m.answer, m.answer.code = "ok")
    BY <1>2, <1>5 DEF ReadClosure, Running
  <2>2. m.answer = Returned(m.to)
    BY <1>3, <2>1 DEF Returned
  <2>3. (m.answer.code = "ok") \in BOOLEAN
    OBVIOUS
  <2>4. QED
    BY <1>1, <1>2, <2>1, <2>2, <2>3, ClosureHeld
<1>6. CASE WriteClosure(t)
  <2>1. m.op = "write"
    BY <1>2, <1>6 DEF WriteClosure, Running
  <2>2. PICK error \in BOOLEAN : Store(m.to, IF error THEN NotFound ELSE Nothing, ~error)
    BY <1>2, <1>6 DEF WriteClosure
  <2>3. ~error => (IF error THEN NotFound ELSE Nothing) = Returned(m.to)
    BY <1>3, <2>1 DEF Returned
  <2>4. (~error) \in BOOLEAN
    OBVIOUS
  <2>5. QED
    BY <1>1, <1>2, <2>1, <2>2, <2>3, <2>4, ClosureHeld
<1>7. QED
  BY <1>4, <1>5, <1>6

\* The closure of a getattr has set is_done, and nothing else of its response.
LEMMA Begun ==
  ASSUME RpcInv, NEW t \in Threads, GetattrDone(t)
  PROVE  LET m == batch[t][1] IN
         /\ 1 \in DOMAIN batch[t] /\ m \in Responses /\ m.op = "getattr" /\ m.stage = "new"
         /\ isDone' = [isDone EXCEPT ![m.to] = TRUE] /\ waiting' = waiting \ {m.to}
         /\ batch'[t][1] = [m EXCEPT !.stage = "fill"]
         /\ \A u \in Threads : DOMAIN batch'[u] = DOMAIN batch[u]
         /\ \A u \in Threads : \A i \in DOMAIN batch[u] :
              ~(u = t /\ i = 1) => batch'[u][i] = batch[u][i]
<1>1. /\ pc[t] = "closure" /\ Head(batch[t]).op = "getattr" /\ Head(batch[t]).stage = "new"
      /\ isDone' = [isDone EXCEPT ![Head(batch[t]).to] = TRUE]
      /\ waiting' = waiting \ {Head(batch[t]).to}
      /\ batch' = [batch EXCEPT ![t][1].stage = "fill"]
  BY DEF GetattrDone, Running
<1>2. 1 \in DOMAIN batch[t] /\ Head(batch[t]) = batch[t][1] /\ batch[t][1] \in Responses
  BY <1>1, BatchHead
<1>3. /\ batch'[t] = [batch[t] EXCEPT ![1] = [batch[t][1] EXCEPT !.stage = "fill"]]
      /\ \A u \in Threads \ {t} : batch'[u] = batch[u]
  BY <1>1 DEF RpcInv, TypeOK
<1>4. QED
  BY <1>1, <1>2, <1>3

\* Both halves of a getattr: there is one thread.
LEMMA GetattrHeld ==
  ASSUME OneReader, CallsInv, NEW t \in Threads, GetattrDone(t) \/ GetattrFill(t)
  PROVE  HeldInv'
<1> DEFINE m == batch[t][1]
<1>1. /\ pc[t] = "closure" /\ Head(batch[t]).op = "getattr"
      /\ UNCHANGED <<requests, responses, req, served>>
  BY DEF GetattrDone, GetattrFill, Running, Elsewhere, wire
<1>2. 1 \in DOMAIN batch[t] /\ Head(batch[t]) = m /\ m \in Responses /\ m.op = "getattr"
  BY <1>1, BatchHead DEF CallsInv
<1>3. m.to = t /\ \A u \in Threads : u = t
  BY <1>2, GetattrAlone DEF Responses
<1>4. Carries(m)
  BY <1>2 DEF CallsInv, HeldInv, Filling
<1>5. /\ \A i \in DOMAIN requests' : requests'[i].request = req'[requests'[i].from]
      /\ \A i \in DOMAIN responses' : Carries(responses[i])'
  BY <1>1 DEF CallsInv, HeldInv, Carries
<1>6. CASE GetattrDone(t)
  <2>1. /\ batch'[t][1] = [m EXCEPT !.stage = "fill"] /\ isDone'[t] /\ t \notin waiting'
        /\ DOMAIN batch'[t] = DOMAIN batch[t] /\ m.stage = "new"
        /\ \A i \in DOMAIN batch[t] : i # 1 => batch'[t][i] = batch[t][i]
    BY <1>3, <1>6, Begun DEF CallsInv, RpcInv, TypeOK
  <2>2. /\ batch'[t][1].stage = "fill" /\ batch'[t][1].op = "getattr" /\ batch'[t][1].to = t
        /\ batch'[t][1].answer = m.answer
    BY <1>2, <1>3, <2>1 DEF Responses
  <2>3. Filling(batch[t][1])'
    BY <1>1, <1>3, <1>4, <2>1, <2>2 DEF Filling, Carries
  <2>4. ASSUME NEW i \in DOMAIN batch[t], i # 1
        PROVE  batch'[t][i].stage = "new" /\ Carries(batch[t][i])'
    <3>1. batch[t][i].stage = "new" /\ Carries(batch[t][i])
      BY <2>4 DEF CallsInv, RpcInv, BatchInv, HeldInv, Filling
    <3>2. QED
      BY <1>1, <2>1, <2>4, <3>1 DEF Carries
  <2>5. FillComes(t)'
    <3>1. batch'[t] # <<>>
      BY <1>2, <2>1
    <3>2. QED
      BY <2>2, <3>1 DEF FillComes
  <2>6. FrameFilled(t)'
    BY <1>1, <1>2, <1>3, <1>4, <1>6, <2>1, <2>5 DEF FrameFilled, InCall, Carries, GetattrDone
  <2>7. QED
    BY <1>3, <1>5, <2>1, <2>3, <2>4, <2>6 DEF HeldInv
<1>7. CASE GetattrFill(t)
  <2>1. /\ out'[t] = m.answer /\ UNCHANGED <<isDone, waiting>> /\ Finish(t)
    BY <1>2, <1>3, <1>7 DEF GetattrFill, CallsInv, RpcInv, TypeOK
  <2>2. /\ pc'[t] \in {"test", "closure"}
        /\ \A i \in DOMAIN batch'[t] :
             i + 1 \in DOMAIN batch[t] /\ batch'[t][i] = batch[t][i + 1] /\ batch'[t][i].stage = "new"
    BY <1>1, <2>1, Finished DEF CallsInv
  <2>3. ASSUME NEW i \in DOMAIN batch'[t] PROVE Carries(batch[t][i])'
    <3>1. Carries(batch[t][i + 1])
      BY <2>2 DEF CallsInv, HeldInv, Filling
    <3>2. QED
      BY <1>1, <2>2, <3>1 DEF Carries
  <2>4. isDone[t] => FrameFilled(t)'
    BY <1>1, <1>3, <1>4, <2>1, <2>2 DEF CallsInv, HeldInv, FrameFilled, InCall, Returned, Carries
  <2>5. QED
    BY <1>3, <1>5, <2>1, <2>2, <2>3, <2>4 DEF HeldInv
<1>8. QED
  BY <1>6, <1>7

\* No closure fills a frame that has gone.
LEMMA NeverLate ==
  ASSUME CallsInv, NEW t \in Threads
  PROVE  ~GetattrFillLate(t)
<1> SUFFICES ASSUME GetattrFillLate(t) PROVE FALSE
  OBVIOUS
<1>1. pc[t] = "closure" /\ Head(batch[t]).stage = "late"
  BY DEF GetattrFillLate, Running
<1>2. 1 \in DOMAIN batch[t] /\ Head(batch[t]) = batch[t][1]
  BY <1>1, BatchHead DEF CallsInv
<1>3. QED
  BY <1>1, <1>2 DEF CallsInv, HeldInv, Filling

\* Nothing is on its way to a thread that returns.
LEMMA Leaves ==
  ASSUME OneReader, CallsInv, NEW t \in Threads, Return(t)
  PROVE  /\ batch' = batch
         /\ \A i \in DOMAIN requests : requests[i].from # t
         /\ \A i \in DOMAIN responses : responses[i].to # t
         /\ \A u \in Threads : \A i \in DOMAIN batch[u] : batch[u][i].to # t
         /\ isDone[t] /\ FrameFilled(t) /\ out[t] = Returned(t)
<1>1. pc[t] = "return" /\ isDone[t]
  BY DEF Return, CallsInv, RpcInv, ReturnInv
<1>2. \A u \in Threads : \A i \in DOMAIN batch[u] : batch[u][i].to # t
  BY <1>1, NothingForIt
<1>3. /\ \A i \in DOMAIN requests : requests[i].from # t
      /\ \A i \in DOMAIN responses : responses[i].to # t
  BY <1>1, NoMessageOf DEF Expecting, CallsInv
<1>4. batch' = batch
  <2>1. batch' = [u \in Threads |-> [i \in DOMAIN batch[u] |-> batch[u][i]]]
    BY <1>2 DEF Return
  <2>2. batch \in [Threads -> Seq(Responses)]
    BY DEF CallsInv, RpcInv, TypeOK
  <2>3. \A u \in Threads : batch[u] = [i \in DOMAIN batch[u] |-> batch[u][i]]
    BY <2>2
  <2>4. QED
    BY <2>1, <2>2, <2>3
<1>5. FrameFilled(t)
  BY <1>1 DEF CallsInv, HeldInv
<1>6. ~FillComes(t)
  <2>1. \A u \in Threads : batch[u] # <<>> => 1 \in DOMAIN batch[u]
    BY SeqElements, EmptySeq DEF CallsInv, RpcInv, TypeOK
  <2>2. QED
    BY <1>2, <2>1 DEF FillComes
<1>7. QED
  BY <1>1, <1>2, <1>3, <1>4, <1>5, <1>6 DEF FrameFilled

LEMMA ReturnHeld ==
  ASSUME OneReader, CallsInv, NEW t \in Threads, Return(t)
  PROVE  HeldInv'
<1>1. /\ \A u \in Threads : u # t =>
           /\ req'[u] = req[u] /\ served'[u] = served[u] /\ out'[u] = out[u]
           /\ isDone'[u] = isDone[u] /\ pc'[u] = pc[u]
      /\ ~isDone'[t] /\ UNCHANGED <<requests, responses, waiting>>
  BY DEF Return, wire, CallsInv, RpcInv, TypeOK
<1>2. /\ batch' = batch
      /\ \A i \in DOMAIN requests : requests[i].from # t
      /\ \A i \in DOMAIN responses : responses[i].to # t
      /\ \A u \in Threads : \A i \in DOMAIN batch[u] : batch[u][i].to # t
  BY Leaves
<1>3. /\ \A i \in DOMAIN requests' : requests'[i].request = req'[requests'[i].from]
      /\ \A i \in DOMAIN responses' : Carries(responses[i])'
  BY <1>1, <1>2, MessageTypes DEF CallsInv, HeldInv, Carries
<1>4. ASSUME NEW u \in Threads, NEW i \in DOMAIN batch'[u]
      PROVE  (batch'[u][i].stage = "new" /\ Carries(batch[u][i])') \/ Filling(batch[u][i])'
  BY <1>1, <1>2, MessageTypes DEF CallsInv, HeldInv, Carries, Filling
<1>5. ASSUME NEW u \in Threads, isDone'[u] PROVE FrameFilled(u)'
  <2>1. u # t /\ FrameFilled(u)
    BY <1>1, <1>5 DEF CallsInv, HeldInv
  <2>2. FillComes(u) => FillComes(u)'
    BY <1>2 DEF FillComes
  <2>3. QED
    BY <1>1, <2>1, <2>2 DEF FrameFilled, InCall, Returned
<1>6. QED
  BY <1>3, <1>4, <1>5 DEF HeldInv

LEMMA NextCallsInv ==
  ASSUME OneReader, CallsInv, [Next]_vars
  PROVE  CallsInv'
<1>1. RpcInv'
  BY NextRpcInv DEF CallsInv
<1>2. ASSUME NEW t \in Threads, Step(t) \/ Call(t)
      PROVE  HeldInv' \/ LoopTest(t) \/ FindLinkLost(t)
  BY <1>2, CallHeld, DispatchHeld, GetattrHeld, NeverLate, EndsHeld, ReturnHeld
     DEF Step, Closure
<1>3. ASSUME NEW t \in Threads,
             LoopTest(t) \/ FindLinkLost(t) \/ CallWithoutLink(t) \/ WokenTooLate(t) \/ Reconnect(t)
      PROVE  HeldInv'
  <2>1. /\ UNCHANGED <<requests, responses, batch, req, served, isDone, out, waiting>>
        /\ \A u \in Threads : InCall(u) => InCall(u)'
    BY <1>3 DEF LoopTest, FindLinkLost, CallWithoutLink, WokenTooLate, Reconnect, client, wire,
                InCall, CallsInv, RpcInv, TypeOK
  <2>2. QED
    BY <2>1, QuietHeld
<1>4. CASE ServerDies \/ ServerStarts \/ UNCHANGED vars
  <2>1. /\ UNCHANGED <<responses, batch, req, served, isDone, out, waiting, pc>>
        /\ requests' = requests \/ requests' = <<>>
    BY <1>4 DEF ServerDies, ServerStarts, vars, client, wire
  <2>2. QED
    BY <1>1, <2>1, QuietHeld DEF InCall, CallsInv
<1>5. QED
  BY <1>1, <1>2, <1>3, <1>4, HandleHeld DEF CallsInv, Next

LEMMA CallsInvAlways ==
  ASSUME OneReader
  PROVE  Spec => []CallsInv
<1>1. CallsInv /\ [Next]_vars => CallsInv'
  BY NextCallsInv
<1>2. QED
  BY <1>1, InitCallsInv, PTL DEF Spec

--------------------------------------------------------------------------------
(******************************************************************************)
(* The phases of RemoteCalls.                                                 *)
(******************************************************************************)
Asked(t) == \E i \in DOMAIN requests : requests[i].from = t

\* A step after which a thread is in a call, has a request on its way and has
\* been served just as before is not seen in RemoteCalls.
LEMMA PhaseSame ==
  ASSUME NEW t \in Threads, InCall(t)' <=> InCall(t),
         InCall(t) => (Asked(t)' <=> Asked(t)),
         InCall(t) /\ ~Asked(t) => (HasServed(t)' <=> HasServed(t))
  PROVE  Phase(t)' = Phase(t)
BY DEF Phase, Asked

\* The calls and what answers them are those of FsCalls there too.
LEMMA CallsData ==
  /\ Calls!NoRequest = NoRequest /\ Calls!Nothing = Nothing /\ Calls!Requests = Requests
  /\ \A f, r : Calls!Answer(f, r) = Answer(f, r) /\ Calls!After(f, r) = After(f, r)
<1>1. Calls!NoRequest = NoRequest /\ Calls!Nothing = Nothing /\ Calls!NotFound = NotFound
  BY DEF Calls!NoRequest, NoRequest, Calls!Nothing, Nothing, Calls!NotFound, NotFound
<1>2. Calls!Requests = Requests
  BY DEF Calls!Requests, Requests
<1>3. \A f, r : Calls!Answer(f, r) = Answer(f, r) /\ Calls!After(f, r) = After(f, r)
  BY <1>1 DEF Calls!Answer, Answer, Calls!Listing, Listing, Calls!After, After
<1>4. QED
  BY <1>1, <1>2, <1>3

LEMMA InitCalls == Init => Calls!Init
<1> SUFFICES ASSUME Init PROVE Calls!Init
  OBVIOUS
<1>1. \A t \in Threads : Phase(t) = "idle"
  BY DEF Init, Phase, InCall
<1>2. QED
  BY <1>1, CallsData DEF Init, Calls!Init

\* What RemoteCalls does not see.
LEMMA Stutter ==
  ASSUME UNCHANGED <<files, req, served, result>>,
         \A t \in Threads : Phase(t)' = Phase(t)
  PROVE  UNCHANGED Calls!vars
BY DEF Calls!vars

\* The steps that move no message and end no call.
LEMMA QuietIsStutter ==
  ASSUME UNCHANGED <<files, req, served, result, requests, responses, batch, waiting>>,
         \A t \in Threads : InCall(t)' <=> InCall(t)
  PROVE  UNCHANGED Calls!vars
<1>1. \A t \in Threads : (Asked(t)' <=> Asked(t)) /\ (HasServed(t)' <=> HasServed(t))
  BY DEF Asked, HasServed
<1>2. QED
  BY <1>1, PhaseSame, Stutter

\* A response that is read is no less a response.
LEMMA DispatchIsStutter ==
  ASSUME RpcInv, NEW t \in Threads, DispatchRun(t)
  PROVE  UNCHANGED Calls!vars
<1>1. /\ UNCHANGED <<files, requests, req, waiting, served, result>>
      /\ \A u \in Threads : InCall(u)' <=> InCall(u)
  BY DEF DispatchRun, InCall, RpcInv, TypeOK
<1>2. \A u \in Threads : HasServed(u)' <=> HasServed(u)
  <2> SUFFICES ASSUME NEW u \in Threads
               PROVE  HasServed(u)' <=> HasServed(u)
    OBVIOUS
  <2> DEFINE sent == \E i \in DOMAIN responses : responses[i].to = u
             read == \E v \in Threads : \E i \in DOMAIN batch[v] : batch[v][i].to = u
  <2>1. sent' \/ read' => sent \/ read
    BY Dispatched
  <2>2. sent => sent' \/ read'
    BY Dispatched
  <2>3. read => read'
    BY Dispatched
  <2>4. QED
    BY <1>1, <2>1, <2>2, <2>3 DEF HasServed
<1>3. \A u \in Threads : Asked(u)' <=> Asked(u)
  BY <1>1 DEF Asked
<1>4. QED
  BY <1>1, <1>2, <1>3, PhaseSame, Stutter

\* Nor is one whose closure has begun, or is over: its thread waits no longer.
LEMMA ClosureIsStutter ==
  ASSUME OneReader, CallsInv, NEW t \in Threads, Closure(t)
  PROVE  UNCHANGED Calls!vars
<1> DEFINE m == batch[t][1]
<1>1. /\ pc[t] = "closure" /\ Head(batch[t]) = m /\ 1 \in DOMAIN batch[t]
      /\ UNCHANGED <<files, requests, responses, req, served, result>>
  <2>1. /\ pc[t] = "closure"
        /\ UNCHANGED <<files, requests, responses, req, served, result>>
    BY DEF Closure, GetattrDone, GetattrFill, GetattrFillLate, ReaddirClosure, ReadClosure,
           WriteClosure, Running, Elsewhere, wire
  <2>2. QED
    BY <2>1, BatchHead DEF CallsInv
<1>2. m.to \in Threads /\ InCall(m.to) /\ m.to \notin waiting'
      /\ \A u \in Threads : u # m.to => (u \in waiting' <=> u \in waiting)
  <2>1. m.to \in Threads /\ (m.stage = "new" => Expecting(m.to))
    BY <1>1, MessageTypes DEF CallsInv, RpcInv, ExpectedInv, NewIn
  <2>2. CASE GetattrFill(t)
    <3>1. Filling(m) /\ UNCHANGED waiting
      BY <1>1, <2>2 DEF CallsInv, HeldInv, GetattrFill, Running
    <3>2. QED
      BY <2>1, <3>1 DEF CallsInv, HeldInv, Filling, FrameFilled
  <2>3. CASE ~GetattrFill(t)
    <3>1. m.stage = "new" /\ waiting' = waiting \ {m.to}
      BY <1>1, <2>3, NeverLate
         DEF Closure, GetattrDone, ReaddirClosure, ReadClosure, WriteClosure, Running, Store
    <3>2. QED
      BY <2>1, <3>1 DEF Expecting
  <2>4. QED
    BY <2>2, <2>3
<1>3. /\ \A u \in Threads : InCall(u)' <=> InCall(u)
      /\ \A u \in Threads : u # m.to =>
           ((\E v \in Threads : \E i \in DOMAIN batch'[v] : batch'[v][i].to = u)
              <=> \E v \in Threads : \E i \in DOMAIN batch[v] : batch[v][i].to = u)
  <2>1. CASE GetattrDone(t)
    <3>1. UNCHANGED pc
      BY <2>1 DEF GetattrDone
    <3>2. /\ \A u \in Threads : DOMAIN batch'[u] = DOMAIN batch[u]
          /\ \A u \in Threads : \A i \in DOMAIN batch[u] : batch'[u][i].to = batch[u][i].to
      <4>1. /\ batch'[t][1] = [m EXCEPT !.stage = "fill"] /\ m \in Responses
            /\ \A u \in Threads : DOMAIN batch'[u] = DOMAIN batch[u]
            /\ \A u \in Threads : \A i \in DOMAIN batch[u] :
                 ~(u = t /\ i = 1) => batch'[u][i] = batch[u][i]
        BY <2>1, Begun DEF CallsInv
      <4>2. batch'[t][1].to = m.to
        BY <4>1 DEF Responses
      <4>3. QED
        BY <4>1, <4>2
    <3>3. QED
      BY <3>1, <3>2 DEF InCall
  <2>2. CASE ~GetattrDone(t)
    <3>1. Finish(t)
      BY <2>2 DEF Closure, GetattrFill, GetattrFillLate, ReaddirClosure, ReadClosure, WriteClosure
    <3>2. /\ \A u \in Threads \ {t} : batch'[u] = batch[u] /\ pc'[u] = pc[u]
          /\ pc'[t] \in {"test", "closure"}
          /\ \A i \in DOMAIN batch'[t] : i + 1 \in DOMAIN batch[t] /\ batch'[t][i] = batch[t][i + 1]
          /\ \A i \in DOMAIN batch[t] : i # 1 => \E j \in DOMAIN batch'[t] : batch'[t][j] = batch[t][i]
      BY <1>1, <3>1, Finished DEF CallsInv
    <3>3. \A u \in Threads : InCall(u)' <=> InCall(u)
      BY <1>1, <3>2 DEF InCall
    <3>4. ASSUME NEW u \in Threads, u # m.to
          PROVE  (\E v \in Threads : \E i \in DOMAIN batch'[v] : batch'[v][i].to = u)
                   <=> \E v \in Threads : \E i \in DOMAIN batch[v] : batch[v][i].to = u
      <4>1. (\E i \in DOMAIN batch'[t] : batch'[t][i].to = u)
              <=> \E i \in DOMAIN batch[t] : batch[t][i].to = u
        BY <1>1, <3>2, <3>4
      <4>2. QED
        BY <3>2, <4>1
    <3>5. QED
      BY <3>3, <3>4
  <2>3. QED
    BY <2>1, <2>2
<1>4. ASSUME NEW u \in Threads PROVE Phase(u)' = Phase(u)
  <2>1. Asked(u)' <=> Asked(u)
    BY <1>1 DEF Asked
  <2>2. CASE u = m.to
    <3>1. HasServed(u)' /\ HasServed(u)
      BY <1>1, <1>2, <1>3, <2>2 DEF HasServed
    <3>2. QED
      BY <1>3, <2>1, <3>1, PhaseSame
  <2>3. CASE u # m.to
    <3>1. HasServed(u)' <=> HasServed(u)
      BY <1>1, <1>2, <1>3, <2>3 DEF HasServed
    <3>2. QED
      BY <1>3, <2>1, <3>1, PhaseSame
  <2>4. QED
    BY <2>2, <2>3
<1>5. QED
  BY <1>1, <1>4, Stutter

--------------------------------------------------------------------------------
\* A call with the connection up is called, any other lost from the start.
LEMMA CallIsCall ==
  ASSUME OneReader, CallsInv, NEW t \in Threads, Call(t)
  PROVE  Calls!Call(t)
<1>1. PICK r \in Requests :
        /\ req' = [req EXCEPT ![t] = r]
        /\ requests' = IF link = "up" THEN Append(requests, [from |-> t, request |-> r])
                                      ELSE requests
  BY DEF Call
<1>2. /\ pc[t] = "idle" /\ pc' = [pc EXCEPT ![t] = "test"] /\ waiting' = waiting \cup {t}
      /\ UNCHANGED <<files, responses, batch, result, served>>
  BY DEF Call
<1>3. /\ \A i \in DOMAIN requests : requests[i].from # t
      /\ \A i \in DOMAIN responses : responses[i].to # t
      /\ \A u \in Threads : \A i \in DOMAIN batch[u] : batch[u][i].to # t
  BY <1>2, NoMessageOf, NothingForIt DEF CallsInv, Expecting, InCall
<1>4. Phase(t) = "idle" /\ InCall(t)'
  BY <1>2 DEF Phase, InCall, CallsInv, RpcInv, TypeOK
<1>5. \A u \in Threads : u # t => (InCall(u)' <=> InCall(u))
  BY <1>2 DEF InCall, CallsInv, RpcInv, TypeOK
<1>6. ~HasServed(t)' /\ \A u \in Threads : u # t => (HasServed(u)' <=> HasServed(u))
  BY <1>2, <1>3, <1>5 DEF HasServed
<1>7. \A u \in Threads : u # t => (Asked(u)' <=> Asked(u))
  <2>1. CASE link # "up"
    BY <1>1, <2>1 DEF Asked
  <2>2. CASE link = "up"
    <3>1. [from |-> t, request |-> r] \in [from : Threads, request : Requests]
      OBVIOUS
    <3>2. requests \in Seq([from : Threads, request : Requests])
      BY DEF CallsInv, RpcInv, TypeOK
    <3>3. /\ Len(requests') = Len(requests) + 1 /\ Len(requests) \in Nat
          /\ \A i \in 1 .. Len(requests) : requests'[i] = requests[i]
          /\ requests'[Len(requests) + 1] = [from |-> t, request |-> r]
          /\ requests' \in Seq([from : Threads, request : Requests])
      BY <1>1, <2>2, <3>1, <3>2, AppendProperties, LenProperties
    <3>4. DOMAIN requests' = 1 .. Len(requests') /\ DOMAIN requests = 1 .. Len(requests)
      BY <3>2, <3>3, SeqElements, Zenon
    <3>5. QED
      BY <3>3, <3>4 DEF Asked
  <2>3. QED
    BY <2>1, <2>2
<1>8. /\ Phase(t)' \in {"called", "lost"}
      /\ \A u \in Threads : u # t => Phase(u)' = Phase(u)
  BY <1>4, <1>5, <1>6, <1>7, PhaseSame DEF Phase
<1>9. [u \in Threads |-> Phase(u)]'
        = [[u \in Threads |-> Phase(u)] EXCEPT ![t] = Phase(t)']
  BY <1>8
<1>10. QED
  BY <1>1, <1>2, <1>4, <1>8, <1>9, CallsData DEF Calls!Call

\* The server answers a call at one instant.
LEMMA HandleIsServe ==
  ASSUME CallsInv, ServerHandle
  PROVE  \E t \in Threads : Calls!Serve(t)
<1> DEFINE m == requests[1]
           n == Len(responses) + 1
<1>0. PICK t \in Threads : t = m.from
  BY Handled DEF CallsInv
<1>1. /\ Head(requests) = m /\ 1 \in DOMAIN requests /\ m.from = t /\ m.request = req[t]
      /\ \A i \in DOMAIN requests' :
           i + 1 \in DOMAIN requests /\ i + 1 # 1 /\ requests'[i] = requests[i + 1]
      /\ \A i \in DOMAIN requests : i # 1 =>
           \E j \in DOMAIN requests' : requests'[j] = requests[i]
      /\ DOMAIN responses' = DOMAIN responses \cup {n}
      /\ \A i \in DOMAIN responses : responses'[i] = responses[i]
      /\ responses'[n].to = t
  BY <1>0, Handled DEF CallsInv, HeldInv
<1>2. /\ served' = [served EXCEPT ![t] = Answer(files, req[t])] /\ files' = After(files, req[t])
      /\ UNCHANGED <<pc, req, waiting, batch, result>>
  BY <1>1 DEF ServerHandle, client
<1>3. InCall(t) /\ \A i \in DOMAIN requests : i # 1 => requests[i].from # t
  BY <1>1 DEF CallsInv, RpcInv, ExpectedInv, Expecting, RequestsInv
<1>4. Asked(t) /\ ~Asked(t)' /\ HasServed(t)' /\ InCall(t)'
  BY <1>1, <1>2, <1>3 DEF Asked, HasServed, InCall
<1>5. Phase(t) = "called" /\ Phase(t)' = "served"
  BY <1>3, <1>4 DEF Phase, Asked
<1>6. ASSUME NEW u \in Threads, u # t PROVE Phase(u)' = Phase(u)
  <2>1. Asked(u)' <=> Asked(u)
    BY <1>1, <1>6 DEF Asked
  <2>2. HasServed(u)' <=> HasServed(u)
    BY <1>1, <1>2, <1>6 DEF HasServed, InCall
  <2>3. QED
    BY <1>2, <2>1, <2>2, PhaseSame DEF InCall
<1>7. [u \in Threads |-> Phase(u)]'
        = [[u \in Threads |-> Phase(u)] EXCEPT ![t] = "served"]
  BY <1>1, <1>5, <1>6
<1>8. Calls!Serve(t)
  BY <1>1, <1>2, <1>5, <1>7, CallsData DEF Calls!Serve
<1>9. QED
  BY <1>1, <1>8

\* The server dies with the requests it has not handled.
LEMMA DiesIsLose ==
  ASSUME CallsInv, ServerDies
  PROVE  Calls!Lose
<1>1. /\ requests' = <<>> /\ UNCHANGED <<responses, pc, req, waiting, batch, result, served>>
      /\ \/ files' = files
         \/ requests # <<>> /\ files' = After(files, Head(requests).request)
  BY DEF ServerDies, client
<1>2. ASSUME NEW t \in Threads
      PROVE  Phase(t)' = IF Phase(t) = "called" THEN "lost" ELSE Phase(t)
  <2>1. ~Asked(t)' /\ (HasServed(t)' <=> HasServed(t)) /\ (InCall(t)' <=> InCall(t))
    BY <1>1 DEF Asked, HasServed, InCall
  <2>2. Asked(t) => ~HasServed(t)
    <3>1. SUFFICES ASSUME NEW i \in DOMAIN requests, requests[i].from = t, HasServed(t)
                   PROVE  FALSE
      BY DEF Asked
    <3>2. /\ Expecting(t) /\ \A j \in DOMAIN responses : responses[j].to # t
          /\ \A u \in Threads : \A j \in NewIn(u) : batch[u][j].to # t
      BY <3>1 DEF CallsInv, RpcInv, ExpectedInv, RequestsInv
    <3>3. \A u \in Threads : \A j \in DOMAIN batch[u] : batch[u][j].to # t
      BY <3>2 DEF CallsInv, HeldInv, Filling, NewIn, Expecting
    <3>4. QED
      BY <3>1, <3>2, <3>3 DEF HasServed, Expecting
  <2>3. QED
    BY <2>1, <2>2 DEF Phase, Asked
<1>3. requests # <<>> =>
        \E t \in Threads : Phase(t) = "called" /\ Head(requests).request = req[t]
  <2>1. SUFFICES ASSUME requests # <<>>
                 PROVE  \E t \in Threads : Phase(t) = "called" /\ Head(requests).request = req[t]
    OBVIOUS
  <2>2. 1 \in DOMAIN requests /\ Head(requests) = requests[1]
    BY <2>1, SeqElements, EmptySeq DEF CallsInv, RpcInv, TypeOK
  <2>3. /\ requests[1].from \in Threads /\ InCall(requests[1].from)
        /\ requests[1].request = req[requests[1].from]
    BY <2>2, MessageTypes DEF CallsInv, RpcInv, HeldInv, ExpectedInv, Expecting
  <2>4. QED
    BY <2>2, <2>3 DEF Phase
<1>4. [t \in Threads |-> Phase(t)]' =
        [t \in Threads |-> IF [u \in Threads |-> Phase(u)][t] = "called"
                           THEN "lost" ELSE [u \in Threads |-> Phase(u)][t]]
  BY <1>2
<1>5. QED
  BY <1>1, <1>3, <1>4, CallsData DEF Calls!Lose

\* What a handler returns is what the server answered.
LEMMA ReturnIsReturn ==
  ASSUME OneReader, CallsInv, NEW t \in Threads, Return(t)
  PROVE  Calls!Return(t)
<1>1. /\ pc[t] = "return" /\ pc' = [pc EXCEPT ![t] = "idle"]
      /\ result' = [result EXCEPT ![t] = out[t]]
      /\ req' = [req EXCEPT ![t] = NoRequest] /\ served' = [served EXCEPT ![t] = Nothing]
      /\ UNCHANGED <<files, requests, responses, waiting>>
  BY DEF Return, wire
<1>2. /\ batch' = batch
      /\ \A i \in DOMAIN requests : requests[i].from # t
      /\ FrameFilled(t) /\ out[t] = Returned(t)
  BY Leaves
<1>3. Phase(t) = "served"
  BY <1>2 DEF Phase, HasServed, FrameFilled
<1>4. Phase(t)' = "idle"
  BY <1>1 DEF Phase, InCall, CallsInv, RpcInv, TypeOK
<1>5. ASSUME NEW u \in Threads, u # t PROVE Phase(u)' = Phase(u)
  <2>1. (Asked(u)' <=> Asked(u)) /\ (InCall(u)' <=> InCall(u))
    BY <1>1, <1>5 DEF Asked, InCall, CallsInv, RpcInv, TypeOK
  <2>2. HasServed(u)' <=> HasServed(u)
    BY <1>1, <1>2, <2>1 DEF HasServed
  <2>3. QED
    BY <2>1, <2>2, PhaseSame
<1>6. [u \in Threads |-> Phase(u)]' = [[u \in Threads |-> Phase(u)] EXCEPT ![t] = "idle"]
  BY <1>4, <1>5
<1>7. QED
  BY <1>1, <1>2, <1>3, <1>6, CallsData DEF Calls!Return, FrameFilled, Returned

LEMMA NextIsCall ==
  ASSUME OneReader, CallsInv, [Next]_vars
  PROVE  [Calls!Next]_(Calls!vars)
<1>1. ASSUME NEW t \in Threads,
             LoopTest(t) \/ FindLinkLost(t) \/ CallWithoutLink(t) \/ WokenTooLate(t) \/ Reconnect(t)
      PROVE  UNCHANGED Calls!vars
  <2>1. /\ UNCHANGED <<files, req, served, result, requests, responses, batch, waiting>>
        /\ \A u \in Threads : InCall(u)' <=> InCall(u)
    BY <1>1 DEF LoopTest, FindLinkLost, CallWithoutLink, WokenTooLate, Reconnect, client, wire,
                InCall, CallsInv, RpcInv, TypeOK
  <2>2. QED
    BY <2>1, QuietIsStutter
<1>2. CASE ServerStarts \/ UNCHANGED vars
  <2>1. /\ UNCHANGED <<files, req, served, result, requests, responses, batch, waiting>>
        /\ \A u \in Threads : InCall(u)' <=> InCall(u)
    BY <1>2 DEF ServerStarts, vars, client, wire, InCall
  <2>2. QED
    BY <2>1, QuietIsStutter
<1>3. ASSUME NEW t \in Threads, DispatchRun(t) \/ Closure(t)
      PROVE  UNCHANGED Calls!vars
  BY <1>3, DispatchIsStutter, ClosureIsStutter DEF CallsInv
<1>4. ASSUME NEW t \in Threads, Call(t) \/ Return(t)
      PROVE  Calls!Next
  BY <1>4, CallIsCall, ReturnIsReturn DEF Calls!Next
<1>5. ServerHandle \/ ServerDies => Calls!Next
  BY HandleIsServe, DiesIsLose DEF Calls!Next
<1>6. QED
  BY <1>1, <1>2, <1>3, <1>4, <1>5 DEF Next, Step

(******************************************************************************)
(* With one worker, or with several that make no getattr, the calls are those *)
(* of RemoteCalls, whatever threads read the responses, whichever files there *)
(* are, and however often the server dies (fuse_client.c:24-211).             *)
(******************************************************************************)
THEOREM CallsAreRemoteCalls ==
  ASSUME OneReader
  PROVE  Spec => ImplementsRemoteCalls
<1>1. CallsInv /\ [Next]_vars => [Calls!Next]_(Calls!vars)
  BY NextIsCall
<1>2. QED
  BY <1>1, InitCalls, CallsInvAlways, PTL DEF Spec, ImplementsRemoteCalls, Calls!Spec

================================================================================
