----------------------- MODULE ConnectionBufferProofs -----------------------
(***************************************************************************)
(* The bytes and requests of the network core, for every number of         *)
(* connections and workers and every buffer size: who may touch which      *)
(* buffer, that none overruns, that no byte is lost, duplicated or         *)
(* reordered, that a machine that waits has one request under way, that    *)
(* queues and slots suffice, and when SIGPIPE can end the process.         *)
(*                                                                         *)
(* Every step does one of a few things to a connection.  These are stated  *)
(* once, of its record and its socket, and each invariant is then shown    *)
(* for every one of them.                                                  *)
(***************************************************************************)
EXTENDS ConnectionProofs, FiniteSetTheorems

Results == SendResults \cup RecvResults

(* A worker has answered x, and the main thread has not processed it.      *)
Got(c, x) == \E w \in Workers : \E i \in 1 .. Len(resQ[w]) : resQ[w][i] = [connection |-> c, evt |-> x]

(* The answers of c but those in E stay, and no new one comes.             *)
GotBut(c, E) ==
  \A x \in Results : /\ Got(c, x)' => Got(c, x)
                     /\ x \notin E => (Got(c, x) => Got(c, x)')

(* ProcessPacket of c goes on where it is, if the main thread is in it.    *)
ParseSame(c) == (parsing'.c = c <=> parsing.c = c) /\ (parsing.c = c => parsing' = parsing)

(* The two machines' step.                                                 *)
Machines(r, e) == [SendMachine(r, SendOn(r.send, e)) EXCEPT !.recv = RecvOn(r.recv, e).to]

(* Nothing happens to c.                                                   *)
Stays(c) == conn'[c] = conn[c] /\ sock'[c] = sock[c] /\ GotBut(c, {}) /\ ParseSame(c)

(* c is deleted, or established.                                           *)
Renewed(c) ==
  /\ sock'[c] = NewSock
  /\ \/ conn'[c] = NewConn(NoWorker)
     \/ /\ conn[c].worker = NoWorker /\ \A x \in Conns \ {c} : conn'[x] = conn[x]
        /\ \E w \in Workers : GetWorker(w) /\ conn'[c] = NewConn(w)

(* A record that OnClose deletes.                                          *)
BothClosed(r) == r.send = "SendClose" /\ r.recv = "RecvClose"

(* Its machines have taken event e, with its buffers as in r.              *)
Took(c, r, e) ==
  /\ conn'[c] = Machines(r, e) /\ sock'[c] = sock[c] /\ ParseSame(c) /\ ~BothClosed(conn'[c])
  /\ e \in NetEvents /\ ~(e = "RECV_DONE" /\ Awaiting(c))
  /\ e \in Results => Got(c, e) /\ ~Got(c, e)'
  /\ GotBut(c, {e})

(* The application has called Send.                                        *)
WithOffered(r, n) == [r EXCEPT !.offered = r.offered + n]
WithBytes(r, n) == [WithOffered(r, n) EXCEPT !.sUsing = r.sUsing \o Bytes(r.offered, n)]

SentTo(c, n) ==
  /\ conn[c].offered + n <= MaxOut
  /\ \/ Len(conn[c].sUsing) + n > SendSize /\ Took(c, WithOffered(conn[c], n), "ERROR")
     \/ Len(conn[c].sUsing) + n <= SendSize /\ Took(c, WithBytes(conn[c], n), "SEND")

(* ProcessPacket has returned.                                             *)
WithAnswer(r, from, ok) == [r EXCEPT !.recv = AfterProcess(from, ok).to, !.refused = ~ok]

Returned(c) ==
  /\ sock'[c] = sock[c] /\ parsing'.c # c /\ ~BothClosed(conn'[c])
  /\ \E from \in {"Recving", "RecvingWait"} :
       \/ conn'[c] = WithAnswer(conn[c], from, FALSE)
       \/ /\ conn'[c] = WithAnswer(conn[c], from, TRUE)
          /\ conn[c].rWorking = <<>> /\ conn[c].recv # "RecvClose" /\ parsing.c # c
       \/ parsing.c = c /\ conn'[c] = WithAnswer(Keep(conn[c]), from, TRUE)
  /\ GotBut(c, {"RECV_DONE"})

(* ProcessPacket has begun.                                                *)
Began(c) ==
  /\ conn'[c] = TakeRead(conn[c]) /\ sock'[c] = sock[c]
  /\ Len(conn[c].rWorking) + Len(conn[c].rUsing) <= RecvSize
  /\ parsing.c # c /\ parsing'.c = c /\ parsing'.pos = 0
  /\ Got(c, "RECV_DONE") /\ ~Got(c, "RECV_DONE")' /\ GotBut(c, {"RECV_DONE"})

(* A packet has been delivered.                                            *)
Delivered(c) ==
  /\ parsing.c = c /\ Parsed > 0
  /\ conn'[c] = [conn[c] EXCEPT !.delivered = conn[c].delivered + Parsed]
  /\ sock'[c] = sock[c]
  /\ parsing'.c = c /\ parsing'.pos = parsing.pos + Parsed
  /\ GotBut(c, {})

(* A worker is done with the request exec and answers e.                   *)
Answers(c, e) ==
  /\ ParseSame(c) /\ Busy(c, Direction(e)) /\ exec' # exec
  /\ \A x \in Results : Got(c, x) => Got(c, x)'
  /\ \A x \in Results \ {e} : Got(c, x)' => Got(c, x)
  /\ Got(c, e)' \/ aborted' = "queue is full"

Least(a, b) == IF a < b THEN a ELSE b

ReadTo(c) ==
  LET in == sock[c].in
      k == Least(Len(in), RecvSize)
      rest == SubSeq(in, k + 1, Len(in))
  IN  \/ /\ conn'[c] = [conn[c] EXCEPT !.rWorking = SubSeq(in, 1, k), !.full = (k = RecvSize)]
         /\ sock'[c] = [sock[c] EXCEPT !.in = rest]
         /\ conn[c].rWorking = <<>>
         /\ Answers(c, "RECV_DONE")
      \/ /\ conn'[c] = conn[c]
         /\ sock'[c] = [sock[c] EXCEPT !.in = rest, !.err = "taken"]
         /\ Answers(c, "RECV_ERROR")
      \/ /\ conn'[c] = conn[c]
         /\ sock'[c] = [sock[c] EXCEPT !.in = rest]
         /\ Answers(c, "RECV_CLOSE")

WriteFrom(c) ==
  LET b == conn[c].sWorking
      k == Least(Len(b), IF Len(sock[c].out) < SockCap THEN SockCap - Len(sock[c].out) ELSE 0)
  IN  \/ /\ conn'[c] = conn[c]
         /\ sock'[c] = [sock[c] EXCEPT !.err = "taken"]
         /\ Answers(c, "SEND_ERROR")
      \/ /\ conn'[c] = [conn[c] EXCEPT !.sWorking = SubSeq(b, k + 1, Len(b))]
         /\ \E full \in BOOLEAN :
              sock'[c] = [sock[c] EXCEPT !.out = sock[c].out \o SubSeq(b, 1, k), !.nospace = full]
         /\ IF k = Len(b) THEN Answers(c, "SEND_DONE") ELSE Answers(c, "SEND_PENDING")

(* The peer has sent a byte, has ended or reset the stream, or has read.   *)
PeerMoved(c) ==
  /\ conn'[c] = conn[c] /\ ParseSame(c) /\ GotBut(c, {})
  /\ \/ /\ sock[c].sent < MaxIn
        /\ sock'[c] = [sock[c] EXCEPT !.in = Append(sock[c].in, sock[c].sent + 1),
                                      !.sent = sock[c].sent + 1]
     \/ sock'[c] = [sock[c] EXCEPT !.fin = TRUE]
     \/ /\ sock[c].err = "none" /\ Open(c) /\ c \in armed'
        /\ \E x \in {"ECONNRESET", "EPIPE"} : sock'[c] = [sock[c] EXCEPT !.err = x]
     \/ /\ sock[c].out # <<>>
        /\ sock'[c] = [sock[c] EXCEPT !.out = Tail(sock[c].out), !.drained = sock[c].drained + 1,
                                      !.nospace = FALSE]

(* What a step may do to a connection.                                     *)
ConnStep(c) ==
  \/ Stays(c)
  \/ Renewed(c)
  \/ \E e \in NetEvents \ {"SEND"} : Took(c, conn[c], e)
  \/ \E n \in 1 .. MaxOut : SentTo(c, n)
  \/ Returned(c)
  \/ Began(c)
  \/ Delivered(c)
  \/ ReadTo(c)
  \/ WriteFrom(c)
  \/ PeerMoved(c)

-----------------------------------------------------------------------------
(* Every step is one of these.                                             *)

(* A step that leaves the results alone.                                   *)
LEMMA SameResults ==
  ASSUME UNCHANGED resQ PROVE \A c, E : GotBut(c, E)
<1>1. \A c, x : Got(c, x)' <=> Got(c, x)
  BY DEF Got
<1>2. QED
  BY <1>1 DEF GotBut

(* The other connections.                                                  *)
LEMMA OthersStay ==
  ASSUME NEW p, NEW c, c # p, conn'[c] = conn[c], sock'[c] = sock[c], UNCHANGED resQ,
         parsing' = parsing \/ (parsing.c \in {p, NoConn} /\ parsing'.c \in {p, NoConn}),
         c # NoConn
  PROVE  Stays(c)
<1>1. GotBut(c, {})
  BY SameResults
<1>2. ParseSame(c)
  BY DEF ParseSame
<1>3. QED
  BY <1>1, <1>2 DEF Stays

(* The end of OnEvent.                                                     *)
LEMMA CommitRecord ==
  ASSUME TypeOK, NEW p \in Conns, NEW r, NEW jobs, Commit(p, r, jobs)
  PROVE  /\ \A c \in Conns \ {p} : conn'[c] = conn[c] /\ sock'[c] = sock[c]
         /\ IF r.send = "SendClose" /\ r.recv = "RecvClose"
            THEN conn'[p] = NewConn(NoWorker) /\ sock'[p] = NewSock
            ELSE conn'[p] = r /\ sock'[p] = sock[p]
  BY DEF Commit, TypeOK

(* The two machines move a record of the type.                             *)
LEMMA MachinesType ==
  ASSUME NEW r \in ConnType, NEW e \in NetEvents
  PROVE  /\ Machines(r, e) \in ConnType
         /\ SendMachine(r, SendOn(r.send, e)) \in ConnType
         /\ Machines(r, e).recv = RecvOn(r.recv, e).to
         /\ Machines(r, e).send = SendMachine(r, SendOn(r.send, e)).send
<1> DEFINE s == SendOn(r.send, e)
           t == RecvOn(r.recv, e)
           q == SendMachine(r, s)
<1>1. r.send \in SendStates /\ r.recv \in RecvStates
  BY DEF ConnType
<1>2. s.to \in SendStates /\ t.to \in RecvStates
  BY <1>1, SendOnType, RecvOnType
<1> HIDE DEF s, t
<1>3. q \in ConnType
  BY <1>2, SendMachineType
<1> HIDE DEF q
<1>4. [q EXCEPT !.recv = t.to] \in ConnType
      /\ [q EXCEPT !.recv = t.to].recv = t.to /\ [q EXCEPT !.recv = t.to].send = q.send
  BY <1>2, <1>3 DEF ConnType
<1>5. QED
  BY <1>3, <1>4 DEF Machines, q, s, t

(* An event: the connection takes it, or is deleted with it.               *)
LEMMA EventRecord ==
  ASSUME TypeOK, NEW p \in Conns, NEW r, NEW e, OnEvent(p, r, e)
  PROVE  /\ \A c \in Conns \ {p} : conn'[c] = conn[c] /\ sock'[c] = sock[c]
         /\ \/ Renewed(p)
            \/ conn'[p] = Machines(r, e) /\ sock'[p] = sock[p] /\ ~BothClosed(conn'[p])
<1> DEFINE jobs == SendJobs(p, r, SendOn(r.send, e)) \o RecvJobs(p, RecvOn(r.recv, e))
<1>1. PICK q : q = Machines(r, e)
  OBVIOUS
<1>2. Commit(p, q, jobs)
  BY <1>1 DEF OnEvent, Machines
<1> HIDE DEF jobs
<1>3. /\ \A c \in Conns \ {p} : conn'[c] = conn[c] /\ sock'[c] = sock[c]
      /\ \/ conn'[p] = NewConn(NoWorker) /\ sock'[p] = NewSock
         \/ conn'[p] = q /\ sock'[p] = sock[p] /\ ~BothClosed(q)
  BY <1>2, CommitRecord DEF BothClosed
<1>4. QED
  BY <1>1, <1>3 DEF Renewed

(* An event that is no answer of a worker.                                 *)
LEMMA OtherTook ==
  ASSUME TypeOK, NEW p \in Conns, NEW r, NEW e \in NetEvents \ Results,
         OnEvent(p, r, e), UNCHANGED <<parsing, resQ>>
  PROVE  /\ \A c \in Conns \ {p} : Stays(c)
         /\ Renewed(p) \/ Took(p, r, e)
<1>1. /\ \A c \in Conns \ {p} : conn'[c] = conn[c] /\ sock'[c] = sock[c]
      /\ \/ Renewed(p)
         \/ conn'[p] = Machines(r, e) /\ sock'[p] = sock[p] /\ ~BothClosed(conn'[p])
  BY EventRecord
<1>2. \A c \in Conns : c # NoConn
  BY NullAssumption
<1>3. \A c \in Conns \ {p} : Stays(c)
  BY <1>1, <1>2, OthersStay
<1>4. GotBut(p, {e}) /\ ParseSame(p) /\ e # "RECV_DONE"
  BY SameResults DEF ParseSame, Results, RecvResults
<1>5. QED
  BY <1>1, <1>3, <1>4 DEF Took

(* Dispatch and Close.                                                     *)
LEMMA DispatchStep ==
  ASSUME TypeOK, NEW p \in Conns, Dispatch(p) \/ Close(p)
  PROVE  \A c \in Conns : ConnStep(c)
<1>1. UNCHANGED <<parsing, resQ>>
  BY DEF Dispatch, Close
<1>2. ASSUME NEW e \in {"ERROR", "SEND_READY", "RECV", "CLOSE"}, OnEvent(p, conn[p], e)
      PROVE  \A c \in Conns : ConnStep(c)
  <2>1. e \in NetEvents \ Results /\ e \in NetEvents \ {"SEND"}
    BY DEF NetEvents, Results, SendResults, RecvResults
  <2>2. PICK r : r = conn[p]
    OBVIOUS
  <2>3. OnEvent(p, r, e)
    BY <1>2, <2>2
  <2>4. /\ \A c \in Conns \ {p} : Stays(c)
        /\ Renewed(p) \/ Took(p, r, e)
    BY <1>1, <2>1, <2>3, OtherTook
  <2>5. QED
    BY <2>1, <2>2, <2>4 DEF ConnStep
<1>3. CASE UNCHANGED <<conn, sock>>
  <2>1. \A c \in Conns : Stays(c)
    BY <1>1, <1>3, SameResults DEF Stays, ParseSame
  <2>2. QED
    BY <2>1 DEF ConnStep
<1>4. CASE Close(p)
  BY <1>2, <1>4 DEF Close
<1>5. CASE Dispatch(p)
  <2>1. PICK e : e = EventOf(FirstFlag(batch[p]))
    OBVIOUS
  <2>2. e \in {"ERROR", "SEND_READY", "RECV", "CLOSE"}
    BY <2>1 DEF EventOf, FirstFlag
  <2>3. OnEvent(p, conn[p], e) \/ UNCHANGED <<conn, sock>>
    BY <1>5, <2>1 DEF Dispatch
  <2>4. QED
    BY <1>2, <1>3, <2>2, <2>3
<1>6. QED
  BY <1>4, <1>5

(* Send.                                                                   *)
LEMMA SendStep ==
  ASSUME TypeOK, NEW p \in Conns, NEW n \in 1 .. MaxOut, Send(p, n)
  PROVE  \A c \in Conns : ConnStep(c)
<1> DEFINE r == WithOffered(conn[p], n)
           q == WithBytes(conn[p], n)
<1>1. UNCHANGED <<parsing, resQ>> /\ conn[p].offered + n <= MaxOut /\ conn[p] \in ConnType
  BY DEF Send, TypeOK
<1>2. r.sUsing = conn[p].sUsing
  BY <1>1 DEF WithOffered, ConnType
<1>3. \/ Len(conn[p].sUsing) + n > SendSize /\ OnEvent(p, r, "ERROR")
      \/ Len(conn[p].sUsing) + n <= SendSize /\ OnEvent(p, q, "SEND")
  BY <1>2 DEF Send, WithOffered, WithBytes
<1>4. "ERROR" \in NetEvents \ Results /\ "SEND" \in NetEvents \ Results
  BY DEF NetEvents, Results, SendResults, RecvResults
<1> HIDE DEF r, q
<1>5. CASE Len(conn[p].sUsing) + n > SendSize /\ OnEvent(p, r, "ERROR")
  <2>1. /\ \A c \in Conns \ {p} : Stays(c)
        /\ Renewed(p) \/ Took(p, r, "ERROR")
    BY <1>1, <1>4, <1>5, OtherTook
  <2>2. QED
    BY <1>1, <1>5, <2>1 DEF ConnStep, SentTo, r
<1>6. CASE Len(conn[p].sUsing) + n <= SendSize /\ OnEvent(p, q, "SEND")
  <2>1. /\ \A c \in Conns \ {p} : Stays(c)
        /\ Renewed(p) \/ Took(p, q, "SEND")
    BY <1>1, <1>4, <1>6, OtherTook
  <2>2. QED
    BY <1>1, <1>6, <2>1 DEF ConnStep, SentTo, q
<1>7. QED
  BY <1>3, <1>5, <1>6

(* An answer of c is one of its jobs.                                      *)
LEMMA GotJob ==
  ASSUME NEW c, NEW x, Got(c, x)
  PROVE  \E w \in Workers : Job(c, Direction(x)) \in ResJobs(w)
  BY DEF Got, ResJobs, Tok

(* Taking a result off its queue takes away the only answer of its kind.   *)
LEMMA GotPop ==
  ASSUME JobInv, NEW w \in Workers, resQ[w] # <<>>, resQ' = [resQ EXCEPT ![w] = Tail(@)],
         NEW p \in Conns, p = Head(resQ[w]).connection,
         NEW e \in Results, e = Head(resQ[w]).evt
  PROVE  /\ Got(p, e) /\ ~Got(p, e)' /\ GotBut(p, {e})
         /\ \A c \in Conns \ {p} : GotBut(c, {})
<1> DEFINE q == resQ[w]
<1>1. /\ q \in Seq(Result) /\ q # <<>> /\ resQ'[w] = Tail(q)
      /\ \A v \in Workers \ {w} : resQ'[v] = resQ[v]
  BY DEF JobInv, TypeOK
<1>2. /\ Len(q) \in Nat \ {0} /\ Head(q) = q[1]
      /\ Len(Tail(q)) = Len(q) - 1 /\ \A i \in 1 .. Len(Tail(q)) : Tail(q)[i] = q[i + 1]
  BY <1>1, HeadTailProperties, LenProperties, EmptySeq
<1>3. q[1] = [connection |-> p, evt |-> e]
  <2>1. q[1] \in Result
    BY <1>1, <1>2, ElementOfSeq
  <2>2. QED
    BY <1>2, <2>1 DEF Result
<1>4. Got(p, e)
  BY <1>2, <1>3 DEF Got
<1>5. ASSUME NEW c, NEW x, Got(c, x)' PROVE Got(c, x)
  <2>0. PICK v \in Workers : \E i \in 1 .. Len(resQ'[v]) : resQ'[v][i] = [connection |-> c, evt |-> x]
    BY <1>5 DEF Got
  <2>1. PICK i \in 1 .. Len(resQ'[v]) : resQ'[v][i] = [connection |-> c, evt |-> x]
    BY <2>0
  <2>2. CASE v = w
    <3>1. i + 1 \in 1 .. Len(q) /\ q[i + 1] = [connection |-> c, evt |-> x]
      <4>1. i \in 1 .. Len(Tail(q)) /\ Tail(q)[i] = [connection |-> c, evt |-> x]
        BY <1>1, <2>1, <2>2
      <4>2. i + 1 \in 1 .. Len(q) /\ q[i + 1] = Tail(q)[i]
        BY <1>2, <4>1
      <4>3. QED
        BY <4>1, <4>2
    <3>2. QED
      BY <3>1 DEF Got
  <2>3. CASE v # w
    BY <1>1, <2>1, <2>3 DEF Got
  <2>4. QED
    BY <2>2, <2>3
<1>6. ASSUME NEW c, NEW x, Got(c, x), c # p \/ x # e PROVE Got(c, x)'
  <2>0. PICK v \in Workers : \E i \in 1 .. Len(resQ[v]) : resQ[v][i] = [connection |-> c, evt |-> x]
    BY <1>6 DEF Got
  <2>1. PICK i \in 1 .. Len(resQ[v]) : resQ[v][i] = [connection |-> c, evt |-> x]
    BY <2>0
  <2>2. CASE v = w
    <3>1. [connection |-> c, evt |-> x] # [connection |-> p, evt |-> e]
      BY <1>6
    <3>2. i # 1
      BY <1>3, <2>1, <2>2, <3>1
    <3>3. PICK j : j = i - 1
      OBVIOUS
    <3>4. j \in 1 .. Len(Tail(q)) /\ i = j + 1
      BY <1>2, <2>1, <2>2, <3>2, <3>3
    <3>5. resQ'[w][j] = [connection |-> c, evt |-> x] /\ j \in 1 .. Len(resQ'[w])
      BY <1>1, <1>2, <2>1, <2>2, <3>4
    <3>6. QED
      BY <3>5 DEF Got
  <2>3. CASE v # w
    BY <1>1, <2>1, <2>3 DEF Got
  <2>4. QED
    BY <2>2, <2>3
<1>7. ~Got(p, e)'
  <2>1. /\ conn[p].worker = w
        /\ Job(p, Direction(e)) \notin Left(w)
        /\ \A v \in Workers : ResJobs(v)' \subseteq ResJobs(v)
    BY HeadResult
  <2>2. Got(p, e)' => \E v \in Workers : Job(p, Direction(e)) \in ResJobs(v)'
    BY DEF Got, ResJobs, Tok
  <2>3. ASSUME NEW v \in Workers, Job(p, Direction(e)) \in ResJobs(v)' PROVE FALSE
    <3>1. Valid(Job(p, Direction(e)), v)
      BY <2>1, <2>3 DEF JobInv, AllValid
    <3>2. v = w
      BY <2>1, <3>1 DEF Valid, Job
    <3>3. QED
      BY <2>1, <2>3, <3>2 DEF Left
  <2>4. QED
    BY <2>2, <2>3
<1>8. QED
  BY <1>4, <1>5, <1>6, <1>7 DEF GotBut

(* A result is processed.                                                  *)
LEMMA ResultStep ==
  ASSUME JobInv, NEW w \in Workers, DoResult(w)
  PROVE  \A c \in Conns : ConnStep(c)
<1>1. /\ ~Parsing /\ resQ[w] # <<>> /\ resQ' = [resQ EXCEPT ![w] = Tail(@)]
      /\ UNCHANGED <<parsing, exec>> /\ TypeOK
  BY DEF DoResult, JobInv
<1>2. PICK p \in Conns : p = Head(resQ[w]).connection
  BY <1>1, ResultHead
<1>3. PICK e \in Results : e = Head(resQ[w]).evt
  <2>1. Head(resQ[w]) \in Result
    BY <1>1, HeadTailProperties DEF TypeOK
  <2>2. QED
    BY <2>1 DEF Result, Results
<1>4. ~(e = "RECV_DONE" /\ Awaiting(p)) /\ OnEvent(p, conn[p], e)
  BY <1>2, <1>3 DEF DoResult
<1>5. /\ Got(p, e) /\ ~Got(p, e)' /\ GotBut(p, {e})
      /\ \A c \in Conns \ {p} : GotBut(c, {})
  BY <1>1, <1>2, <1>3, GotPop, ZenonT(60)
<1>6. PICK r : r = conn[p]
  OBVIOUS
<1>7. /\ \A c \in Conns \ {p} : conn'[c] = conn[c] /\ sock'[c] = sock[c]
      /\ \/ Renewed(p)
         \/ conn'[p] = Machines(r, e) /\ sock'[p] = sock[p] /\ ~BothClosed(conn'[p])
  <2>1. OnEvent(p, r, e)
    BY <1>4, <1>6
  <2>2. QED
    BY <1>1, <2>1, EventRecord
<1>8. \A c \in Conns \ {p} : Stays(c)
  BY <1>1, <1>5, <1>7 DEF Stays, ParseSame
<1>9. e \in NetEvents \ {"SEND"} /\ ParseSame(p)
  BY <1>1 DEF NetEvents, Results, SendResults, RecvResults, ParseSame
<1>10. Renewed(p) \/ Took(p, r, e)
  BY <1>4, <1>5, <1>7, <1>9 DEF Took
<1>11. QED
  BY <1>6, <1>8, <1>9, <1>10 DEF ConnStep

(* The return from ProcessPacket, or its refusal of what was read.         *)
LEMMA ReturnRecord ==
  ASSUME TypeOK, NEW p \in Conns, NEW r, NEW from, NEW ok, Processed(p, r, from, ok)
  PROVE  /\ \A c \in Conns \ {p} : conn'[c] = conn[c] /\ sock'[c] = sock[c]
         /\ \/ Renewed(p)
            \/ conn'[p] = WithAnswer(r, from, ok) /\ sock'[p] = sock[p] /\ ~BothClosed(conn'[p])
<1>1. PICK q : q = WithAnswer(r, from, ok)
  OBVIOUS
<1>2. PICK jobs : jobs = RecvJobs(p, AfterProcess(from, ok))
  OBVIOUS
<1>3. Commit(p, q, jobs)
  BY <1>1, <1>2 DEF Processed, WithAnswer
<1>4. /\ \A c \in Conns \ {p} : conn'[c] = conn[c] /\ sock'[c] = sock[c]
      /\ \/ conn'[p] = NewConn(NoWorker) /\ sock'[p] = NewSock
         \/ conn'[p] = q /\ sock'[p] = sock[p] /\ ~BothClosed(q)
  BY <1>3, CommitRecord DEF BothClosed
<1>5. QED
  BY <1>1, <1>4 DEF Renewed

(* Received data.                                                          *)
LEMMA DataStep ==
  ASSUME JobInv, NEW w \in Workers, DoData(w)
  PROVE  \A c \in Conns : ConnStep(c)
<1>1. /\ ~Parsing /\ resQ[w] # <<>> /\ resQ' = [resQ EXCEPT ![w] = Tail(@)]
      /\ Head(resQ[w]).evt = "RECV_DONE" /\ TypeOK
  BY DEF DoData, JobInv
<1>2. PICK p \in Conns : p = Head(resQ[w]).connection
  BY <1>1, ResultHead
<1>3. PICK r \in ConnType : r = conn[p]
  BY <1>1 DEF TypeOK
<1>4. /\ Got(p, "RECV_DONE") /\ ~Got(p, "RECV_DONE")' /\ GotBut(p, {"RECV_DONE"})
      /\ \A c \in Conns \ {p} : GotBut(c, {})
  <2>1. "RECV_DONE" \in Results
    BY DEF Results, RecvResults
  <2>2. QED
    BY <1>1, <1>2, <2>1, GotPop
<1>5. parsing.c = NoConn /\ \A c \in Conns : c # NoConn
  BY <1>1, NullAssumption DEF Parsing
<1>6. PICK from \in {"Recving", "RecvingWait"} : from = r.recv
  BY <1>2, <1>3 DEF DoData, Awaiting
<1>7. ASSUME NEW ok \in BOOLEAN, Processed(p, r, from, ok), UNCHANGED parsing,
             ok => r.rWorking = <<>>
      PROVE  \A c \in Conns : ConnStep(c)
  <2>1. /\ \A c \in Conns \ {p} : conn'[c] = conn[c] /\ sock'[c] = sock[c]
        /\ \/ Renewed(p)
           \/ conn'[p] = WithAnswer(r, from, ok) /\ sock'[p] = sock[p] /\ ~BothClosed(conn'[p])
    BY <1>1, <1>7, ReturnRecord
  <2>2. \A c \in Conns \ {p} : Stays(c)
    BY <1>4, <1>7, <2>1 DEF Stays, ParseSame
  <2>3. Renewed(p) \/ Returned(p)
    BY <1>3, <1>4, <1>5, <1>6, <1>7, <2>1 DEF Returned
  <2>4. QED
    BY <2>2, <2>3 DEF ConnStep
<1>8. ASSUME Len(r.rWorking) + Len(r.rUsing) <= RecvSize,
             conn' = [conn EXCEPT ![p] = TakeRead(r)],
             parsing' = [c |-> p, from |-> r.recv, pos |-> 0],
             UNCHANGED <<nowConnection, sock, armed, workQ, aborted>>
      PROVE  \A c \in Conns : ConnStep(c)
  <2>1. /\ conn'[p] = TakeRead(r) /\ \A c \in Conns \ {p} : conn'[c] = conn[c]
        /\ sock' = sock /\ parsing'.c = p /\ parsing'.pos = 0
    BY <1>1, <1>8 DEF TypeOK
  <2>2. \A c \in Conns \ {p} : Stays(c)
    BY <1>4, <1>5, <2>1 DEF Stays, ParseSame
  <2>3. Began(p)
    BY <1>3, <1>4, <1>5, <1>8, <2>1 DEF Began
  <2>4. QED
    BY <2>2, <2>3 DEF ConnStep
<1>9. \/ r.rWorking = <<>> /\ Processed(p, r, from, TRUE) /\ UNCHANGED parsing
      \/ Processed(p, r, from, FALSE) /\ UNCHANGED parsing
      \/ /\ Len(r.rWorking) + Len(r.rUsing) <= RecvSize
         /\ conn' = [conn EXCEPT ![p] = TakeRead(r)]
         /\ parsing' = [c |-> p, from |-> r.recv, pos |-> 0]
         /\ UNCHANGED <<nowConnection, sock, armed, workQ, aborted>>
  BY <1>2, <1>3, <1>6 DEF DoData
<1>10. QED
  BY <1>7, <1>8, <1>9

(* The steps of ProcessPacket.                                             *)
LEMMA ParseStep ==
  ASSUME TypeOK, OnRecvPacket \/ ParseEnd \/ ParseBad
  PROVE  \A c \in Conns : ConnStep(c)
<1>1. Parsing /\ UNCHANGED resQ
  BY DEF OnRecvPacket, ParseEnd, ParseBad
<1>2. PICK p \in Conns : p = parsing.c
  BY <1>1 DEF Parsing, TypeOK
<1>3. PICK from \in {"Recving", "RecvingWait"} : from = parsing.from
  BY DEF TypeOK
<1>4. \A c \in Conns : c # NoConn
  BY NullAssumption
<1>5. CASE OnRecvPacket
  <2>1. PICK n : n = Parsed
    OBVIOUS
  <2>2. /\ n > 0 /\ parsing' = [parsing EXCEPT !.pos = @ + n]
        /\ conn' = [conn EXCEPT ![p].delivered = @ + n] /\ sock' = sock
    BY <1>2, <1>5, <2>1 DEF OnRecvPacket
  <2>3. /\ parsing'.c = p /\ parsing'.pos = parsing.pos + n
        /\ conn'[p] = [conn[p] EXCEPT !.delivered = conn[p].delivered + n]
        /\ \A c \in Conns \ {p} : conn'[c] = conn[c]
    BY <1>2, <2>2 DEF TypeOK
  <2>4. \A c \in Conns \ {p} : Stays(c)
    BY <1>1, <1>2, <1>4, <2>2, <2>3, OthersStay
  <2>5. GotBut(p, {})
    BY <1>1, SameResults
  <2>6. Delivered(p)
    BY <1>2, <2>1, <2>2, <2>3, <2>5 DEF Delivered
  <2>7. QED
    BY <2>4, <2>6 DEF ConnStep
<1>6. ASSUME NEW r, NEW ok \in BOOLEAN, Processed(p, r, from, ok), parsing' = NotParsing,
             IF ok THEN r = Keep(conn[p]) ELSE r = conn[p]
      PROVE  \A c \in Conns : ConnStep(c)
  <2>1. /\ \A c \in Conns \ {p} : conn'[c] = conn[c] /\ sock'[c] = sock[c]
        /\ \/ Renewed(p)
           \/ conn'[p] = WithAnswer(r, from, ok) /\ sock'[p] = sock[p] /\ ~BothClosed(conn'[p])
    BY <1>6, ReturnRecord
  <2>2. parsing'.c = NoConn
    BY <1>6 DEF NotParsing
  <2>3. \A c \in Conns \ {p} : Stays(c)
    BY <1>1, <1>2, <1>4, <2>1, <2>2, OthersStay
  <2>4. GotBut(p, {"RECV_DONE"})
    BY <1>1, SameResults
  <2>5. Renewed(p) \/ Returned(p)
    BY <1>2, <1>4, <1>6, <2>1, <2>2, <2>4 DEF Returned
  <2>6. QED
    BY <2>3, <2>5 DEF ConnStep
<1>7. CASE ParseEnd
  <2>1. Processed(p, Keep(conn[p]), from, TRUE) /\ parsing' = NotParsing
    BY <1>2, <1>3, <1>7 DEF ParseEnd
  <2>2. QED
    BY <1>6, <2>1
<1>8. CASE ParseBad
  <2>1. Processed(p, conn[p], from, FALSE) /\ parsing' = NotParsing
    BY <1>2, <1>3, <1>8 DEF ParseBad
  <2>2. QED
    BY <1>6, <2>1
<1>9. QED
  BY <1>5, <1>7, <1>8

(* A worker's answer.                                                      *)
LEMMA GotPush ==
  ASSUME TypeOK, NEW w \in Workers, NEW p, NEW e, PushResult(w, p, e)
  PROVE  /\ \A c, x : Got(c, x) => Got(c, x)'
         /\ \A c, x : Got(c, x)' => Got(c, x) \/ (c = p /\ x = e)
         /\ Got(p, e)' \/ aborted' = "queue is full"
<1> DEFINE q == resQ[w]
           y == [connection |-> p, evt |-> e]
<1>1. CASE resQ' = [resQ EXCEPT ![w] = Append(@, y)]
  <2>1. /\ q \in Seq(Result) /\ resQ'[w] = Append(q, y)
        /\ \A v \in Workers \ {w} : resQ'[v] = resQ[v]
    BY <1>1 DEF TypeOK
  <2>2. /\ Len(q) \in Nat /\ Len(resQ'[w]) = Len(q) + 1
        /\ \A i \in 1 .. Len(q) : resQ'[w][i] = q[i]
        /\ resQ'[w][Len(q) + 1] = y
    BY <2>1, LenProperties
  <2>3. ASSUME NEW c, NEW x, Got(c, x) PROVE Got(c, x)'
    <3>1. PICK v \in Workers : \E i \in 1 .. Len(resQ[v]) : resQ[v][i] = [connection |-> c, evt |-> x]
      BY <2>3 DEF Got
    <3>2. PICK i \in 1 .. Len(resQ[v]) : resQ[v][i] = [connection |-> c, evt |-> x]
      BY <3>1
    <3>3. i \in 1 .. Len(resQ'[v]) /\ resQ'[v][i] = resQ[v][i]
      <4>1. CASE v = w
        BY <2>2, <3>2, <4>1
      <4>2. CASE v # w
        BY <2>1, <3>2, <4>2
      <4>3. QED
        BY <4>1, <4>2
    <3>4. QED
      BY <3>2, <3>3 DEF Got
  <2>4. ASSUME NEW c, NEW x, Got(c, x)' PROVE Got(c, x) \/ (c = p /\ x = e)
    <3>1. PICK v \in Workers : \E i \in 1 .. Len(resQ'[v]) : resQ'[v][i] = [connection |-> c, evt |-> x]
      BY <2>4 DEF Got
    <3>2. PICK i \in 1 .. Len(resQ'[v]) : resQ'[v][i] = [connection |-> c, evt |-> x]
      BY <3>1
    <3>3. CASE v # w
      BY <2>1, <3>2, <3>3 DEF Got
    <3>4. CASE v = w /\ i \in 1 .. Len(q)
      BY <2>2, <3>2, <3>4 DEF Got
    <3>5. CASE v = w /\ i = Len(q) + 1
      <4>1. [connection |-> c, evt |-> x] = y
        BY <2>2, <3>2, <3>5
      <4>2. [connection |-> c, evt |-> x].connection = y.connection
            /\ [connection |-> c, evt |-> x].evt = y.evt
        BY <4>1
      <4>3. QED
        BY <4>2
    <3>6. i \in 1 .. Len(q) \/ i = Len(q) + 1 \/ v # w
      BY <2>2, <3>2
    <3>7. QED
      BY <3>3, <3>4, <3>5, <3>6
  <2>5. Got(p, e)'
    <3>1. Len(q) + 1 \in 1 .. Len(resQ'[w])
      BY <2>2
    <3>2. QED
      BY <2>2, <3>1 DEF Got
  <2>6. QED
    BY <2>3, <2>4, <2>5
<1>2. CASE aborted' = "queue is full" /\ resQ' = resQ
  <2>1. \A c, x : Got(c, x)' <=> Got(c, x)
    BY <1>2 DEF Got
  <2>2. QED
    BY <1>2, <2>1
<1>3. QED
  BY <1>1, <1>2 DEF PushResult

(* The request of c in execution is answered.                              *)
LEMMA PushAnswers ==
  ASSUME TypeOK, NEW w \in Workers, NEW p \in Conns, NEW e \in Results, PushResult(w, p, e),
         Busy(p, Direction(e)), UNCHANGED parsing, exec' # exec,
         \A c \in Conns \ {p} : conn'[c] = conn[c] /\ sock'[c] = sock[c]
  PROVE  Answers(p, e) /\ \A c \in Conns \ {p} : Stays(c)
<1>1. /\ \A c, x : Got(c, x) => Got(c, x)'
      /\ \A c, x : Got(c, x)' => Got(c, x) \/ (c = p /\ x = e)
      /\ Got(p, e)' \/ aborted' = "queue is full"
  BY GotPush
<1>2. \A c : ParseSame(c)
  BY DEF ParseSame
<1>3. Answers(p, e)
  BY <1>1, <1>2 DEF Answers
<1>4. ASSUME NEW c \in Conns \ {p}
      PROVE  GotBut(c, {})
  <2>1. c # p
    OBVIOUS
  <2>2. \A x : Got(c, x)' <=> Got(c, x)
    BY <1>1, <2>1, Zenon
  <2>3. QED
    BY <2>2, Zenon DEF GotBut
<1>5. \A c \in Conns \ {p} : Stays(c)
  BY <1>2, <1>4 DEF Stays
<1>6. QED
  BY <1>3, <1>5

(* A worker reads.                                                         *)
LEMMA ReadStep ==
  ASSUME TypeOK, NEW w \in Workers, NEW p \in Conns, OnRecv(w, p), conn[p].rWorking = <<>>,
         Busy(p, "RECV"), UNCHANGED parsing, exec' # exec
  PROVE  \A c \in Conns : ConnStep(c)
<1> DEFINE in == sock[p].in
           k == Least(Len(in), RecvSize)
           rest == SubSeq(in, k + 1, Len(in))
           got == SubSeq(in, 1, k)
<1>1. sock[p] \in SockType /\ conn \in [Conns -> ConnType] /\ sock \in [Conns -> SockType]
  BY DEF TypeOK
<1>2. sock[p].err \in {"none", "ECONNRESET", "EPIPE", "taken"}
  BY <1>1 DEF SockType
<1>3. \E e \in RecvResults :
        /\ sock' = [sock EXCEPT ![p].in = rest,
                                ![p].err = IF e = "RECV_ERROR" THEN "taken" ELSE @]
        /\ conn' = IF e = "RECV_DONE"
                   THEN [conn EXCEPT ![p].rWorking = got, ![p].full = (k = RecvSize)]
                   ELSE conn
        /\ PushResult(w, p, e)
  BY <1>2 DEF OnRecv, Least, RecvResults
<1> HIDE DEF k, rest, got
<1>4. PICK e \in RecvResults :
        /\ sock' = [sock EXCEPT ![p].in = rest,
                                ![p].err = IF e = "RECV_ERROR" THEN "taken" ELSE @]
        /\ conn' = IF e = "RECV_DONE"
                   THEN [conn EXCEPT ![p].rWorking = got, ![p].full = (k = RecvSize)]
                   ELSE conn
        /\ PushResult(w, p, e)
  BY <1>3
<1>5. \A c \in Conns \ {p} : conn'[c] = conn[c] /\ sock'[c] = sock[c]
  BY <1>1, <1>4
<1>6. Answers(p, e) /\ \A c \in Conns \ {p} : Stays(c)
  <2>1. e \in Results /\ Direction(e) = "RECV"
    BY DEF Results, Direction, RecvResults, SendResults
  <2>2. Busy(p, Direction(e))
    BY <2>1
  <2>3. QED
    BY <1>4, <1>5, <2>1, <2>2, PushAnswers
<1>7. sock'[p] = [sock[p] EXCEPT !.in = rest, !.err = IF e = "RECV_ERROR" THEN "taken" ELSE sock[p].err]
  BY <1>1, <1>4
<1>8. e # "RECV_ERROR" => sock'[p] = [sock[p] EXCEPT !.in = rest]
  BY <1>1, <1>7 DEF SockType
<1>9. e = "RECV_DONE" =>
        conn'[p] = [conn[p] EXCEPT !.rWorking = got, !.full = (k = RecvSize)]
  BY <1>1, <1>4
<1>10. e # "RECV_DONE" => conn'[p] = conn[p]
  BY <1>4
<1>11. ReadTo(p)
  <2>1. CASE e = "RECV_DONE"
    BY <1>6, <1>8, <1>9, <2>1 DEF ReadTo, k, rest, got
  <2>2. CASE e = "RECV_ERROR"
    BY <1>6, <1>7, <1>10, <2>2 DEF ReadTo, k, rest
  <2>3. CASE e = "RECV_CLOSE"
    BY <1>6, <1>8, <1>10, <2>3 DEF ReadTo, k, rest
  <2>4. QED
    BY <2>1, <2>2, <2>3 DEF RecvResults
<1>12. QED
  BY <1>6, <1>11 DEF ConnStep

(* A worker writes.                                                        *)
LEMMA WriteStep ==
  ASSUME TypeOK, NEW w \in Workers, NEW p \in Conns, OnSend(w, p), ~Severed(p),
         Busy(p, "SEND"), UNCHANGED parsing, exec' # exec
  PROVE  \A c \in Conns : ConnStep(c)
<1> DEFINE b == conn[p].sWorking
           k == Least(Len(b), IF Len(sock[p].out) < SockCap THEN SockCap - Len(sock[p].out) ELSE 0)
           rest == SubSeq(b, k + 1, Len(b))
           put == SubSeq(b, 1, k)
<1>1. /\ sock[p] \in SockType /\ conn \in [Conns -> ConnType] /\ sock \in [Conns -> SockType]
      /\ sock[p].nospace \in BOOLEAN
  BY DEF TypeOK, SockType
<1>2. sock[p].err \in {"none", "ECONNRESET"}
  BY <1>1 DEF SockType, Severed
<1>3. \E e \in SendResults :
        /\ IF e = "SEND_ERROR"
           THEN /\ sock' = [sock EXCEPT ![p].err = "taken"]
                /\ UNCHANGED conn
           ELSE /\ sock' = [sock EXCEPT ![p].out = @ \o put,
                                        ![p].nospace = @ \/ e = "SEND_PENDING"]
                /\ conn' = [conn EXCEPT ![p].sWorking = rest]
        /\ e \in {"SEND_DONE", "SEND_PENDING"} => (e = "SEND_DONE" <=> k = Len(b))
        /\ PushResult(w, p, e)
  BY <1>2 DEF OnSend, Least, SendResults
<1> HIDE DEF k, rest, put
<1>4. PICK e \in SendResults :
        /\ IF e = "SEND_ERROR"
           THEN /\ sock' = [sock EXCEPT ![p].err = "taken"]
                /\ UNCHANGED conn
           ELSE /\ sock' = [sock EXCEPT ![p].out = @ \o put,
                                        ![p].nospace = @ \/ e = "SEND_PENDING"]
                /\ conn' = [conn EXCEPT ![p].sWorking = rest]
        /\ e \in {"SEND_DONE", "SEND_PENDING"} => (e = "SEND_DONE" <=> k = Len(b))
        /\ PushResult(w, p, e)
  BY <1>3
<1>5. PICK full \in BOOLEAN : full = (sock[p].nospace \/ e = "SEND_PENDING")
  BY <1>1
<1>6. \A c \in Conns \ {p} : conn'[c] = conn[c] /\ sock'[c] = sock[c]
  BY <1>1, <1>4
<1>7. Answers(p, e) /\ \A c \in Conns \ {p} : Stays(c)
  <2>1. e \in Results /\ Direction(e) = "SEND"
    BY DEF Results, Direction
  <2>2. Busy(p, Direction(e))
    BY <2>1
  <2>3. QED
    BY <1>4, <1>6, <2>1, <2>2, PushAnswers
<1>8. CASE e = "SEND_ERROR"
  <2>1. conn'[p] = conn[p] /\ sock'[p] = [sock[p] EXCEPT !.err = "taken"]
    BY <1>1, <1>4, <1>8
  <2>2. WriteFrom(p)
    BY <1>7, <1>8, <2>1 DEF WriteFrom
  <2>3. QED
    BY <1>7, <2>2 DEF ConnStep
<1>9. CASE e # "SEND_ERROR"
  <2>1. conn'[p] = [conn[p] EXCEPT !.sWorking = rest]
    BY <1>1, <1>4, <1>9
  <2>2. sock' = [sock EXCEPT ![p].out = @ \o put, ![p].nospace = full]
    BY <1>4, <1>5, <1>9
  <2>3. sock'[p] = [sock[p] EXCEPT !.out = sock[p].out \o put, !.nospace = full]
    BY <1>1, <2>2
  <2>4. IF k = Len(b) THEN Answers(p, "SEND_DONE") ELSE Answers(p, "SEND_PENDING")
    BY <1>4, <1>7, <1>9 DEF SendResults
  <2>5. WriteFrom(p)
    BY <2>1, <2>3, <2>4 DEF WriteFrom, k, rest, put
  <2>6. QED
    BY <1>7, <2>5 DEF ConnStep
<1>10. QED
  BY <1>8, <1>9

(* DoRequest.                                                              *)
LEMMA RequestStep ==
  ASSUME JobInv, NEW w \in Workers, DoRequest(w)
  PROVE  \A c \in Conns : ConnStep(c)
<1>1. TypeOK /\ UNCHANGED parsing /\ exec[w] \in Request /\ exec' # exec
  BY DEF DoRequest, JobInv, TypeOK
<1>2. PICK p \in Conns : p = exec[w].connection
  BY <1>1 DEF Request
<1>3. Busy(p, exec[w].evt)
  <2>1. exec[w] \in ExecJobs(w)
    BY DEF DoRequest, ExecJobs
  <2>2. QED
    BY <1>2, <2>1 DEF JobInv, AllValid, Valid
<1>4. \/ exec[w].evt = "RECV" /\ OnRecv(w, p) /\ conn[p].rWorking = <<>>
      \/ exec[w].evt = "SEND" /\ OnSend(w, p) /\ ~Severed(p)
      \/ UNCHANGED <<conn, sock, resQ>>
  BY <1>2 DEF DoRequest, Abort
<1>5. CASE UNCHANGED <<conn, sock, resQ>>
  <2>1. \A c \in Conns : Stays(c)
    BY <1>1, <1>5, SameResults DEF Stays, ParseSame
  <2>2. QED
    BY <2>1 DEF ConnStep
<1>6. QED
  BY <1>1, <1>3, <1>4, <1>5, ReadStep, WriteStep

(* The peer.                                                               *)
LEMMA PeerMoves ==
  ASSUME TypeOK, NEW p \in Conns, PeerSend(p) \/ PeerFin(p) \/ PeerReset(p) \/ PeerRead(p)
  PROVE  \A c \in Conns : ConnStep(c)
<1>1. UNCHANGED <<conn, parsing, resQ>>
  BY DEF PeerSend, PeerFin, PeerReset, PeerRead
<1>2. \A c \in Conns \ {p} : sock'[c] = sock[c]
  BY DEF PeerSend, PeerFin, PeerReset, PeerRead, TypeOK
<1>3. \A c : GotBut(c, {}) /\ ParseSame(c)
  BY <1>1, SameResults DEF ParseSame
<1>4. \A c \in Conns \ {p} : Stays(c)
  BY <1>1, <1>2, <1>3 DEF Stays
<1>5. sock \in [Conns -> SockType]
  BY DEF TypeOK
<1>6. PeerMoved(p)
  <2>1. CASE PeerSend(p)
    BY <1>1, <1>3, <1>5, <2>1 DEF PeerSend, PeerMoved
  <2>2. CASE PeerFin(p)
    BY <1>1, <1>3, <1>5, <2>2 DEF PeerFin, PeerMoved
  <2>3. CASE PeerReset(p)
    BY <1>1, <1>3, <1>5, <2>3 DEF PeerReset, PeerMoved
  <2>4. CASE PeerRead(p)
    BY <1>1, <1>3, <1>5, <2>4 DEF PeerRead, PeerMoved
  <2>5. QED
    BY <2>1, <2>2, <2>3, <2>4
<1>7. QED
  BY <1>4, <1>6 DEF ConnStep

(* Every step.                                                             *)
LEMMA StepShape == JobInv /\ [Next]_vars => \A c \in Conns : ConnStep(c)
<1> SUFFICES ASSUME JobInv, [Next]_vars PROVE \A c \in Conns : ConnStep(c)
  OBVIOUS
<1>0. TypeOK
  BY DEF JobInv
<1>1. ASSUME UNCHANGED <<conn, sock, resQ, parsing>> PROVE \A c \in Conns : ConnStep(c)
  <2>1. \A c \in Conns : Stays(c)
    BY <1>1, SameResults DEF Stays, ParseSame
  <2>2. QED
    BY <2>1 DEF ConnStep
<1>2. ASSUME NEW p \in Conns, Establish(p) PROVE \A c \in Conns : ConnStep(c)
  <2>1. PICK w \in Workers : GetWorker(w) /\ conn' = [conn EXCEPT ![p] = NewConn(w)]
    BY <1>2 DEF Establish
  <2>2. /\ conn'[p] = NewConn(w) /\ sock'[p] = NewSock
        /\ \A c \in Conns \ {p} : conn'[c] = conn[c] /\ sock'[c] = sock[c]
    BY <1>0, <1>2, <2>1 DEF Establish, TypeOK
  <2>3. \A c \in Conns \ {p} : Stays(c)
    BY <1>2, <2>2, SameResults DEF Establish, Stays, ParseSame
  <2>4. Renewed(p)
    BY <1>2, <2>1, <2>2 DEF Renewed, Establish, Open
  <2>5. QED
    BY <2>3, <2>4 DEF ConnStep
<1>3. ASSUME NEW p \in Conns, EstablishNoSlot(p) PROVE \A c \in Conns : ConnStep(c)
  BY <1>1, <1>3 DEF EstablishNoSlot
<1>4. CASE EpollWait
  BY <1>1, <1>4 DEF EpollWait
<1>5. ASSUME NEW p \in Conns, Dispatch(p) \/ Close(p) PROVE \A c \in Conns : ConnStep(c)
  BY <1>0, <1>5, DispatchStep
<1>6. ASSUME NEW w \in Workers, DoResult(w) \/ DoData(w) PROVE \A c \in Conns : ConnStep(c)
  BY <1>6, ResultStep, DataStep
<1>7. CASE OnRecvPacket \/ ParseEnd \/ ParseBad
  BY <1>0, <1>7, ParseStep
<1>8. ASSUME NEW p \in Conns, NEW n \in 1 .. MaxOut, Send(p, n) PROVE \A c \in Conns : ConnStep(c)
  BY <1>0, <1>8, SendStep
<1>9. ASSUME NEW w \in Workers, ThreadProc(w) PROVE \A c \in Conns : ConnStep(c)
  BY <1>1, <1>9 DEF ThreadProc
<1>10. ASSUME NEW w \in Workers, DoRequest(w) PROVE \A c \in Conns : ConnStep(c)
  BY <1>10, RequestStep
<1>11. ASSUME NEW p \in Conns, PeerSend(p) \/ PeerFin(p) \/ PeerReset(p) \/ PeerRead(p)
       PROVE  \A c \in Conns : ConnStep(c)
  BY <1>0, <1>11, PeerMoves
<1>12. CASE UNCHANGED vars
  BY <1>1, <1>12 DEF vars
<1>13. QED
  BY <1>2, <1>3, <1>4, <1>5, <1>6, <1>7, <1>8, <1>9, <1>10, <1>11, <1>12
     DEF Next, Running, LoopStep, AppStep, WorkerStep, PeerStep, Halted

-----------------------------------------------------------------------------
(* The machines' step, field by field.                                     *)
LEMMA MachinesFields ==
  ASSUME NEW r \in ConnType, NEW e \in NetEvents
  PROVE  LET q == Machines(r, e)
             s == SendOn(r.send, e)
         IN  /\ q \in ConnType
             /\ q.worker = r.worker /\ q.rWorking = r.rWorking /\ q.rUsing = r.rUsing
             /\ q.offered = r.offered /\ q.delivered = r.delivered
             /\ q.recv = RecvOn(r.recv, e).to
             /\ \/ /\ s.act = "begin" /\ Fits(r) /\ q.send = s.to
                   /\ q.sWorking = r.sWorking \o r.sUsing /\ q.sUsing = <<>>
                \/ /\ s.act = "begin" /\ ~Fits(r) /\ q.send = "SendClose"
                   /\ q.sWorking = r.sWorking /\ q.sUsing = r.sUsing
                \/ /\ s.act = "go" /\ q.send = s.to
                   /\ q.sWorking = r.sWorking /\ q.sUsing = r.sUsing
<1>1. PICK s : s = SendOn(r.send, e)
  OBVIOUS
<1>2. PICK t : t = RecvOn(r.recv, e)
  OBVIOUS
<1>3. s.act \in {"go", "begin"}
  BY <1>1, SendOnType DEF ConnType
<1>4. Machines(r, e) = [SendMachine(r, s) EXCEPT !.recv = t.to] /\ Machines(r, e) \in ConnType
  BY <1>1, <1>2, MachinesType DEF Machines
<1>5. CASE s.act = "begin" /\ Fits(r)
  <2>1. Machines(r, e) = [r EXCEPT !.send = s.to, !.sWorking = r.sWorking \o r.sUsing,
                                   !.sUsing = <<>>, !.recv = t.to]
    BY <1>4, <1>5 DEF SendMachine, BeginSend, ConnType
  <2>2. QED
    BY <1>1, <1>2, <1>4, <1>5, <2>1 DEF ConnType
<1>6. CASE s.act = "begin" /\ ~Fits(r)
  <2>1. Machines(r, e) = [r EXCEPT !.send = "SendClose", !.recv = t.to]
    BY <1>4, <1>6 DEF SendMachine, BeginSend, ConnType
  <2>2. QED
    BY <1>1, <1>2, <1>4, <1>6, <2>1 DEF ConnType
<1>7. CASE s.act = "go"
  <2>1. Machines(r, e) = [r EXCEPT !.send = s.to, !.recv = t.to]
    BY <1>4, <1>7 DEF SendMachine, ConnType
  <2>2. QED
    BY <1>1, <1>2, <1>4, <1>7, <2>1 DEF ConnType
<1>8. QED
  BY <1>3, <1>5, <1>6, <1>7

(* A new connection.                                                       *)
LEMMA NewFields ==
  ASSUME NEW c, Renewed(c)
  PROVE  /\ conn'[c].send = "SendNone" /\ conn'[c].recv = "RecvNone"
         /\ conn'[c].sWorking = <<>> /\ conn'[c].sUsing = <<>>
         /\ conn'[c].rWorking = <<>> /\ conn'[c].rUsing = <<>>
         /\ conn'[c].offered = 0 /\ conn'[c].delivered = 0
         /\ sock'[c].in = <<>> /\ sock'[c].sent = 0 /\ sock'[c].err = "none"
         /\ sock'[c].out = <<>> /\ sock'[c].drained = 0
<1>1. PICK w : conn'[c] = NewConn(w)
  BY DEF Renewed
<1>2. sock'[c] = NewSock
  BY DEF Renewed
<1>3. QED
  BY <1>1, <1>2 DEF NewConn, NewSock

(* What Send makes of a record.                                            *)
LEMMA SendFields ==
  ASSUME NEW r \in ConnType, NEW n \in 1 .. MaxOut, r.offered + n <= MaxOut
  PROVE  /\ WithOffered(r, n) \in ConnType /\ WithBytes(r, n) \in ConnType
         /\ \A q \in {WithOffered(r, n), WithBytes(r, n)} :
              /\ q.worker = r.worker /\ q.send = r.send /\ q.recv = r.recv
              /\ q.sWorking = r.sWorking /\ q.rWorking = r.rWorking /\ q.rUsing = r.rUsing
              /\ q.offered = r.offered + n /\ q.delivered = r.delivered
         /\ WithOffered(r, n).sUsing = r.sUsing
         /\ WithBytes(r, n).sUsing = r.sUsing \o Bytes(r.offered, n)
         /\ Bytes(r.offered, n) \in Seq(1 .. MaxOut) /\ Len(Bytes(r.offered, n)) = n
         /\ Len(WithBytes(r, n).sUsing) = Len(r.sUsing) + n
<1>1. /\ r.offered \in Nat /\ n \in Nat /\ r.offered + n \in 0 .. MaxOut
      /\ r.sUsing \in Seq(1 .. MaxOut)
  BY SizeAssumption DEF ConnType
<1>2. Bytes(r.offered, n) \in Seq(1 .. MaxOut) /\ Len(Bytes(r.offered, n)) = n
  <2>1. Bytes(r.offered, n) \in Seq(1 .. MaxOut)
    BY <1>1, BytesType
  <2>2. QED
    BY <1>1, <2>1 DEF Bytes
<1>3. PICK b \in Seq(1 .. MaxOut) : b = Bytes(r.offered, n)
  BY <1>2
<1>4. r.sUsing \o b \in Seq(1 .. MaxOut) /\ Len(r.sUsing \o b) = Len(r.sUsing) + Len(b)
  BY <1>1, ConcatProperties
<1>5. PICK u \in Seq(1 .. MaxOut) : u = r.sUsing \o b
  BY <1>4
<1>6. PICK m \in 0 .. MaxOut : m = r.offered + n
  BY <1>1
<1>7. /\ WithOffered(r, n) = [r EXCEPT !.offered = m]
      /\ WithBytes(r, n) = [r EXCEPT !.offered = m, !.sUsing = u]
  BY <1>3, <1>5, <1>6 DEF WithOffered, WithBytes, ConnType
<1>8. PICK x : x = WithOffered(r, n)
  OBVIOUS
<1>9. PICK y : y = WithBytes(r, n)
  OBVIOUS
<1>10. /\ x \in ConnType /\ x.worker = r.worker /\ x.send = r.send /\ x.recv = r.recv
       /\ x.sWorking = r.sWorking /\ x.rWorking = r.rWorking /\ x.rUsing = r.rUsing
       /\ x.offered = m /\ x.delivered = r.delivered /\ x.sUsing = r.sUsing
  BY <1>7, <1>8 DEF ConnType
<1>11. /\ y \in ConnType /\ y.worker = r.worker /\ y.send = r.send /\ y.recv = r.recv
       /\ y.sWorking = r.sWorking /\ y.rWorking = r.rWorking /\ y.rUsing = r.rUsing
       /\ y.offered = m /\ y.delivered = r.delivered /\ y.sUsing = u
  BY <1>7, <1>9 DEF ConnType
<1>12. Len(y.sUsing) = Len(r.sUsing) + n
  BY <1>2, <1>3, <1>4, <1>5, <1>11
<1>13. QED
  BY <1>2, <1>3, <1>5, <1>6, <1>8, <1>9, <1>10, <1>11, <1>12

(* What ProcessPacket makes of a record.                                   *)
LEMMA AnswerFields ==
  ASSUME NEW r \in ConnType, NEW from \in {"Recving", "RecvingWait"}, NEW ok \in BOOLEAN
  PROVE  LET q == WithAnswer(r, from, ok) IN
           /\ q \in ConnType /\ q.recv = AfterProcess(from, ok).to
           /\ q.worker = r.worker /\ q.send = r.send
           /\ q.sWorking = r.sWorking /\ q.sUsing = r.sUsing
           /\ q.rWorking = r.rWorking /\ q.rUsing = r.rUsing
           /\ q.offered = r.offered /\ q.delivered = r.delivered
<1>1. PICK t \in RecvStates : t = AfterProcess(from, ok).to
  BY AfterProcessType
<1>2. WithAnswer(r, from, ok) = [r EXCEPT !.recv = t, !.refused = ~ok]
  BY <1>1 DEF WithAnswer
<1>3. QED
  BY <1>1, <1>2 DEF ConnType

LEMMA KeepFields ==
  ASSUME TypeOK, Parsing
  PROVE  LET r == conn[parsing.c]
             q == Keep(r)
         IN  /\ q \in ConnType /\ q.rUsing = Rest /\ Rest \in Seq(1 .. MaxIn)
             /\ q.worker = r.worker /\ q.send = r.send /\ q.recv = r.recv
             /\ q.sWorking = r.sWorking /\ q.sUsing = r.sUsing /\ q.rWorking = r.rWorking
             /\ q.offered = r.offered /\ q.delivered = r.delivered
<1>1. PICK b \in Seq(1 .. MaxIn) : b = Rest
  BY RestType
<1>2. conn[parsing.c] \in ConnType
  BY DEF TypeOK, Parsing
<1>3. Keep(conn[parsing.c]) = [conn[parsing.c] EXCEPT !.rUsing = b]
  BY <1>1 DEF Keep
<1>4. QED
  BY <1>1, <1>2, <1>3 DEF ConnType

LEMMA TakeFields ==
  ASSUME NEW r \in ConnType
  PROVE  LET q == TakeRead(r) IN
           /\ q \in ConnType /\ q.rUsing = r.rUsing \o r.rWorking /\ q.rWorking = <<>>
           /\ Len(q.rUsing) = Len(r.rUsing) + Len(r.rWorking)
           /\ q.worker = r.worker /\ q.send = r.send /\ q.recv = r.recv
           /\ q.sWorking = r.sWorking /\ q.sUsing = r.sUsing
           /\ q.offered = r.offered /\ q.delivered = r.delivered
<1>1. /\ r.rUsing \o r.rWorking \in Seq(1 .. MaxIn)
      /\ Len(r.rUsing \o r.rWorking) = Len(r.rUsing) + Len(r.rWorking)
  BY ConcatProperties DEF ConnType
<1>2. PICK b \in Seq(1 .. MaxIn) : b = r.rUsing \o r.rWorking
  BY <1>1
<1>3. <<>> \in Seq(1 .. MaxIn)
  BY EmptySeq
<1>4. TakeRead(r) = [r EXCEPT !.rUsing = b, !.rWorking = <<>>]
  BY <1>2 DEF TakeRead
<1>5. /\ TakeRead(r) \in ConnType /\ TakeRead(r).rUsing = b /\ TakeRead(r).rWorking = <<>>
      /\ TakeRead(r).worker = r.worker /\ TakeRead(r).send = r.send /\ TakeRead(r).recv = r.recv
      /\ TakeRead(r).sWorking = r.sWorking /\ TakeRead(r).sUsing = r.sUsing
      /\ TakeRead(r).offered = r.offered /\ TakeRead(r).delivered = r.delivered
  BY <1>3, <1>4 DEF ConnType
<1>6. QED
  BY <1>1, <1>2, <1>5

-----------------------------------------------------------------------------
(* No buffer overruns.                                                     *)
Bounded(r) == /\ Len(r.sWorking) <= SendSize /\ Len(r.sUsing) <= SendSize
              /\ Len(r.rWorking) <= RecvSize /\ Len(r.rUsing) <= RecvSize

(* BeginSend has looked before it copies.                                  *)
LEMMA MachinesBounded ==
  ASSUME NEW r \in ConnType, NEW e \in NetEvents, Bounded(r)
  PROVE  Bounded(Machines(r, e))
<1>1. PICK q : q = Machines(r, e)
  OBVIOUS
<1>2. /\ q.rWorking = r.rWorking /\ q.rUsing = r.rUsing
      /\ \/ /\ Fits(r) /\ q.sWorking = r.sWorking \o r.sUsing /\ q.sUsing = <<>>
         \/ q.sWorking = r.sWorking /\ q.sUsing = r.sUsing
  BY <1>1, MachinesFields
<1>3. Len(r.sWorking \o r.sUsing) = Len(r.sWorking) + Len(r.sUsing)
  BY ConcatProperties DEF ConnType
<1>4. Len(<<>>) = 0
  OBVIOUS
<1>5. CASE q.sWorking = r.sWorking /\ q.sUsing = r.sUsing
  <2>1. Bounded(q)
    BY <1>2, <1>5 DEF Bounded
  <2>2. QED
    BY <1>1, <2>1
<1>6. CASE Fits(r) /\ q.sWorking = r.sWorking \o r.sUsing /\ q.sUsing = <<>>
  <2>1. Len(q.sWorking) = Len(r.sWorking) + Len(r.sUsing)
    BY <1>3, <1>6
  <2>2. Len(q.sUsing) = 0
    BY <1>4, <1>6
  <2>3. Len(q.sWorking) <= SendSize
    BY <1>6, <2>1 DEF Fits
  <2>4. Len(q.sUsing) <= SendSize
    BY <2>2, SizeAssumption
  <2>5. Bounded(q)
    BY <1>2, <2>3, <2>4 DEF Bounded
  <2>6. QED
    BY <1>1, <2>5
<1>7. QED
  BY <1>2, <1>5, <1>6

LEMMA SuffixLength ==
  ASSUME NEW S, NEW b \in Seq(S), NEW k \in Nat
  PROVE  Len(SubSeq(b, k + 1, Len(b))) <= Len(b)
<1>1. Len(b) \in Nat
  BY LenProperties
<1>2. CASE k + 1 <= Len(b)
  BY <1>1, <1>2, SubSeqProperties
<1>3. CASE ~(k + 1 <= Len(b))
  BY <1>1, <1>3, SubSeqProperties
<1>4. QED
  BY <1>2, <1>3

LEMMA PrefixLength ==
  ASSUME NEW S, NEW b \in Seq(S), NEW k \in 0 .. Len(b)
  PROVE  Len(SubSeq(b, 1, k)) = k
  BY LenProperties, SubSeqProperties

LEMMA LeastType ==
  ASSUME NEW m \in Nat, NEW n \in Nat
  PROVE  Least(m, n) \in Nat /\ Least(m, n) \in 0 .. m /\ Least(m, n) \in 0 .. n
  BY DEF Least

LEMMA RoomType ==
  ASSUME NEW m \in Nat
  PROVE  (IF m < SockCap THEN SockCap - m ELSE 0) \in Nat
  BY SizeAssumption

(* A worker reads, or writes.                                              *)
LEMMA ReadBounded ==
  ASSUME TypeOK, NEW c \in Conns, ReadTo(c), Bounded(conn[c])
  PROVE  Bounded(conn'[c])
<1>1. conn[c] \in ConnType /\ sock[c].in \in Seq(1 .. MaxIn) /\ Len(sock[c].in) \in Nat
  BY LenProperties DEF TypeOK, SockType
<1>2. PICK k \in Nat : k = Least(Len(sock[c].in), RecvSize) /\ k \in 0 .. Len(sock[c].in) /\ k <= RecvSize
  <2>1. RecvSize \in Nat
    BY SizeAssumption
  <2>2. QED
    <3>1. PICK m \in Nat : m = Len(sock[c].in)
      BY <1>1
    <3>2. Least(m, RecvSize) \in Nat /\ Least(m, RecvSize) \in 0 .. m /\ Least(m, RecvSize) \in 0 .. RecvSize
      BY <2>1, LeastType
    <3>3. PICK k \in Nat : k = Least(m, RecvSize)
      BY <3>2
    <3>4. k \in 0 .. m /\ k <= RecvSize
      BY <2>1, <3>2, <3>3
    <3>5. QED
      BY <3>1, <3>3, <3>4
<1>3. Len(SubSeq(sock[c].in, 1, k)) <= RecvSize
  BY <1>1, <1>2, PrefixLength
<1>4. PICK b : b = SubSeq(sock[c].in, 1, k)
  OBVIOUS
<1>5. \/ conn'[c] = [conn[c] EXCEPT !.rWorking = b, !.full = (k = RecvSize)]
      \/ conn'[c] = conn[c]
  BY <1>2, <1>4 DEF ReadTo
<1>6. QED
  BY <1>1, <1>3, <1>4, <1>5 DEF Bounded, ConnType

LEMMA WriteBounded ==
  ASSUME TypeOK, NEW c \in Conns, WriteFrom(c), Bounded(conn[c])
  PROVE  Bounded(conn'[c])
<1>1. /\ conn[c] \in ConnType
      /\ conn[c].sWorking \in Seq(1 .. MaxOut) /\ Len(conn[c].sWorking) \in Nat
      /\ sock[c].out \in Seq(1 .. MaxOut) /\ Len(sock[c].out) \in Nat
  BY LenProperties DEF TypeOK, ConnType, SockType
<1>2. PICK room \in Nat : room = IF Len(sock[c].out) < SockCap THEN SockCap - Len(sock[c].out) ELSE 0
  BY <1>1, RoomType
<1>3. PICK k \in Nat : k = Least(Len(conn[c].sWorking), room)
  BY <1>1, LeastType
<1>4. PICK b : b = SubSeq(conn[c].sWorking, k + 1, Len(conn[c].sWorking))
  OBVIOUS
<1>5. Len(b) <= Len(conn[c].sWorking)
  BY <1>1, <1>4, SuffixLength
<1>6. conn'[c] = conn[c] \/ conn'[c] = [conn[c] EXCEPT !.sWorking = b]
  BY <1>2, <1>3, <1>4 DEF WriteFrom
<1>7. b \in Seq(1 .. MaxOut)
  BY <1>1, <1>4, SuffixType
<1>8. Len(b) <= SendSize
  BY <1>1, <1>5, <1>7, LenProperties, SizeAssumption DEF Bounded
<1>9. QED
  BY <1>1, <1>6, <1>8 DEF Bounded, ConnType

LEMMA BoundedStep ==
  ASSUME TypeOK, NEW c \in Conns, ConnStep(c), Bounded(conn[c])
  PROVE  Bounded(conn'[c])
<1>0. PICK r \in ConnType : r = conn[c]
  BY DEF TypeOK
<1>1. CASE Stays(c) \/ PeerMoved(c)
  BY <1>1 DEF Stays, PeerMoved
<1>2. CASE Renewed(c)
  <2>1. Len(<<>>) = 0
    OBVIOUS
  <2>2. QED
    BY <1>2, <2>1, NewFields, SizeAssumption DEF Bounded
<1>3. ASSUME NEW e \in NetEvents, Took(c, conn[c], e) PROVE Bounded(conn'[c])
  BY <1>0, <1>3, MachinesBounded DEF Took
<1>4. ASSUME NEW n \in 1 .. MaxOut, SentTo(c, n) PROVE Bounded(conn'[c])
  <2>1. r.offered + n <= MaxOut
    BY <1>0, <1>4 DEF SentTo
  <2>2. CASE Took(c, WithOffered(r, n), "ERROR")
    <3>1. PICK q \in ConnType : q = WithOffered(r, n)
      BY <2>1, SendFields
    <3>2. Bounded(q)
      BY <1>0, <2>1, <3>1, SendFields DEF Bounded
    <3>3. conn'[c] = Machines(q, "ERROR") /\ "ERROR" \in NetEvents
      BY <2>2, <3>1 DEF Took
    <3>4. QED
      BY <3>2, <3>3, MachinesBounded
  <2>3. CASE Len(r.sUsing) + n <= SendSize /\ Took(c, WithBytes(r, n), "SEND")
    <3>1. PICK q \in ConnType : q = WithBytes(r, n)
      BY <2>1, SendFields
    <3>2. Bounded(q)
      BY <1>0, <2>1, <2>3, <3>1, SendFields DEF Bounded
    <3>3. conn'[c] = Machines(q, "SEND") /\ "SEND" \in NetEvents
      BY <2>3, <3>1 DEF Took
    <3>4. QED
      BY <3>2, <3>3, MachinesBounded
  <2>4. QED
    BY <1>0, <1>4, <2>2, <2>3 DEF SentTo
<1>5. CASE Returned(c)
  <2>1. PICK from \in {"Recving", "RecvingWait"} :
          \/ \E ok \in BOOLEAN : conn'[c] = WithAnswer(r, from, ok)
          \/ parsing.c = c /\ conn'[c] = WithAnswer(Keep(r), from, TRUE)
    BY <1>0, <1>5 DEF Returned
  <2>2. ASSUME NEW ok \in BOOLEAN, conn'[c] = WithAnswer(r, from, ok) PROVE Bounded(conn'[c])
    BY <1>0, <2>2, AnswerFields DEF Bounded
  <2>3. CASE parsing.c = c /\ conn'[c] = WithAnswer(Keep(r), from, TRUE)
    <3>1. Parsing
      BY <2>3, NullAssumption DEF Parsing
    <3>2. PICK q \in ConnType : q = Keep(r)
      BY <1>0, <2>3, <3>1, KeepFields
    <3>3. q.rUsing = Rest /\ q.sWorking = r.sWorking /\ q.sUsing = r.sUsing /\ q.rWorking = r.rWorking
      BY <1>0, <2>3, <3>1, <3>2, KeepFields
    <3>4. Len(Rest) <= Len(r.rUsing)
      BY <1>0, <2>3, SuffixLength DEF Rest, ConnType, TypeOK
    <3>5. Len(Rest) \in Nat /\ Len(r.rUsing) \in Nat
      BY <3>1, KeepFields, LenProperties DEF ConnType
    <3>6. Bounded(q)
      BY <1>0, <3>3, <3>4, <3>5, SizeAssumption DEF Bounded
    <3>7. TRUE \in BOOLEAN /\ conn'[c] = WithAnswer(q, from, TRUE)
      BY <2>3, <3>2
    <3>8. PICK z : z = WithAnswer(q, from, TRUE)
      OBVIOUS
    <3>9. /\ z.sWorking = q.sWorking /\ z.sUsing = q.sUsing
          /\ z.rWorking = q.rWorking /\ z.rUsing = q.rUsing
      BY <3>7, <3>8, AnswerFields
    <3>10. QED
      BY <3>6, <3>7, <3>8, <3>9 DEF Bounded
  <2>4. QED
    BY <2>1, <2>2, <2>3
<1>6. CASE Began(c)
  <2>1. conn'[c] = TakeRead(r) /\ Len(r.rWorking) + Len(r.rUsing) <= RecvSize
    BY <1>0, <1>6 DEF Began
  <2>2. Len(r.rWorking) \in Nat /\ Len(r.rUsing) \in Nat /\ Len(<<>>) = 0
    BY LenProperties DEF ConnType
  <2>3. PICK q : q = TakeRead(r)
    OBVIOUS
  <2>4. /\ q.rWorking = <<>> /\ q.sWorking = r.sWorking /\ q.sUsing = r.sUsing
        /\ Len(q.rUsing) = Len(r.rUsing) + Len(r.rWorking)
    BY <2>3, TakeFields
  <2>5. Len(q.rUsing) <= RecvSize /\ Len(q.rWorking) <= RecvSize
    <3>1. Len(q.rUsing) <= RecvSize
      <4>1. \A a, b \in Nat : a + b = b + a
        OBVIOUS
      <4>2. Len(q.rUsing) = Len(r.rWorking) + Len(r.rUsing)
        BY <2>2, <2>4, <4>1
      <4>3. QED
        BY <2>1, <4>2
    <3>2. Len(q.rWorking) = 0
      BY <2>2, <2>4
    <3>3. QED
      BY <3>1, <3>2, SizeAssumption
  <2>6. QED
    BY <1>0, <2>1, <2>3, <2>4, <2>5 DEF Bounded
<1>7. CASE Delivered(c)
  BY <1>0, <1>7 DEF Delivered, Bounded, ConnType
<1>8. QED
  BY <1>1, <1>2, <1>3, <1>4, <1>5, <1>6, <1>7, ReadBounded, WriteBounded DEF ConnStep

(* No memcpy of Send, BeginSend, OnRecv or ProcessPacket overruns one of   *)
(* the four buffers of a connection.                                       *)
THEOREM NoOverrun == Spec => []BuffersBounded
<1>1. Init => BuffersBounded
  BY SizeAssumption DEF Init, NewConn, BuffersBounded
<1>2. JobInv /\ BuffersBounded /\ [Next]_vars => BuffersBounded'
  <2> SUFFICES ASSUME JobInv, BuffersBounded, [Next]_vars, NEW c \in Conns
               PROVE  Bounded(conn'[c])
    BY DEF BuffersBounded, Bounded
  <2>1. TypeOK /\ ConnStep(c) /\ Bounded(conn[c])
    BY StepShape DEF JobInv, BuffersBounded, Bounded
  <2>2. QED
    BY <2>1, BoundedStep
<1>3. QED
  BY <1>1, <1>2, JobInvHolds, PTL DEF Spec

-----------------------------------------------------------------------------
(* Outgoing bytes.  In every state the pipe is increasing and holds only   *)
(* bytes the application has offered; until a closing state is entered it  *)
(* is exactly what was offered and the peer has not read.                  *)
Increasing(p) == \A i, j \in 1 .. Len(p) : i < j => p[i] < p[j]

Stream(p, d, o, st) ==
  /\ Increasing(p) /\ \A i \in 1 .. Len(p) : p[i] <= o
  /\ st \notin SendClosing => d <= o /\ p = Bytes(d, o - d)

LEMMA BytesAt ==
  ASSUME NEW d \in Nat, NEW m \in Nat
  PROVE  /\ Bytes(d, m) \in Seq(Nat) /\ Len(Bytes(d, m)) = m
         /\ \A i \in 1 .. m : Bytes(d, m)[i] = d + i
<1>1. \A i \in 1 .. m : d + i \in Nat
  OBVIOUS
<1>2. Bytes(d, m) \in [1 .. m -> Nat]
  BY <1>1 DEF Bytes
<1>3. Bytes(d, m) \in Seq(Nat)
  BY <1>2
<1>4. QED
  BY <1>2, <1>3, LenProperties DEF Bytes

(* A sequence of these bytes.                                              *)
LEMMA IsBytes ==
  ASSUME NEW S, NEW p \in Seq(S), NEW d \in Nat, NEW m \in Nat, Len(p) = m,
         \A i \in 1 .. m : p[i] = d + i
  PROVE  p = Bytes(d, m)
<1>1. DOMAIN p = 1 .. m /\ p = [i \in 1 .. m |-> p[i]]
  BY LenProperties
<1>2. [i \in 1 .. m |-> p[i]] = [i \in 1 .. m |-> d + i]
  OBVIOUS
<1>3. QED
  BY <1>1, <1>2 DEF Bytes

LEMMA StreamCloses ==
  ASSUME NEW p, NEW d, NEW o, NEW st, NEW to, Stream(p, d, o, st),
         st \in SendClosing => to \in SendClosing
  PROVE  Stream(p, d, o, to)
  BY DEF Stream

LEMMA StreamDrops ==
  ASSUME NEW p \in Seq(Nat), NEW d \in Nat, NEW o \in Nat, NEW n \in Nat, NEW st, NEW to \in SendClosing,
         Stream(p, d, o, st)
  PROVE  Stream(p, d, o + n, to)
<1>1. \A i \in 1 .. Len(p) : p[i] \in Nat
  BY ElementOfSeq
<1>2. \A i \in 1 .. Len(p) : p[i] <= o + n
  BY <1>1 DEF Stream
<1>3. QED
  BY <1>2 DEF Stream

LEMMA StreamGrows ==
  ASSUME NEW p \in Seq(Nat), NEW d \in Nat, NEW o \in Nat, NEW n \in Nat, NEW st, Stream(p, d, o, st)
  PROVE  Stream(p \o Bytes(o, n), d, o + n, st)
<1>1. PICK b \in Seq(Nat) : b = Bytes(o, n)
  BY BytesAt
<1>2. Len(b) = n /\ \A i \in 1 .. n : b[i] = o + i
  BY <1>1, BytesAt
<1>3. PICK q \in Seq(Nat) : q = p \o b
  BY ConcatProperties
<1>4. PICK m \in Nat : m = Len(p)
  BY LenProperties
<1>5. Len(q) = m + n
  BY <1>2, <1>3, <1>4, ConcatProperties
<1>6. \A i \in 1 .. m + n : q[i] = IF i <= m THEN p[i] ELSE b[i - m]
  BY <1>2, <1>3, <1>4, ConcatProperties
<1>7. \A i \in 1 .. m : q[i] = p[i] /\ q[i] \in Nat /\ q[i] <= o
  <2>1. SUFFICES ASSUME NEW i \in 1 .. m PROVE q[i] = p[i] /\ q[i] \in Nat /\ q[i] <= o
    OBVIOUS
  <2>2. i \in 1 .. m + n /\ i <= m /\ i \in 1 .. Len(p)
    BY <1>4
  <2>3. p[i] \in Nat /\ p[i] <= o
    BY <2>2, ElementOfSeq DEF Stream
  <2>4. QED
    BY <1>6, <2>2, <2>3
<1>8. ASSUME NEW i \in m + 1 .. m + n PROVE q[i] = o + (i - m)
  <2>1. i \in 1 .. m + n /\ ~(i <= m) /\ i - m \in 1 .. n
    OBVIOUS
  <2>2. QED
    BY <1>2, <1>6, <2>1
<1>9. \A i \in 1 .. m + n : q[i] <= o + n
  BY <1>7, <1>8
<1>10. \A i, j \in 1 .. m : i < j => q[i] < q[j]
  BY <1>4, <1>7 DEF Stream, Increasing
<1>11. Increasing(q)
  <2>1. SUFFICES ASSUME NEW i \in 1 .. m + n, NEW j \in 1 .. m + n, i < j PROVE q[i] < q[j]
    BY <1>5 DEF Increasing
  <2>2. CASE j <= m
    BY <1>10, <2>1, <2>2
  <2>3. CASE j > m /\ i <= m
    BY <1>7, <1>8, <2>1, <2>3
  <2>4. CASE i > m
    BY <1>8, <2>1, <2>4
  <2>5. QED
    BY <2>2, <2>3, <2>4
<1>12. ASSUME st \notin SendClosing
       PROVE  d <= o + n /\ q = Bytes(d, (o + n) - d)
  <2>1. d <= o /\ p = Bytes(d, o - d)
    BY <1>12 DEF Stream
  <2>2. o - d \in Nat
    BY <2>1
  <2>3. m = o - d /\ \A i \in 1 .. m : p[i] = d + i
    <3>1. PICK z \in Nat : z = o - d
      BY <2>2
    <3>2. p = Bytes(d, z)
      BY <2>1, <3>1
    <3>3. Len(p) = z /\ \A i \in 1 .. z : p[i] = d + i
      BY <3>2, BytesAt
    <3>4. QED
      BY <1>4, <3>1, <3>3
  <2>4. \A i \in 1 .. m + n : q[i] = d + i
    BY <1>7, <1>8, <2>1, <2>3
  <2>5. (o + n) - d \in Nat /\ Len(q) = (o + n) - d
    BY <1>5, <2>1, <2>3
  <2>6. \A i \in 1 .. (o + n) - d : q[i] = d + i
    BY <1>5, <2>4, <2>5
  <2>7. QED
    BY <2>1, <2>5, <2>6, IsBytes
<1>13. QED
  BY <1>1, <1>3, <1>5, <1>9, <1>11, <1>12 DEF Stream

LEMMA StreamDrains ==
  ASSUME NEW p \in Seq(Nat), NEW d \in Nat, NEW o \in Nat, NEW st, Stream(p, d, o, st), p # <<>>
  PROVE  Stream(Tail(p), d + 1, o, st)
<1>1. PICK q \in Seq(Nat) : q = Tail(p)
  BY HeadTailProperties
<1>2. PICK m \in Nat : Len(p) = m + 1 /\ Len(q) = m
  <2>1. Len(p) \in Nat /\ Len(p) # 0
    BY LenProperties, EmptySeq
  <2>2. Len(q) = Len(p) - 1
    BY <1>1, HeadTailProperties
  <2>3. Len(p) - 1 \in Nat
    BY <2>1
  <2>4. QED
    BY <2>1, <2>2, <2>3
<1>3. \A i \in 1 .. m : q[i] = p[i + 1]
  BY <1>1, <1>2, HeadTailProperties
<1>4. \A i \in 1 .. m : i + 1 \in 1 .. m + 1
  OBVIOUS
<1>5. \A i \in 1 .. Len(q) : q[i] <= o
  BY <1>2, <1>3, <1>4 DEF Stream
<1>6. Increasing(q)
  <2>1. SUFFICES ASSUME NEW i \in 1 .. m, NEW j \in 1 .. m, i < j PROVE q[i] < q[j]
    BY <1>2 DEF Increasing
  <2>2. i + 1 < j + 1 /\ i + 1 \in 1 .. m + 1 /\ j + 1 \in 1 .. m + 1
    BY <2>1
  <2>3. QED
    BY <1>2, <1>3, <2>2 DEF Stream, Increasing
<1>7. ASSUME st \notin SendClosing
      PROVE  d + 1 <= o /\ q = Bytes(d + 1, o - (d + 1))
  <2>1. d <= o /\ p = Bytes(d, o - d)
    BY <1>7 DEF Stream
  <2>2. o - d \in Nat
    BY <2>1
  <2>3. m + 1 = o - d /\ \A i \in 1 .. m + 1 : p[i] = d + i
    <3>1. PICK z \in Nat : z = o - d
      BY <2>2
    <3>2. p = Bytes(d, z)
      BY <2>1, <3>1
    <3>3. Len(p) = z /\ \A i \in 1 .. z : p[i] = d + i
      BY <3>2, BytesAt
    <3>4. QED
      BY <1>2, <3>1, <3>3
  <2>4. d + 1 <= o /\ m = o - (d + 1) /\ d + 1 \in Nat
    BY <2>3
  <2>5. \A i \in 1 .. m : q[i] = (d + 1) + i
    BY <1>3, <1>4, <2>3
  <2>6. q = Bytes(d + 1, m)
    BY <1>2, <2>4, <2>5, IsBytes
  <2>7. QED
    BY <2>4, <2>6
<1>8. QED
  BY <1>1, <1>5, <1>6, <1>7 DEF Stream

LEMMA StreamStarts == \A st : Stream(<<>>, 0, 0, st)
<1>1. Len(<<>>) = 0 /\ <<>> \in Seq(Nat)
  BY EmptySeq
<1>2. \A i \in 1 .. 0 : FALSE
  OBVIOUS
<1>3. <<>> = Bytes(0, 0)
  <2>1. PICK p \in Seq(Nat), z \in Nat : p = <<>> /\ z = 0
    BY <1>1
  <2>2. Len(p) = z /\ \A i \in 1 .. z : p[i] = z + i
    BY <1>1, <1>2, <2>1
  <2>3. p = Bytes(z, z)
    BY <2>2, IsBytes
  <2>4. QED
    BY <2>1, <2>3
<1>4. QED
  BY <1>1, <1>2, <1>3 DEF Stream, Increasing

(* The pipe of three sequences.                                            *)
LEMMA PipeMerge ==
  ASSUME NEW S, NEW a \in Seq(S), NEW b \in Seq(S), NEW c \in Seq(S)
  PROVE  (a \o (b \o c)) \o <<>> = (a \o b) \o c
<1>1. b \o c \in Seq(S) /\ a \o (b \o c) \in Seq(S)
  BY ConcatProperties
<1>2. (a \o (b \o c)) \o <<>> = a \o (b \o c)
  BY <1>1, ConcatEmptySeq
<1>3. QED
  BY <1>2, ConcatAssociative, SMTT(60)

LEMMA PipeAppend ==
  ASSUME NEW S, NEW a \in Seq(S), NEW b \in Seq(S), NEW c \in Seq(S), NEW d \in Seq(S)
  PROVE  (a \o b) \o (c \o d) = ((a \o b) \o c) \o d
<1>1. a \o b \in Seq(S)
  BY ConcatProperties
<1>2. QED
  BY <1>1, ConcatAssociative, SMTT(60)

LEMMA Cut ==
  ASSUME NEW S, NEW b \in Seq(S), NEW k \in 0 .. Len(b)
  PROVE  \E u \in Seq(S), v \in Seq(S) :
           u = SubSeq(b, 1, k) /\ v = SubSeq(b, k + 1, Len(b)) /\ u \o v = b
<1>1. Len(b) \in Nat
  BY LenProperties
<1>2. SubSeq(b, 1, k) \o SubSeq(b, k + 1, Len(b)) = SubSeq(b, 1, Len(b))
  <2>1. 1 \in 1 .. Len(b) + 1 /\ k \in 1 - 1 .. Len(b) /\ Len(b) \in k .. Len(b)
    BY <1>1
  <2>2. QED
    BY <2>1, ConcatAdjacentSubSeq
<1>3. SubSeq(b, 1, Len(b)) = b
  BY SubSeqFull
<1>4. SubSeq(b, 1, k) \in Seq(S) /\ SubSeq(b, k + 1, Len(b)) \in Seq(S)
  BY <1>1, SuffixType, PrefixType
<1>5. QED
  BY <1>2, <1>3, <1>4

LEMMA TailConcat ==
  ASSUME NEW S, NEW a \in Seq(S), NEW b \in Seq(S), a # <<>>
  PROVE  Tail(a) \o b = Tail(a \o b) /\ a \o b # <<>>
<1>1. PICK t \in Seq(S) : t = Tail(a)
  BY HeadTailProperties
<1>2. PICK m \in Nat : Len(a) = m + 1 /\ Len(t) = m
  <2>1. Len(a) \in Nat /\ Len(a) # 0
    BY LenProperties, EmptySeq
  <2>2. Len(t) = Len(a) - 1
    BY <1>1, HeadTailProperties
  <2>3. Len(a) - 1 \in Nat
    BY <2>1
  <2>4. QED
    BY <2>1, <2>2, <2>3
<1>3. PICK n \in Nat : n = Len(b)
  BY LenProperties
<1>4. \A i \in 1 .. m : t[i] = a[i + 1]
  BY <1>1, <1>2, HeadTailProperties
<1>5. PICK x \in Seq(S), y \in Seq(S) : x = t \o b /\ y = a \o b
  BY ConcatProperties
<1>6. Len(x) = m + n /\ \A i \in 1 .. m + n : x[i] = IF i <= m THEN t[i] ELSE b[i - m]
  BY <1>2, <1>3, <1>5, ConcatProperties
<1>7. /\ Len(y) = m + 1 + n
      /\ \A i \in 1 .. m + 1 + n : y[i] = IF i <= m + 1 THEN a[i] ELSE b[i - (m + 1)]
  BY <1>2, <1>3, <1>5, ConcatProperties
<1>8. y # <<>>
  BY <1>7, EmptySeq
<1>9. PICK z \in Seq(S) : z = Tail(y)
  BY <1>8, HeadTailProperties
<1>10. Len(z) = m + n /\ \A i \in 1 .. m + n : z[i] = y[i + 1]
  BY <1>7, <1>8, <1>9, HeadTailProperties
<1>11. \A i \in 1 .. m + n : x[i] = z[i]
  <2>1. SUFFICES ASSUME NEW i \in 1 .. m + n PROVE x[i] = y[i + 1]
    BY <1>10
  <2>2. i + 1 \in 1 .. m + 1 + n
    OBVIOUS
  <2>3. CASE i <= m
    <3>1. i \in 1 .. m /\ i + 1 <= m + 1
      BY <2>3
    <3>2. x[i] = t[i] /\ y[i + 1] = a[i + 1]
      BY <1>6, <1>7, <2>2, <3>1
    <3>3. QED
      BY <1>4, <3>1, <3>2
  <2>4. CASE ~(i <= m)
    <3>1. ~(i + 1 <= m + 1) /\ (i + 1) - (m + 1) = i - m
      BY <2>4
    <3>2. QED
      BY <1>6, <1>7, <2>2, <2>4, <3>1
  <2>5. QED
    BY <2>3, <2>4
<1>12. x = z
  BY <1>6, <1>10, <1>11, SeqEqual
<1>13. QED
  BY <1>1, <1>5, <1>8, <1>9, <1>12

LEMMA PipeTail ==
  ASSUME NEW S, NEW a \in Seq(S), NEW b \in Seq(S), NEW c \in Seq(S), a # <<>>
  PROVE  (Tail(a) \o b) \o c = Tail((a \o b) \o c) /\ (a \o b) \o c # <<>>
<1>1. PICK d \in Seq(S) : d = a \o b
  BY ConcatProperties
<1>2. Tail(a) \o b = Tail(d) /\ d # <<>>
  BY <1>1, TailConcat
<1>3. Tail(d) \o c = Tail(d \o c) /\ d \o c # <<>>
  BY <1>2, TailConcat
<1>4. QED
  BY <1>1, <1>2, <1>3

(* A closing send machine goes on closing; an error makes it close.        *)
LEMMA ClosingStays ==
  ASSUME NEW s \in SendClosing, NEW e \in NetEvents
  PROVE  SendOn(s, e).to \in SendClosing
<1> USE DEF Go, Begin, NetEvents, SendResults, RecvResults, SendClosing
<1>1. CASE s = "SendWaitClose"
  BY <1>1 DEF SendOn, SendWaitCloseOn
<1>2. CASE s = "SendingWaitClose"
  BY <1>2 DEF SendOn, SendingWaitCloseOn
<1>3. CASE s = "SendClose"
  BY <1>3 DEF SendOn
<1>4. QED
  BY <1>1, <1>2, <1>3

LEMMA TeardownCloses ==
  ASSUME NEW s \in SendStates, NEW e \in SendTeardown
  PROVE  SendOn(s, e).to \in SendClosing /\ SendOn(s, e).act = "go"
<1> USE DEF Go, Begin, SendTeardown, SendClosing, SendResults
<1>1. CASE s = "SendNone"
  BY <1>1 DEF SendOn, SendNoneOn
<1>2. CASE s = "Sending"
  BY <1>2 DEF SendOn, SendingOn
<1>3. CASE s = "SendPending"
  BY <1>3 DEF SendOn, SendPendingOn
<1>4. CASE s = "SendingReady"
  BY <1>4 DEF SendOn, SendingReadyOn
<1>5. CASE s = "SendingWait"
  BY <1>5 DEF SendOn, SendingWaitOn
<1>6. CASE s = "SendingReadyWait"
  BY <1>6 DEF SendOn, SendingReadyWaitOn
<1>7. CASE s = "SendWaitClose"
  BY <1>7 DEF SendOn, SendWaitCloseOn
<1>8. CASE s = "SendingWaitClose"
  BY <1>8 DEF SendOn, SendingWaitCloseOn
<1>9. CASE s = "SendClose"
  BY <1>9 DEF SendOn
<1>10. QED
  BY <1>1, <1>2, <1>3, <1>4, <1>5, <1>6, <1>7, <1>8, <1>9 DEF SendStates

(* The pipe of a socket and a record.                                      *)
OutPipe(k, r) == k.out \o r.sWorking \o r.sUsing
Sent(k, r) == Stream(OutPipe(k, r), k.drained, r.offered, r.send)

LEMMA OutPipeType ==
  ASSUME NEW k \in SockType, NEW r \in ConnType
  PROVE  /\ k.out \in Seq(1 .. MaxOut) /\ r.sWorking \in Seq(1 .. MaxOut) /\ r.sUsing \in Seq(1 .. MaxOut)
         /\ OutPipe(k, r) \in Seq(1 .. MaxOut) /\ OutPipe(k, r) \in Seq(Nat)
         /\ k.drained \in Nat /\ r.offered \in Nat
<1>1. /\ k.out \in Seq(1 .. MaxOut) /\ r.sWorking \in Seq(1 .. MaxOut) /\ r.sUsing \in Seq(1 .. MaxOut)
      /\ k.drained \in Nat /\ r.offered \in Nat
  BY SizeAssumption DEF SockType, ConnType
<1>2. PICK a \in Seq(1 .. MaxOut) : a = k.out \o r.sWorking
  BY <1>1, ConcatProperties
<1>3. a \o r.sUsing \in Seq(1 .. MaxOut)
  BY <1>1, ConcatProperties
<1>4. PICK b \in Seq(1 .. MaxOut) : b = OutPipe(k, r)
  BY <1>2, <1>3 DEF OutPipe
<1>5. \A i \in 1 .. Len(b) : b[i] \in Nat
  <2>1. \A i \in 1 .. Len(b) : b[i] \in 1 .. MaxOut
    BY ElementOfSeq
  <2>2. QED
    BY <2>1, SizeAssumption
<1>6. b = SubSeq(b, 1, Len(b)) /\ Len(b) \in Nat
  BY SubSeqFull, LenProperties
<1>7. SubSeq(b, 1, Len(b)) \in Seq(Nat)
  BY <1>5, <1>6, SubSeqProperties
<1>8. QED
  BY <1>1, <1>4, <1>6, <1>7

(* BeginSend moves the bytes within the pipe.                              *)
LEMMA MachinesPipe ==
  ASSUME NEW k \in SockType, NEW r \in ConnType, NEW e \in NetEvents
  PROVE  OutPipe(k, Machines(r, e)) = OutPipe(k, r)
<1>1. PICK q : q = Machines(r, e)
  OBVIOUS
<1>2. \/ q.sWorking = r.sWorking \o r.sUsing /\ q.sUsing = <<>>
      \/ q.sWorking = r.sWorking /\ q.sUsing = r.sUsing
  BY <1>1, MachinesFields
<1>3. CASE q.sWorking = r.sWorking /\ q.sUsing = r.sUsing
  BY <1>1, <1>3 DEF OutPipe
<1>4. CASE q.sWorking = r.sWorking \o r.sUsing /\ q.sUsing = <<>>
  <2>1. PICK a \in Seq(1 .. MaxOut), b \in Seq(1 .. MaxOut), c \in Seq(1 .. MaxOut) :
          a = k.out /\ b = r.sWorking /\ c = r.sUsing
    BY OutPipeType
  <2>2. (a \o (b \o c)) \o <<>> = (a \o b) \o c
    BY PipeMerge
  <2>3. QED
    BY <1>1, <1>4, <2>1, <2>2 DEF OutPipe
<1>5. QED
  BY <1>2, <1>3, <1>4

LEMMA MachinesSent ==
  ASSUME NEW k \in SockType, NEW r \in ConnType, NEW e \in NetEvents, Sent(k, r)
  PROVE  Sent(k, Machines(r, e))
<1>1. PICK q : q = Machines(r, e)
  OBVIOUS
<1>2. q.offered = r.offered /\ (q.send = SendOn(r.send, e).to \/ q.send = "SendClose")
  BY <1>1, MachinesFields
<1>3. OutPipe(k, q) = OutPipe(k, r)
  BY <1>1, MachinesPipe
<1>4. r.send \in SendClosing => q.send \in SendClosing
  BY <1>2, ClosingStays DEF SendClosing
<1>5. Stream(OutPipe(k, r), k.drained, r.offered, q.send)
  BY <1>4, StreamCloses DEF Sent
<1>6. Sent(k, q)
  BY <1>2, <1>3, <1>5 DEF Sent
<1>7. QED
  BY <1>1, <1>6

(* Send appends to it.                                                     *)
LEMMA BytesPipe ==
  ASSUME NEW k \in SockType, NEW r \in ConnType, NEW n \in 1 .. MaxOut, r.offered + n <= MaxOut
  PROVE  /\ OutPipe(k, WithBytes(r, n)) = OutPipe(k, r) \o Bytes(r.offered, n)
         /\ OutPipe(k, WithOffered(r, n)) = OutPipe(k, r)
<1>1. PICK q : q = WithBytes(r, n)
  OBVIOUS
<1>2. q.sWorking = r.sWorking /\ q.sUsing = r.sUsing \o Bytes(r.offered, n)
  BY <1>1, SendFields
<1>3. PICK b \in Seq(1 .. MaxOut) : b = Bytes(r.offered, n)
  BY SendFields
<1>4. PICK x \in Seq(1 .. MaxOut), y \in Seq(1 .. MaxOut), z \in Seq(1 .. MaxOut) :
        x = k.out /\ y = r.sWorking /\ z = r.sUsing
  BY OutPipeType
<1>5. (x \o y) \o (z \o b) = ((x \o y) \o z) \o b
  BY PipeAppend, SMTT(60)
<1>6. PICK o : o = WithOffered(r, n)
  OBVIOUS
<1>7. o.sWorking = r.sWorking /\ o.sUsing = r.sUsing
  BY <1>6, SendFields
<1>8. OutPipe(k, q) = OutPipe(k, r) \o b
  BY <1>2, <1>3, <1>4, <1>5 DEF OutPipe
<1>9. OutPipe(k, o) = OutPipe(k, r)
  BY <1>7 DEF OutPipe
<1>10. QED
  BY <1>1, <1>3, <1>6, <1>8, <1>9

(* Send: the bytes are appended, or dropped with the connection.           *)
LEMMA BytesSent ==
  ASSUME NEW k \in SockType, NEW r \in ConnType, NEW n \in 1 .. MaxOut, r.offered + n <= MaxOut,
         Sent(k, r)
  PROVE  /\ Sent(k, Machines(WithBytes(r, n), "SEND"))
         /\ Sent(k, Machines(WithOffered(r, n), "ERROR"))
<1>0. PICK m \in Nat : m = n
  BY SizeAssumption
<1>1. PICK q \in ConnType : q = WithBytes(r, n)
  BY SendFields
<1>2. /\ q.send = r.send /\ q.sWorking = r.sWorking /\ q.offered = r.offered + n
      /\ q.sUsing = r.sUsing \o Bytes(r.offered, n)
  BY <1>1, SendFields
<1>3. PICK b \in Seq(1 .. MaxOut) : b = Bytes(r.offered, n)
  BY SendFields
<1>4. OutPipe(k, q) = OutPipe(k, r) \o b
  BY <1>1, <1>3, BytesPipe
<1>5. PICK p \in Seq(Nat), d \in Nat, o \in Nat : p = OutPipe(k, r) /\ d = k.drained /\ o = r.offered
  BY OutPipeType
<1>6. Stream(p, d, o, r.send)
  BY <1>5 DEF Sent
<1>7. Stream(p \o Bytes(o, m), d, o + m, r.send)
  BY <1>6, StreamGrows
<1>8. Sent(k, q)
  BY <1>0, <1>2, <1>3, <1>4, <1>5, <1>7 DEF Sent
<1>9. Sent(k, Machines(q, "SEND"))
  BY <1>8, MachinesSent DEF NetEvents
<1>10. PICK x \in ConnType : x = WithOffered(r, n)
  BY SendFields
<1>11. /\ x.send = r.send /\ x.sWorking = r.sWorking /\ x.offered = r.offered + n
       /\ x.sUsing = r.sUsing
  BY <1>10, SendFields
<1>12. PICK y : y = Machines(x, "ERROR")
  OBVIOUS
<1>13. SendOn(x.send, "ERROR").to \in SendClosing /\ SendOn(x.send, "ERROR").act = "go"
  BY TeardownCloses DEF ConnType, SendTeardown
<1>14. /\ y.offered = x.offered /\ y.sWorking = x.sWorking /\ y.sUsing = x.sUsing
       /\ y.send \in SendClosing
  <2>1. "ERROR" \in NetEvents
    BY DEF NetEvents
  <2>2. QED
    BY <1>12, <1>13, <2>1, MachinesFields
<1>15. Stream(p, d, o + m, y.send)
  BY <1>6, <1>14, StreamDrops
<1>16. OutPipe(k, y) = p /\ y.offered = o + m
  BY <1>0, <1>5, <1>11, <1>14 DEF OutPipe
<1>17. Sent(k, y)
  BY <1>5, <1>15, <1>16 DEF Sent
<1>18. QED
  BY <1>1, <1>9, <1>10, <1>12, <1>17

(* OnSend moves them to the kernel.                                        *)
LEMMA WritePipe ==
  ASSUME TypeOK, NEW c \in Conns, WriteFrom(c)
  PROVE  /\ OutPipe(sock'[c], conn'[c]) = OutPipe(sock[c], conn[c])
         /\ sock'[c].drained = sock[c].drained
         /\ conn'[c].offered = conn[c].offered /\ conn'[c].send = conn[c].send
<1>1. PICK k \in SockType, r \in ConnType : k = sock[c] /\ r = conn[c]
  BY DEF TypeOK
<1>2. PICK x \in Seq(1 .. MaxOut), y \in Seq(1 .. MaxOut), z \in Seq(1 .. MaxOut) :
        x = k.out /\ y = r.sWorking /\ z = r.sUsing
  BY OutPipeType
<1>3. PICK room \in Nat : room = IF Len(x) < SockCap THEN SockCap - Len(x) ELSE 0
  BY LenProperties, RoomType
<1>4. PICK m \in 0 .. Len(y) : m = Least(Len(y), room)
  <2>1. PICK j \in Nat : j = Len(y)
    BY LenProperties
  <2>2. Least(j, room) \in 0 .. j
    BY LeastType
  <2>3. QED
    BY <2>1, <2>2
<1>5. PICK u \in Seq(1 .. MaxOut), v \in Seq(1 .. MaxOut) :
        u = SubSeq(y, 1, m) /\ v = SubSeq(y, m + 1, Len(y)) /\ u \o v = y
  BY Cut, ZenonT(60)
<1>6. ((x \o u) \o v) \o z = (x \o y) \o z
  <2>1. (x \o u) \o v = x \o (u \o v)
    BY ConcatAssociative, SMTT(60)
  <2>2. u \o v = y
    BY <1>5
  <2>3. QED
    BY <2>1, <2>2
<1>7. \/ conn'[c] = r /\ sock'[c] = [k EXCEPT !.err = "taken"]
      \/ /\ conn'[c] = [r EXCEPT !.sWorking = v]
         /\ \E full \in BOOLEAN : sock'[c] = [k EXCEPT !.out = x \o u, !.nospace = full]
  BY <1>1, <1>2, <1>3, <1>4, <1>5 DEF WriteFrom
<1>8. CASE conn'[c] = r /\ sock'[c] = [k EXCEPT !.err = "taken"]
  <2>1. sock'[c].out = k.out /\ sock'[c].drained = k.drained
    BY <1>8 DEF SockType
  <2>2. QED
    BY <1>1, <1>8, <2>1 DEF OutPipe
<1>9. ASSUME NEW full \in BOOLEAN, sock'[c] = [k EXCEPT !.out = x \o u, !.nospace = full],
             conn'[c] = [r EXCEPT !.sWorking = v]
      PROVE  /\ OutPipe(sock'[c], conn'[c]) = OutPipe(k, r) /\ sock'[c].drained = k.drained
             /\ conn'[c].offered = r.offered /\ conn'[c].send = r.send
  <2>1. /\ sock'[c].out = x \o u /\ sock'[c].drained = k.drained
        /\ conn'[c].sWorking = v /\ conn'[c].sUsing = r.sUsing
        /\ conn'[c].offered = r.offered /\ conn'[c].send = r.send
    BY <1>9 DEF SockType, ConnType
  <2>2. OutPipe(sock'[c], conn'[c]) = OutPipe(k, r)
    BY <1>2, <1>6, <2>1 DEF OutPipe
  <2>3. QED
    BY <2>1, <2>2
<1>10. QED
  BY <1>1, <1>7, <1>8, <1>9

LEMMA WriteSent ==
  ASSUME TypeOK, NEW c \in Conns, WriteFrom(c), Sent(sock[c], conn[c])
  PROVE  Sent(sock'[c], conn'[c])
  BY WritePipe DEF Sent

(* The peer takes the first one.                                           *)
LEMMA PeerPipe ==
  ASSUME TypeOK, NEW c \in Conns, PeerMoved(c)
  PROVE  /\ conn'[c] = conn[c]
         /\ \/ /\ OutPipe(sock'[c], conn'[c]) = OutPipe(sock[c], conn[c])
               /\ sock'[c].drained = sock[c].drained
            \/ /\ OutPipe(sock[c], conn[c]) # <<>>
               /\ OutPipe(sock'[c], conn'[c]) = Tail(OutPipe(sock[c], conn[c]))
               /\ sock'[c].drained = sock[c].drained + 1
<1>1. PICK k \in SockType, r \in ConnType : k = sock[c] /\ r = conn[c]
  BY DEF TypeOK
<1>2. PICK x \in Seq(1 .. MaxOut), y \in Seq(1 .. MaxOut), z \in Seq(1 .. MaxOut) :
        x = k.out /\ y = r.sWorking /\ z = r.sUsing
  BY OutPipeType
<1>3. conn'[c] = r
  BY <1>1 DEF PeerMoved
<1>4. CASE sock'[c].out = k.out /\ sock'[c].drained = k.drained
  BY <1>1, <1>3, <1>4 DEF OutPipe
<1>5. CASE k.out # <<>> /\ sock'[c].out = Tail(k.out) /\ sock'[c].drained = k.drained + 1
  <2>1. x # <<>>
    BY <1>2, <1>5
  <2>2. (Tail(x) \o y) \o z = Tail((x \o y) \o z) /\ (x \o y) \o z # <<>>
    BY <2>1, PipeTail, SMTT(30)
  <2>3. QED
    BY <1>1, <1>2, <1>3, <1>5, <2>2 DEF OutPipe
<1>6. QED
  BY <1>1, <1>4, <1>5 DEF PeerMoved, SockType

LEMMA PeerSent ==
  ASSUME TypeOK, NEW c \in Conns, PeerMoved(c), Sent(sock[c], conn[c])
  PROVE  Sent(sock'[c], conn'[c])
<1>1. PICK k \in SockType, r \in ConnType : k = sock[c] /\ r = conn[c]
  BY DEF TypeOK
<1>2. PICK p \in Seq(Nat), d \in Nat, o \in Nat : p = OutPipe(k, r) /\ d = k.drained /\ o = r.offered
  BY OutPipeType
<1>3. Stream(p, d, o, r.send)
  BY <1>1, <1>2 DEF Sent
<1>4. p # <<>> => Stream(Tail(p), d + 1, o, r.send)
  BY <1>3, StreamDrains
<1>5. QED
  BY <1>1, <1>2, <1>3, <1>4, PeerPipe DEF Sent

(* The other steps leave the send side alone.                              *)
SendSide(c) ==
  /\ sock'[c].out = sock[c].out /\ sock'[c].drained = sock[c].drained
  /\ conn'[c].sWorking = conn[c].sWorking /\ conn'[c].sUsing = conn[c].sUsing
  /\ conn'[c].offered = conn[c].offered /\ conn'[c].send = conn[c].send

LEMMA SendSideStays ==
  ASSUME TypeOK, NEW c \in Conns,
         Stays(c) \/ Returned(c) \/ Began(c) \/ Delivered(c) \/ ReadTo(c)
  PROVE  SendSide(c)
<1>0. PICK k \in SockType, r \in ConnType : k = sock[c] /\ r = conn[c]
  BY DEF TypeOK
<1>1. CASE Stays(c)
  BY <1>1 DEF Stays, SendSide
<1>2. CASE Returned(c)
  <2>1. PICK from \in {"Recving", "RecvingWait"} :
          \/ \E ok \in BOOLEAN : conn'[c] = WithAnswer(r, from, ok)
          \/ parsing.c = c /\ conn'[c] = WithAnswer(Keep(r), from, TRUE)
    BY <1>0, <1>2 DEF Returned
  <2>2. sock'[c] = k
    BY <1>0, <1>2 DEF Returned
  <2>3. PICK q \in ConnType, ok \in BOOLEAN :
          /\ conn'[c] = WithAnswer(q, from, ok) /\ q.sWorking = r.sWorking /\ q.sUsing = r.sUsing
          /\ q.offered = r.offered /\ q.send = r.send
    <3>1. CASE \E ok \in BOOLEAN : conn'[c] = WithAnswer(r, from, ok)
      BY <3>1
    <3>2. CASE parsing.c = c /\ conn'[c] = WithAnswer(Keep(r), from, TRUE)
      <4>1. Parsing
        BY <3>2, NullAssumption DEF Parsing
      <4>2. PICK q \in ConnType : q = Keep(r)
        BY <1>0, <3>2, <4>1, KeepFields
      <4>3. q.sWorking = r.sWorking /\ q.sUsing = r.sUsing /\ q.offered = r.offered /\ q.send = r.send
        BY <1>0, <3>2, <4>1, <4>2, KeepFields
      <4>4. TRUE \in BOOLEAN /\ conn'[c] = WithAnswer(q, from, TRUE)
        BY <3>2, <4>2
      <4>5. QED
        BY <4>3, <4>4
    <3>3. QED
      BY <2>1, <3>1, <3>2
  <2>4. PICK y : y = WithAnswer(q, from, ok)
    OBVIOUS
  <2>5. y.sWorking = q.sWorking /\ y.sUsing = q.sUsing /\ y.offered = q.offered /\ y.send = q.send
    BY <2>4, AnswerFields
  <2>6. QED
    BY <1>0, <2>2, <2>3, <2>4, <2>5 DEF SendSide
<1>3. CASE Began(c)
  <2>1. PICK q : q = TakeRead(r)
    OBVIOUS
  <2>2. q.sWorking = r.sWorking /\ q.sUsing = r.sUsing /\ q.offered = r.offered /\ q.send = r.send
    BY <2>1, TakeFields
  <2>3. conn'[c] = q /\ sock'[c] = k
    BY <1>0, <1>3, <2>1 DEF Began
  <2>4. QED
    BY <1>0, <2>2, <2>3 DEF SendSide
<1>4. CASE Delivered(c)
  BY <1>0, <1>4 DEF Delivered, ConnType, SendSide
<1>5. CASE ReadTo(c)
  BY <1>0, <1>5 DEF ReadTo, ConnType, SockType, SendSide
<1>6. QED
  BY <1>1, <1>2, <1>3, <1>4, <1>5

LEMMA SentStep ==
  ASSUME TypeOK, NEW c \in Conns, ConnStep(c), Sent(sock[c], conn[c])
  PROVE  Sent(sock'[c], conn'[c])
<1>0. PICK k \in SockType, r \in ConnType : k = sock[c] /\ r = conn[c]
  BY DEF TypeOK
<1>1. CASE SendSide(c)
  BY <1>0, <1>1 DEF Sent, OutPipe, SendSide
<1>2. CASE Renewed(c)
  <2>1. /\ sock'[c].out = <<>> /\ sock'[c].drained = 0 /\ conn'[c].offered = 0
        /\ conn'[c].sWorking = <<>> /\ conn'[c].sUsing = <<>>
    BY <1>2, NewFields
  <2>2. <<>> \o <<>> = <<>>
    BY EmptySeq, ConcatEmptySeq
  <2>3. OutPipe(sock'[c], conn'[c]) = <<>>
    BY <2>1, <2>2 DEF OutPipe
  <2>4. QED
    BY <2>1, <2>3, StreamStarts DEF Sent
<1>3. ASSUME NEW e \in NetEvents, Took(c, conn[c], e) PROVE Sent(sock'[c], conn'[c])
  BY <1>0, <1>3, MachinesSent DEF Took
<1>4. ASSUME NEW n \in 1 .. MaxOut, SentTo(c, n) PROVE Sent(sock'[c], conn'[c])
  <2>1. r.offered + n <= MaxOut /\ sock'[c] = k
        /\ \/ conn'[c] = Machines(WithOffered(r, n), "ERROR")
           \/ conn'[c] = Machines(WithBytes(r, n), "SEND")
    BY <1>0, <1>4 DEF SentTo, Took
  <2>2. /\ Sent(k, Machines(WithBytes(r, n), "SEND"))
        /\ Sent(k, Machines(WithOffered(r, n), "ERROR"))
    BY <1>0, <2>1, BytesSent
  <2>3. QED
    BY <2>1, <2>2
<1>5. QED
  BY <1>1, <1>2, <1>3, <1>4, SendSideStays, WriteSent, PeerSent DEF ConnStep

SentInv == \A c \in Conns : Sent(sock[c], conn[c])

(* No byte that Send accepts is lost, duplicated or reordered between the  *)
(* two buffers and the kernel, until the send machine closes; then only    *)
(* bytes are lost.                                                         *)
THEOREM BytesInOrder == Spec => []SendStream
<1>1. Init => SentInv
  <2>1. <<>> \o <<>> = <<>>
    BY EmptySeq, ConcatEmptySeq
  <2>2. OutPipe(NewSock, NewConn(NoWorker)) = <<>>
    BY <2>1 DEF OutPipe, NewConn, NewSock
  <2>3. Sent(NewSock, NewConn(NoWorker))
    <3>1. NewSock.drained = 0 /\ NewConn(NoWorker).offered = 0
      BY DEF NewSock, NewConn
    <3>2. QED
      BY <2>2, <3>1, StreamStarts DEF Sent
  <2>4. QED
    BY <2>3 DEF Init, SentInv
<1>2. JobInv /\ SentInv /\ [Next]_vars => SentInv'
  <2> SUFFICES ASSUME JobInv, SentInv, [Next]_vars, NEW c \in Conns
               PROVE  Sent(sock'[c], conn'[c])
    BY DEF SentInv
  <2>1. TypeOK /\ ConnStep(c) /\ Sent(sock[c], conn[c])
    BY StepShape DEF JobInv, SentInv
  <2>2. QED
    BY <2>1, SentStep
<1>3. SentInv => SendStream
  BY DEF SentInv, Sent, Stream, Increasing, OutPipe, SendStream, SendPipe
<1>4. QED
  BY <1>1, <1>2, <1>3, JobInvHolds, PTL DEF Spec

-----------------------------------------------------------------------------
(* The slots of a worker.                                                  *)
Slots ==
  \A w \in Workers : /\ IsFiniteSet(Serving(w)) /\ nowConnection[w] = Cardinality(Serving(w))
                      /\ Cardinality(Serving(w)) <= MaxConnection

(* Everything but Establish leaves a connection with its worker, or frees  *)
(* it.                                                                     *)
LEMMA WorkerStays ==
  ASSUME TypeOK, NEW c \in Conns, ConnStep(c), ~Renewed(c)
  PROVE  conn'[c].worker = conn[c].worker
<1>0. PICK r \in ConnType : r = conn[c]
  BY DEF TypeOK
<1>1. CASE Stays(c) \/ PeerMoved(c)
  BY <1>1 DEF Stays, PeerMoved
<1>2. ASSUME NEW e \in NetEvents, Took(c, conn[c], e) PROVE conn'[c].worker = conn[c].worker
  <2>1. conn'[c] = Machines(r, e)
    BY <1>0, <1>2 DEF Took
  <2>2. Machines(r, e).worker = r.worker
    BY MachinesFields
  <2>3. QED
    BY <1>0, <2>1, <2>2
<1>3. ASSUME NEW n \in 1 .. MaxOut, SentTo(c, n) PROVE conn'[c].worker = conn[c].worker
  <2>1. r.offered + n <= MaxOut /\ "ERROR" \in NetEvents /\ "SEND" \in NetEvents
    BY <1>0, <1>3 DEF SentTo, NetEvents
  <2>2. PICK x \in ConnType, y \in ConnType :
          x = WithOffered(r, n) /\ y = WithBytes(r, n) /\ x.worker = r.worker /\ y.worker = r.worker
    BY <2>1, SendFields
  <2>3. conn'[c] = Machines(x, "ERROR") \/ conn'[c] = Machines(y, "SEND")
    BY <1>0, <1>3, <2>2 DEF SentTo, Took
  <2>4. Machines(x, "ERROR").worker = x.worker /\ Machines(y, "SEND").worker = y.worker
    BY <2>1, MachinesFields
  <2>5. QED
    BY <1>0, <2>2, <2>3, <2>4
<1>4. CASE Returned(c)
  <2>1. PICK from \in {"Recving", "RecvingWait"} :
          \/ \E ok \in BOOLEAN : conn'[c] = WithAnswer(r, from, ok)
          \/ parsing.c = c /\ conn'[c] = WithAnswer(Keep(r), from, TRUE)
    BY <1>0, <1>4 DEF Returned
  <2>2. ASSUME NEW q \in ConnType, NEW ok \in BOOLEAN, q.worker = r.worker,
               conn'[c] = WithAnswer(q, from, ok)
        PROVE  conn'[c].worker = conn[c].worker
    BY <1>0, <2>2, AnswerFields
  <2>3. CASE parsing.c = c /\ conn'[c] = WithAnswer(Keep(r), from, TRUE)
    <3>1. Parsing
      BY <2>3, NullAssumption DEF Parsing
    <3>2. PICK q \in ConnType : q = Keep(r)
      BY <1>0, <2>3, <3>1, KeepFields
    <3>3. q.worker = r.worker
      BY <1>0, <2>3, <3>1, <3>2, KeepFields
    <3>4. QED
      BY <2>2, <2>3, <3>2, <3>3
  <2>4. QED
    BY <2>1, <2>2, <2>3
<1>5. CASE Began(c)
  <2>1. conn'[c] = TakeRead(r)
    BY <1>0, <1>5 DEF Began
  <2>2. TakeRead(r).worker = r.worker
    BY TakeFields
  <2>3. QED
    BY <1>0, <2>1, <2>2
<1>6. CASE Delivered(c)
  BY <1>0, <1>6 DEF Delivered, ConnType
<1>7. CASE ReadTo(c)
  BY <1>0, <1>7 DEF ReadTo, ConnType
<1>8. CASE WriteFrom(c)
  BY <1>0, <1>8 DEF WriteFrom, ConnType
<1>9. QED
  BY <1>1, <1>2, <1>3, <1>4, <1>5, <1>6, <1>7, <1>8 DEF ConnStep

-----------------------------------------------------------------------------
(* The queues.  A connection has at most one request per direction, so the *)
(* jobs of a queue are at most two for every connection of its worker.     *)
LEMMA Pigeons ==
  ASSUME NEW M, IsFiniteSet(M), Cardinality(M) <= MaxConnection, NEW n \in Nat,
         NEW f \in [1 .. n -> M \X {"SEND", "RECV"}], \A i, j \in 1 .. n : f[i] = f[j] => i = j
  PROVE  /\ n <= QueueSize
         /\ \A x \in M \X {"SEND", "RECV"} : (\A i \in 1 .. n : f[i] # x) => n < QueueSize
<1>1. IsFiniteSet({"SEND", "RECV"}) /\ Cardinality({"SEND", "RECV"}) = 2
  <2>1. IsFiniteSet({"SEND"}) /\ Cardinality({"SEND"}) = 1
    BY FS_Singleton
  <2>2. IsFiniteSet({"SEND"} \cup {"RECV"}) /\ Cardinality({"SEND"} \cup {"RECV"}) = 1 + 1
    BY <2>1, FS_AddElement, ZenonT(40)
  <2>3. {"SEND"} \cup {"RECV"} = {"SEND", "RECV"}
    OBVIOUS
  <2>4. QED
    BY <2>2, <2>3
<1>2. PICK m \in Nat : m = Cardinality(M)
  BY FS_CardinalityType
<1>3. PICK T : T = M \X {"SEND", "RECV"}
  OBVIOUS
<1>4. IsFiniteSet(T) /\ Cardinality(T) = m * 2
  <2>1. PICK D : D = {"SEND", "RECV"}
    OBVIOUS
  <2>2. IsFiniteSet(D) /\ Cardinality(D) = 2
    BY <1>1, <2>1
  <2>3. IsFiniteSet(M \X D) /\ Cardinality(M \X D) = Cardinality(M) * Cardinality(D)
    BY <2>2, FS_Product
  <2>4. QED
    BY <1>2, <1>3, <2>1, <2>2, <2>3
<1>5. IsFiniteSet(1 .. n) /\ Cardinality(1 .. n) = n
  <2>1. 1 \in Int /\ n \in Int
    OBVIOUS
  <2>2. IsFiniteSet(1 .. n) /\ Cardinality(1 .. n) = IF 1 > n THEN 0 ELSE n - 1 + 1
    BY <2>1, FS_Interval
  <2>3. QED
    BY <2>2
<1>6. m <= MaxConnection /\ MaxConnection \in Nat
  BY <1>2, SizeAssumption
<1>7. n <= QueueSize
  <2>1. SUFFICES ASSUME n > 2 * MaxConnection PROVE FALSE
    BY <1>6 DEF QueueSize
  <2>2. Cardinality(T) < Cardinality(1 .. n)
    BY <1>4, <1>5, <1>6, <2>1
  <2>3. f \in [1 .. n -> T]
    BY <1>3
  <2>4. \E x, y \in 1 .. n : x # y /\ f[x] = f[y]
    BY <1>4, <1>5, <2>2, <2>3, FS_PigeonHole
  <2>5. QED
    BY <2>4
<1>8. ASSUME NEW x \in T, \A i \in 1 .. n : f[i] # x PROVE n < QueueSize
  <2>1. SUFFICES ASSUME n >= 2 * MaxConnection PROVE FALSE
    BY <1>6 DEF QueueSize
  <2>2. PICK U : U = T \ {x}
    OBVIOUS
  <2>3. IsFiniteSet(U) /\ Cardinality(U) = m * 2 - 1
    BY <1>4, <2>2, FS_RemoveElement
  <2>4. Cardinality(U) < Cardinality(1 .. n)
    BY <1>5, <1>6, <2>1, <2>3
  <2>5. f \in [1 .. n -> U]
    BY <1>3, <1>8, <2>2
  <2>6. \E a, b \in 1 .. n : a # b /\ f[a] = f[b]
    BY <1>5, <2>3, <2>4, <2>5, FS_PigeonHole
  <2>7. QED
    BY <2>6
<1>9. QED
  BY <1>3, <1>7, <1>8

LEMMA JobsFit ==
  ASSUME TypeOK, Slots, NEW w \in Workers, NEW q, NEW n \in Nat, \A i \in 1 .. n : q[i] \in Request,
         \A i, j \in 1 .. n : q[i] = q[j] => i = j,
         \A i \in 1 .. n : conn[q[i].connection].worker = w
  PROVE  /\ n <= QueueSize
         /\ \A x \in Request : conn[x.connection].worker = w /\ (\A i \in 1 .. n : q[i] # x)
                                 => n < QueueSize
<1>1. PICK M : M = Serving(w)
  OBVIOUS
<1>2. IsFiniteSet(M) /\ Cardinality(M) <= MaxConnection
  BY <1>1 DEF Slots
<1>3. \A x \in Request : /\ x = Job(x.connection, x.evt) /\ x.evt \in {"SEND", "RECV"}
                         /\ conn[x.connection].worker = w => x.connection \in M
  BY <1>1 DEF Request, Job, Serving
<1>4. PICK f : f = [i \in 1 .. n |-> <<q[i].connection, q[i].evt>>]
  OBVIOUS
<1>5. f \in [1 .. n -> M \X {"SEND", "RECV"}]
  BY <1>3, <1>4
<1>6. \A x, y \in Request : <<x.connection, x.evt>> = <<y.connection, y.evt>> => x = y
  BY <1>3
<1>7. \A i, j \in 1 .. n : f[i] = f[j] => i = j
  BY <1>4, <1>6
<1>8. /\ n <= QueueSize
      /\ \A x \in M \X {"SEND", "RECV"} : (\A i \in 1 .. n : f[i] # x) => n < QueueSize
  BY <1>2, <1>5, <1>7, Pigeons
<1>9. ASSUME NEW x \in Request, conn[x.connection].worker = w, \A i \in 1 .. n : q[i] # x
      PROVE  n < QueueSize
  <2>1. <<x.connection, x.evt>> \in M \X {"SEND", "RECV"}
    BY <1>3, <1>9
  <2>2. \A i \in 1 .. n : f[i] # <<x.connection, x.evt>>
    BY <1>4, <1>6, <1>9
  <2>3. QED
    BY <1>8, <2>1, <2>2
<1>10. QED
  BY <1>8, <1>9

LEMMA WorkFits ==
  ASSUME JobInv, Slots, NEW w \in Workers
  PROVE  /\ Len(workQ[w]) \in Nat /\ Len(workQ[w]) <= QueueSize
         /\ \A x \in Request : conn[x.connection].worker = w /\ x \notin WorkJobs(w)
                                 => Len(workQ[w]) < QueueSize
<1>1. PICK q \in Seq(Request) : q = workQ[w]
  BY DEF JobInv, TypeOK
<1>2. PICK n \in Nat : n = Len(q)
  BY LenProperties
<1>3. \A i \in 1 .. n : q[i] \in Request
  BY <1>2, ElementOfSeq
<1>4. \A i, j \in 1 .. n : q[i] = q[j] => i = j
  BY <1>1, <1>2 DEF JobInv, NoTwinJobs
<1>5. WorkJobs(w) = {q[i] : i \in 1 .. n}
  BY <1>1, <1>2 DEF WorkJobs
<1>6. \A i \in 1 .. n : conn[q[i].connection].worker = w
  BY <1>5 DEF JobInv, AllValid, Valid
<1>7. TypeOK
  BY DEF JobInv
<1>8. /\ n <= QueueSize
      /\ \A x \in Request : conn[x.connection].worker = w /\ (\A i \in 1 .. n : q[i] # x)
                              => n < QueueSize
  BY <1>3, <1>4, <1>6, <1>7, JobsFit
<1>9. QED
  BY <1>1, <1>2, <1>5, <1>8

LEMMA ResultsFit ==
  ASSUME JobInv, Slots, NEW w \in Workers
  PROVE  /\ Len(resQ[w]) \in Nat /\ Len(resQ[w]) <= QueueSize
         /\ \A x \in Request : conn[x.connection].worker = w /\ x \notin ResJobs(w)
                                 => Len(resQ[w]) < QueueSize
<1>1. PICK p \in Seq(Result) : p = resQ[w]
  BY DEF JobInv, TypeOK
<1>2. PICK n \in Nat : n = Len(p)
  BY LenProperties
<1>3. PICK q : q = [i \in 1 .. n |-> Tok(p[i])]
  OBVIOUS
<1>4. \A i \in 1 .. n : q[i] = Tok(p[i]) /\ q[i] \in Request
  BY <1>2, <1>3, ElementOfSeq, TokType
<1>5. \A i, j \in 1 .. n : q[i] = q[j] => i = j
  BY <1>1, <1>2, <1>4 DEF JobInv, NoTwinJobs
<1>6. ResJobs(w) = {q[i] : i \in 1 .. n}
  BY <1>1, <1>2, <1>4 DEF ResJobs
<1>7. \A i \in 1 .. n : conn[q[i].connection].worker = w
  BY <1>6 DEF JobInv, AllValid, Valid
<1>8. TypeOK
  BY DEF JobInv
<1>9. /\ n <= QueueSize
      /\ \A x \in Request : conn[x.connection].worker = w /\ (\A i \in 1 .. n : q[i] # x)
                              => n < QueueSize
  BY <1>4, <1>5, <1>7, <1>8, JobsFit
<1>10. QED
  BY <1>1, <1>2, <1>6, <1>9

-----------------------------------------------------------------------------
(* The same steps, as far as the buffers and answers of a connection go.   *)

(* The machines take event e.                                              *)
Moved(c, e) ==
  /\ e \in NetEvents /\ ~(e = "RECV_DONE" /\ Awaiting(c))
  /\ e \in Results => Got(c, e) /\ ~Got(c, e)'
  /\ GotBut(c, {e}) /\ ParseSame(c)
  /\ sock'[c] = sock[c] /\ ~BothClosed(conn'[c])
  /\ conn'[c].worker = conn[c].worker /\ conn'[c].delivered = conn[c].delivered
  /\ conn'[c].rWorking = conn[c].rWorking /\ conn'[c].rUsing = conn[c].rUsing
  /\ conn'[c].recv = RecvOn(conn[c].recv, e).to
  /\ LET s == SendOn(conn[c].send, e) IN
       \/ s.act = "begin" /\ conn'[c].send = s.to
       \/ s.act = "begin" /\ conn'[c].send = "SendClose" /\ conn'[c].sWorking = conn[c].sWorking
       \/ s.act = "go" /\ conn'[c].send = s.to /\ conn'[c].sWorking = conn[c].sWorking

(* ProcessPacket returns.                                                  *)
Resumed(c) ==
  /\ GotBut(c, {"RECV_DONE"}) /\ parsing'.c # c
  /\ sock'[c] = sock[c] /\ ~BothClosed(conn'[c])
  /\ conn'[c].worker = conn[c].worker /\ conn'[c].delivered = conn[c].delivered
  /\ conn'[c].send = conn[c].send /\ conn'[c].sWorking = conn[c].sWorking
  /\ conn'[c].rWorking = conn[c].rWorking
  /\ \/ conn'[c].recv = "RecvClose"
     \/ /\ conn[c].rWorking = <<>> /\ conn[c].recv # "RecvClose" /\ parsing.c # c
        /\ conn'[c].rUsing = conn[c].rUsing
     \/ parsing.c = c /\ conn'[c].rUsing = Rest

LEMMA TookMoves ==
  ASSUME NEW c, conn[c] \in ConnType, NEW r \in ConnType, NEW e \in NetEvents, Took(c, r, e),
         r.worker = conn[c].worker, r.delivered = conn[c].delivered,
         r.send = conn[c].send, r.recv = conn[c].recv, r.sWorking = conn[c].sWorking,
         r.rWorking = conn[c].rWorking, r.rUsing = conn[c].rUsing
  PROVE  Moved(c, e)
<1>1. PICK q : q = Machines(r, e)
  OBVIOUS
<1>2. conn'[c] = q
  BY <1>1 DEF Took
<1>3. PICK s : s = SendOn(r.send, e)
  OBVIOUS
<1>4. /\ q.worker = r.worker /\ q.rWorking = r.rWorking /\ q.rUsing = r.rUsing
      /\ q.delivered = r.delivered /\ q.recv = RecvOn(r.recv, e).to
      /\ \/ s.act = "begin" /\ q.send = s.to
         \/ s.act = "begin" /\ q.send = "SendClose" /\ q.sWorking = r.sWorking
         \/ s.act = "go" /\ q.send = s.to /\ q.sWorking = r.sWorking
  BY <1>1, <1>3, MachinesFields
<1>5. s = SendOn(conn[c].send, e)
  BY <1>3
<1>6. /\ e \in NetEvents /\ ~(e = "RECV_DONE" /\ Awaiting(c))
      /\ e \in Results => Got(c, e) /\ ~Got(c, e)'
      /\ GotBut(c, {e}) /\ ParseSame(c)
      /\ sock'[c] = sock[c] /\ ~BothClosed(conn'[c])
  BY DEF Took
<1>7. QED
  BY <1>2, <1>4, <1>5, <1>6 DEF Moved

LEMMA SentMoves ==
  ASSUME TypeOK, NEW c \in Conns, NEW n \in 1 .. MaxOut, SentTo(c, n)
  PROVE  \E e \in NetEvents : Moved(c, e)
<1>0. conn[c] \in ConnType /\ conn[c].offered + n <= MaxOut
      /\ "ERROR" \in NetEvents /\ "SEND" \in NetEvents
  BY DEF TypeOK, SentTo, NetEvents
<1>1. \E r \in {WithOffered(conn[c], n), WithBytes(conn[c], n)}, e \in NetEvents : Took(c, r, e)
  BY <1>0 DEF SentTo
<1>2. PICK r \in {WithOffered(conn[c], n), WithBytes(conn[c], n)}, e \in NetEvents : Took(c, r, e)
  BY <1>1
<1>3. /\ r \in ConnType /\ r.worker = conn[c].worker /\ r.delivered = conn[c].delivered
      /\ r.send = conn[c].send /\ r.recv = conn[c].recv /\ r.sWorking = conn[c].sWorking
      /\ r.rWorking = conn[c].rWorking /\ r.rUsing = conn[c].rUsing
  <2>1. PICK q \in ConnType : q = conn[c]
    BY <1>0
  <2>2. q.offered + n <= MaxOut
    BY <1>0, <2>1
  <2>3. /\ WithOffered(q, n) \in ConnType /\ WithBytes(q, n) \in ConnType
        /\ \A x \in {WithOffered(q, n), WithBytes(q, n)} :
              /\ x.worker = q.worker /\ x.send = q.send /\ x.recv = q.recv
              /\ x.sWorking = q.sWorking /\ x.rWorking = q.rWorking /\ x.rUsing = q.rUsing
              /\ x.delivered = q.delivered
    BY <2>2, SendFields
  <2>4. QED
    BY <1>2, <2>1, <2>3
<1>4. QED
  BY <1>0, <1>2, <1>3, TookMoves

LEMMA ReturnedMoves ==
  ASSUME TypeOK, NEW c \in Conns, Returned(c)
  PROVE  Resumed(c)
<1>0. PICK r \in ConnType : r = conn[c]
  BY DEF TypeOK
<1>1. PICK from \in {"Recving", "RecvingWait"} :
        \/ conn'[c] = WithAnswer(r, from, FALSE)
        \/ /\ conn'[c] = WithAnswer(r, from, TRUE)
           /\ r.rWorking = <<>> /\ r.recv # "RecvClose" /\ parsing.c # c
        \/ parsing.c = c /\ conn'[c] = WithAnswer(Keep(r), from, TRUE)
  BY <1>0 DEF Returned
<1>2. \E q \in ConnType, ok \in BOOLEAN :
        /\ conn'[c] = WithAnswer(q, from, ok)
        /\ q.worker = r.worker /\ q.delivered = r.delivered /\ q.send = r.send
        /\ q.sWorking = r.sWorking /\ q.rWorking = r.rWorking
        /\ \/ ok = FALSE
           \/ /\ r.rWorking = <<>> /\ r.recv # "RecvClose" /\ parsing.c # c
              /\ q.rUsing = r.rUsing
           \/ parsing.c = c /\ q.rUsing = Rest
  <2>1. CASE conn'[c] = WithAnswer(r, from, FALSE)
    BY <2>1
  <2>2. CASE /\ conn'[c] = WithAnswer(r, from, TRUE)
             /\ r.rWorking = <<>> /\ r.recv # "RecvClose" /\ parsing.c # c
    BY <2>2
  <2>3. CASE parsing.c = c /\ conn'[c] = WithAnswer(Keep(r), from, TRUE)
    <3>1. Parsing
      BY <2>3, NullAssumption DEF Parsing
    <3>2. PICK q \in ConnType : q = Keep(r)
      BY <1>0, <2>3, <3>1, KeepFields
    <3>3. /\ q.worker = r.worker /\ q.delivered = r.delivered /\ q.send = r.send
          /\ q.sWorking = r.sWorking /\ q.rWorking = r.rWorking /\ q.rUsing = Rest
      BY <1>0, <2>3, <3>1, <3>2, KeepFields
    <3>4. TRUE \in BOOLEAN /\ conn'[c] = WithAnswer(q, from, TRUE)
      BY <2>3, <3>2
    <3>5. QED
      BY <2>3, <3>3, <3>4
  <2>4. QED
    BY <1>1, <2>1, <2>2, <2>3
<1>3. PICK q \in ConnType, ok \in BOOLEAN :
        /\ conn'[c] = WithAnswer(q, from, ok)
        /\ q.worker = r.worker /\ q.delivered = r.delivered /\ q.send = r.send
        /\ q.sWorking = r.sWorking /\ q.rWorking = r.rWorking
        /\ \/ ok = FALSE
           \/ /\ r.rWorking = <<>> /\ r.recv # "RecvClose" /\ parsing.c # c
              /\ q.rUsing = r.rUsing
           \/ parsing.c = c /\ q.rUsing = Rest
  BY <1>2
<1>4. PICK y : y = WithAnswer(q, from, ok)
  OBVIOUS
<1>5. /\ y.recv = AfterProcess(from, ok).to
      /\ y.worker = q.worker /\ y.send = q.send
      /\ y.sWorking = q.sWorking /\ y.rWorking = q.rWorking /\ y.rUsing = q.rUsing
      /\ y.delivered = q.delivered
  BY <1>4, AnswerFields
<1>6. ok = FALSE => y.recv = "RecvClose"
  BY <1>5 DEF AfterProcess, Go
<1>7. conn'[c] = y
  BY <1>3, <1>4
<1>8. /\ GotBut(c, {"RECV_DONE"}) /\ parsing'.c # c
      /\ sock'[c] = sock[c] /\ ~BothClosed(conn'[c])
  BY DEF Returned
<1>9. QED
  BY <1>0, <1>3, <1>5, <1>6, <1>7, <1>8 DEF Resumed

(* All steps again.                                                        *)
LEMMA StepMoves ==
  ASSUME TypeOK, NEW c \in Conns, ConnStep(c)
  PROVE  \/ Stays(c) \/ Renewed(c) \/ \E e \in NetEvents : Moved(c, e)
         \/ Resumed(c) \/ Began(c) \/ Delivered(c)
         \/ ReadTo(c) \/ WriteFrom(c) \/ PeerMoved(c)
<1>1. conn[c] \in ConnType
  BY DEF TypeOK
<1>2. ASSUME NEW e \in NetEvents, Took(c, conn[c], e) PROVE Moved(c, e)
  BY <1>1, <1>2, TookMoves
<1>3. QED
  BY <1>2, SentMoves, ReturnedMoves DEF ConnStep

-----------------------------------------------------------------------------
(* The steps again, as far as the two queues go.                           *)

(* No result but those for the requests in X is taken, and none comes.     *)
ResultsBut(X) ==
  \A w \in Workers : ResJobs(w)' \subseteq ResJobs(w) /\ ResJobs(w) \subseteq ResJobs(w)' \cup X

(* An event of c, whole: it queues at most one request, of which nothing   *)
(* is left, and the machines wait afterwards for this one or for one they  *)
(* have waited for already.                                                *)
EventStep(c) ==
  /\ conn[c].worker \in Workers /\ exec' = exec
  /\ ResultsBut({Job(c, "SEND"), Job(c, "RECV")})
  /\ parsing'.c = parsing.c \/ (parsing.c = c /\ parsing'.c = NoConn)
  /\ \E q \in ConnType, jobs \in {<<>>, <<Job(c, "SEND")>>, <<Job(c, "RECV")>>} :
       /\ Commit(c, q, jobs) /\ q.worker = conn[c].worker
       /\ \A d \in {"SEND", "RECV"} :
            /\ jobs = <<Job(c, d)>> => Job(c, d) \notin Left(conn[c].worker)
            /\ RBusy(q, c, d, parsing'.c) =>
                 \/ jobs = <<Job(c, d)>>
                 \/ Busy(c, d) /\ \A w \in Workers : Job(c, d) \in ResJobs(w) => Job(c, d) \in ResJobs(w)'

(* ProcessPacket of c begins.                                              *)
ParseBegins(c) ==
  /\ UNCHANGED <<nowConnection, workQ, exec, aborted>> /\ ResultsBut({Job(c, "RECV")})
  /\ parsing.c = NoConn /\ parsing'.c = c
  /\ \A x \in Conns : /\ conn'[x].worker = conn[x].worker /\ conn'[x].send = conn[x].send
                      /\ conn'[x].recv = conn[x].recv

(* A step that neither queues nor takes a request or a result.             *)
Quiet ==
  /\ UNCHANGED <<nowConnection, workQ, exec, resQ, aborted>> /\ parsing'.c = parsing.c
  /\ \A x \in Conns : /\ conn'[x].worker = conn[x].worker /\ conn'[x].send = conn[x].send
                      /\ conn'[x].recv = conn[x].recv

LEMMA AnyEvent ==
  ASSUME JobInv, NEW c \in Conns, NEW v \in Workers, conn[c].worker = v,
         NEW r \in ConnType, r.worker = v, r.send = conn[c].send, r.recv = conn[c].recv,
         NEW e \in NetEvents, ~(e = "RECV_DONE" /\ Awaiting(c)), OnEvent(c, r, e),
         exec' = exec, parsing' = parsing,
         IF e \in Results THEN ResultsBut({Job(c, Direction(e))}) ELSE ResultsBut({}),
         e \in SendResults => Job(c, "SEND") \notin Left(v),
         e \in RecvResults => Job(c, "RECV") \notin Left(v) /\ parsing.c # c
  PROVE  EventStep(c)
<1>1. ResJobs(v)' \subseteq ResJobs(v)
  BY DEF ResultsBut
<1>2. PICK q \in ConnType, jobs \in {<<>>, <<Job(c, "SEND")>>, <<Job(c, "RECV")>>} :
        /\ Commit(c, q, jobs) /\ q.worker = v
        /\ \A d \in {"SEND", "RECV"} :
             /\ jobs = <<Job(c, d)>> => Job(c, d) \notin Left(v)
             /\ RBusy(q, c, d, parsing.c) =>
                  \/ jobs = <<Job(c, d)>>
                  \/ Busy(c, d) /\ ~(e \in SendResults \cup RecvResults /\ Direction(e) = d)
  BY <1>1, EventBegins
<1>3. Direction(e) \in {"SEND", "RECV"}
  BY DEF Direction
<1>4. \A w \in Workers, d \in {"SEND", "RECV"} :
        Job(c, d) \in ResJobs(w) /\ ~(e \in SendResults \cup RecvResults /\ Direction(e) = d)
          => Job(c, d) \in ResJobs(w)'
  <2>1. \A d \in {"SEND", "RECV"} : Job(c, d) = Job(c, Direction(e)) => Direction(e) = d
    BY <1>3 DEF Job
  <2>2. QED
    BY <2>1 DEF ResultsBut, Results
<1>5. ResultsBut({Job(c, "SEND"), Job(c, "RECV")})
  BY <1>3 DEF ResultsBut
<1>6. \A d \in {"SEND", "RECV"} :
        /\ jobs = <<Job(c, d)>> => Job(c, d) \notin Left(conn[c].worker)
        /\ RBusy(q, c, d, parsing'.c) =>
             \/ jobs = <<Job(c, d)>>
             \/ Busy(c, d) /\ \A w \in Workers : Job(c, d) \in ResJobs(w) => Job(c, d) \in ResJobs(w)'
  BY <1>2, <1>4
<1>7. QED
  BY <1>2, <1>5, <1>6 DEF EventStep

LEMMA AnyReturn ==
  ASSUME JobInv, NEW c \in Conns, NEW v \in Workers, conn[c].worker = v,
         NEW r \in ConnType, r.worker = v, r.send = conn[c].send,
         NEW from \in {"Recving", "RecvingWait"}, NEW ok \in BOOLEAN,
         Processed(c, r, from, ok), exec' = exec, parsing'.c = NoConn, parsing.c \in {c, NoConn},
         ResultsBut({Job(c, "RECV")}), Job(c, "RECV") \notin Left(v)
  PROVE  EventStep(c)
<1>1. PICK q \in ConnType : q = WithAnswer(r, from, ok)
  BY AnswerFields
<1>2. q.worker = v /\ q.send = conn[c].send /\ q.recv = AfterProcess(from, ok).to
  BY <1>1, AnswerFields
<1>3. PICK jobs : jobs = RecvJobs(c, AfterProcess(from, ok))
  OBVIOUS
<1>4. Commit(c, q, jobs)
  BY <1>1, <1>3 DEF Processed, WithAnswer
<1>5. /\ jobs \in {<<>>, <<Job(c, "RECV")>>}
      /\ q.recv \in RecvBusy => jobs = <<Job(c, "RECV")>>
  BY <1>2, <1>3 DEF AfterProcess, Go, Begin, RecvJobs, RecvBusy
<1>6. Job(c, "SEND") # Job(c, "RECV") /\ jobs # <<Job(c, "SEND")>>
  <2>1. Job(c, "SEND") # Job(c, "RECV")
    BY DEF Job
  <2>2. \A x, y : x # y => <<x>> # <<y>> /\ <<x>> # <<>> /\ <<y>> # <<>>
    OBVIOUS
  <2>3. QED
    BY <1>5, <2>1, <2>2
<1>7. ASSUME NEW d \in {"SEND", "RECV"}
      PROVE  /\ jobs = <<Job(c, d)>> => Job(c, d) \notin Left(conn[c].worker)
             /\ RBusy(q, c, d, parsing'.c) =>
                  \/ jobs = <<Job(c, d)>>
                  \/ /\ Busy(c, d)
                     /\ \A w \in Workers : Job(c, d) \in ResJobs(w) => Job(c, d) \in ResJobs(w)'
  <2>1. CASE d = "RECV"
    BY <1>5, <2>1 DEF RBusy
  <2>2. CASE d = "SEND"
    BY <1>2, <1>6, <2>2 DEF RBusy, Busy, ResultsBut
  <2>3. QED
    BY <2>1, <2>2
<1>8. ResultsBut({Job(c, "SEND"), Job(c, "RECV")})
  BY DEF ResultsBut
<1>9. parsing'.c = parsing.c \/ (parsing.c = c /\ parsing'.c = NoConn)
  OBVIOUS
<1>10. jobs \in {<<>>, <<Job(c, "SEND")>>, <<Job(c, "RECV")>>}
  BY <1>5
<1>11. QED
  BY <1>2, <1>4, <1>7, <1>8, <1>9, <1>10 DEF EventStep

(* Taking the result at the head of a queue.                               *)
LEMMA HeadTaken ==
  ASSUME JobInv, NEW u \in Workers, resQ[u] # <<>>, resQ' = [resQ EXCEPT ![u] = Tail(@)]
  PROVE  ResultsBut({Tok(Head(resQ[u]))})
<1>1. PICK s \in Seq(Result) : s = resQ[u]
  BY DEF JobInv, TypeOK
<1>2. /\ s # <<>> /\ resQ'[u] = Tail(s) /\ \A w \in Workers \ {u} : resQ'[w] = resQ[w]
  BY <1>1 DEF JobInv, TypeOK
<1>3. /\ Len(s) \in Nat \ {0} /\ Head(s) = s[1]
      /\ Len(Tail(s)) = Len(s) - 1 /\ \A i \in 1 .. Len(Tail(s)) : Tail(s)[i] = s[i + 1]
  BY <1>2, HeadTailProperties, LenProperties, EmptySeq
<1>4. \A w \in Workers : ResJobs(w)' \subseteq ResJobs(w)
  BY PopResult DEF JobInv
<1>5. ASSUME NEW w \in Workers, NEW x \in ResJobs(w), x # Tok(Head(s)) PROVE x \in ResJobs(w)'
  <2>1. PICK i \in 1 .. Len(resQ[w]) : x = Tok(resQ[w][i])
    BY <1>5 DEF ResJobs
  <2>2. CASE w # u
    BY <1>2, <1>5, <2>2 DEF ResJobs
  <2>3. CASE w = u
    <3>1. i \in 1 .. Len(s) /\ x = Tok(s[i])
      BY <1>1, <2>1, <2>3
    <3>2. i # 1
      BY <1>3, <1>5, <3>1
    <3>3. PICK j : j = i - 1
      OBVIOUS
    <3>4. j \in 1 .. Len(Tail(s)) /\ i = j + 1
      BY <1>3, <3>1, <3>2, <3>3
    <3>5. x = Tok(resQ'[u][j]) /\ j \in 1 .. Len(resQ'[u])
      BY <1>2, <1>3, <3>1, <3>4
    <3>6. QED
      BY <2>3, <3>5 DEF ResJobs
  <2>4. QED
    BY <2>2, <2>3
<1>6. QED
  BY <1>1, <1>4, <1>5 DEF ResultsBut

(* An event that is no answer of a worker.                                 *)
LEMMA OtherEventStep ==
  ASSUME JobInv, NEW c \in Conns, conn[c].worker # NoWorker,
         NEW r \in ConnType, r.worker = conn[c].worker,
         r.send = conn[c].send, r.recv = conn[c].recv,
         NEW e \in NetEvents \ Results,
         OnEvent(c, r, e), UNCHANGED <<parsing, exec, resQ>>
  PROVE  EventStep(c)
<1>1. PICK v \in Workers : conn[c].worker = v
  BY DEF JobInv, TypeOK, ConnType
<1>2. ResultsBut({})
  BY DEF ResultsBut, ResJobs
<1>3. e # "RECV_DONE" /\ e \notin SendResults /\ e \notin RecvResults /\ e \in NetEvents /\ e \notin Results
  BY DEF Results, RecvResults
<1>4. QED
  BY <1>1, <1>2, <1>3, AnyEvent

LEMMA ResultEventStep ==
  ASSUME JobInv, NEW w \in Workers, DoResult(w)
  PROVE  \E c \in Conns : EventStep(c)
<1>1. /\ ~Parsing /\ resQ[w] # <<>> /\ resQ' = [resQ EXCEPT ![w] = Tail(@)]
      /\ parsing' = parsing /\ exec' = exec
  BY DEF DoResult
<1>2. PICK c \in Conns : c = Head(resQ[w]).connection
  BY <1>1, ResultHead DEF JobInv
<1>3. PICK e \in NetEvents : e = Head(resQ[w]).evt
  BY <1>1, ResultHead DEF JobInv
<1>4. /\ ~(e = "RECV_DONE" /\ Awaiting(c))
      /\ OnEvent(c, conn[c], e)
  BY <1>2, <1>3 DEF DoResult
<1>5. PICK r \in ConnType : r = conn[c]
  BY DEF JobInv, TypeOK
<1>6. /\ conn[c].worker = w /\ e \in Results
      /\ Job(c, Direction(e)) \notin Left(w)
  BY <1>1, <1>2, <1>3, HeadResult DEF Results
<1>7. e \in SendResults => Job(c, "SEND") \notin Left(w)
  BY <1>6 DEF Direction
<1>8. e \in RecvResults => Job(c, "RECV") \notin Left(w) /\ parsing.c # c
  <2>1. e \in RecvResults => e \notin SendResults
    BY DEF SendResults, RecvResults
  <2>2. QED
    BY <1>1, <1>6, <2>1, NullAssumption DEF Direction, Parsing
<1>9. OnEvent(c, r, e) /\ r.worker = w /\ r.send = conn[c].send /\ r.recv = conn[c].recv
  BY <1>4, <1>5, <1>6
<1>10. ResultsBut({Job(c, Direction(e))})
  <2>1. Tok(Head(resQ[w])) = Job(c, Direction(e))
    BY <1>2, <1>3 DEF Tok
  <2>2. QED
    BY <1>1, <2>1, HeadTaken
<1>11. EventStep(c)
  BY <1>1, <1>4, <1>6, <1>7, <1>8, <1>9, <1>10, AnyEvent
<1>12. QED
  BY <1>11

LEMMA DataEventStep ==
  ASSUME JobInv, NEW w \in Workers, DoData(w)
  PROVE  \E c \in Conns : EventStep(c) \/ ParseBegins(c)
<1>1. /\ ~Parsing /\ resQ[w] # <<>> /\ resQ' = [resQ EXCEPT ![w] = Tail(@)]
      /\ exec' = exec /\ Head(resQ[w]).evt = "RECV_DONE"
  BY DEF DoData
<1>2. PICK c \in Conns : c = Head(resQ[w]).connection
  BY <1>1, ResultHead DEF JobInv
<1>3. PICK r \in ConnType : r = conn[c]
  BY DEF JobInv, TypeOK
<1>4. Direction("RECV_DONE") = "RECV"
  BY DEF Direction, SendResults
<1>5. conn[c].worker = w /\ Job(c, "RECV") \notin Left(w)
  BY <1>1, <1>2, <1>4, HeadResult
<1>6. ResultsBut({Job(c, "RECV")})
  <2>1. Tok(Head(resQ[w])) = Job(c, "RECV")
    BY <1>1, <1>2, <1>4 DEF Tok
  <2>2. QED
    BY <1>1, <2>1, HeadTaken
<1>7. PICK from \in {"Recving", "RecvingWait"} : from = r.recv
  BY <1>2, <1>3 DEF DoData, Awaiting
<1>8. parsing.c = NoConn
  BY <1>1 DEF Parsing
<1>9. ASSUME NEW ok \in BOOLEAN, Processed(c, r, from, ok), UNCHANGED parsing
      PROVE  EventStep(c)
  <2>1. parsing'.c = NoConn /\ parsing.c \in {c, NoConn}
    BY <1>8, <1>9
  <2>2. r.worker = w /\ r.send = conn[c].send
    BY <1>3, <1>5
  <2>3. QED
    BY <1>1, <1>5, <1>6, <1>9, <2>1, <2>2, AnyReturn, Zenon
<1>10. ASSUME conn' = [conn EXCEPT ![c] = TakeRead(r)],
              parsing' = [c |-> c, from |-> r.recv, pos |-> 0],
              UNCHANGED <<nowConnection, sock, armed, workQ, aborted>>
       PROVE  ParseBegins(c)
  <2>1. \A x \in Conns : /\ conn'[x].worker = conn[x].worker
                         /\ conn'[x].send = conn[x].send
                         /\ conn'[x].recv = conn[x].recv
    BY <1>3, <1>10 DEF JobInv, TypeOK, ConnType, TakeRead
  <2>2. parsing'.c = c
    BY <1>10
  <2>3. QED
    BY <1>1, <1>6, <1>8, <1>10, <2>1, <2>2 DEF ParseBegins
<1>11. QED
  BY <1>2, <1>3, <1>7, <1>9, <1>10 DEF DoData

LEMMA ReturnEventStep ==
  ASSUME JobInv, ParseEnd \/ ParseBad
  PROVE  \E c \in Conns : EventStep(c)
<1>1. Parsing /\ parsing' = NotParsing /\ UNCHANGED <<exec, resQ>>
  BY DEF ParseEnd, ParseBad
<1>2. PICK c \in Conns : c = parsing.c
  BY <1>1 DEF Parsing, JobInv, TypeOK
<1>3. PICK from \in {"Recving", "RecvingWait"} : from = parsing.from
  BY DEF JobInv, TypeOK
<1>4. PICK v \in Workers : conn[c].worker = v
  BY <1>1, <1>2 DEF JobInv, ParseGuard, TypeOK, ConnType
<1>5. TypeOK
  BY DEF JobInv
<1>6. \E r \in ConnType, ok \in BOOLEAN :
        Processed(c, r, from, ok) /\ r.worker = v /\ r.send = conn[c].send
  <2>1. CASE ParseEnd
    <3>1. PICK r \in ConnType : r = Keep(conn[c])
      BY <1>1, <1>2, <1>5, KeepFields
    <3>2. r.worker = v /\ r.send = conn[c].send
      BY <1>1, <1>2, <1>4, <1>5, <3>1, KeepFields
    <3>3. Processed(c, r, from, TRUE) /\ TRUE \in BOOLEAN
      BY <1>2, <1>3, <2>1, <3>1 DEF ParseEnd
    <3>4. QED
      BY <3>2, <3>3, Zenon
  <2>2. CASE ParseBad
    <3>1. PICK r \in ConnType : r = conn[c]
      BY <1>5 DEF TypeOK
    <3>2. Processed(c, r, from, FALSE) /\ FALSE \in BOOLEAN
      BY <1>2, <1>3, <2>2, <3>1 DEF ParseBad
    <3>3. r.worker = v /\ r.send = conn[c].send
      BY <1>4, <3>1
    <3>4. QED
      BY <3>2, <3>3, Zenon
  <2>3. QED
    BY <2>1, <2>2
<1>7. PICK r \in ConnType, ok \in BOOLEAN :
        Processed(c, r, from, ok) /\ r.worker = v /\ r.send = conn[c].send
  BY <1>6, Zenon
<1>8. ResultsBut({Job(c, "RECV")})
  BY <1>1 DEF ResultsBut, ResJobs
<1>9. Job(c, "RECV") \notin Left(v)
  <2>1. ResJobs(v)' \subseteq ResJobs(v)
    BY <1>8 DEF ResultsBut
  <2>2. Job(c, "RECV") \in Left(v) => Busy(c, "RECV")
    BY <2>1, LeftValid
  <2>3. QED
    BY <1>2, <2>2 DEF Busy
<1>10. parsing'.c = NoConn /\ exec' = exec /\ parsing.c \in {c, NoConn}
  BY <1>1, <1>2 DEF NotParsing
<1>11. EventStep(c)
  BY <1>4, <1>7, <1>8, <1>9, <1>10, AnyReturn, Zenon
<1>12. QED
  BY <1>11

(* Every step.                                                             *)
LEMMA StepKinds ==
  ASSUME JobInv, [Next]_vars
  PROVE  \/ Quiet
         \/ \E c \in Conns : Establish(c) \/ EstablishNoSlot(c) \/ EventStep(c) \/ ParseBegins(c)
         \/ \E w \in Workers : ThreadProc(w) \/ DoRequest(w)
<1>0. TypeOK
  BY DEF JobInv
<1>1. ASSUME UNCHANGED <<conn, nowConnection, parsing, workQ, exec, resQ, aborted>> PROVE Quiet
  BY <1>1 DEF Quiet
<1>2. CASE EpollWait
  BY <1>1, <1>2 DEF EpollWait
<1>3. ASSUME NEW c \in Conns, Dispatch(c) PROVE EventStep(c) \/ Quiet
  <2>1. PICK e \in NetEvents \ Results : e = EventOf(FirstFlag(batch[c]))
    BY DEF FirstFlag, EventOf, NetEvents, Results, SendResults, RecvResults
  <2>2. UNCHANGED <<parsing, exec, resQ>>
    BY <1>3 DEF Dispatch
  <2>3. PICK r \in ConnType : r = conn[c]
    BY <1>0 DEF TypeOK
  <2>4. CASE conn[c].worker # NoWorker /\ OnEvent(c, conn[c], e)
    BY <2>2, <2>3, <2>4, OtherEventStep
  <2>5. CASE UNCHANGED <<conn, nowConnection, workQ, aborted>>
    BY <1>1, <2>2, <2>5
  <2>6. QED
    BY <1>3, <2>1, <2>4, <2>5 DEF Dispatch, Open
<1>4. CASE OnRecvPacket
  <2>1. UNCHANGED <<nowConnection, workQ, exec, resQ, aborted>> /\ parsing'.c = parsing.c
    BY <1>0, <1>4 DEF OnRecvPacket, TypeOK
  <2>2. PICK p \in Conns : p = parsing.c
    BY <1>0, <1>4 DEF OnRecvPacket, Parsing, TypeOK
  <2>3. conn' = [conn EXCEPT ![p].delivered = @ + Parsed] /\ conn \in [Conns -> ConnType]
    BY <1>0, <1>4, <2>2 DEF OnRecvPacket, TypeOK
  <2>4. /\ conn'[p] = [conn[p] EXCEPT !.delivered = conn[p].delivered + Parsed]
        /\ \A c \in Conns \ {p} : conn'[c] = conn[c]
    BY <2>3
  <2>5. /\ conn'[p].worker = conn[p].worker /\ conn'[p].send = conn[p].send
        /\ conn'[p].recv = conn[p].recv
    <3>1. conn[p] \in ConnType
      BY <2>3
    <3>2. QED
      BY <2>4, <3>1 DEF ConnType
  <2>6. QED
    BY <2>1, <2>4, <2>5 DEF Quiet
<1>5. ASSUME NEW c \in Conns, NEW n \in 1 .. MaxOut, Send(c, n) PROVE EventStep(c)
  <2>1. PICK r \in ConnType, e \in {"ERROR", "SEND"} :
           /\ OnEvent(c, r, e)
           /\ r.worker = conn[c].worker /\ r.send = conn[c].send /\ r.recv = conn[c].recv
    BY <1>0, <1>5, SendRecord
  <2>2. e \in NetEvents \ Results
    BY DEF NetEvents, Results, SendResults, RecvResults
  <2>3. conn[c].worker # NoWorker /\ UNCHANGED <<parsing, exec, resQ>>
    BY <1>5 DEF Send, Open
  <2>4. QED
    BY <2>1, <2>2, <2>3, OtherEventStep
<1>6. ASSUME NEW c \in Conns, Close(c) PROVE EventStep(c)
  <2>1. PICK r \in ConnType : r = conn[c]
    BY <1>0 DEF TypeOK
  <2>2. "CLOSE" \in NetEvents \ Results
    BY DEF NetEvents, Results, SendResults, RecvResults
  <2>3. /\ conn[c].worker # NoWorker /\ UNCHANGED <<parsing, exec, resQ>>
        /\ OnEvent(c, r, "CLOSE")
    BY <1>6, <2>1 DEF Close, Open
  <2>4. QED
    BY <2>1, <2>2, <2>3, OtherEventStep
<1>7. ASSUME NEW c \in Conns, PeerSend(c) \/ PeerFin(c) \/ PeerReset(c) \/ PeerRead(c) PROVE Quiet
  BY <1>1, <1>7 DEF PeerSend, PeerFin, PeerReset, PeerRead
<1>8. CASE UNCHANGED vars
  BY <1>1, <1>8 DEF vars
<1>9. QED
  BY <1>2, <1>3, <1>4, <1>5, <1>6, <1>7, <1>8, ResultEventStep, DataEventStep, ReturnEventStep
     DEF Next, Running, LoopStep, AppStep, WorkerStep, PeerStep, Halted

-----------------------------------------------------------------------------
(* The slots: a step leaves them alone, gives a connection one of the      *)
(* worker with the most, or takes the one of a connection back.            *)
SlotMove(c, v) ==
  /\ \A x \in Conns \ {c} : conn'[x].worker = conn[x].worker
  /\ \/ /\ conn[c].worker = NoWorker /\ conn'[c].worker = v
        /\ GetWorker(v) /\ nowConnection' = SlotTaken(v)
     \/ /\ conn[c].worker = v /\ conn'[c].worker = NoWorker
        /\ nowConnection' = SlotFreed(v)

LEMMA RequestWorkers ==
  ASSUME TypeOK, NEW w \in Workers, DoRequest(w)
  PROVE  \A x \in Conns : conn'[x].worker = conn[x].worker
<1>1. PICK c : c = exec[w].connection
  OBVIOUS
<1>2. conn \in [Conns -> ConnType]
  BY DEF TypeOK
<1>3. ASSUME NEW A, NEW B, conn' = [conn EXCEPT ![c].rWorking = A, ![c].full = B]
      PROVE  \A x \in Conns : conn'[x].worker = conn[x].worker
  BY <1>2, <1>3 DEF ConnType
<1>4. ASSUME NEW A, conn' = [conn EXCEPT ![c].sWorking = A]
      PROVE  \A x \in Conns : conn'[x].worker = conn[x].worker
  BY <1>2, <1>4 DEF ConnType
<1>5. ASSUME OnRecv(w, c) PROVE \A x \in Conns : conn'[x].worker = conn[x].worker
  <2>1. PICK A, B, e : conn' = IF e = "RECV_DONE"
                              THEN [conn EXCEPT ![c].rWorking = A, ![c].full = B]
                              ELSE conn
    BY <1>5 DEF OnRecv
  <2>2. QED
    BY <1>3, <2>1
<1>6. ASSUME OnSend(w, c) PROVE \A x \in Conns : conn'[x].worker = conn[x].worker
  <2>1. conn' = conn \/ \E A : conn' = [conn EXCEPT ![c].sWorking = A]
    BY <1>6 DEF OnSend
  <2>2. QED
    BY <1>4, <2>1
<1>7. QED
  BY <1>1, <1>5, <1>6 DEF DoRequest, Abort

LEMMA SlotMoves ==
  ASSUME JobInv, [Next]_vars
  PROVE  \/ UNCHANGED nowConnection /\ \A x \in Conns : conn'[x].worker = conn[x].worker
         \/ \E c \in Conns, v \in Workers : SlotMove(c, v)
<1>0. TypeOK
  BY DEF JobInv
<1>1. \A v : NewConn(v).worker = v
  BY DEF NewConn
<1>2. ASSUME NEW c \in Conns, Establish(c) PROVE \E v \in Workers : SlotMove(c, v)
  <2>1. PICK v \in Workers : /\ GetWorker(v) /\ nowConnection' = SlotTaken(v)
                             /\ conn' = [conn EXCEPT ![c] = NewConn(v)]
    BY <1>2 DEF Establish
  <2>2. conn'[c].worker = v /\ \A x \in Conns \ {c} : conn'[x] = conn[x]
    BY <1>0, <1>1, <2>1 DEF TypeOK
  <2>3. conn[c].worker = NoWorker
    BY <1>2 DEF Establish, Open
  <2>4. QED
    BY <2>1, <2>2, <2>3 DEF SlotMove
<1>3. ASSUME NEW c \in Conns, EventStep(c)
      PROVE  \/ UNCHANGED nowConnection /\ \A x \in Conns : conn'[x].worker = conn[x].worker
             \/ \E v \in Workers : SlotMove(c, v)
  <2>1. PICK v \in Workers : conn[c].worker = v
    BY <1>3 DEF EventStep
  <2>2. PICK q \in ConnType, jobs \in {<<>>, <<Job(c, "SEND")>>, <<Job(c, "RECV")>>} :
          Commit(c, q, jobs) /\ q.worker = v
    BY <1>3, <2>1 DEF EventStep
  <2>3. /\ \A x \in Conns \ {c} : conn'[x] = conn[x]
        /\ conn'[c] = IF BothClosed(q) THEN NewConn(NoWorker) ELSE q
        /\ nowConnection' = IF BothClosed(q) THEN SlotFreed(v) ELSE nowConnection
    BY <1>0, <2>1, <2>2 DEF Commit, BothClosed, TypeOK
  <2>4. CASE BothClosed(q)
    BY <1>1, <2>1, <2>3, <2>4 DEF SlotMove
  <2>5. CASE ~BothClosed(q)
    BY <2>1, <2>2, <2>3, <2>5
  <2>6. QED
    BY <2>4, <2>5
<1>4. ASSUME NEW w \in Workers, ThreadProc(w) \/ DoRequest(w)
      PROVE  UNCHANGED nowConnection /\ \A x \in Conns : conn'[x].worker = conn[x].worker
  BY <1>0, <1>4, RequestWorkers DEF ThreadProc, DoRequest
<1>5. QED
  BY <1>2, <1>3, <1>4, StepKinds DEF Quiet, ParseBegins, EstablishNoSlot

LEMMA SlotsStep == JobInv /\ Slots /\ [Next]_vars => Slots'
<1> SUFFICES ASSUME JobInv, Slots, [Next]_vars, NEW w \in Workers
             PROVE  /\ IsFiniteSet(Serving(w)') /\ nowConnection'[w] = Cardinality(Serving(w)')
                    /\ Cardinality(Serving(w)') <= MaxConnection
  BY DEF Slots
<1>0. TypeOK
  BY DEF JobInv
<1>1. PICK M : M = Serving(w)
  OBVIOUS
<1>2. PICK n \in Nat : n = Cardinality(M)
  BY <1>1, FS_CardinalityType DEF Slots
<1>3. IsFiniteSet(M) /\ nowConnection[w] = n /\ n <= MaxConnection
  BY <1>1, <1>2 DEF Slots
<1>4. CASE UNCHANGED nowConnection /\ \A x \in Conns : conn'[x].worker = conn[x].worker
  <2>1. Serving(w)' = M
    BY <1>1, <1>4 DEF Serving
  <2>2. QED
    BY <1>2, <1>3, <1>4, <2>1
<1>5. ASSUME NEW c \in Conns, NEW v \in Workers, SlotMove(c, v)
      PROVE  /\ IsFiniteSet(Serving(w)') /\ nowConnection'[w] = Cardinality(Serving(w)')
             /\ Cardinality(Serving(w)') <= MaxConnection
  <2>1. NoWorker # w
    BY NullAssumption
  <2>2. CASE v # w
    <3>1. Serving(w)' = M
      BY <1>1, <1>5, <2>1, <2>2 DEF Serving, SlotMove
    <3>2. nowConnection'[w] = nowConnection[w]
      BY <1>0, <1>5, <2>2 DEF SlotMove, SlotTaken, SlotFreed, TypeOK
    <3>3. QED
      BY <1>2, <1>3, <3>1, <3>2
  <2>3. CASE v = w /\ conn[c].worker = NoWorker /\ conn'[c].worker = w
    <3>1. Serving(w)' = M \cup {c} /\ c \notin M
      BY <1>1, <1>5, <2>1, <2>3 DEF Serving, SlotMove
    <3>2. GetWorker(w) /\ nowConnection' = SlotTaken(w)
      BY <1>5, <2>1, <2>3 DEF SlotMove
    <3>3. nowConnection'[w] = n + 1 /\ MaxConnection - n > 0
      BY <1>0, <1>3, <3>2 DEF SlotTaken, GetWorker, GetFreeSlot, TypeOK
    <3>4. IsFiniteSet(M \cup {c}) /\ Cardinality(M \cup {c}) = n + 1
      BY <1>2, <1>3, <3>1, FS_AddElement
    <3>5. n + 1 <= MaxConnection
      BY <3>3, SizeAssumption
    <3>6. QED
      BY <3>1, <3>3, <3>4, <3>5
  <2>4. CASE v = w /\ conn[c].worker = w /\ conn'[c].worker = NoWorker
    <3>1. Serving(w)' = M \ {c} /\ c \in M
      BY <1>1, <1>5, <2>1, <2>4 DEF Serving, SlotMove
    <3>2. nowConnection' = SlotFreed(w)
      BY <1>5, <2>1, <2>4 DEF SlotMove
    <3>3. nowConnection'[w] = n - 1
      BY <1>0, <1>3, <3>2 DEF SlotFreed, TypeOK
    <3>4. IsFiniteSet(M \ {c}) /\ Cardinality(M \ {c}) = n - 1
      BY <1>2, <1>3, <3>1, FS_RemoveElement
    <3>5. n - 1 <= MaxConnection
      BY <1>3, SizeAssumption
    <3>6. QED
      BY <3>1, <3>3, <3>4, <3>5
  <2>5. QED
    BY <1>5, <2>2, <2>3, <2>4 DEF SlotMove
<1>6. QED
  BY <1>4, <1>5, SlotMoves

LEMMA SlotsInit == Init => Slots
<1> SUFFICES ASSUME Init, NEW w \in Workers
             PROVE  /\ IsFiniteSet(Serving(w)) /\ nowConnection[w] = Cardinality(Serving(w))
                    /\ Cardinality(Serving(w)) <= MaxConnection
  BY DEF Slots
<1>1. Serving(w) = {}
  BY NullAssumption DEF Init, NewConn, Serving
<1>2. IsFiniteSet(Serving(w)) /\ Cardinality(Serving(w)) = 0
  BY <1>1, FS_EmptySet
<1>3. nowConnection[w] = 0
  BY DEF Init
<1>4. QED
  BY <1>2, <1>3, SizeAssumption

(* Who ends the process.                                                   *)
LEMMA AbortCause ==
  ASSUME [Next]_vars
  PROVE  \/ aborted' = aborted
         \/ aborted = "no" /\ aborted' = "queue is full"
         \/ \E c \in Conns : aborted = "no" /\ EstablishNoSlot(c)
         \/ \E w \in Workers : aborted = "no" /\ DoRequest(w)
<1>1. \A c, r, jobs : Commit(c, r, jobs) => aborted' \in {aborted, "queue is full"}
  BY DEF Commit
<1>2. \A c, r, e : OnEvent(c, r, e) => aborted' \in {aborted, "queue is full"}
  BY <1>1 DEF OnEvent
<1>3. \A c, r, from, ok : Processed(c, r, from, ok) => aborted' \in {aborted, "queue is full"}
  BY <1>1 DEF Processed
<1>4. CASE UNCHANGED vars
  BY <1>4 DEF vars
<1>5. ASSUME aborted = "no", LoopStep
      PROVE  aborted' \in {aborted, "queue is full"} \/ \E c \in Conns : EstablishNoSlot(c)
  <2>1. CASE EpollWait \/ OnRecvPacket
    BY <2>1 DEF EpollWait, OnRecvPacket
  <2>2. CASE ParseEnd \/ ParseBad
    BY <1>3, <2>2 DEF ParseEnd, ParseBad
  <2>3. ASSUME NEW c \in Conns, Establish(c) PROVE aborted' = aborted
    BY <2>3 DEF Establish
  <2>4. ASSUME NEW c \in Conns, Dispatch(c) PROVE aborted' \in {aborted, "queue is full"}
    BY <1>2, <2>4 DEF Dispatch
  <2>5. ASSUME NEW w \in Workers, DoResult(w) PROVE aborted' \in {aborted, "queue is full"}
    BY <1>2, <2>5 DEF DoResult
  <2>6. ASSUME NEW w \in Workers, DoData(w) PROVE aborted' \in {aborted, "queue is full"}
    BY <1>3, <2>6 DEF DoData
  <2>7. QED
    BY <1>5, <2>1, <2>2, <2>3, <2>4, <2>5, <2>6 DEF LoopStep
<1>6. ASSUME AppStep PROVE aborted' \in {aborted, "queue is full"}
  <2>1. ASSUME NEW c \in Conns, Close(c) PROVE aborted' \in {aborted, "queue is full"}
    BY <1>2, <2>1 DEF Close
  <2>2. ASSUME NEW c \in Conns, NEW n \in 1 .. MaxOut, Send(c, n)
        PROVE  aborted' \in {aborted, "queue is full"}
    <3>1. \E r, e : OnEvent(c, r, e)
      BY <2>2 DEF Send
    <3>2. QED
      BY <1>2, <3>1
  <2>3. QED
    BY <1>6, <2>1, <2>2 DEF AppStep
<1>7. ASSUME NEW w \in Workers, ThreadProc(w) PROVE aborted' = aborted
  BY <1>7 DEF ThreadProc
<1>8. CASE PeerStep
  BY <1>8 DEF PeerStep, PeerSend, PeerFin, PeerReset, PeerRead
<1>9. QED
  BY <1>4, <1>5, <1>6, <1>7, <1>8 DEF Next, Running, Halted, WorkerStep

LEMMA RequestAborts ==
  ASSUME NEW w \in Workers, DoRequest(w)
  PROVE  aborted' \in {aborted, "queue is full", "recv buffer is not empty", "send buffer is empty", "SIGPIPE"}
<1>1. \A c, e : PushResult(w, c, e) => aborted' \in {aborted, "queue is full"}
  BY DEF PushResult
<1>2. \A c : OnRecv(w, c) \/ OnSend(w, c) => aborted' \in {aborted, "queue is full"}
  BY <1>1 DEF OnRecv, OnSend
<1>3. QED
  BY <1>2 DEF DoRequest, Abort

SlotInv == Slots /\ SlotsBounded

(* Every close gives back one slot and nothing else does, for any number   *)
(* of connections and workers: a worker's count is the number of its open  *)
(* connections, which never exceed its slots, and the process stops for    *)
(* want of a slot only if as many are open as there are slots.             *)
THEOREM SlotsRespected == Spec => []SlotsBounded
<1>1. Init => SlotInv
  <2>1. Init => aborted = "no"
    BY DEF Init
  <2>2. QED
    BY <2>1, SlotsInit DEF SlotInv, SlotsBounded, Slots
<1>2. JobInv /\ SlotInv /\ [Next]_vars => SlotInv'
  <2> SUFFICES ASSUME JobInv, SlotInv, [Next]_vars PROVE SlotInv'
    OBVIOUS
  <2>1. Slots /\ Slots'
    BY SlotsStep DEF SlotInv
  <2>2. ASSUME aborted' = "there is not a worker has slot", NEW w \in Workers
        PROVE  Cardinality(Serving(w))' = MaxConnection
    <3>1. CASE aborted' = aborted
      <4>1. UNCHANGED vars
        BY <2>2, <3>1 DEF Next, Running, Halted, vars
      <4>2. Serving(w)' = Serving(w)
        BY <4>1 DEF vars, Serving
      <4>3. QED
        BY <2>2, <3>1, <4>2 DEF SlotInv, SlotsBounded
    <3>2. ASSUME NEW c \in Conns, EstablishNoSlot(c) PROVE Cardinality(Serving(w))' = MaxConnection
      <4>1. Serving(w)' = Serving(w)
        BY <3>2 DEF EstablishNoSlot, Serving
      <4>2. PICK n \in Nat : n = Cardinality(Serving(w))
        BY <2>1, FS_CardinalityType DEF Slots
      <4>3. n <= MaxConnection /\ MaxConnection - n <= 0
        BY <2>1, <3>2, <4>2 DEF Slots, EstablishNoSlot, GetFreeSlot
      <4>4. n = MaxConnection
        BY <4>3, SizeAssumption
      <4>5. QED
        BY <4>1, <4>2, <4>4
    <3>3. ASSUME NEW v \in Workers, aborted = "no", DoRequest(v) PROVE FALSE
      BY <2>2, <3>3, RequestAborts
    <3>4. QED
      BY <2>2, <3>1, <3>2, <3>3, AbortCause
  <2>3. QED
    BY <2>1, <2>2 DEF SlotInv, SlotsBounded, Slots
<1>3. SlotInv => SlotsBounded
  BY DEF SlotInv
<1>4. QED
  BY <1>1, <1>2, <1>3, JobInvHolds, PTL DEF Spec

-----------------------------------------------------------------------------
(* What the end of an event does to the queue of requests.                 *)
LEMMA CommitQueue ==
  ASSUME TypeOK, NEW c \in Conns, NEW v \in Workers, conn[c].worker = v, NEW q,
         NEW jobs \in {<<>>, <<Job(c, "SEND")>>, <<Job(c, "RECV")>>}, Commit(c, q, jobs)
  PROVE  /\ \A w \in Workers : WorkJobs(w) \subseteq WorkJobs(w)'
         /\ \/ /\ aborted' = aborted
               /\ \A x : jobs = <<x>> => x \in WorkJobs(v)'
            \/ aborted' = "queue is full" /\ Len(workQ[v]) + Len(jobs) > QueueSize
<1>1. PICK p \in Seq(Request) : p = workQ[v]
  BY DEF TypeOK
<1>2. jobs \in Seq(Request) /\ Len(jobs) \in Nat /\ Len(p) \in Nat
  <2>1. Job(c, "SEND") \in Request /\ Job(c, "RECV") \in Request
    BY JobType
  <2>2. \A x \in Request : <<x>> \in Seq(Request)
    OBVIOUS
  <2>3. <<>> \in Seq(Request)
    BY EmptySeq
  <2>4. jobs \in Seq(Request)
    BY <2>1, <2>2, <2>3
  <2>5. QED
    BY <2>4, LenProperties
<1>3. QueueSize \in Nat /\ Len(p) + Len(jobs) \in Nat
  BY <1>2, SizeAssumption DEF QueueSize
<1>4. CASE Len(p) + Len(jobs) <= QueueSize
  <2>1. workQ' = [workQ EXCEPT ![v] = @ \o jobs] /\ aborted' = aborted
    BY <1>1, <1>4 DEF Commit
  <2>2. workQ'[v] = p \o jobs /\ \A w \in Workers \ {v} : workQ'[w] = workQ[w]
    BY <1>1, <2>1 DEF TypeOK
  <2>3. /\ Len(p \o jobs) = Len(p) + Len(jobs)
        /\ \A i \in 1 .. Len(p) : (p \o jobs)[i] = p[i]
        /\ \A i \in 1 .. Len(jobs) : (p \o jobs)[Len(p) + i] = jobs[i]
    BY <1>2, ConcatProperties
  <2>4. ASSUME NEW w \in Workers, NEW x \in WorkJobs(w) PROVE x \in WorkJobs(w)'
    <3>1. PICK i \in 1 .. Len(workQ[w]) : x = workQ[w][i]
      BY <2>4 DEF WorkJobs
    <3>2. i \in 1 .. Len(workQ'[w]) /\ workQ'[w][i] = x
      <4>1. CASE w = v
        BY <1>1, <1>2, <2>2, <2>3, <3>1, <4>1
      <4>2. CASE w # v
        BY <2>2, <3>1, <4>2
      <4>3. QED
        BY <4>1, <4>2
    <3>3. QED
      BY <3>2 DEF WorkJobs
  <2>5. ASSUME NEW x, jobs = <<x>> PROVE x \in WorkJobs(v)'
    <3>1. Len(jobs) = 1 /\ jobs[1] = x
      BY <2>5
    <3>2. Len(p) + 1 \in 1 .. Len(workQ'[v]) /\ workQ'[v][Len(p) + 1] = x
      BY <1>2, <2>2, <2>3, <3>1
    <3>3. QED
      BY <3>2 DEF WorkJobs
  <2>6. QED
    BY <2>1, <2>4, <2>5
<1>5. CASE ~(Len(p) + Len(jobs) <= QueueSize)
  <2>1. workQ' = workQ /\ aborted' = "queue is full"
    BY <1>1, <1>5 DEF Commit
  <2>2. \A w \in Workers : WorkJobs(w) \subseteq WorkJobs(w)'
    BY <2>1 DEF WorkJobs
  <2>3. Len(p) + Len(jobs) > QueueSize
    BY <1>3, <1>5
  <2>4. QED
    BY <1>1, <2>1, <2>2, <2>3
<1>6. QED
  BY <1>4, <1>5

LEMMA WorkStays ==
  ASSUME JobInv, [Next]_vars, exec' = exec, NEW w \in Workers
  PROVE  WorkJobs(w) \subseteq WorkJobs(w)'
<1>0. TypeOK
  BY DEF JobInv
<1>1. ASSUME workQ' = workQ PROVE WorkJobs(w) \subseteq WorkJobs(w)'
  BY <1>1 DEF WorkJobs
<1>2. ASSUME NEW c \in Conns, EventStep(c) PROVE WorkJobs(w) \subseteq WorkJobs(w)'
  <2>1. PICK v \in Workers : conn[c].worker = v
    BY <1>2 DEF EventStep
  <2>2. PICK q \in ConnType, jobs \in {<<>>, <<Job(c, "SEND")>>, <<Job(c, "RECV")>>} : Commit(c, q, jobs)
    BY <1>2 DEF EventStep
  <2>3. QED
    BY <1>0, <2>1, <2>2, CommitQueue
<1>3. ASSUME NEW u \in Workers, ThreadProc(u) PROVE FALSE
  <2>1. workQ[u] \in Seq(Request) /\ workQ[u] # <<>>
    BY <1>0, <1>3 DEF ThreadProc, TypeOK
  <2>2. Head(workQ[u]) \in Request
    BY <2>1, HeadTailProperties
  <2>3. Head(workQ[u]) # NoJob
    BY <2>2, NullAssumption DEF Request
  <2>4. QED
    BY <1>0, <1>3, <2>3 DEF ThreadProc, TypeOK
<1>4. QED
  BY <1>1, <1>2, <1>3, StepKinds DEF Quiet, Establish, EstablishNoSlot, ParseBegins, DoRequest

-----------------------------------------------------------------------------
(* The buffers' owner.                                                     *)

(* Nothing waits or is in execution for a machine that does not wait, or   *)
(* whose answer has come.                                                  *)
LEMMA NothingUnderWay ==
  ASSUME JobInv, NEW c \in Conns, NEW d \in {"SEND", "RECV"},
         \/ ~Busy(c, d)
         \/ conn[c].worker = NoWorker
         \/ \E x \in Results : Got(c, x) /\ Direction(x) = d,
         NEW w \in Workers
  PROVE  Job(c, d) \notin WorkJobs(w) \cup ExecJobs(w)
<1> SUFFICES ASSUME Job(c, d) \in WorkJobs(w) \cup ExecJobs(w) PROVE FALSE
  OBVIOUS
<1>1. Valid(Job(c, d), w)
  BY DEF JobInv, AllValid
<1>2. conn[c].worker = w /\ Busy(c, d)
  BY <1>1 DEF Valid, Job
<1>3. ASSUME NEW x \in Results, Got(c, x), Direction(x) = d PROVE FALSE
  <2>1. PICK v \in Workers : Job(c, d) \in ResJobs(v)
    BY <1>3, GotJob
  <2>2. Valid(Job(c, d), v)
    BY <2>1 DEF JobInv, AllValid
  <2>3. v = w
    BY <1>2, <2>2 DEF Valid, Job
  <2>4. QED
    BY <2>1, <2>3 DEF JobInv, NoTwinJobs
<1>4. QED
  BY <1>2, <1>3, NullAssumption

(* A request that is nowhere.                                              *)
LEMMA NotThere ==
  ASSUME JobInv, NEW c \in Conns, NEW d \in {"SEND", "RECV"}
  PROVE  /\ (\A w \in Workers : Job(c, d) \notin WorkJobs(w)) => Waiting(c, d) = {}
         /\ (\A w \in Workers : Job(c, d) \notin ExecJobs(w)) => Executed(c, d) = {}
         /\ (\A w \in Workers : Job(c, d) \notin ResJobs(w)) => Answered(c, d) = {}
<1>0. \A w \in Workers : Len(workQ[w]) \in Nat /\ Len(resQ[w]) \in Nat
  BY LenProperties DEF JobInv, TypeOK
<1>1. ASSUME \A w \in Workers : Job(c, d) \notin WorkJobs(w) PROVE Waiting(c, d) = {}
  <2> SUFFICES ASSUME NEW w \in Workers, NEW i \in 1 .. QueueSize,
                      i <= Len(workQ[w]), workQ[w][i] = Job(c, d)
               PROVE  FALSE
    BY DEF Waiting
  <2>1. i \in 1 .. Len(workQ[w])
    BY <1>0, SizeAssumption DEF QueueSize
  <2>2. QED
    BY <1>1, <2>1 DEF WorkJobs
<1>2. ASSUME \A w \in Workers : Job(c, d) \notin ExecJobs(w) PROVE Executed(c, d) = {}
  <2> SUFFICES ASSUME NEW w \in Workers, exec[w] = Job(c, d) PROVE FALSE
    BY DEF Executed
  <2>1. Job(c, d) # NoJob
    BY JobType, NullAssumption DEF Request
  <2>2. QED
    BY <1>2, <2>1 DEF ExecJobs
<1>3. ASSUME \A w \in Workers : Job(c, d) \notin ResJobs(w) PROVE Answered(c, d) = {}
  <2> SUFFICES ASSUME NEW w \in Workers, NEW i \in 1 .. QueueSize, i <= Len(resQ[w]),
                      resQ[w][i].connection = c, Direction(resQ[w][i].evt) = d
               PROVE  FALSE
    BY DEF Answered
  <2>1. i \in 1 .. Len(resQ[w]) /\ Tok(resQ[w][i]) = Job(c, d)
    BY <1>0, SizeAssumption DEF QueueSize, Tok
  <2>2. QED
    BY <1>3, <2>1 DEF ResJobs
<1>4. QED
  BY <1>1, <1>2, <1>3

LEMMA Unowned ==
  ASSUME JobInv, NEW c \in Conns, NEW d \in {"SEND", "RECV"},
         \A w \in Workers : Job(c, d) \notin WorkJobs(w) \cup ExecJobs(w)
  PROVE  Waiting(c, d) = {} /\ Executed(c, d) = {}
  BY NotThere

(* A step of the main thread touches a buffer only if no worker has it.    *)
LEMMA OwnershipStep ==
  ASSUME JobInv, [Next]_vars, NEW c \in Conns, exec' = exec
  PROVE  /\ conn'[c].sWorking # conn[c].sWorking =>
              \A w \in Workers : Job(c, "SEND") \notin WorkJobs(w) \cup ExecJobs(w)
         /\ conn'[c].rWorking # conn[c].rWorking =>
              \A w \in Workers : Job(c, "RECV") \notin WorkJobs(w) \cup ExecJobs(w)
         /\ conn'[c].worker = NoWorker =>
              \A d \in {"SEND", "RECV"}, w \in Workers : Job(c, d) \notin WorkJobs(w) \cup ExecJobs(w)
<1>0. TypeOK /\ JobInv' /\ conn[c] \in ConnType
  BY JobInductive DEF JobInv, TypeOK
<1>1. ASSUME conn'[c].worker = NoWorker, NEW d \in {"SEND", "RECV"}, NEW w \in Workers,
             Job(c, d) \in WorkJobs(w) \cup ExecJobs(w)
      PROVE  FALSE
  <2>1. Job(c, d) \in WorkJobs(w)' \cup ExecJobs(w)'
    BY <1>1, WorkStays DEF ExecJobs
  <2>2. Valid(Job(c, d), w)'
    BY <1>0, <2>1 DEF JobInv, AllValid
  <2>3. QED
    BY <1>1, <2>2, NullAssumption DEF Valid, Job
<1>2. ASSUME Renewed(c), NEW d \in {"SEND", "RECV"}, NEW w \in Workers
      PROVE  Job(c, d) \notin WorkJobs(w) \cup ExecJobs(w)
  <2>1. NewConn(NoWorker).worker = NoWorker
    BY DEF NewConn
  <2>2. conn'[c].worker = NoWorker \/ conn[c].worker = NoWorker
    BY <1>2, <2>1 DEF Renewed
  <2>3. QED
    BY <1>1, <2>2, NothingUnderWay
<1>3. \/ Stays(c) \/ Renewed(c) \/ \E e \in NetEvents : Moved(c, e)
      \/ Resumed(c) \/ Began(c) \/ Delivered(c) \/ ReadTo(c) \/ WriteFrom(c) \/ PeerMoved(c)
  BY <1>0, StepShape, StepMoves
<1>4. ~ReadTo(c) /\ ~WriteFrom(c)
  BY DEF ReadTo, WriteFrom, Answers
<1>5. ASSUME NEW e \in NetEvents, Moved(c, e), conn'[c].sWorking # conn[c].sWorking, NEW w \in Workers
      PROVE  Job(c, "SEND") \notin WorkJobs(w) \cup ExecJobs(w)
  <2>1. SendOn(conn[c].send, e).act = "begin"
    BY <1>5 DEF Moved
  <2>2. e \in SendResults \/ conn[c].send \notin SendBusy
    <3>1. SUFFICES ASSUME e \in NetEvents \ SendResults, conn[c].send \in SendBusy PROVE FALSE
      OBVIOUS
    <3>2. SendOn(conn[c].send, e).act = "go"
      BY <3>1, SendBusyStays
    <3>3. QED
      BY <2>1, <3>2
  <2>3. e \in SendResults => e \in Results /\ Got(c, e) /\ Direction(e) = "SEND"
    BY <1>5 DEF Moved, Results, Direction
  <2>4. conn[c].send \notin SendBusy => ~Busy(c, "SEND")
    BY DEF Busy
  <2>5. QED
    BY <2>2, <2>3, <2>4, NothingUnderWay
<1>6. Began(c) => conn'[c].sWorking = conn[c].sWorking
  <2>1. PICK q : q = TakeRead(conn[c])
    OBVIOUS
  <2>2. q.sWorking = conn[c].sWorking
    BY <1>0, <2>1, TakeFields
  <2>3. QED
    BY <2>1, <2>2 DEF Began
<1>7. Delivered(c) => conn'[c].sWorking = conn[c].sWorking /\ conn'[c].rWorking = conn[c].rWorking
  BY <1>0 DEF Delivered, ConnType
<1>8. ASSUME Began(c), NEW w \in Workers PROVE Job(c, "RECV") \notin WorkJobs(w) \cup ExecJobs(w)
  <2>1. Got(c, "RECV_DONE") /\ "RECV_DONE" \in Results /\ Direction("RECV_DONE") = "RECV"
    BY <1>8 DEF Began, Results, RecvResults, Direction, SendResults
  <2>2. QED
    BY <2>1, NothingUnderWay
<1>9. ASSUME conn'[c].sWorking # conn[c].sWorking, NEW w \in Workers
      PROVE  Job(c, "SEND") \notin WorkJobs(w) \cup ExecJobs(w)
  BY <1>2, <1>3, <1>4, <1>5, <1>6, <1>7, <1>9 DEF Stays, Resumed, PeerMoved
<1>10. ASSUME conn'[c].rWorking # conn[c].rWorking, NEW w \in Workers
       PROVE  Job(c, "RECV") \notin WorkJobs(w) \cup ExecJobs(w)
  BY <1>2, <1>3, <1>4, <1>7, <1>8, <1>10 DEF Stays, Moved, Resumed, PeerMoved
<1>11. QED
  BY <1>1, <1>9, <1>10

(* The main thread writes a WORKING buffer, or frees the connection, only  *)
(* while no worker has a request for it.                                   *)
THEOREM BuffersChangeHands == Spec => BufferOwnership
<1>1. JobInv /\ [Next]_vars =>
        [\A c \in Conns : exec' = exec =>
           /\ conn'[c].sWorking # conn[c].sWorking =>
                Waiting(c, "SEND") = {} /\ Executed(c, "SEND") = {}
           /\ conn'[c].rWorking # conn[c].rWorking =>
                Waiting(c, "RECV") = {} /\ Executed(c, "RECV") = {}
           /\ conn'[c].worker = NoWorker =>
                \A d \in {"SEND", "RECV"} : Waiting(c, d) = {} /\ Executed(c, d) = {}]_vars
  <2> SUFFICES ASSUME JobInv, [Next]_vars, NEW c \in Conns, exec' = exec
               PROVE  /\ conn'[c].sWorking # conn[c].sWorking =>
                           Waiting(c, "SEND") = {} /\ Executed(c, "SEND") = {}
                      /\ conn'[c].rWorking # conn[c].rWorking =>
                           Waiting(c, "RECV") = {} /\ Executed(c, "RECV") = {}
                      /\ conn'[c].worker = NoWorker =>
                           \A d \in {"SEND", "RECV"} : Waiting(c, d) = {} /\ Executed(c, d) = {}
    OBVIOUS
  <2>1. QED
    BY OwnershipStep, Unowned
<1>2. QED
  BY <1>1, JobInvHolds, PTL DEF Spec, BufferOwnership

-----------------------------------------------------------------------------
(* Send and a connection's life.                                           *)

LEMMA GotBusy ==
  ASSUME JobInv, NEW c \in Conns, NEW x \in Results, Got(c, x)
  PROVE  Busy(c, Direction(x))
<1>1. PICK w \in Workers : Job(c, Direction(x)) \in ResJobs(w)
  BY GotJob
<1>2. Valid(Job(c, Direction(x)), w)
  BY <1>1 DEF JobInv, AllValid
<1>3. QED
  BY <1>2 DEF Valid, Job

(* A direction has one answer at a time.                                   *)
LEMMA GotOne ==
  ASSUME JobInv, NEW c \in Conns, NEW x \in Results, NEW y \in Results, Got(c, x), Got(c, y),
         Direction(x) = Direction(y)
  PROVE  x = y
<1>1. PICK w \in Workers : \E i \in 1 .. Len(resQ[w]) : resQ[w][i] = [connection |-> c, evt |-> x]
  BY DEF Got
<1>2. PICK i \in 1 .. Len(resQ[w]) : resQ[w][i] = [connection |-> c, evt |-> x]
  BY <1>1
<1>3. PICK v \in Workers : \E j \in 1 .. Len(resQ[v]) : resQ[v][j] = [connection |-> c, evt |-> y]
  BY DEF Got
<1>4. PICK j \in 1 .. Len(resQ[v]) : resQ[v][j] = [connection |-> c, evt |-> y]
  BY <1>3
<1>5. PICK t : t = Job(c, Direction(x))
  OBVIOUS
<1>6. Tok(resQ[w][i]) = t /\ Tok(resQ[v][j]) = t
  BY <1>2, <1>4, <1>5 DEF Tok
<1>7. t \in ResJobs(w) /\ t \in ResJobs(v)
  BY <1>6 DEF ResJobs
<1>8. w = v
  BY <1>7 DEF JobInv, AllValid, Valid
<1>9. i = j
  BY <1>6, <1>8 DEF JobInv, NoTwinJobs
<1>10. [connection |-> c, evt |-> x].evt = [connection |-> c, evt |-> y].evt
  BY <1>2, <1>4, <1>8, <1>9
<1>11. QED
  BY <1>10

(* Only the end of a write makes the send machine idle.                    *)
LEMMA SendNoneFrom ==
  ASSUME NEW s \in SendStates, NEW e \in NetEvents, SendOn(s, e).to = "SendNone"
  PROVE  SendOn(s, e).act = "go" /\ (s = "SendNone" \/ e = "SEND_DONE")
<1> USE DEF Go, Begin, SendTeardown, SendResults, NetEvents, RecvResults
<1>1. CASE s = "SendNone"
  BY <1>1 DEF SendOn, SendNoneOn
<1>2. CASE s = "Sending"
  BY <1>2 DEF SendOn, SendingOn
<1>3. CASE s = "SendPending"
  BY <1>3 DEF SendOn, SendPendingOn
<1>4. CASE s = "SendingReady"
  BY <1>4 DEF SendOn, SendingReadyOn
<1>5. CASE s = "SendingWait"
  BY <1>5 DEF SendOn, SendingWaitOn
<1>6. CASE s = "SendingReadyWait"
  BY <1>6 DEF SendOn, SendingReadyWaitOn
<1>7. CASE s = "SendWaitClose"
  BY <1>7 DEF SendOn, SendWaitCloseOn
<1>8. CASE s = "SendingWaitClose"
  BY <1>8 DEF SendOn, SendingWaitCloseOn
<1>9. CASE s = "SendClose"
  BY <1>9 DEF SendOn
<1>10. QED
  BY <1>1, <1>2, <1>3, <1>4, <1>5, <1>6, <1>7, <1>8, <1>9 DEF SendStates

(* Send begins a write only of an idle machine, and closes none.           *)
LEMMA OnSendCall ==
  ASSUME NEW s \in SendStates
  PROVE  /\ SendOn(s, "SEND").act = "begin" => s = "SendNone" /\ SendOn(s, "SEND").to = "Sending"
         /\ SendOn(s, "SEND").to = "SendClose" => s = "SendClose"
<1> USE DEF Go, Begin, SendTeardown, SendResults
<1>1. CASE s = "SendNone"
  BY <1>1 DEF SendOn, SendNoneOn
<1>2. CASE s = "Sending"
  BY <1>2 DEF SendOn, SendingOn
<1>3. CASE s = "SendPending"
  BY <1>3 DEF SendOn, SendPendingOn
<1>4. CASE s = "SendingReady"
  BY <1>4 DEF SendOn, SendingReadyOn
<1>5. CASE s = "SendingWait"
  BY <1>5 DEF SendOn, SendingWaitOn
<1>6. CASE s = "SendingReadyWait"
  BY <1>6 DEF SendOn, SendingReadyWaitOn
<1>7. CASE s = "SendWaitClose"
  BY <1>7 DEF SendOn, SendWaitCloseOn
<1>8. CASE s = "SendingWaitClose"
  BY <1>8 DEF SendOn, SendingWaitCloseOn
<1>9. CASE s = "SendClose"
  BY <1>9 DEF SendOn
<1>10. QED
  BY <1>1, <1>2, <1>3, <1>4, <1>5, <1>6, <1>7, <1>8, <1>9 DEF SendStates

LEMMA RecvOnSendCall ==
  ASSUME NEW t \in RecvStates PROVE RecvOn(t, "SEND").to = t
  BY DEF RecvStates, RecvOn, RecvNoneOn, RecvingOn, RecvingWaitOn, RecvWaitCloseOn, RecvResults, Go, Begin

(* An idle send machine, or one about to hear that its write is done, has  *)
(* nothing left to write; a record with both machines closed is deleted.   *)
Drained(c) ==
  /\ conn[c].send = "SendNone" \/ Got(c, "SEND_DONE") => conn[c].sWorking = <<>>
  /\ ~BothClosed(conn[c])

DrainedInv == \A c \in Conns : Drained(c)

LEMMA DrainedMove ==
  ASSUME JobInv, NEW c \in Conns, NEW e \in NetEvents, Moved(c, e), Drained(c)
  PROVE  conn'[c].send = "SendNone" \/ Got(c, "SEND_DONE")' => conn'[c].sWorking = <<>>
<1>1. PICK s : s = SendOn(conn[c].send, e)
  OBVIOUS
<1>2. conn[c].send \in SendStates /\ "SEND_DONE" \in Results /\ Direction("SEND_DONE") = "SEND"
  BY DEF JobInv, TypeOK, ConnType, Results, SendResults, Direction
<1>3. \/ s.act = "begin" /\ conn'[c].send = s.to
      \/ s.act = "begin" /\ conn'[c].send = "SendClose" /\ conn'[c].sWorking = conn[c].sWorking
      \/ s.act = "go" /\ conn'[c].send = s.to /\ conn'[c].sWorking = conn[c].sWorking
  BY <1>1 DEF Moved
<1>4. CASE Got(c, "SEND_DONE")'
  <2>1. Got(c, "SEND_DONE") /\ e # "SEND_DONE"
    BY <1>2, <1>4 DEF Moved, GotBut
  <2>2. conn[c].send \in SendBusy
    <3>1. Busy(c, "SEND")
      BY <1>2, <2>1, GotBusy
    <3>2. QED
      BY <3>1 DEF Busy
  <2>3. e \notin SendResults
    <3>1. SUFFICES ASSUME e \in SendResults PROVE FALSE
      OBVIOUS
    <3>2. e \in Results /\ Direction(e) = "SEND" /\ Got(c, e)
      BY <3>1 DEF Results, Direction, Moved
    <3>3. QED
      BY <1>2, <2>1, <3>2, GotOne
  <2>4. s.act = "go"
    <3>1. e \in NetEvents \ SendResults
      BY <2>3
    <3>2. QED
      BY <1>1, <2>2, <3>1, SendBusyStays
  <2>5. QED
    BY <1>3, <2>1, <2>4 DEF Drained
<1>5. CASE conn'[c].send = "SendNone"
  <2>1. s.to = "SendNone"
    BY <1>3, <1>5
  <2>2. s.act = "go" /\ (conn[c].send = "SendNone" \/ e = "SEND_DONE")
    BY <1>1, <1>2, <2>1, SendNoneFrom
  <2>3. e = "SEND_DONE" => Got(c, "SEND_DONE")
    BY <1>2 DEF Moved
  <2>4. QED
    BY <1>3, <2>2, <2>3 DEF Drained
<1>6. QED
  BY <1>4, <1>5

LEMMA SuffixEmpty ==
  ASSUME NEW S, NEW b \in Seq(S), NEW k \in Nat, b = <<>> \/ k = Len(b)
  PROVE  SubSeq(b, k + 1, Len(b)) = <<>>
<1>1. Len(b) \in Nat /\ (b = <<>> => Len(b) = 0)
  BY LenProperties, EmptySeq
<1>2. ~(k + 1 <= Len(b))
  BY <1>1
<1>3. PICK u \in Seq(S) : u = SubSeq(b, k + 1, Len(b))
  BY SuffixType
<1>4. Len(u) = 0
  BY <1>1, <1>2, <1>3, SubSeqProperties
<1>5. QED
  BY <1>3, <1>4, EmptySeq

LEMMA DrainedWrite ==
  ASSUME TypeOK, NEW c \in Conns, WriteFrom(c), Drained(c)
  PROVE  Drained(c)'
<1>1. /\ conn[c] \in ConnType
      /\ conn[c].sWorking \in Seq(1 .. MaxOut) /\ Len(conn[c].sWorking) \in Nat
      /\ Len(sock[c].out) \in Nat
  BY LenProperties DEF TypeOK, ConnType, SockType
<1>2. PICK b \in Seq(1 .. MaxOut) : b = conn[c].sWorking
  BY <1>1
<1>3. PICK room \in Nat : room = IF Len(sock[c].out) < SockCap THEN SockCap - Len(sock[c].out) ELSE 0
  BY <1>1, RoomType
<1>4. PICK k \in Nat : k = Least(Len(b), room)
  BY <1>1, <1>2, LeastType
<1>5. PICK y : y = SubSeq(b, k + 1, Len(b))
  OBVIOUS
<1>6. (b = <<>> \/ k = Len(b)) => y = <<>>
  BY <1>5, SuffixEmpty
<1>7. /\ "SEND_DONE" \in Results /\ "SEND_DONE" # "SEND_ERROR" /\ "SEND_DONE" # "SEND_PENDING"
      /\ Direction("SEND_DONE") = "SEND" /\ Direction("SEND_ERROR") = "SEND"
      /\ Direction("SEND_PENDING") = "SEND"
  BY DEF Results, SendResults, Direction
<1>8. conn[c].send # "SendNone"
  <2>1. Busy(c, "SEND")
    BY <1>7 DEF WriteFrom, Answers
  <2>2. QED
    BY <2>1 DEF Busy, SendBusy
<1>9. CASE conn'[c] = conn[c] /\ Answers(c, "SEND_ERROR")
  <2>1. Got(c, "SEND_DONE")' => Got(c, "SEND_DONE")
    BY <1>7, <1>9 DEF Answers
  <2>2. QED
    BY <1>9, <2>1 DEF Drained
<1>10. CASE /\ conn'[c] = [conn[c] EXCEPT !.sWorking = y]
            /\ IF k = Len(b) THEN Answers(c, "SEND_DONE") ELSE Answers(c, "SEND_PENDING")
  <2>1. conn'[c].sWorking = y /\ conn'[c].send = conn[c].send /\ conn'[c].recv = conn[c].recv
    BY <1>1, <1>10 DEF ConnType
  <2>2. k # Len(b) => (Got(c, "SEND_DONE")' => Got(c, "SEND_DONE"))
    BY <1>7, <1>10 DEF Answers
  <2>3. k # Len(b) /\ Got(c, "SEND_DONE")' => y = <<>>
    BY <1>2, <1>6, <2>2 DEF Drained
  <2>4. QED
    BY <1>6, <1>8, <2>1, <2>3 DEF Drained, BothClosed
<1>11. QED
  BY <1>2, <1>3, <1>4, <1>5, <1>9, <1>10 DEF WriteFrom

LEMMA DrainedStep ==
  ASSUME JobInv, NEW c \in Conns, ConnStep(c), Drained(c)
  PROVE  Drained(c)'
<1>0. TypeOK /\ conn[c] \in ConnType /\ "SEND_DONE" \in Results /\ "SEND_DONE" # "RECV_DONE"
  BY DEF JobInv, TypeOK, Results, SendResults
<1>1. ASSUME conn'[c].send = conn[c].send, conn'[c].sWorking = conn[c].sWorking, ~BothClosed(conn'[c]),
             Got(c, "SEND_DONE")' => Got(c, "SEND_DONE")
      PROVE  Drained(c)'
  BY <1>1 DEF Drained
<1>2. \A E : GotBut(c, E) => (Got(c, "SEND_DONE")' => Got(c, "SEND_DONE"))
  BY <1>0 DEF GotBut
<1>3. CASE Stays(c) \/ PeerMoved(c)
  <2>1. conn'[c] = conn[c] /\ GotBut(c, {})
    BY <1>3 DEF Stays, PeerMoved
  <2>2. QED
    BY <1>1, <1>2, <2>1 DEF Drained
<1>4. CASE Renewed(c)
  <2>1. conn'[c].send = "SendNone" /\ conn'[c].sWorking = <<>>
    BY <1>4, NewFields
  <2>2. QED
    BY <2>1 DEF Drained, BothClosed
<1>5. ASSUME NEW e \in NetEvents, Moved(c, e) PROVE Drained(c)'
  <2>1. ~BothClosed(conn'[c])
    BY <1>5 DEF Moved
  <2>2. conn'[c].send = "SendNone" \/ Got(c, "SEND_DONE")' => conn'[c].sWorking = <<>>
    BY <1>5, DrainedMove
  <2>3. QED
    BY <2>1, <2>2 DEF Drained
<1>6. CASE Resumed(c)
  BY <1>1, <1>2, <1>6 DEF Resumed
<1>7. CASE Began(c)
  <2>1. PICK q : q = TakeRead(conn[c])
    OBVIOUS
  <2>2. q.send = conn[c].send /\ q.recv = conn[c].recv /\ q.sWorking = conn[c].sWorking
    BY <1>0, <2>1, TakeFields
  <2>3. conn'[c] = q /\ GotBut(c, {"RECV_DONE"})
    BY <1>7, <2>1 DEF Began
  <2>4. QED
    BY <1>1, <1>2, <2>2, <2>3 DEF Drained, BothClosed
<1>8. CASE Delivered(c)
  <2>1. /\ conn'[c].send = conn[c].send /\ conn'[c].recv = conn[c].recv
        /\ conn'[c].sWorking = conn[c].sWorking /\ GotBut(c, {})
    BY <1>0, <1>8 DEF Delivered, ConnType
  <2>2. QED
    BY <1>1, <1>2, <2>1 DEF Drained, BothClosed
<1>9. CASE ReadTo(c)
  <2>1. /\ conn'[c].send = conn[c].send /\ conn'[c].recv = conn[c].recv
        /\ conn'[c].sWorking = conn[c].sWorking
    BY <1>0, <1>9 DEF ReadTo, ConnType
  <2>2. Got(c, "SEND_DONE")' => Got(c, "SEND_DONE")
    BY <1>0, <1>9 DEF ReadTo, Answers
  <2>3. QED
    BY <1>1, <2>1, <2>2 DEF Drained, BothClosed
<1>10. QED
  BY <1>0, <1>3, <1>4, <1>5, <1>6, <1>7, <1>8, <1>9, DrainedWrite, StepMoves

LEMMA DrainedHolds == Spec => []DrainedInv
<1>1. Init => DrainedInv
  BY DEF Init, DrainedInv, Drained, BothClosed, NewConn, Got
<1>2. JobInv /\ DrainedInv /\ [Next]_vars => DrainedInv'
  BY StepShape, DrainedStep DEF DrainedInv
<1>3. QED
  BY <1>1, <1>2, JobInvHolds, PTL DEF Spec

LEMMA SendStays ==
  ASSUME TypeOK, NEW c \in Conns, Drained(c), NEW n \in 1 .. MaxOut, Send(c, n),
         Len(conn[c].sUsing) + n <= SendSize
  PROVE  conn'[c].worker # NoWorker
<1>0. PICK r \in ConnType : r = conn[c]
  BY DEF TypeOK
<1>1. /\ r.offered + n <= MaxOut /\ r.worker # NoWorker /\ Len(r.sUsing) \in Nat
      /\ r.send \in SendStates /\ r.recv \in RecvStates
  BY <1>0, LenProperties DEF Send, Open, ConnType
<1>2. PICK q \in ConnType : q = WithBytes(r, n)
  BY <1>1, SendFields
<1>3. /\ q.worker = r.worker /\ q.send = r.send /\ q.recv = r.recv /\ q.sWorking = r.sWorking
      /\ Len(q.sUsing) = Len(r.sUsing) + n
  BY <1>1, <1>2, SendFields
<1>4. OnEvent(c, q, "SEND")
  <2>1. WithOffered(r, n).sUsing = r.sUsing
    BY <1>1, SendFields
  <2>2. \/ Len(r.sUsing) + n > SendSize
        \/ OnEvent(c, q, "SEND")
    BY <1>0, <1>2, <2>1 DEF Send, WithBytes, WithOffered
  <2>3. ~(Len(r.sUsing) + n > SendSize)
    BY <1>0, <1>1, SizeAssumption
  <2>4. QED
    BY <2>2, <2>3
<1>5. PICK y : y = Machines(q, "SEND")
  OBVIOUS
<1>6. "SEND" \in NetEvents
  BY DEF NetEvents
<1>7. /\ y.worker = q.worker /\ y.recv = RecvOn(q.recv, "SEND").to
      /\ \/ SendOn(q.send, "SEND").act = "begin" /\ Fits(q) /\ y.send = SendOn(q.send, "SEND").to
         \/ SendOn(q.send, "SEND").act = "begin" /\ ~Fits(q)
         \/ y.send = SendOn(q.send, "SEND").to
  BY <1>5, <1>6, MachinesFields
<1>8. r.send = "SendNone" => Fits(q)
  <2>1. SUFFICES ASSUME r.sWorking = <<>> PROVE Fits(q)
    BY <1>0 DEF Drained
  <2>2. Len(q.sWorking) = 0
    BY <1>3, <2>1
  <2>3. Len(q.sUsing) <= SendSize /\ Len(q.sUsing) \in Nat
    BY <1>0, <1>1, <1>3
  <2>4. QED
    BY <2>2, <2>3 DEF Fits
<1>9. ~BothClosed(y)
  <2>1. /\ SendOn(r.send, "SEND").act = "begin" => r.send = "SendNone" /\ SendOn(r.send, "SEND").to = "Sending"
        /\ SendOn(r.send, "SEND").to = "SendClose" => r.send = "SendClose"
    BY <1>1, OnSendCall
  <2>2. RecvOn(r.recv, "SEND").to = r.recv
    BY <1>1, RecvOnSendCall
  <2>3. y.send = "SendClose" => r.send = "SendClose"
    BY <1>3, <1>7, <1>8, <2>1
  <2>4. y.recv = r.recv
    BY <1>3, <1>7, <2>2
  <2>5. QED
    BY <1>0, <2>3, <2>4 DEF Drained, BothClosed
<1>10. PICK jobs : Commit(c, y, jobs)
  BY <1>4, <1>5 DEF OnEvent, Machines
<1>11. conn'[c] = y
  BY <1>9, <1>10, CommitRecord DEF BothClosed
<1>12. QED
  BY <1>1, <1>3, <1>7, <1>11

(* A Send that fits never frees its connection.                            *)
THEOREM SendNeverFrees == Spec => SendKeepsOpen
<1>1. JobInv /\ DrainedInv =>
        [\A c \in Conns, n \in 1 .. MaxOut :
           Send(c, n) /\ Len(conn[c].sUsing) + n <= SendSize => conn'[c].worker # NoWorker]_vars
  BY SendStays DEF JobInv, DrainedInv
<1>2. QED
  BY <1>1, JobInvHolds, DrainedHolds, PTL DEF SendKeepsOpen

-----------------------------------------------------------------------------
(* The assertions.                                                         *)

LEMMA EventRoom ==
  ASSUME JobInv, Slots, NEW c \in Conns, EventStep(c)
  PROVE  aborted' = aborted
<1>1. PICK v \in Workers : conn[c].worker = v
  BY DEF EventStep
<1>2. PICK q \in ConnType, jobs \in {<<>>, <<Job(c, "SEND")>>, <<Job(c, "RECV")>>} :
        /\ Commit(c, q, jobs)
        /\ \A d \in {"SEND", "RECV"} : jobs = <<Job(c, d)>> => Job(c, d) \notin Left(v)
  BY <1>1 DEF EventStep
<1>3. PICK n \in Nat : n = Len(workQ[v])
  BY WorkFits
<1>4. /\ n <= QueueSize
      /\ \A x \in Request : conn[x.connection].worker = v /\ x \notin WorkJobs(v) => n < QueueSize
  BY <1>3, WorkFits
<1>5. QueueSize \in Nat
  BY SizeAssumption DEF QueueSize
<1>6. n + Len(jobs) <= QueueSize
  <2>1. CASE jobs = <<>>
    <3>1. Len(jobs) = 0
      BY <2>1
    <3>2. QED
      BY <1>4, <1>5, <3>1
  <2>2. ASSUME NEW d \in {"SEND", "RECV"}, jobs = <<Job(c, d)>> PROVE n + Len(jobs) <= QueueSize
    <3>1. PICK x \in Request : x = Job(c, d)
      BY JobType
    <3>2. x.connection = c
      BY <3>1 DEF Job
    <3>3. x \notin WorkJobs(v)
      BY <1>2, <2>2, <3>1 DEF Left
    <3>4. n < QueueSize
      BY <1>1, <1>4, <3>2, <3>3
    <3>5. Len(jobs) = 1
      BY <2>2
    <3>6. QED
      BY <1>5, <3>4, <3>5
  <2>3. QED
    BY <2>1, <2>2
<1>7. ~(n + Len(jobs) > QueueSize)
  <2>1. n + Len(jobs) \in Nat
    BY <1>2
  <2>2. QED
    BY <1>5, <1>6, <2>1
<1>8. TypeOK
  BY DEF JobInv
<1>9. \/ aborted' = aborted
      \/ aborted' = "queue is full" /\ Len(workQ[v]) + Len(jobs) > QueueSize
  BY <1>1, <1>2, <1>8, CommitQueue
<1>10. QED
  BY <1>3, <1>7, <1>9

(* Whatever a worker may still have read is announced by its answer.       *)
Unread(c) == conn[c].rWorking # <<>> /\ conn[c].recv # "RecvClose" => Got(c, "RECV_DONE")

LEMMA RequestRoom ==
  ASSUME JobInv, Slots, NEW w \in Workers, DoRequest(w), \A c \in Conns : Unread(c)
  PROVE  aborted' \in {aborted, "send buffer is empty", "SIGPIPE"}
<1>1. PICK x \in Request : x = exec[w]
  BY DEF DoRequest, JobInv, TypeOK
<1>2. x \in ExecJobs(w) /\ x # NoJob
  BY <1>1 DEF DoRequest, ExecJobs
<1>3. conn[x.connection].worker = w /\ Busy(x.connection, x.evt)
  BY <1>2 DEF JobInv, AllValid, Valid
<1>4. x \notin ResJobs(w)
  BY <1>2 DEF JobInv, NoTwinJobs
<1>5. Len(resQ[w]) < QueueSize
  BY <1>3, <1>4, ResultsFit
<1>6. \A c, e : PushResult(w, c, e) => aborted' = aborted
  BY <1>5 DEF PushResult
<1>7. \A c : OnRecv(w, c) \/ OnSend(w, c) => aborted' = aborted
  BY <1>6 DEF OnRecv, OnSend
<1>8. PICK c \in Conns : c = x.connection
  BY DEF Request
<1>9. x.evt = "RECV" => conn[c].rWorking = <<>>
  <2>1. SUFFICES ASSUME x.evt = "RECV", conn[c].rWorking # <<>> PROVE FALSE
    OBVIOUS
  <2>2. conn[c].recv # "RecvClose"
    BY <1>3, <1>8, <2>1 DEF Busy, RecvBusy
  <2>3. Got(c, "RECV_DONE") /\ "RECV_DONE" \in Results /\ Direction("RECV_DONE") = "RECV"
    BY <2>1, <2>2 DEF Unread, Results, RecvResults, Direction, SendResults
  <2>4. Job(c, "RECV") \notin ExecJobs(w)
    BY <2>3, NothingUnderWay
  <2>5. x = Job(c, "RECV")
    BY <1>8, <2>1 DEF Request, Job
  <2>6. QED
    BY <1>2, <2>4, <2>5
<1>10. QED
  BY <1>1, <1>7, <1>8, <1>9 DEF DoRequest, Abort

LEMMA RecvCloses ==
  ASSUME NEW s \in RecvStates, NEW e \in NetEvents, RecvOn(s, e).to # "RecvClose"
  PROVE  /\ s # "RecvClose" /\ e \notin {"RECV_ERROR", "RECV_CLOSE"}
         /\ e = "RECV_DONE" => s # "RecvWaitClose"
<1> USE DEF Go, Begin, RecvResults
<1>1. CASE s = "RecvNone"
  BY <1>1 DEF RecvOn, RecvNoneOn
<1>2. CASE s = "Recving"
  BY <1>2 DEF RecvOn, RecvingOn
<1>3. CASE s = "RecvingWait"
  BY <1>3 DEF RecvOn, RecvingWaitOn
<1>4. CASE s = "RecvWaitClose"
  BY <1>4 DEF RecvOn, RecvWaitCloseOn
<1>5. CASE s = "RecvClose"
  BY <1>5 DEF RecvOn
<1>6. QED
  BY <1>1, <1>2, <1>3, <1>4, <1>5 DEF RecvStates

LEMMA UnreadStep ==
  ASSUME JobInv, NEW c \in Conns, ConnStep(c), Unread(c), aborted' # "queue is full"
  PROVE  Unread(c)'
<1>0. /\ TypeOK /\ conn[c] \in ConnType /\ conn[c].recv \in RecvStates
      /\ "RECV_DONE" \in Results /\ Direction("RECV_DONE") = "RECV"
  BY DEF JobInv, TypeOK, ConnType, Results, RecvResults, SendResults, Direction
<1>1. Got(c, "RECV_DONE") => conn[c].recv \in RecvBusy /\ parsing.c # c
  <2>1. Got(c, "RECV_DONE") => Busy(c, "RECV")
    BY <1>0, GotBusy
  <2>2. QED
    BY <2>1 DEF Busy
<1>2. ASSUME conn'[c].rWorking = conn[c].rWorking, conn'[c].recv = conn[c].recv,
             Got(c, "RECV_DONE") => Got(c, "RECV_DONE")'
      PROVE  Unread(c)'
  BY <1>2 DEF Unread
<1>3. GotBut(c, {}) => (Got(c, "RECV_DONE") => Got(c, "RECV_DONE")')
  BY <1>0 DEF GotBut
<1>4. CASE Stays(c) \/ PeerMoved(c)
  <2>1. conn'[c] = conn[c] /\ GotBut(c, {})
    BY <1>4 DEF Stays, PeerMoved
  <2>2. QED
    BY <1>2, <1>3, <2>1
<1>5. CASE Renewed(c)
  <2>1. conn'[c].rWorking = <<>>
    BY <1>5, NewFields
  <2>2. QED
    BY <2>1 DEF Unread
<1>6. ASSUME NEW e \in NetEvents, Moved(c, e) PROVE Unread(c)'
  <2>1. SUFFICES ASSUME conn[c].rWorking # <<>>, conn'[c].recv # "RecvClose"
                 PROVE  Got(c, "RECV_DONE")'
    BY <1>6 DEF Unread, Moved
  <2>2. RecvOn(conn[c].recv, e).to # "RecvClose"
    BY <1>6, <2>1 DEF Moved
  <2>3. conn[c].recv # "RecvClose" /\ (e = "RECV_DONE" => conn[c].recv # "RecvWaitClose")
    BY <1>0, <2>2, RecvCloses
  <2>4. Got(c, "RECV_DONE") /\ conn[c].recv \in RecvBusy
    BY <1>1, <2>1, <2>3 DEF Unread
  <2>5. e # "RECV_DONE"
    BY <1>6, <2>3, <2>4 DEF Moved, Awaiting, RecvBusy
  <2>6. QED
    BY <1>0, <1>6, <2>4, <2>5 DEF Moved, GotBut
<1>7. CASE Resumed(c)
  <2>1. SUFFICES ASSUME conn[c].rWorking # <<>>, conn'[c].recv # "RecvClose"
                 PROVE  FALSE
    BY <1>7 DEF Unread, Resumed
  <2>2. parsing.c = c
    BY <1>7, <2>1 DEF Resumed
  <2>3. conn[c].recv # "RecvClose"
    BY <2>2, NullAssumption DEF JobInv, ParseGuard, Parsing, RecvBusy
  <2>4. QED
    BY <1>1, <2>1, <2>2, <2>3 DEF Unread
<1>8. CASE Began(c)
  <2>1. conn'[c].rWorking = <<>>
    <3>1. PICK q : q = TakeRead(conn[c])
      OBVIOUS
    <3>2. q.rWorking = <<>>
      BY <1>0, <3>1, TakeFields
    <3>3. QED
      BY <1>8, <3>1, <3>2 DEF Began
  <2>2. QED
    BY <2>1 DEF Unread
<1>9. CASE Delivered(c)
  <2>1. conn'[c].rWorking = conn[c].rWorking /\ conn'[c].recv = conn[c].recv /\ GotBut(c, {})
    BY <1>0, <1>9 DEF Delivered, ConnType
  <2>2. QED
    BY <1>2, <1>3, <2>1
<1>10. CASE ReadTo(c)
  <2>1. CASE Answers(c, "RECV_DONE")
    BY <2>1 DEF Answers, Unread
  <2>2. CASE conn'[c] = conn[c] /\ \E e \in Results : Answers(c, e)
    <3>1. Got(c, "RECV_DONE") => Got(c, "RECV_DONE")'
      BY <1>0, <2>2 DEF Answers
    <3>2. QED
      BY <1>2, <2>2, <3>1
  <2>3. QED
    BY <1>10, <2>1, <2>2 DEF ReadTo, Results, RecvResults
<1>11. CASE WriteFrom(c)
  <2>1. conn'[c].rWorking = conn[c].rWorking /\ conn'[c].recv = conn[c].recv
    BY <1>0, <1>11 DEF WriteFrom, ConnType
  <2>2. \E e : Answers(c, e)
    BY <1>11 DEF WriteFrom
  <2>3. Got(c, "RECV_DONE") => Got(c, "RECV_DONE")'
    BY <1>0, <2>2 DEF Answers
  <2>4. QED
    BY <1>2, <2>1, <2>3
<1>12. QED
  BY <1>0, <1>4, <1>5, <1>6, <1>7, <1>8, <1>9, <1>10, <1>11, StepMoves

QueueInv == Slots /\ (\A c \in Conns : Unread(c)) /\ AssertionsHold

LEMMA QueueInductive == JobInv /\ QueueInv /\ [Next]_vars => QueueInv'
<1> SUFFICES ASSUME JobInv, QueueInv, [Next]_vars PROVE QueueInv'
  OBVIOUS
<1>1. Slots /\ (\A c \in Conns : Unread(c)) /\ Slots'
  BY SlotsStep DEF QueueInv
<1>2. ASSUME NEW c \in Conns, EventStep(c) PROVE aborted' = aborted
  BY <1>1, <1>2, EventRoom
<1>3. ASSUME NEW w \in Workers, DoRequest(w)
      PROVE  aborted' \in {aborted, "send buffer is empty", "SIGPIPE"}
  BY <1>1, <1>3, RequestRoom
<1>4. AssertionsHold'
  BY <1>2, <1>3, StepKinds
     DEF QueueInv, AssertionsHold, Quiet, Establish, EstablishNoSlot, ParseBegins, ThreadProc
<1>5. aborted' # "queue is full"
  BY <1>4 DEF AssertionsHold
<1>6. \A c \in Conns : Unread(c)'
  BY <1>1, <1>5, StepShape, UnreadStep
<1>7. QED
  BY <1>1, <1>4, <1>6 DEF QueueInv

LEMMA QueueInvHolds == Spec => []QueueInv
<1>1. Init => QueueInv
  <2>1. Init => aborted = "no" /\ \A c \in Conns : conn[c].rWorking = <<>>
    BY DEF Init, NewConn
  <2>2. QED
    BY <2>1, SlotsInit DEF QueueInv, AssertionsHold, Unread
<1>2. QED
  BY <1>1, QueueInductive, JobInvHolds, PTL DEF Spec

(* The queues never overflow, for any number of connections and workers,   *)
(* and a read never finds bytes of the last one in its buffer.             *)
THEOREM AssertionsNeverFail == Spec => []AssertionsHold
<1>1. QueueInv => AssertionsHold
  BY DEF QueueInv
<1>2. QED
  BY <1>1, QueueInvHolds, PTL

-----------------------------------------------------------------------------
(* SIGPIPE.                                                                *)

LEMMA EndGot ==
  ASSUME TypeOK, NEW c \in Conns
  PROVE  EndRead(c) <=> Got(c, "RECV_ERROR") \/ Got(c, "RECV_CLOSE")
<1>1. ASSUME NEW w \in Workers, NEW i \in 1 .. Len(resQ[w])
      PROVE  resQ[w][i] \in [connection : Conns, evt : Results]
  BY <1>1, ElementOfSeq DEF TypeOK, Result, Results
<1>2. \A x : \A y \in [connection : Conns, evt : Results] :
        y = [connection |-> c, evt |-> x] <=> y.connection = c /\ y.evt = x
  OBVIOUS
<1>3. QED
  BY <1>1, <1>2 DEF EndRead, Got

LEMMA ErrorCloses ==
  ASSUME NEW s \in SendBusy PROVE SendOn(s, "SEND_ERROR").to = "SendClose"
<1> USE DEF Go, Begin, SendTeardown, SendResults
<1>1. CASE s = "Sending"
  BY <1>1 DEF SendOn, SendingOn
<1>2. CASE s = "SendingReady"
  BY <1>2 DEF SendOn, SendingReadyOn
<1>3. CASE s = "SendingWait"
  BY <1>3 DEF SendOn, SendingWaitOn
<1>4. CASE s = "SendingReadyWait"
  BY <1>4 DEF SendOn, SendingReadyWaitOn
<1>5. CASE s = "SendWaitClose"
  BY <1>5 DEF SendOn, SendWaitCloseOn
<1>6. CASE s = "SendingWaitClose"
  BY <1>6 DEF SendOn, SendingWaitCloseOn
<1>7. QED
  BY <1>1, <1>2, <1>3, <1>4, <1>5, <1>6 DEF SendBusy

(* A socket's error that a worker has met is on its way to the main        *)
(* thread, or has closed the send machine.                                 *)
Told(c) == \/ Got(c, "RECV_ERROR") \/ Got(c, "RECV_CLOSE") \/ Got(c, "SEND_ERROR")
           \/ conn[c].send \in SendClosing

Taken(c) == sock[c].err = "taken" => Told(c)

LEMMA TakenMove ==
  ASSUME JobInv, NEW c \in Conns, NEW e \in NetEvents, Moved(c, e), Told(c)
  PROVE  Told(c)'
<1>0. /\ conn[c].send \in SendStates
      /\ \A x \in {"RECV_ERROR", "RECV_CLOSE", "SEND_ERROR"} : x \in Results
      /\ Direction("SEND_ERROR") = "SEND"
  BY DEF JobInv, TypeOK, ConnType, Results, SendResults, RecvResults, Direction
<1>1. PICK s : s = SendOn(conn[c].send, e)
  OBVIOUS
<1>2. \/ s.act = "begin" /\ conn'[c].send = s.to
      \/ s.act = "begin" /\ conn'[c].send = "SendClose"
      \/ s.act = "go" /\ conn'[c].send = s.to
  BY <1>1 DEF Moved
<1>3. s.to \in SendClosing => conn'[c].send \in SendClosing
  BY <1>2 DEF SendClosing
<1>4. CASE conn[c].send \in SendClosing
  BY <1>1, <1>3, <1>4, ClosingStays DEF Told
<1>5. ASSUME NEW x \in {"RECV_ERROR", "RECV_CLOSE", "SEND_ERROR"}, Got(c, x) PROVE Told(c)'
  <2>1. CASE e # x
    <3>1. Got(c, x)'
      BY <1>0, <1>5, <2>1 DEF Moved, GotBut
    <3>2. QED
      BY <3>1 DEF Told
  <2>2. CASE e = x /\ x \in {"RECV_ERROR", "RECV_CLOSE"}
    <3>1. e \in SendTeardown
      BY <2>2 DEF SendTeardown
    <3>2. s.to \in SendClosing
      BY <1>0, <1>1, <3>1, TeardownCloses
    <3>3. QED
      BY <1>3, <3>2 DEF Told
  <2>3. CASE e = x /\ x = "SEND_ERROR"
    <3>1. Busy(c, "SEND")
      BY <1>0, <1>5, <2>3, GotBusy
    <3>2. conn[c].send \in SendBusy
      BY <3>1 DEF Busy
    <3>3. s.to = "SendClose"
      BY <1>1, <2>3, <3>2, ErrorCloses
    <3>4. QED
      BY <1>3, <3>3 DEF Told, SendClosing
  <2>4. QED
    BY <2>1, <2>2, <2>3
<1>6. QED
  BY <1>4, <1>5 DEF Told

LEMMA TakenStep ==
  ASSUME JobInv, NEW c \in Conns, ConnStep(c), Taken(c), aborted' # "queue is full"
  PROVE  Taken(c)'
<1>0. /\ TypeOK /\ conn[c] \in ConnType /\ sock[c] \in SockType
      /\ \A x \in {"RECV_ERROR", "RECV_CLOSE", "SEND_ERROR"} : x \in Results /\ x # "RECV_DONE"
  BY DEF JobInv, TypeOK, Results, SendResults, RecvResults
<1>1. ASSUME sock'[c].err = "taken" => sock[c].err = "taken", conn'[c].send = conn[c].send,
             \A x \in {"RECV_ERROR", "RECV_CLOSE", "SEND_ERROR"} : Got(c, x) => Got(c, x)'
      PROVE  Taken(c)'
  BY <1>1 DEF Taken, Told
<1>2. \A E : E \subseteq {"RECV_DONE"} /\ GotBut(c, E) =>
        \A x \in {"RECV_ERROR", "RECV_CLOSE", "SEND_ERROR"} : Got(c, x) => Got(c, x)'
  BY <1>0 DEF GotBut
<1>3. CASE Stays(c)
  BY <1>1, <1>2, <1>3 DEF Stays
<1>4. CASE Renewed(c)
  <2>1. sock'[c].err = "none"
    BY <1>4, NewFields
  <2>2. QED
    BY <2>1 DEF Taken
<1>5. ASSUME NEW e \in NetEvents, Moved(c, e) PROVE Taken(c)'
  <2>1. sock'[c] = sock[c]
    BY <1>5 DEF Moved
  <2>2. QED
    BY <1>5, <2>1, TakenMove DEF Taken
<1>6. CASE Resumed(c)
  BY <1>1, <1>2, <1>6 DEF Resumed
<1>7. CASE Began(c)
  <2>1. conn'[c].send = conn[c].send
    <3>1. PICK q : q = TakeRead(conn[c])
      OBVIOUS
    <3>2. q.send = conn[c].send
      BY <1>0, <3>1, TakeFields
    <3>3. QED
      BY <1>7, <3>1, <3>2 DEF Began
  <2>2. QED
    BY <1>1, <1>2, <1>7, <2>1 DEF Began
<1>8. CASE Delivered(c)
  <2>1. conn'[c].send = conn[c].send
    BY <1>0, <1>8 DEF Delivered, ConnType
  <2>2. QED
    BY <1>1, <1>2, <1>8, <2>1 DEF Delivered
<1>9. CASE ReadTo(c)
  <2>1. CASE Answers(c, "RECV_ERROR")
    BY <2>1 DEF Answers, Taken, Told
  <2>2. CASE (Answers(c, "RECV_DONE") \/ Answers(c, "RECV_CLOSE")) /\ ~Answers(c, "RECV_ERROR")
    <3>1. conn'[c].send = conn[c].send
      BY <1>0, <1>9 DEF ReadTo, ConnType
    <3>2. sock'[c].err = sock[c].err
      BY <1>0, <1>9, <2>2 DEF ReadTo, SockType
    <3>3. \A x \in {"RECV_ERROR", "RECV_CLOSE", "SEND_ERROR"} : Got(c, x) => Got(c, x)'
      BY <1>0, <2>2 DEF Answers
    <3>4. QED
      BY <1>1, <3>1, <3>2, <3>3
  <2>3. QED
    BY <1>9, <2>1, <2>2 DEF ReadTo
<1>10. CASE WriteFrom(c)
  <2>1. CASE Answers(c, "SEND_ERROR")
    BY <2>1 DEF Answers, Taken, Told
  <2>2. CASE (Answers(c, "SEND_DONE") \/ Answers(c, "SEND_PENDING")) /\ ~Answers(c, "SEND_ERROR")
    <3>1. conn'[c].send = conn[c].send
      BY <1>0, <1>10 DEF WriteFrom, ConnType
    <3>2. sock'[c].err = sock[c].err
      BY <1>0, <1>10, <2>2 DEF WriteFrom, SockType
    <3>3. \A x \in {"RECV_ERROR", "RECV_CLOSE", "SEND_ERROR"} : Got(c, x) => Got(c, x)'
      BY <1>0, <2>2 DEF Answers
    <3>4. QED
      BY <1>1, <3>1, <3>2, <3>3
  <2>3. QED
    BY <1>10, <2>1, <2>2 DEF WriteFrom
<1>11. CASE PeerMoved(c)
  <2>1. sock'[c].err \in {sock[c].err, "ECONNRESET", "EPIPE"}
    BY <1>0, <1>11 DEF PeerMoved, SockType
  <2>2. QED
    BY <1>1, <1>2, <1>11, <2>1 DEF PeerMoved
<1>12. QED
  BY <1>0, <1>3, <1>4, <1>5, <1>6, <1>7, <1>8, <1>9, <1>10, <1>11, StepMoves

(* A reset after the peer's end is on epoll's ready list or in its batch,  *)
(* or has closed the send machine.                                         *)
Warned(c) ==
  sock[c].err = "EPIPE" =>
    Open(c) /\ (c \in armed \/ "ERR" \in batch[c] \/ conn[c].send \in SendClosing)

(* Epoll forgets a descriptor only when it reports it or closes it.        *)
LEMMA CommitArmed ==
  ASSUME TypeOK, NEW p \in Conns, NEW r, NEW jobs, Commit(p, r, jobs), NEW c \in armed
  PROVE  c \in armed' \/ sock'[c] = NewSock
<1>1. CASE c \in armed'
  BY <1>1
<1>2. CASE c \notin armed'
  <2>1. c = p /\ r.send = "SendClose" /\ r.recv = "RecvClose"
    BY <1>2 DEF Commit
  <2>2. QED
    BY <2>1, CommitRecord
<1>3. QED
  BY <1>1, <1>2

LEMMA Watched ==
  ASSUME TypeOK, [Next]_vars, NEW c \in Conns
  PROVE  /\ c \in armed => c \in armed' \/ EpollWait \/ sock'[c] = NewSock
         /\ "ERR" \in batch[c] => "ERR" \in batch'[c] \/ Dispatch(c)
<1> DEFINE Kept == c \in armed => c \in armed' \/ sock'[c] = NewSock
           Goal == /\ c \in armed => c \in armed' \/ EpollWait \/ sock'[c] = NewSock
                   /\ "ERR" \in batch[c] => "ERR" \in batch'[c] \/ Dispatch(c)
<1>1. ASSUME NEW p \in Conns, NEW r, NEW jobs, Commit(p, r, jobs) PROVE Kept
  BY <1>1, CommitArmed
<1>2. ASSUME NEW p \in Conns, NEW r, NEW e, OnEvent(p, r, e) PROVE Kept
  <2>1. \E q, jobs : Commit(p, q, jobs)
    BY <1>2 DEF OnEvent
  <2>2. QED
    BY <1>1, <2>1
<1>3. ASSUME NEW p \in Conns, NEW r, NEW from, NEW ok, Processed(p, r, from, ok) PROVE Kept
  <2>1. \E q, jobs : Commit(p, q, jobs)
    BY <1>3 DEF Processed
  <2>2. QED
    BY <1>1, <2>1
<1> HIDE DEF Kept
<1>4. UNCHANGED batch /\ Kept => Goal
  BY DEF Kept
<1>5. UNCHANGED armed => Kept
  BY DEF Kept
<1>6. CASE EpollWait
  BY <1>6 DEF EpollWait, Batched
<1>7. ASSUME NEW p \in Conns, Dispatch(p) PROVE Goal
  <2>1. Kept
    BY <1>2, <1>5, <1>7 DEF Dispatch
  <2>2. p # c => batch'[c] = batch[c]
    BY <1>7 DEF Dispatch, TypeOK
  <2>3. QED
    BY <1>7, <2>1, <2>2 DEF Kept
<1>8. ASSUME NEW p \in Conns, Establish(p) \/ EstablishNoSlot(p) PROVE Goal
  BY <1>4, <1>8 DEF Establish, EstablishNoSlot, Kept
<1>9. ASSUME NEW p \in Conns, PeerSend(p) \/ PeerFin(p) \/ PeerReset(p) \/ PeerRead(p) PROVE Goal
  BY <1>4, <1>9 DEF PeerSend, PeerFin, PeerReset, PeerRead, Kept
<1>10. CASE OnRecvPacket
  BY <1>4, <1>5, <1>10 DEF OnRecvPacket
<1>11. CASE ParseEnd \/ ParseBad
  <2>1. parsing.c \in Conns
    BY <1>11 DEF ParseEnd, ParseBad, Parsing, TypeOK
  <2>2. UNCHANGED batch /\ \E r, from, ok : Processed(parsing.c, r, from, ok)
    BY <1>11 DEF ParseEnd, ParseBad
  <2>3. QED
    BY <1>3, <1>4, <2>1, <2>2
<1>12. ASSUME NEW w \in Workers, DoResult(w) \/ DoData(w) PROVE Goal
  <2>1. Head(resQ[w]).connection \in Conns /\ UNCHANGED batch
    <3>1. resQ[w] \in Seq(Result) /\ resQ[w] # <<>>
      BY <1>12 DEF DoResult, DoData, TypeOK
    <3>2. Head(resQ[w]) \in Result
      BY <3>1, HeadTailProperties
    <3>3. QED
      BY <1>12, <3>2 DEF DoResult, DoData, Result
  <2>2. PICK p \in Conns : p = Head(resQ[w]).connection
    BY <2>1
  <2>3. CASE DoResult(w)
    <3>1. \E r, e : OnEvent(p, r, e)
      BY <2>2, <2>3 DEF DoResult
    <3>2. QED
      BY <1>2, <1>4, <2>1, <3>1
  <2>4. CASE DoData(w)
    <3>1. UNCHANGED armed \/ \E r, from, ok : Processed(p, r, from, ok)
      BY <2>2, <2>4 DEF DoData
    <3>2. QED
      BY <1>3, <1>4, <1>5, <2>1, <3>1
  <2>5. QED
    BY <1>12, <2>3, <2>4
<1>13. ASSUME NEW p \in Conns, NEW n \in 1 .. MaxOut, Send(p, n) PROVE Goal
  <2>1. UNCHANGED batch /\ \E r, e : OnEvent(p, r, e)
    BY <1>13 DEF Send
  <2>2. QED
    BY <1>2, <1>4, <2>1
<1>14. ASSUME NEW p \in Conns, Close(p) PROVE Goal
  <2>1. UNCHANGED batch /\ OnEvent(p, conn[p], "CLOSE")
    BY <1>14 DEF Close
  <2>2. QED
    BY <1>2, <1>4, <2>1
<1>15. ASSUME NEW w \in Workers, ThreadProc(w) \/ DoRequest(w) PROVE Goal
  BY <1>4, <1>5, <1>15 DEF ThreadProc, DoRequest
<1>16. CASE UNCHANGED vars
  BY <1>4, <1>5, <1>16 DEF vars
<1>17. QED
  BY <1>6, <1>7, <1>8, <1>9, <1>10, <1>11, <1>12, <1>13, <1>14, <1>15, <1>16
     DEF Next, Running, LoopStep, AppStep, WorkerStep, PeerStep, Halted

(* Only a reset makes the error EPIPE; a closing send machine stays so.    *)
LEMMA BreaksLate ==
  ASSUME JobInv, NEW c \in Conns, ConnStep(c), sock'[c].err = "EPIPE"
  PROVE  \/ sock[c].err # "EPIPE" /\ conn'[c] = conn[c] /\ Open(c) /\ c \in armed'
         \/ /\ sock[c].err = "EPIPE" /\ ~Renewed(c)
            /\ conn[c].send \in SendClosing => conn'[c].send \in SendClosing
<1>0. TypeOK /\ conn[c] \in ConnType /\ sock[c] \in SockType /\ conn[c].send \in SendStates
  BY DEF JobInv, TypeOK, ConnType
<1>1. ~Renewed(c)
  <2>1. Renewed(c) => sock'[c].err = "none"
    BY NewFields
  <2>2. QED
    BY <2>1
<1>2. ASSUME sock'[c].err = sock[c].err, conn'[c].send = conn[c].send
      PROVE  sock[c].err = "EPIPE" /\ (conn[c].send \in SendClosing => conn'[c].send \in SendClosing)
  BY <1>2
<1>3. CASE Stays(c)
  BY <1>1, <1>2, <1>3 DEF Stays
<1>4. ASSUME NEW e \in NetEvents, Moved(c, e)
      PROVE  sock[c].err = "EPIPE" /\ (conn[c].send \in SendClosing => conn'[c].send \in SendClosing)
  <2>1. PICK s : s = SendOn(conn[c].send, e)
    OBVIOUS
  <2>2. conn'[c].send \in {s.to, "SendClose"} /\ sock'[c] = sock[c]
    BY <1>4, <2>1 DEF Moved
  <2>3. conn[c].send \in SendClosing => s.to \in SendClosing
    BY <2>1, ClosingStays
  <2>4. QED
    BY <2>2, <2>3 DEF SendClosing
<1>5. CASE Resumed(c)
  BY <1>1, <1>2, <1>5 DEF Resumed
<1>6. CASE Began(c)
  <2>1. PICK q : q = TakeRead(conn[c])
    OBVIOUS
  <2>2. q.send = conn[c].send
    BY <1>0, <2>1, TakeFields
  <2>3. QED
    BY <1>1, <1>2, <1>6, <2>1, <2>2 DEF Began
<1>7. CASE Delivered(c)
  <2>1. conn'[c].send = conn[c].send
    BY <1>0, <1>7 DEF Delivered, ConnType
  <2>2. QED
    BY <1>1, <1>2, <1>7, <2>1 DEF Delivered
<1>8. CASE ReadTo(c)
  <2>1. conn'[c].send = conn[c].send
    BY <1>0, <1>8 DEF ReadTo, ConnType
  <2>2. sock'[c].err = sock[c].err
    BY <1>0, <1>8 DEF ReadTo, SockType
  <2>3. QED
    BY <1>1, <1>2, <2>1, <2>2
<1>9. CASE WriteFrom(c)
  <2>1. conn'[c].send = conn[c].send
    BY <1>0, <1>9 DEF WriteFrom, ConnType
  <2>2. sock'[c].err = sock[c].err
    BY <1>0, <1>9 DEF WriteFrom, SockType
  <2>3. QED
    BY <1>1, <1>2, <2>1, <2>2
<1>10. CASE PeerMoved(c)
  <2>1. conn'[c] = conn[c]
    BY <1>10 DEF PeerMoved
  <2>2. sock'[c].err = sock[c].err \/ (sock[c].err = "none" /\ Open(c) /\ c \in armed')
    BY <1>0, <1>10 DEF PeerMoved, SockType
  <2>3. QED
    BY <1>1, <1>2, <2>1, <2>2
<1>11. QED
  BY <1>0, <1>1, <1>3, <1>4, <1>5, <1>6, <1>7, <1>8, <1>9, <1>10, StepMoves

LEMMA WarnedStep ==
  ASSUME JobInv, [Next]_vars, NEW c \in Conns, ConnStep(c), Warned(c)
  PROVE  Warned(c)'
<1>0. TypeOK /\ conn[c] \in ConnType /\ conn[c].send \in SendStates
  BY DEF JobInv, TypeOK, ConnType
<1> SUFFICES ASSUME sock'[c].err = "EPIPE"
             PROVE  /\ Open(c)'
                    /\ c \in armed' \/ "ERR" \in batch'[c] \/ conn'[c].send \in SendClosing
  BY DEF Warned
<1>1. CASE sock[c].err # "EPIPE"
  BY <1>1, BreaksLate DEF Open
<1>2. CASE sock[c].err = "EPIPE"
  <2>1. /\ Open(c) /\ ~Renewed(c)
        /\ c \in armed \/ "ERR" \in batch[c] \/ conn[c].send \in SendClosing
        /\ conn[c].send \in SendClosing => conn'[c].send \in SendClosing
    BY <1>2, BreaksLate DEF Warned
  <2>2. Open(c)'
    BY <1>0, <2>1, WorkerStays DEF Open
  <2>3. sock'[c] # NewSock
    BY DEF NewSock
  <2>4. CASE EpollWait /\ c \in armed
    <3>1. batch'[c] = Mask(c)
      BY <2>4 DEF EpollWait
    <3>2. "ERR" \in Mask(c)
      BY <1>2 DEF Mask
    <3>3. QED
      BY <2>2, <3>1, <3>2
  <2>5. CASE Dispatch(c) /\ "ERR" \in batch[c]
    <3>1. FirstFlag(batch[c]) = "ERR" /\ EventOf("ERR") = "ERROR"
      BY <2>5 DEF FirstFlag, EventOf
    <3>2. PICK r \in ConnType : r = conn[c]
      BY <1>0
    <3>3. OnEvent(c, r, "ERROR")
      BY <2>1, <2>5, <3>1, <3>2 DEF Dispatch
    <3>4. conn'[c] = Machines(r, "ERROR")
      BY <1>0, <2>1, <3>3, EventRecord
    <3>5. PICK s : s = SendOn(r.send, "ERROR")
      OBVIOUS
    <3>6. s.to \in SendClosing /\ s.act = "go"
      <4>1. "ERROR" \in SendTeardown
        BY DEF SendTeardown
      <4>2. QED
        BY <1>0, <3>2, <3>5, <4>1, TeardownCloses
    <3>7. SendMachine(r, s).send = s.to
      BY <3>2, <3>6 DEF SendMachine, ConnType
    <3>8. Machines(r, "ERROR").send = s.to
      <4>1. "ERROR" \in NetEvents
        BY DEF NetEvents
      <4>2. QED
        BY <3>5, <3>7, <4>1, MachinesType
    <3>9. QED
      BY <2>2, <3>4, <3>6, <3>8
  <2>6. QED
    BY <1>0, <2>1, <2>2, <2>3, <2>4, <2>5, Watched
<1>3. QED
  BY <1>1, <1>2

PipeInv == PipeSignal /\ \A c \in Conns : Taken(c) /\ Warned(c)

(* The write that raises SIGPIPE.                                          *)
LEMMA PipeRaised ==
  ASSUME JobInv, NEW w \in Workers, DoRequest(w), aborted = "no", aborted' = "SIGPIPE",
         \A c \in Conns : Taken(c) /\ Warned(c)
  PROVE  PipeSignal'
<1>1. PICK x \in Request : x = exec[w]
  BY DEF DoRequest, JobInv, TypeOK
<1>2. PICK c \in Conns : c = x.connection
  BY DEF Request
<1>3. \A y, e : PushResult(w, y, e) => aborted' \in {"no", "queue is full"}
  BY DEF PushResult
<1>4. \A y : OnRecv(w, y) \/ OnSend(w, y) => aborted' \in {"no", "queue is full"}
  BY <1>3 DEF OnRecv, OnSend
<1>5. /\ x.evt = "SEND" /\ Severed(c)
      /\ UNCHANGED <<conn, sock, resQ, armed, batch>>
  BY <1>1, <1>2, <1>4 DEF DoRequest, Abort
<1>6. x = Job(c, "SEND") /\ x \in ExecJobs(w)
  BY <1>1, <1>2, <1>5 DEF Request, Job, DoRequest, ExecJobs
<1>7. conn[c].send \in SendBusy
  BY <1>2, <1>5, <1>6 DEF JobInv, AllValid, Valid, Busy
<1>8. ~Got(c, "SEND_ERROR")
  <2>1. "SEND_ERROR" \in Results /\ Direction("SEND_ERROR") = "SEND"
    BY DEF Results, SendResults, Direction
  <2>2. QED
    BY <1>6, <2>1, NothingUnderWay
<1>9. \/ sock[c].err = "EPIPE" /\ (c \in armed \/ "ERR" \in batch[c])
      \/ sock[c].err = "taken" /\ EndRead(c)
      \/ Severed(c) /\ conn[c].send \in {"SendWaitClose", "SendingWaitClose"}
  <2>1. SendBusy \cap SendClosing \subseteq {"SendWaitClose", "SendingWaitClose"}
    BY DEF SendBusy, SendClosing
  <2>2. CASE sock[c].err = "taken"
    <3>1. Told(c) /\ TypeOK
      BY <2>2 DEF Taken, JobInv
    <3>2. QED
      BY <1>5, <1>7, <1>8, <2>1, <2>2, <3>1, EndGot DEF Told
  <2>3. CASE sock[c].err = "EPIPE"
    BY <1>5, <1>7, <2>1, <2>3 DEF Warned
  <2>4. QED
    BY <1>5, <2>2, <2>3 DEF Severed
<1>10. EndRead(c)' = EndRead(c) /\ Severed(c)' = Severed(c)
  BY <1>5 DEF EndRead, Severed
<1>11. QED
  BY <1>5, <1>9, <1>10 DEF PipeSignal

(* SIGPIPE ends the process only while the main thread cannot have stopped *)
(* the write: the edge of a reset after the peer's end is not dispatched   *)
(* yet, the answer of the read that took the error is not processed, or    *)
(* the write was under way, or waiting, when it was.                       *)
THEOREM PipeOnlyInRace == Spec => []PipeSignal
<1>1. Init => PipeInv
  BY DEF Init, PipeInv, PipeSignal, Taken, Warned, NewSock
<1>2. JobInv /\ QueueInv' /\ PipeInv /\ [Next]_vars => PipeInv'
  <2> SUFFICES ASSUME JobInv, QueueInv', PipeInv, [Next]_vars PROVE PipeInv'
    OBVIOUS
  <2>1. aborted' # "queue is full"
    BY DEF QueueInv, AssertionsHold
  <2>2. \A c \in Conns : Taken(c) /\ Taken(c)' /\ Warned(c) /\ Warned(c)'
    BY <2>1, StepShape, TakenStep, WarnedStep DEF PipeInv
  <2>3. ASSUME aborted' = "SIGPIPE" PROVE PipeSignal'
    <3>1. CASE aborted' = aborted
      <4>1. UNCHANGED vars
        BY <2>3, <3>1 DEF Next, Running, Halted, vars
      <4>2. PipeSignal' = PipeSignal
        BY <4>1 DEF vars, PipeSignal, EndRead, Severed
      <4>3. QED
        BY <4>2 DEF PipeInv
    <3>2. ASSUME NEW w \in Workers, aborted = "no", DoRequest(w) PROVE PipeSignal'
      BY <2>2, <2>3, <3>2, PipeRaised
    <3>3. ASSUME NEW c \in Conns, EstablishNoSlot(c) PROVE FALSE
      BY <2>3, <3>3 DEF EstablishNoSlot
    <3>4. QED
      BY <2>1, <3>1, <3>2, <3>3, AbortCause
  <2>4. QED
    BY <2>2, <2>3 DEF PipeInv, PipeSignal
<1>3. PipeInv => PipeSignal
  BY DEF PipeInv
<1>4. QED
  BY <1>1, <1>2, <1>3, JobInvHolds, QueueInvHolds, PTL DEF Spec

-----------------------------------------------------------------------------
(* A machine that waits has its request under way.                         *)

UnderWay(w) == WorkJobs(w) \cup ExecJobs(w) \cup ResJobs(w)

Present ==
  aborted = "no" => \A c \in Conns, d \in {"SEND", "RECV"} :
    Busy(c, d) => \E w \in Workers : Job(c, d) \in UnderWay(w)

(* A request that a worker takes off its queue is the one it executes.     *)
LEMMA TakenIsExecuted ==
  ASSUME TypeOK, NEW u \in Workers, ThreadProc(u), NEW w \in Workers
  PROVE  UnderWay(w) \subseteq UnderWay(w)'
<1>1. PICK q \in Seq(Request) : q = workQ[u]
  BY DEF TypeOK
<1>2. q # <<>> /\ exec[u] = NoJob /\ resQ' = resQ
  BY <1>1 DEF ThreadProc
<1>3. /\ exec'[u] = Head(q) /\ workQ'[u] = Tail(q)
      /\ \A v \in Workers \ {u} : exec'[v] = exec[v] /\ workQ'[v] = workQ[v]
  BY <1>1 DEF ThreadProc, TypeOK
<1>4. /\ Len(q) \in Nat \ {0} /\ Head(q) = q[1] /\ Head(q) \in Request
      /\ Len(Tail(q)) = Len(q) - 1 /\ \A i \in 1 .. Len(Tail(q)) : Tail(q)[i] = q[i + 1]
  BY <1>2, HeadTailProperties, LenProperties, EmptySeq
<1>5. ResJobs(w)' = ResJobs(w)
  BY <1>2 DEF ResJobs
<1>6. CASE w # u
  BY <1>3, <1>5, <1>6 DEF UnderWay, WorkJobs, ExecJobs
<1>7. CASE w = u
  <2>1. ExecJobs(u) = {}
    BY <1>2 DEF ExecJobs
  <2>2. q[1] \in ExecJobs(u)'
    BY <1>3, <1>4, NullAssumption DEF ExecJobs, Request
  <2>3. ASSUME NEW x \in WorkJobs(u) PROVE x \in UnderWay(u)'
    <3>1. PICK i \in 1 .. Len(q) : x = q[i]
      BY <1>1, <2>3 DEF WorkJobs
    <3>2. CASE i = 1
      BY <2>2, <3>1, <3>2 DEF UnderWay
    <3>3. CASE i # 1
      <4>1. i - 1 \in 1 .. Len(Tail(q)) /\ (i - 1) + 1 = i
        BY <1>4, <3>3
      <4>2. Tail(q)[i - 1] = x
        BY <1>4, <3>1, <4>1
      <4>3. x \in WorkJobs(u)'
        BY <1>3, <4>1, <4>2 DEF WorkJobs
      <4>4. QED
        BY <4>3 DEF UnderWay
    <3>4. QED
      BY <3>2, <3>3
  <2>4. QED
    BY <1>5, <1>7, <2>1, <2>3 DEF UnderWay
<1>8. QED
  BY <1>6, <1>7

(* A request that a worker has executed is answered.                       *)
LEMMA ExecutedIsAnswered ==
  ASSUME TypeOK, NEW u \in Workers, DoRequest(u), aborted' = "no", NEW w \in Workers
  PROVE  UnderWay(w) \subseteq UnderWay(w)'
<1>1. PICK x \in Result : Tok(x) = exec[u] /\ resQ' = [resQ EXCEPT ![u] = Append(@, x)]
  BY DoRequestEffect
<1>2. PICK q \in Seq(Result) : q = resQ[u]
  BY DEF TypeOK
<1>3. resQ'[u] = Append(q, x) /\ \A v \in Workers \ {u} : resQ'[v] = resQ[v]
  BY <1>1, <1>2 DEF TypeOK
<1>4. /\ Len(q) \in Nat /\ Len(Append(q, x)) = Len(q) + 1
      /\ Append(q, x)[Len(q) + 1] = x
      /\ \A i \in 1 .. Len(q) : Append(q, x)[i] = q[i]
  BY <1>2, AppendProperties, LenProperties
<1>5. WorkJobs(w)' = WorkJobs(w) /\ (w # u => ExecJobs(w)' = ExecJobs(w))
  BY DEF DoRequest, WorkJobs, ExecJobs, TypeOK
<1>6. ResJobs(w) \subseteq ResJobs(w)'
  <2>1. CASE w # u
    BY <1>3, <2>1 DEF ResJobs
  <2>2. ASSUME NEW i \in 1 .. Len(q) PROVE Tok(q[i]) \in ResJobs(u)'
    <3>1. i \in 1 .. Len(Append(q, x)) /\ Append(q, x)[i] = q[i]
      BY <1>4
    <3>2. QED
      BY <1>3, <3>1 DEF ResJobs
  <2>3. CASE w = u
    BY <1>2, <2>2, <2>3 DEF ResJobs
  <2>4. QED
    BY <2>1, <2>3
<1>7. exec[u] \in ResJobs(u)'
  <2>1. Len(q) + 1 \in 1 .. Len(Append(q, x))
    BY <1>4
  <2>2. QED
    BY <1>1, <1>3, <1>4, <2>1 DEF ResJobs
<1>8. QED
  BY <1>5, <1>6, <1>7 DEF UnderWay, ExecJobs

(* After an event the connection waits for what it has begun, or for what  *)
(* it has waited for; the others' requests stay where they are.            *)
LEMMA EventPresent ==
  ASSUME JobInv, Present, NEW c \in Conns, EventStep(c), aborted' = "no",
         NEW x \in Conns, NEW d \in {"SEND", "RECV"}, Busy(x, d)'
  PROVE  \E w \in Workers : Job(x, d) \in UnderWay(w)'
<1>0. TypeOK /\ conn \in [Conns -> ConnType]
  BY DEF JobInv, TypeOK
<1>1. PICK v \in Workers : conn[c].worker = v
  BY DEF EventStep
<1>2. PICK q \in ConnType, jobs \in {<<>>, <<Job(c, "SEND")>>, <<Job(c, "RECV")>>} :
       /\ Commit(c, q, jobs)
       /\ RBusy(q, c, d, parsing'.c) =>
            \/ jobs = <<Job(c, d)>>
            \/ Busy(c, d) /\ \A w \in Workers : Job(c, d) \in ResJobs(w) => Job(c, d) \in ResJobs(w)'
  BY DEF EventStep
<1>3. /\ \A w \in Workers : WorkJobs(w) \subseteq WorkJobs(w)'
      /\ aborted' = aborted
      /\ jobs = <<Job(c, d)>> => Job(c, d) \in WorkJobs(v)'
  BY <1>0, <1>1, <1>2, CommitQueue
<1>4. \A w \in Workers : ExecJobs(w)' = ExecJobs(w)
  BY DEF EventStep, ExecJobs
<1>5. ASSUME Busy(x, d), \A w \in Workers : Job(x, d) \in ResJobs(w) => Job(x, d) \in ResJobs(w)'
      PROVE  \E w \in Workers : Job(x, d) \in UnderWay(w)'
  BY <1>3, <1>4, <1>5 DEF Present, UnderWay
<1>6. CASE x # c
  <2>1. conn'[x] = conn[x]
    BY <1>0, <1>2, <1>6 DEF Commit
  <2>2. Busy(x, d)
    BY <1>6, <2>1 DEF Busy, EventStep
  <2>3. Job(x, d) \notin {Job(c, "SEND"), Job(c, "RECV")}
    BY <1>6 DEF Job
  <2>4. \A w \in Workers : Job(x, d) \in ResJobs(w) => Job(x, d) \in ResJobs(w)'
    BY <2>3 DEF EventStep, ResultsBut
  <2>5. QED
    BY <1>5, <2>2, <2>4
<1>7. CASE x = c
  <2>1. conn'[c] \in {q, NewConn(NoWorker)}
    BY <1>0, <1>2 DEF Commit
  <2>2. conn'[c].send \in SendBusy \/ conn'[c].recv \in RecvBusy
    BY <1>7 DEF Busy
  <2>3. conn'[c] # NewConn(NoWorker)
    BY <2>2 DEF NewConn, SendBusy, RecvBusy
  <2>4. RBusy(q, c, d, parsing'.c)
    BY <1>7, <2>1, <2>3 DEF Busy, RBusy
  <2>5. CASE jobs = <<Job(c, d)>>
    BY <1>3, <1>7, <2>5 DEF UnderWay
  <2>6. CASE jobs # <<Job(c, d)>>
    BY <1>2, <1>5, <1>7, <2>4, <2>6
  <2>7. QED
    BY <2>5, <2>6
<1>8. QED
  BY <1>6, <1>7

LEMMA PresentInductive == JobInv /\ Present /\ [Next]_vars => Present'
<1> SUFFICES ASSUME JobInv, Present, [Next]_vars, aborted' = "no",
                    NEW x \in Conns, NEW d \in {"SEND", "RECV"}, Busy(x, d)'
             PROVE  \E w \in Workers : Job(x, d) \in UnderWay(w)'
  BY DEF Present
<1>0. TypeOK /\ conn \in [Conns -> ConnType] /\ x # NoConn
  BY NullAssumption DEF JobInv, TypeOK
<1>1. ASSUME aborted = "no", Busy(x, d), \A w \in Workers : Job(x, d) \in UnderWay(w) => Job(x, d) \in UnderWay(w)'
      PROVE  \E w \in Workers : Job(x, d) \in UnderWay(w)'
  BY <1>1 DEF Present
<1>2. ASSUME UNCHANGED <<workQ, exec, resQ>>, NEW w \in Workers PROVE UnderWay(w)' = UnderWay(w)
  BY <1>2 DEF UnderWay, WorkJobs, ExecJobs, ResJobs
<1>3. ASSUME conn'[x].send = conn[x].send, conn'[x].recv = conn[x].recv, parsing'.c = parsing.c
      PROVE  Busy(x, d)
  BY <1>3 DEF Busy
<1>4. CASE Quiet
  BY <1>1, <1>2, <1>3, <1>4 DEF Quiet
<1>5. ASSUME NEW c \in Conns, Establish(c) PROVE \E w \in Workers : Job(x, d) \in UnderWay(w)'
  <2>1. UNCHANGED <<workQ, exec, resQ, parsing, aborted>>
    BY <1>5 DEF Establish
  <2>2. PICK u : conn' = [conn EXCEPT ![c] = NewConn(u)]
    BY <1>5 DEF Establish
  <2>3. x = c => conn'[x] = NewConn(u)
    BY <1>0, <2>2
  <2>4. x # c
    BY <2>3 DEF Busy, NewConn, SendBusy, RecvBusy
  <2>5. conn'[x] = conn[x]
    BY <1>0, <2>2, <2>4
  <2>6. QED
    BY <1>1, <1>2, <1>3, <2>1, <2>5
<1>6. ASSUME NEW c \in Conns, EventStep(c) PROVE \E w \in Workers : Job(x, d) \in UnderWay(w)'
  BY <1>6, EventPresent
<1>7. ASSUME NEW c \in Conns, ParseBegins(c) PROVE \E w \in Workers : Job(x, d) \in UnderWay(w)'
  <2>1. /\ UNCHANGED <<workQ, exec, aborted>> /\ ResultsBut({Job(c, "RECV")})
        /\ conn'[x].send = conn[x].send /\ conn'[x].recv = conn[x].recv
        /\ parsing.c = NoConn /\ parsing'.c = c
    BY <1>7 DEF ParseBegins
  <2>2. Busy(x, d) /\ (d = "SEND" \/ x # c)
    BY <1>0, <2>1 DEF Busy
  <2>3. Job(x, d) # Job(c, "RECV")
    BY <2>2 DEF Job
  <2>4. ASSUME NEW w \in Workers, Job(x, d) \in UnderWay(w) PROVE Job(x, d) \in UnderWay(w)'
    BY <2>1, <2>3, <2>4 DEF UnderWay, WorkJobs, ExecJobs, ResultsBut
  <2>5. QED
    BY <1>1, <2>1, <2>2, <2>4
<1>8. ASSUME NEW w \in Workers, ThreadProc(w) PROVE \E v \in Workers : Job(x, d) \in UnderWay(v)'
  <2>1. UNCHANGED <<conn, parsing, aborted>>
    BY <1>8 DEF ThreadProc
  <2>2. QED
    BY <1>0, <1>1, <1>3, <1>8, <2>1, TakenIsExecuted
<1>9. ASSUME NEW w \in Workers, DoRequest(w) PROVE \E v \in Workers : Job(x, d) \in UnderWay(v)'
  <2>1. /\ conn'[x].send = conn[x].send /\ conn'[x].recv = conn[x].recv
        /\ parsing' = parsing
    BY <1>0, <1>9, DoRequestEffect DEF DoRequest
  <2>2. aborted = "no"
    BY <1>9 DEF Next, Running, Halted, vars
  <2>3. QED
    BY <1>0, <1>1, <1>3, <1>9, <2>1, <2>2, ExecutedIsAnswered
<1>10. ASSUME NEW c \in Conns, EstablishNoSlot(c) PROVE FALSE
  BY <1>10 DEF EstablishNoSlot
<1>11. QED
  BY <1>4, <1>5, <1>6, <1>7, <1>8, <1>9, <1>10, StepKinds

(* All requests of a connection are at its worker.                         *)
LEMMA OneWorker ==
  ASSUME JobInv, NEW c \in Conns, NEW d \in {"SEND", "RECV"}, NEW w \in Workers,
         Job(c, d) \in UnderWay(w), NEW v \in Workers, Job(c, d) \in UnderWay(v)
  PROVE  v = w
<1>1. Valid(Job(c, d), w) /\ Valid(Job(c, d), v)
  BY DEF JobInv, AllValid, UnderWay
<1>2. QED
  BY <1>1 DEF Valid

LEMMA WaitingOnce ==
  ASSUME JobInv, Slots, NEW c \in Conns, NEW d \in {"SEND", "RECV"}, NEW w \in Workers,
         Job(c, d) \in WorkJobs(w)
  PROVE  \E y : Waiting(c, d) = {y}
<1>1. PICK i \in 1 .. Len(workQ[w]) : workQ[w][i] = Job(c, d)
  BY DEF WorkJobs
<1>2. /\ Len(workQ[w]) \in Nat /\ Len(workQ[w]) <= QueueSize /\ QueueSize \in Nat
      /\ \A v \in Workers : Len(workQ[v]) \in Nat
  BY WorkFits, SizeAssumption DEF QueueSize
<1>3. <<w, i>> \in Waiting(c, d)
  BY <1>1, <1>2 DEF Waiting
<1>4. ASSUME NEW v \in Workers, NEW j \in 1 .. QueueSize, j <= Len(workQ[v]), workQ[v][j] = Job(c, d)
      PROVE  v = w /\ j = i
  <2>1. j \in 1 .. Len(workQ[v])
    BY <1>2, <1>4
  <2>2. Job(c, d) \in UnderWay(v) /\ Job(c, d) \in UnderWay(w)
    BY <1>4, <2>1 DEF WorkJobs, UnderWay
  <2>3. v = w
    BY <2>2, OneWorker
  <2>4. QED
    BY <1>1, <1>4, <2>1, <2>3 DEF JobInv, NoTwinJobs
<1>5. Waiting(c, d) \subseteq {<<w, i>>}
  BY <1>4 DEF Waiting
<1>6. QED
  BY <1>3, <1>5

LEMMA AnsweredOnce ==
  ASSUME JobInv, Slots, NEW c \in Conns, NEW d \in {"SEND", "RECV"}, NEW w \in Workers,
         Job(c, d) \in ResJobs(w)
  PROVE  \E y : Answered(c, d) = {y}
<1>0. \A x : Tok(x) = Job(c, d) <=> x.connection = c /\ Direction(x.evt) = d
  <2>1. \A a, b : Job(a, b) = Job(c, d) <=> a = c /\ b = d
    <3>1. \A a, b : Job(a, b).connection = a /\ Job(a, b).evt = b
      BY DEF Job
    <3>2. QED
      BY <3>1
  <2>2. QED
    BY <2>1 DEF Tok
<1>1. PICK i \in 1 .. Len(resQ[w]) : Tok(resQ[w][i]) = Job(c, d)
  BY DEF ResJobs
<1>2. /\ Len(resQ[w]) \in Nat /\ Len(resQ[w]) <= QueueSize /\ QueueSize \in Nat
      /\ \A v \in Workers : Len(resQ[v]) \in Nat
  BY ResultsFit, SizeAssumption DEF QueueSize
<1>3. <<w, i>> \in Answered(c, d)
  BY <1>0, <1>1, <1>2 DEF Answered
<1>4. ASSUME NEW v \in Workers, NEW j \in 1 .. QueueSize, j <= Len(resQ[v]), Tok(resQ[v][j]) = Job(c, d)
      PROVE  v = w /\ j = i
  <2>1. j \in 1 .. Len(resQ[v])
    BY <1>2, <1>4
  <2>2. Job(c, d) \in UnderWay(v) /\ Job(c, d) \in UnderWay(w)
    BY <1>4, <2>1 DEF ResJobs, UnderWay
  <2>3. v = w
    BY <2>2, OneWorker
  <2>4. QED
    BY <1>1, <1>4, <2>1, <2>3 DEF JobInv, NoTwinJobs
<1>5. Answered(c, d) \subseteq {<<w, i>>}
  BY <1>0, <1>4 DEF Answered
<1>6. QED
  BY <1>3, <1>5

LEMMA ExecutedOnce ==
  ASSUME JobInv, NEW c \in Conns, NEW d \in {"SEND", "RECV"}, NEW w \in Workers,
         Job(c, d) \in ExecJobs(w)
  PROVE  \E y : Executed(c, d) = {y}
<1>1. Job(c, d) # NoJob
  BY DEF ExecJobs
<1>2. \A v \in Workers : exec[v] = Job(c, d) => Job(c, d) \in UnderWay(v)
  BY <1>1 DEF ExecJobs, UnderWay
<1>3. Job(c, d) \in UnderWay(w) /\ exec[w] = Job(c, d)
  BY DEF ExecJobs, UnderWay
<1>4. Executed(c, d) = {w}
  BY <1>2, <1>3, OneWorker DEF Executed
<1>5. QED
  BY <1>4

(* What is at one place is at no other.                                    *)
LEMMA OnePlace ==
  ASSUME JobInv, NEW c \in Conns, NEW d \in {"SEND", "RECV"}, NEW w \in Workers,
         Job(c, d) \in UnderWay(w)
  PROVE  /\ Job(c, d) \in WorkJobs(w) => Executed(c, d) = {} /\ Answered(c, d) = {}
         /\ Job(c, d) \in ExecJobs(w) => Waiting(c, d) = {} /\ Answered(c, d) = {}
         /\ Job(c, d) \in ResJobs(w) => Waiting(c, d) = {} /\ Executed(c, d) = {}
<1>1. PICK x : x = Job(c, d)
  OBVIOUS
<1>2. \A v \in Workers : x \in UnderWay(v) => v = w
  BY <1>1, OneWorker
<1>3. /\ x \in WorkJobs(w) => x \notin ExecJobs(w) /\ x \notin ResJobs(w)
      /\ x \in ExecJobs(w) => x \notin ResJobs(w)
  BY DEF JobInv, NoTwinJobs
<1>4. \A v \in Workers : x \in WorkJobs(v) \/ x \in ExecJobs(v) \/ x \in ResJobs(v) => v = w
  BY <1>2 DEF UnderWay
<1>5. QED
  BY <1>1, <1>3, <1>4, NotThere

(* At every time, a machine that waits for a worker has exactly one        *)
(* request on its way, and one that does not has none.                     *)
THEOREM OneRequestEach == Spec => []OneJobWhileBusy
<1>1. Init => Present
  BY DEF Init, Present, Busy, NewConn, SendBusy, RecvBusy
<1>2. JobInv /\ Slots /\ Present => OneJobWhileBusy
  <2> SUFFICES ASSUME JobInv, Slots, Present, aborted = "no", NEW c \in Conns, NEW d \in {"SEND", "RECV"}
               PROVE  Cardinality(Waiting(c, d)) + Cardinality(Executed(c, d)) + Cardinality(Answered(c, d))
                        = IF Busy(c, d) THEN 1 ELSE 0
    BY DEF OneJobWhileBusy
  <2>1. PICK A : A = Waiting(c, d)
    OBVIOUS
  <2>2. PICK B : B = Executed(c, d)
    OBVIOUS
  <2>3. PICK C : C = Answered(c, d)
    OBVIOUS
  <2>4. Cardinality({}) = 0 /\ \A y : Cardinality({y}) = 1
    BY FS_EmptySet, FS_Singleton
  <2>5. CASE ~Busy(c, d)
    <3>1. \A w \in Workers : Job(c, d) \notin UnderWay(w)
      BY <2>5 DEF JobInv, AllValid, Valid, Job, UnderWay
    <3>2. A = {} /\ B = {} /\ C = {}
      BY <2>1, <2>2, <2>3, <3>1, NotThere DEF UnderWay
    <3>3. Cardinality(A) + Cardinality(B) + Cardinality(C) = 0
      BY <2>4, <3>2
    <3>4. QED
      BY <2>1, <2>2, <2>3, <2>5, <3>3
  <2>6. CASE Busy(c, d)
    <3>1. PICK w \in Workers : Job(c, d) \in UnderWay(w)
      BY <2>6 DEF Present
    <3>2. \/ (\E y : A = {y}) /\ B = {} /\ C = {}
          \/ A = {} /\ (\E y : B = {y}) /\ C = {}
          \/ A = {} /\ B = {} /\ \E y : C = {y}
      <4>1. CASE Job(c, d) \in WorkJobs(w)
        BY <2>1, <2>2, <2>3, <3>1, <4>1, WaitingOnce, OnePlace
      <4>2. CASE Job(c, d) \in ExecJobs(w)
        BY <2>1, <2>2, <2>3, <3>1, <4>2, ExecutedOnce, OnePlace
      <4>3. CASE Job(c, d) \in ResJobs(w)
        BY <2>1, <2>2, <2>3, <3>1, <4>3, AnsweredOnce, OnePlace
      <4>4. QED
        BY <3>1, <4>1, <4>2, <4>3 DEF UnderWay
    <3>3. Cardinality(A) + Cardinality(B) + Cardinality(C) = 1
      <4>1. \A S : (\E y : S = {y}) => Cardinality(S) = 1
        BY <2>4, Zenon
      <4>2. PICK a : a = Cardinality(A)
        OBVIOUS
      <4>3. PICK b : b = Cardinality(B)
        OBVIOUS
      <4>4. PICK k : k = Cardinality(C)
        OBVIOUS
      <4>5. (a = 1 /\ b = 0 /\ k = 0) \/ (a = 0 /\ b = 1 /\ k = 0) \/ (a = 0 /\ b = 0 /\ k = 1)
        BY <2>4, <3>2, <4>1, <4>2, <4>3, <4>4, Zenon
      <4>6. a + b + k = 1
        BY <4>5
      <4>7. QED
        BY <4>2, <4>3, <4>4, <4>6
    <3>4. QED
      BY <2>1, <2>2, <2>3, <2>6, <3>3
  <2>7. QED
    BY <2>5, <2>6
<1>3. QueueInv => Slots
  BY DEF QueueInv
<1>4. QED
  BY <1>1, <1>2, <1>3, PresentInductive, JobInvHolds, QueueInvHolds, PTL DEF Spec

-----------------------------------------------------------------------------
(* Incoming bytes.                                                         *)

(* p holds the bytes of a stream of n after the first d.                   *)
InStream(p, d, n) == d <= n /\ p = Bytes(d, n - d)

(* The peer sends the next byte.                                           *)
LEMMA InGrows ==
  ASSUME NEW p \in Seq(Nat), NEW d \in Nat, NEW n \in Nat, InStream(p, d, n)
  PROVE  InStream(Append(p, n + 1), d, n + 1)
<1>1. PICK m \in Nat : m = n - d
  BY DEF InStream
<1>2. Len(p) = m /\ \A i \in 1 .. m : p[i] = d + i
  BY <1>1, BytesAt DEF InStream
<1>3. PICK e \in Nat : e = n + 1
  OBVIOUS
<1>4. PICK q \in Seq(Nat) : q = Append(p, e)
  BY AppendProperties
<1>5. Len(q) = m + 1 /\ q[m + 1] = e /\ \A i \in 1 .. m : q[i] = p[i]
  BY <1>2, <1>4, AppendProperties
<1>6. q = Bytes(d, m + 1)
  <2>1. ASSUME NEW i \in 1 .. m + 1 PROVE q[i] = d + i
    <3>1. CASE i = m + 1
      <4>1. d + i = e
        BY <1>1, <1>3, <3>1
      <4>2. QED
        BY <1>5, <3>1, <4>1
    <3>2. CASE i # m + 1
      <4>1. i \in 1 .. m
        BY <3>2
      <4>2. QED
        BY <1>2, <1>5, <4>1
    <3>3. QED
      BY <3>1, <3>2
  <2>2. m + 1 \in Nat
    OBVIOUS
  <2>3. QED
    BY <1>5, <2>1, <2>2, IsBytes
<1>7. d <= n + 1 /\ (n + 1) - d = m + 1
  BY <1>1 DEF InStream
<1>8. QED
  BY <1>3, <1>4, <1>6, <1>7 DEF InStream

(* A packet of k bytes is consumed.                                        *)
LEMMA InDrops ==
  ASSUME NEW S, NEW p \in Seq(S), NEW k \in 0 .. Len(p)
  PROVE  \A d \in Nat, n \in Nat : InStream(p, d, n) =>
           InStream(SubSeq(p, k + 1, Len(p)), d + k, n)
<1>1. PICK l \in Nat : l = Len(p)
  BY LenProperties
<1>2. k \in Nat /\ k <= l /\ l - k \in Nat
  BY <1>1
<1>3. PICK q \in Seq(S) : q = SubSeq(p, k + 1, l)
  BY <1>1, <1>2, SuffixType
<1>4. Len(q) = l - k /\ \A i \in 1 .. l - k : q[i] = p[k + i]
  <2>1. \A i \in 1 .. l : p[i] \in S
    BY <1>1, ElementOfSeq
  <2>2. \A i \in k + 1 .. l : p[i] \in S
    BY <1>2, <2>1
  <2>3. /\ Len(q) = IF k + 1 <= l THEN l - (k + 1) + 1 ELSE 0
        /\ \A i \in 1 .. l - (k + 1) + 1 : q[i] = p[(k + 1) + i - 1]
    BY <1>2, <1>3, <2>2, SubSeqProperties
  <2>4. l - (k + 1) + 1 = l - k /\ \A i \in 1 .. l - k : (k + 1) + i - 1 = k + i
    BY <1>2
  <2>5. QED
    BY <1>2, <2>3, <2>4
<1>5. ASSUME NEW d \in Nat, NEW n \in Nat, InStream(p, d, n)
      PROVE  InStream(q, d + k, n)
  <2>1. PICK m \in Nat : m = n - d
    BY <1>5 DEF InStream
  <2>2. l = m /\ \A i \in 1 .. m : p[i] = d + i
    <3>1. p = Bytes(d, m)
      BY <1>5, <2>1, Zenon DEF InStream
    <3>2. QED
      BY <1>1, <3>1, BytesAt
  <2>3. ASSUME NEW i \in 1 .. l - k PROVE q[i] = (d + k) + i
    <3>1. k + i \in 1 .. m
      BY <1>2, <2>2
    <3>2. QED
      BY <1>2, <1>4, <2>2, <3>1
  <2>4. q = Bytes(d + k, l - k)
    <3>1. d + k \in Nat
      BY <1>2
    <3>2. QED
      BY <1>2, <1>4, <2>3, <3>1, IsBytes
  <2>5. d + k <= n /\ n - (d + k) = l - k
    BY <1>2, <2>1, <2>2
  <2>6. QED
    BY <2>4, <2>5 DEF InStream
<1>6. QED
  BY <1>1, <1>3, <1>5

(* What is dropped of the first part is dropped of the whole.              *)
LEMMA SuffixConcat ==
  ASSUME NEW S, NEW a \in Seq(S), NEW b \in Seq(S), NEW k \in 0 .. Len(a)
  PROVE  /\ SubSeq(a \o b, k + 1, Len(a \o b)) = SubSeq(a, k + 1, Len(a)) \o b
         /\ k <= Len(a \o b)
<1>1. PICK l \in Nat, m \in Nat : l = Len(a) /\ m = Len(b)
  BY LenProperties
<1>2. k \in Nat /\ k <= l /\ l - k \in Nat
  BY <1>1
<1>3. PICK y \in Seq(S) : y = a \o b
  BY ConcatProperties
<1>4. Len(y) = l + m /\ \A i \in 1 .. l + m : y[i] = IF i <= l THEN a[i] ELSE b[i - l]
  BY <1>1, <1>3, ConcatProperties
<1>5. ASSUME NEW s \in Seq(S), NEW n \in Nat, Len(s) = n, k <= n
      PROVE  /\ SubSeq(s, k + 1, n) \in Seq(S) /\ Len(SubSeq(s, k + 1, n)) = n - k
             /\ \A i \in 1 .. n - k : SubSeq(s, k + 1, n)[i] = s[k + i]
  <2>1. \A i \in 1 .. n : s[i] \in S
    BY <1>5, ElementOfSeq
  <2>2. \A i \in k + 1 .. n : s[i] \in S
    BY <1>2, <2>1
  <2>3. PICK q \in Seq(S) : q = SubSeq(s, k + 1, n)
    BY <1>2, <1>5, SuffixType
  <2>4. /\ Len(q) = IF k + 1 <= n THEN n - (k + 1) + 1 ELSE 0
        /\ \A i \in 1 .. n - (k + 1) + 1 : q[i] = s[(k + 1) + i - 1]
    BY <1>2, <2>2, <2>3, SubSeqProperties
  <2>5. n - (k + 1) + 1 = n - k /\ \A i \in 1 .. n - k : (k + 1) + i - 1 = k + i
    BY <1>2
  <2>6. QED
    BY <1>2, <1>5, <2>3, <2>4, <2>5
<1>6. PICK u \in Seq(S) : u = SubSeq(a, k + 1, l) /\ Len(u) = l - k /\ \A i \in 1 .. l - k : u[i] = a[k + i]
  BY <1>1, <1>2, <1>5
<1>7. PICK n \in Nat, j \in Nat : n = l + m /\ j = l - k /\ n - k = j + m /\ k <= n
  BY <1>2
<1>8. PICK v \in Seq(S) : /\ v = SubSeq(y, k + 1, n) /\ Len(v) = j + m
                          /\ \A i \in 1 .. j + m : v[i] = y[k + i]
  <2>1. /\ SubSeq(y, k + 1, n) \in Seq(S) /\ Len(SubSeq(y, k + 1, n)) = n - k
        /\ \A i \in 1 .. n - k : SubSeq(y, k + 1, n)[i] = y[k + i]
    BY <1>4, <1>5, <1>7
  <2>2. QED
    BY <1>7, <2>1
<1>9. PICK w \in Seq(S) : w = u \o b
  BY ConcatProperties
<1>10. Len(w) = j + m /\ \A i \in 1 .. j + m : w[i] = IF i <= j THEN u[i] ELSE b[i - j]
  <2>1. Len(u) = j /\ Len(b) = m
    BY <1>1, <1>6, <1>7
  <2>2. QED
    BY <1>9, <2>1, ConcatProperties
<1>11. ASSUME NEW i \in 1 .. j + m PROVE v[i] = w[i]
  <2>1. k + i \in 1 .. l + m
    BY <1>2, <1>7
  <2>2. CASE i <= j
    <3>1. i \in 1 .. l - k /\ k + i <= l
      BY <1>2, <1>7, <2>2
    <3>2. QED
      BY <1>4, <1>6, <1>8, <1>10, <2>1, <2>2, <3>1
  <2>3. CASE ~(i <= j)
    <3>1. ~(k + i <= l) /\ (k + i) - l = i - j
      BY <1>2, <1>7, <2>3
    <3>2. QED
      BY <1>4, <1>8, <1>10, <2>1, <2>3, <3>1
  <2>4. QED
    BY <2>2, <2>3
<1>12. v = w
  BY <1>8, <1>10, <1>11, SeqEqual
<1>13. QED
  BY <1>1, <1>3, <1>4, <1>6, <1>7, <1>8, <1>9, <1>12

(* Dropping twice.                                                         *)
LEMMA DropTwice ==
  ASSUME NEW S, NEW s \in Seq(S), NEW k \in Nat
  PROVE  \A r \in Seq(S), n \in Nat \ {0} : r = SubSeq(s, k + 1, Len(s)) /\ n <= Len(r) =>
           SubSeq(s, (k + n) + 1, Len(s)) = SubSeq(r, n + 1, Len(r))
<1>1. ASSUME NEW r \in Seq(S), NEW n \in Nat \ {0}, r = SubSeq(s, k + 1, Len(s)), n <= Len(r)
      PROVE  SubSeq(s, (k + n) + 1, Len(s)) = SubSeq(r, n + 1, Len(r))
  <2>1. Len(s) \in Nat /\ Len(r) \in Nat /\ \A i \in 1 .. Len(s) : s[i] \in S
    BY LenProperties, ElementOfSeq
  <2>2. \A j \in Nat : \A i \in j + 1 .. Len(s) : s[i] \in S
    BY <2>1
  <2>3. /\ Len(r) = IF k + 1 <= Len(s) THEN Len(s) - (k + 1) + 1 ELSE 0
        /\ \A i \in 1 .. Len(s) - (k + 1) + 1 : r[i] = s[k + 1 + i - 1]
    BY <1>1, <2>1, <2>2, SubSeqProperties
  <2>4. k + 1 <= Len(s) /\ Len(r) = Len(s) - k /\ n <= Len(r)
    BY <1>1, <2>1, <2>3
  <2>5. PICK p \in Seq(S) : p = SubSeq(s, (k + n) + 1, Len(s))
    <3>1. k + n \in Nat
      OBVIOUS
    <3>2. QED
      BY <3>1, SuffixType
  <2>6. PICK q \in Seq(S) : q = SubSeq(r, n + 1, Len(r))
    BY SuffixType
  <2>7. PICK m \in Nat : m = Len(r) - n
    <3>1. PICK l \in Nat : l = Len(r)
      BY <2>1
    <3>2. n <= l
      BY <2>4, <3>1
    <3>3. l - n \in Nat
      BY <3>2
    <3>4. QED
      BY <3>1, <3>3
  <2>8. Len(p) = m /\ \A i \in 1 .. m : p[i] = s[k + n + i]
    <3>1. PICK a \in Nat : a = k + n
      OBVIOUS
    <3>2. /\ Len(p) = IF a + 1 <= Len(s) THEN Len(s) - (a + 1) + 1 ELSE 0
          /\ \A i \in 1 .. Len(s) - (a + 1) + 1 : p[i] = s[a + 1 + i - 1]
      BY <2>1, <2>2, <2>5, <3>1, SubSeqProperties
    <3>3. Len(s) - (a + 1) + 1 = m
      BY <2>1, <2>4, <2>7, <3>1
    <3>4. Len(p) = m
      BY <2>1, <3>1, <3>2, <3>3
    <3>5. ASSUME NEW i \in 1 .. m PROVE p[i] = s[k + n + i]
      <4>1. p[i] = s[a + 1 + i - 1]
        BY <3>2, <3>3
      <4>2. a + 1 + i - 1 = k + n + i
        BY <3>1
      <4>3. QED
        BY <4>1, <4>2
    <3>6. QED
      BY <3>4, <3>5
  <2>9. Len(q) = m /\ \A i \in 1 .. m : q[i] = s[k + n + i]
    <3>1. \A i \in n + 1 .. Len(r) : r[i] \in S
      BY <2>1, ElementOfSeq
    <3>2. /\ Len(q) = IF n + 1 <= Len(r) THEN Len(r) - (n + 1) + 1 ELSE 0
          /\ \A i \in 1 .. Len(r) - (n + 1) + 1 : q[i] = r[n + 1 + i - 1]
      BY <2>1, <2>6, <3>1, SubSeqProperties
    <3>3. Len(q) = m
      <4>1. PICK l \in Nat : l = Len(r)
        BY <2>1
      <4>2. m = l - n /\ n <= l /\ Len(q) = IF n + 1 <= l THEN l - (n + 1) + 1 ELSE 0
        BY <2>4, <2>7, <3>2, <4>1
      <4>3. QED
        BY <4>2
    <3>4. ASSUME NEW i \in 1 .. m PROVE q[i] = s[k + n + i]
      <4>1. i \in 1 .. Len(r) - (n + 1) + 1 /\ n + 1 + i - 1 = n + i /\ n + i \in 1 .. Len(s) - (k + 1) + 1
        BY <2>1, <2>4, <2>7
      <4>2. q[i] = r[n + i]
        BY <3>2, <4>1
      <4>3. r[n + i] = s[k + 1 + (n + i) - 1] /\ k + 1 + (n + i) - 1 = k + n + i
        BY <2>3, <4>1
      <4>4. QED
        BY <4>2, <4>3
    <3>5. QED
      BY <3>3, <3>4
  <2>10. p = q
    BY <2>8, <2>9, SeqEqual
  <2>11. QED
    BY <2>5, <2>6, <2>10
<1>2. QED
  BY <1>1

(* The rest of s after k bytes, then b and i.                              *)
InPipe(s, k, b, i) == (SubSeq(s, k + 1, Len(s)) \o b) \o i

LEMMA WholeSuffix ==
  ASSUME NEW S, NEW s \in Seq(S) PROVE SubSeq(s, 0 + 1, Len(s)) = s
<1>1. SubSeq(s, 1, Len(s)) = s
  BY SubSeqFull
<1>2. 0 + 1 = 1
  OBVIOUS
<1>3. QED
  BY <1>1, <1>2

LEMMA InPipeType ==
  ASSUME NEW S, NEW s \in Seq(S), NEW k \in Nat, NEW b \in Seq(S), NEW i \in Seq(S)
  PROVE  InPipe(s, k, b, i) \in Seq(S)
<1>1. PICK r \in Seq(S) : r = SubSeq(s, k + 1, Len(s))
  BY SuffixType
<1>2. PICK t \in Seq(S) : t = r \o b
  BY ConcatProperties
<1>3. t \o i \in Seq(S)
  BY ConcatProperties
<1>4. QED
  BY <1>1, <1>2, <1>3 DEF InPipe

(* ProcessPacket appends what was read.                                    *)
LEMMA InTakes ==
  ASSUME NEW S, NEW s \in Seq(S), NEW b \in Seq(S), NEW i \in Seq(S)
  PROVE  InPipe(s \o b, 0, <<>>, i) = InPipe(s, 0, b, i)
<1>1. PICK t \in Seq(S) : t = s \o b
  BY ConcatProperties
<1>2. SubSeq(s, 0 + 1, Len(s)) = s /\ SubSeq(t, 0 + 1, Len(t)) = t
  BY WholeSuffix
<1>3. t \o <<>> = t
  BY ConcatEmptySeq
<1>4. InPipe(t, 0, <<>>, i) = t \o i /\ InPipe(s, 0, b, i) = (s \o b) \o i
  BY <1>2, <1>3, Zenon DEF InPipe
<1>5. QED
  BY <1>1, <1>4

(* A read takes the first bytes the kernel holds.                          *)
LEMMA InReads ==
  ASSUME NEW S, NEW s \in Seq(S), NEW u \in Seq(S), NEW v \in Seq(S)
  PROVE  InPipe(s, 0, u, v) = InPipe(s, 0, <<>>, u \o v)
<1>1. SubSeq(s, 0 + 1, Len(s)) = s
  BY WholeSuffix
<1>2. s \o <<>> = s
  BY ConcatEmptySeq
<1>3. (s \o u) \o v = s \o (u \o v)
  BY ConcatAssociative, SMTT(60)
<1>4. QED
  BY <1>1, <1>2, <1>3, Zenon DEF InPipe

(* A byte arrives.                                                         *)
LEMMA ConcatAppend ==
  ASSUME NEW S, NEW t \in Seq(S), NEW i \in Seq(S), NEW e \in S
  PROVE  t \o Append(i, e) = Append(t \o i, e)
<1>1. PICK z \in Seq(S) : z = <<e>>
  <2>1. <<e>> \in Seq(S)
    OBVIOUS
  <2>2. QED
    BY <2>1, Zenon
<1>2. Append(i, e) = i \o z
  BY <1>1, AppendIsConcat
<1>3. PICK x \in Seq(S) : x = t \o i
  BY ConcatProperties
<1>4. Append(x, e) = x \o z
  BY <1>1, AppendIsConcat
<1>5. (t \o i) \o z = t \o (i \o z)
  BY ConcatAssociative, SMTT(60)
<1>6. QED
  BY <1>2, <1>3, <1>4, <1>5

(* What is left of s after k bytes.                                        *)
Suffix(s, k) == SubSeq(s, k + 1, Len(s))

(* A packet of n bytes is delivered.                                       *)
LEMMA InDelivers ==
  ASSUME NEW S, NEW b \in Seq(S), NEW i \in Seq(S), NEW s \in Seq(S), NEW k \in Nat,
         NEW n \in Nat \ {0}, NEW l \in Nat, l = k + n,
         NEW r \in Seq(S), r = Suffix(s, k), n <= Len(r),
         NEW p, p = InPipe(s, k, b, i), NEW q, q = InPipe(s, l, b, i)
  PROVE  q = Suffix(p, n) /\ n <= Len(p)
<1>0. \A x \in Seq(S) : (x \o b) \o i = x \o (b \o i)
  BY ConcatAssociative, SMTT(60)
<1>1. PICK y \in Seq(S) : y = b \o i
  BY ConcatProperties
<1>2. PICK t \in Seq(S) : t = SubSeq(r, n + 1, Len(r))
  BY SuffixType
<1>3. SubSeq(s, l + 1, Len(s)) = t
  BY <1>2, DropTwice DEF Suffix
<1>4. p = r \o y
  BY <1>0, <1>1, Zenon DEF InPipe, Suffix
<1>5. q = t \o y
  BY <1>0, <1>1, <1>2, <1>3, Zenon DEF InPipe
<1>6. n \in 0 .. Len(r)
  BY LenProperties
<1>7. SubSeq(r \o y, n + 1, Len(r \o y)) = SubSeq(r, n + 1, Len(r)) \o y /\ n <= Len(r \o y)
  BY <1>6, SuffixConcat
<1>8. QED
  BY <1>2, <1>4, <1>5, <1>7, Zenon DEF Suffix

(* An end of stream or an error has been read.                             *)
Ended(c) == Got(c, "RECV_ERROR") \/ Got(c, "RECV_CLOSE")

(* Where the unparsed bytes of c begin.                                    *)
Pos(c) == IF parsing.c = c THEN parsing.pos ELSE 0

Pipe(c) == InPipe(conn[c].rUsing, Pos(c), conn[c].rWorking, sock[c].in)

Incoming(c) ==
  conn[c].recv # "RecvClose" /\ ~Ended(c) => InStream(Pipe(c), conn[c].delivered, sock[c].sent)

LEMMA PosStays ==
  ASSUME NEW c, ParseSame(c) PROVE Pos(c)' = Pos(c)
  BY DEF ParseSame, Pos

LEMMA EndedStays ==
  ASSUME NEW c, NEW E, GotBut(c, E), E \cap {"RECV_ERROR", "RECV_CLOSE"} = {}
  PROVE  Ended(c)' <=> Ended(c)
<1>1. "RECV_ERROR" \in Results /\ "RECV_CLOSE" \in Results
  BY DEF Results, RecvResults
<1>2. "RECV_ERROR" \notin E /\ "RECV_CLOSE" \notin E
  OBVIOUS
<1>3. QED
  BY <1>1, <1>2 DEF Ended, GotBut

LEMMA EndedAnswers ==
  ASSUME NEW c, NEW e, Answers(c, e), e \notin {"RECV_ERROR", "RECV_CLOSE"}
  PROVE  Ended(c)' <=> Ended(c)
<1>1. "RECV_ERROR" \in Results \ {e} /\ "RECV_CLOSE" \in Results \ {e}
  BY DEF Results, RecvResults
<1>2. /\ \A x \in Results : Got(c, x) => Got(c, x)'
      /\ \A x \in Results \ {e} : Got(c, x)' => Got(c, x)
  BY DEF Answers
<1>3. QED
  BY <1>1, <1>2 DEF Ended

LEMMA IncomingStays ==
  ASSUME NEW c, Incoming(c), Pos(c)' = Pos(c),
         conn'[c].rUsing = conn[c].rUsing, conn'[c].rWorking = conn[c].rWorking,
         conn'[c].delivered = conn[c].delivered,
         sock'[c].in = sock[c].in, sock'[c].sent = sock[c].sent,
         conn'[c].recv # "RecvClose" /\ ~Ended(c)' => conn[c].recv # "RecvClose" /\ ~Ended(c)
  PROVE  Incoming(c)'
<1>1. Pipe(c)' = Pipe(c)
  BY DEF Pipe
<1>2. QED
  BY <1>1 DEF Incoming

(* The answer of the parser is within the rest.                            *)
LEMMA ParsedFits ==
  ASSUME TypeOK, Parsing, Parsed > 0
  PROVE  Parsed \in Nat \ {0} /\ Parsed <= Len(Rest)
<1>1. PICK r \in Seq(1 .. MaxIn) : r = Rest
  BY RestType
<1>2. PICK n \in Int : n = Parsed
  BY RestType
<1>3. r # <<>>
  BY <1>1 DEF Parsed
<1>4. Head(r) \in 1 .. MaxIn /\ Len(r) \in Nat
  BY <1>3, HeadTailProperties, LenProperties
<1>5. PICK l \in Int : l = PacketLen[Head(r)]
  BY <1>4, PacketAssumption
<1>6. n = IF l > Len(r) THEN 0 ELSE l
  BY <1>1, <1>2, <1>3, <1>5 DEF Parsed, ParsePacket
<1>7. n > 0
  BY <1>2
<1>8. n \in Nat \ {0} /\ n <= Len(r)
  BY <1>4, <1>6, <1>7
<1>9. QED
  BY <1>1, <1>2, <1>8

(* What each kind of step makes of the pipe.                               *)
LEMMA PipeType ==
  ASSUME TypeOK, NEW c \in Conns
  PROVE  Pipe(c) \in Seq(1 .. MaxIn) /\ Pipe(c) \in Seq(Nat)
<1>1. conn[c] \in ConnType /\ sock[c] \in SockType
  BY DEF TypeOK
<1>2. PICK S : S = 1 .. MaxIn
  OBVIOUS
<1>3. PICK s \in Seq(S), b \in Seq(S), i \in Seq(S) :
        s = conn[c].rUsing /\ b = conn[c].rWorking /\ i = sock[c].in
  BY <1>1, <1>2 DEF ConnType, SockType
<1>4. PICK k \in Nat : k = Pos(c)
  BY DEF TypeOK, Pos
<1>5. PICK p \in Seq(S) : p = InPipe(s, k, b, i)
  BY InPipeType
<1>6. \A x \in S : x \in Nat
  BY <1>2
<1>7. p \in Seq(Nat)
  BY <1>6, SeqMonotonic
<1>8. Pipe(c) = p
  BY <1>3, <1>4, <1>5, Zenon DEF Pipe
<1>9. QED
  BY <1>2, <1>5, <1>7, <1>8

LEMMA NewPipe ==
  ASSUME TypeOK', NEW c \in Conns, Renewed(c)
  PROVE  Pipe(c)' = <<>>
<1>1. conn'[c].rUsing = <<>> /\ conn'[c].rWorking = <<>> /\ sock'[c].in = <<>>
  BY NewFields
<1>2. PICK k \in Nat : k = Pos(c)'
  BY DEF TypeOK, Pos
<1>3. PICK e \in Seq(Nat) : e = <<>>
  BY EmptySeq
<1>4. SubSeq(e, k + 1, Len(e)) = e
  BY <1>3, SuffixEmpty
<1>5. e \o e = e
  BY <1>3, ConcatEmptySeq
<1>6. Pipe(c)' = e
  BY <1>1, <1>2, <1>3, <1>4, <1>5 DEF Pipe, InPipe
<1>7. QED
  BY <1>3, <1>6

LEMMA IncomingNew ==
  ASSUME TypeOK', NEW c \in Conns, Renewed(c)
  PROVE  Incoming(c)'
<1>1. conn'[c].delivered = 0 /\ sock'[c].sent = 0
  BY NewFields
<1>2. Pipe(c)' = <<>>
  BY NewPipe
<1>3. <<>> = Bytes(0, 0)
  <2>1. Stream(<<>>, 0, 0, "SendNone") /\ "SendNone" \notin SendClosing /\ 0 - 0 = 0
    BY StreamStarts DEF SendClosing
  <2>2. <<>> = Bytes(0, 0 - 0)
    BY <2>1, Zenon DEF Stream
  <2>3. QED
    BY <2>1, <2>2
<1>4. QED
  BY <1>1, <1>2, <1>3 DEF Incoming, InStream

LEMMA BeganPipe ==
  ASSUME JobInv, NEW c \in Conns, Began(c)
  PROVE  /\ Pipe(c)' = Pipe(c) /\ (Ended(c)' <=> Ended(c))
         /\ sock'[c] = sock[c] /\ conn'[c].recv = conn[c].recv
         /\ conn'[c].delivered = conn[c].delivered
<1>1. conn[c] \in ConnType /\ sock[c] \in SockType
  BY DEF JobInv, TypeOK
<1>2. PICK s \in Seq(1 .. MaxIn), b \in Seq(1 .. MaxIn), i \in Seq(1 .. MaxIn) :
        s = conn[c].rUsing /\ b = conn[c].rWorking /\ i = sock[c].in
  BY <1>1 DEF ConnType, SockType
<1>3. PICK q : q = TakeRead(conn[c])
  OBVIOUS
<1>4. /\ q.rUsing = s \o b /\ q.rWorking = <<>> /\ q.recv = conn[c].recv
      /\ q.delivered = conn[c].delivered
  BY <1>1, <1>2, <1>3, TakeFields
<1>5. conn'[c] = q /\ sock'[c] = sock[c] /\ GotBut(c, {"RECV_DONE"})
  BY <1>3 DEF Began
<1>6. Pos(c) = 0 /\ Pos(c)' = 0
  BY DEF Began, Pos
<1>7. Pipe(c)' = InPipe(s \o b, 0, <<>>, i) /\ Pipe(c) = InPipe(s, 0, b, i)
  BY <1>2, <1>4, <1>5, <1>6, Zenon DEF Pipe
<1>8. Pipe(c)' = Pipe(c)
  BY <1>7, InTakes
<1>9. Ended(c)' <=> Ended(c)
  BY <1>5, EndedStays
<1>10. QED
  BY <1>4, <1>5, <1>8, <1>9

LEMMA IncomingBegan ==
  ASSUME JobInv, NEW c \in Conns, Began(c), Incoming(c)
  PROVE  Incoming(c)'
  BY BeganPipe DEF Incoming

(* The next n bytes are delivered.                                         *)
LEMMA DeliveredPipe ==
  ASSUME JobInv, NEW c \in Conns, Delivered(c)
  PROVE  /\ \E n \in 1 .. Len(Pipe(c)) : /\ Pipe(c)' = Suffix(Pipe(c), n)
                                         /\ conn'[c].delivered = conn[c].delivered + n
         /\ (Ended(c)' <=> Ended(c)) /\ sock'[c] = sock[c]
         /\ conn'[c].recv = conn[c].recv /\ conn[c].recv \in RecvBusy
<1>1. TypeOK /\ conn[c] \in ConnType /\ sock[c] \in SockType
  BY DEF JobInv, TypeOK
<1>2. PICK s \in Seq(1 .. MaxIn), b \in Seq(1 .. MaxIn), i \in Seq(1 .. MaxIn) :
        s = conn[c].rUsing /\ b = conn[c].rWorking /\ i = sock[c].in
  BY <1>1 DEF ConnType, SockType
<1>0. PICK d \in Nat : d = conn[c].delivered
  BY <1>1 DEF ConnType
<1>3. parsing.c = c /\ Parsed > 0 /\ Parsing
  BY NullAssumption DEF Delivered, Parsing
<1>4. PICK n \in Nat \ {0} : n = Parsed
  BY <1>1, <1>3, ParsedFits
<1>5. PICK r \in Seq(1 .. MaxIn) : r = Rest
  BY <1>1, <1>3, RestType
<1>6. PICK k \in Nat : k = parsing.pos
  BY <1>1 DEF TypeOK
<1>7. r = Suffix(s, k) /\ n <= Len(r)
  BY <1>1, <1>2, <1>3, <1>4, <1>5, <1>6, ParsedFits DEF Rest, Suffix
<1>8. Pos(c) = k /\ Pos(c)' = k + n
  BY <1>3, <1>4, <1>6 DEF Delivered, Pos
<1>9. /\ conn'[c] = [conn[c] EXCEPT !.delivered = d + n] /\ sock'[c] = sock[c]
      /\ GotBut(c, {})
  BY <1>0, <1>4 DEF Delivered
<1>10. /\ conn'[c].delivered = d + n /\ conn'[c].recv = conn[c].recv
       /\ conn'[c].rUsing = s /\ conn'[c].rWorking = b
  BY <1>1, <1>2, <1>9 DEF ConnType
<1>11. Ended(c)' <=> Ended(c)
  BY <1>9, EndedStays
<1>12. Pipe(c) = InPipe(s, k, b, i) /\ Pipe(c)' = InPipe(s, k + n, b, i)
  BY <1>2, <1>8, <1>9, <1>10, Zenon DEF Pipe
<1>13. conn[c].recv \in RecvBusy
  BY <1>3 DEF JobInv, ParseGuard
<1>14. PICK p \in Seq(1 .. MaxIn) : p = Pipe(c)
  BY <1>1, PipeType
<1>15. Pipe(c)' = Suffix(p, n) /\ n <= Len(p)
  <2>1. PICK l \in Nat : l = k + n
    OBVIOUS
  <2>2. PICK q : q = InPipe(s, l, b, i)
    OBVIOUS
  <2>3. p = InPipe(s, k, b, i)
    BY <1>12, <1>14
  <2>4. q = Suffix(p, n) /\ n <= Len(p)
    BY <1>7, <2>1, <2>2, <2>3, InDelivers
  <2>5. QED
    BY <1>12, <2>1, <2>2, <2>4, Zenon
<1>16. n \in 1 .. Len(p)
  BY <1>15, LenProperties
<1>17. conn'[c].delivered = conn[c].delivered + n
  BY <1>0, <1>10
<1>18. QED
  BY <1>9, <1>10, <1>11, <1>13, <1>14, <1>15, <1>16, <1>17

LEMMA IncomingDelivered ==
  ASSUME JobInv, NEW c \in Conns, Delivered(c), Incoming(c)
  PROVE  Incoming(c)'
<1>1. TypeOK /\ conn[c] \in ConnType /\ sock[c] \in SockType
  BY DEF JobInv, TypeOK
<1>2. PICK d \in Nat, m \in Nat : d = conn[c].delivered /\ m = sock[c].sent
  <2>1. conn[c].delivered \in Nat
    BY <1>1 DEF ConnType
  <2>2. sock[c].sent \in 0 .. MaxIn
    BY <1>1 DEF SockType
  <2>3. QED
    BY <2>1, <2>2, SizeAssumption
<1>3. PICK p \in Seq(Nat) : p = Pipe(c)
  BY <1>1, PipeType
<1>4. PICK n \in 1 .. Len(p) : /\ Pipe(c)' = Suffix(p, n)
                               /\ conn'[c].delivered = conn[c].delivered + n
  BY <1>3, DeliveredPipe
<1>5. (Ended(c)' <=> Ended(c)) /\ sock'[c] = sock[c] /\ conn'[c].recv = conn[c].recv
  BY DeliveredPipe
<1>6. n \in 0 .. Len(p)
  BY LenProperties
<1>7. InStream(p, d, m) => InStream(Suffix(p, n), d + n, m)
  BY <1>6, InDrops DEF Suffix
<1>8. QED
  BY <1>2, <1>3, <1>4, <1>5, <1>7 DEF Incoming

LEMMA ResumedPipe ==
  ASSUME JobInv, NEW c \in Conns, Resumed(c)
  PROVE  /\ conn'[c].recv = "RecvClose" \/ (conn[c].recv # "RecvClose" /\ Pipe(c)' = Pipe(c))
         /\ (Ended(c)' <=> Ended(c)) /\ sock'[c] = sock[c]
         /\ conn'[c].delivered = conn[c].delivered
<1>1. TypeOK /\ conn[c] \in ConnType
  BY DEF JobInv, TypeOK
<1>2. /\ GotBut(c, {"RECV_DONE"}) /\ Pos(c)' = 0 /\ sock'[c] = sock[c]
      /\ conn'[c].delivered = conn[c].delivered /\ conn'[c].rWorking = conn[c].rWorking
  BY DEF Resumed, Pos
<1>3. Ended(c)' <=> Ended(c)
  BY <1>2, EndedStays
<1>4. ASSUME conn[c].recv # "RecvClose", parsing.c # c, conn'[c].rUsing = conn[c].rUsing
      PROVE  Pipe(c)' = Pipe(c)
  <2>1. Pos(c) = 0
    BY <1>4 DEF Pos
  <2>2. QED
    BY <1>2, <1>4, <2>1 DEF Pipe
<1>5. ASSUME parsing.c = c, conn'[c].rUsing = Rest
      PROVE  conn[c].recv # "RecvClose" /\ Pipe(c)' = Pipe(c)
  <2>1. Parsing /\ conn[c].recv # "RecvClose"
    BY <1>5, NullAssumption DEF Parsing, JobInv, ParseGuard, RecvBusy
  <2>2. PICK r \in Seq(1 .. MaxIn) : r = Rest
    BY <1>1, <2>1, RestType
  <2>3. SubSeq(r, 0 + 1, Len(r)) = r
    BY WholeSuffix
  <2>4. Pipe(c) = (r \o conn[c].rWorking) \o sock[c].in
    BY <1>5, <2>2 DEF Pipe, InPipe, Pos, Rest
  <2>5. Pipe(c)' = (r \o conn[c].rWorking) \o sock[c].in
    BY <1>2, <1>5, <2>2, <2>3, Zenon DEF Pipe, InPipe
  <2>6. QED
    BY <2>1, <2>4, <2>5
<1>6. QED
  BY <1>2, <1>3, <1>4, <1>5 DEF Resumed

LEMMA IncomingResumed ==
  ASSUME JobInv, NEW c \in Conns, Resumed(c), Incoming(c)
  PROVE  Incoming(c)'
  BY ResumedPipe DEF Incoming

(* No event opens a closed pipe.                                           *)
LEMMA MovedPipe ==
  ASSUME JobInv, NEW c \in Conns, NEW e \in NetEvents, Moved(c, e)
  PROVE  /\ conn'[c].recv # "RecvClose" /\ ~Ended(c)' => conn[c].recv # "RecvClose" /\ ~Ended(c)
         /\ Pipe(c)' = Pipe(c) /\ sock'[c] = sock[c]
         /\ conn'[c].delivered = conn[c].delivered
<1>1. conn[c].recv \in RecvStates
  BY DEF JobInv, TypeOK, ConnType
<1>2. /\ GotBut(c, {e}) /\ ParseSame(c) /\ sock'[c] = sock[c]
      /\ conn'[c].delivered = conn[c].delivered
      /\ conn'[c].rWorking = conn[c].rWorking /\ conn'[c].rUsing = conn[c].rUsing
      /\ conn'[c].recv = RecvOn(conn[c].recv, e).to
  BY DEF Moved
<1>3. ASSUME conn'[c].recv # "RecvClose", ~Ended(c)'
      PROVE  conn[c].recv # "RecvClose" /\ ~Ended(c)
  <2>1. conn[c].recv # "RecvClose" /\ e \notin {"RECV_ERROR", "RECV_CLOSE"}
    BY <1>1, <1>2, <1>3, RecvCloses
  <2>2. Ended(c)' <=> Ended(c)
    BY <1>2, <2>1, EndedStays
  <2>3. QED
    BY <1>3, <2>1, <2>2
<1>4. Pos(c)' = Pos(c)
  BY <1>2, PosStays
<1>5. Pipe(c)' = Pipe(c)
  BY <1>2, <1>4 DEF Pipe
<1>6. QED
  BY <1>2, <1>3, <1>5

LEMMA IncomingMoved ==
  ASSUME JobInv, NEW c \in Conns, NEW e \in NetEvents, Moved(c, e), Incoming(c)
  PROVE  Incoming(c)'
  BY MovedPipe DEF Incoming

LEMMA ReadPipe ==
  ASSUME JobInv, NEW c \in Conns, ReadTo(c), aborted' # "queue is full"
  PROVE  /\ Ended(c)' \/ (~Ended(c) /\ Pipe(c)' = Pipe(c))
         /\ sock'[c].sent = sock[c].sent
         /\ conn'[c].recv = conn[c].recv /\ conn'[c].delivered = conn[c].delivered
<1>1. conn[c] \in ConnType /\ sock[c] \in SockType
  BY DEF JobInv, TypeOK
<1>2. /\ conn'[c].recv = conn[c].recv /\ conn'[c].delivered = conn[c].delivered
      /\ sock'[c].sent = sock[c].sent
  BY <1>1 DEF ReadTo, ConnType, SockType
<1>3. CASE Answers(c, "RECV_ERROR") \/ Answers(c, "RECV_CLOSE")
  BY <1>2, <1>3 DEF Answers, Ended
<1>4. ASSUME ~Answers(c, "RECV_ERROR"), ~Answers(c, "RECV_CLOSE")
      PROVE  Pipe(c)' = Pipe(c) /\ (Ended(c)' <=> Ended(c))
  <2>1. PICK s \in Seq(1 .. MaxIn), i \in Seq(1 .. MaxIn) : s = conn[c].rUsing /\ i = sock[c].in
    BY <1>1 DEF ConnType, SockType
  <2>2. PICK k \in 0 .. Len(i) : k = Least(Len(i), RecvSize)
    BY LenProperties, LeastType, SizeAssumption
  <2>3. PICK u \in Seq(1 .. MaxIn), v \in Seq(1 .. MaxIn) :
          u = SubSeq(i, 1, k) /\ v = SubSeq(i, k + 1, Len(i)) /\ u \o v = i
    BY Cut, ZenonT(60)
  <2>4. /\ conn'[c] = [conn[c] EXCEPT !.rWorking = u, !.full = (k = RecvSize)]
        /\ sock'[c] = [sock[c] EXCEPT !.in = v]
        /\ conn[c].rWorking = <<>> /\ Answers(c, "RECV_DONE")
    BY <1>4, <2>1, <2>2, <2>3 DEF ReadTo
  <2>5. conn'[c].rUsing = s /\ conn'[c].rWorking = u
    BY <1>1, <2>1, <2>4 DEF ConnType
  <2>6. sock'[c].in = v
    BY <1>1, <2>4 DEF SockType
  <2>7. Busy(c, "RECV") /\ ParseSame(c)
    BY <2>4 DEF Answers, Direction, SendResults
  <2>8. Pos(c) = 0 /\ Pos(c)' = 0
    BY <2>7 DEF Busy, ParseSame, Pos
  <2>9. Ended(c)' <=> Ended(c)
    BY <2>4, EndedAnswers
  <2>10. Pipe(c) = InPipe(s, 0, <<>>, i) /\ Pipe(c)' = InPipe(s, 0, u, v)
    BY <2>1, <2>4, <2>5, <2>6, <2>8, Zenon DEF Pipe
  <2>11. InPipe(s, 0, u, v) = InPipe(s, 0, <<>>, u \o v)
    BY InReads, ZenonT(40)
  <2>12. QED
    BY <2>3, <2>9, <2>10, <2>11
<1>5. QED
  BY <1>2, <1>3, <1>4

LEMMA IncomingRead ==
  ASSUME JobInv, NEW c \in Conns, ReadTo(c), Incoming(c), aborted' # "queue is full"
  PROVE  Incoming(c)'
  BY ReadPipe DEF Incoming

LEMMA PeerInPipe ==
  ASSUME JobInv, NEW c \in Conns, PeerMoved(c)
  PROVE  /\ conn'[c] = conn[c] /\ (Ended(c)' <=> Ended(c))
         /\ \/ Pipe(c)' = Pipe(c) /\ sock'[c].sent = sock[c].sent
            \/ Pipe(c)' = Append(Pipe(c), sock[c].sent + 1) /\ sock'[c].sent = sock[c].sent + 1
<1>1. conn[c] \in ConnType /\ sock[c] \in SockType
  BY DEF JobInv, TypeOK
<1>2. conn'[c] = conn[c] /\ ParseSame(c) /\ GotBut(c, {})
  BY DEF PeerMoved
<1>3. Pos(c)' = Pos(c) /\ (Ended(c)' <=> Ended(c))
  BY <1>2, PosStays, EndedStays
<1>4. PICK m \in 0 .. MaxIn : m = sock[c].sent
  BY <1>1 DEF SockType
<1>5. PICK S : S = 1 .. MaxIn
  OBVIOUS
<1>6. PICK i \in Seq(S) : i = sock[c].in
  BY <1>1, <1>5 DEF SockType
<1>7. CASE /\ m < MaxIn
           /\ sock'[c] = [sock[c] EXCEPT !.in = Append(i, m + 1), !.sent = m + 1]
  <2>1. PICK e \in S : e = m + 1
    BY <1>5, <1>7, SizeAssumption
  <2>2. sock'[c].in = Append(i, e) /\ sock'[c].sent = m + 1
    BY <1>1, <1>7, <2>1 DEF SockType
  <2>3. PICK s \in Seq(S), b \in Seq(S) : s = conn[c].rUsing /\ b = conn[c].rWorking
    BY <1>1, <1>5 DEF ConnType
  <2>4. PICK k \in Nat : k = Pos(c)
    BY DEF JobInv, TypeOK, Pos
  <2>5. PICK r \in Seq(S) : r = SubSeq(s, k + 1, Len(s))
    BY SuffixType
  <2>6. PICK t \in Seq(S) : t = r \o b
    BY ConcatProperties
  <2>7. \A j : InPipe(s, k, b, j) = t \o j
    BY <2>5, <2>6, Zenon DEF InPipe
  <2>8. Pipe(c) = t \o i
    BY <1>6, <2>3, <2>4, <2>7, Zenon DEF Pipe
  <2>9. Pipe(c)' = t \o Append(i, e)
    BY <1>2, <1>3, <2>2, <2>3, <2>4, <2>7, Zenon DEF Pipe
  <2>10. t \o Append(i, e) = Append(t \o i, e)
    BY ConcatAppend
  <2>11. QED
    BY <1>2, <1>3, <1>4, <2>1, <2>2, <2>8, <2>9, <2>10
<1>8. CASE \/ sock'[c] = [sock[c] EXCEPT !.fin = TRUE]
           \/ \E x \in {"ECONNRESET", "EPIPE"} : sock'[c] = [sock[c] EXCEPT !.err = x]
           \/ sock'[c] = [sock[c] EXCEPT !.out = Tail(sock[c].out), !.drained = sock[c].drained + 1,
                                         !.nospace = FALSE]
  <2>1. sock'[c].in = sock[c].in /\ sock'[c].sent = sock[c].sent
    BY <1>1, <1>8 DEF SockType
  <2>2. QED
    BY <1>2, <1>3, <2>1 DEF Pipe
<1>9. QED
  BY <1>4, <1>6, <1>7, <1>8 DEF PeerMoved

LEMMA IncomingPeer ==
  ASSUME JobInv, NEW c \in Conns, PeerMoved(c), Incoming(c)
  PROVE  Incoming(c)'
<1>1. PICK p \in Seq(Nat) : p = Pipe(c)
  BY PipeType DEF JobInv
<1>2. PICK d \in Nat, m \in Nat : d = conn[c].delivered /\ m = sock[c].sent
  <2>1. conn[c].delivered \in Nat
    BY DEF JobInv, TypeOK, ConnType
  <2>2. sock[c].sent \in 0 .. MaxIn
    BY DEF JobInv, TypeOK, SockType
  <2>3. QED
    BY <2>1, <2>2, SizeAssumption
<1>3. InStream(p, d, m) => InStream(Append(p, m + 1), d, m + 1)
  BY InGrows
<1>4. QED
  BY <1>1, <1>2, <1>3, PeerInPipe DEF Incoming

LEMMA IncomingStep ==
  ASSUME JobInv, TypeOK', NEW c \in Conns, ConnStep(c), Incoming(c), aborted' # "queue is full"
  PROVE  Incoming(c)'
<1>0. TypeOK /\ conn[c] \in ConnType /\ sock[c] \in SockType
  BY DEF JobInv, TypeOK
<1>1. CASE Stays(c)
  <2>1. conn'[c] = conn[c] /\ sock'[c] = sock[c] /\ GotBut(c, {}) /\ ParseSame(c)
    BY <1>1 DEF Stays
  <2>2. Pos(c)' = Pos(c) /\ (Ended(c)' <=> Ended(c))
    BY <2>1, PosStays, EndedStays
  <2>3. QED
    BY <2>1, <2>2, IncomingStays
<1>2. CASE WriteFrom(c)
  <2>1. PICK e \in SendResults : Answers(c, e)
    <3>1. Answers(c, "SEND_ERROR") \/ Answers(c, "SEND_DONE") \/ Answers(c, "SEND_PENDING")
      BY <1>2 DEF WriteFrom
    <3>2. QED
      BY <3>1 DEF SendResults
  <2>2. e \notin {"RECV_ERROR", "RECV_CLOSE"}
    BY DEF SendResults
  <2>3. ParseSame(c) /\ (Ended(c)' <=> Ended(c))
    BY <2>1, <2>2, EndedAnswers DEF Answers
  <2>4. /\ conn'[c].rUsing = conn[c].rUsing /\ conn'[c].rWorking = conn[c].rWorking
        /\ conn'[c].delivered = conn[c].delivered /\ conn'[c].recv = conn[c].recv
    BY <1>0, <1>2 DEF WriteFrom, ConnType
  <2>5. sock'[c].in = sock[c].in /\ sock'[c].sent = sock[c].sent
    BY <1>0, <1>2 DEF WriteFrom, SockType
  <2>6. QED
    BY <2>3, <2>4, <2>5, PosStays, IncomingStays
<1>3. QED
  BY <1>0, <1>1, <1>2, StepMoves, IncomingNew, IncomingMoved, IncomingResumed, IncomingBegan,
     IncomingDelivered, IncomingRead, IncomingPeer

(* What the parser has, what was read and what the kernel holds continue   *)
(* what was delivered, byte by byte, until the end of the stream is read.  *)
THEOREM BytesReceivedInOrder == Spec => []RecvStream
<1> DEFINE IncomingInv == \A c \in Conns : Incoming(c)
<1>1. Init => IncomingInv
  <2> SUFFICES ASSUME Init, NEW c \in Conns PROVE Incoming(c)
    OBVIOUS
  <2>1. /\ conn[c].rUsing = <<>> /\ conn[c].rWorking = <<>> /\ sock[c].in = <<>>
        /\ conn[c].delivered = 0 /\ sock[c].sent = 0 /\ Pos(c) = 0
    BY NullAssumption DEF Init, NewConn, NewSock, NotParsing, Pos
  <2>2. PICK e \in Seq(Nat) : e = <<>>
    BY EmptySeq
  <2>3. SubSeq(e, 0 + 1, Len(e)) = e /\ e \o e = e
    BY <2>2, WholeSuffix, ConcatEmptySeq
  <2>4. Pipe(c) = e
    BY <2>1, <2>2, <2>3, Zenon DEF Pipe, InPipe
  <2>5. Stream(<<>>, 0, 0, "SendNone") /\ "SendNone" \notin SendClosing
    BY StreamStarts DEF SendClosing
  <2>6. e = Bytes(0, 0 - 0)
    BY <2>2, <2>5, Zenon DEF Stream
  <2>7. QED
    BY <2>1, <2>4, <2>6 DEF Incoming, InStream
<1>2. JobInv /\ JobInv' /\ QueueInv' /\ IncomingInv /\ [Next]_vars => IncomingInv'
  <2> SUFFICES ASSUME JobInv, JobInv', QueueInv', IncomingInv, [Next]_vars, NEW c \in Conns
               PROVE  Incoming(c)'
    OBVIOUS
  <2>1. aborted' # "queue is full" /\ TypeOK'
    BY DEF QueueInv, AssertionsHold, JobInv
  <2>2. QED
    BY <2>1, StepShape, IncomingStep
<1>3. JobInv /\ IncomingInv => RecvStream
  <2> SUFFICES ASSUME JobInv, IncomingInv, NEW c \in Conns, conn[c].recv # "RecvClose", ~EndRead(c)
               PROVE  RecvPipe(c) = Bytes(conn[c].delivered, sock[c].sent - conn[c].delivered)
    BY DEF RecvStream
  <2>1. TypeOK
    BY DEF JobInv
  <2>2. ~Ended(c)
    BY <2>1, EndGot DEF Ended
  <2>3. RecvPipe(c) = Pipe(c)
    BY DEF RecvPipe, Pipe, InPipe, Pos
  <2>4. QED
    BY <2>2, <2>3 DEF Incoming, InStream
<1> HIDE DEF IncomingInv
<1>4. QED
  BY <1>1, <1>2, <1>3, JobInvHolds, QueueInvHolds, PTL DEF Spec
=============================================================================
