----------------------------- MODULE Connection -----------------------------
(***************************************************************************)
(* The network core of HyperNet: the Connection objects with their send    *)
(* and receive state machines, the main thread that polls epoll and        *)
(* processes results (NetEngine), and the NetWorker threads that call      *)
(* ::recv and ::send.  The main thread and a worker share a connection's   *)
(* buffers without a lock; the two queues between them and the states of   *)
(* the machines decide who may touch what.                                 *)
(*                                                                         *)
(* Bytes are numbered in the order in which their writer offered them, so  *)
(* that loss, duplication and reordering are visible.  A connection is     *)
(* named by its file descriptor, which is reused after a close.            *)
(***************************************************************************)
EXTENDS Integers, Sequences, FiniteSets, ConnectionFsm

CONSTANTS
  Conns,          \* the file descriptors a connection may have
  Workers,        \* the worker threads
  MaxConnection,  \* connections per worker: NetSupportSize / NetThreadCount
  SendSize,       \* size of each of the two send buffers
  RecvSize,       \* size of each of the two receive buffers
  SockCap,        \* room in the kernel's outgoing socket buffer
  MaxOut,         \* bound: bytes the application offers per connection
  MaxIn,          \* bound: bytes the peer sends per connection
  Faults,         \* what peers do besides sending and reading: "fin", "reset"
  PacketLen,      \* the length of the packet that starts at a byte, < 0 if malformed
  NoWorker, NoJob, NoConn

ASSUME SizeAssumption ==
  /\ MaxConnection \in Nat /\ SockCap \in Nat \ {0}
  /\ SendSize \in Nat \ {0} /\ RecvSize \in Nat \ {0}
  /\ MaxOut \in Nat /\ MaxIn \in Nat

ASSUME PacketAssumption == PacketLen \in [1 .. MaxIn -> Int \ {0}]

ASSUME NullAssumption == /\ NoWorker \notin Workers
                         /\ NoConn \notin Conns
                         /\ NoJob \notin [connection : Conns, evt : {"SEND", "RECV"}]

VARIABLES
  conn,     \* the Connection object of a descriptor
  nowConnection,  \* each worker's _nowConnection
  sock,     \* the kernel's socket behind it
  armed,    \* descriptors on the ready list of the edge-triggered epoll
  batch,    \* what epoll_wait returned and Loop has not dispatched yet
  parsing,  \* the ProcessPacket call the main thread is in
  workQ,    \* each worker's _workQueue
  exec,     \* the request each worker is in DoRequest with
  resQ,     \* each worker's _resultQueue
  aborted   \* what ended the process, "no" while it runs

vars == <<conn, nowConnection, sock, armed, batch, parsing, workQ, exec, resQ, aborted>>

Request == [connection : Conns, evt : {"SEND", "RECV"}]
Result  == [connection : Conns, evt : SendResults \cup RecvResults]

(* A constructed connection: both machines in None, all buffers empty.     *)
NewConn(w) ==
  [worker |-> w, send |-> "SendNone", recv |-> "RecvNone",
   sWorking |-> <<>>, sUsing |-> <<>>, rWorking |-> <<>>, rUsing |-> <<>>,
   offered |-> 0,      \* bytes the application has passed to Send
   delivered |-> 0,    \* bytes passed to ISession::OnRecv
   full |-> FALSE,     \* the last OnRecv stopped because its buffer was full
   refused |-> FALSE]  \* ProcessPacket has returned false

(* A connected socket: in and out are the kernel's two buffers, err is its *)
(* error: none, one that waits for the next call, or one a call has taken. *)
NewSock == [in |-> <<>>, sent |-> 0, fin |-> FALSE, err |-> "none",
            out |-> <<>>, drained |-> 0, nospace |-> FALSE]

(* Mutant: one request per connection instead of two.                      *)
QueueSizeSingle == MaxConnection

(* Each of a worker's two CycleQueues is built for this many items.        *)
QueueSize == 2 * MaxConnection

NotParsing == [c |-> NoConn, from |-> "Recving", pos |-> 0]

Open(c) == conn[c].worker # NoWorker

Init ==
  /\ conn = [c \in Conns |-> NewConn(NoWorker)]
  /\ nowConnection = [w \in Workers |-> 0]
  /\ sock = [c \in Conns |-> NewSock]
  /\ armed = {}
  /\ batch = [c \in Conns |-> {}]
  /\ parsing = NotParsing
  /\ workQ = [w \in Workers |-> <<>>]
  /\ exec = [w \in Workers |-> NoJob]
  /\ resQ = [w \in Workers |-> <<>>]
  /\ aborted = "no"

Parsing == parsing.c # NoConn
Batched == \E c \in Conns : batch[c] # {}

-----------------------------------------------------------------------------
(* Mutant: a buffer that would be exactly full is refused.                 *)
FitsBelow(r) == Len(r.sWorking) + Len(r.sUsing) < SendSize

(* Mutant: only the waiting bytes are checked.                             *)
FitsAlone(r) == Len(r.sUsing) <= SendSize

(* BeginSend: append what the application has written to what the worker   *)
(* writes from, if both fit into one buffer.                               *)
Fits(r) == Len(r.sWorking) + Len(r.sUsing) <= SendSize

(* Mutant: the copied bytes stay in the USING buffer.                      *)
BeginSendTwice(r, to) ==
  IF Fits(r)
  THEN [r EXCEPT !.send = to, !.sWorking = r.sWorking \o r.sUsing]
  ELSE [r EXCEPT !.send = "SendClose"]

BeginSend(r, to) ==
  IF Fits(r)
  THEN [r EXCEPT !.send = to, !.sWorking = r.sWorking \o r.sUsing, !.sUsing = <<>>]
  ELSE [r EXCEPT !.send = "SendClose"]

SendMachine(r, t) == IF t.act = "begin" THEN BeginSend(r, t.to) ELSE [r EXCEPT !.send = t.to]

Job(c, d) == [connection |-> c, evt |-> d]

(* The requests a step of the two machines hands to the worker.            *)
SendJobs(c, r, t) == IF t.act = "begin" /\ Fits(r) THEN <<Job(c, "SEND")>> ELSE <<>>
RecvJobs(c, t)    == IF t.act = "begin" THEN <<Job(c, "RECV")>> ELSE <<>>

(* NetWorker::Add and Remove: the slots of a worker are counted.           *)
SlotTaken(w) == [nowConnection EXCEPT ![w] = @ + 1]

(* Mutant: a closed connection's slot is not given back.                   *)
SlotKept(w) == nowConnection

SlotFreed(w) == [nowConnection EXCEPT ![w] = @ - 1]

(* The end of OnEvent: queue the requests; with both machines in Close,    *)
(* OnClose removes the connection from its worker, from epoll and from the *)
(* handlers, closes the descriptor and deletes the object.                 *)
Commit(c, r, jobs) ==
  LET w == conn[c].worker
      gone == r.send = "SendClose" /\ r.recv = "RecvClose"
  IN  /\ conn' = [conn EXCEPT ![c] = IF gone THEN NewConn(NoWorker) ELSE r]
      /\ nowConnection' = IF gone THEN SlotFreed(w) ELSE nowConnection
      /\ sock' = [sock EXCEPT ![c] = IF gone THEN NewSock ELSE @]
      /\ armed' = IF gone THEN armed \ {c} ELSE armed
      /\ IF Len(workQ[w]) + Len(jobs) <= QueueSize
         THEN workQ' = [workQ EXCEPT ![w] = @ \o jobs] /\ UNCHANGED aborted
         ELSE aborted' = "queue is full" /\ UNCHANGED workQ

(* Connection::OnEvent on record r: the send machine, then the receive     *)
(* machine, then the test for Close.                                       *)
OnEvent(c, r, e) ==
  LET s  == SendOn(r.send, e)
      r1 == SendMachine(r, s)
      t  == RecvOn(r.recv, e)
  IN  Commit(c, [r1 EXCEPT !.recv = t.to], SendJobs(c, r, s) \o RecvJobs(c, t))

-----------------------------------------------------------------------------
(* The main thread: NetEngine::Loop.                                       *)

GetFreeSlot(w) == MaxConnection - nowConnection[w]

(* The worker with the most free slots.                                    *)
GetWorker(w) ==
  GetFreeSlot(w) > 0 /\ \A v \in Workers : GetFreeSlot(v) <= GetFreeSlot(w)

(* Acceptor::OnIn and Connector::OnOut: a connected descriptor becomes a   *)
(* Connection.  Adding it to epoll reports what is ready already.          *)
Establish(c) ==
  /\ ~Parsing /\ ~Open(c)
  /\ \E w \in Workers :
       /\ GetWorker(w)
       /\ conn' = [conn EXCEPT ![c] = NewConn(w)]
       /\ nowConnection' = SlotTaken(w)
       /\ sock' = [sock EXCEPT ![c] = NewSock]
       /\ armed' = armed \cup {c}
       /\ UNCHANGED <<batch, parsing, workQ, exec, resQ, aborted>>

EstablishNoSlot(c) ==
  /\ ~Parsing /\ ~Open(c)
  /\ \A w \in Workers : GetFreeSlot(w) <= 0
  /\ aborted' = "there is not a worker has slot"
  /\ UNCHANGED <<conn, nowConnection, sock, armed, batch, parsing, workQ, exec, resQ>>

(* epoll_wait: an edge puts a descriptor on the ready list, the mask is    *)
(* what is ready when the list is read.                                    *)
Mask(c) ==
  (IF sock[c].err \in {"ECONNRESET", "EPIPE"} THEN {"ERR"} ELSE {}) \cup
  (IF Len(sock[c].out) < SockCap \/ sock[c].err # "none" THEN {"OUT"} ELSE {}) \cup
  (IF sock[c].in # <<>> \/ sock[c].fin \/ sock[c].err # "none" THEN {"IN"} ELSE {})

EpollWait ==
  /\ ~Parsing /\ ~Batched
  /\ armed # {}
  /\ batch' = [c \in Conns |-> IF c \in armed THEN Mask(c) ELSE {}]
  /\ armed' = {}
  /\ UNCHANGED <<conn, nowConnection, sock, parsing, workQ, exec, resQ, aborted>>

(* Loop tests EPOLLERR, EPOLLOUT and EPOLLIN in this order and looks the   *)
(* handler up by descriptor each time.                                     *)
FirstFlag(m) == IF "ERR" \in m THEN "ERR" ELSE IF "OUT" \in m THEN "OUT" ELSE "IN"
EventOf(f) == CASE f = "ERR" -> "ERROR" [] f = "OUT" -> "SEND_READY" [] f = "IN" -> "RECV"

Dispatch(c) ==
  /\ ~Parsing
  /\ batch[c] # {}
  /\ LET f == FirstFlag(batch[c]) IN
       /\ batch' = [batch EXCEPT ![c] = @ \ {f}]
       /\ \/ /\ Open(c)
             /\ OnEvent(c, conn[c], EventOf(f))
          \/ /\ ~Open(c)
             /\ UNCHANGED <<conn, nowConnection, sock, armed, workQ, aborted>>
  /\ UNCHANGED <<parsing, exec, resQ>>

(* NetWorker::Process and DoResult, for every result but received data.    *)
Awaiting(c) == conn[c].recv \in {"Recving", "RecvingWait"}

DoResult(w) ==
  /\ ~Parsing /\ ~Batched
  /\ resQ[w] # <<>>
  /\ LET c == Head(resQ[w]).connection
         e == Head(resQ[w]).evt
     IN  /\ ~(e = "RECV_DONE" /\ Awaiting(c))
         /\ OnEvent(c, conn[c], e)
  /\ resQ' = [resQ EXCEPT ![w] = Tail(@)]
  /\ UNCHANGED <<batch, parsing, exec>>

(* The rest of OnEvent once ProcessPacket has returned.                    *)
Processed(c, r, from, ok) ==
  LET t == AfterProcess(from, ok)
  IN  Commit(c, [r EXCEPT !.recv = t.to, !.refused = ~ok], RecvJobs(c, t))

(* Mutant: the machine leaves Recving before the packets are processed.    *)
TakeReadEarly(r) == [r EXCEPT !.rUsing = r.rUsing \o r.rWorking, !.rWorking = <<>>,
                              !.recv = "RecvNone"]

(* The bytes just read are appended to the rest of the last packet.        *)
TakeRead(r) == [r EXCEPT !.rUsing = r.rUsing \o r.rWorking, !.rWorking = <<>>]

(* DoResult with received data: ProcessPacket up to its loop.              *)
DoData(w) ==
  /\ ~Parsing /\ ~Batched
  /\ resQ[w] # <<>>
  /\ resQ' = [resQ EXCEPT ![w] = Tail(@)]
  /\ LET c == Head(resQ[w]).connection
         r == conn[c]
     IN  /\ Head(resQ[w]).evt = "RECV_DONE" /\ Awaiting(c)
         /\ \/ /\ r.rWorking = <<>>
               /\ Processed(c, r, r.recv, TRUE)
               /\ UNCHANGED parsing
            \/ /\ Len(r.rWorking) + Len(r.rUsing) > RecvSize
               /\ Processed(c, r, r.recv, FALSE)
               /\ UNCHANGED parsing
            \/ /\ r.rWorking # <<>> /\ Len(r.rWorking) + Len(r.rUsing) <= RecvSize
               /\ conn' = [conn EXCEPT ![c] = TakeRead(r)]
               /\ parsing' = [c |-> c, from |-> r.recv, pos |-> 0]
               /\ UNCHANGED <<nowConnection, sock, armed, workQ, aborted>>
  /\ UNCHANGED <<batch, exec>>

(* The loop of ProcessPacket.  IPacketParser::ParsePacket answers 0 while  *)
(* the packet is incomplete.  Between two iterations the callback OnRecv   *)
(* may call Send and Close of this and of other connections.               *)
Rest == SubSeq(conn[parsing.c].rUsing, parsing.pos + 1, Len(conn[parsing.c].rUsing))

ParsePacket(b) == LET n == PacketLen[Head(b)] IN IF n > Len(b) THEN 0 ELSE n

(* The answer that decides about the next iteration; no data ends the loop. *)
Parsed == IF Rest = <<>> THEN 0 ELSE ParsePacket(Rest)

OnRecvPacket ==
  /\ Parsing
  /\ Parsed > 0
  /\ parsing' = [parsing EXCEPT !.pos = @ + Parsed]
  /\ conn' = [conn EXCEPT ![parsing.c].delivered = @ + Parsed]
  /\ UNCHANGED <<nowConnection, sock, armed, batch, workQ, exec, resQ, aborted>>

(* Mutant: an incomplete packet is thrown away.                            *)
KeepNothing(r) == [r EXCEPT !.rUsing = <<>>]

(* The memmove after the loop keeps what was not consumed.                 *)
Keep(r) == [r EXCEPT !.rUsing = Rest]

ParseEnd ==
  /\ Parsing
  /\ Parsed = 0
  /\ Processed(parsing.c, Keep(conn[parsing.c]), parsing.from, TRUE)
  /\ parsing' = NotParsing
  /\ UNCHANGED <<batch, exec, resQ>>

ParseBad ==
  /\ Parsing
  /\ Parsed < 0
  /\ Processed(parsing.c, conn[parsing.c], parsing.from, FALSE)
  /\ parsing' = NotParsing
  /\ UNCHANGED <<batch, exec, resQ>>

-----------------------------------------------------------------------------
(* The application, on the main thread: from a timer or another module     *)
(* between two steps of Loop, or from a callback inside one.               *)

(* Mutant: the copy starts one byte early.                                 *)
BytesEarly(from, n) == [i \in 1 .. n |-> from + i - 1]

Bytes(from, n) == [i \in 1 .. n |-> from + i]

Send(c, n) ==
  /\ Open(c)
  /\ conn[c].offered + n <= MaxOut
  /\ LET r == [conn[c] EXCEPT !.offered = @ + n] IN
       \/ /\ Len(r.sUsing) + n > SendSize
          /\ OnEvent(c, r, "ERROR")
       \/ /\ Len(r.sUsing) + n <= SendSize
          /\ OnEvent(c, [r EXCEPT !.sUsing = @ \o Bytes(conn[c].offered, n)], "SEND")
  /\ UNCHANGED <<batch, parsing, exec, resQ>>

Close(c) ==
  /\ Open(c)
  /\ OnEvent(c, conn[c], "CLOSE")
  /\ UNCHANGED <<batch, parsing, exec, resQ>>

-----------------------------------------------------------------------------
(* A worker thread: ThreadProc takes a request, DoRequest executes it and  *)
(* queues the result.                                                      *)

ThreadProc(w) ==
  /\ exec[w] = NoJob
  /\ workQ[w] # <<>>
  /\ exec' = [exec EXCEPT ![w] = Head(workQ[w])]
  /\ workQ' = [workQ EXCEPT ![w] = Tail(@)]
  /\ UNCHANGED <<conn, nowConnection, sock, armed, batch, parsing, resQ, aborted>>

PushResult(w, c, e) ==
  IF Len(resQ[w]) < QueueSize
  THEN /\ resQ' = [resQ EXCEPT ![w] = Append(@, [connection |-> c, evt |-> e])]
       /\ UNCHANGED aborted
  ELSE aborted' = "queue is full" /\ UNCHANGED resQ

(* Connection::OnRecv: read until the socket is empty or the buffer full.  *)
(* The buffer's length is stored only when the loop ends without an end of *)
(* stream or an error: what was read before one of these is dropped.  With *)
(* nothing left, ::recv takes a reset; after the peer's end, or with the   *)
(* error taken, it answers 0 and leaves EPIPE where it is.                 *)
OnRecv(w, c) ==
  LET k == IF Len(sock[c].in) < RecvSize THEN Len(sock[c].in) ELSE RecvSize
      full == k = RecvSize
      rest == SubSeq(sock[c].in, k + 1, Len(sock[c].in))
      e == CASE full                              -> "RECV_DONE"
             [] ~full /\ sock[c].err = "ECONNRESET" -> "RECV_ERROR"
             [] ~full /\ sock[c].err \in {"EPIPE", "taken"} -> "RECV_CLOSE"
             [] ~full /\ sock[c].err = "none" ->
                  IF sock[c].fin THEN "RECV_CLOSE" ELSE "RECV_DONE"
  IN  /\ sock' = [sock EXCEPT ![c].in = rest,
                              ![c].err = IF e = "RECV_ERROR" THEN "taken" ELSE @]
      /\ conn' = IF e = "RECV_DONE"
                 THEN [conn EXCEPT ![c].rWorking = SubSeq(sock[c].in, 1, k), ![c].full = full]
                 ELSE conn
      /\ PushResult(w, c, e)

(* Connection::OnSend: write until the buffer is empty or the socket full. *)
(* Running into a full socket makes the kernel report the next free space. *)
(* A reset is answered by SEND_ERROR and taken.                            *)
OnSend(w, c) ==
  LET b == conn[c].sWorking
      room == IF Len(sock[c].out) < SockCap THEN SockCap - Len(sock[c].out) ELSE 0
      k == IF Len(b) < room THEN Len(b) ELSE room
      e == CASE sock[c].err = "ECONNRESET" -> "SEND_ERROR"
             [] sock[c].err = "none"       -> IF k = Len(b) THEN "SEND_DONE" ELSE "SEND_PENDING"
  IN  /\ IF e = "SEND_ERROR"
         THEN /\ sock' = [sock EXCEPT ![c].err = "taken"]
              /\ UNCHANGED conn
         ELSE /\ sock' = [sock EXCEPT ![c].out = @ \o SubSeq(b, 1, k),
                                      ![c].nospace = @ \/ e = "SEND_PENDING"]
              /\ conn' = [conn EXCEPT ![c].sWorking = SubSeq(b, k + 1, Len(b))]
      /\ PushResult(w, c, e)

(* The first ::send on a socket that was reset after the peer's end, and   *)
(* any on a socket whose error has been taken, raises SIGPIPE (flags 0, no *)
(* handler installed), which ends the process.                             *)
Severed(c) == sock[c].err \in {"EPIPE", "taken"}

Abort(reason) == aborted' = reason /\ UNCHANGED <<conn, sock, resQ>>

DoRequest(w) ==
  /\ exec[w] # NoJob
  /\ LET c == exec[w].connection IN
       \/ /\ exec[w].evt = "RECV"
          /\ IF conn[c].rWorking # <<>> THEN Abort("recv buffer is not empty")
                                        ELSE OnRecv(w, c)
       \/ /\ exec[w].evt = "SEND"
          /\ IF conn[c].sWorking = <<>> THEN Abort("send buffer is empty")
             ELSE IF Severed(c) THEN Abort("SIGPIPE")
             ELSE OnSend(w, c)
  /\ exec' = [exec EXCEPT ![w] = NoJob]
  /\ UNCHANGED <<nowConnection, armed, batch, parsing, workQ>>

-----------------------------------------------------------------------------
(* The peer and the network (external): each change that makes the socket  *)
(* readable or writable is an edge.                                        *)

PeerSend(c) ==
  /\ Open(c) /\ ~sock[c].fin /\ sock[c].err = "none"
  /\ sock[c].sent < MaxIn
  /\ sock' = [sock EXCEPT ![c].in = Append(@, sock[c].sent + 1), ![c].sent = @ + 1]
  /\ armed' = armed \cup {c}
  /\ UNCHANGED <<conn, nowConnection, batch, parsing, workQ, exec, resQ, aborted>>

PeerFin(c) ==
  /\ "fin" \in Faults
  /\ Open(c) /\ ~sock[c].fin /\ sock[c].err = "none"
  /\ sock' = [sock EXCEPT ![c].fin = TRUE]
  /\ armed' = armed \cup {c}
  /\ UNCHANGED <<conn, nowConnection, batch, parsing, workQ, exec, resQ, aborted>>

(* A reset makes the socket's error EPIPE if the peer has sent its end.    *)
PeerReset(c) ==
  /\ "reset" \in Faults
  /\ Open(c) /\ sock[c].err = "none"
  /\ sock' = [sock EXCEPT ![c].err = IF sock[c].fin THEN "EPIPE" ELSE "ECONNRESET"]
  /\ armed' = armed \cup {c}
  /\ UNCHANGED <<conn, nowConnection, batch, parsing, workQ, exec, resQ, aborted>>

PeerRead(c) ==
  /\ Open(c) /\ sock[c].err = "none"
  /\ sock[c].out # <<>>
  /\ sock' = [sock EXCEPT ![c].out = Tail(@), ![c].drained = @ + 1, ![c].nospace = FALSE]
  /\ armed' = IF sock[c].nospace THEN armed \cup {c} ELSE armed
  /\ UNCHANGED <<conn, nowConnection, batch, parsing, workQ, exec, resQ, aborted>>

-----------------------------------------------------------------------------
Running(A) == aborted = "no" /\ A

Halted == aborted # "no" /\ UNCHANGED vars

LoopStep == \/ EpollWait \/ OnRecvPacket \/ ParseEnd \/ ParseBad
            \/ \E c \in Conns : Establish(c) \/ EstablishNoSlot(c) \/ Dispatch(c)
            \/ \E w \in Workers : DoResult(w) \/ DoData(w)

AppStep == \E c \in Conns : Close(c) \/ \E n \in 1 .. MaxOut : Send(c, n)

WorkerStep == \E w \in Workers : ThreadProc(w) \/ DoRequest(w)

PeerStep == \E c \in Conns : PeerSend(c) \/ PeerFin(c) \/ PeerReset(c) \/ PeerRead(c)

Next == Running(LoopStep \/ AppStep \/ WorkerStep \/ PeerStep) \/ Halted

Spec == Init /\ [][Next]_vars

-----------------------------------------------------------------------------
(* Fairness.  Every turn of Kernel::Loop polls epoll, dispatches the batch *)
(* and processes at least one result of each worker if there is one; a     *)
(* callback returns; a worker thread runs for ever; the peer goes on       *)
(* reading.  Nothing is assumed of the application or of what peers send.  *)
Fairness ==
  /\ SF_vars(Running(EpollWait))
  /\ \A c \in Conns : WF_vars(Running(Dispatch(c)))
  /\ WF_vars(Running(OnRecvPacket \/ ParseEnd \/ ParseBad))
  /\ \A w \in Workers : /\ SF_vars(Running(DoResult(w) \/ DoData(w)))
                         /\ WF_vars(Running(ThreadProc(w) \/ DoRequest(w)))
  /\ \A c \in Conns : WF_vars(Running(PeerRead(c)))

FairSpec == Spec /\ Fairness

-----------------------------------------------------------------------------
Aborts == {"queue is full", "send buffer is empty", "recv buffer is not empty",
           "there is not a worker has slot", "SIGPIPE"}

ConnType ==
  [worker : Workers \cup {NoWorker}, send : SendStates, recv : RecvStates,
   sWorking : Seq(1 .. MaxOut), sUsing : Seq(1 .. MaxOut),
   rWorking : Seq(1 .. MaxIn), rUsing : Seq(1 .. MaxIn),
   offered : 0 .. MaxOut, delivered : Nat, full : BOOLEAN, refused : BOOLEAN]

SockType ==
  [in : Seq(1 .. MaxIn), sent : 0 .. MaxIn, fin : BOOLEAN,
   err : {"none", "ECONNRESET", "EPIPE", "taken"}, out : Seq(1 .. MaxOut),
   drained : Nat, nospace : BOOLEAN]

TypeOK ==
  /\ conn \in [Conns -> ConnType]
  /\ nowConnection \in [Workers -> Int]
  /\ sock \in [Conns -> SockType]
  /\ armed \subseteq Conns
  /\ batch \in [Conns -> SUBSET {"ERR", "OUT", "IN"}]
  /\ parsing \in [c : Conns \cup {NoConn}, from : {"Recving", "RecvingWait"}, pos : Nat]
  /\ workQ \in [Workers -> Seq(Request)]
  /\ exec \in [Workers -> Request \cup {NoJob}]
  /\ resQ \in [Workers -> Seq(Result)]
  /\ aborted \in Aborts \cup {"no"}

(* The states in which a machine has a request on its way through a worker. *)
SendBusy == {"Sending", "SendingReady", "SendingWait", "SendingReadyWait",
             "SendWaitClose", "SendingWaitClose"}
RecvBusy == {"Recving", "RecvingWait", "RecvWaitClose"}

Busy(c, d) == IF d = "SEND" THEN conn[c].send \in SendBusy
              ELSE conn[c].recv \in RecvBusy /\ parsing.c # c

Direction(e) == IF e \in SendResults THEN "SEND" ELSE "RECV"

(* A request of connection c in direction d: waiting, in execution, or     *)
(* answered by a result that the main thread has not processed.            *)
Waiting(c, d)  == {p \in Workers \X (1 .. QueueSize) :
                     p[2] <= Len(workQ[p[1]]) /\ workQ[p[1]][p[2]] = Job(c, d)}
Executed(c, d) == {w \in Workers : exec[w] = Job(c, d)}
Answered(c, d) == {p \in Workers \X (1 .. QueueSize) :
                     /\ p[2] <= Len(resQ[p[1]])
                     /\ resQ[p[1]][p[2]].connection = c
                     /\ Direction(resQ[p[1]][p[2]].evt) = d}

(* Every request under way belongs to a connection that is still open,     *)
(* with this worker, and that is waiting for it: no worker thread and no   *)
(* result ever reaches a Connection that OnClose has deleted.              *)
NoStaleJob ==
  \A w \in Workers :
    /\ \A i \in 1 .. Len(workQ[w]) :
         conn[workQ[w][i].connection].worker = w /\ Busy(workQ[w][i].connection, workQ[w][i].evt)
    /\ exec[w] # NoJob =>
         conn[exec[w].connection].worker = w /\ Busy(exec[w].connection, exec[w].evt)
    /\ \A i \in 1 .. Len(resQ[w]) :
         /\ conn[resQ[w][i].connection].worker = w
         /\ Busy(resQ[w][i].connection, Direction(resQ[w][i].evt))

(* A machine that waits for its worker has exactly one request under way:  *)
(* never two (the worker would own the buffer twice), never none (the      *)
(* connection would wait for ever).                                        *)
OneJobWhileBusy ==
  aborted = "no" => \A c \in Conns, d \in {"SEND", "RECV"} :
    Cardinality(Waiting(c, d)) + Cardinality(Executed(c, d)) + Cardinality(Answered(c, d))
      = IF Busy(c, d) THEN 1 ELSE 0

(* Every close, whichever of events, results and calls completes it, gives *)
(* back one slot and no other step does: a worker's count is the number of *)
(* its open connections, these fit its queues, and the process stops for   *)
(* want of a slot only when as many are open as the workers have slots.    *)
Serving(w) == {c \in Conns : conn[c].worker = w}

SlotsBounded ==
  /\ \A w \in Workers : /\ nowConnection[w] = Cardinality(Serving(w))
                         /\ Cardinality(Serving(w)) <= MaxConnection
  /\ aborted = "there is not a worker has slot" =>
       \A w \in Workers : Cardinality(Serving(w)) = MaxConnection

(* The two lock-free buffers change hands: the main thread writes a        *)
(* WORKING buffer, or frees it, only while no request for it waits or is   *)
(* in execution.  (The main thread's steps are those that leave exec.)     *)
BufferOwnership ==
  [][\A c \in Conns : exec' = exec =>
       /\ conn'[c].sWorking # conn[c].sWorking =>
            Waiting(c, "SEND") = {} /\ Executed(c, "SEND") = {}
       /\ conn'[c].rWorking # conn[c].rWorking =>
            Waiting(c, "RECV") = {} /\ Executed(c, "RECV") = {}
       /\ conn'[c].worker = NoWorker =>
            \A d \in {"SEND", "RECV"} : Waiting(c, d) = {} /\ Executed(c, d) = {}]_vars

(* ProcessPacket runs on a live object: no Send or Close that a callback   *)
(* makes inside it deletes the connection under it.                        *)
ParsedIsOpen == Parsing => Open(parsing.c)

(* A Send that fits never frees its connection, whatever has become of the *)
(* other machine: Harbor, which goes on with an iterator of its table      *)
(* after Send, loses the entry only to a Send that overflows.              *)
SendKeepsOpen ==
  [][\A c \in Conns, n \in 1 .. MaxOut :
       Send(c, n) /\ Len(conn[c].sUsing) + n <= SendSize => conn'[c].worker # NoWorker]_vars

(* No memcpy of Send, BeginSend, OnRecv or ProcessPacket overruns a buffer. *)
BuffersBounded ==
  \A c \in Conns : /\ Len(conn[c].sWorking) <= SendSize /\ Len(conn[c].sUsing) <= SendSize
                   /\ Len(conn[c].rWorking) <= RecvSize /\ Len(conn[c].rUsing) <= RecvSize

(* The assertions of CycleQueue::Push and OnRecv hold: the requests of     *)
(* MaxConnection connections never overfill a worker's queues, and a read  *)
(* never finds the bytes of the last one still in its buffer.              *)
AssertionsHold == aborted \notin {"queue is full", "recv buffer is not empty"}

SendClosing == {"SendWaitClose", "SendingWaitClose", "SendClose"}
RecvClosing == {"RecvWaitClose", "RecvClose"}

(* Outgoing bytes: what the peer has read, what the kernel holds and the   *)
(* two buffers are, in this order, exactly the bytes offered to Send.  An  *)
(* overflow drops bytes, but only with a step into a closing state, where  *)
(* the rest is still neither duplicated nor reordered.                     *)
SendPipe(c) == sock[c].out \o conn[c].sWorking \o conn[c].sUsing

SendStream ==
  \A c \in Conns :
    IF conn[c].send \in SendClosing
    THEN \A i, j \in 1 .. Len(SendPipe(c)) : i < j => SendPipe(c)[i] < SendPipe(c)[j]
    ELSE SendPipe(c) = Bytes(sock[c].drained, conn[c].offered - sock[c].drained)

(* Incoming bytes: the unparsed rest, the bytes just read and what the     *)
(* kernel holds continue what was delivered, without gap or repetition,    *)
(* until an end of stream or an error has been read.                       *)
RecvPipe(c) ==
  SubSeq(conn[c].rUsing, (IF parsing.c = c THEN parsing.pos ELSE 0) + 1, Len(conn[c].rUsing))
    \o conn[c].rWorking \o sock[c].in

EndRead(c) == \E w \in Workers : \E i \in 1 .. Len(resQ[w]) :
  resQ[w][i].connection = c /\ resQ[w][i].evt \in {"RECV_ERROR", "RECV_CLOSE"}

RecvStream ==
  \A c \in Conns : conn[c].recv # "RecvClose" /\ ~EndRead(c) =>
    RecvPipe(c) = Bytes(conn[c].delivered, sock[c].sent - conn[c].delivered)

(* SIGPIPE ends the process only while the main thread cannot have stopped *)
(* the write: the edge of a reset after the peer's end has not been        *)
(* dispatched, the result of the read that took the socket's error has not *)
(* been processed, or the write was under way, or waiting, when it was.    *)
PipeSignal ==
  aborted = "SIGPIPE" =>
    \E c \in Conns :
      \/ sock[c].err = "EPIPE" /\ (c \in armed \/ "ERR" \in batch[c])
      \/ sock[c].err = "taken" /\ EndRead(c)
      \/ Severed(c) /\ conn[c].send \in {"SendWaitClose", "SendingWaitClose"}

-----------------------------------------------------------------------------
(* Each direction of a connection is a pipe.  It is broken for the peer    *)
(* once the send machine is closing, for ISession::OnRecv once the receive *)
(* machine has closed or the worker has met the end of the stream; nothing *)
(* is parsed after that, whatever the buffers still hold.                  *)
ToPeer(c) ==
  [wire |-> SendPipe(c), put |-> conn[c].offered, got |-> sock[c].drained,
   state |-> IF conn[c].send \in SendClosing THEN "broken" ELSE "whole"]

FromPeer(c) ==
  LET ended == conn[c].recv = "RecvClose" \/ EndRead(c)
  IN  [wire |-> IF ended THEN <<>> ELSE RecvPipe(c), put |-> sock[c].sent,
       got |-> conn[c].delivered, state |-> IF ended THEN "broken" ELSE "whole"]

OutPipes == INSTANCE Pipe WITH pipe <- [c \in Conns |-> ToPeer(c)], Drains <- TRUE
InPipes  == INSTANCE Pipe WITH pipe <- [c \in Conns |-> FromPeer(c)], Drains <- FALSE

(* A Connection implements a pipe each way, which is what Cluster and Rpc  *)
(* take a link for: whatever the buffers, machines and queues do, OnRecv   *)
(* is given the bytes the peer sent, from the first one on and nothing     *)
(* after the end, and only a Send that overflows leaves out bytes.         *)
PipeSpec == OutPipes!Spec /\ InPipes!Spec

-----------------------------------------------------------------------------
Unsent(c) == conn[c].sWorking # <<>> \/ conn[c].sUsing # <<>>

(* Bytes that Send accepted reach the socket unless the connection closes: *)
(* a free-space edge that arrives before the result SEND_PENDING is not    *)
(* lost, and neither are bytes appended while a write is under way.        *)
SendFlushed ==
  \A c \in Conns : Unsent(c) ~>
    (~Unsent(c) \/ conn[c].send \in SendClosing \/ aborted # "no")

(* Bytes that arrive are read although epoll reports them once: an edge    *)
(* during a read is remembered.  Left out is a read that filled its buffer, *)
(* after which the rest waits for the next edge.                           *)
InputRead ==
  \A c \in Conns : sock[c].in # <<>> ~>
    (sock[c].in = <<>> \/ conn[c].full \/ conn[c].recv \in RecvClosing \/ aborted # "no")

(* Once both machines are closing, whatever is still under way, the        *)
(* connection is freed.                                                    *)
TeardownCompletes ==
  \A c \in Conns :
    (conn[c].send \in SendClosing /\ conn[c].recv \in RecvClosing /\ parsing.c # c) ~>
      (~Open(c) \/ aborted # "no")

(* A peer that closes or resets gets its connection freed: the result of   *)
(* the read takes both machines down.  Left out are the read that filled   *)
(* its buffer, and the receive side that ProcessPacket has closed alone.   *)
PeerCloseFrees ==
  \A c \in Conns : (sock[c].fin \/ sock[c].err # "none") ~>
    (~Open(c) \/ conn[c].full \/ conn[c].refused \/ aborted # "no")

-----------------------------------------------------------------------------
(* Statements of the repository that the code does not meet.               *)

(* OASSERT(buffer.offset != 0, "send buffer is empty") in OnSend.          *)
SendBufferFilled == aborted # "send buffer is empty"

(* doc/recv.gv: WaitClose is left to Close only.                           *)
WaitCloseCloses ==
  [][\A c \in Conns : conn[c].recv = "RecvWaitClose" =>
       \/ conn'[c].recv \in {"RecvWaitClose", "RecvClose"}
       \/ conn'[c].worker = NoWorker]_vars
=============================================================================
