-------------------------- MODULE ConnectionProofs --------------------------
(***************************************************************************)
(* The network core for every number of connections and workers and every  *)
(* buffer size: its types, and that no request or result under way refers  *)
(* to a connection that has been deleted.                                  *)
(***************************************************************************)
EXTENDS Connection, SequenceTheorems, TLAPS

-----------------------------------------------------------------------------
(* The state machines.                                                     *)

(* Every event takes a send state to a send state.                         *)
LEMMA SendOnType ==
  ASSUME NEW s \in SendStates, NEW e \in NetEvents
  PROVE  SendOn(s, e).to \in SendStates /\ SendOn(s, e).act \in {"go", "begin"}
<1> USE DEF Go, Begin, NetEvents, SendResults, RecvResults, SendTeardown, SendStates
<1>1. CASE s = "SendNone"
  BY <1>1 DEF SendOn, SendNoneOn
<1>2. CASE s = "Sending"
  BY <1>2 DEF SendOn, SendingOn
<1>3. CASE s = "SendPending"
  BY <1>3 DEF SendOn, SendPendingOn
<1>4. CASE s = "SendingReady"
  BY <1>4 DEF SendOn, SendingReadyOn
<1>5. CASE s = "SendingWait"
  BY <1>5 DEF SendOn, SendingWaitOn
<1>6. CASE s = "SendingReadyWait"
  BY <1>6 DEF SendOn, SendingReadyWaitOn
<1>7. CASE s = "SendWaitClose"
  BY <1>7 DEF SendOn, SendWaitCloseOn
<1>8. CASE s = "SendingWaitClose"
  BY <1>8 DEF SendOn, SendingWaitCloseOn
<1>9. CASE s = "SendClose"
  BY <1>9 DEF SendOn
<1>10. QED
  BY <1>1, <1>2, <1>3, <1>4, <1>5, <1>6, <1>7, <1>8, <1>9 DEF SendStates

(* While a write is under way no event but its result begins another or    *)
(* ends the waiting.                                                       *)
LEMMA SendBusyStays ==
  ASSUME NEW s \in SendBusy, NEW e \in NetEvents \ SendResults
  PROVE  SendOn(s, e).to \in SendBusy /\ SendOn(s, e).act = "go"
<1> USE DEF Go, Begin, NetEvents, SendResults, RecvResults, SendTeardown, SendBusy
<1>1. CASE s = "Sending"
  BY <1>1 DEF SendOn, SendingOn
<1>2. CASE s = "SendingReady"
  BY <1>2 DEF SendOn, SendingReadyOn
<1>3. CASE s = "SendingWait"
  BY <1>3 DEF SendOn, SendingWaitOn
<1>4. CASE s = "SendingReadyWait"
  BY <1>4 DEF SendOn, SendingReadyWaitOn
<1>5. CASE s = "SendWaitClose"
  BY <1>5 DEF SendOn, SendWaitCloseOn
<1>6. CASE s = "SendingWaitClose"
  BY <1>6 DEF SendOn, SendingWaitCloseOn
<1>7. QED
  BY <1>1, <1>2, <1>3, <1>4, <1>5, <1>6 DEF SendBusy

(* Otherwise the machine waits afterwards exactly if it has begun a write. *)
LEMMA SendIdleBegins ==
  ASSUME NEW s \in SendStates, NEW e \in NetEvents,
         s \notin SendBusy \/ e \in SendResults
  PROVE  SendOn(s, e).act = "begin" <=> SendOn(s, e).to \in SendBusy
<1> USE DEF Go, Begin, NetEvents, SendResults, RecvResults, SendTeardown, SendBusy
<1>1. CASE s = "SendNone"
  BY <1>1 DEF SendOn, SendNoneOn
<1>2. CASE s = "Sending"
  BY <1>2 DEF SendOn, SendingOn
<1>3. CASE s = "SendPending"
  BY <1>3 DEF SendOn, SendPendingOn
<1>4. CASE s = "SendingReady"
  BY <1>4 DEF SendOn, SendingReadyOn
<1>5. CASE s = "SendingWait"
  BY <1>5 DEF SendOn, SendingWaitOn
<1>6. CASE s = "SendingReadyWait"
  BY <1>6 DEF SendOn, SendingReadyWaitOn
<1>7. CASE s = "SendWaitClose"
  BY <1>7 DEF SendOn, SendWaitCloseOn
<1>8. CASE s = "SendingWaitClose"
  BY <1>8 DEF SendOn, SendingWaitCloseOn
<1>9. CASE s = "SendClose"
  BY <1>9 DEF SendOn
<1>10. QED
  BY <1>1, <1>2, <1>3, <1>4, <1>5, <1>6, <1>7, <1>8, <1>9 DEF SendStates

(* Every event takes a receive state to a receive state.                   *)
LEMMA RecvOnType ==
  ASSUME NEW s \in RecvStates, NEW e \in NetEvents
  PROVE  RecvOn(s, e).to \in RecvStates /\ RecvOn(s, e).act \in {"go", "begin"}
<1> USE DEF Go, Begin, NetEvents, SendResults, RecvResults, SendTeardown, RecvStates
<1>1. CASE s = "RecvNone"
  BY <1>1 DEF RecvOn, RecvNoneOn
<1>2. CASE s = "Recving"
  BY <1>2 DEF RecvOn, RecvingOn
<1>3. CASE s = "RecvingWait"
  BY <1>3 DEF RecvOn, RecvingWaitOn
<1>4. CASE s = "RecvWaitClose"
  BY <1>4 DEF RecvOn, RecvWaitCloseOn
<1>5. CASE s = "RecvClose"
  BY <1>5 DEF RecvOn
<1>6. QED
  BY <1>1, <1>2, <1>3, <1>4, <1>5 DEF RecvStates

(* A receive machine that waits goes on waiting unless its result comes.   *)
LEMMA RecvBusyStays ==
  ASSUME NEW s \in RecvBusy, NEW e \in NetEvents \ RecvResults
  PROVE  RecvOn(s, e).to \in RecvBusy /\ RecvOn(s, e).act = "go"
<1> USE DEF Go, Begin, NetEvents, SendResults, RecvResults, SendTeardown, RecvBusy
<1>1. CASE s = "Recving"
  BY <1>1 DEF RecvOn, RecvingOn
<1>2. CASE s = "RecvingWait"
  BY <1>2 DEF RecvOn, RecvingWaitOn
<1>3. CASE s = "RecvWaitClose"
  BY <1>3 DEF RecvOn, RecvWaitCloseOn
<1>4. QED
  BY <1>1, <1>2, <1>3 DEF RecvBusy

(* RECV_DONE of a machine that waits for it goes through ProcessPacket.    *)
LEMMA RecvIdleBegins ==
  ASSUME NEW s \in RecvStates, NEW e \in NetEvents,
         s \notin RecvBusy \/ e \in RecvResults,
         ~(e = "RECV_DONE" /\ s \in {"Recving", "RecvingWait"})
  PROVE  RecvOn(s, e).act = "begin" <=> RecvOn(s, e).to \in RecvBusy
<1> USE DEF Go, Begin, NetEvents, SendResults, RecvResults, SendTeardown, RecvBusy
<1>1. CASE s = "RecvNone"
  BY <1>1 DEF RecvOn, RecvNoneOn
<1>2. CASE s = "Recving"
  BY <1>2 DEF RecvOn, RecvingOn
<1>3. CASE s = "RecvingWait"
  BY <1>3 DEF RecvOn, RecvingWaitOn
<1>4. CASE s = "RecvWaitClose"
  BY <1>4 DEF RecvOn, RecvWaitCloseOn
<1>5. CASE s = "RecvClose"
  BY <1>5 DEF RecvOn
<1>6. QED
  BY <1>1, <1>2, <1>3, <1>4, <1>5 DEF RecvStates

(* One event never begins a write and a read.                              *)
LEMMA OneBegin ==
  ASSUME NEW s \in SendStates, NEW t \in RecvStates, NEW e \in NetEvents,
         RecvOn(t, e).act = "begin"
  PROVE  SendOn(s, e).act = "go"
<1> USE DEF Go, Begin, NetEvents, SendResults, RecvResults, SendTeardown
<1>0. e = "RECV"
  BY DEF RecvOn, RecvStates, RecvNoneOn, RecvingOn, RecvingWaitOn, RecvWaitCloseOn
<1>1. CASE s = "SendNone"
  BY <1>0, <1>1 DEF SendOn, SendNoneOn
<1>2. CASE s = "Sending"
  BY <1>0, <1>2 DEF SendOn, SendingOn
<1>3. CASE s = "SendPending"
  BY <1>0, <1>3 DEF SendOn, SendPendingOn
<1>4. CASE s = "SendingReady"
  BY <1>0, <1>4 DEF SendOn, SendingReadyOn
<1>5. CASE s = "SendingWait"
  BY <1>0, <1>5 DEF SendOn, SendingWaitOn
<1>6. CASE s = "SendingReadyWait"
  BY <1>0, <1>6 DEF SendOn, SendingReadyWaitOn
<1>7. CASE s = "SendWaitClose"
  BY <1>0, <1>7 DEF SendOn, SendWaitCloseOn
<1>8. CASE s = "SendingWaitClose"
  BY <1>0, <1>8 DEF SendOn, SendingWaitCloseOn
<1>9. CASE s = "SendClose"
  BY <1>0, <1>9 DEF SendOn
<1>10. QED
  BY <1>0, <1>1, <1>2, <1>3, <1>4, <1>5, <1>6, <1>7, <1>8, <1>9 DEF SendStates

-----------------------------------------------------------------------------
(* Types.                                                                  *)

(* What is left of a sequence has its type.                                *)
LEMMA SuffixType ==
  ASSUME NEW S, NEW s \in Seq(S), NEW k \in Nat
  PROVE  SubSeq(s, k + 1, Len(s)) \in Seq(S)
<1>1. Len(s) \in Nat /\ \A i \in 1 .. Len(s) : s[i] \in S
  BY ElementOfSeq, LenProperties
<1>2. \A i \in k + 1 .. Len(s) : s[i] \in S
  BY <1>1
<1>3. QED
  BY <1>1, <1>2, SubSeqProperties

(* What is taken of a sequence has its type.                               *)
LEMMA PrefixType ==
  ASSUME NEW S, NEW s \in Seq(S), NEW k \in Nat, k <= Len(s)
  PROVE  SubSeq(s, 1, k) \in Seq(S)
<1>1. Len(s) \in Nat /\ \A i \in 1 .. Len(s) : s[i] \in S
  BY ElementOfSeq, LenProperties
<1>2. \A i \in 1 .. k : s[i] \in S
  BY <1>1
<1>3. QED
  BY <1>2, SubSeqProperties

(* A new connection is well typed.                                         *)
LEMMA NewConnType ==
  ASSUME NEW w \in Workers \cup {NoWorker} PROVE NewConn(w) \in ConnType
  BY SizeAssumption DEF NewConn, ConnType, SendStates, RecvStates

(* A new socket is well typed.                                             *)
LEMMA NewSockType == NewSock \in SockType
  BY SizeAssumption DEF NewSock, SockType

(* A job is a request.                                                     *)
LEMMA JobType ==
  ASSUME NEW c \in Conns, NEW d \in {"SEND", "RECV"}
  PROVE  Job(c, d) \in Request
  BY DEF Job, Request

(* The requests begun by an event are requests.                            *)
LEMMA JobsType ==
  ASSUME NEW c \in Conns, NEW r, NEW s, NEW t
  PROVE  /\ SendJobs(c, r, s) \in Seq(Request)
         /\ RecvJobs(c, t) \in Seq(Request)
         /\ SendJobs(c, r, s) \o RecvJobs(c, t) \in Seq(Request)
<1>1. Job(c, "SEND") \in Request /\ Job(c, "RECV") \in Request
  BY JobType
<1>2. SendJobs(c, r, s) \in Seq(Request) /\ RecvJobs(c, t) \in Seq(Request)
  BY <1>1 DEF SendJobs, RecvJobs
<1>3. QED
  BY <1>2, ConcatProperties

(* The variables that an event of a connection may change.                 *)
EventTypeOK ==
  /\ conn \in [Conns -> ConnType]
  /\ nowConnection \in [Workers -> Int]
  /\ sock \in [Conns -> SockType]
  /\ armed \subseteq Conns
  /\ workQ \in [Workers -> Seq(Request)]
  /\ aborted \in Aborts \cup {"no"}

LEMMA SlotType ==
  ASSUME nowConnection \in [Workers -> Int], NEW w
  PROVE  SlotTaken(w) \in [Workers -> Int] /\ SlotFreed(w) \in [Workers -> Int]
<1>1. CASE w \in Workers
  <2>1. nowConnection[w] \in Int
    BY <1>1
  <2>2. PICK m \in Int, n \in Int : m = nowConnection[w] + 1 /\ n = nowConnection[w] - 1
    BY <2>1
  <2>3. /\ SlotTaken(w) = [nowConnection EXCEPT ![w] = m]
        /\ SlotFreed(w) = [nowConnection EXCEPT ![w] = n]
    BY <2>2 DEF SlotTaken, SlotFreed
  <2>4. QED
    BY <2>2, <2>3
<1>2. CASE w \notin Workers
  BY <1>2 DEF SlotTaken, SlotFreed
<1>3. QED
  BY <1>1, <1>2

(* The end of an event keeps the types.                                    *)
LEMMA CommitType ==
  ASSUME EventTypeOK, NEW c \in Conns, NEW r \in ConnType, NEW jobs \in Seq(Request),
         Commit(c, r, jobs)
  PROVE  EventTypeOK'
<1> DEFINE w == conn[c].worker
           gone == r.send = "SendClose" /\ r.recv = "RecvClose"
<1>1. conn' \in [Conns -> ConnType]
  <2>1. conn' = [conn EXCEPT ![c] = IF gone THEN NewConn(NoWorker) ELSE r]
    BY DEF Commit
  <2>2. NewConn(NoWorker) \in ConnType
    BY NewConnType
  <2>3. QED
    BY <2>1, <2>2 DEF EventTypeOK
<1>2. sock' \in [Conns -> SockType]
  BY NewSockType DEF Commit, EventTypeOK
<1>3. armed' \subseteq Conns
  BY DEF Commit, EventTypeOK
<1>4. workQ' \in [Workers -> Seq(Request)] /\ aborted' \in Aborts \cup {"no"}
  <2>1. CASE workQ' = [workQ EXCEPT ![w] = workQ[w] \o jobs] /\ aborted' = aborted
    <3>1. CASE w \in Workers
      <4>1. workQ[w] \o jobs \in Seq(Request)
        BY <3>1, ConcatProperties DEF EventTypeOK
      <4>2. QED
        BY <2>1, <4>1 DEF EventTypeOK
    <3>2. CASE w \notin Workers
      BY <2>1, <3>2 DEF EventTypeOK
    <3>3. QED
      BY <3>1, <3>2
  <2>2. CASE aborted' = "queue is full" /\ workQ' = workQ
    BY <2>2 DEF EventTypeOK, Aborts
  <2>3. QED
    BY <2>1, <2>2 DEF Commit
<1>5. nowConnection' \in [Workers -> Int]
  <2>1. nowConnection' = SlotFreed(w) \/ nowConnection' = nowConnection
    BY DEF Commit
  <2>2. QED
    BY <2>1, SlotType DEF EventTypeOK
<1>6. QED
  BY <1>1, <1>2, <1>3, <1>4, <1>5 DEF EventTypeOK

(* A step of the send machine keeps the types and the receive side.        *)
LEMMA SendMachineType ==
  ASSUME NEW r \in ConnType, NEW t, t.to \in SendStates
  PROVE  /\ SendMachine(r, t) \in ConnType
         /\ SendMachine(r, t).recv = r.recv
         /\ SendMachine(r, t).worker = r.worker
<1>1. r.sWorking \o r.sUsing \in Seq(1 .. MaxOut)
  BY ConcatProperties DEF ConnType
<1>2. [r EXCEPT !.send = t.to, !.sWorking = r.sWorking \o r.sUsing, !.sUsing = <<>>] \in ConnType
  <2>1. <<>> \in Seq(1 .. MaxOut)
    BY EmptySeq
  <2>2. QED
    BY <1>1, <2>1 DEF ConnType
<1>3. [r EXCEPT !.send = "SendClose"] \in ConnType /\ [r EXCEPT !.send = t.to] \in ConnType
  BY DEF ConnType, SendStates
<1>4. QED
  BY <1>2, <1>3 DEF SendMachine, BeginSend, ConnType

(* An event keeps the types.                                               *)
LEMMA OnEventType ==
  ASSUME EventTypeOK, NEW c \in Conns, NEW r \in ConnType, NEW e \in NetEvents,
         OnEvent(c, r, e)
  PROVE  EventTypeOK'
<1> DEFINE s == SendOn(r.send, e)
           r1 == SendMachine(r, s)
           t == RecvOn(r.recv, e)
<1>1. s.to \in SendStates /\ t.to \in RecvStates
  BY SendOnType, RecvOnType DEF ConnType
<1>2. r1 \in ConnType
  BY <1>1, SendMachineType
<1>3. [r1 EXCEPT !.recv = t.to] \in ConnType
  BY <1>1, <1>2 DEF ConnType
<1>4. Commit(c, [r1 EXCEPT !.recv = t.to], SendJobs(c, r, s) \o RecvJobs(c, t))
  BY DEF OnEvent
<1>5. SendJobs(c, r, s) \o RecvJobs(c, t) \in Seq(Request)
  BY JobsType
<1>6. QED
  BY <1>3, <1>4, <1>5, CommitType

(* The state set after ProcessPacket is a receive state.                   *)
LEMMA AfterProcessType ==
  ASSUME NEW from \in {"Recving", "RecvingWait"}, NEW ok \in BOOLEAN
  PROVE  AfterProcess(from, ok).to \in RecvStates
  BY DEF AfterProcess, Go, Begin, RecvStates

(* The return from ProcessPacket keeps the types.                          *)
LEMMA ProcessedType ==
  ASSUME EventTypeOK, NEW c \in Conns, NEW r \in ConnType,
         NEW from \in {"Recving", "RecvingWait"}, NEW ok \in BOOLEAN,
         Processed(c, r, from, ok)
  PROVE  EventTypeOK'
<1> DEFINE t == AfterProcess(from, ok)
<1>1. [r EXCEPT !.recv = t.to, !.refused = ~ok] \in ConnType
  BY AfterProcessType DEF ConnType
<1>2. RecvJobs(c, t) \in Seq(Request)
  BY JobsType
<1>3. Commit(c, [r EXCEPT !.recv = t.to, !.refused = ~ok], RecvJobs(c, t))
  BY DEF Processed
<1>4. QED
  BY <1>1, <1>2, <1>3, CommitType

(* The types of the remaining variables.                                   *)
LoopTypeOK ==
  /\ batch \in [Conns -> SUBSET {"ERR", "OUT", "IN"}]
  /\ parsing \in [c : Conns \cup {NoConn}, from : {"Recving", "RecvingWait"}, pos : Nat]
  /\ exec \in [Workers -> Request \cup {NoJob}]
  /\ resQ \in [Workers -> Seq(Result)]

(* The type invariant in two parts: what an event changes, and the rest.   *)
LEMMA TypeParts == TypeOK <=> EventTypeOK /\ LoopTypeOK
  BY DEF TypeOK, EventTypeOK, LoopTypeOK

(* The initial state is well typed.                                        *)
LEMMA InitType == Init => TypeOK
<1> SUFFICES ASSUME Init PROVE TypeOK
  OBVIOUS
<1>1. conn \in [Conns -> ConnType] /\ sock \in [Conns -> SockType]
  BY NewConnType, NewSockType DEF Init
<1>2. QED
  BY <1>1 DEF Init, TypeOK, NotParsing, Aborts

(* What a result in a queue may be.                                        *)
LEMMA ResultHead ==
  ASSUME TypeOK, NEW w \in Workers, resQ[w] # <<>>
  PROVE  /\ Head(resQ[w]).connection \in Conns
         /\ Head(resQ[w]).evt \in NetEvents
         /\ Tail(resQ[w]) \in Seq(Result)
<1>1. resQ[w] \in Seq(Result)
  BY DEF TypeOK
<1>2. Head(resQ[w]) \in Result /\ Tail(resQ[w]) \in Seq(Result)
  BY <1>1, HeadTailProperties
<1>3. QED
  BY <1>2 DEF Result, NetEvents

(* The unconsumed rest of the receive buffer and the parser's answer.      *)
LEMMA RestType ==
  ASSUME TypeOK, Parsing
  PROVE  Rest \in Seq(1 .. MaxIn) /\ Parsed \in Int
<1>1. parsing.c \in Conns /\ parsing.pos \in Nat
  BY DEF TypeOK, Parsing
<1>2. conn[parsing.c].rUsing \in Seq(1 .. MaxIn)
  BY <1>1 DEF TypeOK, ConnType
<1>3. Rest \in Seq(1 .. MaxIn)
  BY <1>1, <1>2, SuffixType DEF Rest
<1>4. CASE Rest = <<>>
  BY <1>3, <1>4 DEF Parsed
<1>5. CASE Rest # <<>>
  <2>1. Head(Rest) \in 1 .. MaxIn /\ Len(Rest) \in Nat
    BY <1>3, <1>5, HeadTailProperties, LenProperties
  <2>2. PacketLen[Head(Rest)] \in Int
    BY <2>1, PacketAssumption
  <2>3. QED
    BY <1>3, <1>5, <2>1, <2>2 DEF Parsed, ParsePacket
<1>6. QED
  BY <1>4, <1>5

(* The bytes of a Send are within the bound.                               *)
LEMMA BytesType ==
  ASSUME NEW from \in Nat, NEW n \in Nat, from + n <= MaxOut
  PROVE  Bytes(from, n) \in Seq(1 .. MaxOut)
  BY SizeAssumption DEF Bytes

(* Pushing a result keeps the types.                                       *)
LEMMA PushResultType ==
  ASSUME TypeOK, NEW w \in Workers, NEW c \in Conns, NEW e \in SendResults \cup RecvResults,
         PushResult(w, c, e)
  PROVE  resQ' \in [Workers -> Seq(Result)] /\ aborted' \in Aborts \cup {"no"}
<1>1. [connection |-> c, evt |-> e] \in Result
  BY DEF Result
<1>2. Append(resQ[w], [connection |-> c, evt |-> e]) \in Seq(Result)
  BY <1>1 DEF TypeOK
<1>3. QED
  BY <1>2 DEF PushResult, TypeOK, Aborts

(* A worker's read keeps the types.                                        *)
LEMMA OnRecvType ==
  ASSUME TypeOK, NEW w \in Workers, NEW c \in Conns, OnRecv(w, c)
  PROVE  /\ conn' \in [Conns -> ConnType] /\ sock' \in [Conns -> SockType]
         /\ resQ' \in [Workers -> Seq(Result)] /\ aborted' \in Aborts \cup {"no"}
<1> DEFINE in == sock[c].in
           k == IF Len(in) < RecvSize THEN Len(in) ELSE RecvSize
           full == k = RecvSize
           rest == SubSeq(in, k + 1, Len(in))
<1>1. sock[c] \in SockType /\ conn[c] \in ConnType /\ in \in Seq(1 .. MaxIn)
  BY DEF TypeOK, SockType
<1>2. k \in Nat /\ k <= Len(in)
  BY <1>1, LenProperties, SizeAssumption
<1>3. rest \in Seq(1 .. MaxIn) /\ SubSeq(in, 1, k) \in Seq(1 .. MaxIn)
  <2> HIDE DEF k
  <2>1. QED BY <1>1, <1>2, SuffixType, PrefixType
<1>4. full \in BOOLEAN
  OBVIOUS
<1> HIDE DEF k, rest, full
<1>5. PICK e \in SendResults \cup RecvResults :
        /\ sock' = [sock EXCEPT ![c].in = rest,
                                ![c].err = IF e = "RECV_ERROR" THEN "taken" ELSE @]
        /\ conn' = IF e = "RECV_DONE"
                   THEN [conn EXCEPT ![c].rWorking = SubSeq(in, 1, k), ![c].full = full]
                   ELSE conn
        /\ PushResult(w, c, e)
  BY <1>1, <1>4 DEF OnRecv, k, rest, full, RecvResults, SockType
<1>6. [sock[c] EXCEPT !.in = rest, !.err = IF e = "RECV_ERROR" THEN "taken" ELSE sock[c].err] \in SockType
  BY <1>1, <1>3 DEF SockType
<1>7. sock' \in [Conns -> SockType]
  BY <1>5, <1>6 DEF TypeOK
<1>8. [conn[c] EXCEPT !.rWorking = SubSeq(in, 1, k), !.full = full] \in ConnType
  BY <1>1, <1>3, <1>4 DEF ConnType
<1>9. conn' \in [Conns -> ConnType]
  BY <1>5, <1>8 DEF TypeOK
<1>10. QED
  BY <1>5, <1>7, <1>9, PushResultType

(* A worker's write keeps the types.                                       *)
LEMMA OnSendType ==
  ASSUME TypeOK, NEW w \in Workers, NEW c \in Conns, OnSend(w, c), ~Severed(c)
  PROVE  /\ conn' \in [Conns -> ConnType] /\ sock' \in [Conns -> SockType]
         /\ resQ' \in [Workers -> Seq(Result)] /\ aborted' \in Aborts \cup {"no"}
<1> DEFINE b == conn[c].sWorking
           room == IF Len(sock[c].out) < SockCap THEN SockCap - Len(sock[c].out) ELSE 0
           k == IF Len(b) < room THEN Len(b) ELSE room
<1>1. /\ sock[c] \in SockType /\ conn[c] \in ConnType
      /\ b \in Seq(1 .. MaxOut) /\ sock[c].out \in Seq(1 .. MaxOut)
      /\ sock[c].nospace \in BOOLEAN
  BY DEF TypeOK, SockType, ConnType
<1>2. room \in Nat
  BY <1>1, LenProperties, SizeAssumption
<1>3. k \in Nat /\ k <= Len(b)
  <2> HIDE DEF room
  <2>1. Len(b) \in Nat
    BY <1>1, LenProperties
  <2>2. QED
    BY <1>2, <2>1
<1>4. SubSeq(b, k + 1, Len(b)) \in Seq(1 .. MaxOut) /\ SubSeq(b, 1, k) \in Seq(1 .. MaxOut)
  <2> HIDE DEF k
  <2>1. QED BY <1>1, <1>3, SuffixType, PrefixType
<1>5. sock[c].out \o SubSeq(b, 1, k) \in Seq(1 .. MaxOut)
  <2> HIDE DEF k
  <2>1. QED BY <1>1, <1>4, ConcatProperties
<1>6. PICK e \in SendResults :
        /\ IF e = "SEND_ERROR"
           THEN /\ sock' = [sock EXCEPT ![c].err = "taken"]
                /\ UNCHANGED conn
           ELSE /\ sock' = [sock EXCEPT ![c].out = @ \o SubSeq(b, 1, k),
                                        ![c].nospace = @ \/ e = "SEND_PENDING"]
                /\ conn' = [conn EXCEPT ![c].sWorking = SubSeq(b, k + 1, Len(b))]
        /\ PushResult(w, c, e)
  <2>1. sock[c].err = "ECONNRESET" \/ sock[c].err = "none"
    BY <1>1 DEF SockType, Severed
  <2>2. QED
    BY <2>1 DEF OnSend, SendResults
<1> HIDE DEF k
<1>7. CASE e = "SEND_ERROR"
  <2>1. [sock[c] EXCEPT !.err = "taken"] \in SockType
    BY <1>1 DEF SockType
  <2>2. sock' \in [Conns -> SockType] /\ conn' \in [Conns -> ConnType]
    BY <1>6, <1>7, <2>1 DEF TypeOK
  <2>3. QED
    BY <1>6, <2>2, PushResultType
<1>8. CASE e # "SEND_ERROR"
  <2> DEFINE full == sock[c].nospace \/ e = "SEND_PENDING"
  <2>1. full \in BOOLEAN
    BY <1>1
  <2>2. sock' = [sock EXCEPT ![c].out = @ \o SubSeq(b, 1, k), ![c].nospace = full]
    BY <1>6, <1>8
  <2> HIDE DEF full
  <2>3. [sock[c] EXCEPT !.out = sock[c].out \o SubSeq(b, 1, k), !.nospace = full] \in SockType
    BY <1>1, <1>5, <2>1 DEF SockType
  <2>4. sock' \in [Conns -> SockType]
    BY <2>2, <2>3 DEF TypeOK
  <2>5. [conn[c] EXCEPT !.sWorking = SubSeq(b, k + 1, Len(b))] \in ConnType
    BY <1>1, <1>4 DEF ConnType
  <2>6. conn' \in [Conns -> ConnType]
    BY <1>6, <1>8, <2>5 DEF TypeOK
  <2>7. QED
    BY <1>6, <2>4, <2>6, PushResultType
<1>9. QED
  BY <1>7, <1>8

(* Send is an event on the connection with the bytes appended, or not.     *)
LEMMA SendRecord ==
  ASSUME TypeOK, NEW c \in Conns, NEW n \in 1 .. MaxOut, Send(c, n)
  PROVE  \E r \in ConnType, e \in {"ERROR", "SEND"} :
           /\ OnEvent(c, r, e)
           /\ r.worker = conn[c].worker /\ r.send = conn[c].send /\ r.recv = conn[c].recv
<1> DEFINE r == [conn[c] EXCEPT !.offered = conn[c].offered + n]
           q == [r EXCEPT !.sUsing = r.sUsing \o Bytes(conn[c].offered, n)]
<1>1. conn[c] \in ConnType /\ conn[c].offered + n <= MaxOut
  BY DEF Send, TypeOK
<1>2. r \in ConnType
  <2>1. conn[c].offered + n \in 0 .. MaxOut
    BY <1>1, SizeAssumption, SMTT(30) DEF ConnType
  <2>2. QED
    BY <1>1, <2>1 DEF ConnType
<1>3. r.sUsing \o Bytes(conn[c].offered, n) \in Seq(1 .. MaxOut)
  <2>1. r.sUsing \in Seq(1 .. MaxOut) /\ conn[c].offered \in Nat /\ n \in Nat
    BY <1>1, SizeAssumption, SMTT(30) DEF ConnType
  <2>2. Bytes(conn[c].offered, n) \in Seq(1 .. MaxOut)
    BY <1>1, <2>1, BytesType
  <2>3. QED
    BY <2>1, <2>2, ConcatProperties
<1>4. q \in ConnType
  BY <1>2, <1>3 DEF ConnType
<1>5. r.worker = conn[c].worker /\ r.send = conn[c].send /\ r.recv = conn[c].recv
  BY <1>1 DEF ConnType
<1>6. q.worker = r.worker /\ q.send = r.send /\ q.recv = r.recv
  BY <1>2 DEF ConnType
<1>7. OnEvent(c, r, "ERROR") \/ OnEvent(c, q, "SEND")
  BY DEF Send
<1> HIDE DEF r, q
<1>8. QED
  BY <1>2, <1>4, <1>5, <1>6, <1>7, Zenon

(* Every step keeps the variables in their types.                          *)
LEMMA TypeInductive == TypeOK /\ [Next]_vars => TypeOK'
<1> SUFFICES ASSUME TypeOK, [Next]_vars PROVE TypeOK'
  OBVIOUS
<1>0. EventTypeOK /\ LoopTypeOK
  BY TypeParts
<1>1. ASSUME NEW c \in Conns, Establish(c) PROVE TypeOK'
  <2>1. PICK w \in Workers : /\ conn' = [conn EXCEPT ![c] = NewConn(w)]
                             /\ nowConnection' = SlotTaken(w)
    BY <1>1 DEF Establish
  <2>2. conn' \in [Conns -> ConnType]
    BY <2>1, NewConnType DEF TypeOK
  <2>3. sock' \in [Conns -> SockType]
    BY <1>1, NewSockType DEF Establish, TypeOK
  <2>4. nowConnection' \in [Workers -> Int]
    BY <2>1, SlotType DEF TypeOK
  <2>5. QED
    BY <1>1, <2>2, <2>3, <2>4 DEF Establish, TypeOK
<1>2. ASSUME NEW c \in Conns, EstablishNoSlot(c) PROVE TypeOK'
  BY <1>2 DEF EstablishNoSlot, TypeOK, Aborts
<1>3. CASE EpollWait
  <2>1. batch' \in [Conns -> SUBSET {"ERR", "OUT", "IN"}]
    BY <1>3 DEF EpollWait, Mask
  <2>2. QED
    BY <1>3, <2>1 DEF EpollWait, TypeOK
<1>4. ASSUME NEW c \in Conns, Dispatch(c) PROVE TypeOK'
  <2> DEFINE f == FirstFlag(batch[c])
  <2>1. EventOf(f) \in NetEvents
    BY DEF FirstFlag, EventOf, NetEvents
  <2>2. LoopTypeOK'
    BY <1>4, <1>0 DEF Dispatch, LoopTypeOK
  <2>3. EventTypeOK'
    <3>1. CASE OnEvent(c, conn[c], EventOf(f))
      <4>1. conn[c] \in ConnType
        BY DEF TypeOK
      <4>2. QED
        BY <1>0, <2>1, <3>1, <4>1, OnEventType
    <3>2. CASE UNCHANGED <<conn, nowConnection, sock, armed, workQ, aborted>>
      BY <1>0, <3>2 DEF EventTypeOK
    <3>3. QED
      BY <1>4, <3>1, <3>2 DEF Dispatch
  <2>4. QED
    BY <2>2, <2>3, TypeParts DEF TypeOK, EventTypeOK, LoopTypeOK
<1>5. ASSUME NEW w \in Workers, DoResult(w) PROVE TypeOK'
  <2> DEFINE c == Head(resQ[w]).connection
             e == Head(resQ[w]).evt
  <2>1. c \in Conns /\ e \in NetEvents /\ Tail(resQ[w]) \in Seq(Result)
    BY <1>5, ResultHead DEF DoResult
  <2>2. conn[c] \in ConnType
    BY <2>1 DEF TypeOK
  <2>3. OnEvent(c, conn[c], e)
    BY <1>5 DEF DoResult
  <2>4. EventTypeOK'
    BY <1>0, <2>1, <2>2, <2>3, OnEventType
  <2>5. LoopTypeOK'
    BY <1>0, <1>5, <2>1 DEF DoResult, LoopTypeOK
  <2>6. QED
    BY <2>4, <2>5 DEF TypeOK, EventTypeOK, LoopTypeOK
<1>6. ASSUME NEW w \in Workers, DoData(w) PROVE TypeOK'
  <2> DEFINE c == Head(resQ[w]).connection
             r == conn[c]
  <2>1. c \in Conns /\ Tail(resQ[w]) \in Seq(Result)
    BY <1>6, ResultHead DEF DoData
  <2>2. r \in ConnType /\ r.recv \in {"Recving", "RecvingWait"}
    BY <1>6, <2>1 DEF TypeOK, DoData, Awaiting
  <2>3. /\ resQ' = [resQ EXCEPT ![w] = Tail(@)]
        /\ UNCHANGED <<batch, exec>>
    BY <1>6 DEF DoData
  <2>4. ASSUME NEW ok \in BOOLEAN, Processed(c, r, r.recv, ok), UNCHANGED parsing
        PROVE  TypeOK'
    <3>1. EventTypeOK'
      BY <1>0, <2>1, <2>2, <2>4, ProcessedType
    <3>2. LoopTypeOK'
      BY <1>0, <2>1, <2>3, <2>4 DEF LoopTypeOK
    <3>3. QED
      BY <3>1, <3>2 DEF TypeOK, EventTypeOK, LoopTypeOK
  <2>5. ASSUME conn' = [conn EXCEPT ![c] = TakeRead(r)],
               parsing' = [c |-> c, from |-> r.recv, pos |-> 0],
               UNCHANGED <<nowConnection, sock, armed, workQ, aborted>>
        PROVE  TypeOK'
    <3>1. r.rUsing \o r.rWorking \in Seq(1 .. MaxIn) /\ <<>> \in Seq(1 .. MaxIn)
      BY <2>2, ConcatProperties, EmptySeq DEF ConnType
    <3>2. TakeRead(r) \in ConnType
      BY <2>2, <3>1 DEF ConnType, TakeRead
    <3>3. conn' \in [Conns -> ConnType]
      BY <2>1, <2>5, <3>2 DEF TypeOK
    <3>4. parsing' \in [c : Conns \cup {NoConn}, from : {"Recving", "RecvingWait"}, pos : Nat]
      BY <2>1, <2>2, <2>5
    <3>5. QED
      BY <2>1, <2>3, <2>5, <3>3, <3>4 DEF TypeOK
  <2>6. QED
    BY <1>6, <2>4, <2>5 DEF DoData
<1>7. CASE OnRecvPacket
  <2>1. parsing.c \in Conns /\ parsing.pos \in Nat /\ Parsed \in Nat
    BY <1>7, RestType DEF OnRecvPacket, Parsing, TypeOK
  <2>2. conn[parsing.c] \in ConnType
    BY <2>1 DEF TypeOK
  <2>3. [conn[parsing.c] EXCEPT !.delivered = conn[parsing.c].delivered + Parsed] \in ConnType
    <3>1. conn[parsing.c].delivered + Parsed \in Nat
      BY <2>1, <2>2 DEF ConnType
    <3>2. QED
      BY <2>2, <3>1 DEF ConnType
  <2>4. conn' \in [Conns -> ConnType]
    BY <1>7, <2>1, <2>3 DEF OnRecvPacket, TypeOK
  <2>5. parsing' \in [c : Conns \cup {NoConn}, from : {"Recving", "RecvingWait"}, pos : Nat]
    <3>1. parsing.pos + Parsed \in Nat
      BY <2>1
    <3>2. parsing' = [parsing EXCEPT !.pos = parsing.pos + Parsed]
      BY <1>7 DEF OnRecvPacket
    <3>3. QED
      BY <3>1, <3>2 DEF TypeOK
  <2>6. QED
    BY <1>7, <2>4, <2>5 DEF OnRecvPacket, TypeOK
<1>8. ASSUME ParseEnd \/ ParseBad PROVE TypeOK'
  <2>1. Parsing /\ parsing' = NotParsing /\ UNCHANGED <<batch, exec, resQ>>
    BY <1>8 DEF ParseEnd, ParseBad
  <2>2. parsing.c \in Conns /\ parsing.from \in {"Recving", "RecvingWait"}
    BY <2>1 DEF TypeOK, Parsing
  <2>3. conn[parsing.c] \in ConnType /\ Keep(conn[parsing.c]) \in ConnType
    <3>1. conn[parsing.c] \in ConnType
      BY <2>2 DEF TypeOK
    <3>2. Rest \in Seq(1 .. MaxIn)
      BY <2>1, RestType
    <3>3. QED
      BY <3>1, <3>2 DEF Keep, ConnType
  <2>4. \/ Processed(parsing.c, Keep(conn[parsing.c]), parsing.from, TRUE)
        \/ Processed(parsing.c, conn[parsing.c], parsing.from, FALSE)
    BY <1>8 DEF ParseEnd, ParseBad
  <2>5. EventTypeOK'
    BY <1>0, <2>2, <2>3, <2>4, ProcessedType
  <2>6. LoopTypeOK'
    BY <1>0, <2>1 DEF LoopTypeOK, NotParsing
  <2>7. QED
    BY <2>5, <2>6 DEF TypeOK, EventTypeOK, LoopTypeOK
<1>9. ASSUME NEW c \in Conns, NEW n \in 1 .. MaxOut, Send(c, n) PROVE TypeOK'
  <2>1. PICK r \in ConnType, e \in {"ERROR", "SEND"} : OnEvent(c, r, e)
    BY <1>9, SendRecord
  <2>2. EventTypeOK'
    BY <1>0, <2>1, OnEventType DEF NetEvents
  <2>3. LoopTypeOK'
    BY <1>0, <1>9 DEF Send, LoopTypeOK
  <2>4. QED
    BY <2>2, <2>3 DEF TypeOK, EventTypeOK, LoopTypeOK
<1>10. ASSUME NEW c \in Conns, Close(c) PROVE TypeOK'
  <2>1. conn[c] \in ConnType /\ OnEvent(c, conn[c], "CLOSE") /\ "CLOSE" \in NetEvents
    BY <1>10 DEF Close, TypeOK, NetEvents
  <2>2. EventTypeOK'
    BY <1>0, <2>1, OnEventType
  <2>3. LoopTypeOK'
    BY <1>0, <1>10 DEF Close, LoopTypeOK
  <2>4. QED
    BY <2>2, <2>3 DEF TypeOK, EventTypeOK, LoopTypeOK
<1>11. ASSUME NEW w \in Workers, ThreadProc(w) PROVE TypeOK'
  <2>1. workQ[w] \in Seq(Request) /\ workQ[w] # <<>>
    BY <1>11 DEF ThreadProc, TypeOK
  <2>2. Head(workQ[w]) \in Request /\ Tail(workQ[w]) \in Seq(Request)
    BY <2>1, HeadTailProperties
  <2>3. QED
    BY <1>11, <2>2 DEF ThreadProc, TypeOK
<1>12. ASSUME NEW w \in Workers, DoRequest(w) PROVE TypeOK'
  <2> DEFINE c == exec[w].connection
  <2>1. c \in Conns
    BY <1>12 DEF DoRequest, TypeOK, Request
  <2>2. /\ exec' \in [Workers -> Request \cup {NoJob}]
        /\ UNCHANGED <<nowConnection, armed, batch, parsing, workQ>>
    BY <1>12 DEF DoRequest, TypeOK
  <2>3. ASSUME NEW reason \in Aborts, Abort(reason) PROVE TypeOK'
    BY <2>2, <2>3 DEF Abort, TypeOK
  <2>4. CASE OnRecv(w, c)
    BY <2>1, <2>2, <2>4, OnRecvType DEF TypeOK
  <2>5. CASE OnSend(w, c) /\ ~Severed(c)
    BY <2>1, <2>2, <2>5, OnSendType DEF TypeOK
  <2>6. QED
    BY <1>12, <2>3, <2>4, <2>5 DEF DoRequest, Aborts
<1>13. ASSUME NEW c \in Conns, PeerSend(c) PROVE TypeOK'
  <2>1. sock[c] \in SockType
    BY DEF TypeOK
  <2>2. Append(sock[c].in, sock[c].sent + 1) \in Seq(1 .. MaxIn) /\ sock[c].sent + 1 \in 0 .. MaxIn
    BY <1>13, <2>1, SizeAssumption, SMTT(30) DEF PeerSend, SockType
  <2>3. [sock[c] EXCEPT !.in = Append(sock[c].in, sock[c].sent + 1), !.sent = sock[c].sent + 1] \in SockType
    BY <2>1, <2>2 DEF SockType
  <2>4. sock' \in [Conns -> SockType]
    BY <1>13, <2>3 DEF PeerSend, TypeOK
  <2>5. QED
    BY <1>13, <2>4 DEF PeerSend, TypeOK
<1>14. ASSUME NEW c \in Conns, PeerFin(c) PROVE TypeOK'
  <2>1. [sock[c] EXCEPT !.fin = TRUE] \in SockType
    <3>1. sock[c] \in SockType
      BY DEF TypeOK
    <3>2. QED
      BY <3>1 DEF SockType
  <2>2. sock' \in [Conns -> SockType]
    BY <1>14, <2>1 DEF PeerFin, TypeOK
  <2>3. QED
    BY <1>14, <2>2 DEF PeerFin, TypeOK
<1>15. ASSUME NEW c \in Conns, PeerReset(c) PROVE TypeOK'
  <2>1. [sock[c] EXCEPT !.err = IF sock[c].fin THEN "EPIPE" ELSE "ECONNRESET"] \in SockType
    <3>1. sock[c] \in SockType
      BY DEF TypeOK
    <3>2. QED
      BY <3>1 DEF SockType
  <2>2. sock' \in [Conns -> SockType]
    BY <1>15, <2>1 DEF PeerReset, TypeOK
  <2>3. QED
    BY <1>15, <2>2 DEF PeerReset, TypeOK
<1>16. ASSUME NEW c \in Conns, PeerRead(c) PROVE TypeOK'
  <2>1. sock[c] \in SockType /\ sock[c].out # <<>>
    BY <1>16 DEF PeerRead, TypeOK
  <2>2. Tail(sock[c].out) \in Seq(1 .. MaxOut)
    BY <2>1, HeadTailProperties DEF SockType
  <2>3. [sock[c] EXCEPT !.out = Tail(sock[c].out), !.drained = sock[c].drained + 1,
                        !.nospace = FALSE] \in SockType
    <3>1. sock[c].drained + 1 \in Nat
      BY <2>1 DEF SockType
    <3>2. QED
      BY <2>1, <2>2, <3>1 DEF SockType
  <2>4. sock' \in [Conns -> SockType]
    BY <1>16, <2>3 DEF PeerRead, TypeOK
  <2>5. QED
    BY <1>16, <2>4 DEF PeerRead, TypeOK
<1>17. CASE UNCHANGED vars
  BY <1>17 DEF TypeOK, vars
<1>18. QED
  BY <1>1, <1>2, <1>3, <1>4, <1>5, <1>6, <1>7, <1>8, <1>9, <1>10, <1>11, <1>12,
     <1>13, <1>14, <1>15, <1>16, <1>17
     DEF Next, Running, LoopStep, AppStep, WorkerStep, PeerStep, Halted

(* Type correctness of the network core.                                   *)
THEOREM TypeCorrect == Spec => []TypeOK
  BY InitType, TypeInductive, PTL DEF Spec

-----------------------------------------------------------------------------
(* The requests under way at a worker, wherever they are; a result stands  *)
(* for the request it answers.                                             *)

Tok(x) == Job(x.connection, Direction(x.evt))
WorkJobs(w) == {workQ[w][i] : i \in 1 .. Len(workQ[w])}
ExecJobs(w) == {exec[w]} \ {NoJob}
ResJobs(w)  == {Tok(resQ[w][i]) : i \in 1 .. Len(resQ[w])}

Valid(x, w) == conn[x.connection].worker = w /\ Busy(x.connection, x.evt)

AllValid == \A w \in Workers : \A x \in WorkJobs(w) \cup ExecJobs(w) \cup ResJobs(w) : Valid(x, w)

(* No request is under way twice: this makes the result that a machine     *)
(* acts on the last trace of its request.                                  *)
NoTwinJobs ==
  \A w \in Workers :
    /\ \A i, j \in 1 .. Len(workQ[w]) : workQ[w][i] = workQ[w][j] => i = j
    /\ \A i, j \in 1 .. Len(resQ[w]) : Tok(resQ[w][i]) = Tok(resQ[w][j]) => i = j
    /\ WorkJobs(w) \cap ExecJobs(w) = {}
    /\ WorkJobs(w) \cap ResJobs(w) = {}
    /\ ExecJobs(w) \cap ResJobs(w) = {}

(* The connection whose packets are being parsed cannot reach RecvClose    *)
(* before ProcessPacket returns.                                           *)
ParseGuard ==
  Parsing => conn[parsing.c].worker # NoWorker /\ conn[parsing.c].recv \in RecvBusy

JobInv == TypeOK /\ AllValid /\ NoTwinJobs /\ ParseGuard

(* NoStaleJob, said of sets of jobs.                                       *)
LEMMA ValidJobs == TypeOK => (AllValid <=> NoStaleJob)
<1> SUFFICES ASSUME TypeOK PROVE AllValid <=> NoStaleJob
  OBVIOUS
<1>1. \A x : Tok(x).connection = x.connection /\ Tok(x).evt = Direction(x.evt)
  BY DEF Tok, Job
<1>2. QED
  BY <1>1 DEF AllValid, NoStaleJob, Valid, WorkJobs, ExecJobs, ResJobs

(* The job a result answers is a request.                                  *)
LEMMA TokType ==
  ASSUME NEW x \in Result PROVE Tok(x) \in Request
  BY DEF Tok, Job, Request, Result, Direction

(* All jobs of a worker are requests.                                      *)
LEMMA JobsAreRequests ==
  ASSUME TypeOK, NEW w \in Workers
  PROVE  WorkJobs(w) \cup ExecJobs(w) \cup ResJobs(w) \subseteq Request
<1>1. workQ[w] \in Seq(Request) /\ resQ[w] \in Seq(Result) /\ exec[w] \in Request \cup {NoJob}
  BY DEF TypeOK
<1>2. WorkJobs(w) \subseteq Request
  BY <1>1, ElementOfSeq DEF WorkJobs
<1>3. ResJobs(w) \subseteq Request
  BY <1>1, ElementOfSeq, TokType DEF ResJobs
<1>4. QED
  BY <1>1, <1>2, <1>3 DEF ExecJobs

(* Processing a result takes its request off the queue, and it was the     *)
(* only one of its kind.                                                   *)
LEMMA PopResult ==
  ASSUME TypeOK, NoTwinJobs, NEW u \in Workers, resQ[u] # <<>>,
         resQ' = [resQ EXCEPT ![u] = Tail(@)]
  PROVE  /\ \A w \in Workers : ResJobs(w)' \subseteq ResJobs(w)
         /\ \A w \in Workers : \A i, j \in 1 .. Len(resQ'[w]) :
              Tok(resQ'[w][i]) = Tok(resQ'[w][j]) => i = j
         /\ Tok(Head(resQ[u])) \in ResJobs(u)
         /\ Tok(Head(resQ[u])) \notin WorkJobs(u) \cup ExecJobs(u) \cup ResJobs(u)'
<1> DEFINE q == resQ[u]
           t == Tail(q)
<1>1. /\ q \in Seq(Result) /\ Len(q) \in Nat \ {0} /\ Head(q) = q[1]
      /\ Len(t) = Len(q) - 1 /\ \A i \in 1 .. Len(t) : t[i] = q[i + 1]
  BY HeadTailProperties, EmptySeq DEF TypeOK
<1>2. resQ'[u] = t /\ \A w \in Workers \ {u} : resQ'[w] = resQ[w]
  BY DEF TypeOK
<1>3. \A i, j \in 1 .. Len(q) : Tok(q[i]) = Tok(q[j]) => i = j
  BY DEF NoTwinJobs
<1> HIDE DEF q, t
<1>4. \A i \in 1 .. Len(t) : i + 1 \in 1 .. Len(q) /\ i + 1 # 1
  BY <1>1
<1>5. {Tok(t[i]) : i \in 1 .. Len(t)} \subseteq {Tok(q[i]) : i \in 1 .. Len(q)} \ {Tok(q[1])}
  <2> SUFFICES ASSUME NEW i \in 1 .. Len(t)
               PROVE  Tok(t[i]) \in {Tok(q[j]) : j \in 1 .. Len(q)} \ {Tok(q[1])}
    OBVIOUS
  <2>1. t[i] = q[i + 1] /\ i + 1 \in 1 .. Len(q) /\ i + 1 # 1 /\ 1 \in 1 .. Len(q)
    BY <1>1, <1>4
  <2>2. QED
    BY <1>3, <2>1
<1>6. \A i, j \in 1 .. Len(t) : Tok(t[i]) = Tok(t[j]) => i = j
  <2> SUFFICES ASSUME NEW i \in 1 .. Len(t), NEW j \in 1 .. Len(t), Tok(t[i]) = Tok(t[j])
               PROVE  i = j
    OBVIOUS
  <2>1. i + 1 = j + 1
    BY <1>1, <1>3, <1>4
  <2>2. QED
    BY <1>1, <2>1
<1>7. ResJobs(u)' = {Tok(t[i]) : i \in 1 .. Len(t)} /\ ResJobs(u) = {Tok(q[i]) : i \in 1 .. Len(q)}
  BY <1>2 DEF ResJobs, q
<1>8. \A w \in Workers \ {u} : ResJobs(w)' = ResJobs(w)
  BY <1>2 DEF ResJobs
<1>9. \A w \in Workers : ResJobs(w)' \subseteq ResJobs(w)
  BY <1>5, <1>7, <1>8
<1>10. Tok(Head(resQ[u])) \in ResJobs(u) /\ Tok(Head(resQ[u])) \notin ResJobs(u)'
  <2>1. 1 \in 1 .. Len(q)
    BY <1>1
  <2>2. Head(resQ[u]) = q[1]
    BY <1>1 DEF q
  <2>3. QED
    BY <1>5, <1>7, <2>1, <2>2
<1>11. Tok(Head(resQ[u])) \notin WorkJobs(u) \cup ExecJobs(u)
  BY <1>10 DEF NoTwinJobs
<1>12. \A w \in Workers : \A i, j \in 1 .. Len(resQ'[w]) : Tok(resQ'[w][i]) = Tok(resQ'[w][j]) => i = j
  <2> SUFFICES ASSUME NEW w \in Workers
               PROVE  \A i, j \in 1 .. Len(resQ'[w]) : Tok(resQ'[w][i]) = Tok(resQ'[w][j]) => i = j
    OBVIOUS
  <2>1. CASE w = u
    BY <1>2, <1>6, <2>1
  <2>2. CASE w # u
    BY <1>2, <2>2 DEF NoTwinJobs
  <2>3. QED
    BY <2>1, <2>2
<1>13. QED
  BY <1>9, <1>10, <1>11, <1>12

(* Queueing at most one new request.                                       *)
LEMMA PushWork ==
  ASSUME TypeOK, NoTwinJobs, NEW v \in Workers, NEW x \in Request,
         x \notin WorkJobs(v),
         workQ' = [workQ EXCEPT ![v] = @ \o <<x>>]
  PROVE  /\ \A w \in Workers \ {v} : WorkJobs(w)' = WorkJobs(w)
         /\ WorkJobs(v)' = WorkJobs(v) \cup {x}
         /\ \A w \in Workers : \A i, j \in 1 .. Len(workQ'[w]) : workQ'[w][i] = workQ'[w][j] => i = j
<1> DEFINE q == workQ[v]
           t == q \o <<x>>
<1>1. q \in Seq(Request) /\ <<x>> \in Seq(Request) /\ Len(<<x>>) = 1 /\ <<x>>[1] = x
  BY DEF TypeOK
<1>2. /\ Len(t) = Len(q) + 1 /\ Len(q) \in Nat
      /\ \A i \in 1 .. Len(q) + 1 : t[i] = IF i <= Len(q) THEN q[i] ELSE x
  <2>1. Len(q) \in Nat
    BY <1>1, LenProperties
  <2>2. /\ Len(t) = Len(q) + Len(<<x>>)
        /\ \A i \in 1 .. Len(q) + Len(<<x>>) :
             t[i] = IF i <= Len(q) THEN q[i] ELSE <<x>>[i - Len(q)]
    BY <1>1, ConcatProperties
  <2>3. QED
    BY <1>1, <2>1, <2>2
<1>3. workQ'[v] = t /\ \A w \in Workers \ {v} : workQ'[w] = workQ[w]
  BY DEF TypeOK
<1>4. /\ \A i, j \in 1 .. Len(q) : q[i] = q[j] => i = j
      /\ \A i \in 1 .. Len(q) : q[i] # x
  BY DEF NoTwinJobs, WorkJobs
<1>5. WorkJobs(v) = {q[i] : i \in 1 .. Len(q)} /\ WorkJobs(v)' = {t[i] : i \in 1 .. Len(t)}
  BY <1>3 DEF WorkJobs
<1> HIDE DEF q, t
<1>6. {t[i] : i \in 1 .. Len(t)} = {q[i] : i \in 1 .. Len(q)} \cup {x}
  <2>1. \A i \in 1 .. Len(t) : t[i] \in {q[j] : j \in 1 .. Len(q)} \cup {x}
    BY <1>2
  <2>2. \A i \in 1 .. Len(q) : i \in 1 .. Len(t) /\ q[i] = t[i]
    BY <1>2
  <2>3. Len(q) + 1 \in 1 .. Len(t) /\ t[Len(q) + 1] = x
    BY <1>2
  <2>4. QED
    BY <2>1, <2>2, <2>3
<1>7. \A i, j \in 1 .. Len(t) : t[i] = t[j] => i = j
  BY <1>2, <1>4
<1>8. \A w \in Workers \ {v} : WorkJobs(w)' = WorkJobs(w)
  BY <1>3 DEF WorkJobs
<1>9. \A w \in Workers : \A i, j \in 1 .. Len(workQ'[w]) : workQ'[w][i] = workQ'[w][j] => i = j
  <2> SUFFICES ASSUME NEW w \in Workers
               PROVE  \A i, j \in 1 .. Len(workQ'[w]) : workQ'[w][i] = workQ'[w][j] => i = j
    OBVIOUS
  <2>1. CASE w = v
    BY <1>3, <1>7, <2>1
  <2>2. CASE w # v
    BY <1>3, <2>2 DEF NoTwinJobs
  <2>3. QED
    BY <2>1, <2>2
<1>10. QED
  BY <1>5, <1>6, <1>8, <1>9

(* Whether record r of connection c waits for a worker in direction d, if  *)
(* p is the connection being parsed.                                       *)
RBusy(r, c, d, p) == IF d = "SEND" THEN r.send \in SendBusy ELSE r.recv \in RecvBusy /\ p # c

(* What is left at worker v once the processed result is gone.             *)
Left(v) == WorkJobs(v) \cup ExecJobs(v) \cup ResJobs(v)'

(* The end of an event keeps the invariant if the new record waits for     *)
(* what is left of the connection's requests and for the new one.          *)
LEMMA CommitJobs ==
  ASSUME JobInv, TypeOK', NEW c \in Conns, NEW r \in ConnType,
         NEW v \in Workers, conn[c].worker = v, r.worker = v,
         NEW jobs, jobs = <<>> \/ \E d \in {"SEND", "RECV"} : jobs = <<Job(c, d)>>,
         Commit(c, r, jobs), exec' = exec,
         \A w \in Workers : ResJobs(w)' \subseteq ResJobs(w),
         \A w \in Workers : \A i, j \in 1 .. Len(resQ'[w]) :
            Tok(resQ'[w][i]) = Tok(resQ'[w][j]) => i = j,
         parsing'.c \in {parsing.c, NoConn},
         \A d \in {"SEND", "RECV"} :
            Job(c, d) \in Left(v) => RBusy(r, c, d, parsing'.c),
         \A d \in {"SEND", "RECV"} :
            jobs = <<Job(c, d)>> => /\ Job(c, d) \notin Left(v)
                                    /\ RBusy(r, c, d, parsing'.c)
  PROVE  AllValid' /\ NoTwinJobs'
<1> DEFINE gone == r.send = "SendClose" /\ r.recv = "RecvClose"
<1> USE DEF JobInv
<1>1. conn' = [conn EXCEPT ![c] = IF gone THEN NewConn(NoWorker) ELSE r]
  BY DEF Commit
<1>2. \A x \in Conns \ {c} : conn'[x] = conn[x]
  BY <1>1 DEF TypeOK
<1>3. ASSUME NEW d \in {"SEND", "RECV"}, RBusy(r, c, d, parsing'.c)
      PROVE  Valid(Job(c, d), v)'
  <2>1. ~gone
    BY <1>3 DEF RBusy, SendBusy, RecvBusy
  <2>2. conn'[c] = r
    BY <1>1, <2>1 DEF TypeOK
  <2>3. QED
    BY <1>3, <2>2 DEF RBusy, Valid, Busy, Job
<1>4. ASSUME NEW w \in Workers, NEW x \in WorkJobs(w) \cup ExecJobs(w) \cup ResJobs(w)',
             x.connection # c
      PROVE  Valid(x, w)'
  <2>1. x \in Request /\ Valid(x, w)
    BY <1>4, JobsAreRequests DEF AllValid
  <2>2. conn'[x.connection] = conn[x.connection]
    BY <1>2, <1>4, <2>1 DEF Request
  <2>3. parsing'.c # x.connection \/ parsing'.c = parsing.c
    BY <2>1, NullAssumption DEF Request
  <2>4. QED
    BY <2>1, <2>2, <2>3 DEF Valid, Busy
<1>5. ASSUME NEW w \in Workers, NEW x \in WorkJobs(w) \cup ExecJobs(w) \cup ResJobs(w)',
             x.connection = c
      PROVE  Valid(x, w)'
  <2>1. x \in Request /\ Valid(x, w)
    BY <1>5, JobsAreRequests DEF AllValid
  <2>2. w = v
    BY <1>5, <2>1 DEF Valid
  <2>3. x = Job(c, x.evt) /\ x.evt \in {"SEND", "RECV"}
    BY <1>5, <2>1 DEF Request, Job
  <2>4. RBusy(r, c, x.evt, parsing'.c)
    BY <1>5, <2>2, <2>3 DEF Left
  <2>5. QED
    BY <1>3, <2>2, <2>3, <2>4
<1>6. ASSUME NEW w \in Workers, NEW x \in WorkJobs(w) \cup ExecJobs(w) \cup ResJobs(w)'
      PROVE  Valid(x, w)'
  BY <1>4, <1>5, <1>6
<1>7. \A w \in Workers : ExecJobs(w)' = ExecJobs(w)
  BY DEF ExecJobs
<1>8. CASE workQ' = workQ
  <2>1. \A w \in Workers : WorkJobs(w)' = WorkJobs(w)
    BY <1>8 DEF WorkJobs
  <2>2. AllValid'
    BY <1>6, <1>7, <2>1 DEF AllValid
  <2>3. NoTwinJobs'
    BY <1>7, <1>8, <2>1 DEF NoTwinJobs
  <2>4. QED
    BY <2>2, <2>3
<1>9. CASE jobs # <<>> /\ workQ' = [workQ EXCEPT ![v] = @ \o jobs]
  <2>1. PICK d \in {"SEND", "RECV"} : jobs = <<Job(c, d)>>
    BY <1>9
  <2>2. Job(c, d) \in Request /\ Job(c, d) \notin Left(v) /\ Valid(Job(c, d), v)'
    BY <1>3, <2>1, JobType
  <2>3. /\ \A w \in Workers \ {v} : WorkJobs(w)' = WorkJobs(w)
        /\ WorkJobs(v)' = WorkJobs(v) \cup {Job(c, d)}
        /\ \A w \in Workers : \A i, j \in 1 .. Len(workQ'[w]) : workQ'[w][i] = workQ'[w][j] => i = j
    <3>1. Job(c, d) \notin WorkJobs(v)
      BY <2>2 DEF Left
    <3>2. workQ' = [workQ EXCEPT ![v] = @ \o <<Job(c, d)>>]
      BY <1>9, <2>1
    <3>3. QED
      BY <2>2, <3>1, <3>2, PushWork
  <2>4. AllValid'
    BY <1>6, <1>7, <2>2, <2>3 DEF AllValid
  <2>5. NoTwinJobs'
    <3> SUFFICES ASSUME NEW w \in Workers
                 PROVE  /\ WorkJobs(w)' \cap ExecJobs(w)' = {}
                        /\ WorkJobs(w)' \cap ResJobs(w)' = {}
                        /\ ExecJobs(w)' \cap ResJobs(w)' = {}
      BY <2>3 DEF NoTwinJobs
    <3>1. CASE w = v
      BY <1>7, <2>2, <2>3, <3>1 DEF NoTwinJobs, Left
    <3>2. CASE w # v
      BY <1>7, <2>3, <3>2 DEF NoTwinJobs
    <3>3. QED
      BY <3>1, <3>2
  <2>6. QED
    BY <2>4, <2>5
<1>10. QED
  <2>1. workQ' = workQ \/ workQ' = [workQ EXCEPT ![v] = workQ[v] \o jobs]
    BY DEF Commit
  <2>2. jobs = <<>> => workQ[v] \o jobs = workQ[v]
    BY ConcatEmptySeq DEF TypeOK
  <2>3. jobs = <<>> => workQ' = workQ
    BY <2>1, <2>2 DEF TypeOK
  <2>4. QED
    BY <1>8, <1>9, <2>1, <2>3

(* A job that is left when a result is taken belongs to a waiting machine. *)
LEMMA LeftValid ==
  ASSUME JobInv, NEW c \in Conns, NEW v \in Workers, NEW d \in {"SEND", "RECV"},
         ResJobs(v)' \subseteq ResJobs(v), Job(c, d) \in Left(v)
  PROVE  Busy(c, d)
<1>1. Valid(Job(c, d), v)
  BY DEF JobInv, AllValid, Left
<1>2. QED
  BY <1>1 DEF Valid, Job

(* An event, which is no result whose request is still under way: it       *)
(* begins at most one request, for which the connection then waits and of  *)
(* which nothing is left; it goes on waiting for what is left.             *)
LEMMA EventBegins ==
  ASSUME JobInv, NEW c \in Conns, NEW v \in Workers, conn[c].worker = v,
         NEW r \in ConnType, r.worker = v, r.send = conn[c].send, r.recv = conn[c].recv,
         NEW e \in NetEvents, ~(e = "RECV_DONE" /\ Awaiting(c)), OnEvent(c, r, e),
         ResJobs(v)' \subseteq ResJobs(v),
         e \in SendResults => Job(c, "SEND") \notin Left(v),
         e \in RecvResults => Job(c, "RECV") \notin Left(v) /\ parsing.c # c
  PROVE  \E q \in ConnType, jobs \in {<<>>, <<Job(c, "SEND")>>, <<Job(c, "RECV")>>} :
           /\ Commit(c, q, jobs) /\ q.worker = v /\ q.recv = RecvOn(r.recv, e).to
           /\ \A d \in {"SEND", "RECV"} :
                /\ Job(c, d) \in Left(v) => RBusy(q, c, d, parsing.c)
                /\ jobs = <<Job(c, d)>> => Job(c, d) \notin Left(v) /\ RBusy(q, c, d, parsing.c)
                /\ RBusy(q, c, d, parsing.c) =>
                     \/ jobs = <<Job(c, d)>>
                     \/ Busy(c, d) /\ ~(e \in SendResults \cup RecvResults /\ Direction(e) = d)
<1> DEFINE s == SendOn(r.send, e)
           t == RecvOn(r.recv, e)
           r1 == SendMachine(r, s)
           r2 == [r1 EXCEPT !.recv = t.to]
           jobs == SendJobs(c, r, s) \o RecvJobs(c, t)
<1>1. r.send \in SendStates /\ r.recv \in RecvStates
  BY DEF ConnType
<1>2. /\ s.to \in SendStates /\ s.act \in {"go", "begin"}
      /\ t.to \in RecvStates /\ t.act \in {"go", "begin"}
  BY <1>1, SendOnType, RecvOnType
<1>3. /\ r1 \in ConnType /\ r1.worker = v
      /\ s.act = "go" => r1.send = s.to
      /\ s.act = "begin" /\ Fits(r) => r1.send = s.to
      /\ s.act = "begin" /\ ~Fits(r) => r1.send = "SendClose"
  <2> HIDE DEF s
  <2>1. r1 \in ConnType /\ r1.worker = v
    BY <1>2, SendMachineType
  <2>2. /\ s.act = "go" => r1.send = s.to
        /\ s.act = "begin" /\ Fits(r) => r1.send = s.to
        /\ s.act = "begin" /\ ~Fits(r) => r1.send = "SendClose"
    BY DEF SendMachine, BeginSend, ConnType
  <2>3. QED
    BY <2>1, <2>2
<1>4. /\ r2 \in ConnType /\ r2.worker = v /\ r2.send = r1.send /\ r2.recv = t.to
  <2> HIDE DEF t, r1
  <2>1. QED BY <1>2, <1>3 DEF ConnType
<1>5. Commit(c, r2, jobs)
  BY DEF OnEvent
<1>6. /\ SendJobs(c, r, s) # <<>> => s.act = "begin" /\ Fits(r)
      /\ s.act = "begin" /\ Fits(r) => SendJobs(c, r, s) = <<Job(c, "SEND")>>
  BY DEF SendJobs
<1>7. /\ RecvJobs(c, t) # <<>> => t.act = "begin"
      /\ t.act = "begin" => RecvJobs(c, t) = <<Job(c, "RECV")>>
  BY DEF RecvJobs
<1>8. /\ jobs = <<>> \/ jobs = <<Job(c, "SEND")>> \/ jobs = <<Job(c, "RECV")>>
      /\ jobs = <<Job(c, "SEND")>> <=> s.act = "begin" /\ Fits(r)
      /\ jobs = <<Job(c, "RECV")>> <=> t.act = "begin"
  <2>1. t.act = "begin" => s.act = "go"
    BY <1>1, OneBegin
  <2>2. /\ SendJobs(c, r, s) \in Seq(Request) /\ RecvJobs(c, t) \in Seq(Request)
        /\ (RecvJobs(c, t) = <<>> => jobs = SendJobs(c, r, s))
        /\ (SendJobs(c, r, s) = <<>> => jobs = RecvJobs(c, t))
    BY JobsType, ConcatEmptySeq
  <2>3. SendJobs(c, r, s) = <<>> \/ RecvJobs(c, t) = <<>>
    BY <1>6, <1>7, <2>1
  <2>4. /\ <<Job(c, "SEND")>> # <<Job(c, "RECV")>>
        /\ <<Job(c, "SEND")>> # <<>> /\ <<Job(c, "RECV")>> # <<>>
    <3>1. Job(c, "SEND") # Job(c, "RECV")
      BY DEF Job
    <3>2. \A x, y : x # y => <<x>> # <<y>> /\ <<x>> # <<>>
      OBVIOUS
    <3>3. QED
      BY <3>1, <3>2
  <2> DEFINE sj == SendJobs(c, r, s)
             rj == RecvJobs(c, t)
             one == <<Job(c, "SEND")>>
             two == <<Job(c, "RECV")>>
  <2>5. /\ sj # <<>> => s.act = "begin" /\ Fits(r)
        /\ s.act = "begin" /\ Fits(r) => sj = one
        /\ rj # <<>> => t.act = "begin"
        /\ t.act = "begin" => rj = two
        /\ rj = <<>> => jobs = sj
        /\ sj = <<>> => jobs = rj
        /\ sj = <<>> \/ rj = <<>>
        /\ one # two /\ one # <<>> /\ two # <<>>
    BY <1>6, <1>7, <2>2, <2>3, <2>4
  <2> HIDE DEF sj, rj, one, two, s, t, jobs
  <2>6. /\ jobs = <<>> \/ jobs = one \/ jobs = two
        /\ jobs = one <=> s.act = "begin" /\ Fits(r)
        /\ jobs = two <=> t.act = "begin"
    BY <2>5
  <2>7. QED
    BY <2>6 DEF one, two
<1> HIDE DEF s, t, r1, r2, jobs
<1>9. Job(c, "SEND") \in Left(v) => r2.send \in SendBusy /\ s.act = "go"
  <2> SUFFICES ASSUME Job(c, "SEND") \in Left(v) PROVE r2.send \in SendBusy /\ s.act = "go"
    OBVIOUS
  <2>1. r.send \in SendBusy /\ e \notin SendResults
    BY LeftValid DEF Busy
  <2>2. s.to \in SendBusy /\ s.act = "go"
    BY <2>1, SendBusyStays DEF s
  <2>3. QED
    BY <1>3, <1>4, <2>2
<1>10. s.act = "begin" /\ Fits(r) => r2.send \in SendBusy
  <2> SUFFICES ASSUME s.act = "begin", Fits(r) PROVE r2.send \in SendBusy
    OBVIOUS
  <2>1. r.send \notin SendBusy \/ e \in SendResults
    BY SendBusyStays DEF s
  <2>2. s.to \in SendBusy
    BY <1>1, <2>1, SendIdleBegins DEF s
  <2>3. QED
    BY <1>3, <1>4, <2>2
<1>11. Job(c, "RECV") \in Left(v) => r2.recv \in RecvBusy /\ parsing.c # c /\ t.act = "go"
  <2> SUFFICES ASSUME Job(c, "RECV") \in Left(v)
               PROVE  r2.recv \in RecvBusy /\ parsing.c # c /\ t.act = "go"
    OBVIOUS
  <2>1. r.recv \in RecvBusy /\ parsing.c # c /\ e \notin RecvResults
    BY LeftValid DEF Busy
  <2>2. t.to \in RecvBusy /\ t.act = "go"
    BY <2>1, RecvBusyStays DEF t
  <2>3. QED
    BY <1>4, <2>1, <2>2
<1>12. t.act = "begin" => r2.recv \in RecvBusy /\ parsing.c # c
  <2> SUFFICES ASSUME t.act = "begin" PROVE r2.recv \in RecvBusy /\ parsing.c # c
    OBVIOUS
  <2>1. r.recv \notin RecvBusy \/ e \in RecvResults
    BY RecvBusyStays DEF t
  <2>2. ~(e = "RECV_DONE" /\ r.recv \in {"Recving", "RecvingWait"})
    BY DEF Awaiting
  <2>3. t.to \in RecvBusy
    BY <1>1, <2>1, <2>2, RecvIdleBegins DEF t
  <2>4. parsing.c # c
    BY <2>1, NullAssumption DEF JobInv, ParseGuard, Parsing
  <2>5. QED
    BY <1>4, <2>3, <2>4
<1>13. r2.send \in SendBusy =>
         jobs = <<Job(c, "SEND")>> \/ (r.send \in SendBusy /\ e \notin SendResults)
  <2> SUFFICES ASSUME r2.send \in SendBusy, ~(r.send \in SendBusy /\ e \notin SendResults)
               PROVE  s.act = "begin" /\ Fits(r)
    BY <1>8
  <2>1. s.act = "begin" <=> s.to \in SendBusy
    BY <1>1, SendIdleBegins DEF s
  <2>2. "SendClose" \notin SendBusy
    BY DEF SendBusy
  <2>3. QED
    BY <1>2, <1>3, <1>4, <2>1, <2>2
<1>14. r2.recv \in RecvBusy =>
         jobs = <<Job(c, "RECV")>> \/ (r.recv \in RecvBusy /\ e \notin RecvResults)
  <2> SUFFICES ASSUME r2.recv \in RecvBusy, ~(r.recv \in RecvBusy /\ e \notin RecvResults)
               PROVE  t.act = "begin"
    BY <1>8
  <2>1. ~(e = "RECV_DONE" /\ r.recv \in {"Recving", "RecvingWait"})
    BY DEF Awaiting
  <2>2. t.act = "begin" <=> t.to \in RecvBusy
    BY <1>1, <2>1, RecvIdleBegins DEF t
  <2>3. QED
    BY <1>4, <2>2
<1>15. ASSUME NEW d \in {"SEND", "RECV"}, RBusy(r2, c, d, parsing.c)
       PROVE  \/ jobs = <<Job(c, d)>>
              \/ Busy(c, d) /\ ~(e \in SendResults \cup RecvResults /\ Direction(e) = d)
  <2>1. CASE d = "SEND"
    BY <1>13, <1>15, <2>1 DEF RBusy, Busy, Direction
  <2>2. CASE d = "RECV"
    <3>1. e \in SendResults => e \notin RecvResults
      BY DEF SendResults, RecvResults
    <3>2. QED
      BY <1>14, <1>15, <2>2, <3>1 DEF RBusy, Busy, Direction
  <2>3. QED
    BY <2>1, <2>2
<1>16. \A d \in {"SEND", "RECV"} : Job(c, d) \in Left(v) => RBusy(r2, c, d, parsing.c)
  BY <1>9, <1>11 DEF RBusy
<1>17. \A d \in {"SEND", "RECV"} :
         jobs = <<Job(c, d)>> => Job(c, d) \notin Left(v) /\ RBusy(r2, c, d, parsing.c)
  BY <1>8, <1>9, <1>10, <1>11, <1>12 DEF RBusy
<1>18. r2.recv = RecvOn(r.recv, e).to /\ jobs \in {<<>>, <<Job(c, "SEND")>>, <<Job(c, "RECV")>>}
  BY <1>4, <1>8 DEF t
<1>19. QED
  BY <1>4, <1>5, <1>15, <1>16, <1>17, <1>18

(* Hence an event keeps the invariant.                                     *)
LEMMA EventJobs ==
  ASSUME JobInv, TypeOK', NEW c \in Conns, NEW v \in Workers, conn[c].worker = v,
         NEW r \in ConnType, r.worker = v, r.send = conn[c].send, r.recv = conn[c].recv,
         NEW e \in NetEvents, ~(e = "RECV_DONE" /\ Awaiting(c)),
         OnEvent(c, r, e), exec' = exec, parsing' = parsing,
         \A w \in Workers : ResJobs(w)' \subseteq ResJobs(w),
         \A w \in Workers : \A i, j \in 1 .. Len(resQ'[w]) :
            Tok(resQ'[w][i]) = Tok(resQ'[w][j]) => i = j,
         e \in SendResults => Job(c, "SEND") \notin Left(v),
         e \in RecvResults => Job(c, "RECV") \notin Left(v) /\ parsing.c # c
  PROVE  AllValid' /\ NoTwinJobs' /\ ParseGuard'
<1>1. PICK q \in ConnType, jobs \in {<<>>, <<Job(c, "SEND")>>, <<Job(c, "RECV")>>} :
        /\ Commit(c, q, jobs) /\ q.worker = v /\ q.recv = RecvOn(r.recv, e).to
        /\ \A d \in {"SEND", "RECV"} :
             /\ Job(c, d) \in Left(v) => RBusy(q, c, d, parsing.c)
             /\ jobs = <<Job(c, d)>> => Job(c, d) \notin Left(v) /\ RBusy(q, c, d, parsing.c)
  BY EventBegins
<1>2. AllValid' /\ NoTwinJobs'
  <2>1. parsing'.c \in {parsing.c, NoConn} /\ parsing'.c = parsing.c
    OBVIOUS
  <2>2. jobs = <<>> \/ \E d \in {"SEND", "RECV"} : jobs = <<Job(c, d)>>
    OBVIOUS
  <2>3. QED
    BY <1>1, <2>1, <2>2, CommitJobs
<1>3. ParseGuard'
  <2> SUFFICES ASSUME Parsing PROVE conn'[parsing.c].worker # NoWorker /\ conn'[parsing.c].recv \in RecvBusy
    BY DEF ParseGuard, Parsing
  <2>1. /\ parsing.c \in Conns /\ conn[parsing.c].worker # NoWorker
        /\ conn[parsing.c].recv \in RecvBusy
    BY DEF JobInv, ParseGuard, Parsing, TypeOK
  <2>2. CASE parsing.c # c
    BY <1>1, <2>1, <2>2 DEF Commit, JobInv, TypeOK
  <2>3. CASE parsing.c = c
    <3>1. q.recv \in RecvBusy
      BY <1>1, <2>1, <2>3, RecvBusyStays
    <3>2. conn'[c] = q
      BY <1>1, <3>1 DEF Commit, JobInv, TypeOK, RecvBusy
    <3>3. QED
      BY <1>1, <2>3, <3>1, <3>2, NullAssumption
  <2>4. QED
    BY <2>2, <2>3
<1>4. QED
  BY <1>2, <1>3

(* The same for the end of OnEvent after ProcessPacket.                    *)
LEMMA ProcessedJobs ==
  ASSUME JobInv, TypeOK', NEW c \in Conns, NEW v \in Workers, conn[c].worker = v,
         NEW r \in ConnType, r.worker = v, r.send = conn[c].send,
         NEW from \in {"Recving", "RecvingWait"}, NEW ok \in BOOLEAN,
         Processed(c, r, from, ok), exec' = exec, parsing'.c = NoConn,
         \A w \in Workers : ResJobs(w)' \subseteq ResJobs(w),
         \A w \in Workers : \A i, j \in 1 .. Len(resQ'[w]) :
            Tok(resQ'[w][i]) = Tok(resQ'[w][j]) => i = j,
         Job(c, "RECV") \notin Left(v)
  PROVE  AllValid' /\ NoTwinJobs' /\ ParseGuard'
<1> DEFINE t == AfterProcess(from, ok)
           r2 == [r EXCEPT !.recv = t.to, !.refused = ~ok]
           jobs == RecvJobs(c, t)
<1>1. r2 \in ConnType /\ r2.worker = v /\ r2.send = r.send /\ r2.recv = t.to
  BY AfterProcessType DEF ConnType
<1>2. Commit(c, r2, jobs)
  BY DEF Processed
<1>3. jobs = <<>> \/ (jobs = <<Job(c, "RECV")>> /\ t.to \in RecvBusy)
  BY DEF AfterProcess, Go, Begin, RecvJobs, RecvBusy
<1>4. <<Job(c, "SEND")>> # <<Job(c, "RECV")>> /\ <<Job(c, "SEND")>> # <<>> /\ <<Job(c, "RECV")>> # <<>>
  <2>1. Job(c, "SEND") # Job(c, "RECV")
    BY DEF Job
  <2>2. \A x, y : x # y => <<x>> # <<y>> /\ <<x>> # <<>> /\ <<y>> # <<>>
    OBVIOUS
  <2>3. QED
    BY <2>1, <2>2
<1> HIDE DEF t, r2, jobs
<1>5. NoConn # c
  BY NullAssumption
<1>6. \A d \in {"SEND", "RECV"} : Job(c, d) \in Left(v) => RBusy(r2, c, d, parsing'.c)
  <2>1. Job(c, "SEND") \in Left(v) => r2.send \in SendBusy
    <3>1. Job(c, "SEND") \in Left(v) => Busy(c, "SEND")
      BY LeftValid
    <3>2. QED
      BY <1>1, <3>1 DEF Busy
  <2>2. QED
    BY <2>1 DEF RBusy
<1>7. \A d \in {"SEND", "RECV"} :
        jobs = <<Job(c, d)>> => Job(c, d) \notin Left(v) /\ RBusy(r2, c, d, parsing'.c)
  BY <1>1, <1>3, <1>4, <1>5 DEF RBusy
<1>8. AllValid' /\ NoTwinJobs'
  BY <1>1, <1>2, <1>3, <1>6, <1>7, CommitJobs
<1>9. ParseGuard'
  BY DEF ParseGuard, Parsing
<1>10. QED
  BY <1>8, <1>9

(* A step that moves no machine and begins no request keeps the jobs valid. *)
LEMMA SameMachines ==
  ASSUME JobInv, TypeOK', parsing'.c = parsing.c,
         \A c \in Conns : /\ conn'[c].worker = conn[c].worker
                          /\ conn'[c].send = conn[c].send
                          /\ conn'[c].recv = conn[c].recv,
         \A w \in Workers : WorkJobs(w)' \cup ExecJobs(w)' \cup ResJobs(w)'
                              \subseteq WorkJobs(w) \cup ExecJobs(w) \cup ResJobs(w)
  PROVE  AllValid' /\ ParseGuard'
<1>1. ASSUME NEW w \in Workers, NEW x \in WorkJobs(w)' \cup ExecJobs(w)' \cup ResJobs(w)'
      PROVE  Valid(x, w)'
  <2>1. Valid(x, w) /\ x \in Request
    BY <1>1, JobsAreRequests DEF JobInv, AllValid
  <2>2. x.connection \in Conns
    BY <2>1 DEF Request
  <2>3. QED
    BY <2>1, <2>2 DEF Valid, Busy
<1>2. AllValid'
  BY <1>1 DEF AllValid
<1>3. ParseGuard'
  <2> SUFFICES ASSUME Parsing PROVE conn'[parsing.c].worker # NoWorker /\ conn'[parsing.c].recv \in RecvBusy
    BY DEF ParseGuard, Parsing
  <2>1. parsing.c \in Conns
    BY DEF JobInv, TypeOK, Parsing
  <2>2. QED
    BY <2>1 DEF JobInv, ParseGuard
<1>4. QED
  BY <1>2, <1>3

(* Steps that change neither queues nor machines keep the invariant.       *)
LEMMA SameJobs ==
  ASSUME JobInv, TypeOK', parsing'.c = parsing.c, UNCHANGED <<workQ, exec, resQ>>,
         \A c \in Conns : /\ conn'[c].worker = conn[c].worker
                          /\ conn'[c].send = conn[c].send
                          /\ conn'[c].recv = conn[c].recv
  PROVE  JobInv'
<1>1. \A w \in Workers : /\ WorkJobs(w)' = WorkJobs(w)
                         /\ ExecJobs(w)' = ExecJobs(w)
                         /\ ResJobs(w)' = ResJobs(w)
  BY DEF WorkJobs, ExecJobs, ResJobs
<1>2. AllValid' /\ ParseGuard'
  BY <1>1, SameMachines
<1>3. NoTwinJobs'
  BY <1>1 DEF JobInv, NoTwinJobs
<1>4. QED
  BY <1>2, <1>3 DEF JobInv

(* An event that is not a worker's answer.                                 *)
LEMMA OtherEvent ==
  ASSUME JobInv, TypeOK', NEW c \in Conns, conn[c].worker # NoWorker,
         NEW r \in ConnType, r.worker = conn[c].worker,
         r.send = conn[c].send, r.recv = conn[c].recv,
         NEW e \in NetEvents \ (SendResults \cup RecvResults),
         OnEvent(c, r, e), UNCHANGED <<parsing, exec, resQ>>
  PROVE  JobInv'
<1>1. PICK v \in Workers : conn[c].worker = v
  BY DEF JobInv, TypeOK, ConnType
<1>2. \A w \in Workers : ResJobs(w)' \subseteq ResJobs(w)
  BY DEF ResJobs
<1>3. \A w \in Workers : \A i, j \in 1 .. Len(resQ'[w]) : Tok(resQ'[w][i]) = Tok(resQ'[w][j]) => i = j
  BY DEF JobInv, NoTwinJobs
<1>4. e # "RECV_DONE" /\ e \notin SendResults /\ e \notin RecvResults /\ e \in NetEvents
  BY DEF RecvResults
<1>5. AllValid' /\ NoTwinJobs' /\ ParseGuard'
  BY <1>1, <1>2, <1>3, <1>4, EventJobs
<1>6. QED
  BY <1>5 DEF JobInv

(* The result at the head of a queue: its connection is open with this     *)
(* worker, and nothing else of its request is under way.                   *)
LEMMA HeadResult ==
  ASSUME JobInv, NEW w \in Workers, resQ[w] # <<>>, resQ' = [resQ EXCEPT ![w] = Tail(@)],
         NEW c \in Conns, c = Head(resQ[w]).connection,
         NEW e, e = Head(resQ[w]).evt
  PROVE  /\ e \in SendResults \cup RecvResults
         /\ conn[c].worker = w
         /\ Job(c, Direction(e)) \notin Left(w)
         /\ \A v \in Workers : ResJobs(v)' \subseteq ResJobs(v)
         /\ \A v \in Workers : \A i, j \in 1 .. Len(resQ'[v]) :
              Tok(resQ'[v][i]) = Tok(resQ'[v][j]) => i = j
<1>1. TypeOK /\ NoTwinJobs /\ AllValid
  BY DEF JobInv
<1>2. Tok(Head(resQ[w])) = Job(c, Direction(e))
  BY DEF Tok
<1>3. e \in SendResults \cup RecvResults
  <2>1. resQ[w] \in Seq(Result)
    BY <1>1 DEF TypeOK
  <2>2. Head(resQ[w]) \in Result
    BY <2>1, HeadTailProperties
  <2>3. QED
    BY <2>2 DEF Result
<1>4. Job(c, Direction(e)) \in ResJobs(w) /\ Job(c, Direction(e)) \notin Left(w)
  BY <1>1, <1>2, PopResult DEF Left
<1>5. Valid(Job(c, Direction(e)), w)
  BY <1>1, <1>4 DEF AllValid
<1>6. conn[c].worker = w
  BY <1>5 DEF Valid, Job
<1>7. QED
  BY <1>1, <1>3, <1>4, <1>6, PopResult

(* Processing a result keeps the invariant.                                *)
LEMMA DoResultJobs ==
  ASSUME JobInv, TypeOK', NEW w \in Workers, DoResult(w)
  PROVE  JobInv'
<1>1. /\ ~Parsing /\ resQ[w] # <<>> /\ resQ' = [resQ EXCEPT ![w] = Tail(@)]
      /\ UNCHANGED <<parsing, exec>>
  BY DEF DoResult
<1>2. PICK c \in Conns : c = Head(resQ[w]).connection
  BY <1>1, ResultHead DEF JobInv
<1>3. PICK e \in NetEvents : e = Head(resQ[w]).evt
  BY <1>1, ResultHead DEF JobInv
<1>4. /\ ~(e = "RECV_DONE" /\ Awaiting(c))
      /\ OnEvent(c, conn[c], e)
  BY <1>2, <1>3 DEF DoResult
<1>5. PICK r \in ConnType : r = conn[c]
  BY DEF JobInv, TypeOK
<1>6. /\ conn[c].worker = w
      /\ Job(c, Direction(e)) \notin Left(w)
      /\ \A v \in Workers : ResJobs(v)' \subseteq ResJobs(v)
      /\ \A v \in Workers : \A i, j \in 1 .. Len(resQ'[v]) :
           Tok(resQ'[v][i]) = Tok(resQ'[v][j]) => i = j
  BY <1>1, <1>2, <1>3, HeadResult
<1>7. e \in SendResults => Job(c, "SEND") \notin Left(w)
  BY <1>6 DEF Direction
<1>8. e \in RecvResults => Job(c, "RECV") \notin Left(w) /\ parsing.c # c
  <2>1. e \in RecvResults => e \notin SendResults
    BY DEF SendResults, RecvResults
  <2>2. QED
    BY <1>1, <1>6, <2>1, NullAssumption DEF Direction, Parsing
<1>9. OnEvent(c, r, e) /\ r.worker = w /\ r.send = conn[c].send /\ r.recv = conn[c].recv
  BY <1>4, <1>5, <1>6
<1>10. AllValid' /\ NoTwinJobs' /\ ParseGuard'
  BY <1>1, <1>4, <1>6, <1>7, <1>8, <1>9, EventJobs
<1>11. QED
  BY <1>10 DEF JobInv

(* Beginning ProcessPacket keeps the invariant.                            *)
LEMMA DoDataJobs ==
  ASSUME JobInv, TypeOK', NEW w \in Workers, DoData(w)
  PROVE  JobInv'
<1>1. /\ ~Parsing /\ resQ[w] # <<>> /\ resQ' = [resQ EXCEPT ![w] = Tail(@)]
      /\ exec' = exec /\ Head(resQ[w]).evt = "RECV_DONE"
  BY DEF DoData
<1>2. PICK c \in Conns : c = Head(resQ[w]).connection
  BY <1>1, ResultHead DEF JobInv
<1>3. PICK r \in ConnType : r = conn[c]
  BY DEF JobInv, TypeOK
<1>4. /\ conn[c].worker = w
      /\ Job(c, "RECV") \notin Left(w)
      /\ \A v \in Workers : ResJobs(v)' \subseteq ResJobs(v)
      /\ \A v \in Workers : \A i, j \in 1 .. Len(resQ'[v]) :
           Tok(resQ'[v][i]) = Tok(resQ'[v][j]) => i = j
  <2>1. Direction("RECV_DONE") = "RECV"
    BY DEF Direction, SendResults
  <2>2. QED
    BY <1>1, <1>2, <2>1, HeadResult
<1>5. r.recv \in {"Recving", "RecvingWait"}
  BY <1>2, <1>3 DEF DoData, Awaiting
<1>6. ASSUME NEW ok \in BOOLEAN, Processed(c, r, r.recv, ok), UNCHANGED parsing
      PROVE  JobInv'
  <2>1. parsing'.c = NoConn
    BY <1>1, <1>6 DEF Parsing
  <2>2. r.worker = w /\ r.send = conn[c].send
    BY <1>3, <1>4
  <2>3. PICK from \in {"Recving", "RecvingWait"} : from = r.recv
    BY <1>5
  <2>4. Processed(c, r, from, ok) /\ exec' = exec
    BY <1>1, <1>6, <2>3
  <2>5. AllValid' /\ NoTwinJobs' /\ ParseGuard'
    BY <1>4, <1>6, <2>1, <2>2, <2>4, ProcessedJobs, Zenon
  <2>6. QED
    BY <2>5 DEF JobInv
<1>7. ASSUME conn' = [conn EXCEPT ![c] = TakeRead(r)],
             parsing' = [c |-> c, from |-> r.recv, pos |-> 0],
             UNCHANGED <<nowConnection, sock, armed, workQ, aborted>>
      PROVE  JobInv'
  <2>1. \A x \in Conns : /\ conn'[x].worker = conn[x].worker
                         /\ conn'[x].send = conn[x].send
                         /\ conn'[x].recv = conn[x].recv
    BY <1>3, <1>7 DEF JobInv, TypeOK, ConnType, TakeRead
  <2>2. parsing'.c = c /\ parsing.c = NoConn
    BY <1>1, <1>7 DEF Parsing
  <2>3. \A v \in Workers : WorkJobs(v)' = WorkJobs(v) /\ ExecJobs(v)' = ExecJobs(v)
    BY <1>1, <1>7 DEF WorkJobs, ExecJobs
  <2>4. ASSUME NEW v \in Workers, NEW x \in WorkJobs(v) \cup ExecJobs(v) \cup ResJobs(v)'
        PROVE  Valid(x, v)'
    <3>1. x \in Request /\ Valid(x, v)
      BY <1>4, <2>4, JobsAreRequests DEF JobInv, AllValid
    <3>2. x.connection \in Conns /\ x = Job(x.connection, x.evt) /\ x.evt \in {"SEND", "RECV"}
      BY <3>1 DEF Request, Job
    <3>3. x.connection = c => v = w
      BY <1>4, <3>1 DEF Valid
    <3>4. x # Job(c, "RECV")
      <4>1. CASE x.connection = c
        BY <1>4, <2>4, <3>3, <4>1 DEF Left
      <4>2. CASE x.connection # c
        BY <4>2 DEF Job
      <4>3. QED
        BY <4>1, <4>2
    <3>5. x.evt = "SEND" \/ x.connection # c
      BY <3>2, <3>4
    <3>6. QED
      BY <2>1, <2>2, <3>1, <3>2, <3>5 DEF Valid, Busy
  <2>5. AllValid'
    BY <2>3, <2>4 DEF AllValid
  <2>6. NoTwinJobs'
    BY <1>4, <1>7, <2>3 DEF JobInv, NoTwinJobs
  <2>7. ParseGuard'
    BY <1>3, <1>4, <1>5, <2>1, <2>2, NullAssumption DEF ParseGuard, Parsing, RecvBusy
  <2>8. QED
    BY <2>5, <2>6, <2>7 DEF JobInv
<1>8. QED
  BY <1>2, <1>3, <1>6, <1>7 DEF DoData

(* Returning from ProcessPacket keeps the invariant.                       *)
LEMMA ParseReturnJobs ==
  ASSUME JobInv, TypeOK', ParseEnd \/ ParseBad
  PROVE  JobInv'
<1>1. Parsing /\ parsing' = NotParsing /\ UNCHANGED <<exec, resQ>>
  BY DEF ParseEnd, ParseBad
<1>2. PICK c \in Conns : c = parsing.c
  BY <1>1 DEF Parsing, JobInv, TypeOK
<1>3. PICK from \in {"Recving", "RecvingWait"} : from = parsing.from
  BY DEF JobInv, TypeOK
<1>4. PICK v \in Workers : conn[c].worker = v
  <2>1. conn[c].worker \in Workers \cup {NoWorker}
    BY DEF JobInv, TypeOK, ConnType
  <2>2. conn[c].worker # NoWorker
    BY <1>1, <1>2 DEF JobInv, ParseGuard
  <2>3. QED
    BY <2>1, <2>2
<1>5. conn[c] \in ConnType /\ Keep(conn[c]) \in ConnType /\ Keep(conn[c]).worker = conn[c].worker
      /\ Keep(conn[c]).send = conn[c].send
  <2>1. conn[c] \in ConnType
    BY DEF JobInv, TypeOK
  <2>2. Rest \in Seq(1 .. MaxIn)
    BY <1>1, RestType DEF JobInv
  <2>3. QED
    BY <2>1, <2>2 DEF Keep, ConnType
<1>6. \E r \in ConnType : \E ok \in BOOLEAN :
        Processed(c, r, from, ok) /\ r.worker = conn[c].worker /\ r.send = conn[c].send
  <2>1. CASE ParseEnd
    <3>1. Processed(c, Keep(conn[c]), from, TRUE)
      BY <1>2, <1>3, <2>1 DEF ParseEnd
    <3>2. QED
      BY <1>5, <3>1, Zenon
  <2>2. CASE ParseBad
    <3>1. Processed(c, conn[c], from, FALSE)
      BY <1>2, <1>3, <2>2 DEF ParseBad
    <3>2. QED
      BY <1>5, <3>1, Zenon
  <2>3. QED
    BY <2>1, <2>2
<1>7. PICK r \in ConnType : \E ok \in BOOLEAN :
        Processed(c, r, from, ok) /\ r.worker = conn[c].worker /\ r.send = conn[c].send
  BY <1>6, Zenon
<1>8. PICK ok \in BOOLEAN :
        Processed(c, r, from, ok) /\ r.worker = conn[c].worker /\ r.send = conn[c].send
  BY <1>7, Zenon
<1>9. r.worker = v
  BY <1>4, <1>8
<1>10. \A w \in Workers : ResJobs(w)' \subseteq ResJobs(w)
  BY <1>1 DEF ResJobs
<1>11. \A w \in Workers : \A i, j \in 1 .. Len(resQ'[w]) : Tok(resQ'[w][i]) = Tok(resQ'[w][j]) => i = j
  BY <1>1 DEF JobInv, NoTwinJobs
<1>12. Job(c, "RECV") \notin Left(v)
  <2>1. ResJobs(v)' \subseteq ResJobs(v)
    BY <1>10
  <2>2. Job(c, "RECV") \in Left(v) => Busy(c, "RECV")
    BY <2>1, LeftValid
  <2>3. QED
    BY <1>2, <2>2 DEF Busy
<1>13. parsing'.c = NoConn /\ exec' = exec
  BY <1>1 DEF NotParsing
<1>14. AllValid' /\ NoTwinJobs' /\ ParseGuard'
  BY <1>4, <1>8, <1>9, <1>10, <1>11, <1>12, <1>13, ProcessedJobs, Zenon
<1>15. QED
  BY <1>14 DEF JobInv

(* ThreadProc moves a request from the queue into execution.               *)
LEMMA ThreadProcJobs ==
  ASSUME JobInv, TypeOK', NEW u \in Workers, ThreadProc(u)
  PROVE  JobInv'
<1> DEFINE q == workQ[u]
           t == Tail(q)
<1>1. /\ q \in Seq(Request) /\ q # <<>> /\ exec[u] = NoJob
      /\ exec' = [exec EXCEPT ![u] = Head(q)] /\ workQ' = [workQ EXCEPT ![u] = t]
      /\ UNCHANGED <<conn, parsing, resQ>>
  BY DEF ThreadProc, JobInv, TypeOK
<1>2. /\ Len(q) \in Nat \ {0} /\ Head(q) = q[1]
      /\ Len(t) = Len(q) - 1 /\ \A i \in 1 .. Len(t) : t[i] = q[i + 1]
  BY <1>1, HeadTailProperties, EmptySeq
<1>3. /\ workQ'[u] = t /\ exec'[u] = Head(q)
      /\ \A w \in Workers \ {u} : workQ'[w] = workQ[w] /\ exec'[w] = exec[w]
  BY <1>1 DEF JobInv, TypeOK
<1>4. \A i, j \in 1 .. Len(q) : q[i] = q[j] => i = j
  BY DEF JobInv, NoTwinJobs
<1>5. \A w \in Workers : ResJobs(w)' = ResJobs(w)
  BY <1>1 DEF ResJobs
<1>6. \A w \in Workers \ {u} : WorkJobs(w)' = WorkJobs(w) /\ ExecJobs(w)' = ExecJobs(w)
  BY <1>3 DEF WorkJobs, ExecJobs
<1>7. /\ WorkJobs(u) = {q[i] : i \in 1 .. Len(q)}
      /\ WorkJobs(u)' = {t[i] : i \in 1 .. Len(t)}
      /\ ExecJobs(u)' \subseteq {q[1]}
  BY <1>2, <1>3 DEF WorkJobs, ExecJobs
<1> HIDE DEF q, t
<1>8. \A i \in 1 .. Len(t) : i + 1 \in 1 .. Len(q) /\ i + 1 # 1
  BY <1>2
<1>9. 1 \in 1 .. Len(q)
  BY <1>2
<1>10. {t[i] : i \in 1 .. Len(t)} \subseteq {q[i] : i \in 1 .. Len(q)} \ {q[1]}
  <2> SUFFICES ASSUME NEW i \in 1 .. Len(t)
               PROVE  t[i] \in {q[j] : j \in 1 .. Len(q)} \ {q[1]}
    OBVIOUS
  <2>1. t[i] = q[i + 1] /\ i + 1 \in 1 .. Len(q) /\ i + 1 # 1
    BY <1>2, <1>8
  <2>2. QED
    BY <1>4, <1>9, <2>1
<1>11. \A i, j \in 1 .. Len(t) : t[i] = t[j] => i = j
  <2> SUFFICES ASSUME NEW i \in 1 .. Len(t), NEW j \in 1 .. Len(t), t[i] = t[j] PROVE i = j
    OBVIOUS
  <2>1. i + 1 = j + 1
    BY <1>2, <1>4, <1>8
  <2>2. QED
    BY <1>2, <2>1
<1>12. q[1] \in WorkJobs(u)
  BY <1>7, <1>9
<1>13. \A w \in Workers : WorkJobs(w)' \cup ExecJobs(w)' \cup ResJobs(w)'
                            \subseteq WorkJobs(w) \cup ExecJobs(w) \cup ResJobs(w)
  <2> SUFFICES ASSUME NEW w \in Workers
               PROVE  WorkJobs(w)' \cup ExecJobs(w)' \cup ResJobs(w)'
                        \subseteq WorkJobs(w) \cup ExecJobs(w) \cup ResJobs(w)
    OBVIOUS
  <2>1. CASE w = u
    BY <1>5, <1>7, <1>10, <1>12, <2>1
  <2>2. CASE w # u
    BY <1>5, <1>6, <2>2
  <2>3. QED
    BY <2>1, <2>2
<1>14. AllValid' /\ ParseGuard'
  BY <1>1, <1>13, SameMachines
<1>15. NoTwinJobs'
  <2> SUFFICES ASSUME NEW w \in Workers
               PROVE  /\ \A i, j \in 1 .. Len(workQ'[w]) : workQ'[w][i] = workQ'[w][j] => i = j
                      /\ WorkJobs(w)' \cap ExecJobs(w)' = {}
                      /\ WorkJobs(w)' \cap ResJobs(w)' = {}
                      /\ ExecJobs(w)' \cap ResJobs(w)' = {}
    BY <1>1 DEF JobInv, NoTwinJobs
  <2>1. CASE w = u
    <3>1. WorkJobs(u) \cap ResJobs(u) = {}
      BY DEF JobInv, NoTwinJobs
    <3>2. \A i, j \in 1 .. Len(workQ'[u]) : workQ'[u][i] = workQ'[u][j] => i = j
      BY <1>3, <1>11
    <3>3. WorkJobs(u)' \cap ExecJobs(u)' = {} /\ WorkJobs(u)' \cap ResJobs(u)' = {}
          /\ ExecJobs(u)' \cap ResJobs(u)' = {}
      BY <1>5, <1>7, <1>10, <1>12, <3>1
    <3>4. QED
      BY <2>1, <3>2, <3>3
  <2>2. CASE w # u
    BY <1>3, <1>5, <1>6, <2>2 DEF JobInv, NoTwinJobs
  <2>3. QED
    BY <2>1, <2>2
<1>16. QED
  BY <1>14, <1>15 DEF JobInv

(* DoRequest leaves the machines alone; what it answers is what it was     *)
(* given, unless it ends the process.                                      *)
LEMMA DoRequestEffect ==
  ASSUME TypeOK, NEW u \in Workers, DoRequest(u)
  PROVE  /\ exec[u] \in Request
         /\ \A c \in Conns : /\ conn'[c].worker = conn[c].worker
                             /\ conn'[c].send = conn[c].send
                             /\ conn'[c].recv = conn[c].recv
         /\ \/ resQ' = resQ /\ aborted' # "no"
            \/ \E x \in Result : Tok(x) = exec[u] /\ resQ' = [resQ EXCEPT ![u] = Append(@, x)]
<1>1. exec[u] \in Request
  BY DEF DoRequest, TypeOK
<1>2. PICK c \in Conns : c = exec[u].connection
  BY <1>1 DEF Request
<1>3. conn \in [Conns -> ConnType]
  BY DEF TypeOK
<1>4. ASSUME NEW e \in SendResults \cup RecvResults, PushResult(u, c, e), Direction(e) = exec[u].evt
      PROVE  \/ resQ' = resQ /\ aborted' # "no"
             \/ \E x \in Result : Tok(x) = exec[u] /\ resQ' = [resQ EXCEPT ![u] = Append(@, x)]
  <2> DEFINE x == [connection |-> c, evt |-> e]
  <2>1. x \in Result /\ Tok(x) = exec[u]
    BY <1>1, <1>2, <1>4 DEF Result, Tok, Job, Request
  <2>2. (resQ' = resQ /\ aborted' # "no") \/ resQ' = [resQ EXCEPT ![u] = Append(@, x)]
    BY <1>4 DEF PushResult
  <2>3. QED
    BY <2>1, <2>2
<1>5. CASE OnRecv(u, c) /\ exec[u].evt = "RECV"
  <2>1. PICK e \in RecvResults : PushResult(u, c, e)
    <3>1. sock[c].err \in {"none", "ECONNRESET", "EPIPE", "taken"}
      BY DEF TypeOK, SockType
    <3>2. QED
      BY <1>5, <3>1 DEF OnRecv, RecvResults
  <2>2. Direction(e) = "RECV"
    BY DEF Direction, RecvResults, SendResults
  <2>3. \A x \in Conns : /\ conn'[x].worker = conn[x].worker
                         /\ conn'[x].send = conn[x].send
                         /\ conn'[x].recv = conn[x].recv
    <3>1. \/ conn' = conn
          \/ \E b, f : conn' = [conn EXCEPT ![c].rWorking = b, ![c].full = f]
      BY <1>5 DEF OnRecv
    <3>2. ASSUME NEW b, NEW f, conn' = [conn EXCEPT ![c].rWorking = b, ![c].full = f], NEW x \in Conns
          PROVE  /\ conn'[x].worker = conn[x].worker
                 /\ conn'[x].send = conn[x].send
                 /\ conn'[x].recv = conn[x].recv
      <4>1. conn[x] \in ConnType
        BY <1>3
      <4>2. conn'[x] = conn[x] \/ conn'[x] = [conn[x] EXCEPT !.rWorking = b, !.full = f]
        BY <1>3, <3>2
      <4>3. QED
        BY <4>1, <4>2 DEF ConnType
    <3>3. QED
      BY <3>1, <3>2
  <2>4. QED
    BY <1>1, <1>4, <1>5, <2>1, <2>2, <2>3
<1>6. CASE OnSend(u, c) /\ exec[u].evt = "SEND" /\ ~Severed(c)
  <2>1. PICK e \in SendResults : PushResult(u, c, e)
    <3>1. sock[c].err \in {"none", "ECONNRESET"}
      BY <1>6 DEF TypeOK, SockType, Severed
    <3>2. QED
      BY <1>6, <3>1 DEF OnSend, SendResults
  <2>2. Direction(e) = "SEND"
    BY DEF Direction
  <2>3. \A x \in Conns : /\ conn'[x].worker = conn[x].worker
                         /\ conn'[x].send = conn[x].send
                         /\ conn'[x].recv = conn[x].recv
    <3>1. \/ conn' = conn
          \/ \E b : conn' = [conn EXCEPT ![c].sWorking = b]
      BY <1>6 DEF OnSend
    <3>2. ASSUME NEW b, conn' = [conn EXCEPT ![c].sWorking = b]
          PROVE  /\ conn'[c] = [conn[c] EXCEPT !.sWorking = b]
                 /\ \A x \in Conns \ {c} : conn'[x] = conn[x]
      BY <1>3, <3>2
    <3>3. \A b : LET r == [conn[c] EXCEPT !.sWorking = b] IN
            r.worker = conn[c].worker /\ r.send = conn[c].send /\ r.recv = conn[c].recv
      BY <1>3 DEF ConnType
    <3>4. ASSUME NEW b, conn' = [conn EXCEPT ![c].sWorking = b], NEW x \in Conns
          PROVE  /\ conn'[x].worker = conn[x].worker
                 /\ conn'[x].send = conn[x].send
                 /\ conn'[x].recv = conn[x].recv
      <4>1. CASE x = c
        BY <3>2, <3>3, <3>4, <4>1
      <4>2. CASE x # c
        BY <3>2, <3>4, <4>2
      <4>3. QED
        BY <4>1, <4>2
    <3>5. CASE conn' = conn
      BY <3>5
    <3>6. QED
      BY <3>1, <3>4, <3>5
  <2>4. QED
    BY <1>1, <1>4, <1>6, <2>1, <2>2, <2>3
<1>7. ASSUME NEW reason \in Aborts, Abort(reason)
      PROVE  UNCHANGED <<conn, resQ>> /\ aborted' # "no"
  BY <1>7 DEF Abort, Aborts
<1>8. \/ OnRecv(u, c) /\ exec[u].evt = "RECV"
      \/ OnSend(u, c) /\ exec[u].evt = "SEND" /\ ~Severed(c)
      \/ UNCHANGED <<conn, resQ>> /\ aborted' # "no"
  BY <1>2, <1>7 DEF DoRequest, Aborts
<1>9. QED
  BY <1>1, <1>5, <1>6, <1>8

(* DoRequest moves a request from execution to the results.                *)
LEMMA DoRequestJobs ==
  ASSUME JobInv, TypeOK', NEW u \in Workers, DoRequest(u)
  PROVE  JobInv'
<1>1. exec' = [exec EXCEPT ![u] = NoJob] /\ UNCHANGED <<parsing, workQ>> /\ exec[u] # NoJob
  BY DEF DoRequest
<1>2. /\ exec[u] \in Request
      /\ \A c \in Conns : /\ conn'[c].worker = conn[c].worker
                          /\ conn'[c].send = conn[c].send
                          /\ conn'[c].recv = conn[c].recv
      /\ \/ resQ' = resQ
         \/ \E x \in Result : Tok(x) = exec[u] /\ resQ' = [resQ EXCEPT ![u] = Append(@, x)]
  BY DoRequestEffect DEF JobInv
<1>3. /\ ExecJobs(u)' = {} /\ ExecJobs(u) = {exec[u]}
      /\ \A w \in Workers \ {u} : ExecJobs(w)' = ExecJobs(w)
      /\ \A w \in Workers : WorkJobs(w)' = WorkJobs(w)
  BY <1>1 DEF ExecJobs, WorkJobs, JobInv, TypeOK
<1>4. CASE resQ' = resQ
  <2>1. \A w \in Workers : ResJobs(w)' = ResJobs(w)
    BY <1>4 DEF ResJobs
  <2>2. \A w \in Workers : ExecJobs(w)' \subseteq ExecJobs(w)
    BY <1>3
  <2>3. AllValid' /\ ParseGuard'
    BY <1>1, <1>2, <1>3, <2>1, <2>2, SameMachines
  <2>4. NoTwinJobs'
    BY <1>1, <1>3, <1>4, <2>1, <2>2 DEF JobInv, NoTwinJobs
  <2>5. QED
    BY <2>3, <2>4 DEF JobInv
<1>5. ASSUME NEW x \in Result, Tok(x) = exec[u], resQ' = [resQ EXCEPT ![u] = Append(@, x)]
      PROVE  JobInv'
  <2> DEFINE q == resQ[u]
             t == Append(q, x)
  <2>1. /\ Len(q) \in Nat /\ Len(t) = Len(q) + 1
        /\ \A i \in 1 .. Len(q) + 1 : t[i] = IF i <= Len(q) THEN q[i] ELSE x
    <3>1. q \in Seq(Result)
      BY DEF JobInv, TypeOK
    <3>2. QED
      BY <3>1, AppendProperties, LenProperties
  <2>2. resQ'[u] = t /\ \A w \in Workers \ {u} : resQ'[w] = resQ[w]
    BY <1>5 DEF JobInv, TypeOK
  <2>3. ResJobs(u) = {Tok(q[i]) : i \in 1 .. Len(q)} /\ ResJobs(u)' = {Tok(t[i]) : i \in 1 .. Len(t)}
    BY <2>2 DEF ResJobs
  <2>4. \A w \in Workers \ {u} : ResJobs(w)' = ResJobs(w)
    BY <2>2 DEF ResJobs
  <2>5. \A i, j \in 1 .. Len(q) : Tok(q[i]) = Tok(q[j]) => i = j
    BY DEF JobInv, NoTwinJobs
  <2> HIDE DEF q, t
  <2>6. exec[u] \notin ResJobs(u) /\ exec[u] \notin WorkJobs(u)
    BY <1>3 DEF JobInv, NoTwinJobs
  <2>7. \A i \in 1 .. Len(q) : Tok(q[i]) # Tok(x)
    BY <1>5, <2>3, <2>6
  <2>8. {Tok(t[i]) : i \in 1 .. Len(t)} \subseteq {Tok(q[i]) : i \in 1 .. Len(q)} \cup {Tok(x)}
    BY <2>1
  <2>9. ResJobs(u)' \subseteq ResJobs(u) \cup {exec[u]}
    BY <1>5, <2>3, <2>8
  <2>10. \A i, j \in 1 .. Len(t) : Tok(t[i]) = Tok(t[j]) => i = j
    <3> SUFFICES ASSUME NEW i \in 1 .. Len(t), NEW j \in 1 .. Len(t), Tok(t[i]) = Tok(t[j])
                 PROVE  i = j
      OBVIOUS
    <3>1. CASE i <= Len(q) /\ j <= Len(q)
      <4>1. i \in 1 .. Len(q) /\ j \in 1 .. Len(q) /\ t[i] = q[i] /\ t[j] = q[j]
        BY <2>1, <3>1
      <4>2. QED
        BY <2>5, <4>1
    <3>2. CASE i <= Len(q) /\ j > Len(q)
      <4>1. i \in 1 .. Len(q) /\ t[i] = q[i] /\ t[j] = x
        BY <2>1, <3>2
      <4>2. QED
        BY <2>7, <4>1
    <3>3. CASE i > Len(q) /\ j <= Len(q)
      <4>1. j \in 1 .. Len(q) /\ t[j] = q[j] /\ t[i] = x
        BY <2>1, <3>3
      <4>2. QED
        BY <2>7, <4>1
    <3>4. CASE i > Len(q) /\ j > Len(q)
      BY <2>1, <3>4
    <3>5. QED
      BY <2>1, <3>1, <3>2, <3>3, <3>4
  <2>11. \A w \in Workers : WorkJobs(w)' \cup ExecJobs(w)' \cup ResJobs(w)'
                              \subseteq WorkJobs(w) \cup ExecJobs(w) \cup ResJobs(w)
    BY <1>3, <2>4, <2>9
  <2>12. AllValid' /\ ParseGuard'
    BY <1>1, <1>2, <2>11, SameMachines
  <2>13. NoTwinJobs'
    <3> SUFFICES ASSUME NEW w \in Workers
                 PROVE  /\ \A i, j \in 1 .. Len(resQ'[w]) : Tok(resQ'[w][i]) = Tok(resQ'[w][j]) => i = j
                        /\ WorkJobs(w)' \cap ExecJobs(w)' = {}
                        /\ WorkJobs(w)' \cap ResJobs(w)' = {}
                        /\ ExecJobs(w)' \cap ResJobs(w)' = {}
      BY <1>1 DEF JobInv, NoTwinJobs
    <3>1. CASE w = u
      <4>1. WorkJobs(u) \cap ResJobs(u) = {}
        BY DEF JobInv, NoTwinJobs
      <4>2. \A i, j \in 1 .. Len(resQ'[u]) : Tok(resQ'[u][i]) = Tok(resQ'[u][j]) => i = j
        BY <2>2, <2>10
      <4>3. WorkJobs(u)' \cap ResJobs(u)' = {}
        BY <1>3, <2>6, <2>9, <4>1
      <4>4. QED
        BY <1>3, <3>1, <4>2, <4>3
    <3>2. CASE w # u
      BY <1>3, <2>2, <2>4, <3>2 DEF JobInv, NoTwinJobs
    <3>3. QED
      BY <3>1, <3>2
  <2>14. QED
    BY <2>12, <2>13 DEF JobInv
<1>6. QED
  BY <1>2, <1>4, <1>5

(* A new connection: its descriptor was closed, so nothing of it is under  *)
(* way.                                                                    *)
LEMMA EstablishJobs ==
  ASSUME JobInv, TypeOK', NEW c \in Conns, Establish(c)
  PROVE  JobInv'
<1>1. ~Parsing /\ conn[c].worker = NoWorker /\ UNCHANGED <<parsing, workQ, exec, resQ>>
  BY DEF Establish, Open
<1>2. \A x \in Conns \ {c} : conn'[x] = conn[x]
  BY DEF Establish, JobInv, TypeOK
<1>3. \A w \in Workers : /\ WorkJobs(w)' = WorkJobs(w)
                         /\ ExecJobs(w)' = ExecJobs(w)
                         /\ ResJobs(w)' = ResJobs(w)
  BY <1>1 DEF WorkJobs, ExecJobs, ResJobs
<1>4. ASSUME NEW w \in Workers, NEW x \in WorkJobs(w) \cup ExecJobs(w) \cup ResJobs(w)
      PROVE  Valid(x, w)'
  <2>1. x \in Request /\ Valid(x, w)
    BY <1>4, JobsAreRequests DEF JobInv, AllValid
  <2>2. x.connection \in Conns \ {c}
    BY <1>1, <2>1, NullAssumption DEF Request, Valid
  <2>3. QED
    BY <1>1, <1>2, <2>1, <2>2 DEF Valid, Busy
<1>5. AllValid'
  BY <1>3, <1>4 DEF AllValid
<1>6. NoTwinJobs'
  BY <1>1, <1>3 DEF JobInv, NoTwinJobs
<1>7. ParseGuard'
  BY <1>1 DEF ParseGuard, Parsing
<1>8. QED
  BY <1>5, <1>6, <1>7 DEF JobInv

(* Every step keeps the invariant of the requests.                         *)
LEMMA JobInductive == JobInv /\ [Next]_vars => JobInv'
<1> SUFFICES ASSUME JobInv, [Next]_vars PROVE JobInv'
  OBVIOUS
<1>0. TypeOK /\ TypeOK'
  BY TypeInductive DEF JobInv
<1>1. ASSUME UNCHANGED <<workQ, exec, resQ, parsing, conn>> PROVE JobInv'
  BY <1>0, <1>1, SameJobs
<1>2. ASSUME NEW c \in Conns, Establish(c) \/ EstablishNoSlot(c) PROVE JobInv'
  BY <1>0, <1>1, <1>2, EstablishJobs DEF EstablishNoSlot
<1>3. CASE EpollWait
  BY <1>1, <1>3 DEF EpollWait
<1>4. ASSUME NEW c \in Conns, Dispatch(c) PROVE JobInv'
  <2> DEFINE f == FirstFlag(batch[c])
  <2>1. PICK e \in NetEvents \ (SendResults \cup RecvResults) : e = EventOf(f)
    BY DEF FirstFlag, EventOf, NetEvents, SendResults, RecvResults
  <2>2. UNCHANGED <<parsing, exec, resQ>>
    BY <1>4 DEF Dispatch
  <2>3. PICK r \in ConnType : r = conn[c]
    BY <1>0 DEF TypeOK
  <2>4. CASE conn[c].worker # NoWorker /\ OnEvent(c, conn[c], e)
    BY <1>0, <2>2, <2>3, <2>4, OtherEvent
  <2>5. CASE UNCHANGED <<conn, workQ>>
    BY <1>1, <2>2, <2>5
  <2>6. QED
    BY <1>4, <2>1, <2>4, <2>5 DEF Dispatch, Open
<1>5. ASSUME NEW w \in Workers, DoResult(w) \/ DoData(w) PROVE JobInv'
  BY <1>0, <1>5, DoResultJobs, DoDataJobs
<1>6. CASE OnRecvPacket
  <2>1. UNCHANGED <<workQ, exec, resQ>> /\ parsing'.c = parsing.c
    BY <1>0, <1>6 DEF OnRecvPacket, TypeOK
  <2>2. \A c \in Conns : /\ conn'[c].worker = conn[c].worker
                         /\ conn'[c].send = conn[c].send
                         /\ conn'[c].recv = conn[c].recv
    <3>1. PICK p \in Conns : p = parsing.c
      BY <1>0, <1>6 DEF OnRecvPacket, Parsing, TypeOK
    <3>2. conn' = [conn EXCEPT ![p].delivered = @ + Parsed] /\ conn \in [Conns -> ConnType]
      BY <1>0, <1>6, <3>1 DEF OnRecvPacket, TypeOK
    <3>3. /\ conn'[p] = [conn[p] EXCEPT !.delivered = conn[p].delivered + Parsed]
          /\ \A c \in Conns \ {p} : conn'[c] = conn[c]
      BY <3>2
    <3>4. /\ conn'[p].worker = conn[p].worker /\ conn'[p].send = conn[p].send
          /\ conn'[p].recv = conn[p].recv
      <4>1. conn[p] \in ConnType
        BY <3>2
      <4>2. QED
        BY <3>3, <4>1 DEF ConnType
    <3>5. QED
      BY <3>3, <3>4
  <2>3. QED
    BY <1>0, <2>1, <2>2, SameJobs
<1>7. CASE ParseEnd \/ ParseBad
  BY <1>0, <1>7, ParseReturnJobs
<1>8. ASSUME NEW c \in Conns, NEW n \in 1 .. MaxOut, Send(c, n) PROVE JobInv'
  <2>1. PICK r \in ConnType, e \in {"ERROR", "SEND"} :
           /\ OnEvent(c, r, e)
           /\ r.worker = conn[c].worker /\ r.send = conn[c].send /\ r.recv = conn[c].recv
    BY <1>0, <1>8, SendRecord
  <2>2. e \in NetEvents \ (SendResults \cup RecvResults)
    BY DEF NetEvents, SendResults, RecvResults
  <2>3. conn[c].worker # NoWorker /\ UNCHANGED <<parsing, exec, resQ>>
    BY <1>8 DEF Send, Open
  <2>4. QED
    BY <1>0, <2>1, <2>2, <2>3, OtherEvent
<1>9. ASSUME NEW c \in Conns, Close(c) PROVE JobInv'
  <2>1. PICK r \in ConnType : r = conn[c]
    BY <1>0 DEF TypeOK
  <2>2. "CLOSE" \in NetEvents \ (SendResults \cup RecvResults)
    BY DEF NetEvents, SendResults, RecvResults
  <2>3. /\ conn[c].worker # NoWorker /\ UNCHANGED <<parsing, exec, resQ>>
        /\ OnEvent(c, r, "CLOSE")
    BY <1>9, <2>1 DEF Close, Open
  <2>4. QED
    BY <1>0, <2>1, <2>2, <2>3, OtherEvent
<1>10. ASSUME NEW w \in Workers, ThreadProc(w) \/ DoRequest(w) PROVE JobInv'
  BY <1>0, <1>10, ThreadProcJobs, DoRequestJobs
<1>11. ASSUME NEW c \in Conns, PeerSend(c) \/ PeerFin(c) \/ PeerReset(c) \/ PeerRead(c)
       PROVE  JobInv'
  BY <1>1, <1>11 DEF PeerSend, PeerFin, PeerReset, PeerRead
<1>12. CASE UNCHANGED vars
  BY <1>1, <1>12 DEF vars
<1>13. QED
  BY <1>2, <1>3, <1>4, <1>5, <1>6, <1>7, <1>8, <1>9, <1>10, <1>11, <1>12
     DEF Next, Running, LoopStep, AppStep, WorkerStep, PeerStep, Halted

(* The invariant holds initially.                                          *)
LEMMA JobInit == Init => JobInv
<1> SUFFICES ASSUME Init PROVE JobInv
  OBVIOUS
<1>1. \A w \in Workers : WorkJobs(w) = {} /\ ExecJobs(w) = {} /\ ResJobs(w) = {}
  BY DEF Init, WorkJobs, ExecJobs, ResJobs
<1>2. AllValid
  BY <1>1 DEF AllValid
<1>3. NoTwinJobs
  <2>1. \A w \in Workers : Len(workQ[w]) = 0 /\ Len(resQ[w]) = 0
    BY DEF Init
  <2>2. QED
    BY <1>1, <2>1 DEF NoTwinJobs
<1>4. ParseGuard
  BY DEF Init, ParseGuard, Parsing, NotParsing
<1>5. QED
  BY <1>2, <1>3, <1>4, InitType DEF JobInv

(* The invariant holds in every reachable state.                           *)
LEMMA JobInvHolds == Spec => []JobInv
  BY JobInit, JobInductive, PTL DEF Spec

(* Every request that waits, executes or has been answered belongs to a    *)
(* connection that is open with this worker and waits for it: OnClose      *)
(* never deletes a Connection that a worker or a result will still touch.  *)
THEOREM NoUseAfterClose == Spec => []NoStaleJob
<1>1. JobInv => NoStaleJob
  BY ValidJobs DEF JobInv
<1>2. QED
  BY <1>1, JobInvHolds, PTL

(* ProcessPacket runs on a live object, whatever Sends and Closes the      *)
(* application's callback makes inside it.                                 *)
THEOREM ParseOnLiveObject == Spec => []ParsedIsOpen
<1>1. JobInv => ParsedIsOpen
  BY DEF JobInv, ParseGuard, ParsedIsOpen, Open
<1>2. QED
  BY <1>1, JobInvHolds, PTL
=============================================================================
