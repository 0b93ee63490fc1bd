------------------------ MODULE ConnectionPipeProofs ------------------------
(***************************************************************************)
(* A Connection implements Pipe in each direction, for every number of     *)
(* connections and workers, every size and every packet length.  Each kind *)
(* of step of ConnectionBufferProofs is a step of the pipe or none.        *)
(***************************************************************************)
EXTENDS ConnectionBufferProofs

(* A pipe, given by its parts.                                             *)
PipeOf(w, o, g, b) == [wire |-> w, put |-> o, got |-> g, state |-> b]

LEMMA PipeParts ==
  /\ \A w, o, g, b : LET p == PipeOf(w, o, g, b) IN
       p.wire = w /\ p.put = o /\ p.got = g /\ p.state = b
  /\ \A w, o, g, b : OutPipes!PipeOf(w, o, g, b) = PipeOf(w, o, g, b)
  /\ \A w, o, g, b : InPipes!PipeOf(w, o, g, b) = PipeOf(w, o, g, b)
  BY DEF PipeOf, OutPipes!PipeOf, InPipes!PipeOf

(* The steps of a pipe that is always read.                                *)
LEMMA OutMoves ==
  ASSUME NEW w \in Seq(Nat), NEW o \in Nat, NEW g \in Nat, NEW b \in {"whole", "broken"}
  PROVE  /\ \A n \in Nat \ {0} :
              /\ OutPipes!Step(PipeOf(w, o, g, b), PipeOf(w \o Bytes(o, n), o + n, g, b))
              /\ OutPipes!Step(PipeOf(w, o, g, b), PipeOf(w, o + n, g, "broken"))
         /\ w # <<>> => OutPipes!Step(PipeOf(w, o, g, b), PipeOf(Tail(w), o, g + 1, b))
         /\ b = "whole" => OutPipes!Step(PipeOf(w, o, g, b), PipeOf(w, o, g, "broken"))
<1>1. PICK p : p = PipeOf(w, o, g, b)
  OBVIOUS
<1>2. p.put = o /\ p.wire = w /\ p.got = g /\ p.state = b
  BY <1>1, PipeParts
<1>3. ASSUME NEW n \in Nat \ {0}
      PROVE  /\ OutPipes!Put(p, PipeOf(w \o Bytes(o, n), o + n, g, b))
             /\ OutPipes!Drop(p, PipeOf(w, o + n, g, "broken"))
  <2>1. PICK m \in Nat : m = o + n /\ m > o /\ m - o = n
    OBVIOUS
  <2>2. PICK x : x = w \o Bytes(o, n)
    OBVIOUS
  <2>3. x = p.wire \o [i \in 1 .. m - p.put |-> p.put + i]
    BY <1>2, <2>1, <2>2 DEF Bytes
  <2>4. PICK q : q = PipeOf(x, m, g, b)
    OBVIOUS
  <2>5. q.put = m
    BY <2>4, PipeParts
  <2>6. q = OutPipes!PipeOf(p.wire \o [i \in 1 .. q.put - p.put |-> p.put + i], q.put, p.got, p.state)
    BY <1>2, <2>3, <2>4, <2>5, PipeParts
  <2>7. OutPipes!Put(p, q)
    BY <1>2, <2>1, <2>5, <2>6 DEF OutPipes!Put
  <2>8. PICK r : r = PipeOf(w, m, g, "broken")
    OBVIOUS
  <2>9. r.put = m /\ r = OutPipes!PipeOf(p.wire, r.put, p.got, "broken")
    BY <1>2, <2>8, PipeParts
  <2>10. OutPipes!Drop(p, r)
    BY <1>2, <2>1, <2>9 DEF OutPipes!Drop
  <2>11. QED
    BY <2>1, <2>2, <2>4, <2>7, <2>8, <2>10
<1>4. ASSUME w # <<>>
      PROVE  OutPipes!Take(p, PipeOf(Tail(w), o, g + 1, b))
  <2>1. PICK x : x = SubSeq(w, 2, Len(w)) /\ Tail(w) = x
    BY <1>4, TailIsSubSeq
  <2>2. Len(w) \in Nat /\ Len(w) # 0
    BY <1>4, LenProperties, EmptySeq
  <2>3. PICK m \in Nat : m = g + 1 /\ m > g /\ m - g = 1 /\ m - g + 1 = 2
    OBVIOUS
  <2>4. PICK q : q = PipeOf(x, o, m, b)
    OBVIOUS
  <2>5. q.got = m /\ q = OutPipes!PipeOf(x, p.put, q.got, p.state)
    BY <1>2, <2>4, PipeParts
  <2>6. OutPipes!Take(p, q)
    BY <1>2, <2>1, <2>2, <2>3, <2>5 DEF OutPipes!Take
  <2>7. QED
    BY <2>1, <2>3, <2>4, <2>6
<1>5. ASSUME b = "whole"
      PROVE  OutPipes!Break(p, PipeOf(w, o, g, "broken"))
  <2>1. Len(w) \in 0 .. Len(w) /\ SubSeq(w, 1, Len(w)) = w
    BY LenProperties, SubSeqFull
  <2>2. PipeOf(w, o, g, "broken") = OutPipes!PipeOf(w, p.put, p.got, "broken")
    BY <1>2, PipeParts
  <2>3. QED
    BY <1>2, <1>5, <2>1, <2>2 DEF OutPipes!Break
<1>6. QED
  BY <1>1, <1>3, <1>4, <1>5 DEF OutPipes!Step

(* The steps of a pipe that is read until it breaks.                       *)
LEMMA InMoves ==
  ASSUME NEW w \in Seq(Nat), NEW o \in Nat, NEW g \in Nat
  PROVE  /\ InPipes!Step(PipeOf(w, o, g, "whole"), PipeOf(Append(w, o + 1), o + 1, g, "whole"))
         /\ InPipes!Step(PipeOf(w, o, g, "broken"), PipeOf(w, o + 1, g, "broken"))
         /\ \A n \in 1 .. Len(w) :
              InPipes!Step(PipeOf(w, o, g, "whole"), PipeOf(Suffix(w, n), o, g + n, "whole"))
         /\ InPipes!Step(PipeOf(w, o, g, "whole"), PipeOf(<<>>, o, g, "broken"))
<1>1. PICK p : p = PipeOf(w, o, g, "whole")
  OBVIOUS
<1>2. p.put = o /\ p.wire = w /\ p.got = g /\ p.state = "whole"
  BY <1>1, PipeParts
<1>3. PICK m \in Nat : m = o + 1 /\ m > o /\ m - o = 1
  OBVIOUS
<1>4. InPipes!Put(p, PipeOf(Append(w, m), m, g, "whole"))
  <2>1. PICK x : x = Append(w, m)
    OBVIOUS
  <2>2. <<m>> = [i \in 1 .. 1 |-> o + i]
    BY <1>3
  <2>3. Append(w, m) = w \o <<m>>
    BY AppendIsConcat
  <2>4. x = p.wire \o [i \in 1 .. m - p.put |-> p.put + i]
    BY <1>2, <1>3, <2>1, <2>2, <2>3
  <2>5. PICK q : q = PipeOf(x, m, g, "whole")
    OBVIOUS
  <2>6. q.put = m
    BY <2>5, PipeParts
  <2>7. q = InPipes!PipeOf(p.wire \o [i \in 1 .. q.put - p.put |-> p.put + i], q.put, p.got, p.state)
    BY <1>2, <2>4, <2>5, <2>6, PipeParts
  <2>8. InPipes!Put(p, q)
    BY <1>2, <1>3, <2>6, <2>7 DEF InPipes!Put
  <2>9. QED
    BY <2>1, <2>5, <2>8
<1>5. InPipes!Drop(PipeOf(w, o, g, "broken"), PipeOf(w, m, g, "broken"))
  <2>1. PICK q : q = PipeOf(w, o, g, "broken")
    OBVIOUS
  <2>2. PICK r : r = PipeOf(w, m, g, "broken")
    OBVIOUS
  <2>3. q.put = o /\ r.put = m /\ r = InPipes!PipeOf(q.wire, r.put, q.got, "broken")
    BY <2>1, <2>2, PipeParts
  <2>4. QED
    BY <1>3, <2>1, <2>2, <2>3 DEF InPipes!Drop
<1>6. ASSUME NEW n \in 1 .. Len(w)
      PROVE  InPipes!Take(p, PipeOf(Suffix(w, n), o, g + n, "whole"))
  <2>1. PICK x : x = SubSeq(w, n + 1, Len(w))
    OBVIOUS
  <2>2. PICK l \in Nat : l = g + n /\ l > g /\ l - g = n /\ n <= Len(w)
    BY LenProperties
  <2>3. PICK q : q = PipeOf(x, o, l, "whole")
    OBVIOUS
  <2>4. q.got = l /\ q = InPipes!PipeOf(x, p.put, q.got, p.state)
    BY <1>2, <2>3, PipeParts
  <2>5. InPipes!Take(p, q)
    BY <1>2, <2>1, <2>2, <2>4 DEF InPipes!Take
  <2>6. QED
    BY <2>1, <2>2, <2>3, <2>5 DEF Suffix
<1>7. InPipes!Break(p, PipeOf(<<>>, o, g, "broken"))
  <2>1. 0 \in 0 .. Len(w) /\ SubSeq(w, 1, 0) = <<>>
    BY LenProperties, SubSeqEmpty
  <2>2. PipeOf(<<>>, o, g, "broken") = InPipes!PipeOf(<<>>, p.put, p.got, "broken")
    BY <1>2, PipeParts
  <2>3. QED
    BY <1>2, <2>1, <2>2 DEF InPipes!Break
<1>8. QED
  BY <1>1, <1>3, <1>4, <1>5, <1>6, <1>7 DEF InPipes!Step

-----------------------------------------------------------------------------
(* To the peer.                                                            *)
SendState(s) == IF s \in SendClosing THEN "broken" ELSE "whole"
OutOf(k, r) == PipeOf(OutPipe(k, r), r.offered, k.drained, SendState(r.send))

(* A whole pipe may break, a broken one stays broken, and a Send that fits *)
(* does not break it.                                                      *)
LEMMA StateMoves ==
  ASSUME NEW r \in ConnType, NEW e \in NetEvents
  PROVE  LET q == Machines(r, e) IN
           /\ \/ SendState(q.send) = SendState(r.send)
              \/ SendState(r.send) = "whole" /\ SendState(q.send) = "broken"
           /\ e \in SendTeardown => SendState(q.send) = "broken"
<1>1. PICK q : q = Machines(r, e)
  OBVIOUS
<1>2. PICK s \in SendStates : s = r.send
  BY DEF ConnType
<1>3. \/ SendOn(s, e).act = "go" /\ q.send = SendOn(s, e).to
      \/ SendOn(s, e).act = "begin" /\ (q.send = SendOn(s, e).to \/ q.send = "SendClose")
  BY <1>1, <1>2, MachinesFields
<1>4. s \in SendClosing => q.send \in SendClosing
  BY <1>3, ClosingStays DEF SendClosing
<1>5. e \in SendTeardown => q.send \in SendClosing
  BY <1>3, TeardownCloses
<1>6. QED
  BY <1>1, <1>2, <1>4, <1>5 DEF SendState

LEMMA SendCloses ==
  ASSUME NEW s \in SendStates, SendOn(s, "SEND").to \in SendClosing
  PROVE  s \in SendClosing
<1> USE DEF Go, Begin, SendTeardown, SendResults, SendClosing
<1>1. CASE s = "SendNone"
  BY <1>1 DEF SendOn, SendNoneOn
<1>2. CASE s = "Sending"
  BY <1>2 DEF SendOn, SendingOn
<1>3. CASE s = "SendPending"
  BY <1>3 DEF SendOn, SendPendingOn
<1>4. CASE s = "SendingReady"
  BY <1>4 DEF SendOn, SendingReadyOn
<1>5. CASE s = "SendingWait"
  BY <1>5 DEF SendOn, SendingWaitOn
<1>6. CASE s = "SendingReadyWait"
  BY <1>6 DEF SendOn, SendingReadyWaitOn
<1>7. QED
  BY <1>1, <1>2, <1>3, <1>4, <1>5, <1>6 DEF SendStates

LEMMA SendKeepsState ==
  ASSUME NEW r \in ConnType, Fits(r) \/ r.send # "SendNone"
  PROVE  SendState(Machines(r, "SEND").send) = SendState(r.send)
<1>1. PICK q : q = Machines(r, "SEND")
  OBVIOUS
<1>2. PICK s \in SendStates : s = r.send
  BY DEF ConnType
<1>3. "SEND" \in NetEvents
  BY DEF NetEvents
<1>4. q.send = SendOn(s, "SEND").to
  BY <1>1, <1>2, <1>3, MachinesFields, OnSendCall
<1>5. s \in SendClosing <=> q.send \in SendClosing
  BY <1>3, <1>4, ClosingStays, SendCloses
<1>6. QED
  BY <1>1, <1>2, <1>5 DEF SendState

(* Send puts its bytes in, or breaks the pipe.                             *)
LEMMA OutSent ==
  ASSUME TypeOK, NEW c \in Conns, Drained(c), NEW n \in 1 .. MaxOut, SentTo(c, n)
  PROVE  OutPipes!Step(OutOf(sock[c], conn[c]), OutOf(sock'[c], conn'[c]))
<1>1. PICK k \in SockType, r \in ConnType : k = sock[c] /\ r = conn[c]
  BY DEF TypeOK
<1>2. PICK w \in Seq(Nat), o \in Nat, g \in Nat :
        w = OutPipe(k, r) /\ o = r.offered /\ g = k.drained
  BY OutPipeType
<1>3. PICK b \in {"whole", "broken"} : b = SendState(r.send)
  BY DEF SendState
<1>4. PICK m \in Nat \ {0} : m = n
  BY SizeAssumption
<1>5. r.offered + n <= MaxOut /\ sock'[c] = k
  BY <1>1 DEF SentTo, Took
<1>6. PICK p : p = OutOf(k, r)
  OBVIOUS
<1>7. p = PipeOf(w, o, g, b)
  BY <1>2, <1>3, <1>6 DEF OutOf
<1>8. CASE conn'[c] = Machines(WithOffered(r, n), "ERROR")
  <2>1. PICK x \in ConnType : x = WithOffered(r, n)
    BY <1>5, SendFields
  <2>2. x.offered = o + m
    BY <1>2, <1>4, <1>5, <2>1, SendFields
  <2>3. PICK q : q = Machines(x, "ERROR")
    OBVIOUS
  <2>4. "ERROR" \in NetEvents /\ "ERROR" \in SendTeardown
    BY DEF NetEvents, SendTeardown
  <2>5. q.offered = o + m
    BY <2>2, <2>3, <2>4, MachinesFields
  <2>6. OutPipe(k, q) = w
    BY <1>2, <1>5, <2>1, <2>3, <2>4, MachinesPipe, BytesPipe
  <2>7. SendState(q.send) = "broken"
    BY <2>3, <2>4, StateMoves
  <2>8. OutOf(k, q) = PipeOf(w, o + m, g, "broken")
    BY <1>2, <2>5, <2>6, <2>7 DEF OutOf
  <2>9. OutPipes!Step(PipeOf(w, o, g, b), PipeOf(w, o + m, g, "broken"))
    BY OutMoves
  <2>10. QED
    BY <1>1, <1>5, <1>6, <1>7, <1>8, <2>1, <2>3, <2>8, <2>9
<1>9. CASE Len(r.sUsing) + n <= SendSize /\ conn'[c] = Machines(WithBytes(r, n), "SEND")
  <2>1. PICK x \in ConnType : x = WithBytes(r, n)
    BY <1>5, SendFields
  <2>2. /\ x.offered = o + m /\ x.send = r.send /\ x.sWorking = r.sWorking
        /\ Len(x.sUsing) = Len(r.sUsing) + n
    BY <1>2, <1>4, <1>5, <2>1, SendFields
  <2>3. PICK q : q = Machines(x, "SEND")
    OBVIOUS
  <2>4. "SEND" \in NetEvents
    BY DEF NetEvents
  <2>5. q.offered = o + m
    BY <2>2, <2>3, <2>4, MachinesFields
  <2>6. OutPipe(k, q) = w \o Bytes(o, m)
    <3>1. OutPipe(k, q) = OutPipe(k, x)
      BY <2>3, <2>4, MachinesPipe
    <3>2. OutPipe(k, x) = OutPipe(k, r) \o Bytes(r.offered, n)
      BY <1>5, <2>1, BytesPipe
    <3>3. QED
      BY <1>2, <1>4, <3>1, <3>2
  <2>7. SendState(q.send) = b
    <3>1. r.send = "SendNone" => x.sWorking = <<>>
      BY <1>1, <2>2 DEF Drained
    <3>2. ASSUME r.send = "SendNone" PROVE Fits(x)
      <4>1. Len(x.sWorking) = 0
        BY <3>1, <3>2, EmptySeq, Zenon
      <4>2. PICK l \in Nat : l = Len(x.sUsing) /\ l <= SendSize
        <5>1. x.sUsing \in Seq(1 .. MaxOut)
          BY <2>1 DEF ConnType
        <5>2. Len(x.sUsing) \in Nat
          BY <5>1, LenProperties
        <5>3. QED
          BY <1>9, <2>2, <5>2
      <4>3. 0 + l <= SendSize
        BY <4>2
      <4>4. QED
        BY <4>1, <4>2, <4>3 DEF Fits
    <3>3. QED
      BY <1>3, <2>2, <2>3, <3>2, SendKeepsState
  <2>8. OutOf(k, q) = PipeOf(w \o Bytes(o, m), o + m, g, b)
    BY <1>2, <2>5, <2>6, <2>7 DEF OutOf
  <2>9. OutPipes!Step(PipeOf(w, o, g, b), PipeOf(w \o Bytes(o, m), o + m, g, b))
    BY OutMoves
  <2>10. QED
    BY <1>1, <1>5, <1>6, <1>7, <1>9, <2>1, <2>3, <2>8, <2>9
<1>10. QED
  BY <1>1, <1>8, <1>9 DEF SentTo, Took

(* Any other event leaves the pipe or breaks it.                           *)
LEMMA OutTook ==
  ASSUME TypeOK, NEW c \in Conns, NEW e \in NetEvents, Took(c, conn[c], e)
  PROVE  \/ OutPipes!Step(OutOf(sock[c], conn[c]), OutOf(sock'[c], conn'[c]))
         \/ OutOf(sock'[c], conn'[c]) = OutOf(sock[c], conn[c])
<1>1. PICK k \in SockType, r \in ConnType : k = sock[c] /\ r = conn[c]
  BY DEF TypeOK
<1>2. PICK w \in Seq(Nat), o \in Nat, g \in Nat :
        w = OutPipe(k, r) /\ o = r.offered /\ g = k.drained
  BY OutPipeType
<1>3. PICK q : q = Machines(r, e)
  OBVIOUS
<1>4. conn'[c] = q /\ sock'[c] = k
  BY <1>1, <1>3 DEF Took
<1>5. q.offered = o /\ OutPipe(k, q) = w
  BY <1>2, <1>3, MachinesFields, MachinesPipe
<1>6. \/ SendState(q.send) = SendState(r.send)
      \/ SendState(r.send) = "whole" /\ SendState(q.send) = "broken"
  BY <1>3, StateMoves
<1>7. OutOf(k, q) = PipeOf(w, o, g, SendState(q.send)) /\ OutOf(k, r) = PipeOf(w, o, g, SendState(r.send))
  BY <1>2, <1>5 DEF OutOf
<1>8. OutPipes!Step(PipeOf(w, o, g, "whole"), PipeOf(w, o, g, "broken"))
  BY OutMoves
<1>9. QED
  BY <1>1, <1>4, <1>6, <1>7, <1>8

LEMMA OutPeer ==
  ASSUME TypeOK, NEW c \in Conns, PeerMoved(c)
  PROVE  \/ OutPipes!Step(OutOf(sock[c], conn[c]), OutOf(sock'[c], conn'[c]))
         \/ OutOf(sock'[c], conn'[c]) = OutOf(sock[c], conn[c])
<1>1. PICK k \in SockType, r \in ConnType : k = sock[c] /\ r = conn[c]
  BY DEF TypeOK
<1>2. PICK w \in Seq(Nat), o \in Nat, g \in Nat :
        w = OutPipe(k, r) /\ o = r.offered /\ g = k.drained
  BY OutPipeType
<1>3. PICK b \in {"whole", "broken"} : b = SendState(r.send)
  BY DEF SendState
<1>4. PICK j : j = sock'[c]
  OBVIOUS
<1>5. /\ conn'[c] = r
      /\ \/ OutPipe(j, r) = w /\ j.drained = g
         \/ w # <<>> /\ OutPipe(j, r) = Tail(w) /\ j.drained = g + 1
  BY <1>1, <1>2, <1>4, PeerPipe
<1>6. w # <<>> => OutPipes!Step(PipeOf(w, o, g, b), PipeOf(Tail(w), o, g + 1, b))
  BY OutMoves
<1>7. OutOf(k, r) = PipeOf(w, o, g, b) /\ OutOf(j, r) = PipeOf(OutPipe(j, r), o, j.drained, b)
  BY <1>2, <1>3 DEF OutOf
<1>8. QED
  BY <1>1, <1>4, <1>5, <1>6, <1>7

LEMMA OutStep ==
  ASSUME TypeOK, NEW c \in Conns, Drained(c), ConnStep(c)
  PROVE  OutPipes!Step(ToPeer(c), ToPeer(c)') \/ ToPeer(c)' = ToPeer(c)
<1>1. PICK p : p = OutOf(sock[c], conn[c])
  OBVIOUS
<1>2. PICK q : q = OutOf(sock'[c], conn'[c])
  OBVIOUS
<1>3. ToPeer(c) = p /\ ToPeer(c)' = q
  BY <1>1, <1>2 DEF ToPeer, SendPipe, OutOf, OutPipe, PipeOf, SendState
<1>4. ASSUME SendSide(c) PROVE q = p
  BY <1>1, <1>2, <1>4 DEF SendSide, OutOf, OutPipe
<1>5. ASSUME WriteFrom(c) PROVE q = p
  BY <1>1, <1>2, <1>5, WritePipe DEF OutOf
<1>6. ASSUME Renewed(c) PROVE OutPipes!Step(p, q)
  <2>1. /\ sock'[c].out = <<>> /\ sock'[c].drained = 0 /\ conn'[c].offered = 0
        /\ conn'[c].sWorking = <<>> /\ conn'[c].sUsing = <<>> /\ conn'[c].send = "SendNone"
    BY <1>6, NewFields
  <2>2. <<>> \o <<>> = <<>>
    BY EmptySeq, ConcatEmptySeq
  <2>3. OutPipe(sock'[c], conn'[c]) = <<>> /\ SendState(conn'[c].send) = "whole"
    BY <2>1, <2>2 DEF OutPipe, SendState, SendClosing
  <2>4. q = PipeOf(<<>>, 0, 0, "whole")
    BY <1>2, <2>1, <2>3 DEF OutOf
  <2>5. q = OutPipes!New
    BY <2>4, PipeParts DEF OutPipes!New
  <2>6. QED
    BY <2>5 DEF OutPipes!Step
<1>7. ASSUME NEW e \in NetEvents, Took(c, conn[c], e) PROVE OutPipes!Step(p, q) \/ q = p
  BY <1>1, <1>2, <1>7, OutTook
<1>8. ASSUME NEW n \in 1 .. MaxOut, SentTo(c, n) PROVE OutPipes!Step(p, q)
  BY <1>1, <1>2, <1>8, OutSent
<1>9. ASSUME PeerMoved(c) PROVE OutPipes!Step(p, q) \/ q = p
  BY <1>1, <1>2, <1>9, OutPeer
<1>10. OutPipes!Step(p, q) \/ q = p
  BY <1>3, <1>4, <1>5, <1>6, <1>7, <1>8, <1>9, SendSideStays DEF ConnStep
<1>11. QED
  BY <1>3, <1>10

-----------------------------------------------------------------------------
(* To ISession::OnRecv.                                                    *)
Over(c) == conn[c].recv = "RecvClose" \/ Ended(c)

InOf(c) ==
  IF Over(c) THEN PipeOf(<<>>, sock[c].sent, conn[c].delivered, "broken")
             ELSE PipeOf(Pipe(c), sock[c].sent, conn[c].delivered, "whole")

LEMMA InType ==
  ASSUME TypeOK, NEW c \in Conns
  PROVE  Pipe(c) \in Seq(Nat) /\ sock[c].sent \in Nat /\ conn[c].delivered \in Nat
<1>1. conn[c].delivered \in Nat /\ sock[c].sent \in 0 .. MaxIn
  BY DEF TypeOK, ConnType, SockType
<1>2. QED
  BY <1>1, PipeType, SizeAssumption

LEMMA InOfFrom == ASSUME TypeOK, NEW c \in Conns PROVE FromPeer(c) = InOf(c)
<1>1. RecvPipe(c) = Pipe(c)
  BY DEF RecvPipe, Pipe, InPipe, Pos
<1>2. EndRead(c) <=> Ended(c)
  BY EndGot DEF Ended
<1>3. QED
  BY <1>1, <1>2 DEF FromPeer, InOf, Over, PipeOf

(* A step that neither takes nor brings bytes leaves the pipe or breaks    *)
(* it.                                                                     *)
LEMMA InQuiet ==
  ASSUME TypeOK, NEW c \in Conns, sock'[c].sent = sock[c].sent,
         conn'[c].delivered = conn[c].delivered,
         Over(c) => Over(c)', ~Over(c)' => Pipe(c)' = Pipe(c)
  PROVE  InPipes!Step(InOf(c), InOf(c)') \/ InOf(c)' = InOf(c)
<1>1. PICK w \in Seq(Nat), o \in Nat, g \in Nat :
        w = Pipe(c) /\ o = sock[c].sent /\ g = conn[c].delivered
  BY InType
<1>2. InPipes!Step(PipeOf(w, o, g, "whole"), PipeOf(<<>>, o, g, "broken"))
  BY InMoves
<1>3. PICK p : p = InOf(c)
  OBVIOUS
<1>4. PICK q : q = InOf(c)'
  OBVIOUS
<1>5. CASE Over(c)
  BY <1>5 DEF InOf
<1>6. CASE ~Over(c) /\ Over(c)'
  <2>1. p = PipeOf(w, o, g, "whole")
    BY <1>1, <1>3, <1>6 DEF InOf
  <2>2. q = PipeOf(<<>>, o, g, "broken")
    BY <1>1, <1>4, <1>6 DEF InOf
  <2>3. QED
    BY <1>2, <1>3, <1>4, <2>1, <2>2
<1>7. CASE ~Over(c) /\ ~Over(c)'
  BY <1>7 DEF InOf
<1>8. QED
  BY <1>5, <1>6, <1>7

(* A new connection has no answers.                                        *)
LEMMA NewIn ==
  ASSUME JobInv', NEW c \in Conns, Renewed(c)
  PROVE  InOf(c)' = InPipes!New
<1>1. /\ conn'[c].recv = "RecvNone" /\ conn'[c].delivered = 0 /\ sock'[c].sent = 0
  BY NewFields
<1>2. Pipe(c)' = <<>>
  BY NewPipe DEF JobInv
<1>3. ASSUME NEW x \in {"RECV_ERROR", "RECV_CLOSE"}, Got(c, x)' PROVE FALSE
  <2>1. Direction(x) = "RECV"
    BY DEF Direction, SendResults
  <2>2. PICK w \in Workers : Job(c, "RECV") \in ResJobs(w)'
    BY <1>3, <2>1 DEF Got, ResJobs, Tok
  <2>3. Valid(Job(c, "RECV"), w)'
    BY <2>2 DEF JobInv, AllValid
  <2>4. conn'[c].recv \in RecvBusy
    BY <2>3 DEF Valid, Job, Busy
  <2>5. QED
    BY <1>1, <2>4 DEF RecvBusy
<1>4. ~Over(c)'
  BY <1>1, <1>3 DEF Over, Ended
<1>5. InOf(c)' = PipeOf(<<>>, 0, 0, "whole")
  BY <1>1, <1>2, <1>4 DEF InOf
<1>6. QED
  BY <1>5, PipeParts DEF InPipes!New

(* A packet is delivered only of a pipe that is whole.                     *)
LEMMA InTaken ==
  ASSUME JobInv, NEW c \in Conns, Delivered(c)
  PROVE  InPipes!Step(InOf(c), InOf(c)')
<1>1. PICK w \in Seq(Nat), o \in Nat, g \in Nat :
        w = Pipe(c) /\ o = sock[c].sent /\ g = conn[c].delivered
  BY InType DEF JobInv
<1>2. PICK n \in 1 .. Len(w) : Pipe(c)' = Suffix(w, n) /\ conn'[c].delivered = g + n
  BY <1>1, DeliveredPipe
<1>3. /\ (Ended(c)' <=> Ended(c)) /\ sock'[c] = sock[c]
      /\ conn'[c].recv = conn[c].recv /\ conn[c].recv \in RecvBusy
  BY DeliveredPipe
<1>4. ~Ended(c)
  <2>1. ASSUME NEW x \in {"RECV_ERROR", "RECV_CLOSE"}, Got(c, x) PROVE FALSE
    <3>1. x \in Results /\ Direction(x) = "RECV"
      BY DEF Results, RecvResults, Direction, SendResults
    <3>2. Busy(c, "RECV")
      BY <2>1, <3>1, GotBusy
    <3>3. QED
      BY <3>2 DEF Busy, Delivered
  <2>2. QED
    BY <2>1 DEF Ended
<1>5. ~Over(c) /\ ~Over(c)'
  BY <1>3, <1>4 DEF Over, RecvBusy
<1>6. PICK p : p = InOf(c)
  OBVIOUS
<1>7. PICK q : q = InOf(c)'
  OBVIOUS
<1>8. p = PipeOf(w, o, g, "whole")
  BY <1>1, <1>5, <1>6 DEF InOf
<1>9. q = PipeOf(Suffix(w, n), o, g + n, "whole")
  BY <1>1, <1>2, <1>3, <1>5, <1>7 DEF InOf
<1>10. InPipes!Step(PipeOf(w, o, g, "whole"), PipeOf(Suffix(w, n), o, g + n, "whole"))
  BY InMoves
<1>11. QED
  BY <1>6, <1>7, <1>8, <1>9, <1>10

(* A byte arrives, in vain if the pipe is broken.                          *)
LEMMA InArrives ==
  ASSUME JobInv, NEW c \in Conns, PeerMoved(c)
  PROVE  InPipes!Step(InOf(c), InOf(c)') \/ InOf(c)' = InOf(c)
<1>1. PICK w \in Seq(Nat), o \in Nat, g \in Nat :
        w = Pipe(c) /\ o = sock[c].sent /\ g = conn[c].delivered
  BY InType DEF JobInv
<1>2. /\ conn'[c] = conn[c] /\ (Ended(c)' <=> Ended(c))
      /\ \/ Pipe(c)' = w /\ sock'[c].sent = o
         \/ Pipe(c)' = Append(w, o + 1) /\ sock'[c].sent = o + 1
  BY <1>1, PeerInPipe
<1>3. Over(c)' <=> Over(c)
  BY <1>2 DEF Over
<1>4. CASE Pipe(c)' = w /\ sock'[c].sent = o
  BY <1>1, <1>2, <1>3, <1>4 DEF InOf
<1>5. CASE Pipe(c)' = Append(w, o + 1) /\ sock'[c].sent = o + 1
  <2>1. PICK p : p = InOf(c)
    OBVIOUS
  <2>2. PICK q : q = InOf(c)'
    OBVIOUS
  <2>3. CASE Over(c)
    <3>1. p = PipeOf(<<>>, o, g, "broken")
      BY <1>1, <2>1, <2>3 DEF InOf
    <3>2. q = PipeOf(<<>>, o + 1, g, "broken")
      BY <1>1, <1>2, <1>3, <1>5, <2>2, <2>3 DEF InOf
    <3>3. <<>> \in Seq(Nat)
      BY EmptySeq
    <3>4. InPipes!Step(PipeOf(<<>>, o, g, "broken"), PipeOf(<<>>, o + 1, g, "broken"))
      BY <3>3, InMoves
    <3>5. QED
      BY <2>1, <2>2, <3>1, <3>2, <3>4
  <2>4. CASE ~Over(c)
    <3>1. p = PipeOf(w, o, g, "whole")
      BY <1>1, <2>1, <2>4 DEF InOf
    <3>2. q = PipeOf(Append(w, o + 1), o + 1, g, "whole")
      BY <1>1, <1>2, <1>3, <1>5, <2>2, <2>4 DEF InOf
    <3>3. InPipes!Step(PipeOf(w, o, g, "whole"), PipeOf(Append(w, o + 1), o + 1, g, "whole"))
      BY InMoves
    <3>4. QED
      BY <2>1, <2>2, <3>1, <3>2, <3>3
  <2>5. QED
    BY <2>3, <2>4
<1>6. QED
  BY <1>2, <1>4, <1>5

LEMMA InStep ==
  ASSUME JobInv, JobInv', NEW c \in Conns, ConnStep(c), aborted' # "queue is full"
  PROVE  InPipes!Step(InOf(c), InOf(c)') \/ InOf(c)' = InOf(c)
<1>0. TypeOK /\ conn[c] \in ConnType /\ sock[c] \in SockType
  BY DEF JobInv, TypeOK
<1>1. CASE Stays(c)
  <2>1. conn'[c] = conn[c] /\ sock'[c] = sock[c] /\ GotBut(c, {}) /\ ParseSame(c)
    BY <1>1 DEF Stays
  <2>2. Pos(c)' = Pos(c) /\ (Ended(c)' <=> Ended(c))
    BY <2>1, PosStays, EndedStays
  <2>3. QED
    BY <1>0, <2>1, <2>2, InQuiet DEF Over, Pipe
<1>2. CASE WriteFrom(c)
  <2>1. PICK e \in SendResults : Answers(c, e)
    <3>1. Answers(c, "SEND_ERROR") \/ Answers(c, "SEND_DONE") \/ Answers(c, "SEND_PENDING")
      BY <1>2 DEF WriteFrom
    <3>2. QED
      BY <3>1 DEF SendResults
  <2>2. e \notin {"RECV_ERROR", "RECV_CLOSE"}
    BY DEF SendResults
  <2>3. Pos(c)' = Pos(c) /\ (Ended(c)' <=> Ended(c))
    BY <2>1, <2>2, EndedAnswers, PosStays DEF Answers
  <2>4. /\ conn'[c].rUsing = conn[c].rUsing /\ conn'[c].rWorking = conn[c].rWorking
        /\ conn'[c].delivered = conn[c].delivered /\ conn'[c].recv = conn[c].recv
    BY <1>0, <1>2 DEF WriteFrom, ConnType
  <2>5. sock'[c].in = sock[c].in /\ sock'[c].sent = sock[c].sent
    BY <1>0, <1>2 DEF WriteFrom, SockType
  <2>6. QED
    BY <1>0, <2>3, <2>4, <2>5, InQuiet DEF Over, Pipe
<1>3. ASSUME Renewed(c) PROVE InPipes!Step(InOf(c), InOf(c)')
  BY <1>3, NewIn DEF InPipes!Step
<1>4. ASSUME NEW e \in NetEvents, Moved(c, e)
      PROVE  InPipes!Step(InOf(c), InOf(c)') \/ InOf(c)' = InOf(c)
  <2>1. /\ conn'[c].recv # "RecvClose" /\ ~Ended(c)' => conn[c].recv # "RecvClose" /\ ~Ended(c)
        /\ Pipe(c)' = Pipe(c) /\ sock'[c] = sock[c]
        /\ conn'[c].delivered = conn[c].delivered
    BY <1>4, MovedPipe
  <2>2. QED
    BY <1>0, <2>1, InQuiet DEF Over
<1>5. CASE Resumed(c)
  <2>1. /\ conn'[c].recv = "RecvClose" \/ (conn[c].recv # "RecvClose" /\ Pipe(c)' = Pipe(c))
        /\ (Ended(c)' <=> Ended(c)) /\ sock'[c] = sock[c]
        /\ conn'[c].delivered = conn[c].delivered
    BY <1>5, ResumedPipe
  <2>2. QED
    BY <1>0, <2>1, InQuiet DEF Over
<1>6. CASE Began(c)
  <2>1. /\ Pipe(c)' = Pipe(c) /\ (Ended(c)' <=> Ended(c))
        /\ sock'[c] = sock[c] /\ conn'[c].recv = conn[c].recv
        /\ conn'[c].delivered = conn[c].delivered
    BY <1>6, BeganPipe
  <2>2. QED
    BY <1>0, <2>1, InQuiet DEF Over
<1>7. CASE ReadTo(c)
  <2>1. /\ Ended(c)' \/ (~Ended(c) /\ Pipe(c)' = Pipe(c))
        /\ sock'[c].sent = sock[c].sent
        /\ conn'[c].recv = conn[c].recv /\ conn'[c].delivered = conn[c].delivered
    BY <1>7, ReadPipe
  <2>2. QED
    BY <1>0, <2>1, InQuiet DEF Over
<1>8. QED
  BY <1>0, <1>1, <1>2, <1>3, <1>4, <1>5, <1>6, <1>7, InTaken, InArrives, StepMoves

-----------------------------------------------------------------------------
(* Both directions.                                                        *)
PipeView == \A c \in Conns : FromPeer(c) = InOf(c)

(* What the buffers, machines and queues make of a connection's two        *)
(* directions are steps of two pipes: OnRecv is given the peer's bytes     *)
(* from the first one on, in order and none after the end, and the peer is *)
(* given those offered to Send, of which only an overflow leaves out any.  *)
THEOREM ImplementsPipe == Spec => PipeSpec
<1>1. Init => OutPipes!Init
  <2> SUFFICES ASSUME Init, NEW c \in Conns PROVE ToPeer(c) = OutPipes!New
    BY DEF OutPipes!Init
  <2>1. conn[c] = NewConn(NoWorker) /\ sock[c] = NewSock
    BY DEF Init
  <2>2. <<>> \o <<>> = <<>>
    BY EmptySeq, ConcatEmptySeq
  <2>3. QED
    BY <2>1, <2>2 DEF ToPeer, SendPipe, NewConn, NewSock, SendClosing, OutPipes!New, OutPipes!PipeOf
<1>2. Init => InPipes!Init
  <2> SUFFICES ASSUME Init, NEW c \in Conns PROVE FromPeer(c) = InPipes!New
    BY DEF InPipes!Init
  <2>1. conn[c] = NewConn(NoWorker) /\ sock[c] = NewSock /\ parsing.c # c
    BY NullAssumption DEF Init, NotParsing
  <2>2. \A w \in Workers : resQ[w] = <<>>
    BY DEF Init
  <2>3. ~EndRead(c)
    BY <2>2, EmptySeq DEF EndRead
  <2>4. PICK e \in Seq(Nat) : e = <<>>
    BY EmptySeq
  <2>5. SubSeq(e, 0 + 1, Len(e)) = e /\ e \o e = e
    BY <2>4, WholeSuffix, ConcatEmptySeq
  <2>6. RecvPipe(c) = e
    BY <2>1, <2>4, <2>5 DEF RecvPipe, NewConn, NewSock
  <2>7. QED
    BY <2>1, <2>3, <2>4, <2>6 DEF FromPeer, NewConn, NewSock, InPipes!New, InPipes!PipeOf
<1>3. JobInv /\ DrainedInv /\ [Next]_vars => OutPipes!Next
  <2> SUFFICES ASSUME JobInv, DrainedInv, [Next]_vars, NEW c \in Conns
               PROVE  OutPipes!Step(ToPeer(c), ToPeer(c)') \/ ToPeer(c)' = ToPeer(c)
    BY DEF OutPipes!Next
  <2>1. TypeOK /\ ConnStep(c) /\ Drained(c)
    BY StepShape DEF JobInv, DrainedInv
  <2>2. QED
    BY <2>1, OutStep
<1>4. JobInv => PipeView
  BY InOfFrom DEF JobInv, PipeView
<1>5. JobInv /\ JobInv' /\ QueueInv' /\ PipeView /\ PipeView' /\ [Next]_vars => InPipes!Next
  <2> SUFFICES ASSUME JobInv, JobInv', QueueInv', PipeView, PipeView', [Next]_vars, NEW c \in Conns
               PROVE  InPipes!Step(FromPeer(c), FromPeer(c)') \/ FromPeer(c)' = FromPeer(c)
    BY DEF InPipes!Next
  <2>1. aborted' # "queue is full" /\ ConnStep(c)
    BY StepShape DEF QueueInv, AssertionsHold
  <2>2. InPipes!Step(InOf(c), InOf(c)') \/ InOf(c)' = InOf(c)
    BY <2>1, InStep
  <2>3. FromPeer(c) = InOf(c) /\ FromPeer(c)' = InOf(c)'
    BY DEF PipeView
  <2>4. QED
    BY <2>2, <2>3
<1>6. QED
  BY <1>1, <1>2, <1>3, <1>4, <1>5, JobInvHolds, DrainedHolds, QueueInvHolds, PTL
     DEF Spec, PipeSpec, OutPipes!Spec, InPipes!Spec

-----------------------------------------------------------------------------
(* What follows from the steps of a pipe: its parts have their types and   *)
(* its bytes are a Stream, exact as long as it is whole.                   *)
Exact(b) == IF b = "whole" THEN "SendNone" ELSE "SendClose"

Sound(p) ==
  \E w \in Seq(Nat), o \in Nat, g \in Nat, b \in {"whole", "broken"} :
    p = PipeOf(w, o, g, b) /\ Stream(w, g, o, Exact(b))

LEMMA NewSound == Sound(PipeOf(<<>>, 0, 0, "whole"))
<1>1. <<>> \in Seq(Nat) /\ Len(<<>>) = 0
  BY EmptySeq
<1>2. Bytes(0, 0) = <<>> /\ 0 - 0 = 0
  BY DEF Bytes
<1>3. Stream(<<>>, 0, 0, Exact("whole"))
  BY <1>1, <1>2 DEF Stream, Increasing
<1>4. QED
  BY <1>1, <1>3 DEF Sound

(* The bytes taken are the first ones.                                     *)
LEMMA StreamTaken ==
  ASSUME NEW w \in Seq(Nat), NEW o \in Nat, NEW g \in Nat, NEW b \in {"whole", "broken"},
         Stream(w, g, o, Exact(b)), NEW n \in Nat \ {0}, n <= Len(w)
  PROVE  Suffix(w, n) \in Seq(Nat) /\ Stream(Suffix(w, n), g + n, o, Exact(b))
<1>1. PICK l \in Nat : l = Len(w) /\ \A i \in 1 .. l : w[i] \in Nat
  BY LenProperties, ElementOfSeq
<1>2. PICK x : x = Suffix(w, n)
  OBVIOUS
<1>3. x \in Seq(Nat) /\ Len(x) = l - n /\ \A i \in 1 .. l - n : x[i] = w[n + i]
  <2>1. \A i \in n + 1 .. l : w[i] \in Nat
    BY <1>1
  <2>2. /\ x \in Seq(Nat) /\ Len(x) = IF n + 1 <= l THEN l - (n + 1) + 1 ELSE 0
        /\ \A i \in 1 .. l - (n + 1) + 1 : x[i] = w[n + 1 + i - 1]
    BY <1>1, <1>2, <2>1, SubSeqProperties DEF Suffix
  <2>3. QED
    BY <1>1, <2>2
<1>4. Increasing(x) /\ \A i \in 1 .. Len(x) : x[i] <= o
  <2>1. \A i \in 1 .. l - n : n + i \in 1 .. l
    OBVIOUS
  <2>2. /\ \A i, j \in 1 .. l : i < j => w[i] < w[j]
        /\ \A i \in 1 .. l : w[i] <= o
    BY <1>1 DEF Stream, Increasing
  <2>3. \A i, j \in 1 .. l - n : i < j => w[n + i] < w[n + j]
    BY <2>1, <2>2
  <2>4. QED
    BY <1>3, <2>1, <2>2, <2>3 DEF Increasing
<1>5. ASSUME Exact(b) \notin SendClosing
      PROVE  g + n <= o /\ x = Bytes(g + n, o - (g + n))
  <2>1. g <= o /\ w = Bytes(g, o - g)
    BY <1>5 DEF Stream
  <2>2. PICK t \in Nat : t = o - g /\ w = Bytes(g, t)
    BY <2>1
  <2>3. l = t /\ \A i \in 1 .. l : w[i] = g + i
    <3>1. Len(Bytes(g, t)) = t /\ \A i \in 1 .. t : Bytes(g, t)[i] = g + i
      BY BytesAt
    <3>2. Len(w) = t /\ \A i \in 1 .. t : w[i] = g + i
      BY <2>2, <3>1, Zenon
    <3>3. QED
      BY <1>1, <3>2, Zenon
  <2>4. PICK h \in Nat, m \in Nat : h = g + n /\ m = o - h /\ l - n = m
    BY <1>1, <2>2, <2>3
  <2>5. Len(x) = m /\ \A i \in 1 .. m : x[i] = h + i
    BY <1>3, <2>3, <2>4
  <2>6. x = Bytes(h, m)
    BY <1>3, <2>5, IsBytes
  <2>7. QED
    BY <2>4, <2>6
<1>6. QED
  BY <1>2, <1>3, <1>4, <1>5 DEF Stream

(* The bytes lost are the last ones.                                       *)
LEMMA StreamBroken ==
  ASSUME NEW w \in Seq(Nat), NEW o \in Nat, NEW g \in Nat, NEW st, Stream(w, g, o, st),
         NEW k \in 0 .. Len(w)
  PROVE  SubSeq(w, 1, k) \in Seq(Nat) /\ Stream(SubSeq(w, 1, k), g, o, Exact("broken"))
<1>1. PICK l \in Nat : l = Len(w) /\ \A i \in 1 .. l : w[i] \in Nat
  BY LenProperties, ElementOfSeq
<1>2. k \in Nat /\ k <= l
  BY <1>1
<1>3. PICK x : x = SubSeq(w, 1, k)
  OBVIOUS
<1>4. x \in Seq(Nat) /\ Len(x) = k /\ \A i \in 1 .. k : x[i] = w[i]
  <2>1. \A i \in 1 .. k : w[i] \in Nat
    BY <1>1, <1>2
  <2>2. /\ x \in Seq(Nat) /\ Len(x) = IF 1 <= k THEN k - 1 + 1 ELSE 0
        /\ \A i \in 1 .. k - 1 + 1 : x[i] = w[1 + i - 1]
    BY <1>2, <1>3, <2>1, SubSeqProperties
  <2>3. QED
    BY <1>2, <2>2
<1>5. Increasing(x) /\ \A i \in 1 .. Len(x) : x[i] <= o
  <2>1. \A i \in 1 .. k : i \in 1 .. l
    BY <1>2
  <2>2. /\ \A i, j \in 1 .. l : i < j => w[i] < w[j]
        /\ \A i \in 1 .. l : w[i] <= o
    BY <1>1 DEF Stream, Increasing
  <2>3. QED
    BY <1>4, <2>1, <2>2 DEF Increasing
<1>6. QED
  BY <1>3, <1>4, <1>5 DEF Stream, Exact, SendClosing

LEMMA PutSound ==
  ASSUME NEW w \in Seq(Nat), NEW o \in Nat, NEW g \in Nat, NEW b \in {"whole", "broken"},
         Stream(w, g, o, Exact(b)), NEW n \in Nat, n > o
  PROVE  /\ Sound(PipeOf(w \o [i \in 1 .. n - o |-> o + i], n, g, b))
         /\ Sound(PipeOf(w, n, g, "broken"))
<1>1. PICK m \in Nat : m = n - o /\ o + m = n
  OBVIOUS
<1>2. PICK x \in Seq(Nat) : x = w \o Bytes(o, m)
  BY BytesAt, ConcatProperties
<1>3. Stream(x, g, n, Exact(b))
  BY <1>1, <1>2, StreamGrows
<1>4. Sound(PipeOf(x, n, g, b))
  BY <1>3 DEF Sound
<1>5. Exact("broken") \in SendClosing
  BY DEF Exact, SendClosing
<1>6. Stream(w, g, n, Exact("broken"))
  BY <1>1, <1>5, StreamDrops
<1>7. Sound(PipeOf(w, n, g, "broken"))
  BY <1>6 DEF Sound
<1>8. w \o [i \in 1 .. n - o |-> o + i] = x
  BY <1>1, <1>2 DEF Bytes
<1>9. QED
  BY <1>4, <1>7, <1>8

LEMMA TakeSound ==
  ASSUME NEW w \in Seq(Nat), NEW o \in Nat, NEW g \in Nat, NEW b \in {"whole", "broken"},
         Stream(w, g, o, Exact(b)), NEW n \in Nat, n > g, n - g <= Len(w)
  PROVE  Sound(PipeOf(SubSeq(w, n - g + 1, Len(w)), o, n, b))
<1>1. PICK m \in Nat \ {0} : m = n - g /\ g + m = n
  OBVIOUS
<1>2. PICK x : x = Suffix(w, m)
  OBVIOUS
<1>3. x \in Seq(Nat) /\ Stream(x, n, o, Exact(b))
  BY <1>1, <1>2, StreamTaken
<1>4. Sound(PipeOf(x, o, n, b))
  BY <1>3 DEF Sound
<1>5. SubSeq(w, n - g + 1, Len(w)) = x
  BY <1>1, <1>2 DEF Suffix
<1>6. QED
  BY <1>4, <1>5

LEMMA BreakSound ==
  ASSUME NEW w \in Seq(Nat), NEW o \in Nat, NEW g \in Nat, NEW st, Stream(w, g, o, st),
         NEW k \in 0 .. Len(w)
  PROVE  Sound(PipeOf(SubSeq(w, 1, k), o, g, "broken"))
  BY StreamBroken DEF Sound

(* Every step of either pipe.                                              *)
LEMMA StepSound ==
  ASSUME NEW p, Sound(p), NEW q, OutPipes!Step(p, q) \/ InPipes!Step(p, q)
  PROVE  Sound(q)
<1>1. PICK w \in Seq(Nat), o \in Nat, g \in Nat, b \in {"whole", "broken"} :
        p = PipeOf(w, o, g, b) /\ Stream(w, g, o, Exact(b))
  BY DEF Sound
<1>2. p.wire = w /\ p.put = o /\ p.got = g /\ p.state = b
  BY <1>1, PipeParts
<1>3. CASE OutPipes!Put(p, q) \/ InPipes!Put(p, q)
  <2>1. PICK n \in Nat : n > o /\ q = PipeOf(w \o [i \in 1 .. n - o |-> o + i], n, g, b)
    BY <1>2, <1>3, PipeParts DEF OutPipes!Put, InPipes!Put
  <2>2. QED
    BY <1>1, <2>1, PutSound
<1>4. CASE OutPipes!Drop(p, q) \/ InPipes!Drop(p, q)
  <2>1. PICK n \in Nat : n > o /\ q = PipeOf(w, n, g, "broken")
    BY <1>2, <1>4, PipeParts DEF OutPipes!Drop, InPipes!Drop
  <2>2. QED
    BY <1>1, <2>1, PutSound
<1>5. CASE OutPipes!Take(p, q) \/ InPipes!Take(p, q)
  <2>1. PICK n \in Nat : n > g /\ n - g <= Len(w) /\ q = PipeOf(SubSeq(w, n - g + 1, Len(w)), o, n, b)
    BY <1>2, <1>5, PipeParts DEF OutPipes!Take, InPipes!Take
  <2>2. QED
    BY <1>1, <2>1, TakeSound
<1>6. CASE OutPipes!Break(p, q) \/ InPipes!Break(p, q)
  <2>1. PICK k \in 0 .. Len(w) : q = PipeOf(SubSeq(w, 1, k), o, g, "broken")
    BY <1>2, <1>6, PipeParts DEF OutPipes!Break, InPipes!Break
  <2>2. QED
    BY <1>1, <2>1, BreakSound
<1>7. CASE q = OutPipes!New \/ q = InPipes!New
  BY <1>7, NewSound, PipeParts DEF OutPipes!New, InPipes!New
<1>8. QED
  BY <1>3, <1>4, <1>5, <1>6, <1>7 DEF OutPipes!Step, InPipes!Step

(* A sound pipe is in order.                                               *)
LEMMA SoundInOrder ==
  ASSUME NEW p, Sound(p)
  PROVE  /\ \A i, j \in DOMAIN p.wire : i < j => p.wire[i] < p.wire[j]
         /\ p.state = "whole" => p.wire = [i \in 1 .. p.put - p.got |-> p.got + i]
<1>1. PICK w \in Seq(Nat), o \in Nat, g \in Nat, b \in {"whole", "broken"} :
        p = PipeOf(w, o, g, b) /\ Stream(w, g, o, Exact(b))
  BY DEF Sound
<1>2. p.wire = w /\ p.put = o /\ p.got = g /\ p.state = b
  BY <1>1, PipeParts
<1>3. DOMAIN w = 1 .. Len(w)
  BY LenProperties
<1>4. \A i, j \in DOMAIN w : i < j => w[i] < w[j]
  BY <1>1, <1>3 DEF Stream, Increasing
<1>5. b = "whole" => w = [i \in 1 .. o - g |-> g + i]
  BY <1>1 DEF Stream, Exact, SendClosing, Bytes
<1>6. QED
  BY <1>2, <1>4, <1>5

(* Whatever implements the two pipes keeps the order of the bytes, and     *)
(* while neither side has seen the end it misses none: what a connection's *)
(* users may rely on follows from the steps of Pipe alone.                 *)
THEOREM PipesKeepOrder == PipeSpec => [](OutPipes!InOrder /\ InPipes!InOrder)
<1> DEFINE OutSound == \A c \in Conns : Sound(ToPeer(c))
           InSound  == \A c \in Conns : Sound(FromPeer(c))
<1>1. OutPipes!Init => OutSound
  BY NewSound, PipeParts DEF OutPipes!Init, OutPipes!New
<1>2. InPipes!Init => InSound
  BY NewSound, PipeParts DEF InPipes!Init, InPipes!New
<1>3. OutSound /\ [OutPipes!Next]_([c \in Conns |-> ToPeer(c)]) => OutSound'
  <2> SUFFICES ASSUME OutSound, [OutPipes!Next]_([c \in Conns |-> ToPeer(c)]), NEW c \in Conns
               PROVE  Sound(ToPeer(c)')
    BY DEF Sound
  <2>1. OutPipes!Step(ToPeer(c), ToPeer(c)') \/ ToPeer(c)' = ToPeer(c)
    <3>1. CASE OutPipes!Next
      BY <3>1 DEF OutPipes!Next
    <3>2. CASE [d \in Conns |-> ToPeer(d)]' = [d \in Conns |-> ToPeer(d)]
      <4>1. [d \in Conns |-> ToPeer(d)]'[c] = [d \in Conns |-> ToPeer(d)][c]
        BY <3>2
      <4>2. QED
        BY <4>1
    <3>3. QED
      BY <3>1, <3>2
  <2>2. Sound(ToPeer(c))
    OBVIOUS
  <2>3. QED
    BY <2>1, <2>2, StepSound
<1>4. InSound /\ [InPipes!Next]_([c \in Conns |-> FromPeer(c)]) => InSound'
  <2> SUFFICES ASSUME InSound, [InPipes!Next]_([c \in Conns |-> FromPeer(c)]), NEW c \in Conns
               PROVE  Sound(FromPeer(c)')
    BY DEF Sound
  <2>1. InPipes!Step(FromPeer(c), FromPeer(c)') \/ FromPeer(c)' = FromPeer(c)
    <3>1. CASE InPipes!Next
      BY <3>1 DEF InPipes!Next
    <3>2. CASE [d \in Conns |-> FromPeer(d)]' = [d \in Conns |-> FromPeer(d)]
      <4>1. [d \in Conns |-> FromPeer(d)]'[c] = [d \in Conns |-> FromPeer(d)][c]
        BY <3>2
      <4>2. QED
        BY <4>1
    <3>3. QED
      BY <3>1, <3>2
  <2>2. Sound(FromPeer(c))
    OBVIOUS
  <2>3. QED
    BY <2>1, <2>2, StepSound
<1>5. OutSound => OutPipes!InOrder
  BY SoundInOrder DEF OutPipes!InOrder
<1>6. InSound => InPipes!InOrder
  BY SoundInOrder DEF InPipes!InOrder
<1>7. QED
  BY <1>1, <1>2, <1>3, <1>4, <1>5, <1>6, PTL DEF PipeSpec, OutPipes!Spec, InPipes!Spec
=============================================================================
