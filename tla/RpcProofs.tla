------------------------------ MODULE RpcProofs ------------------------------
(***************************************************************************)
(* Theorems about Rpc: its types, that a coroutine is never in two places  *)
(* at once, that nothing is left of its former use when it is used again,  *)
(* and that a call is answered once, to the coroutine that waits for it.   *)
(***************************************************************************)
EXTENDS Rpc, TLAPS, SequenceTheorems, FiniteSetTheorems

(* The inductive invariant.                                                *)
PlaceInv == TypeOK /\ CoInOnePlace

-----------------------------------------------------------------------------
(* Facts about sequences.                                                  *)

(* Front and Last take a sequence apart.                                   *)
LEMMA FrontFacts ==
  ASSUME NEW S, NEW s \in Seq(S), s # <<>>
  PROVE  /\ Last(s) \in S /\ Last(s) = s[Len(s)] /\ Len(s) \in DOMAIN s
         /\ Front(s) \in Seq(S)
         /\ \A i \in DOMAIN Front(s) : i \in DOMAIN s /\ i # Len(s) /\ Front(s)[i] = s[i]
<1>1. Len(s) \in Nat \ {0} /\ DOMAIN s = 1 .. Len(s) /\ \A i \in 1 .. Len(s) : s[i] \in S
  BY EmptySeq, LenProperties, ElementOfSeq
<1>2. Front(s) = [i \in 1 .. Len(s) - 1 |-> s[i]]
  BY <1>1 DEF Front
<1>3. Front(s) \in Seq(S) /\ DOMAIN Front(s) = 1 .. Len(s) - 1
  BY <1>1, <1>2, IsASeq
<1>4. QED
  BY <1>1, <1>2, <1>3 DEF Last

(* A prefix of a sequence, shorter than it.                                *)
LEMMA PrefixFacts ==
  ASSUME NEW S, NEW s \in Seq(S), NEW n \in 0 .. Len(s) - 1
  PROVE  /\ SubSeq(s, 1, n) \in Seq(S)
         /\ \A i \in DOMAIN SubSeq(s, 1, n) :
              i \in DOMAIN s /\ i # Len(s) /\ SubSeq(s, 1, n)[i] = s[i]
<1>1. Len(s) \in Nat /\ DOMAIN s = 1 .. Len(s) /\ \A i \in 1 .. Len(s) : s[i] \in S
  BY LenProperties, ElementOfSeq
<1>2. SubSeq(s, 1, n) = [i \in 1 .. n |-> s[i]]
  BY <1>1
<1>3. SubSeq(s, 1, n) \in Seq(S) /\ DOMAIN SubSeq(s, 1, n) = 1 .. n
  BY <1>1, <1>2, IsASeq
<1>4. QED
  BY <1>1, <1>2, <1>3

(* Append adds one element.                                                *)
LEMMA AppendFacts ==
  ASSUME NEW S, NEW s \in Seq(S), NEW c \in S
  PROVE  /\ Append(s, c) \in Seq(S)
         /\ \A i \in DOMAIN Append(s, c) :
              \/ i \in DOMAIN s /\ Append(s, c)[i] = s[i]
              \/ i = Len(s) + 1 /\ i \notin DOMAIN s /\ Append(s, c)[i] = c
  BY AppendProperties, LenProperties

(* The empty sequence is a sequence of anything.                           *)
LEMMA EmptyFacts == ASSUME NEW S PROVE <<>> \in Seq(S) /\ DOMAIN <<>> = {}
  BY EmptySeq

-----------------------------------------------------------------------------
(* How the places of coroutines change.                                    *)

(* A coroutine that ended runs again.                                      *)
LEMMA ReuseApart ==
  ASSUME NEW k \in Seq(Cos), NEW pool \in Seq(Cos), NEW wait, NEW made,
         Apart(k, pool, wait, made), pool # <<>>
  PROVE  Apart(Append(k, Last(pool)), Front(pool), wait, made)
<1>1. Last(pool) \in Cos
  BY FrontFacts
<1>2. \A i \in DOMAIN Append(k, Last(pool)) :
         \/ i \in DOMAIN k /\ Append(k, Last(pool))[i] = k[i]
         \/ i = Len(k) + 1 /\ i \notin DOMAIN k /\ Append(k, Last(pool))[i] = pool[Len(pool)]
  BY <1>1, AppendFacts, FrontFacts
<1>3. /\ Len(pool) \in DOMAIN pool
      /\ \A i \in DOMAIN Front(pool) : i \in DOMAIN pool /\ i # Len(pool) /\ Front(pool)[i] = pool[i]
  BY FrontFacts
<1>4. QED
  BY <1>2, <1>3 DEF Apart, IsInjective

(* A new coroutine runs.                                                   *)
LEMMA NewApart ==
  ASSUME NEW k \in Seq(Cos), NEW pool \in Seq(Cos), NEW wait, NEW made, NEW c \in Cos,
         Apart(k, pool, wait, made), c \notin made
  PROVE  Apart(Append(k, c), pool, wait, made \cup {c})
<1>1. \A i \in DOMAIN Append(k, c) :
         \/ i \in DOMAIN k /\ Append(k, c)[i] = k[i]
         \/ i = Len(k) + 1 /\ i \notin DOMAIN k /\ Append(k, c)[i] = c
  BY AppendFacts
<1>2. c # NoCo
  BY RpcAssumption
<1>3. QED
  BY <1>1, <1>2 DEF Apart, IsInjective

(* The current coroutine ends and enters the pool, with or without some of *)
(* those below it.                                                         *)
LEMMA ExitApart ==
  ASSUME NEW k \in Seq(Cos), NEW pool \in Seq(Cos), NEW wait, NEW made,
         Apart(k, pool, wait, made), k # <<>>
  PROVE  /\ Apart(Front(k), Append(pool, Last(k)), wait, made)
         /\ \A n \in 0 .. Len(k) - 1 : Apart(SubSeq(k, 1, n), Append(pool, Last(k)), wait, made)
<1>1. Last(k) \in Cos
  BY FrontFacts
<1>2. \A i \in DOMAIN Append(pool, Last(k)) :
         \/ i \in DOMAIN pool /\ Append(pool, Last(k))[i] = pool[i]
         \/ i = Len(pool) + 1 /\ i \notin DOMAIN pool /\ Append(pool, Last(k))[i] = k[Len(k)]
  BY <1>1, AppendFacts, FrontFacts
<1>3. /\ Len(k) \in DOMAIN k
      /\ \A i \in DOMAIN Front(k) : i \in DOMAIN k /\ i # Len(k) /\ Front(k)[i] = k[i]
  BY FrontFacts
<1>5. Apart(Front(k), Append(pool, Last(k)), wait, made)
  BY <1>2, <1>3 DEF Apart, IsInjective
<1>6. ASSUME NEW n \in 0 .. Len(k) - 1 PROVE Apart(SubSeq(k, 1, n), Append(pool, Last(k)), wait, made)
  <2>1. \A i \in DOMAIN SubSeq(k, 1, n) :
          i \in DOMAIN k /\ i # Len(k) /\ SubSeq(k, 1, n)[i] = k[i]
    BY PrefixFacts
  <2>2. QED
    BY <1>2, <1>3, <2>1 DEF Apart, IsInjective
<1>7. QED
  BY <1>5, <1>6

(* The current coroutine waits.                                            *)
LEMMA WaitApart ==
  ASSUME NEW k \in Seq(Cos), NEW pool, NEW wait \in [Seqs -> Cos \cup {NoCo}], NEW made,
         Apart(k, pool, wait, made), k # <<>>, NEW seq \in Seqs
  PROVE  Apart(Front(k), pool, [wait EXCEPT ![seq] = Last(k)], made)
<1>1. /\ Last(k) = k[Len(k)] /\ Len(k) \in DOMAIN k
      /\ \A i \in DOMAIN Front(k) : i \in DOMAIN k /\ i # Len(k) /\ Front(k)[i] = k[i]
  BY FrontFacts
<1>2. QED
  BY <1>1 DEF Apart, IsInjective

(* The answer resumes the coroutine that waits for it.                     *)
LEMMA ResumeApart ==
  ASSUME NEW pool \in Seq(Cos), NEW wait \in [Seqs -> Cos \cup {NoCo}], NEW made,
         Apart(<<>>, pool, wait, made), NEW seq \in Seqs, wait[seq] # NoCo
  PROVE  Apart(<<wait[seq]>>, pool, [wait EXCEPT ![seq] = NoCo], made)
<1>1. /\ DOMAIN <<wait[seq]>> = {1} /\ <<wait[seq]>>[1] = wait[seq]
  OBVIOUS
<1>2. \A j \in DOMAIN pool : pool[j] # NoCo
  BY RpcAssumption, ElementOfSeq, LenProperties
<1>3. QED
  BY <1>1, <1>2 DEF Apart, IsInjective

(* Coroutines that end with an error are nowhere.                          *)
LEMMA DropApart ==
  ASSUME NEW k \in Seq(Cos), NEW pool, NEW wait, NEW made, Apart(k, pool, wait, made),
         NEW n \in 0 .. Len(k) - 1
  PROVE  Apart(SubSeq(k, 1, n), pool, wait, made)
<1>1. \A i \in DOMAIN SubSeq(k, 1, n) : i \in DOMAIN k /\ SubSeq(k, 1, n)[i] = k[i]
  BY PrefixFacts
<1>2. QED
  BY <1>1 DEF Apart, IsInjective

(* A process that starts has no coroutines.                                *)
LEMMA EmptyApart ==
  ASSUME NEW made PROVE Apart(<<>>, <<>>, [s \in Seqs |-> NoCo], made)
<1>1. DOMAIN <<>> = {}
  BY EmptyFacts
<1>2. QED
  BY <1>1 DEF Apart, IsInjective

-----------------------------------------------------------------------------
(* Types of the parts.                                                     *)

ChanType == [Procs -> [Procs -> Seq(Msgs)]]
SpentType == [callNoRet : 0 .. MaxCallNoRet, fork : 0 .. MaxFork, faults : 0 .. MaxFaults,
              restarted : SUBSET Procs, unanswered : SUBSET Procs]

(* What is sent is a message.                                              *)
LEMMA SentType ==
  ASSUME chan \in ChanType, NEW p \in Procs, NEW Q, NEW msg \in Msgs
  PROVE  Sent(p, Q, msg) \in ChanType
<1>1. \A q \in Procs : Append(chan[p][q], msg) \in Seq(Msgs)
  BY AppendFacts DEF ChanType
<1>2. QED
  BY <1>1 DEF Sent, ChanType

(* The first message of a channel is a message, the rest a channel.        *)
LEMMA ArrivesType ==
  ASSUME chan \in ChanType, NEW p \in Procs, NEW q \in Procs, NEW kind, Arrives(p, q, kind)
  PROVE  /\ chan' \in ChanType /\ Head(chan[q][p]) \in Msgs
         /\ Head(chan[q][p]).kind = kind /\ stack[p] = <<>>
<1>1. chan[q][p] \in Seq(Msgs) /\ chan[q][p] # <<>>
  BY DEF Arrives, ChanType
<1>2. Head(chan[q][p]) \in Msgs /\ Tail(chan[q][p]) \in Seq(Msgs)
  BY <1>1, HeadTailProperties
<1>3. QED
  BY <1>2 DEF Arrives, ChanType

(* Messages with a number carry a number in use.                           *)
LEMMA MsgSeq ==
  ASSUME NEW msg \in Msgs, msg.kind \in {"RPC", "RESPONE"}
  PROVE  msg.seq \in Seqs
  BY DEF Msgs

(* create_co yields a coroutine whose place is free.                       *)
LEMMA CreateCoFacts ==
  ASSUME PlaceInv, NEW p \in Procs, NEW c \in Cos, CreateCo(p, c)
  PROVE  /\ coroutine_pool' \in [Procs -> Seq(Cos)] /\ created' \in [Procs -> SUBSET Cos]
         /\ Apart(Append(stack[p], c), coroutine_pool'[p], wait_sequence[p], created'[p])
         /\ \A r \in Procs : r # p => /\ coroutine_pool'[r] = coroutine_pool[r]
                                      /\ created'[r] = created[r]
<1>1. /\ stack[p] \in Seq(Cos) /\ coroutine_pool[p] \in Seq(Cos)
      /\ Apart(stack[p], coroutine_pool[p], wait_sequence[p], created[p])
  BY DEF PlaceInv, TypeOK, CoInOnePlace
<1>2. CASE /\ coroutine_pool[p] # <<>> /\ c = Last(coroutine_pool[p])
           /\ coroutine_pool' = [coroutine_pool EXCEPT ![p] = Front(@)]
           /\ UNCHANGED created
  <2>1. Front(coroutine_pool[p]) \in Seq(Cos)
    BY <1>1, <1>2, FrontFacts
  <2>2. Apart(Append(stack[p], c), Front(coroutine_pool[p]), wait_sequence[p], created[p])
    BY <1>1, <1>2, ReuseApart
  <2>3. QED
    BY <1>2, <2>1, <2>2 DEF PlaceInv, TypeOK
<1>3. CASE /\ coroutine_pool[p] = <<>> /\ c = NewCo(p) /\ c \in Cos
           /\ created' = [created EXCEPT ![p] = @ \cup {c}]
           /\ UNCHANGED coroutine_pool
  <2>1. created[p] # Cos
    BY <1>3, RpcAssumption DEF NewCo
  <2>2. \E x \in Cos : x \notin created[p]
    BY <2>1 DEF PlaceInv, TypeOK
  <2>3. c \notin created[p]
    BY <1>3, <2>1, <2>2 DEF NewCo
  <2>4. Apart(Append(stack[p], c), coroutine_pool[p], wait_sequence[p], created[p] \cup {c})
    BY <1>1, <2>3, NewApart
  <2>5. QED
    BY <1>3, <2>4 DEF PlaceInv, TypeOK
<1>4. QED
  BY <1>2, <1>3 DEF CreateCo

(* Starting coroutine c on process p keeps the invariant.                  *)
LEMMA StartPlaces ==
  ASSUME PlaceInv, NEW p \in Procs, NEW c \in Cos, CreateCo(p, c),
         stack' = [stack EXCEPT ![p] = Append(@, c)], UNCHANGED wait_sequence
  PROVE  /\ stack' \in [Procs -> Seq(Cos)]
         /\ coroutine_pool' \in [Procs -> Seq(Cos)] /\ created' \in [Procs -> SUBSET Cos]
         /\ CoInOnePlace'
<1>1. stack \in [Procs -> Seq(Cos)] /\ Append(stack[p], c) \in Seq(Cos)
  BY AppendFacts DEF PlaceInv, TypeOK
<1>2. stack' \in [Procs -> Seq(Cos)] /\ stack'[p] = Append(stack[p], c)
  BY <1>1
<1>3. \A r \in Procs : Apart(stack'[r], coroutine_pool'[r], wait_sequence'[r], created'[r])
  <2> TAKE r \in Procs
  <2>1. CASE r = p
    BY <1>2, <2>1, CreateCoFacts
  <2>2. CASE r # p
    <3>1. stack'[r] = stack[r]
      BY <1>1, <2>2
    <3>2. QED
      BY <2>2, <3>1, CreateCoFacts DEF PlaceInv, CoInOnePlace
  <2>3. QED
    BY <2>1, <2>2
<1>4. QED
  BY <1>2, <1>3, CreateCoFacts DEF CoInOnePlace

-----------------------------------------------------------------------------
(* The actions, one by one.                                                *)

(* A fork starts a coroutine whose place is free.                          *)
LEMMA ForkPlaces == ASSUME PlaceInv, NEW p \in Procs, Fork(p) PROVE PlaceInv'
<1>1. PICK c \in Cos : CreateCo(p, c) /\ stack' = [stack EXCEPT ![p] = Append(@, c)]
  BY DEF Fork
<1>2. spent' \in SpentType
  <2>1. spent \in SpentType /\ MaxFork \in Nat
    BY RpcAssumption DEF PlaceInv, TypeOK, SpentType
  <2>2. spent.fork < MaxFork /\ spent' = [spent EXCEPT !.fork = @ + 1]
    BY DEF Fork
  <2>3. QED
    BY <2>1, <2>2 DEF SpentType
<1>3. QED
  BY <1>1, <1>2, StartPlaces DEF PlaceInv, TypeOK, SpentType, Fork

(* A call starts a coroutine on a process where none runs.                 *)
LEMMA OnCallPlaces ==
  ASSUME PlaceInv, NEW p \in Procs, NEW q \in Procs, OnCall(p, q) PROVE PlaceInv'
<1> DEFINE msg == Head(chan[q][p])
<1>1. /\ chan' \in ChanType /\ msg.seq \in Seqs /\ stack[p] = <<>>
  <2>1. chan \in ChanType /\ Arrives(p, q, "RPC")
    BY DEF PlaceInv, TypeOK, ChanType, OnCall
  <2>2. QED
    BY <2>1, ArrivesType, MsgSeq
<1>2. CASE \E c \in Cos : /\ CreateCo(p, c)
                          /\ stack' = [stack EXCEPT ![p] = <<c>>]
                          /\ co_sequence' = [co_sequence EXCEPT ![p][c] = msg.seq]
                          /\ co_call_node' = [co_call_node EXCEPT ![p][c] = q]
                          /\ UNCHANGED <<wait_sequence, next_sequence_id>>
  <2> HIDE DEF msg
  <2>1. PICK c \in Cos : /\ CreateCo(p, c)
                         /\ stack' = [stack EXCEPT ![p] = <<c>>]
                         /\ co_sequence' = [co_sequence EXCEPT ![p][c] = msg.seq]
                         /\ co_call_node' = [co_call_node EXCEPT ![p][c] = q]
                         /\ UNCHANGED <<wait_sequence, next_sequence_id>>
    BY <1>2
  <2>2. stack' = [stack EXCEPT ![p] = Append(@, c)]
    BY <1>1, <2>1 DEF PlaceInv, TypeOK
  <2>3. /\ co_sequence' \in [Procs -> [Cos -> Seqs \cup {NoSeq}]]
        /\ co_call_node' \in [Procs -> [Cos -> Procs \cup {NoProc}]]
    BY <1>1, <2>1 DEF PlaceInv, TypeOK
  <2>4. QED
    BY <1>1, <2>1, <2>2, <2>3, StartPlaces DEF PlaceInv, TypeOK, ChanType, OnCall
<1>3. CASE UNCHANGED local
  BY <1>1, <1>3 DEF PlaceInv, TypeOK, CoInOnePlace, ChanType, OnCall, local
<1>4. QED
  BY <1>2, <1>3 DEF OnCall

(* So does a call without an answer.                                       *)
LEMMA OnCallNoRetPlaces ==
  ASSUME PlaceInv, NEW p \in Procs, NEW q \in Procs, OnCallNoRet(p, q) PROVE PlaceInv'
<1>1. chan' \in ChanType /\ stack[p] = <<>>
  <2>1. chan \in ChanType /\ Arrives(p, q, "RPCNR")
    BY DEF PlaceInv, TypeOK, ChanType, OnCallNoRet
  <2>2. QED
    BY <2>1, ArrivesType
<1>2. CASE \E c \in Cos : /\ CreateCo(p, c)
                          /\ stack' = [stack EXCEPT ![p] = <<c>>]
                          /\ co_call_node' = [co_call_node EXCEPT ![p][c] = q]
                          /\ UNCHANGED <<wait_sequence, next_sequence_id, co_sequence>>
  <2>1. PICK c \in Cos : /\ CreateCo(p, c)
                         /\ stack' = [stack EXCEPT ![p] = <<c>>]
                         /\ co_call_node' = [co_call_node EXCEPT ![p][c] = q]
                         /\ UNCHANGED <<wait_sequence, next_sequence_id, co_sequence>>
    BY <1>2
  <2>2. stack' = [stack EXCEPT ![p] = Append(@, c)]
    BY <1>1, <2>1 DEF PlaceInv, TypeOK
  <2>3. co_call_node' \in [Procs -> [Cos -> Procs \cup {NoProc}]]
    BY <2>1 DEF PlaceInv, TypeOK
  <2>4. QED
    BY <1>1, <2>1, <2>2, <2>3, StartPlaces DEF PlaceInv, TypeOK, ChanType, OnCallNoRet
<1>3. CASE UNCHANGED local
  BY <1>1, <1>3 DEF PlaceInv, TypeOK, CoInOnePlace, ChanType, OnCallNoRet, local
<1>4. QED
  BY <1>2, <1>3 DEF OnCallNoRet

(* An answer moves a coroutine from the table of waiting ones.             *)
LEMMA OnResponePlaces ==
  ASSUME PlaceInv, NEW p \in Procs, NEW q \in Procs, OnRespone(p, q) PROVE PlaceInv'
<1> DEFINE seq == Head(chan[q][p]).seq
<1>1. chan' \in ChanType /\ seq \in Seqs /\ stack[p] = <<>>
  <2>1. chan \in ChanType /\ Arrives(p, q, "RESPONE")
    BY DEF PlaceInv, TypeOK, ChanType, OnRespone
  <2>2. QED
    BY <2>1, ArrivesType, MsgSeq
<1>2. CASE wait_sequence[p][seq] # NoCo /\ Resume(p, seq)
  <2> HIDE DEF seq
  <2>1. /\ stack \in [Procs -> Seq(Cos)] /\ wait_sequence \in [Procs -> [Seqs -> Cos \cup {NoCo}]]
        /\ stack' = [stack EXCEPT ![p] = <<wait_sequence[p][seq]>>]
        /\ wait_sequence' = [wait_sequence EXCEPT ![p] = [wait_sequence[p] EXCEPT ![seq] = NoCo]]
    BY <1>2 DEF PlaceInv, TypeOK, Resume
  <2>2. wait_sequence[p][seq] \in Cos
    BY <1>1, <1>2, <2>1
  <2>3. /\ stack' \in [Procs -> Seq(Cos)]
        /\ wait_sequence' \in [Procs -> [Seqs -> Cos \cup {NoCo}]]
    BY <1>1, <2>1, <2>2
  <2>4. Apart(<<wait_sequence[p][seq]>>, coroutine_pool[p],
              [wait_sequence[p] EXCEPT ![seq] = NoCo], created[p])
    <3>1. /\ Apart(<<>>, coroutine_pool[p], wait_sequence[p], created[p])
          /\ coroutine_pool[p] \in Seq(Cos) /\ wait_sequence[p] \in [Seqs -> Cos \cup {NoCo}]
      BY <1>1 DEF PlaceInv, CoInOnePlace, TypeOK
    <3>2. QED
      BY <1>1, <1>2, <3>1, ResumeApart
  <2>5. CoInOnePlace'
    BY <2>1, <2>4 DEF PlaceInv, CoInOnePlace, OnRespone
  <2>6. QED
    BY <1>1, <2>3, <2>5 DEF PlaceInv, TypeOK, ChanType, OnRespone
<1>3. CASE UNCHANGED <<stack, wait_sequence>>
  BY <1>1, <1>3 DEF PlaceInv, TypeOK, CoInOnePlace, ChanType, OnRespone
<1>4. QED
  BY <1>2, <1>3 DEF OnRespone

(* A call moves the current coroutine into the table of waiting ones.      *)
LEMMA CallPlaces ==
  ASSUME PlaceInv, NEW p \in Procs, NEW q, NEW func \in Funcs, Call(p, q, func) PROVE PlaceInv'
<1> DEFINE seq == CreateSequence(p)
<1> HIDE DEF seq
<1>1. /\ stack[p] # <<>> /\ seq \in Seqs
      /\ next_sequence_id' = [next_sequence_id EXCEPT ![p] = seq]
      /\ chan' = Sent(p, {q}, RPC(seq, func))
      /\ wait_sequence' = [wait_sequence EXCEPT ![p][seq] = Last(stack[p])]
      /\ stack' = [stack EXCEPT ![p] = Front(@)]
      /\ UNCHANGED <<coroutine_pool, created, co_sequence, co_call_node, linked, spent>>
  BY DEF Call, Running, Current, seq
<1>2. /\ stack \in [Procs -> Seq(Cos)] /\ stack[p] \in Seq(Cos)
      /\ wait_sequence \in [Procs -> [Seqs -> Cos \cup {NoCo}]] /\ chan \in ChanType
      /\ Apart(stack[p], coroutine_pool[p], wait_sequence[p], created[p])
  BY DEF PlaceInv, TypeOK, ChanType, CoInOnePlace
<1>3. Last(stack[p]) \in Cos /\ Front(stack[p]) \in Seq(Cos)
  BY <1>1, <1>2, FrontFacts
<1>4. wait_sequence' = [wait_sequence EXCEPT ![p] = [wait_sequence[p] EXCEPT ![seq] = Last(stack[p])]]
  BY <1>1, <1>2
<1>5. /\ stack' \in [Procs -> Seq(Cos)] /\ wait_sequence' \in [Procs -> [Seqs -> Cos \cup {NoCo}]]
  BY <1>1, <1>2, <1>3, <1>4
<1>6. Apart(Front(stack[p]), coroutine_pool[p], [wait_sequence[p] EXCEPT ![seq] = Last(stack[p])],
            created[p])
  <2>1. wait_sequence[p] \in [Seqs -> Cos \cup {NoCo}]
    BY <1>2
  <2>2. QED
    BY <1>1, <1>2, <2>1, WaitApart
<1>7. CoInOnePlace'
  BY <1>1, <1>2, <1>4, <1>6 DEF PlaceInv, CoInOnePlace
<1>8. chan' \in ChanType
  <2>1. RPC(seq, func) \in Msgs
    BY <1>1 DEF RPC, Msgs
  <2>2. QED
    BY <1>1, <1>2, <2>1, SentType
<1>9. QED
  BY <1>1, <1>5, <1>7, <1>8 DEF PlaceInv, TypeOK, ChanType

(* Steps that only send leave coroutines where they are.                   *)
LEMMA CallNoRetPlaces ==
  ASSUME PlaceInv, NEW p \in Procs, NEW Q, NEW func \in Funcs, CallNoRet(p, Q, func)
  PROVE  PlaceInv'
<1>1. chan' \in ChanType
  <2>1. RPCNR(func) \in Msgs /\ chan \in ChanType /\ chan' = Sent(p, Q, RPCNR(func))
    BY DEF RPCNR, Msgs, CallNoRet, PlaceInv, TypeOK, ChanType
  <2>2. QED
    BY <2>1, SentType
<1>2. spent' \in SpentType
  <2>1. spent \in SpentType /\ MaxCallNoRet \in Nat
    BY RpcAssumption DEF PlaceInv, TypeOK, SpentType
  <2>2. spent.callNoRet < MaxCallNoRet /\ spent' = [spent EXCEPT !.callNoRet = @ + 1]
    BY DEF CallNoRet
  <2>3. QED
    BY <2>1, <2>2 DEF SpentType
<1>3. QED
  BY <1>1, <1>2 DEF PlaceInv, TypeOK, CoInOnePlace, ChanType, SpentType, CallNoRet, local

(* An answer carries the number of the call the coroutine serves.          *)
LEMMA RetPlaces == ASSUME PlaceInv, NEW p \in Procs, Ret(p) PROVE PlaceInv'
<1> DEFINE c == Current(p)
<1>1. c \in Cos
  BY FrontFacts DEF PlaceInv, TypeOK, Ret, Running, Current
<1>2. co_sequence[p][c] \in Seqs
  BY <1>1 DEF PlaceInv, TypeOK, Ret
<1> HIDE DEF c
<1>3. chan' \in ChanType
  <2>1. /\ RESPONE(co_sequence[p][c]) \in Msgs /\ chan \in ChanType
        /\ chan' = Sent(p, {co_call_node[p][c]}, RESPONE(co_sequence[p][c]))
    BY <1>2 DEF RESPONE, Msgs, Ret, PlaceInv, TypeOK, ChanType, c
  <2>2. QED
    BY <2>1, SentType
<1>4. co_sequence' \in [Procs -> [Cos -> Seqs \cup {NoSeq}]]
  <2>1. co_sequence' = [co_sequence EXCEPT ![p][c] = NoSeq]
    BY DEF Ret, c
  <2>2. QED
    BY <1>1, <2>1 DEF PlaceInv, TypeOK
<1>5. QED
  BY <1>3, <1>4 DEF PlaceInv, TypeOK, CoInOnePlace, ChanType, Ret

(* The listener yields processes.                                          *)
LEMMA ListenerType ==
  ASSUME PlaceInv, NEW p \in Procs, NEW C,
         co_call_node' = [co_call_node EXCEPT ![p] = ExitListener(p, C)]
  PROVE  co_call_node' \in [Procs -> [Cos -> Procs \cup {NoProc}]]
<1>1. ExitListener(p, C) \in [Cos -> Procs \cup {NoProc}]
  BY DEF ExitListener, PlaceInv, TypeOK
<1>2. QED
  BY <1>1 DEF PlaceInv, TypeOK

(* A coroutine that ends moves from the stack to the pool.                 *)
LEMMA ExitPlaces ==
  ASSUME PlaceInv, NEW p \in Procs, Exit(p) \/ ExitUnanswered(p) PROVE PlaceInv'
<1>1. /\ stack[p] # <<>>
      /\ coroutine_pool' = [coroutine_pool EXCEPT ![p] = Append(@, Last(stack[p]))]
      /\ UNCHANGED <<created, wait_sequence>>
  BY DEF Exit, ExitUnanswered, Running, Current
<1>0. \/ stack' = [stack EXCEPT ![p] = Front(@)]
      \/ \E n \in 0 .. Len(stack[p]) - 1 : stack' = [stack EXCEPT ![p] = SubSeq(@, 1, n)]
  BY DEF Exit, ExitUnanswered, Unwind
<1>2. /\ stack \in [Procs -> Seq(Cos)] /\ stack[p] \in Seq(Cos)
      /\ coroutine_pool \in [Procs -> Seq(Cos)] /\ coroutine_pool[p] \in Seq(Cos)
      /\ Apart(stack[p], coroutine_pool[p], wait_sequence[p], created[p])
  BY DEF PlaceInv, TypeOK, CoInOnePlace
<1>3. /\ Front(stack[p]) \in Seq(Cos)
      /\ \A n \in 0 .. Len(stack[p]) - 1 : SubSeq(stack[p], 1, n) \in Seq(Cos)
      /\ Append(coroutine_pool[p], Last(stack[p])) \in Seq(Cos)
  BY <1>1, <1>2, FrontFacts, AppendFacts, PrefixFacts
<1>4. stack' \in [Procs -> Seq(Cos)] /\ coroutine_pool' \in [Procs -> Seq(Cos)]
  BY <1>0, <1>1, <1>2, <1>3
<1>5. /\ Apart(Front(stack[p]), Append(coroutine_pool[p], Last(stack[p])), wait_sequence[p], created[p])
      /\ \A n \in 0 .. Len(stack[p]) - 1 :
           Apart(SubSeq(stack[p], 1, n), Append(coroutine_pool[p], Last(stack[p])),
                 wait_sequence[p], created[p])
  BY <1>1, <1>2, ExitApart
<1>6. CoInOnePlace'
  BY <1>0, <1>1, <1>2, <1>5 DEF PlaceInv, CoInOnePlace
<1>7. PICK C : co_call_node' = [co_call_node EXCEPT ![p] = ExitListener(p, C)]
  BY DEF Exit, ExitUnanswered, Unwind
<1>8. co_call_node' \in [Procs -> [Cos -> Procs \cup {NoProc}]]
  BY <1>7, ListenerType
<1>9. spent' \in SpentType
  <2>1. spent \in SpentType /\ MaxFaults \in Nat
    BY RpcAssumption DEF PlaceInv, TypeOK, SpentType
  <2>2. \/ spent' = spent
        \/ /\ spent.faults < MaxFaults
           /\ spent' = [spent EXCEPT !.faults = @ + 1, !.unanswered = @ \cup {p}]
    BY DEF Exit, ExitUnanswered
  <2>3. CASE spent' = spent
    BY <2>1, <2>3
  <2>4. CASE /\ spent.faults < MaxFaults
             /\ spent' = [spent EXCEPT !.faults = @ + 1, !.unanswered = @ \cup {p}]
    <3>1. spent.faults + 1 \in 0 .. MaxFaults /\ spent.unanswered \cup {p} \in SUBSET Procs
      BY <2>1, <2>4 DEF SpentType
    <3>2. spent' = [spent EXCEPT !.faults = spent.faults + 1,
                                 !.unanswered = spent.unanswered \cup {p}]
      BY <2>4
    <3>3. QED
      BY <2>1, <3>1, <3>2 DEF SpentType
  <2>5. QED
    BY <2>2, <2>3, <2>4
<1>10. UNCHANGED <<created, wait_sequence, next_sequence_id, co_sequence, linked, chan>>
  BY DEF Exit, ExitUnanswered
<1>11. QED
  BY <1>4, <1>6, <1>8, <1>9, <1>10 DEF PlaceInv, TypeOK, SpentType

(* An error takes coroutines from the stack.                               *)
LEMMA ErrorPlaces == ASSUME PlaceInv, NEW p \in Procs, Error(p) PROVE PlaceInv'
<1>0. PICK n \in 0 .. Len(stack[p]) - 1 : Unwind(p, n)
  BY DEF Error
<1>1. /\ stack' = [stack EXCEPT ![p] = SubSeq(stack[p], 1, n)] /\ stack \in [Procs -> Seq(Cos)]
      /\ stack[p] \in Seq(Cos)
      /\ Apart(SubSeq(stack[p], 1, n), coroutine_pool[p], wait_sequence[p], created[p])
      /\ UNCHANGED <<coroutine_pool, wait_sequence, created>>
  BY <1>0, DropApart DEF PlaceInv, TypeOK, CoInOnePlace, Error, Unwind
<1>2. stack' \in [Procs -> Seq(Cos)]
  BY <1>1, PrefixFacts
<1>3. CoInOnePlace'
  BY <1>1 DEF PlaceInv, CoInOnePlace
<1>4. spent' \in SpentType
  <2>1. spent \in SpentType /\ MaxFaults \in Nat
    BY RpcAssumption DEF PlaceInv, TypeOK, SpentType
  <2>2. spent.faults < MaxFaults /\ spent' = [spent EXCEPT !.faults = @ + 1]
    BY DEF Error
  <2>3. QED
    BY <2>1, <2>2 DEF SpentType
<1>5. co_call_node' \in [Procs -> [Cos -> Procs \cup {NoProc}]]
  BY <1>0, ListenerType DEF Unwind
<1>6. QED
  BY <1>2, <1>3, <1>4, <1>5 DEF PlaceInv, TypeOK, SpentType, Error

(* The network does not touch coroutines.                                  *)
LEMMA NetworkPlaces ==
  ASSUME PlaceInv, NEW p \in Procs, NEW q \in Procs, Link(p, q) \/ Break(p, q) PROVE PlaceInv'
<1>1. linked' \subseteq SUBSET Procs
  <2>1. linked \subseteq SUBSET Procs /\ {p, q} \in SUBSET Procs
    BY DEF PlaceInv, TypeOK
  <2>2. linked' = linked \cup {{p, q}} \/ linked' = linked \ {{p, q}}
    BY DEF Link, Break
  <2>3. QED
    BY <2>1, <2>2
<1>2. chan' \in ChanType
  <2>1. chan \in ChanType /\ <<>> \in Seq(Msgs)
    BY EmptyFacts DEF PlaceInv, TypeOK, ChanType
  <2>2. Severed({p, q}) \in ChanType
    BY <2>1 DEF Severed, ChanType
  <2>3. chan' = chan \/ chan' = Severed({p, q})
    BY DEF Link, Break
  <2>4. QED
    BY <2>1, <2>2, <2>3
<1>3. spent' \in SpentType
  <2>1. spent \in SpentType /\ MaxFaults \in Nat
    BY RpcAssumption DEF PlaceInv, TypeOK, SpentType
  <2>2. \/ spent' = spent
        \/ spent.faults < MaxFaults /\ spent' = [spent EXCEPT !.faults = @ + 1]
    BY DEF Link, Break
  <2>3. QED
    BY <2>1, <2>2 DEF SpentType
<1>4. UNCHANGED local
  BY DEF Link, Break
<1>5. QED
  BY <1>1, <1>2, <1>3, <1>4 DEF PlaceInv, TypeOK, CoInOnePlace, ChanType, SpentType, local

(* A process that is restarted has no coroutines.                          *)
LEMMA RestartPlaces == ASSUME PlaceInv, NEW p \in Procs, Restart(p) PROVE PlaceInv'
<1>1. /\ stack' \in [Procs -> Seq(Cos)] /\ coroutine_pool' \in [Procs -> Seq(Cos)]
      /\ created' \in [Procs -> SUBSET Cos]
      /\ wait_sequence' \in [Procs -> [Seqs -> Cos \cup {NoCo}]]
      /\ next_sequence_id' \in [Procs -> {1} \cup Seqs]
  BY EmptyFacts DEF PlaceInv, TypeOK, Restart
<1>2. /\ co_sequence' \in [Procs -> [Cos -> Seqs \cup {NoSeq}]]
      /\ co_call_node' \in [Procs -> [Cos -> Procs \cup {NoProc}]]
      /\ linked' \subseteq SUBSET Procs
  BY DEF PlaceInv, TypeOK, Restart
<1>3. chan' \in ChanType
  BY EmptyFacts DEF PlaceInv, TypeOK, Restart, ChanType
<1>4. spent' \in SpentType
  <2>1. spent \in SpentType /\ MaxFaults \in Nat
    BY RpcAssumption DEF PlaceInv, TypeOK, SpentType
  <2>2. /\ spent.faults < MaxFaults
        /\ spent' = [spent EXCEPT !.faults = @ + 1, !.restarted = @ \cup {p}]
    BY DEF Restart
  <2>3. spent.faults + 1 \in 0 .. MaxFaults /\ spent.restarted \cup {p} \in SUBSET Procs
    BY <2>1, <2>2 DEF SpentType
  <2>4. spent' = [spent EXCEPT !.faults = spent.faults + 1, !.restarted = spent.restarted \cup {p}]
    BY <2>2
  <2>5. QED
    BY <2>1, <2>3, <2>4 DEF SpentType
<1>5. CoInOnePlace'
  BY EmptyApart DEF PlaceInv, TypeOK, CoInOnePlace, Restart
<1>6. QED
  BY <1>1, <1>2, <1>3, <1>4, <1>5 DEF PlaceInv, TypeOK, ChanType, SpentType

-----------------------------------------------------------------------------
(* The invariant holds initially.                                          *)
LEMMA InitPlaces == Init => PlaceInv
<1> SUFFICES ASSUME Init PROVE PlaceInv
  OBVIOUS
<1>1. TypeOK
  BY EmptyFacts, RpcAssumption DEF Init, TypeOK
<1>2. CoInOnePlace
  BY EmptyApart DEF Init, CoInOnePlace
<1>3. QED
  BY <1>1, <1>2 DEF PlaceInv

(* The invariant is inductive.                                             *)
LEMMA NextPlaces == PlaceInv /\ [Next]_vars => PlaceInv'
<1> SUFFICES ASSUME PlaceInv, [Next]_vars PROVE PlaceInv'
  OBVIOUS
<1>1. CASE \E p \in Procs : \/ Fork(p) \/ Ret(p) \/ Exit(p) \/ ExitUnanswered(p)
                         \/ Error(p) \/ Restart(p)
  BY <1>1, ForkPlaces, RetPlaces, ExitPlaces, ErrorPlaces, RestartPlaces
<1>2. CASE \E p, q \in Procs : Receive(p, q) \/ Link(p, q) \/ Break(p, q)
  BY <1>2, OnCallPlaces, OnCallNoRetPlaces, OnResponePlaces, NetworkPlaces DEF Receive
<1>3. CASE \E p \in Procs, func \in Funcs :
             \/ \E q \in Procs \ {p} : Call(p, q, func)
             \/ \E Q \in SUBSET (Procs \ {p}) : CallNoRet(p, Q, func)
  BY <1>3, CallPlaces, CallNoRetPlaces
<1>4. CASE UNCHANGED vars
  BY <1>4 DEF PlaceInv, TypeOK, CoInOnePlace, vars, local
<1>5. QED
  BY <1>1, <1>2, <1>3, <1>4 DEF Next

(* The invariant holds in every reachable state.                           *)
LEMMA PlacesHold == Spec => []PlaceInv
BY InitPlaces, NextPlaces, PTL DEF Spec

(* TypeOK holds for any processes and scripts, whatever the bounds.        *)
THEOREM TypeCorrect == Spec => []TypeOK
<1>1. PlaceInv => TypeOK
  BY DEF PlaceInv
<1>2. QED
  BY <1>1, PlacesHold, PTL

(* CoInOnePlace: no step of co.lua puts a coroutine into two places, for   *)
(* any processes and scripts, also when scripts break harbor.lua's rule    *)
(* that a function returns a result.                                       *)
THEOREM OneResumption == Spec => []CoInOnePlace
<1>1. PlaceInv => CoInOnePlace
  BY DEF PlaceInv
<1>2. QED
  BY <1>1, PlacesHold, PTL

-----------------------------------------------------------------------------
(* A coroutine that nobody uses has nothing to answer.                     *)

Idle(p, c) == c \notin created[p] \/ \E j \in DOMAIN coroutine_pool[p] : coroutine_pool[p][j] = c

(* The inductive invariant behind PoolClean: it also speaks of coroutines  *)
(* that have not been created.                                             *)
CleanInv ==
  spent.unanswered = {} =>
    \A p \in Procs, c \in Cos :
      Idle(p, c) => co_sequence[p][c] = NoSeq /\ co_call_node[p][c] = NoProc

(* create_co takes an idle coroutine, and makes no other idle.             *)
LEMMA CreateCoIdle ==
  ASSUME PlaceInv, NEW p \in Procs, NEW c \in Cos, CreateCo(p, c)
  PROVE  /\ Idle(p, c) /\ ~Idle(p, c)'
         /\ \A r \in Procs, d \in Cos : Idle(r, d)' => Idle(r, d)
<1>1. PICK k : k = Append(stack[p], c)
  OBVIOUS
<1>2. k[Len(stack[p]) + 1] = c /\ Len(stack[p]) + 1 \in DOMAIN k
  BY <1>1, AppendProperties, LenProperties DEF PlaceInv, TypeOK
<1>3. Apart(k, coroutine_pool'[p], wait_sequence[p], created'[p])
  BY <1>1, CreateCoFacts
<1>4. ~Idle(p, c)'
  BY <1>2, <1>3 DEF Idle, Apart
<1>5. coroutine_pool[p] \in Seq(Cos) /\ coroutine_pool \in [Procs -> Seq(Cos)]
      /\ created \in [Procs -> SUBSET Cos]
  BY DEF PlaceInv, TypeOK
<1>6. Idle(p, c) /\ \A d \in Cos : Idle(p, d)' => Idle(p, d)
  <2>1. CASE /\ coroutine_pool[p] # <<>> /\ c = Last(coroutine_pool[p])
             /\ coroutine_pool' = [coroutine_pool EXCEPT ![p] = Front(@)]
             /\ UNCHANGED created
    <3>1. PICK s \in Seq(Cos) : s = coroutine_pool[p]
      BY <1>5
    <3>2. /\ c = s[Len(s)] /\ Len(s) \in DOMAIN s
          /\ \A i \in DOMAIN Front(s) : i \in DOMAIN s /\ Front(s)[i] = s[i]
      BY <2>1, <3>1, FrontFacts
    <3>3. coroutine_pool'[p] = Front(s)
      BY <1>5, <2>1, <3>1
    <3>4. QED
      BY <2>1, <3>1, <3>2, <3>3 DEF Idle
  <2>2. CASE /\ coroutine_pool[p] = <<>> /\ c = NewCo(p) /\ c \in Cos
             /\ created' = [created EXCEPT ![p] = @ \cup {c}]
             /\ UNCHANGED coroutine_pool
    <3>1. created'[p] = created[p] \cup {c}
      BY <1>5, <2>2
    <3>2. created[p] # Cos
      BY <2>2, RpcAssumption DEF NewCo
    <3>3. \E x \in Cos : x \notin created[p]
      BY <1>5, <3>2
    <3>4. c \notin created[p]
      BY <2>2, <3>2, <3>3 DEF NewCo
    <3>5. QED
      BY <2>2, <3>1, <3>4 DEF Idle
  <2>3. QED
    BY <2>1, <2>2 DEF CreateCo
<1>7. \A r \in Procs : r # p => coroutine_pool'[r] = coroutine_pool[r] /\ created'[r] = created[r]
  BY CreateCoFacts
<1>8. QED
  BY <1>4, <1>6, <1>7 DEF Idle

(* A coroutine on the stack is not idle.                                   *)
LEMMA RunningBusy ==
  ASSUME PlaceInv, NEW p \in Procs, Running(p)
  PROVE  Current(p) \in Cos /\ ~Idle(p, Current(p))
<1>1. stack[p] \in Seq(Cos) /\ stack[p] # <<>>
  BY DEF PlaceInv, TypeOK, Running
<1>2. Current(p) = stack[p][Len(stack[p])] /\ Len(stack[p]) \in DOMAIN stack[p] /\ Current(p) \in Cos
  BY <1>1, FrontFacts DEF Current
<1>3. Apart(stack[p], coroutine_pool[p], wait_sequence[p], created[p])
  BY DEF PlaceInv, CoInOnePlace
<1>4. QED
  BY <1>2, <1>3 DEF Idle, Apart

(* A step that writes to busy coroutines only, or clears.                  *)
LEMMA CleanKept ==
  ASSUME CleanInv, spent'.unanswered = {} => spent.unanswered = {},
         \A p \in Procs, c \in Cos : Idle(p, c)' =>
           /\ Idle(p, c)
           /\ co_sequence'[p][c] \in {co_sequence[p][c], NoSeq}
           /\ co_call_node'[p][c] \in {co_call_node[p][c], NoProc}
  PROVE  CleanInv'
<1> SUFFICES ASSUME spent'.unanswered = {}, NEW p \in Procs, NEW c \in Cos, Idle(p, c)'
             PROVE  co_sequence'[p][c] = NoSeq /\ co_call_node'[p][c] = NoProc
  BY DEF CleanInv
<1>1. /\ Idle(p, c) /\ spent.unanswered = {}
      /\ co_sequence'[p][c] \in {co_sequence[p][c], NoSeq}
      /\ co_call_node'[p][c] \in {co_call_node[p][c], NoProc}
  OBVIOUS
<1>2. co_sequence[p][c] = NoSeq /\ co_call_node[p][c] = NoProc
  BY <1>1 DEF CleanInv
<1>3. QED
  BY <1>1, <1>2

(* The bounded events of a step do not clear the history.                  *)
LEMMA SpentKept ==
  ASSUME PlaceInv, [Next]_vars
  PROVE  /\ spent.unanswered \subseteq spent'.unanswered
         /\ spent.restarted \subseteq spent'.restarted
<1>1. spent \in SpentType
  BY DEF PlaceInv, TypeOK, SpentType
<1>2. \/ spent' = spent
      \/ spent' = [spent EXCEPT !.fork = @ + 1]
      \/ spent' = [spent EXCEPT !.callNoRet = @ + 1]
      \/ spent' = [spent EXCEPT !.faults = @ + 1]
      \/ \E p \in Procs : spent' = [spent EXCEPT !.faults = @ + 1, !.unanswered = @ \cup {p}]
      \/ \E p \in Procs : spent' = [spent EXCEPT !.faults = @ + 1, !.restarted = @ \cup {p}]
  BY DEF Next, vars, Fork, Ret, Exit, ExitUnanswered, Error, Restart, Receive, OnCall,
         OnCallNoRet, OnRespone, Link, Break, Call, CallNoRet
<1>3. CASE spent' = spent \/ spent' = [spent EXCEPT !.fork = @ + 1]
           \/ spent' = [spent EXCEPT !.callNoRet = @ + 1] \/ spent' = [spent EXCEPT !.faults = @ + 1]
  BY <1>1, <1>3 DEF SpentType
<1>4. ASSUME NEW p \in Procs, spent' = [spent EXCEPT !.faults = @ + 1, !.unanswered = @ \cup {p}]
      PROVE  spent'.unanswered = spent.unanswered \cup {p} /\ spent'.restarted = spent.restarted
  BY <1>1, <1>4 DEF SpentType
<1>5. ASSUME NEW p \in Procs, spent' = [spent EXCEPT !.faults = @ + 1, !.restarted = @ \cup {p}]
      PROVE  spent'.unanswered = spent.unanswered /\ spent'.restarted = spent.restarted \cup {p}
  BY <1>1, <1>5 DEF SpentType
<1>6. QED
  BY <1>2, <1>3, <1>4, <1>5

(* The listener clears, and only for coroutines without a call.            *)
LEMMA ListenerClears ==
  ASSUME PlaceInv, NEW p \in Procs, NEW C,
         co_call_node' = [co_call_node EXCEPT ![p] = ExitListener(p, C)]
  PROVE  \A r \in Procs, c \in Cos :
           /\ co_call_node'[r][c] \in {co_call_node[r][c], NoProc}
           /\ r = p /\ c \in C /\ co_sequence[p][c] = NoSeq => co_call_node'[r][c] = NoProc
           /\ co_sequence[r][c] # NoSeq => co_call_node'[r][c] = co_call_node[r][c]
<1>1. PICK f : f = ExitListener(p, C)
  OBVIOUS
<1>2. \A c \in Cos : f[c] = IF c \in C /\ co_sequence[p][c] = NoSeq THEN NoProc
                            ELSE co_call_node[p][c]
  BY <1>1 DEF ExitListener
<1>3. \A r \in Procs : co_call_node'[r] = IF r = p THEN f ELSE co_call_node[r]
  BY <1>1 DEF PlaceInv, TypeOK
<1>4. QED
  BY <1>2, <1>3

(* A message that starts a coroutine writes to that one.                   *)
LEMMA ReceiveClean ==
  ASSUME PlaceInv, CleanInv, NEW p \in Procs, NEW q \in Procs, Receive(p, q) PROVE CleanInv'
<1>0. spent' = spent /\ PlaceInv
  BY DEF Receive, OnCall, OnCallNoRet, OnRespone
<1>1. CASE UNCHANGED <<coroutine_pool, created, co_sequence, co_call_node>>
  BY <1>0, <1>1, CleanKept DEF Idle
<1>2. ASSUME NEW c \in Cos, NEW s, CreateCo(p, c),
             co_sequence' = co_sequence \/ co_sequence' = [co_sequence EXCEPT ![p][c] = s],
             co_call_node' = [co_call_node EXCEPT ![p][c] = q]
      PROVE  CleanInv'
  <2>1. \A r \in Procs, d \in Cos : ~(r = p /\ d = c) =>
          co_sequence'[r][d] = co_sequence[r][d] /\ co_call_node'[r][d] = co_call_node[r][d]
    BY <1>2, SMTT(30) DEF PlaceInv, TypeOK
  <2>2. /\ ~Idle(p, c)'
        /\ \A r \in Procs, d \in Cos : Idle(r, d)' => Idle(r, d)
    BY <1>2, CreateCoIdle
  <2>3. \A r \in Procs, d \in Cos : Idle(r, d)' =>
           /\ Idle(r, d)
           /\ co_sequence'[r][d] \in {co_sequence[r][d], NoSeq}
           /\ co_call_node'[r][d] \in {co_call_node[r][d], NoProc}
    BY <2>1, <2>2
  <2>4. QED
    BY <1>0, <2>3, CleanKept
<1>3. CASE OnCall(p, q)
  <2>1. PICK s : s = Head(chan[q][p]).seq
    OBVIOUS
  <2>2. CASE UNCHANGED local
    BY <1>1, <2>2 DEF local
  <2>3. CASE \E c \in Cos : /\ CreateCo(p, c) /\ co_sequence' = [co_sequence EXCEPT ![p][c] = s]
                            /\ co_call_node' = [co_call_node EXCEPT ![p][c] = q]
    BY <1>2, <2>3
  <2>4. QED
    BY <1>3, <2>1, <2>2, <2>3 DEF OnCall
<1>4. CASE OnCallNoRet(p, q)
  <2>1. CASE UNCHANGED local
    BY <1>1, <2>1 DEF local
  <2>2. CASE \E c \in Cos : /\ CreateCo(p, c) /\ co_sequence' = co_sequence
                            /\ co_call_node' = [co_call_node EXCEPT ![p][c] = q]
    BY <1>2, <2>2
  <2>3. QED
    BY <1>4, <2>1, <2>2 DEF OnCallNoRet
<1>5. CASE OnRespone(p, q)
  BY <1>1, <1>5 DEF OnRespone
<1>6. QED
  BY <1>3, <1>4, <1>5 DEF Receive

(* A coroutine that ends is left without a caller and a call.              *)
LEMMA ExitClean == ASSUME PlaceInv, CleanInv, NEW p \in Procs, Exit(p) PROVE CleanInv'
<1>1. PICK c \in Cos : c = Current(p)
  BY RunningBusy DEF Exit
<1>2. /\ co_sequence[p][c] = NoSeq /\ UNCHANGED <<created, co_sequence, spent>>
      /\ coroutine_pool' = [coroutine_pool EXCEPT ![p] = Append(coroutine_pool[p], c)]
      /\ co_call_node' = [co_call_node EXCEPT ![p] = ExitListener(p, {c})]
  BY <1>1 DEF Exit
<1>3. coroutine_pool[p] \in Seq(Cos) /\ coroutine_pool \in [Procs -> Seq(Cos)]
  BY DEF PlaceInv, TypeOK
<1>4. PICK s : s = Append(coroutine_pool[p], c)
  OBVIOUS
<1>5. \A i \in DOMAIN s : s[i] = c \/ \E j \in DOMAIN coroutine_pool[p] : s[i] = coroutine_pool[p][j]
  BY <1>3, <1>4, AppendFacts
<1>6. \A r \in Procs : coroutine_pool'[r] = IF r = p THEN s ELSE coroutine_pool[r]
  BY <1>2, <1>3, <1>4
<1>7. \A r \in Procs, d \in Cos : Idle(r, d)' => Idle(r, d) \/ (r = p /\ d = c)
  BY <1>2, <1>5, <1>6 DEF Idle
<1>8. /\ co_call_node'[p][c] = NoProc /\ co_sequence'[p][c] = NoSeq
      /\ \A r \in Procs, d \in Cos : co_call_node'[r][d] \in {co_call_node[r][d], NoProc}
  <2>1. PICK C : C = {c}
    OBVIOUS
  <2>2. co_call_node' = [co_call_node EXCEPT ![p] = ExitListener(p, C)]
    BY <1>2, <2>1
  <2>3. \A r \in Procs, d \in Cos :
           /\ co_call_node'[r][d] \in {co_call_node[r][d], NoProc}
           /\ r = p /\ d \in C /\ co_sequence[p][d] = NoSeq => co_call_node'[r][d] = NoProc
           /\ co_sequence[r][d] # NoSeq => co_call_node'[r][d] = co_call_node[r][d]
    BY <2>2, ListenerClears, ZenonT(60)
  <2>4. QED
    BY <1>2, <2>1, <2>3
<1>9. QED
  <2> SUFFICES ASSUME spent'.unanswered = {}, NEW r \in Procs, NEW d \in Cos, Idle(r, d)'
               PROVE  co_sequence'[r][d] = NoSeq /\ co_call_node'[r][d] = NoProc
    BY DEF CleanInv
  <2>1. CASE r = p /\ d = c
    BY <1>8, <2>1
  <2>2. CASE ~(r = p /\ d = c)
    <3>1. co_sequence[r][d] = NoSeq /\ co_call_node[r][d] = NoProc
      BY <1>2, <1>7, <2>2 DEF CleanInv
    <3>2. QED
      BY <1>2, <1>8, <3>1
  <2>3. QED
    BY <2>1, <2>2

LEMMA NextClean == PlaceInv /\ CleanInv /\ [Next]_vars => CleanInv'
<1> SUFFICES ASSUME PlaceInv, CleanInv, [Next]_vars PROVE CleanInv'
  OBVIOUS
<1>0. spent'.unanswered = {} => spent.unanswered = {}
  BY SpentKept
<1>1. CASE UNCHANGED <<coroutine_pool, created, co_sequence, co_call_node>>
  BY <1>0, <1>1, CleanKept DEF Idle
<1>2. ASSUME NEW p \in Procs, Fork(p) PROVE CleanInv'
  <2>1. PICK c \in Cos : CreateCo(p, c)
    BY <1>2 DEF Fork
  <2>2. \A r \in Procs, d \in Cos : Idle(r, d)' => Idle(r, d)
    BY <2>1, CreateCoIdle
  <2>3. co_sequence' = co_sequence /\ co_call_node' = co_call_node
    BY <1>2 DEF Fork
  <2>4. QED
    BY <1>0, <2>2, <2>3, CleanKept
<1>3. ASSUME NEW p \in Procs, Ret(p) PROVE CleanInv'
  <2>1. PICK c : c = Current(p)
    OBVIOUS
  <2>2. /\ co_sequence' = [co_sequence EXCEPT ![p][c] = NoSeq]
        /\ UNCHANGED <<coroutine_pool, created, co_call_node>>
    BY <1>3, <2>1 DEF Ret
  <2>3. \A r \in Procs, d \in Cos : co_sequence'[r][d] \in {co_sequence[r][d], NoSeq}
    BY <2>2 DEF PlaceInv, TypeOK
  <2>4. QED
    BY <1>0, <2>2, <2>3, CleanKept DEF Idle
<1>4. ASSUME NEW p \in Procs, ExitUnanswered(p) PROVE CleanInv'
  <2>1. spent \in SpentType /\ spent' = [spent EXCEPT !.faults = @ + 1, !.unanswered = @ \cup {p}]
    BY <1>4 DEF ExitUnanswered, PlaceInv, TypeOK, SpentType
  <2>2. p \in spent'.unanswered
    BY <2>1 DEF SpentType
  <2>3. QED
    BY <2>2 DEF CleanInv
<1>5. ASSUME NEW p \in Procs, Error(p) PROVE CleanInv'
  <2>1. PICK C : co_call_node' = [co_call_node EXCEPT ![p] = ExitListener(p, C)]
    BY <1>5 DEF Error, Unwind
  <2>2. \A r \in Procs, d \in Cos : co_call_node'[r][d] \in {co_call_node[r][d], NoProc}
    BY <2>1, ListenerClears
  <2>3. UNCHANGED <<coroutine_pool, created, co_sequence>>
    BY <1>5 DEF Error
  <2>4. QED
    BY <1>0, <2>2, <2>3, CleanKept DEF Idle
<1>6. ASSUME NEW p \in Procs, Restart(p) PROVE CleanInv'
  <2>1. \A r \in Procs, d \in Cos :
          /\ r = p => co_sequence'[r][d] = NoSeq /\ co_call_node'[r][d] = NoProc
          /\ r # p => /\ co_sequence'[r] = co_sequence[r] /\ co_call_node'[r] = co_call_node[r]
                      /\ coroutine_pool'[r] = coroutine_pool[r] /\ created'[r] = created[r]
    BY <1>6 DEF Restart, PlaceInv, TypeOK
  <2>2. \A r \in Procs, d \in Cos : r # p /\ Idle(r, d)' => Idle(r, d)
    BY <2>1 DEF Idle
  <2>3. QED
    BY <1>0, <2>1, <2>2 DEF CleanInv
<1>7. CASE \E p \in Procs : \/ Fork(p) \/ Ret(p) \/ Exit(p) \/ ExitUnanswered(p)
                            \/ Error(p) \/ Restart(p)
  BY <1>2, <1>3, <1>4, <1>5, <1>6, <1>7, ExitClean
<1>8. CASE \E p, q \in Procs : Receive(p, q) \/ Link(p, q) \/ Break(p, q)
  BY <1>1, <1>8, ReceiveClean DEF Link, Break, local
<1>9. CASE \E p \in Procs, func \in Funcs :
             \/ \E q \in Procs \ {p} : Call(p, q, func)
             \/ \E Q \in SUBSET (Procs \ {p}) : CallNoRet(p, Q, func)
  BY <1>1, <1>9 DEF Call, CallNoRet, local
<1>10. CASE UNCHANGED vars
  BY <1>1, <1>10 DEF vars, local
<1>11. QED
  BY <1>7, <1>8, <1>9, <1>10 DEF Next

(* The invariant holds in every reachable state.                           *)
LEMMA CleanHolds == Spec => []CleanInv
<1>1. Init => CleanInv
  BY DEF Init, CleanInv
<1>2. QED
  BY <1>1, PlacesHold, NextClean, PTL DEF Spec

(* PoolClean: whatever the scripts do, as long as every function returns   *)
(* its result, a coroutine that co.lua takes from its pool carries neither *)
(* the caller nor the call of its former use.                              *)
THEOREM CleanReuse == Spec => []PoolClean
<1>1. PlaceInv /\ CleanInv => PoolClean
  <2> SUFFICES ASSUME PlaceInv, CleanInv, spent.unanswered = {},
                      NEW p \in Procs, NEW c \in ToSet(coroutine_pool[p])
               PROVE  co_sequence[p][c] = NoSeq /\ co_call_node[p][c] = NoProc
    BY DEF PoolClean
  <2>1. PICK j \in DOMAIN coroutine_pool[p] : coroutine_pool[p][j] = c
    BY DEF ToSet
  <2>2. coroutine_pool[p] \in Seq(Cos)
    BY DEF PlaceInv, TypeOK
  <2>3. c \in Cos
    BY <2>1, <2>2, LenProperties, ElementOfSeq
  <2>4. QED
    BY <2>1, <2>3 DEF CleanInv, Idle
<1>2. QED
  BY <1>1, PlacesHold, CleanHolds, PTL

-----------------------------------------------------------------------------
(* Where a call is.  In a channel, a call or an answer of number s:        *)

HasMsg(ch, kind, s) == \E i \in DOMAIN ch : ch[i].kind = kind /\ ch[i].seq = s
OneMsg(ch, kind, s) ==
  \A i, j \in DOMAIN ch :
    ch[i].kind = kind /\ ch[i].seq = s /\ ch[j].kind = kind /\ ch[j].seq = s => i = j

(* Channel b holds no more of them than channel a.                         *)
Lesser(a, b, kind, s) ==
  (HasMsg(b, kind, s) => HasMsg(a, kind, s)) /\ (OneMsg(a, kind, s) => OneMsg(b, kind, s))

Served(p, s, q, c) == co_sequence[q][c] = s /\ co_call_node[q][c] = p

(* The spots of call s of p: a channel to or from q, or coroutine c of q.  *)
Spots == [at : {"call", "answer"}, q : Procs, c : {NoCo}] \cup
         [at : {"served"}, q : Procs, c : Cos]

Stands(t, p, s) ==
  \/ t.at = "call" /\ HasMsg(chan[p][t.q], "RPC", s)
  \/ t.at = "answer" /\ HasMsg(chan[t.q][p], "RESPONE", s)
  \/ t.at = "served" /\ Served(p, s, t.q, t.c)

OneEach(p, s) ==
  \A q \in Procs : OneMsg(chan[p][q], "RPC", s) /\ OneMsg(chan[q][p], "RESPONE", s)

(* The call is at one spot, once, while its coroutine waits.               *)
Sole(p, s) ==
  /\ OneEach(p, s)
  /\ \A t, u \in Spots : Stands(t, p, s) /\ Stands(u, p, s) => t = u
  /\ \A t \in Spots : Stands(t, p, s) => wait_sequence[p][s] # NoCo

(* The inductive invariant behind AnswerMatches: it also says that the     *)
(* next number is not waited for.                                          *)
AnswerInv ==
  spent.unanswered = {} =>
    \A p \in Procs \ spent.restarted, s \in Seqs :
      Sole(p, s) /\ (wait_sequence[p][s] # NoCo => s <= next_sequence_id[p])

(* Reading a message, and losing all of them.                              *)
LEMMA TailLesser ==
  ASSUME NEW ch \in Seq(Msgs), ch # <<>>, NEW kind, NEW s
  PROVE  /\ Lesser(ch, Tail(ch), kind, s)
         /\ OneMsg(ch, kind, s) /\ Head(ch).kind = kind /\ Head(ch).seq = s
              => ~HasMsg(Tail(ch), kind, s) /\ HasMsg(ch, kind, s)
<1>1. /\ Len(ch) \in Nat /\ Len(ch) > 0 /\ DOMAIN ch = 1 .. Len(ch) /\ Head(ch) = ch[1]
      /\ DOMAIN Tail(ch) = 1 .. Len(ch) - 1
      /\ \A i \in 1 .. Len(ch) - 1 : Tail(ch)[i] = ch[i + 1]
  BY LenProperties, HeadTailProperties, EmptySeq
<1>2. \A i \in DOMAIN Tail(ch) : \E j \in DOMAIN ch : j = i + 1 /\ j # 1 /\ Tail(ch)[i] = ch[j]
  BY <1>1
<1>3. HasMsg(Tail(ch), kind, s) => HasMsg(ch, kind, s)
  BY <1>2 DEF HasMsg
<1>4. ASSUME OneMsg(ch, kind, s) PROVE OneMsg(Tail(ch), kind, s)
  <2> SUFFICES ASSUME NEW i \in DOMAIN Tail(ch), NEW j \in DOMAIN Tail(ch),
                      Tail(ch)[i].kind = kind, Tail(ch)[i].seq = s,
                      Tail(ch)[j].kind = kind, Tail(ch)[j].seq = s
               PROVE  i = j
    BY DEF OneMsg
  <2>1. i + 1 = j + 1
    BY <1>2, <1>4 DEF OneMsg
  <2>2. QED
    BY <1>1, <2>1
<1>5. ASSUME OneMsg(ch, kind, s), Head(ch).kind = kind, Head(ch).seq = s
      PROVE  ~HasMsg(Tail(ch), kind, s) /\ HasMsg(ch, kind, s)
  <2>1. 1 \in DOMAIN ch
    BY <1>1
  <2>2. QED
    BY <1>1, <1>2, <1>5, <2>1 DEF OneMsg, HasMsg
<1>6. QED
  BY <1>3, <1>4, <1>5 DEF Lesser

LEMMA EmptyLesser == ASSUME NEW ch, NEW kind, NEW s PROVE Lesser(ch, <<>>, kind, s)
<1>1. DOMAIN <<>> = {}
  BY EmptySeq
<1>2. QED
  BY <1>1 DEF Lesser, HasMsg, OneMsg

LEMMA SameLesser == ASSUME NEW ch, NEW kind, NEW s PROVE Lesser(ch, ch, kind, s)
BY DEF Lesser

(* Sending another message, and sending the first one of this number.      *)
LEMMA AppendLesser ==
  ASSUME NEW ch \in Seq(Msgs), NEW msg \in Msgs, NEW kind, NEW s
  PROVE  /\ ~(msg.kind = kind /\ msg.seq = s) => Lesser(ch, Append(ch, msg), kind, s)
         /\ ~HasMsg(ch, kind, s) => OneMsg(Append(ch, msg), kind, s)
<1>1. \A i \in DOMAIN Append(ch, msg) :
              \/ i \in DOMAIN ch /\ Append(ch, msg)[i] = ch[i]
              \/ i = Len(ch) + 1 /\ i \notin DOMAIN ch /\ Append(ch, msg)[i] = msg
  BY AppendFacts
<1>2. PICK b : b = Append(ch, msg)
  OBVIOUS
<1>3. \A i \in DOMAIN b : \/ i \in DOMAIN ch /\ b[i] = ch[i]
                          \/ i = Len(ch) + 1 /\ b[i] = msg
  BY <1>1, <1>2
<1>4. ASSUME ~(msg.kind = kind /\ msg.seq = s) PROVE Lesser(ch, b, kind, s)
  BY <1>3, <1>4 DEF Lesser, HasMsg, OneMsg
<1>5. ASSUME ~HasMsg(ch, kind, s) PROVE OneMsg(b, kind, s)
  BY <1>3, <1>5 DEF HasMsg, OneMsg
<1>6. QED
  BY <1>2, <1>4, <1>5

(* A step after which call s of p is where it was, or nowhere.             *)
LEMMA SoleLess ==
  ASSUME NEW p \in Procs, NEW s \in Seqs, Sole(p, s),
         \A q \in Procs : /\ Lesser(chan[p][q], chan'[p][q], "RPC", s)
                          /\ Lesser(chan[q][p], chan'[q][p], "RESPONE", s),
         \A q \in Procs, c \in Cos : Served(p, s, q, c)' => Served(p, s, q, c),
         wait_sequence[p][s] # NoCo => wait_sequence'[p][s] # NoCo
  PROVE  Sole(p, s)'
<1>1. OneEach(p, s)'
  BY DEF Sole, OneEach, Lesser
<1>2. ASSUME NEW t \in Spots, Stands(t, p, s)' PROVE Stands(t, p, s)
  <2>1. t.q \in Procs /\ (t.at = "served" => t.c \in Cos)
    BY DEF Spots
  <2>2. CASE t.at = "call" /\ HasMsg(chan'[p][t.q], "RPC", s)
    BY <2>1, <2>2 DEF Stands, Lesser
  <2>3. CASE t.at = "answer" /\ HasMsg(chan'[t.q][p], "RESPONE", s)
    BY <2>1, <2>3 DEF Stands, Lesser
  <2>4. CASE t.at = "served" /\ Served(p, s, t.q, t.c)'
    BY <2>1, <2>4 DEF Stands
  <2>5. QED
    BY <1>2, <2>2, <2>3, <2>4 DEF Stands
<1>3. QED
  BY <1>1, <1>2 DEF Sole

(* A step after which it is at spot y only.                                *)
LEMMA SoleMoved ==
  ASSUME NEW p \in Procs, NEW s \in Seqs, OneEach(p, s)', NEW y,
         \A t \in Spots : Stands(t, p, s)' => t = y /\ wait_sequence'[p][s] # NoCo
  PROVE  Sole(p, s)'
BY DEF Sole

(* A step that takes calls nowhere.                                        *)
LEMMA AnswerLess ==
  ASSUME AnswerInv, TypeOK,
         spent'.unanswered = {} => spent.unanswered = {},
         spent.restarted \subseteq spent'.restarted,
         \A q, r \in Procs, kind \in {"RPC", "RESPONE"}, s \in Seqs :
           Lesser(chan[q][r], chan'[q][r], kind, s),
         \A q \in Procs, c \in Cos : co_sequence'[q][c] \in Seqs =>
           co_sequence'[q][c] = co_sequence[q][c] /\ co_call_node'[q][c] = co_call_node[q][c],
         \A p \in Procs \ spent'.restarted :
           wait_sequence'[p] = wait_sequence[p] /\ next_sequence_id'[p] = next_sequence_id[p]
  PROVE  AnswerInv'
<1> SUFFICES ASSUME spent'.unanswered = {}, NEW p \in Procs \ spent'.restarted, NEW s \in Seqs
             PROVE  /\ Sole(p, s)'
                    /\ wait_sequence'[p][s] # NoCo => s <= next_sequence_id'[p]
  BY DEF AnswerInv
<1>1. Sole(p, s) /\ (wait_sequence[p][s] # NoCo => s <= next_sequence_id[p])
  BY DEF AnswerInv
<1>2. \A q \in Procs, c \in Cos : Served(p, s, q, c)' => Served(p, s, q, c)
  BY DEF Served
<1>3. \A q \in Procs : /\ Lesser(chan[p][q], chan'[p][q], "RPC", s)
                       /\ Lesser(chan[q][p], chan'[q][p], "RESPONE", s)
  OBVIOUS
<1>4. wait_sequence'[p] = wait_sequence[p] /\ next_sequence_id'[p] = next_sequence_id[p]
  OBVIOUS
<1>5. QED
  BY <1>1, <1>2, <1>3, <1>4, SoleLess

(* What a step does to the channels.                                       *)
LEMMA ArrivesChan ==
  ASSUME TypeOK, NEW p \in Procs, NEW q \in Procs, NEW kind, Arrives(p, q, kind)
  PROVE  /\ chan[q][p] \in Seq(Msgs) /\ chan[q][p] # <<>> /\ Head(chan[q][p]).kind = kind
         /\ Head(chan[q][p]) \in Msgs
         /\ chan'[q][p] = Tail(chan[q][p])
         /\ \A a, b \in Procs : ~(a = q /\ b = p) => chan'[a][b] = chan[a][b]
         /\ \A a, b \in Procs, k \in {"RPC", "RESPONE"}, s \in Seqs :
              Lesser(chan[a][b], chan'[a][b], k, s)
<1>1. chan[q][p] \in Seq(Msgs) /\ chan[q][p] # <<>> /\ Head(chan[q][p]).kind = kind
  BY DEF Arrives, TypeOK
<1>2. Head(chan[q][p]) \in Msgs
  BY <1>1, HeadTailProperties
<1>3. /\ chan'[q][p] = Tail(chan[q][p])
      /\ \A a, b \in Procs : ~(a = q /\ b = p) => chan'[a][b] = chan[a][b]
  BY DEF Arrives, TypeOK
<1>4. ASSUME NEW a \in Procs, NEW b \in Procs, NEW k \in {"RPC", "RESPONE"}, NEW s \in Seqs
      PROVE  Lesser(chan[a][b], chan'[a][b], k, s)
  <2>1. CASE a = q /\ b = p
    BY <1>1, <1>3, <2>1, TailLesser
  <2>2. CASE ~(a = q /\ b = p)
    BY <1>3, <2>2, SameLesser
  <2>3. QED
    BY <2>1, <2>2
<1>5. QED
  BY <1>1, <1>2, <1>3, <1>4

(* A call arrives: it moves from the channel to the coroutine that serves  *)
(* it.                                                                     *)
LEMMA OnCallAnswer ==
  ASSUME PlaceInv, CleanInv, AnswerInv, NEW p \in Procs, NEW q \in Procs, OnCall(p, q)
  PROVE  AnswerInv'
<1>1. TypeOK /\ Arrives(p, q, "RPC") /\ UNCHANGED <<linked, spent>>
  BY DEF PlaceInv, OnCall
<1>2. /\ chan[q][p] \in Seq(Msgs) /\ chan[q][p] # <<>> /\ Head(chan[q][p]).kind = "RPC"
      /\ Head(chan[q][p]) \in Msgs
      /\ chan'[q][p] = Tail(chan[q][p])
      /\ \A a, b \in Procs : ~(a = q /\ b = p) => chan'[a][b] = chan[a][b]
      /\ \A a, b \in Procs, k \in {"RPC", "RESPONE"}, s \in Seqs :
           Lesser(chan[a][b], chan'[a][b], k, s)
  BY <1>1, ArrivesChan
<1>3. PICK n \in Seqs : n = Head(chan[q][p]).seq
  BY <1>2, MsgSeq
<1>4. CASE UNCHANGED local
  BY <1>1, <1>2, <1>4, AnswerLess DEF local
<1>5. ASSUME NEW c \in Cos, UNCHANGED <<wait_sequence, next_sequence_id>>,
             co_sequence' = [co_sequence EXCEPT ![p][c] = n],
             co_call_node' = [co_call_node EXCEPT ![p][c] = q]
      PROVE  AnswerInv'
  <2>1. /\ co_sequence'[p][c] = n /\ co_call_node'[p][c] = q
        /\ \A r \in Procs, d \in Cos : ~(r = p /\ d = c) =>
             co_sequence'[r][d] = co_sequence[r][d] /\ co_call_node'[r][d] = co_call_node[r][d]
    BY <1>1, <1>5 DEF TypeOK
  <2>2. SUFFICES ASSUME spent.unanswered = {}, NEW a \in Procs \ spent.restarted, NEW s \in Seqs
                 PROVE  Sole(a, s)' /\ (wait_sequence'[a][s] # NoCo => s <= next_sequence_id'[a])
    BY <1>1 DEF AnswerInv
  <2>3. Sole(a, s) /\ (wait_sequence[a][s] # NoCo => s <= next_sequence_id[a])
    BY <2>2 DEF AnswerInv
  <2>4. CASE ~(a = q /\ s = n)
    <3>1. \A r \in Procs, d \in Cos : Served(a, s, r, d)' => Served(a, s, r, d)
      BY <2>1, <2>4 DEF Served
    <3>2. Sole(a, s)'
      BY <1>2, <1>5, <2>3, <3>1, SoleLess
    <3>3. QED
      BY <1>5, <2>3, <3>2
  <2>5. CASE a = q /\ s = n
    <3>1. PICK x \in Spots : x = [at |-> "call", q |-> p, c |-> NoCo]
      BY DEF Spots
    <3>2. PICK y \in Spots : y = [at |-> "served", q |-> p, c |-> c]
      BY DEF Spots
    <3>3. OneMsg(chan[q][p], "RPC", n)
      BY <2>3, <2>5 DEF Sole, OneEach
    <3>4. HasMsg(chan[q][p], "RPC", n) /\ ~HasMsg(Tail(chan[q][p]), "RPC", n)
      BY <1>2, <1>3, <3>3, TailLesser
    <3>5. Stands(x, a, s)
      BY <2>5, <3>1, <3>4 DEF Stands
    <3>6. wait_sequence[a][s] # NoCo /\ \A t \in Spots : Stands(t, a, s) => t = x
      BY <2>3, <3>5 DEF Sole
    <3>7. OneEach(a, s)'
      BY <1>2, <2>3 DEF Sole, OneEach, Lesser
    <3>8. ASSUME NEW t \in Spots, Stands(t, a, s)' PROVE t = y
      <4>1. t.q \in Procs
        BY DEF Spots
      <4>2. CASE t.at = "call" /\ HasMsg(chan'[a][t.q], "RPC", s)
        <5>1. t.q # p
          BY <1>2, <2>5, <3>4, <4>2
        <5>2. Stands(t, a, s)
          BY <1>2, <2>5, <4>1, <4>2, <5>1 DEF Stands
        <5>3. QED
          BY <3>1, <3>6, <5>1, <5>2
      <4>3. CASE t.at = "answer" /\ HasMsg(chan'[t.q][a], "RESPONE", s)
        <5>1. Stands(t, a, s)
          BY <1>2, <4>1, <4>3 DEF Stands, Lesser
        <5>2. QED
          BY <3>1, <3>6, <4>3, <5>1
      <4>4. CASE t.at = "served" /\ Served(a, s, t.q, t.c)'
        <5>1. t.c \in Cos /\ t = [at |-> "served", q |-> t.q, c |-> t.c]
          BY <4>4 DEF Spots
        <5>2. CASE t.q = p /\ t.c = c
          BY <3>2, <5>1, <5>2
        <5>3. CASE ~(t.q = p /\ t.c = c)
          <6>1. Stands(t, a, s)
            BY <2>1, <4>1, <4>4, <5>1, <5>3 DEF Stands, Served
          <6>2. QED
            BY <3>1, <3>6, <4>4, <6>1
        <5>4. QED
          BY <5>2, <5>3
      <4>5. QED
        BY <3>8, <4>2, <4>3, <4>4 DEF Stands
    <3>9. Sole(a, s)'
      BY <1>5, <3>6, <3>7, <3>8, SoleMoved
    <3>10. QED
      BY <1>5, <2>3, <3>9
  <2>6. QED
    BY <2>4, <2>5
<1>6. QED
  BY <1>3, <1>4, <1>5 DEF OnCall

(* A call without an answer is served by a coroutine that serves no other. *)
LEMMA OnCallNoRetAnswer ==
  ASSUME PlaceInv, CleanInv, AnswerInv, NEW p \in Procs, NEW q \in Procs, OnCallNoRet(p, q)
  PROVE  AnswerInv'
<1>1. TypeOK /\ Arrives(p, q, "RPCNR") /\ UNCHANGED <<linked, spent>>
  BY DEF PlaceInv, OnCallNoRet
<1>2. \A a, b \in Procs, k \in {"RPC", "RESPONE"}, s \in Seqs :
        Lesser(chan[a][b], chan'[a][b], k, s)
  BY <1>1, ArrivesChan
<1>3. CASE UNCHANGED local
  BY <1>1, <1>2, <1>3, AnswerLess DEF local
<1>4. ASSUME NEW c \in Cos, CreateCo(p, c), co_call_node' = [co_call_node EXCEPT ![p][c] = q],
             UNCHANGED <<wait_sequence, next_sequence_id, co_sequence>>
      PROVE  AnswerInv'
  <2>1. SUFFICES ASSUME spent.unanswered = {} PROVE AnswerInv'
    BY <1>1 DEF AnswerInv
  <2>2. co_sequence[p][c] = NoSeq
    BY <1>4, <2>1, CreateCoIdle DEF CleanInv
  <2>3. NoSeq \notin Seqs
    BY RpcAssumption DEF Seqs
  <2>4. \A r \in Procs, d \in Cos : ~(r = p /\ d = c) => co_call_node'[r][d] = co_call_node[r][d]
    BY <1>1, <1>4 DEF TypeOK
  <2>5. \A r \in Procs, d \in Cos : co_sequence'[r][d] \in Seqs =>
          co_sequence'[r][d] = co_sequence[r][d] /\ co_call_node'[r][d] = co_call_node[r][d]
    BY <1>4, <2>2, <2>3, <2>4
  <2>6. QED
    BY <1>1, <1>2, <1>4, <2>5, AnswerLess
<1>5. QED
  BY <1>3, <1>4 DEF OnCallNoRet

(* An answer ends the call.                                                *)
LEMMA OnResponeAnswer ==
  ASSUME PlaceInv, CleanInv, AnswerInv, NEW p \in Procs, NEW q \in Procs, OnRespone(p, q)
  PROVE  AnswerInv'
<1>1. /\ TypeOK /\ Arrives(p, q, "RESPONE")
      /\ UNCHANGED <<next_sequence_id, co_sequence, co_call_node, spent>>
  BY DEF PlaceInv, OnRespone
<1>2. /\ chan[q][p] \in Seq(Msgs) /\ chan[q][p] # <<>> /\ Head(chan[q][p]).kind = "RESPONE"
      /\ Head(chan[q][p]) \in Msgs
      /\ chan'[q][p] = Tail(chan[q][p])
      /\ \A a, b \in Procs : ~(a = q /\ b = p) => chan'[a][b] = chan[a][b]
      /\ \A a, b \in Procs, k \in {"RPC", "RESPONE"}, s \in Seqs :
           Lesser(chan[a][b], chan'[a][b], k, s)
  BY <1>1, ArrivesChan
<1>3. PICK n \in Seqs : n = Head(chan[q][p]).seq
  BY <1>2, MsgSeq
<1>4. CASE UNCHANGED wait_sequence
  BY <1>1, <1>2, <1>4, AnswerLess
<1>5. CASE wait_sequence' = [wait_sequence EXCEPT ![p][n] = NoCo]
  <2>1. \A a \in Procs, s \in Seqs :
          wait_sequence'[a][s] = IF a = p /\ s = n THEN NoCo ELSE wait_sequence[a][s]
    BY <1>1, <1>5 DEF TypeOK
  <2>2. SUFFICES ASSUME spent.unanswered = {}, NEW a \in Procs \ spent.restarted, NEW s \in Seqs
                 PROVE  Sole(a, s)' /\ (wait_sequence'[a][s] # NoCo => s <= next_sequence_id'[a])
    BY <1>1 DEF AnswerInv
  <2>3. Sole(a, s) /\ (wait_sequence[a][s] # NoCo => s <= next_sequence_id[a])
    BY <2>2 DEF AnswerInv
  <2>4. \A r \in Procs, d \in Cos : Served(a, s, r, d)' => Served(a, s, r, d)
    BY <1>1 DEF Served
  <2>5. CASE ~(a = p /\ s = n)
    <3>1. wait_sequence'[a][s] = wait_sequence[a][s]
      BY <2>1, <2>5
    <3>2. Sole(a, s)'
      BY <1>2, <2>3, <2>4, <3>1, SoleLess
    <3>3. QED
      BY <1>1, <2>3, <3>1, <3>2
  <2>6. CASE a = p /\ s = n
    <3>1. PICK x \in Spots : x = [at |-> "answer", q |-> q, c |-> NoCo]
      BY DEF Spots
    <3>2. OneMsg(chan[q][p], "RESPONE", n)
      BY <2>3, <2>6 DEF Sole, OneEach
    <3>3. HasMsg(chan[q][p], "RESPONE", n) /\ ~HasMsg(Tail(chan[q][p]), "RESPONE", n)
      BY <1>2, <1>3, <3>2, TailLesser
    <3>4. Stands(x, a, s)
      BY <2>6, <3>1, <3>3 DEF Stands
    <3>5. \A t \in Spots : Stands(t, a, s) => t = x
      BY <2>3, <3>4 DEF Sole
    <3>6. OneEach(a, s)'
      BY <1>2, <2>3 DEF Sole, OneEach, Lesser
    <3>7. ASSUME NEW t \in Spots, Stands(t, a, s)' PROVE FALSE
      <4>1. t.q \in Procs /\ (t.at = "served" => t.c \in Cos)
        BY DEF Spots
      <4>2. CASE t.at = "call" /\ HasMsg(chan'[a][t.q], "RPC", s)
        <5>1. Stands(t, a, s)
          BY <1>2, <4>1, <4>2 DEF Stands, Lesser
        <5>2. QED
          BY <3>1, <3>5, <4>2, <5>1
      <4>3. CASE t.at = "answer" /\ HasMsg(chan'[t.q][a], "RESPONE", s)
        <5>1. t.q # q
          BY <1>2, <2>6, <3>3, <4>3
        <5>2. Stands(t, a, s)
          BY <1>2, <4>1, <4>3, <5>1 DEF Stands
        <5>3. QED
          BY <3>1, <3>5, <5>1, <5>2
      <4>4. CASE t.at = "served" /\ Served(a, s, t.q, t.c)'
        <5>1. Stands(t, a, s)
          BY <2>4, <4>1, <4>4 DEF Stands
        <5>2. QED
          BY <3>1, <3>5, <4>4, <5>1
      <4>5. QED
        BY <3>7, <4>2, <4>3, <4>4 DEF Stands
    <3>8. Sole(a, s)'
      BY <3>6, <3>7, SoleMoved
    <3>9. QED
      BY <2>1, <2>6, <3>8
  <2>7. QED
    BY <2>5, <2>6
<1>6. QED
  BY <1>3, <1>4, <1>5 DEF OnRespone, Resume

(* Sending to one process adds to one channel.                             *)
SendsOne(p, q, msg) ==
  \A a, b \in Procs, k \in {"RPC", "RESPONE"}, s \in Seqs :
    /\ (a = p /\ b = q) \/ chan'[a][b] = chan[a][b]
    /\ \/ a = p /\ b = q /\ msg.kind = k /\ msg.seq = s
       \/ Lesser(chan[a][b], chan'[a][b], k, s)
    /\ ~HasMsg(chan[a][b], k, s) /\ OneMsg(chan[a][b], k, s) => OneMsg(chan'[a][b], k, s)

LEMMA SendOne ==
  ASSUME TypeOK, NEW p \in Procs, NEW q \in Procs \cup {NoProc}, NEW msg \in Msgs,
         chan' = Sent(p, {q}, msg)
  PROVE  SendsOne(p, q, msg)
<1> SUFFICES ASSUME NEW a \in Procs, NEW b \in Procs, NEW k \in {"RPC", "RESPONE"}, NEW s \in Seqs
             PROVE  /\ (a = p /\ b = q) \/ chan'[a][b] = chan[a][b]
                    /\ \/ a = p /\ b = q /\ msg.kind = k /\ msg.seq = s
                       \/ Lesser(chan[a][b], chan'[a][b], k, s)
                    /\ ~HasMsg(chan[a][b], k, s) /\ OneMsg(chan[a][b], k, s) =>
                         OneMsg(chan'[a][b], k, s)
  BY DEF SendsOne
<1>1. chan'[a][b] = IF a = p /\ b = q /\ {p, q} \in linked THEN Append(chan[a][b], msg)
                                                            ELSE chan[a][b]
  BY DEF Sent, TypeOK
<1>2. PICK ch \in Seq(Msgs) : ch = chan[a][b]
  <2>1. chan[a][b] \in Seq(Msgs)
    BY DEF TypeOK
  <2>2. QED
    BY <2>1
<1>3. CASE chan'[a][b] = ch
  BY <1>2, <1>3, SameLesser
<1>4. CASE a = p /\ b = q /\ chan'[a][b] = Append(ch, msg)
  BY <1>2, <1>4, AppendLesser
<1>5. QED
  BY <1>1, <1>2, <1>3, <1>4

(* A call is sent under a number nobody waits for.                         *)
LEMMA CallAnswer ==
  ASSUME PlaceInv, AnswerInv, NEW p \in Procs, NEW q \in Procs, NEW func \in Funcs,
         Call(p, q, func)
  PROVE  AnswerInv'
<1>1. PICK n \in Seqs : n = next_sequence_id[p] + 1
  BY DEF Call, CreateSequence
<1>2. PICK msg : msg = RPC(n, func)
  OBVIOUS
<1>3. msg \in Msgs /\ msg.kind = "RPC" /\ msg.seq = n
  BY <1>2 DEF RPC, Msgs
<1>4. PICK c \in Cos : c = Current(p)
  BY RunningBusy DEF Call
<1>5. /\ TypeOK /\ UNCHANGED <<co_sequence, co_call_node, spent>>
      /\ next_sequence_id' = [next_sequence_id EXCEPT ![p] = n]
      /\ chan' = Sent(p, {q}, msg)
      /\ wait_sequence' = [wait_sequence EXCEPT ![p][n] = c]
  BY <1>1, <1>2, <1>4 DEF Call, CreateSequence, PlaceInv
<1>6. /\ \A a \in Procs : next_sequence_id'[a] = IF a = p THEN n ELSE next_sequence_id[a]
      /\ \A a \in Procs, s \in Seqs :
           wait_sequence'[a][s] = IF a = p /\ s = n THEN c ELSE wait_sequence[a][s]
  BY <1>5 DEF TypeOK
<1>7. SendsOne(p, q, msg)
  <2>1. TypeOK /\ msg \in Msgs /\ chan' = Sent(p, {q}, msg)
    BY <1>3, <1>5
  <2>2. QED
    BY <2>1, SendOne
<1>8. c # NoCo
  BY RpcAssumption
<1>10. SUFFICES ASSUME spent.unanswered = {}, NEW a \in Procs \ spent.restarted, NEW s \in Seqs
                PROVE  Sole(a, s)' /\ (wait_sequence'[a][s] # NoCo => s <= next_sequence_id'[a])
  BY <1>5 DEF AnswerInv
<1>11. Sole(a, s) /\ (wait_sequence[a][s] # NoCo => s <= next_sequence_id[a])
  BY <1>10 DEF AnswerInv
<1>12. wait_sequence'[a][s] # NoCo => s <= next_sequence_id'[a]
  <2>1. s \in Nat /\ n \in Nat /\ next_sequence_id[a] \in Nat /\ next_sequence_id[p] \in Nat
    <3>1. next_sequence_id[a] \in {1} \cup Seqs /\ next_sequence_id[p] \in {1} \cup Seqs
      BY <1>5 DEF TypeOK
    <3>2. QED
      BY <3>1, RpcAssumption DEF Seqs
  <2>2. QED
    BY <1>1, <1>6, <1>11, <2>1
<1>13. \A b \in Procs, k \in {"RPC", "RESPONE"} : ~(k = "RPC" /\ s = n) =>
         Lesser(chan[a][b], chan'[a][b], k, s) /\ Lesser(chan[b][a], chan'[b][a], k, s)
  BY <1>3, <1>7 DEF SendsOne
<1>14. \A b \in Procs : a # p => Lesser(chan[a][b], chan'[a][b], "RPC", s)
  BY <1>7 DEF SendsOne
<1>15. \A r \in Procs, d \in Cos : Served(a, s, r, d)' => Served(a, s, r, d)
  BY <1>5 DEF Served
<1>16. CASE ~(a = p /\ s = n)
  <2>1. wait_sequence'[a][s] = wait_sequence[a][s]
    BY <1>6, <1>16
  <2>2. \A b \in Procs : /\ Lesser(chan[a][b], chan'[a][b], "RPC", s)
                         /\ Lesser(chan[b][a], chan'[b][a], "RESPONE", s)
    BY <1>13, <1>14, <1>16
  <2>3. Sole(a, s)'
    BY <1>11, <1>15, <2>1, <2>2, SoleLess
  <2>4. QED
    BY <1>12, <2>3
<1>17. CASE a = p /\ s = n
  <2>1. wait_sequence[p][n] = NoCo
    <3>1. next_sequence_id[p] \in Nat /\ n \in Nat
      <4>1. next_sequence_id[p] \in {1} \cup Seqs
        BY <1>5 DEF TypeOK
      <4>2. QED
        BY <4>1, RpcAssumption DEF Seqs
    <3>2. ~(n <= next_sequence_id[p])
      BY <1>1, <3>1
    <3>3. QED
      BY <1>11, <1>17, <3>2
  <2>2. \A t \in Spots : ~Stands(t, a, s)
    BY <1>11, <1>17, <2>1 DEF Sole
  <2>3. \A b \in Procs : ~HasMsg(chan[a][b], "RPC", s)
    <3> TAKE b \in Procs
    <3>1. PICK t \in Spots : t = [at |-> "call", q |-> b, c |-> NoCo]
      BY DEF Spots
    <3>2. QED
      BY <2>2, <3>1 DEF Stands
  <2>4. OneEach(a, s)'
    <3>1. ASSUME NEW b \in Procs PROVE OneMsg(chan'[a][b], "RPC", s)
      <4>1. OneMsg(chan[a][b], "RPC", s)
        BY <1>11 DEF Sole, OneEach
      <4>2. QED
        BY <1>7, <2>3, <4>1 DEF SendsOne
    <3>2. ASSUME NEW b \in Procs PROVE OneMsg(chan'[b][a], "RESPONE", s)
      BY <1>11, <1>13 DEF Sole, OneEach, Lesser
    <3>3. QED
      BY <3>1, <3>2 DEF OneEach
  <2>5. PICK y \in Spots : y = [at |-> "call", q |-> q, c |-> NoCo]
    BY DEF Spots
  <2>6. ASSUME NEW t \in Spots, Stands(t, a, s)' PROVE t = y
    <3>1. t.q \in Procs /\ (t.at = "served" => t.c \in Cos)
      BY DEF Spots
    <3>2. CASE t.at = "call" /\ HasMsg(chan'[a][t.q], "RPC", s)
      <4>1. t.q = q
        BY <1>7, <2>3, <3>1, <3>2 DEF SendsOne
      <4>2. t = [at |-> "call", q |-> t.q, c |-> NoCo]
        BY <3>2 DEF Spots
      <4>3. QED
        BY <2>5, <4>1, <4>2
    <3>3. CASE t.at = "answer" /\ HasMsg(chan'[t.q][a], "RESPONE", s)
      <4>1. Stands(t, a, s)
        BY <1>13, <3>1, <3>3 DEF Stands, Lesser
      <4>2. QED
        BY <2>2, <4>1
    <3>4. CASE t.at = "served" /\ Served(a, s, t.q, t.c)'
      <4>1. Stands(t, a, s)
        BY <1>15, <3>1, <3>4 DEF Stands
      <4>2. QED
        BY <2>2, <4>1
    <3>5. QED
      BY <2>6, <3>2, <3>3, <3>4 DEF Stands
  <2>7. wait_sequence'[a][s] # NoCo
    BY <1>6, <1>8, <1>17
  <2>8. Sole(a, s)'
    BY <2>4, <2>6, <2>7, SoleMoved
  <2>9. QED
    BY <1>12, <2>8
<1>18. QED
  BY <1>16, <1>17

(* An answer is sent: the call moves from the coroutine to the channel.    *)
LEMMA RetAnswer == ASSUME PlaceInv, AnswerInv, NEW p \in Procs, Ret(p) PROVE AnswerInv'
<1>1. PICK c \in Cos : c = Current(p)
  BY RunningBusy DEF Ret
<1>2. PICK n : n = co_sequence[p][c]
  OBVIOUS
<1>3. PICK q \in Procs \cup {NoProc} : q = co_call_node[p][c]
  BY <1>1 DEF PlaceInv, TypeOK
<1>4. PICK msg : msg = RESPONE(n)
  OBVIOUS
<1>5. /\ TypeOK /\ UNCHANGED <<wait_sequence, next_sequence_id, co_call_node, spent>>
      /\ co_sequence' = [co_sequence EXCEPT ![p][c] = NoSeq]
      /\ chan' = Sent(p, {q}, msg) /\ n # NoSeq
  BY <1>1, <1>2, <1>3, <1>4 DEF Ret, PlaceInv
<1>6. n \in Seqs /\ NoSeq \notin Seqs
  BY <1>2, <1>5, RpcAssumption DEF TypeOK, Seqs
<1>7. msg \in Msgs /\ msg.kind = "RESPONE" /\ msg.seq = n
  BY <1>4, <1>6 DEF RESPONE, Msgs
<1>8. SendsOne(p, q, msg)
  <2>1. TypeOK /\ msg \in Msgs /\ chan' = Sent(p, {q}, msg)
    BY <1>5, <1>7
  <2>2. QED
    BY <2>1, SendOne
<1>10. SUFFICES ASSUME spent.unanswered = {}, NEW a \in Procs \ spent.restarted, NEW s \in Seqs
                PROVE  Sole(a, s)'
  BY <1>5 DEF AnswerInv
<1>11. Sole(a, s)
  BY <1>10 DEF AnswerInv
<1>12. \A r \in Procs, d \in Cos : Served(a, s, r, d)' => Served(a, s, r, d) /\ ~(r = p /\ d = c)
  <2>1. \A r \in Procs, d \in Cos :
          co_sequence'[r][d] = IF r = p /\ d = c THEN NoSeq ELSE co_sequence[r][d]
    BY <1>5 DEF TypeOK
  <2>2. QED
    BY <1>5, <1>6, <2>1 DEF Served
<1>13. \A b \in Procs, k \in {"RPC", "RESPONE"} : ~(k = "RESPONE" /\ s = n) =>
         Lesser(chan[a][b], chan'[a][b], k, s) /\ Lesser(chan[b][a], chan'[b][a], k, s)
  BY <1>7, <1>8 DEF SendsOne
<1>14. \A b \in Procs : a # q => Lesser(chan[b][a], chan'[b][a], "RESPONE", s)
  BY <1>8 DEF SendsOne
<1>15. CASE ~(a = q /\ s = n)
  <2>1. \A b \in Procs : /\ Lesser(chan[a][b], chan'[a][b], "RPC", s)
                         /\ Lesser(chan[b][a], chan'[b][a], "RESPONE", s)
    BY <1>13, <1>14, <1>15
  <2>2. QED
    BY <1>5, <1>11, <1>12, <2>1, SoleLess
<1>16. CASE a = q /\ s = n
  <2>1. PICK x \in Spots : x = [at |-> "served", q |-> p, c |-> c]
    BY DEF Spots
  <2>2. Stands(x, a, s)
    BY <1>2, <1>3, <1>16, <2>1 DEF Stands, Served
  <2>3. wait_sequence[a][s] # NoCo /\ \A t \in Spots : Stands(t, a, s) => t = x
    BY <1>11, <2>2 DEF Sole
  <2>4. \A b \in Procs : ~HasMsg(chan[b][a], "RESPONE", s)
    <3> TAKE b \in Procs
    <3>1. PICK t \in Spots : t = [at |-> "answer", q |-> b, c |-> NoCo]
      BY DEF Spots
    <3>2. ~Stands(t, a, s)
      BY <2>1, <2>3, <3>1
    <3>3. QED
      BY <3>1, <3>2 DEF Stands
  <2>5. OneEach(a, s)'
    <3>1. ASSUME NEW b \in Procs PROVE OneMsg(chan'[b][a], "RESPONE", s)
      <4>1. OneMsg(chan[b][a], "RESPONE", s)
        BY <1>11 DEF Sole, OneEach
      <4>2. QED
        BY <1>8, <2>4, <4>1 DEF SendsOne
    <3>2. ASSUME NEW b \in Procs PROVE OneMsg(chan'[a][b], "RPC", s)
      BY <1>11, <1>13 DEF Sole, OneEach, Lesser
    <3>3. QED
      BY <3>1, <3>2 DEF OneEach
  <2>6. PICK y \in Spots : y = [at |-> "answer", q |-> p, c |-> NoCo]
    BY DEF Spots
  <2>7. ASSUME NEW t \in Spots, Stands(t, a, s)' PROVE t = y
    <3>1. t.q \in Procs /\ (t.at = "served" => t.c \in Cos)
      BY DEF Spots
    <3>2. CASE t.at = "answer" /\ HasMsg(chan'[t.q][a], "RESPONE", s)
      <4>1. t.q = p
        BY <1>8, <2>4, <3>1, <3>2 DEF SendsOne
      <4>2. t = [at |-> "answer", q |-> t.q, c |-> NoCo]
        BY <3>2 DEF Spots
      <4>3. QED
        BY <2>6, <4>1, <4>2
    <3>3. CASE t.at = "call" /\ HasMsg(chan'[a][t.q], "RPC", s)
      <4>1. Stands(t, a, s)
        BY <1>13, <3>1, <3>3 DEF Stands, Lesser
      <4>2. QED
        BY <2>1, <2>3, <3>3, <4>1
    <3>4. CASE t.at = "served" /\ Served(a, s, t.q, t.c)'
      <4>1. Stands(t, a, s) /\ ~(t.q = p /\ t.c = c)
        BY <1>12, <3>1, <3>4 DEF Stands
      <4>2. QED
        BY <2>1, <2>3, <4>1
    <3>5. QED
      BY <2>7, <3>2, <3>3, <3>4 DEF Stands
  <2>8. QED
    BY <1>5, <2>3, <2>5, <2>7, SoleMoved
<1>17. QED
  BY <1>15, <1>16

(* The network loses messages; a restart loses the calls of the process.   *)
LEMMA BreakAnswer ==
  ASSUME PlaceInv, AnswerInv, NEW p \in Procs, NEW q \in Procs, Break(p, q) PROVE AnswerInv'
<1>1. /\ TypeOK /\ UNCHANGED local
      /\ spent.unanswered = spent'.unanswered /\ spent.restarted = spent'.restarted
  BY DEF PlaceInv, Break, TypeOK
<1>2. \A a, b \in Procs : chan'[a][b] = chan[a][b] \/ chan'[a][b] = <<>>
  BY DEF Break, Severed
<1>3. \A a, b \in Procs, k \in {"RPC", "RESPONE"}, s \in Seqs :
        Lesser(chan[a][b], chan'[a][b], k, s)
  BY <1>2, SameLesser, EmptyLesser
<1>4. QED
  BY <1>1, <1>3, AnswerLess DEF local

LEMMA RestartAnswer ==
  ASSUME PlaceInv, AnswerInv, NEW p \in Procs, Restart(p) PROVE AnswerInv'
<1>1. TypeOK
  BY DEF PlaceInv
<1>2. spent'.unanswered = spent.unanswered /\ spent'.restarted = spent.restarted \cup {p}
  <2>1. /\ spent \in SpentType
        /\ spent' = [spent EXCEPT !.faults = @ + 1, !.restarted = @ \cup {p}]
    BY <1>1 DEF Restart, TypeOK, SpentType
  <2>2. QED
    BY <2>1 DEF SpentType
<1>3. \A a, b \in Procs : chan'[a][b] = chan[a][b] \/ chan'[a][b] = <<>>
  BY DEF Restart
<1>4. \A a, b \in Procs, k \in {"RPC", "RESPONE"}, s \in Seqs :
        Lesser(chan[a][b], chan'[a][b], k, s)
  BY <1>3, SameLesser, EmptyLesser
<1>5. \A r \in Procs, c \in Cos : co_sequence'[r][c] \in Seqs =>
        co_sequence'[r][c] = co_sequence[r][c] /\ co_call_node'[r][c] = co_call_node[r][c]
  <2>1. \A r \in Procs, c \in Cos :
          /\ r = p => co_sequence'[r][c] = NoSeq
          /\ r # p => co_sequence'[r] = co_sequence[r] /\ co_call_node'[r] = co_call_node[r]
    BY <1>1 DEF Restart, TypeOK
  <2>2. NoSeq \notin Seqs
    BY RpcAssumption DEF Seqs
  <2>3. QED
    BY <2>1, <2>2
<1>6. \A r \in Procs \ spent'.restarted :
        wait_sequence'[r] = wait_sequence[r] /\ next_sequence_id'[r] = next_sequence_id[r]
  <2>1. \A r \in Procs : r # p =>
          wait_sequence'[r] = wait_sequence[r] /\ next_sequence_id'[r] = next_sequence_id[r]
    BY <1>1 DEF Restart, TypeOK
  <2>2. QED
    BY <1>2, <2>1
<1>7. QED
  BY <1>1, <1>2, <1>4, <1>5, <1>6, AnswerLess

(* A coroutine that ends or fails keeps the call it has not answered.      *)
LEMMA EndAnswer ==
  ASSUME PlaceInv, AnswerInv, NEW p \in Procs, Exit(p) \/ Error(p),
         spent'.unanswered = {} => spent.unanswered = {}, spent.restarted \subseteq spent'.restarted
  PROVE  AnswerInv'
<1>1. TypeOK /\ UNCHANGED <<wait_sequence, next_sequence_id, co_sequence, chan>>
  BY DEF PlaceInv, Exit, Error
<1>2. PICK C : co_call_node' = [co_call_node EXCEPT ![p] = ExitListener(p, C)]
  BY DEF Exit, Error, Unwind
<1>3. \A r \in Procs, c \in Cos :
        co_sequence[r][c] # NoSeq => co_call_node'[r][c] = co_call_node[r][c]
  <2>1. PICK f : f = ExitListener(p, C)
    OBVIOUS
  <2>2. \A c \in Cos : co_sequence[p][c] # NoSeq => f[c] = co_call_node[p][c]
    BY <2>1 DEF ExitListener
  <2>3. \A r \in Procs : co_call_node'[r] = IF r = p THEN f ELSE co_call_node[r]
    BY <1>1, <1>2, <2>1 DEF TypeOK
  <2>4. QED
    BY <2>2, <2>3
<1>4. NoSeq \notin Seqs
  BY RpcAssumption DEF Seqs
<1>5. \A r \in Procs, c \in Cos : co_sequence'[r][c] \in Seqs =>
        co_sequence'[r][c] = co_sequence[r][c] /\ co_call_node'[r][c] = co_call_node[r][c]
  BY <1>1, <1>3, <1>4
<1>6. \A a, b \in Procs, k \in {"RPC", "RESPONE"}, s \in Seqs :
        Lesser(chan[a][b], chan'[a][b], k, s)
  BY <1>1, SameLesser
<1>7. QED
  BY <1>1, <1>5, <1>6, AnswerLess

(* Calls without an answer are not answers, nor calls that have one.       *)
LEMMA CallNoRetAnswer ==
  ASSUME PlaceInv, AnswerInv, NEW p \in Procs, NEW Q, NEW func \in Funcs, CallNoRet(p, Q, func),
         spent'.unanswered = {} => spent.unanswered = {}, spent.restarted \subseteq spent'.restarted
  PROVE  AnswerInv'
<1>1. PICK msg \in Msgs : msg = RPCNR(func) /\ msg.kind = "RPCNR"
  <2>1. RPCNR(func) \in Msgs /\ RPCNR(func).kind = "RPCNR"
    BY DEF RPCNR, Msgs
  <2>2. QED
    BY <2>1
<1>2. TypeOK /\ UNCHANGED local /\ chan' = Sent(p, Q, msg)
  BY <1>1 DEF PlaceInv, CallNoRet
<1>3. ASSUME NEW a \in Procs, NEW b \in Procs, NEW k \in {"RPC", "RESPONE"}, NEW s \in Seqs
      PROVE  Lesser(chan[a][b], chan'[a][b], k, s)
  <2>1. chan'[a][b] = chan[a][b] \/ chan'[a][b] = Append(chan[a][b], msg)
    BY <1>2 DEF Sent, TypeOK
  <2>2. chan[a][b] \in Seq(Msgs)
    BY <1>2 DEF TypeOK
  <2>3. msg.kind # k
    BY <1>1
  <2>4. QED
    BY <2>1, <2>2, <2>3, SameLesser, AppendLesser
<1>4. QED
  BY <1>2, <1>3, AnswerLess DEF local

(* The invariant is inductive.                                             *)
LEMMA NextAnswer == PlaceInv /\ CleanInv /\ AnswerInv /\ [Next]_vars => AnswerInv'
<1> SUFFICES ASSUME PlaceInv, CleanInv, AnswerInv, [Next]_vars PROVE AnswerInv'
  OBVIOUS
<1>0. /\ spent'.unanswered = {} => spent.unanswered = {}
      /\ spent.restarted \subseteq spent'.restarted
  BY SpentKept
<1>1. CASE UNCHANGED <<wait_sequence, next_sequence_id, co_sequence, co_call_node, chan>>
  BY <1>0, <1>1, AnswerLess, SameLesser DEF PlaceInv
<1>2. ASSUME NEW p \in Procs, Fork(p) PROVE AnswerInv'
  BY <1>1, <1>2 DEF Fork
<1>3. ASSUME NEW p \in Procs, ExitUnanswered(p) PROVE AnswerInv'
  <2>1. spent \in SpentType /\ spent' = [spent EXCEPT !.faults = @ + 1, !.unanswered = @ \cup {p}]
    BY <1>3 DEF ExitUnanswered, PlaceInv, TypeOK, SpentType
  <2>2. p \in spent'.unanswered
    BY <2>1 DEF SpentType
  <2>3. QED
    BY <2>2 DEF AnswerInv
<1>4. ASSUME NEW p \in Procs, Exit(p) \/ Error(p) PROVE AnswerInv'
  BY <1>0, <1>4, EndAnswer
<1>5. CASE \E p \in Procs : \/ Fork(p) \/ Ret(p) \/ Exit(p) \/ ExitUnanswered(p)
                            \/ Error(p) \/ Restart(p)
  BY <1>2, <1>3, <1>4, <1>5, RetAnswer, RestartAnswer
<1>6. ASSUME NEW p \in Procs, NEW q \in Procs, Link(p, q) PROVE AnswerInv'
  BY <1>1, <1>6 DEF Link, local
<1>7. CASE \E p, q \in Procs : Receive(p, q) \/ Link(p, q) \/ Break(p, q)
  BY <1>6, <1>7, OnCallAnswer, OnCallNoRetAnswer, OnResponeAnswer, BreakAnswer DEF Receive
<1>8. CASE \E p \in Procs, func \in Funcs :
             \/ \E q \in Procs \ {p} : Call(p, q, func)
             \/ \E Q \in SUBSET (Procs \ {p}) : CallNoRet(p, Q, func)
  BY <1>0, <1>8, CallAnswer, CallNoRetAnswer
<1>9. CASE UNCHANGED vars
  BY <1>1, <1>9 DEF vars, local
<1>10. QED
  BY <1>5, <1>7, <1>8, <1>9 DEF Next

(* A call at one spot has one token.                                       *)
LEMMA SoleToken ==
  ASSUME NEW p \in Procs, NEW s \in Seqs, Sole(p, s)
  PROVE  /\ \A x, y \in Tokens(p, s) : x = y
         /\ Tokens(p, s) # {} => wait_sequence[p][s] # NoCo
<1> DEFINE Calls(q) == {i \in DOMAIN chan[p][q] : chan[p][q][i].kind = "RPC" /\ chan[p][q][i].seq = s}
           Serving(q) == {c \in Cos : co_sequence[q][c] = s /\ co_call_node[q][c] = p}
           Answers(q) == {i \in DOMAIN chan[q][p] : chan[q][p][i].kind = "RESPONE" /\ chan[q][p][i].seq = s}
           Spot(x, t) == /\ x[1] = t.at /\ x[2] = t.q /\ Stands(t, p, s)
                         /\ \/ t.at = "call" /\ x[3] \in Calls(t.q)
                            \/ t.at = "served" /\ x[3] \in Serving(t.q) /\ x[3] = t.c
                            \/ t.at = "answer" /\ x[3] \in Answers(t.q)
<1>1. ASSUME NEW x \in Tokens(p, s)
      PROVE  /\ x = <<x[1], x[2], x[3]>>
             /\ \E t \in Spots : Spot(x, t)
  <2>1. PICK q \in Procs : \/ \E i \in Calls(q) : x = <<"call", q, i>>
                           \/ \E c \in Serving(q) : x = <<"served", q, c>>
                           \/ \E i \in Answers(q) : x = <<"answer", q, i>>
    BY <1>1 DEF Tokens
  <2>2. CASE \E i \in Calls(q) : x = <<"call", q, i>>
    <3>1. PICK t \in Spots : t = [at |-> "call", q |-> q, c |-> NoCo]
      BY DEF Spots
    <3>2. Stands(t, p, s)
      BY <2>2, <3>1 DEF Stands, HasMsg
    <3>3. QED
      BY <2>2, <3>1, <3>2
  <2>3. CASE \E c \in Serving(q) : x = <<"served", q, c>>
    <3>0. PICK c \in Serving(q) : x = <<"served", q, c>>
      BY <2>3
    <3>1. PICK t \in Spots : t = [at |-> "served", q |-> q, c |-> c]
      BY DEF Spots
    <3>2. Stands(t, p, s)
      BY <3>0, <3>1 DEF Stands, Served
    <3>3. QED
      BY <3>0, <3>1, <3>2
  <2>4. CASE \E i \in Answers(q) : x = <<"answer", q, i>>
    <3>1. PICK t \in Spots : t = [at |-> "answer", q |-> q, c |-> NoCo]
      BY DEF Spots
    <3>2. Stands(t, p, s)
      BY <2>4, <3>1 DEF Stands, HasMsg
    <3>3. QED
      BY <2>4, <3>1, <3>2
  <2>5. QED
    BY <2>1, <2>2, <2>3, <2>4
<1>2. ASSUME NEW x \in Tokens(p, s), NEW y \in Tokens(p, s) PROVE x = y
  <2>1. PICK t \in Spots, u \in Spots : Spot(x, t) /\ Spot(y, u)
    BY <1>1
  <2>2. t = u
    BY <2>1 DEF Sole
  <2>3. t.q \in Procs
    BY DEF Spots
  <2>4. OneMsg(chan[p][t.q], "RPC", s) /\ OneMsg(chan[t.q][p], "RESPONE", s)
    BY <2>3 DEF Sole, OneEach
  <2>5. x[3] = y[3]
    BY <2>1, <2>2, <2>4 DEF OneMsg
  <2>6. x[1] = y[1] /\ x[2] = y[2]
    BY <2>1, <2>2
  <2>7. x = <<x[1], x[2], x[3]>> /\ y = <<y[1], y[2], y[3]>>
    BY <1>1
  <2>8. QED
    BY <2>5, <2>6, <2>7
<1>3. Tokens(p, s) # {} => wait_sequence[p][s] # NoCo
  BY <1>1 DEF Sole
<1>4. QED
  BY <1>2, <1>3

(* AnswerMatches: for any processes, scripts and faults, while every       *)
(* function returns its result and the caller has not been restarted, a    *)
(* call is with one coroutine or in one message, and its answer resumes    *)
(* the coroutine that waits for it.                                        *)
THEOREM CallsAnsweredOnce == Spec => []AnswerMatches
<1>1. Init => AnswerInv
  <2> SUFFICES ASSUME Init, NEW p \in Procs, NEW s \in Seqs
               PROVE  Sole(p, s) /\ wait_sequence[p][s] = NoCo
    BY DEF AnswerInv
  <2>1. /\ \A q, r \in Procs : DOMAIN chan[q][r] = {}
        /\ \A q \in Procs, c \in Cos : co_sequence[q][c] = NoSeq
        /\ wait_sequence[p][s] = NoCo
    BY EmptyFacts DEF Init
  <2>2. NoSeq \notin Seqs
    BY RpcAssumption DEF Seqs
  <2>3. \A t \in Spots : ~Stands(t, p, s)
    BY <2>1, <2>2 DEF Spots, Stands, HasMsg, Served
  <2>4. QED
    BY <2>1, <2>3 DEF Sole, OneEach, OneMsg
<1>2. Spec => []AnswerInv
  BY <1>1, PlacesHold, CleanHolds, NextAnswer, PTL DEF Spec
<1>3. AnswerInv => AnswerMatches
  <2> SUFFICES ASSUME AnswerInv, spent.unanswered = {},
                      NEW p \in Procs \ spent.restarted, NEW s \in Seqs
               PROVE  Cardinality(Tokens(p, s)) <= IF wait_sequence[p][s] # NoCo THEN 1 ELSE 0
    BY DEF AnswerMatches
  <2>1. Sole(p, s)
    BY DEF AnswerInv
  <2>2. CASE Tokens(p, s) = {}
    BY <2>2, FS_EmptySet
  <2>3. CASE Tokens(p, s) # {}
    <3>1. PICK x : x \in Tokens(p, s)
      BY <2>3
    <3>2. Tokens(p, s) = {x} /\ wait_sequence[p][s] # NoCo
      BY <2>1, <3>1, SoleToken
    <3>3. Cardinality(Tokens(p, s)) = 1
      BY <3>2, FS_Singleton
    <3>4. QED
      BY <3>2, <3>3
  <2>4. QED
    BY <2>2, <2>3
<1>4. QED
  BY <1>2, <1>3, PTL
=============================================================================
