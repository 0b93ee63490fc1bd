--------------------------------- MODULE Rpc ---------------------------------
(***************************************************************************)
(* Remote calls between the Lua scripts of the processes (Rpc, harbor.lua, *)
(* co.lua).  Scripts run in coroutines on the main thread: a coroutine     *)
(* runs until it returns, waits for the answer of a call, or raises an     *)
(* error, and may start others meanwhile.                                  *)
(*                                                                         *)
(* A pair of processes is linked while each has the other in its Harbor    *)
(* table; the messages of a link arrive in order until it breaks.  What a  *)
(* script does is arbitrary.  The table "sequence" of harbor.lua is left   *)
(* out: it is written but never read.                                      *)
(***************************************************************************)
EXTENDS Naturals, FiniteSets, SequencesExt

CONSTANTS
  Procs,         \* the processes
  Cos,           \* bound: coroutines a process ever creates
  MaxSeq,        \* bound: sequence numbers a process uses
  MaxCallNoRet,  \* bound: calls without an answer
  MaxFork,       \* bound: coroutines that scripts start
  MaxFaults,     \* bound: errors in scripts, broken links and restarts in all
  Funcs,         \* names of functions
  Registered,    \* the functions that every process has registered
  NoCo, NoProc, NoSeq

Seqs == 2 .. MaxSeq

ASSUME RpcAssumption ==
  /\ MaxSeq \in Nat /\ MaxCallNoRet \in Nat /\ MaxFork \in Nat /\ MaxFaults \in Nat
  /\ Registered \subseteq Funcs
  /\ NoCo \notin Cos /\ NoProc \notin Procs /\ NoSeq \notin Nat

VARIABLES
  stack,             \* the coroutines that run, each resumed by the one before
  coroutine_pool,    \* ended coroutines, to be used again
  created,           \* the coroutines created so far
  wait_sequence,     \* the coroutine that waits for the answer of a call
  next_sequence_id,
  co_sequence,       \* the call that a coroutine answers
  co_call_node,      \* the process that called the function a coroutine runs
  linked,            \* the pairs of processes that are connected
  chan,              \* chan[p][q]: messages from p to q
  spent              \* history: the bounded events so far, which processes have
                     \* been restarted, or have run a function without ret

local == <<stack, coroutine_pool, created, wait_sequence, next_sequence_id,
           co_sequence, co_call_node>>
vars == <<local, linked, chan, spent>>

RPC(seq, func) == [kind |-> "RPC", seq |-> seq, func |-> func]
RPCNR(func) == [kind |-> "RPCNR", func |-> func]
RESPONE(seq) == [kind |-> "RESPONE", seq |-> seq]

Init ==
  /\ stack = [p \in Procs |-> <<>>]
  /\ coroutine_pool = [p \in Procs |-> <<>>]
  /\ created = [p \in Procs |-> {}]
  /\ wait_sequence = [p \in Procs |-> [s \in Seqs |-> NoCo]]
  /\ next_sequence_id = [p \in Procs |-> 1]
  /\ co_sequence = [p \in Procs |-> [c \in Cos |-> NoSeq]]
  /\ co_call_node = [p \in Procs |-> [c \in Cos |-> NoProc]]
  /\ linked = {}
  /\ chan = [p \in Procs |-> [q \in Procs |-> <<>>]]
  /\ spent = [callNoRet |-> 0, fork |-> 0, faults |-> 0, restarted |-> {},
              unanswered |-> {}]

-----------------------------------------------------------------------------
(* Messages.                                                               *)

(* Harbor::PrepareSend and Send: nothing is sent to a process that is not  *)
(* in the table.                                                           *)
Sent(p, Q, msg) ==
  [chan EXCEPT ![p] = [q \in Procs |-> IF q \in Q /\ {p, q} \in linked
                                        THEN Append(@[q], msg) ELSE @[q]]]

(* The main loop calls into Lua only when no coroutine runs.               *)
Arrives(p, q, kind) ==
  /\ stack[p] = <<>>
  /\ chan[q][p] # <<>> /\ Head(chan[q][p]).kind = kind
  /\ chan' = [chan EXCEPT ![q][p] = Tail(@)]

-----------------------------------------------------------------------------
(* Coroutines.                                                             *)

Running(p) == stack[p] # <<>>
Current(p) == Last(stack[p])

NewCo(p) == IF created[p] = Cos THEN NoCo ELSE CHOOSE c \in Cos : c \notin created[p]

(* create_co: the coroutine that ended last, else a new one.               *)
CreateCo(p, c) ==
  \/ /\ coroutine_pool[p] # <<>> /\ c = Last(coroutine_pool[p])
     /\ coroutine_pool' = [coroutine_pool EXCEPT ![p] = Front(@)]
     /\ UNCHANGED created
  \/ /\ coroutine_pool[p] = <<>> /\ c = NewCo(p) /\ c \in Cos
     /\ created' = [created EXCEPT ![p] = @ \cup {c}]
     /\ UNCHANGED coroutine_pool

(* co.fork by a script, or by a listener of onOpen or onClose.             *)
Fork(p) ==
  /\ spent.fork < MaxFork /\ spent' = [spent EXCEPT !.fork = @ + 1]
  /\ \E c \in Cos : /\ CreateCo(p, c)
                    /\ stack' = [stack EXCEPT ![p] = Append(@, c)]
  /\ UNCHANGED <<wait_sequence, next_sequence_id, co_sequence, co_call_node, linked, chan>>

(* Rpc::OnCall and rpc: run the function, remember whom to answer.  A      *)
(* function that is not registered raises an error in the main loop.       *)
OnCall(p, q) ==
  /\ Arrives(p, q, "RPC")
  /\ LET msg == Head(chan[q][p]) IN
       \/ /\ msg.func \in Registered
          /\ \E c \in Cos : /\ CreateCo(p, c)
                            /\ stack' = [stack EXCEPT ![p] = <<c>>]
                            /\ co_sequence' = [co_sequence EXCEPT ![p][c] = msg.seq]
                            /\ co_call_node' = [co_call_node EXCEPT ![p][c] = q]
          /\ UNCHANGED <<wait_sequence, next_sequence_id>>
       \/ /\ msg.func \notin Registered
          /\ UNCHANGED local
  /\ UNCHANGED <<linked, spent>>

(* Rpc::OnCallNoRet and rpcnr.                                             *)
OnCallNoRet(p, q) ==
  /\ Arrives(p, q, "RPCNR")
  /\ \/ /\ Head(chan[q][p]).func \in Registered
        /\ \E c \in Cos : /\ CreateCo(p, c)
                          /\ stack' = [stack EXCEPT ![p] = <<c>>]
                          /\ co_call_node' = [co_call_node EXCEPT ![p][c] = q]
        /\ UNCHANGED <<wait_sequence, next_sequence_id, co_sequence>>
     \/ /\ Head(chan[q][p]).func \notin Registered
        /\ UNCHANGED local
  /\ UNCHANGED <<linked, spent>>

(* Mutant: the entry is not removed before the coroutine is resumed.       *)
ResumeKeeps(p, seq) ==
  /\ stack' = [stack EXCEPT ![p] = <<wait_sequence[p][seq]>>]
  /\ UNCHANGED wait_sequence

Resume(p, seq) ==
  /\ stack' = [stack EXCEPT ![p] = <<wait_sequence[p][seq]>>]
  /\ wait_sequence' = [wait_sequence EXCEPT ![p][seq] = NoCo]

(* Rpc::OnRespone and co.respone: resume the coroutine that waits for this *)
(* number, whoever answers; an answer nobody waits for is ignored.         *)
OnRespone(p, q) ==
  /\ Arrives(p, q, "RESPONE")
  /\ LET seq == Head(chan[q][p]).seq IN
       \/ /\ wait_sequence[p][seq] # NoCo
          /\ Resume(p, seq)
       \/ /\ wait_sequence[p][seq] = NoCo
          /\ UNCHANGED <<stack, wait_sequence>>
  /\ UNCHANGED <<coroutine_pool, created, next_sequence_id, co_sequence, co_call_node,
                 linked, spent>>

(* create_sequence; numbers stay far below the overflow it tests for.      *)
CreateSequence(p) == next_sequence_id[p] + 1

(* harbor.call with wait, and co.wait: send, then wait for the answer.     *)
Call(p, q, func) ==
  LET seq == CreateSequence(p)
  IN  /\ Running(p) /\ seq \in Seqs
      /\ next_sequence_id' = [next_sequence_id EXCEPT ![p] = seq]
      /\ chan' = Sent(p, {q}, RPC(seq, func))
      /\ wait_sequence' = [wait_sequence EXCEPT ![p][seq] = Current(p)]
      /\ stack' = [stack EXCEPT ![p] = Front(@)]
      /\ UNCHANGED <<coroutine_pool, created, co_sequence, co_call_node, linked, spent>>

(* harbor.call without wait to one process, harbor.typeCall to many.       *)
CallNoRet(p, Q, func) ==
  /\ Running(p)
  /\ spent.callNoRet < MaxCallNoRet /\ spent' = [spent EXCEPT !.callNoRet = @ + 1]
  /\ chan' = Sent(p, Q, RPCNR(func))
  /\ UNCHANGED <<local, linked>>

(* Mutant: the call stays the coroutine's call.                            *)
RetAgain(p) ==
  /\ Running(p) /\ co_sequence[p][Current(p)] # NoSeq
  /\ chan' = Sent(p, {co_call_node[p][Current(p)]}, RESPONE(co_sequence[p][Current(p)]))
  /\ UNCHANGED <<local, linked, spent>>

(* Mutant: no test whether there is a call to answer.                      *)
RetUnasked(p) ==
  /\ Running(p)
  /\ co_sequence' = [co_sequence EXCEPT ![p][Current(p)] = NoSeq]
  /\ chan' = Sent(p, {co_call_node[p][Current(p)]}, RESPONE(co_sequence[p][Current(p)]))
  /\ UNCHANGED <<stack, coroutine_pool, created, wait_sequence, next_sequence_id, co_call_node,
                 linked, spent>>

(* Mutant: the call is cleared and no answer sent.                         *)
RetMute(p) ==
  /\ Running(p) /\ co_sequence[p][Current(p)] # NoSeq
  /\ co_sequence' = [co_sequence EXCEPT ![p][Current(p)] = NoSeq]
  /\ UNCHANGED <<stack, coroutine_pool, created, wait_sequence, next_sequence_id, co_call_node,
                 linked, chan, spent>>

(* harbor.ret: answer the caller.  Without a call it raises an error.      *)
Ret(p) ==
  /\ Running(p) /\ co_sequence[p][Current(p)] # NoSeq
  /\ co_sequence' = [co_sequence EXCEPT ![p][Current(p)] = NoSeq]
  /\ chan' = Sent(p, {co_call_node[p][Current(p)]}, RESPONE(co_sequence[p][Current(p)]))
  /\ UNCHANGED <<stack, coroutine_pool, created, wait_sequence, next_sequence_id, co_call_node,
                 linked, spent>>

(* Mutant: the listener forgets the caller's process.                      *)
ExitListenerKeeps(p, C) == co_call_node[p]

(* The listener of harbor.lua for coroutines C that end: nothing is left   *)
(* of one that has answered; for one that has not, its assertion fails.    *)
ExitListener(p, C) ==
  [c \in Cos |-> IF c \in C /\ co_sequence[p][c] = NoSeq THEN NoProc ELSE co_call_node[p][c]]

(* The function of the current coroutine ends: it enters the pool, then    *)
(* the listener runs.                                                      *)
Exit(p) ==
  /\ Running(p) /\ co_sequence[p][Current(p)] = NoSeq
  /\ coroutine_pool' = [coroutine_pool EXCEPT ![p] = Append(@, Current(p))]
  /\ stack' = [stack EXCEPT ![p] = Front(@)]
  /\ co_call_node' = [co_call_node EXCEPT ![p] = ExitListener(p, {Current(p)})]
  /\ UNCHANGED <<created, wait_sequence, next_sequence_id, co_sequence, linked, chan, spent>>

(* An error ends the coroutines of p above the n that are left: co_suspend *)
(* raises it again in the one below, until a script catches it or it       *)
(* reaches the engine call around them, which a send may have nested.      *)
Unwind(p, n) ==
  /\ stack' = [stack EXCEPT ![p] = SubSeq(@, 1, n)]
  /\ co_call_node' = [co_call_node EXCEPT
       ![p] = ExitListener(p, {stack[p][i] : i \in n + 1 .. Len(stack[p])})]

(* The function ends without ret: the coroutine is in the pool, and the    *)
(* assertion of the listener fails.  Nobody answers the caller.            *)
ExitUnanswered(p) ==
  /\ Running(p) /\ co_sequence[p][Current(p)] # NoSeq
  /\ spent.faults < MaxFaults
  /\ spent' = [spent EXCEPT !.faults = @ + 1, !.unanswered = @ \cup {p}]
  /\ coroutine_pool' = [coroutine_pool EXCEPT ![p] = Append(@, Current(p))]
  /\ \E n \in 0 .. Len(stack[p]) - 1 : Unwind(p, n)
  /\ UNCHANGED <<created, wait_sequence, next_sequence_id, co_sequence, linked, chan>>

(* An error in the current coroutine: those it ends do not enter the pool. *)
Error(p) ==
  /\ Running(p)
  /\ spent.faults < MaxFaults /\ spent' = [spent EXCEPT !.faults = @ + 1]
  /\ \E n \in 0 .. Len(stack[p]) - 1 : Unwind(p, n)
  /\ UNCHANGED <<coroutine_pool, created, wait_sequence, next_sequence_id, co_sequence,
                 linked, chan>>

-----------------------------------------------------------------------------
(* The network.                                                            *)

Link(p, q) ==
  /\ p # q /\ {p, q} \notin linked
  /\ linked' = linked \cup {{p, q}}
  /\ UNCHANGED <<local, chan, spent>>

Severed(P) == [p \in Procs |-> [q \in Procs |-> IF p \in P /\ q \in P THEN <<>> ELSE chan[p][q]]]

(* The messages that have not arrived are lost; no script is told.         *)
Break(p, q) ==
  /\ spent.faults < MaxFaults /\ spent' = [spent EXCEPT !.faults = @ + 1]
  /\ {p, q} \in linked
  /\ linked' = linked \ {{p, q}}
  /\ chan' = Severed({p, q})
  /\ UNCHANGED local

(* A process ends and is started again.                                    *)
Restart(p) ==
  /\ spent.faults < MaxFaults
  /\ spent' = [spent EXCEPT !.faults = @ + 1, !.restarted = @ \cup {p}]
  /\ stack' = [stack EXCEPT ![p] = <<>>]
  /\ coroutine_pool' = [coroutine_pool EXCEPT ![p] = <<>>]
  /\ created' = [created EXCEPT ![p] = {}]
  /\ wait_sequence' = [wait_sequence EXCEPT ![p] = [s \in Seqs |-> NoCo]]
  /\ next_sequence_id' = [next_sequence_id EXCEPT ![p] = 1]
  /\ co_sequence' = [co_sequence EXCEPT ![p] = [c \in Cos |-> NoSeq]]
  /\ co_call_node' = [co_call_node EXCEPT ![p] = [c \in Cos |-> NoProc]]
  /\ linked' = {pair \in linked : p \notin pair}
  /\ chan' = [q \in Procs |-> [r \in Procs |-> IF p \in {q, r} THEN <<>> ELSE chan[q][r]]]

-----------------------------------------------------------------------------
Receive(p, q) == OnCall(p, q) \/ OnCallNoRet(p, q) \/ OnRespone(p, q)

Next ==
  \/ \E p \in Procs : Fork(p) \/ Ret(p) \/ Exit(p) \/ ExitUnanswered(p) \/ Error(p) \/ Restart(p)
  \/ \E p, q \in Procs : Receive(p, q) \/ Link(p, q) \/ Break(p, q)
  \/ \E p \in Procs, func \in Funcs :
       \/ \E q \in Procs \ {p} : Call(p, q, func)
       \/ \E Q \in SUBSET (Procs \ {p}) : CallNoRet(p, Q, func)

Spec == Init /\ [][Next]_vars

(* The main loop dispatches the messages of every connection whenever no   *)
(* script runs; a script comes to its end and answers before that.         *)
Fairness ==
  /\ \A p, q \in Procs : SF_vars(Receive(p, q))
  /\ \A p \in Procs : WF_vars(Ret(p) \/ Exit(p))

FairSpec == Spec /\ Fairness

-----------------------------------------------------------------------------
Msgs == [kind : {"RPC"}, seq : Seqs, func : Funcs] \cup [kind : {"RPCNR"}, func : Funcs]
          \cup [kind : {"RESPONE"}, seq : Seqs]

TypeOK ==
  /\ stack \in [Procs -> Seq(Cos)]
  /\ coroutine_pool \in [Procs -> Seq(Cos)]
  /\ created \in [Procs -> SUBSET Cos]
  /\ wait_sequence \in [Procs -> [Seqs -> Cos \cup {NoCo}]]
  /\ next_sequence_id \in [Procs -> {1} \cup Seqs]
  /\ co_sequence \in [Procs -> [Cos -> Seqs \cup {NoSeq}]]
  /\ co_call_node \in [Procs -> [Cos -> Procs \cup {NoProc}]]
  /\ linked \subseteq SUBSET Procs
  /\ chan \in [Procs -> [Procs -> Seq(Msgs)]]
  /\ spent \in [callNoRet : 0 .. MaxCallNoRet, fork : 0 .. MaxFork, faults : 0 .. MaxFaults,
                restarted : SUBSET Procs, unanswered : SUBSET Procs]

(* k, pool and wait hold each of the coroutines made at most once in all.  *)
Apart(k, pool, wait, made) ==
  /\ IsInjective(k) /\ IsInjective(pool)
  /\ \A s, t \in Seqs : wait[s] # NoCo /\ wait[s] = wait[t] => s = t
  /\ \A i \in DOMAIN k, j \in DOMAIN pool : k[i] # pool[j]
  /\ \A s \in Seqs : /\ \A i \in DOMAIN k : k[i] # wait[s]
                     /\ \A j \in DOMAIN pool : pool[j] # wait[s]
                     /\ wait[s] \in made \cup {NoCo}
  /\ \A i \in DOMAIN k : k[i] \in made
  /\ \A j \in DOMAIN pool : pool[j] \in made

(* A coroutine runs, is in the pool, or waits for one answer, and never    *)
(* two of these: no script is resumed in the middle of another's work,     *)
(* however calls nest, fail and are answered.                              *)
CoInOnePlace ==
  \A p \in Procs : Apart(stack[p], coroutine_pool[p], wait_sequence[p], created[p])

(* A call of p is at one place on its way: in the channel to the process   *)
(* that is called, with the coroutine that serves it, or answered.         *)
Tokens(p, s) ==
  UNION {
    {<<"call", q, i>> : i \in {i \in DOMAIN chan[p][q] :
       chan[p][q][i].kind = "RPC" /\ chan[p][q][i].seq = s}} \cup
    {<<"served", q, c>> : c \in {c \in Cos :
       co_sequence[q][c] = s /\ co_call_node[q][c] = p}} \cup
    {<<"answer", q, i>> : i \in {i \in DOMAIN chan[q][p] :
       chan[q][p][i].kind = "RESPONE" /\ chan[q][p][i].seq = s}}
    : q \in Procs}

(* An answer resumes the coroutine whose call it answers, and a call is    *)
(* answered once, if its process has not been restarted meanwhile and      *)
(* every function returns its result, as harbor.lua asserts.               *)
AnswerMatches ==
  \A p \in Procs \ spent.restarted, s \in Seqs :
    spent.unanswered = {} =>
      Cardinality(Tokens(p, s)) <= IF wait_sequence[p][s] # NoCo THEN 1 ELSE 0

(* Nothing of its former use is left to a coroutine in the pool, if every  *)
(* function returns its result: a script that runs in it next finds        *)
(* neither a caller nor a call to answer.                                  *)
PoolClean ==
  \A p \in Procs : \A c \in ToSet(coroutine_pool[p]) :
    spent.unanswered = {} => co_sequence[p][c] = NoSeq /\ co_call_node[p][c] = NoProc

(* A call that is on its way is answered, although the processes call each *)
(* other while they wait.                                                  *)
CallAnswered ==
  \A p \in Procs, s \in Seqs : Tokens(p, s) # {} ~> wait_sequence[p][s] = NoCo
=============================================================================
