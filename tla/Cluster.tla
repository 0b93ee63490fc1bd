------------------------------- MODULE Cluster -------------------------------
(***************************************************************************)
(* The cluster: a master process and nodes that report to it, learn of     *)
(* each other from it and connect to each other (the modules Harbor,       *)
(* NodeSession, Master and Cluster).  Every process has one main thread,   *)
(* so a handler is a step.                                                 *)
(*                                                                         *)
(* A link is one TCP connection with its two NodeSessions: "from" is the   *)
(* side that connected, "to" the side that accepts.  A link delivers each  *)
(* side's messages in order, as the Connection module shows, until it is   *)
(* cut; what has not arrived then may be lost, and each side learns of the *)
(* cut in its own time.  A session is identified by the link it is on.     *)
(* Addresses are fixed: a node is restarted where it ran.                  *)
(***************************************************************************)
EXTENDS Naturals, Sequences, FiniteSets

CONSTANTS
  Master,      \* the process with the Master module
  Nodes,       \* the processes with the Cluster module
  Type, Id,    \* the node type and id of each node
  Hidden,      \* nodes configured with hide = "true"
  Links,       \* bound: connections that exist at a time
  MaxFaults,   \* bound: connections that break and processes that end
  MaxApp,      \* bound: messages of other modules
  NoSockets,   \* whether a process may run out of descriptors
  NoLink, NoProc

Procs == Nodes \cup {Master}

ASSUME ClusterAssumption ==
  /\ Master \notin Nodes /\ NoProc \notin Procs /\ NoLink \notin Links
  /\ Type \in [Nodes -> Nat] /\ Id \in [Nodes -> Nat]
  /\ \A a, b \in Nodes : Type[a] = Type[b] /\ Id[a] = Id[b] => a = b
  /\ Hidden \subseteq Nodes /\ IsFiniteSet(Nodes)
  /\ MaxFaults \in Nat /\ MaxApp \in Nat /\ NoSockets \in BOOLEAN

VARIABLES
  up,          \* the running processes
  out,         \* out[n][p]: the session n created to connect to p
  reconnects,  \* Harbor::_reconnects of each node, by target
  nodes,       \* Harbor::_nodes of each process: the session of a node
  known,       \* Master::s_nodes
  opened,      \* Cluster::s_openNode of each node
  link,        \* the connections
  spent        \* how often each bounded event has happened

vars == <<up, out, reconnects, nodes, known, opened, link, spent>>

Report == [kind |-> "REPORT"]
App == [kind |-> "APP"]
NewNode(k) == [kind |-> "NEW_NODE", node |-> k]

Ends == {"from", "to"}
Peer(e) == IF e = "from" THEN "to" ELSE "from"

(* An end is idle until its process has heard of the link, open until the  *)
(* other side has reported, then ready, and closed after OnDisconnected.   *)
Free == [proc |-> [e \in Ends |-> NoProc], end |-> [e \in Ends |-> "closed"],
         inbox |-> [e \in Ends |-> <<>>], cut |-> FALSE]

Unused(l) == link[l].proc["from"] = NoProc

(* A connection that both sides have closed is gone.                       *)
Settle(r) == IF \A e \in Ends : r.end[e] = "closed" THEN Free ELSE r

(* Bytes sent on a broken connection go nowhere.                           *)
Deliver(r, e, msgs) == IF r.cut THEN r ELSE [r EXCEPT !.inbox[e] = @ \o msgs]

Init ==
  /\ up = {}
  /\ out = [n \in Nodes |-> [p \in Procs |-> "none"]]
  /\ reconnects = [n \in Nodes |-> <<>>]
  /\ nodes = [p \in Procs |-> [q \in Procs |-> NoLink]]
  /\ known = {}
  /\ opened = [n \in Nodes |-> {}]
  /\ link = [l \in Links |-> Free]
  /\ spent = [faults |-> 0, app |-> 0]

-----------------------------------------------------------------------------
(* Connecting.                                                             *)

(* NetEngine::Connect: without a descriptor it answers false, which its    *)
(* callers ignore, and the session is forgotten.                           *)
Attempts == IF NoSockets THEN {"connecting", "lost"} ELSE {"connecting"}

Connect(n, p) == \E s \in Attempts : out' = [out EXCEPT ![n][p] = s]

(* The modules' Launched: Harbor listens, Cluster connects to the master.  *)
Launch(p) ==
  /\ p \notin up
  /\ up' = up \cup {p}
  /\ \/ p \in Nodes /\ Connect(p, Master)
     \/ p = Master /\ UNCHANGED out
  /\ UNCHANGED <<reconnects, nodes, known, opened, link, spent>>

(* Connector::OnOut and NodeSession::OnConnected: report to the other side. *)
OnOut(n, p) ==
  /\ n \in up /\ p \in up
  /\ out[n][p] = "connecting"
  /\ out' = [out EXCEPT ![n][p] = "open"]
  /\ \E l \in Links : Unused(l)
  /\ LET l == CHOOSE x \in Links : Unused(x) IN
       link' = [link EXCEPT ![l] =
         [Free EXCEPT !.proc = [e \in Ends |-> IF e = "from" THEN n ELSE p],
                      !.end = [e \in Ends |-> IF e = "from" THEN "open" ELSE "idle"],
                      !.inbox["to"] = <<Report>>]]
  /\ UNCHANGED <<up, reconnects, nodes, known, opened, spent>>

(* Mutant: the side that accepts does not report.                          *)
OnInSilent(l) ==
  /\ link[l].end["to"] = "idle" /\ link[l].proc["to"] \in up
  /\ link' = [link EXCEPT ![l].end["to"] = "open"]
  /\ UNCHANGED <<up, out, reconnects, nodes, known, opened, spent>>

(* Acceptor::OnIn and NodeSession::OnConnected: report to the other side.  *)
OnIn(l) ==
  /\ link[l].end["to"] = "idle" /\ link[l].proc["to"] \in up
  /\ link' = [link EXCEPT ![l] = Deliver([@ EXCEPT !.end["to"] = "open"], "from", <<Report>>)]
  /\ UNCHANGED <<up, out, reconnects, nodes, known, opened, spent>>

(* Mutant: the attempt is prepared and not queued.                         *)
AddReconnectForgets(n, p) ==
  /\ out' = [out EXCEPT ![n][p] = "retry"]
  /\ UNCHANGED reconnects

(* Harbor::AddReconnect: queue another attempt.                            *)
AddReconnect(n, p) ==
  /\ out' = [out EXCEPT ![n][p] = "retry"]
  /\ reconnects' = [reconnects EXCEPT ![n] = Append(@, p)]

(* Connector::OnError and NodeSession::OnConnectFailed.                    *)
OnConnectFailed(n, p) ==
  /\ n \in up
  /\ out[n][p] = "connecting"
  /\ AddReconnect(n, p)
  /\ UNCHANGED <<up, nodes, known, opened, link, spent>>

(* Harbor::Loop: the time of the first entry has come.                     *)
Loop(n) ==
  /\ n \in up
  /\ reconnects[n] # <<>>
  /\ reconnects' = [reconnects EXCEPT ![n] = Tail(@)]
  /\ Connect(n, Head(reconnects[n]))
  /\ UNCHANGED <<up, nodes, known, opened, link, spent>>

-----------------------------------------------------------------------------
(* NodeSession::OnRecv on one end of a link.                               *)

Local(l, e) == link[l].proc[e]
Remote(l, e) == link[l].proc[Peer(e)]
Incoming(l, e) == /\ link[l].end[e] \in {"open", "ready"}
                  /\ link[l].inbox[e] # <<>>
Message(l, e) == Head(link[l].inbox[e])
Consumed(l, e) == [link[l] EXCEPT !.inbox[e] = Tail(@)]

(* Master::OnOpen keeps to itself the nodes that hide.                     *)
Visible(q) == q \notin Hidden

(* Mutant: the master counts itself among the nodes.                       *)
OthersAndSelf(q) == (known \cup {Master}) \ {q}

(* Master::OnOpen: whom the master tells about node q, and of whom it      *)
(* tells q, in the order of its hash table.                                *)
Others(q) == known \ {q}

Orders(S) == {s \in [1 .. Cardinality(S) -> S] : \A i, j \in DOMAIN s : s[i] = s[j] => i = j}

(* Mutant: the new node hears of the others, they do not hear of it.       *)
AnnounceBackOnly(q, l, r) ==
  \E order \in Orders(Others(q)) :
    link' = [k \in Links |->
      IF k = l THEN Deliver(r, "from", [i \in DOMAIN order |-> NewNode(order[i])]) ELSE link[k]]

(* SendNewNode goes through Harbor::Send: only to a node of the table.     *)
Announce(q, l, r) ==
  \E order \in Orders(Others(q)) :
    link' = [k \in Links |->
      IF k = l THEN Deliver(r, "from", [i \in DOMAIN order |-> NewNode(order[i])])
      ELSE IF \E t \in Others(q) : nodes[Master][t] = k
           THEN Deliver(link[k], "from", <<NewNode(q)>>)
           ELSE link[k]]

(* REPORT on a session that is not ready: Harbor::OnNodeOpen enters the    *)
(* session into the table and tells the listeners.                         *)
RecvReport(l, e) ==
  LET p == Local(l, e)
      q == Remote(l, e)
      r == [Consumed(l, e) EXCEPT !.end[e] = "ready"]
  IN  /\ Incoming(l, e)
      /\ link[l].end[e] = "open" /\ Message(l, e) = Report
      /\ nodes' = [nodes EXCEPT ![p][q] = l]
      /\ \/ /\ p = Master /\ Visible(q)
            /\ known' = known \cup {q}
            /\ Announce(q, l, r)
         \/ /\ p # Master \/ ~Visible(q)
            /\ link' = [link EXCEPT ![l] = r]
            /\ UNCHANGED known
      /\ UNCHANGED <<up, out, reconnects, opened, spent>>

(* Mutant: a node that is announced again is connected to again.           *)
IgnoredForgetful(n, k) == Type[k] = Type[n] /\ Id[k] <= Id[n]

(* Mutant: of two nodes of a type both connect.                            *)
IgnoredUnordered(n, k) == k \in opened[n]

(* Cluster::NewNodeComming: nothing to do for a node that was announced    *)
(* before, or of two nodes of a type for the one with the larger id.       *)
Ignored(n, k) == k \in opened[n] \/ (Type[k] = Type[n] /\ Id[k] <= Id[n])

RecvNewNode(l, e) ==
  LET n == Local(l, e)
      k == Message(l, e).node
  IN  /\ Incoming(l, e)
      /\ link[l].end[e] = "ready" /\ Message(l, e).kind = "NEW_NODE"
      /\ link' = [link EXCEPT ![l] = Consumed(l, e)]
      /\ \/ /\ Ignored(n, k)
            /\ UNCHANGED <<opened, out>>
         \/ /\ ~Ignored(n, k)
            /\ opened' = [opened EXCEPT ![n] = @ \cup {k}]
            /\ Connect(n, k)
      /\ UNCHANGED <<up, reconnects, nodes, known, spent>>

(* A message of another module.                                            *)
RecvApp(l, e) ==
  /\ Incoming(l, e)
  /\ link[l].end[e] = "ready" /\ Message(l, e) = App
  /\ link' = [link EXCEPT ![l] = Consumed(l, e)]
  /\ UNCHANGED <<up, out, reconnects, nodes, known, opened, spent>>

(* The two assertions "wtf" of OnRecv, which end the process.              *)
Unexpected(l, e) == IF link[l].end[e] = "open" THEN Message(l, e) # Report
                                               ELSE Message(l, e) = Report

(* Harbor::PrepareSend and Send by another module: through the table.      *)
Send(p, q) ==
  /\ spent.app < MaxApp /\ spent' = [spent EXCEPT !.app = @ + 1]
  /\ p \in up /\ nodes[p][q] # NoLink
  /\ LET l == nodes[p][q]
         e == IF link[l].proc["from"] = p THEN "to" ELSE "from"
     IN  link' = [link EXCEPT ![l] = Deliver(@, e, <<App>>)]
  /\ UNCHANGED <<up, out, reconnects, nodes, known, opened>>

-----------------------------------------------------------------------------
(* Disconnecting.                                                          *)

(* The connection breaks: in the network, or because one side closes it.   *)
Cut(l) ==
  /\ spent.faults < MaxFaults /\ spent' = [spent EXCEPT !.faults = @ + 1]
  /\ ~Unused(l) /\ ~link[l].cut
  /\ link' = [link EXCEPT ![l].cut = TRUE]
  /\ UNCHANGED <<up, out, reconnects, nodes, known, opened>>

(* Harbor::OnNodeClose: the node leaves the table, whichever of its        *)
(* sessions the entry names.                                               *)
OnNodeClose(p, q) == [nodes EXCEPT ![p][q] = NoLink]

(* Mutant: a session that connects again has been reset before the test.   *)
WasReadyReset(l, e) == e = "to" /\ link[l].end[e] = "ready"

WasReady(l, e) == link[l].end[e] = "ready"

(* NodeSession::OnDisconnected: the session that connected is queued for   *)
(* another attempt, the accepted one is deleted.                           *)
OnDisconnected(l, e) ==
  /\ link[l].cut /\ link[l].end[e] \in {"open", "ready"}
  /\ nodes' = IF WasReady(l, e) THEN OnNodeClose(Local(l, e), Remote(l, e)) ELSE nodes
  /\ link' = [link EXCEPT ![l] = Settle([@ EXCEPT !.end[e] = "closed", !.inbox[e] = <<>>])]
  /\ \/ e = "from" /\ AddReconnect(Local(l, e), Remote(l, e))
     \/ e = "to" /\ UNCHANGED <<out, reconnects>>
  /\ UNCHANGED <<up, known, opened, spent>>

(* A process ends: its memory is gone, its connections break.              *)
Bereft(r, p) ==
  IF \A e \in Ends : r.proc[e] # p THEN r
  ELSE Settle([r EXCEPT !.cut = TRUE,
                        !.end = [e \in Ends |-> IF r.proc[e] = p THEN "closed" ELSE @[e]],
                        !.inbox = [e \in Ends |-> IF r.proc[e] = p THEN <<>> ELSE @[e]]])

Crash(p) ==
  /\ spent.faults < MaxFaults /\ spent' = [spent EXCEPT !.faults = @ + 1]
  /\ p \in up /\ up' = up \ {p}
  /\ out' = [n \in Nodes |-> IF n = p THEN [q \in Procs |-> "none"] ELSE out[n]]
  /\ reconnects' = [n \in Nodes |-> IF n = p THEN <<>> ELSE reconnects[n]]
  /\ opened' = [n \in Nodes |-> IF n = p THEN {} ELSE opened[n]]
  /\ known' = IF p = Master THEN {} ELSE known
  /\ nodes' = [nodes EXCEPT ![p] = [q \in Procs |-> NoLink]]
  /\ link' = [l \in Links |-> Bereft(link[l], p)]

-----------------------------------------------------------------------------
Recv(l, e) == RecvReport(l, e) \/ RecvNewNode(l, e) \/ RecvApp(l, e)

Next ==
  \/ \E p \in Procs : Launch(p) \/ Crash(p) \/ \E q \in Procs : Send(p, q)
  \/ \E n \in Nodes : Loop(n) \/ \E p \in Procs : OnOut(n, p) \/ OnConnectFailed(n, p)
  \/ \E l \in Links : OnIn(l) \/ Cut(l) \/ \E e \in Ends : Recv(l, e) \/ OnDisconnected(l, e)

Spec == Init /\ [][Next]_vars

-----------------------------------------------------------------------------
(* Fairness.  Processes are started, and started again; every main loop    *)
(* dispatches what epoll reports and retries what is due; an attempt to    *)
(* connect to a process that runs does not fail for ever.                  *)
Fairness ==
  /\ \A p \in Procs : WF_vars(Launch(p))
  /\ \A n \in Nodes : WF_vars(Loop(n)) /\ \A p \in Procs : SF_vars(OnOut(n, p))
  /\ \A l \in Links : WF_vars(OnIn(l)) /\ \A e \in Ends :
       WF_vars(Recv(l, e)) /\ WF_vars(OnDisconnected(l, e))

FairSpec == Spec /\ Fairness

-----------------------------------------------------------------------------
Msgs == {Report, App} \cup {NewNode(k) : k \in Nodes}

LinkType ==
  [proc : [Ends -> Procs \cup {NoProc}], end : [Ends -> {"idle", "open", "ready", "closed"}],
   inbox : [Ends -> Seq(Msgs)], cut : BOOLEAN]

TypeOK ==
  /\ up \subseteq Procs
  /\ out \in [Nodes -> [Procs -> {"none", "connecting", "lost", "open", "retry"}]]
  /\ reconnects \in [Nodes -> Seq(Procs)]
  /\ nodes \in [Procs -> [Procs -> Links \cup {NoLink}]]
  /\ known \subseteq Nodes
  /\ opened \in [Nodes -> SUBSET Nodes]
  /\ link \in [Links -> LinkType]
  /\ spent \in [faults : 0 .. MaxFaults, app : 0 .. MaxApp]

(* Every session in Harbor's table is connected, has reported, and is the  *)
(* session of the node it is filed under: Send never goes through a        *)
(* session that Recover has deleted or that waits to connect again.        *)
SessionOf(l, p, q) ==
  \E e \in Ends : Local(l, e) = p /\ Remote(l, e) = q /\ link[l].end[e] = "ready"

TableSound ==
  \A p, q \in Procs : nodes[p][q] # NoLink => SessionOf(nodes[p][q], p, q)

(* Both sides report first and once, whoever connected, however often the  *)
(* connection was made: no other message overtakes a report.               *)
ReportFirst == \A l \in Links, e \in Ends : Incoming(l, e) => ~Unexpected(l, e)

(* A session that connects is in one place only: on one connection, in the *)
(* list of reconnects once, attempting to connect, or lost for want of a   *)
(* descriptor: it is never queued twice and never on two connections.      *)
LiveLinks(n, p) == {l \in Links : /\ link[l].proc["from"] = n /\ link[l].proc["to"] = p
                                  /\ link[l].end["from"] # "closed"}
Queued(n, p) == {i \in 1 .. Len(reconnects[n]) : reconnects[n][i] = p}

SessionInOnePlace ==
  \A n \in Nodes, p \in Procs :
    /\ Cardinality(LiveLinks(n, p)) = IF out[n][p] = "open" THEN 1 ELSE 0
    /\ Cardinality(Queued(n, p)) = IF out[n][p] = "retry" THEN 1 ELSE 0

(* Of two nodes of a type the one with the larger id does not connect.     *)
Never(a, b) == Type[a] = Type[b] /\ Id[b] <= Id[a]

(* Announcements are not lost while connections hold: if the master knows  *)
(* b and has a in its table, then a has been told of b or the message is   *)
(* on its way, in whatever order they came.                                *)
Told(a, b) ==
  LET l == nodes[Master][a] IN
    \/ b \in opened[a]
    \/ \E i \in 1 .. Len(link[l].inbox["from"]) : link[l].inbox["from"][i] = NewNode(b)

Announced ==
  \A a \in Nodes \ Hidden, b \in known :
    a # b /\ nodes[Master][a] # NoLink /\ ~link[nodes[Master][a]].cut =>
      Told(a, b) \/ Never(a, b)

(* The connections between two nodes follow their configuration, whatever  *)
(* crashes, restarts, retries and repeated announcements there are: none   *)
(* to a node that hides, one between nodes of a type, which the one with   *)
(* the smaller id makes, and one each way otherwise.                       *)
Unbroken(a, b) == {l \in Links : Local(l, "from") = a /\ Local(l, "to") = b /\ ~link[l].cut}

MeshBounded ==
  \A a, b \in Nodes : a # b =>
    Cardinality(Unbroken(a, b)) <=
      IF {a, b} \cap Hidden # {} \/ Never(a, b) THEN 0 ELSE 1

Linked(a, b) ==
  \E l \in Links : /\ {link[l].proc[e] : e \in Ends} = {a, b}
                    /\ \A e \in Ends : link[l].end[e] = "ready"
                    /\ ~link[l].cut

(* A node whose session with the master is not in the master's table: the  *)
(* close of an older session has erased the entry of the newer one.        *)
Unlisted(a) ==
  \E l \in Links : /\ Local(l, "from") = a /\ Local(l, "to") = Master
                    /\ link[l].end["to"] = "ready" /\ nodes[Master][a] # l

(* The session of one node to the other is lost, or there is to be none.   *)
Lost(a, b) == Never(a, b) \/ out[a][b] = "lost"

(* However processes start, crash and restart and connections break, once  *)
(* that ends every two visible nodes get connected and stay so.  Left out  *)
(* are nodes the master has lost sight of, and pairs whose own sessions,   *)
(* or one with the master, were lost for want of a descriptor: a lost      *)
(* session disconnects nobody else.                                        *)
MeshForms ==
  <>[](\A a, b \in Nodes \ Hidden :
         \/ a = b \/ Linked(a, b) \/ Unlisted(a) \/ Unlisted(b)
         \/ out[a][Master] = "lost" \/ out[b][Master] = "lost"
         \/ Lost(a, b) /\ Lost(b, a))

=============================================================================
