---------------------------- MODULE ClusterProofs ----------------------------
(***************************************************************************)
(* Theorems about Cluster: its types and the soundness of Harbor's table;  *)
(* reports come first, a session that connects is in one place, the        *)
(* master's announcements are not lost, and the connections between two    *)
(* nodes are those their configuration allows.                             *)
(***************************************************************************)
EXTENDS Cluster, TLAPS, SequenceTheorems, FiniteSetTheorems

(* A link is closed at both ends, or connects a node to a process.         *)
Joins(r) == r.proc["from"] \in Nodes /\ r.proc["to"] \in Procs

LinkOK == \A l \in Links : (\A e \in Ends : link[l].end[e] = "closed") \/ Joins(link[l])

(* The inductive invariant behind TableSound.                              *)
TableInv == TypeOK /\ LinkOK /\ TableSound

-----------------------------------------------------------------------------
(* Facts about the helpers.                                                *)

(* The constants of the messages are messages.                             *)
LEMMA MsgFacts ==
  /\ Report \in Msgs /\ App \in Msgs /\ \A k \in Nodes : NewNode(k) \in Msgs
  /\ <<Report>> \in Seq(Msgs) /\ <<App>> \in Seq(Msgs)
  /\ \A k \in Nodes : <<NewNode(k)>> \in Seq(Msgs)
  /\ <<>> \in Seq(Msgs)
BY DEF Msgs

(* The two ends are each other's peer.                                     *)
LEMMA EndFacts ==
  /\ "from" \in Ends /\ "to" \in Ends /\ Ends = {"from", "to"}
  /\ \A e \in Ends : Peer(e) \in Ends /\ Peer(e) # e
  /\ \A e, f \in Ends : f = e \/ f = Peer(e)
BY DEF Ends, Peer

(* An unused link is well typed.                                           *)
LEMMA FreeType == Free \in LinkType
BY MsgFacts DEF Free, LinkType

(* Settle keeps the type, and a link with an end that is not closed.       *)
LEMMA SettleFacts ==
  ASSUME NEW r \in LinkType
  PROVE  /\ Settle(r) \in LinkType
         /\ \A e \in Ends : r.end[e] # "closed" => Settle(r) = r
         /\ Settle(r) = r \/ Settle(r) = Free
BY FreeType DEF Settle

(* Deliver appends to an inbox and changes nothing else.                   *)
LEMMA DeliverFacts ==
  ASSUME NEW r \in LinkType, NEW e \in Ends, NEW msgs \in Seq(Msgs)
  PROVE  /\ Deliver(r, e, msgs) \in LinkType
         /\ Deliver(r, e, msgs).proc = r.proc
         /\ Deliver(r, e, msgs).end = r.end
<1>1. r.inbox[e] \o msgs \in Seq(Msgs)
  BY ConcatProperties DEF LinkType
<1>2. [r EXCEPT !.inbox[e] = @ \o msgs] \in LinkType
  BY <1>1 DEF LinkType
<1>3. QED
  BY <1>2 DEF Deliver, LinkType

(* Reading a message shortens an inbox and changes nothing else.           *)
LEMMA ConsumedFacts ==
  ASSUME TypeOK, NEW l \in Links, NEW e \in Ends, Incoming(l, e)
  PROVE  /\ Consumed(l, e) \in LinkType
         /\ Consumed(l, e).proc = link[l].proc
         /\ Consumed(l, e).end = link[l].end
         /\ Message(l, e) \in Msgs
<1>1. link[l] \in LinkType /\ link[l].inbox[e] \in Seq(Msgs) /\ link[l].inbox[e] # <<>>
  BY DEF TypeOK, LinkType, Incoming
<1>2. Tail(link[l].inbox[e]) \in Seq(Msgs) /\ Head(link[l].inbox[e]) \in Msgs
  BY <1>1, HeadTailProperties
<1>3. QED
  BY <1>1, <1>2 DEF Consumed, Message, LinkType

(* Connecting keeps the type of out.                                       *)
LEMMA ConnectType ==
  ASSUME TypeOK, NEW n \in Procs, NEW p \in Procs, Connect(n, p)
  PROVE  out' \in [Nodes -> [Procs -> {"none", "connecting", "lost", "open", "retry"}]]
<1>1. PICK s \in {"connecting", "lost"} : out' = [out EXCEPT ![n][p] = s]
  BY DEF Connect, Attempts
<1>2. out' = [m \in Nodes |-> IF m = n THEN [out[n] EXCEPT ![p] = s] ELSE out[m]]
  BY <1>1 DEF TypeOK
<1>3. ASSUME NEW m \in Nodes
      PROVE  out'[m] \in [Procs -> {"none", "connecting", "lost", "open", "retry"}]
  BY <1>2, <1>3 DEF TypeOK
<1>4. QED
  BY <1>2, <1>3

(* An end that is open or ready belongs to a link between processes.       *)
LEMMA UsedLink ==
  ASSUME LinkOK, NEW l \in Links, NEW e \in Ends, link[l].end[e] # "closed"
  PROVE  /\ link[l].proc["from"] \in Nodes /\ link[l].proc["to"] \in Procs
         /\ Local(l, e) \in Procs /\ Remote(l, e) \in Procs
<1>1. Joins(link[l])
  BY DEF LinkOK
<1>2. QED
  BY <1>1 DEF Joins, Local, Remote, Ends, Peer, Procs

-----------------------------------------------------------------------------
(* The initial state satisfies the invariant.                              *)
LEMMA InitTable == Init => TableInv
<1> SUFFICES ASSUME Init PROVE TableInv
  OBVIOUS
<1>1. TypeOK
  BY FreeType, ClusterAssumption DEF Init, TypeOK
<1>2. LinkOK /\ TableSound
  BY DEF Init, LinkOK, TableSound, Free
<1>3. QED
  BY <1>1, <1>2 DEF TableInv

(* What a step must show of the links: the sessions that stay in the table *)
(* keep their two processes and stay ready.                                *)
LEMMA TableShrinks ==
  ASSUME TableInv, nodes' \in [Procs -> [Procs -> Links \cup {NoLink}]],
         \A p, q \in Procs : nodes'[p][q] \in {NoLink, nodes[p][q]},
         \A p, q \in Procs, l \in Links, e \in Ends :
           /\ nodes'[p][q] = l /\ link[l].proc[e] = p /\ link[l].proc[Peer(e)] = q
           /\ link[l].end[e] = "ready"
           => link'[l].proc = link[l].proc /\ link'[l].end[e] = "ready"
  PROVE  TableSound'
<1> SUFFICES ASSUME NEW p \in Procs, NEW q \in Procs, nodes'[p][q] # NoLink
             PROVE  \E e \in Ends : /\ link'[nodes'[p][q]].proc[e] = p
                                   /\ link'[nodes'[p][q]].proc[Peer(e)] = q
                                   /\ link'[nodes'[p][q]].end[e] = "ready"
  BY DEF TableSound, SessionOf, Local, Remote
<1>1. nodes'[p][q] = nodes[p][q] /\ SessionOf(nodes[p][q], p, q) /\ nodes'[p][q] \in Links
  BY DEF TableInv, TableSound
<1>2. PICK e \in Ends : /\ link[nodes[p][q]].proc[e] = p
                        /\ link[nodes[p][q]].proc[Peer(e)] = q
                        /\ link[nodes[p][q]].end[e] = "ready"
  BY <1>1 DEF SessionOf, Local, Remote
<1>3. QED
  BY <1>1, <1>2

(* The same for a step that leaves the table alone.                        *)
LEMMA TableKept ==
  ASSUME TableInv, nodes' = nodes,
         \A l \in Links, e \in Ends : link[l].end[e] = "ready" =>
           link'[l].proc = link[l].proc /\ link'[l].end[e] = "ready"
  PROVE  TableSound'
<1>1. nodes' \in [Procs -> [Procs -> Links \cup {NoLink}]]
  BY DEF TableInv, TypeOK
<1>2. QED
  BY <1>1, TableShrinks

(* Replacing one link by one between the same processes, or by none.       *)
LEMMA LinkSet ==
  ASSUME TypeOK, LinkOK, NEW l \in Links, NEW r \in LinkType, link' = [link EXCEPT ![l] = r],
         (\A e \in Ends : r.end[e] = "closed") \/ Joins(r)
  PROVE  link' \in [Links -> LinkType] /\ LinkOK'
<1>1. \A k \in Links : link'[k] = IF k = l THEN r ELSE link[k]
  BY DEF TypeOK
<1>2. QED
  BY <1>1 DEF TypeOK, LinkOK

(* Queuing a reconnect keeps the types of out and reconnects.              *)
LEMMA AddReconnectType ==
  ASSUME TypeOK, NEW n \in Nodes, NEW p \in Procs, AddReconnect(n, p)
  PROVE  /\ out' \in [Nodes -> [Procs -> {"none", "connecting", "lost", "open", "retry"}]]
         /\ reconnects' \in [Nodes -> Seq(Procs)]
<1>1. Append(reconnects[n], p) \in Seq(Procs)
  BY AppendProperties DEF TypeOK
<1>2. QED
  BY <1>1 DEF TypeOK, AddReconnect

-----------------------------------------------------------------------------
(* Every step preserves the invariant.                                     *)

(* Starting a process touches no session.                                  *)
LEMMA LaunchTable == ASSUME TableInv, NEW p \in Procs, Launch(p) PROVE TableInv'
<1>1. out' \in [Nodes -> [Procs -> {"none", "connecting", "lost", "open", "retry"}]]
  BY ConnectType DEF TableInv, TypeOK, Launch, Procs
<1>2. TypeOK' /\ LinkOK'
  BY <1>1 DEF TableInv, TypeOK, LinkOK, Launch
<1>3. TableSound'
  BY TableKept DEF Launch
<1>4. QED
  BY <1>2, <1>3 DEF TableInv

(* A new connection takes a link that no table entry names.                *)
LEMMA OnOutTable ==
  ASSUME TableInv, NEW n \in Nodes, NEW p \in Procs, OnOut(n, p) PROVE TableInv'
<1> DEFINE r == [Free EXCEPT !.proc = [e \in Ends |-> IF e = "from" THEN n ELSE p],
                             !.end = [e \in Ends |-> IF e = "from" THEN "open" ELSE "idle"],
                             !.inbox["to"] = <<Report>>]
<1>1. PICK l \in Links : Unused(l) /\ link' = [link EXCEPT ![l] = r]
  BY DEF OnOut
<1>2. r \in LinkType /\ r.proc["from"] = n /\ r.proc["to"] = p
  BY MsgFacts, EndFacts DEF Free, LinkType, Procs
<1>3. link' \in [Links -> LinkType] /\ LinkOK'
  BY <1>1, <1>2, LinkSet DEF TableInv, Joins
<1>4. TypeOK'
  BY <1>3 DEF TableInv, TypeOK, OnOut
<1>5. \A e \in Ends : link[l].end[e] = "closed"
  BY <1>1, ClusterAssumption DEF TableInv, LinkOK, Joins, Unused, Procs
<1>6. \A k \in Links : k # l => link'[k] = link[k]
  BY <1>1 DEF TableInv, TypeOK
<1>7. TableSound'
  <2>1. \A k \in Links, e \in Ends : link[k].end[e] = "ready" => k # l
    BY <1>5
  <2>2. QED
    BY <1>6, <2>1, TableKept DEF OnOut
<1>8. QED
  BY <1>3, <1>4, <1>7 DEF TableInv

(* Accepting makes a session open, which no table holds yet.               *)
LEMMA OnInTable == ASSUME TableInv, NEW l \in Links, OnIn(l) PROVE TableInv'
<1> DEFINE s == [link[l] EXCEPT !.end["to"] = "open"]
           r == Deliver(s, "from", <<Report>>)
<1>1. link' = [link EXCEPT ![l] = r] /\ link[l].end["to"] = "idle"
  BY DEF OnIn, TableInv, TypeOK
<1>0. link[l] \in LinkType
  BY DEF TableInv, TypeOK
<1>2. /\ s \in LinkType /\ s.proc = link[l].proc
      /\ \A e \in Ends : link[l].end[e] = "ready" => s.end[e] = "ready"
  BY <1>0, <1>1, EndFacts DEF LinkType
<1>3. r \in LinkType /\ r.proc = s.proc /\ r.end = s.end
  BY <1>2, DeliverFacts, MsgFacts, EndFacts
<1>4. link[l].proc["from"] \in Nodes /\ link[l].proc["to"] \in Procs
  BY <1>1, UsedLink, EndFacts DEF TableInv
<1>5. link' \in [Links -> LinkType] /\ LinkOK'
  BY <1>1, <1>2, <1>3, <1>4, LinkSet DEF TableInv, Joins
<1>6. TypeOK'
  BY <1>5 DEF TableInv, TypeOK, OnIn
<1>7. \A k \in Links : link'[k] = IF k = l THEN r ELSE link[k]
  BY <1>1 DEF TableInv, TypeOK
<1>8. TableSound'
  <2>1. \A k \in Links, e \in Ends : link[k].end[e] = "ready" =>
          link'[k].proc = link[k].proc /\ link'[k].end[e] = "ready"
    <3> HIDE DEF s, r
    <3> QED BY <1>2, <1>3, <1>7
  <2>2. QED
    BY <2>1, TableKept DEF OnIn
<1>9. QED
  BY <1>5, <1>6, <1>8 DEF TableInv

(* A failed attempt changes no link and no table.                          *)
LEMMA ConnectFailedTable ==
  ASSUME TableInv, NEW n \in Nodes, NEW p \in Procs, OnConnectFailed(n, p) PROVE TableInv'
<1>1. TypeOK' /\ LinkOK'
  BY AddReconnectType DEF TableInv, TypeOK, LinkOK, OnConnectFailed
<1>2. TableSound'
  BY TableKept DEF OnConnectFailed
<1>3. QED
  BY <1>1, <1>2 DEF TableInv

(* A new attempt changes no link and no table.                             *)
LEMMA LoopTable == ASSUME TableInv, NEW n \in Nodes, Loop(n) PROVE TableInv'
<1>1. reconnects[n] \in Seq(Procs) /\ reconnects[n] # <<>>
  BY DEF TableInv, TypeOK, Loop
<1>2. Head(reconnects[n]) \in Procs /\ Tail(reconnects[n]) \in Seq(Procs)
  BY <1>1, HeadTailProperties
<1>3. out' \in [Nodes -> [Procs -> {"none", "connecting", "lost", "open", "retry"}]]
  BY <1>2, ConnectType DEF TableInv, Loop, Procs
<1>4. reconnects' \in [Nodes -> Seq(Procs)]
  BY <1>2 DEF TableInv, TypeOK, Loop
<1>5. TypeOK' /\ LinkOK'
  BY <1>3, <1>4 DEF TableInv, TypeOK, LinkOK, Loop
<1>6. TableSound'
  BY TableKept DEF Loop
<1>7. QED
  BY <1>5, <1>6 DEF TableInv

(* A step that only reads a message on a session, and may connect.         *)
LEMMA ReadTable ==
  ASSUME TableInv, NEW l \in Links, NEW e \in Ends, Incoming(l, e),
         link' = [link EXCEPT ![l] = Consumed(l, e)], nodes' = nodes
  PROVE  link' \in [Links -> LinkType] /\ LinkOK' /\ TableSound'
<1>1. /\ Consumed(l, e) \in LinkType
      /\ Consumed(l, e).proc = link[l].proc /\ Consumed(l, e).end = link[l].end
  BY ConsumedFacts DEF TableInv
<1>2. link[l].proc["from"] \in Nodes /\ link[l].proc["to"] \in Procs
  BY UsedLink DEF TableInv, Incoming
<1>3. link' \in [Links -> LinkType] /\ LinkOK'
  BY <1>1, <1>2, LinkSet DEF TableInv, Joins
<1>4. \A k \in Links : link'[k].proc = link[k].proc /\ link'[k].end = link[k].end
  BY <1>1 DEF TableInv, TypeOK
<1>5. TableSound'
  BY <1>4, TableKept
<1>6. QED
  BY <1>3, <1>5

(* A message of another module leaves sessions and tables alone.           *)
LEMMA RecvAppTable ==
  ASSUME TableInv, NEW l \in Links, NEW e \in Ends, RecvApp(l, e) PROVE TableInv'
<1>1. link' \in [Links -> LinkType] /\ LinkOK' /\ TableSound'
  BY ReadTable DEF RecvApp
<1>2. QED
  BY <1>1 DEF TableInv, TypeOK, RecvApp

(* An announcement starts an attempt at most.                              *)
LEMMA RecvNewNodeTable ==
  ASSUME TableInv, NEW l \in Links, NEW e \in Ends, RecvNewNode(l, e) PROVE TableInv'
<1>1. link' \in [Links -> LinkType] /\ LinkOK' /\ TableSound'
  BY ReadTable DEF RecvNewNode
<1>2. Local(l, e) \in Procs
  BY UsedLink DEF TableInv, RecvNewNode, Incoming
<1>3. Message(l, e).node \in Nodes
  BY ConsumedFacts DEF TableInv, RecvNewNode, Msgs, Report, App, NewNode
<1>4. out' \in [Nodes -> [Procs -> {"none", "connecting", "lost", "open", "retry"}]]
  BY <1>2, <1>3, ConnectType DEF TableInv, TypeOK, RecvNewNode, Procs
<1>5. opened' \in [Nodes -> SUBSET Nodes]
  <2>1. CASE opened' = opened
    BY <2>1 DEF TableInv, TypeOK
  <2>2. CASE opened' = [opened EXCEPT ![Local(l, e)] = @ \cup {Message(l, e).node}]
    <3>1. \A n \in Nodes : opened'[n] = opened[n] \/ opened'[n] = opened[n] \cup {Message(l, e).node}
      BY <2>2 DEF TableInv, TypeOK
    <3>2. QED
      BY <1>3, <2>2, <3>1 DEF TableInv, TypeOK
  <2>3. QED
    BY <2>1, <2>2 DEF RecvNewNode
<1>6. QED
  BY <1>1, <1>4, <1>5 DEF TableInv, TypeOK, RecvNewNode

(* The announcements of Master::OnOpen only add to inboxes.                *)
LEMMA AnnounceFacts ==
  ASSUME TypeOK, NEW q \in Nodes, NEW l \in Links, NEW r \in LinkType, Announce(q, l, r)
  PROVE  /\ link' \in [Links -> LinkType]
         /\ \A k \in Links : LET s == IF k = l THEN r ELSE link[k]
                             IN  link'[k].proc = s.proc /\ link'[k].end = s.end
<1>1. Others(q) \subseteq Nodes /\ Cardinality(Others(q)) \in Nat
  <2>1. Others(q) \subseteq Nodes
    BY DEF Others, TypeOK
  <2>2. IsFiniteSet(Others(q))
    BY <2>1, FS_Subset, ClusterAssumption
  <2>3. QED
    BY <2>1, <2>2, FS_CardinalityType
<1>2. PICK order \in Orders(Others(q)) :
        link' = [k \in Links |->
          IF k = l THEN Deliver(r, "from", [i \in DOMAIN order |-> NewNode(order[i])])
          ELSE IF \E t \in Others(q) : nodes[Master][t] = k
               THEN Deliver(link[k], "from", <<NewNode(q)>>)
               ELSE link[k]]
  BY DEF Announce
<1>3. [i \in DOMAIN order |-> NewNode(order[i])] \in Seq(Msgs)
  <2>1. order \in [1 .. Cardinality(Others(q)) -> Others(q)]
    BY <1>2 DEF Orders
  <2>2. \A i \in 1 .. Cardinality(Others(q)) : NewNode(order[i]) \in Msgs
    BY <1>1, <2>1, MsgFacts
  <2>3. QED
    BY <1>1, <2>1, <2>2
<1>4. \A k \in Links : link[k] \in LinkType
  BY DEF TypeOK
<1>5. ASSUME NEW k \in Links
      PROVE  /\ link'[k] \in LinkType
             /\ link'[k].proc = (IF k = l THEN r ELSE link[k]).proc
             /\ link'[k].end = (IF k = l THEN r ELSE link[k]).end
  <2>1. CASE k = l
    BY <1>2, <1>3, <2>1, DeliverFacts, EndFacts
  <2>2. CASE k # l
    BY <1>2, <1>4, <2>2, DeliverFacts, EndFacts, MsgFacts
  <2>3. QED
    BY <2>1, <2>2
<1>6. QED
  BY <1>2, <1>5

(* A report enters a session that becomes ready with this step.            *)
LEMMA RecvReportTable ==
  ASSUME TableInv, NEW l \in Links, NEW e \in Ends, RecvReport(l, e) PROVE TableInv'
<1> DEFINE p == Local(l, e)
           q == Remote(l, e)
           r == [Consumed(l, e) EXCEPT !.end[e] = "ready"]
<1>1. Incoming(l, e) /\ nodes' = [nodes EXCEPT ![p][q] = l]
  BY DEF RecvReport
<1>2. p \in Procs /\ q \in Procs /\ link[l].proc["from"] \in Nodes /\ link[l].proc["to"] \in Procs
  BY <1>1, UsedLink DEF TableInv, Incoming
<1>3. /\ Consumed(l, e) \in LinkType
      /\ Consumed(l, e).proc = link[l].proc /\ Consumed(l, e).end = link[l].end
  BY <1>1, ConsumedFacts DEF TableInv
<1>4. /\ r \in LinkType /\ r.proc = link[l].proc /\ r.end[e] = "ready"
      /\ \A f \in Ends : link[l].end[f] = "ready" => r.end[f] = "ready"
  BY <1>3 DEF LinkType
<1>5. /\ link' \in [Links -> LinkType]
      /\ \A k \in Links : /\ link'[k].proc = (IF k = l THEN r ELSE link[k]).proc
                          /\ link'[k].end = (IF k = l THEN r ELSE link[k]).end
  <2> HIDE DEF r
  <2>1. CASE link' = [link EXCEPT ![l] = r]
    BY <1>4, <2>1 DEF TableInv, TypeOK
  <2>2. CASE q \in Nodes /\ Announce(q, l, r)
    BY <1>4, <2>2, AnnounceFacts DEF TableInv
  <2>3. p = Master => q \in Nodes
    <3>1. CASE e = "from"
      BY <1>2, <3>1, ClusterAssumption DEF Local
    <3>2. CASE e = "to"
      BY <1>2, <3>2 DEF Remote, Peer
    <3>3. QED
      BY <3>1, <3>2, EndFacts
  <2>4. QED
    BY <2>1, <2>2, <2>3 DEF RecvReport, r
<1>6. known' \subseteq Nodes
  <2>1. p = Master => q \in Nodes
    <3>1. CASE e = "from"
      BY <1>2, <3>1, ClusterAssumption DEF Local
    <3>2. CASE e = "to"
      BY <1>2, <3>2 DEF Remote, Peer
    <3>3. QED
      BY <3>1, <3>2, EndFacts
  <2>2. QED
    BY <2>1 DEF RecvReport, TableInv, TypeOK
<1>7. nodes' \in [Procs -> [Procs -> Links \cup {NoLink}]]
  BY <1>1, <1>2 DEF TableInv, TypeOK
<1>8. TypeOK'
  BY <1>5, <1>6, <1>7 DEF TableInv, TypeOK, RecvReport
<1>9. LinkOK'
  <2>1. ASSUME NEW k \in Links PROVE (\A f \in Ends : link'[k].end[f] = "closed") \/ Joins(link'[k])
    <3> HIDE DEF r
    <3>1. CASE k = l
      BY <1>2, <1>4, <1>5, <3>1 DEF Joins
    <3>2. CASE k # l
      BY <1>5, <3>2 DEF TableInv, LinkOK, Joins
    <3>3. QED
      BY <3>1, <3>2
  <2>2. QED
    BY <2>1 DEF LinkOK
<1>10. ASSUME NEW a \in Procs, NEW b \in Procs, nodes'[a][b] # NoLink
       PROVE  \E f \in Ends : /\ link'[nodes'[a][b]].proc[f] = a
                             /\ link'[nodes'[a][b]].proc[Peer(f)] = b
                             /\ link'[nodes'[a][b]].end[f] = "ready"
  <2> HIDE DEF r
  <2>1. CASE a = p /\ b = q
    <3>1. nodes'[a][b] = l
      BY <1>1, <1>2, <2>1 DEF TableInv, TypeOK
    <3>2. QED
      BY <1>4, <1>5, <2>1, <3>1 DEF Local, Remote
  <2>2. CASE ~(a = p /\ b = q)
    <3>1. nodes'[a][b] = nodes[a][b] /\ nodes[a][b] \in Links
      BY <1>1, <1>2, <1>10, <2>2 DEF TableInv, TypeOK
    <3>2. PICK f \in Ends : /\ link[nodes[a][b]].proc[f] = a
                            /\ link[nodes[a][b]].proc[Peer(f)] = b
                            /\ link[nodes[a][b]].end[f] = "ready"
      BY <1>10, <3>1 DEF TableInv, TableSound, SessionOf, Local, Remote
    <3>3. QED
      BY <1>4, <1>5, <3>1, <3>2
  <2>3. QED
    BY <2>1, <2>2
<1>11. TableSound'
  BY <1>10 DEF TableSound, SessionOf, Local, Remote
<1>12. QED
  BY <1>8, <1>9, <1>11 DEF TableInv

(* Sending changes inboxes only.                                           *)
LEMMA SendTable == ASSUME TableInv, NEW p \in Procs, NEW q \in Procs, Send(p, q) PROVE TableInv'
<1>0. PICK l \in Links : l = nodes[p][q]
  BY DEF TableInv, TypeOK, Send
<1>1. PICK e \in Ends : link' = [link EXCEPT ![l] = Deliver(@, e, <<App>>)]
  BY <1>0, EndFacts, Zenon DEF Send
<1>2. link[l] \in LinkType
  BY DEF TableInv, TypeOK
<1>3. /\ Deliver(link[l], e, <<App>>) \in LinkType
      /\ Deliver(link[l], e, <<App>>).proc = link[l].proc
      /\ Deliver(link[l], e, <<App>>).end = link[l].end
  BY <1>2, DeliverFacts, MsgFacts
<1>4. /\ link' \in [Links -> LinkType]
      /\ \A k \in Links : link'[k].proc = link[k].proc /\ link'[k].end = link[k].end
  BY <1>1, <1>3 DEF TableInv, TypeOK
<1>5. LinkOK'
  BY <1>4 DEF TableInv, LinkOK, Joins
<1>6. spent' \in [faults : 0 .. MaxFaults, app : 0 .. MaxApp]
  <2>1. spent.app < MaxApp /\ spent' = [spent EXCEPT !.app = @ + 1]
    BY DEF Send
  <2>2. spent \in [faults : 0 .. MaxFaults, app : 0 .. MaxApp] /\ MaxFaults \in Nat /\ MaxApp \in Nat
    BY ClusterAssumption DEF TableInv, TypeOK
  <2>3. QED
    BY <2>1, <2>2
<1>7. TypeOK'
  BY <1>4, <1>6 DEF TableInv, TypeOK, Send
<1>8. TableSound'
  BY <1>4, TableKept DEF Send
<1>9. QED
  BY <1>5, <1>7, <1>8 DEF TableInv

(* A break is not noticed until OnDisconnected.                            *)
LEMMA CutTable == ASSUME TableInv, NEW l \in Links, Cut(l) PROVE TableInv'
<1>1. /\ link' \in [Links -> LinkType]
      /\ \A k \in Links : link'[k].proc = link[k].proc /\ link'[k].end = link[k].end
  <2>1. link[l] \in LinkType /\ link' = [link EXCEPT ![l] = [link[l] EXCEPT !.cut = TRUE]]
    BY DEF TableInv, TypeOK, Cut
  <2>2. /\ [link[l] EXCEPT !.cut = TRUE] \in LinkType
        /\ [link[l] EXCEPT !.cut = TRUE].proc = link[l].proc
        /\ [link[l] EXCEPT !.cut = TRUE].end = link[l].end
    BY <2>1 DEF LinkType
  <2>3. QED
    BY <2>1, <2>2 DEF TableInv, TypeOK
<1>2. LinkOK'
  BY <1>1 DEF TableInv, LinkOK, Joins
<1>3. spent' \in [faults : 0 .. MaxFaults, app : 0 .. MaxApp]
  <2>1. spent.faults < MaxFaults /\ spent' = [spent EXCEPT !.faults = @ + 1]
    BY DEF Cut
  <2>2. spent \in [faults : 0 .. MaxFaults, app : 0 .. MaxApp] /\ MaxFaults \in Nat /\ MaxApp \in Nat
    BY ClusterAssumption DEF TableInv, TypeOK
  <2>3. QED
    BY <2>1, <2>2
<1>4. TypeOK'
  BY <1>1, <1>3 DEF TableInv, TypeOK, Cut
<1>5. TableSound'
  BY <1>1, TableKept DEF Cut
<1>6. QED
  BY <1>2, <1>4, <1>5 DEF TableInv

(* A session that was ready leaves the table when it closes.               *)
LEMMA DisconnectTable ==
  ASSUME TableInv, NEW l \in Links, NEW e \in Ends, OnDisconnected(l, e) PROVE TableInv'
<1> DEFINE p == Local(l, e)
           q == Remote(l, e)
           r == [link[l] EXCEPT !.end[e] = "closed", !.inbox[e] = <<>>]
<1>1. /\ link[l].end[e] \in {"open", "ready"} /\ link' = [link EXCEPT ![l] = Settle(r)]
      /\ nodes' = IF link[l].end[e] = "ready" THEN [nodes EXCEPT ![p][q] = NoLink] ELSE nodes
  BY DEF OnDisconnected, WasReady, OnNodeClose, TableInv, TypeOK
<1>2. p \in Procs /\ q \in Procs /\ Joins(link[l])
  BY <1>1, UsedLink DEF TableInv, Joins
<1>3. /\ r \in LinkType /\ r.proc = link[l].proc
      /\ \A f \in Ends : f # e => r.end[f] = link[l].end[f]
  <2>1. link[l] \in LinkType
    BY DEF TableInv, TypeOK
  <2>2. QED
    BY <2>1, MsgFacts DEF LinkType
<1>4. link' \in [Links -> LinkType] /\ LinkOK'
  <2> HIDE DEF r
  <2>1. Settle(r) \in LinkType /\ (Settle(r) = r \/ Settle(r) = Free)
    BY <1>3, SettleFacts
  <2>2. (\A f \in Ends : Settle(r).end[f] = "closed") \/ Joins(Settle(r))
    BY <1>2, <1>3, <2>1 DEF Joins, Free
  <2>3. QED
    BY <1>1, <2>1, <2>2, LinkSet DEF TableInv
<1>5. nodes' \in [Procs -> [Procs -> Links \cup {NoLink}]]
  BY <1>1, <1>2 DEF TableInv, TypeOK
<1>6. /\ out' \in [Nodes -> [Procs -> {"none", "connecting", "lost", "open", "retry"}]]
      /\ reconnects' \in [Nodes -> Seq(Procs)]
  <2>1. CASE e = "from" /\ AddReconnect(p, q)
    <3>1. p \in Nodes
      BY <1>2, <2>1 DEF Joins, Local
    <3>2. QED
      BY <1>2, <2>1, <3>1, AddReconnectType DEF TableInv
  <2>2. CASE UNCHANGED <<out, reconnects>>
    BY <2>2 DEF TableInv, TypeOK
  <2>3. QED
    BY <2>1, <2>2 DEF OnDisconnected
<1>7. TypeOK'
  BY <1>4, <1>5, <1>6 DEF TableInv, TypeOK, OnDisconnected
<1>8. \A a, b \in Procs : nodes'[a][b] \in {NoLink, nodes[a][b]}
  BY <1>1, <1>2 DEF TableInv, TypeOK
<1>9. ASSUME NEW a \in Procs, NEW b \in Procs, NEW k \in Links, NEW f \in Ends,
             nodes'[a][b] = k, link[k].proc[f] = a, link[k].proc[Peer(f)] = b,
             link[k].end[f] = "ready"
      PROVE  link'[k].proc = link[k].proc /\ link'[k].end[f] = "ready"
  <2>1. CASE k # l
    <3> HIDE DEF r
    <3>1. link'[k] = link[k]
      BY <1>1, <2>1 DEF TableInv, TypeOK
    <3>2. QED
      BY <1>9, <3>1
  <2>2. CASE k = l
    <3>1. k # NoLink
      BY ClusterAssumption
    <3>2. f # e
      <4> SUFFICES ASSUME f = e PROVE FALSE
        OBVIOUS
      <4>1. a = p /\ b = q /\ link[l].end[e] = "ready"
        BY <1>9, <2>2 DEF Local, Remote
      <4>2. nodes'[a][b] = NoLink
        BY <1>1, <1>2, <4>1 DEF TableInv, TypeOK
      <4>3. QED
        BY <1>9, <3>1, <4>2
    <3>3. r.end[f] = "ready"
      BY <1>3, <1>9, <2>2, <3>2
    <3>4. Settle(r) = r
      <4> HIDE DEF r
      <4> QED BY <1>3, <3>3, SettleFacts
    <3>5. link'[l] = r
      BY <1>1, <3>4 DEF TableInv, TypeOK
    <3>6. QED
      <4> HIDE DEF r
      <4> QED BY <1>3, <2>2, <3>3, <3>5
  <2>3. QED
    BY <2>1, <2>2
<1>10. TableSound'
  BY <1>5, <1>8, <1>9, TableShrinks
<1>11. QED
  BY <1>4, <1>7, <1>10 DEF TableInv

(* The links that a process leaves behind.                                 *)
LEMMA BereftFacts ==
  ASSUME NEW r \in LinkType, NEW p \in Procs, (\A e \in Ends : r.end[e] = "closed") \/ Joins(r)
  PROVE  /\ Bereft(r, p) \in LinkType
         /\ (\A e \in Ends : Bereft(r, p).end[e] = "closed") \/ Joins(Bereft(r, p))
         /\ \A e \in Ends : r.proc[e] # p /\ r.end[e] = "ready" =>
              Bereft(r, p).proc = r.proc /\ Bereft(r, p).end[e] = "ready"
<1> DEFINE s == [r EXCEPT !.cut = TRUE,
                          !.end = [e \in Ends |-> IF r.proc[e] = p THEN "closed" ELSE @[e]],
                          !.inbox = [e \in Ends |-> IF r.proc[e] = p THEN <<>> ELSE @[e]]]
<1>1. Bereft(r, p) = IF \A e \in Ends : r.proc[e] # p THEN r ELSE Settle(s)
  BY DEF Bereft
<1>2. /\ s \in LinkType /\ s.proc = r.proc
      /\ \A e \in Ends : s.end[e] = IF r.proc[e] = p THEN "closed" ELSE r.end[e]
  BY MsgFacts DEF LinkType
<1> HIDE DEF s
<1>3. Settle(s) \in LinkType /\ (Settle(s) = s \/ Settle(s) = Free)
  BY <1>2, SettleFacts
<1>4. (\A e \in Ends : Settle(s).end[e] = "closed") \/ Joins(Settle(s))
  BY <1>2, <1>3 DEF Joins, Free
<1>5. ASSUME NEW e \in Ends, r.proc[e] # p, r.end[e] = "ready"
      PROVE  Settle(s).proc = r.proc /\ Settle(s).end[e] = "ready"
  BY <1>2, <1>5, SettleFacts
<1>6. QED
  BY <1>1, <1>3, <1>4, <1>5

(* The tables of others name their own ends, which stay as they are.       *)
LEMMA CrashTable == ASSUME TableInv, NEW p \in Procs, Crash(p) PROVE TableInv'
<1>1. /\ link' = [l \in Links |-> Bereft(link[l], p)]
      /\ nodes' = [nodes EXCEPT ![p] = [q \in Procs |-> NoLink]]
  BY DEF Crash
<1>2. \A l \in Links : link[l] \in LinkType /\ ((\A e \in Ends : link[l].end[e] = "closed") \/ Joins(link[l]))
  BY DEF TableInv, TypeOK, LinkOK
<1>3. link' \in [Links -> LinkType] /\ LinkOK'
  BY <1>1, <1>2, BereftFacts DEF LinkOK
<1>4. nodes' \in [Procs -> [Procs -> Links \cup {NoLink}]]
  BY <1>1 DEF TableInv, TypeOK
<1>5. spent' \in [faults : 0 .. MaxFaults, app : 0 .. MaxApp]
  <2>1. spent.faults < MaxFaults /\ spent' = [spent EXCEPT !.faults = @ + 1]
    BY DEF Crash
  <2>2. spent \in [faults : 0 .. MaxFaults, app : 0 .. MaxApp] /\ MaxFaults \in Nat /\ MaxApp \in Nat
    BY ClusterAssumption DEF TableInv, TypeOK
  <2>3. QED
    BY <2>1, <2>2
<1>6. /\ out' \in [Nodes -> [Procs -> {"none", "connecting", "lost", "open", "retry"}]]
      /\ reconnects' \in [Nodes -> Seq(Procs)]
      /\ opened' \in [Nodes -> SUBSET Nodes] /\ known' \subseteq Nodes /\ up' \subseteq Procs
  <2>1. <<>> \in Seq(Procs)
    BY EmptySeq
  <2>2. QED
    BY <2>1 DEF TableInv, TypeOK, Crash
<1>7. TypeOK'
  BY <1>3, <1>4, <1>5, <1>6 DEF TypeOK
<1>8. \A a, b \in Procs : nodes'[a][b] = IF a = p THEN NoLink ELSE nodes[a][b]
  BY <1>1 DEF TableInv, TypeOK
<1>9. \A a, b \in Procs : nodes'[a][b] \in {NoLink, nodes[a][b]}
  BY <1>8
<1>10. ASSUME NEW a \in Procs, NEW b \in Procs, NEW k \in Links, NEW f \in Ends,
              nodes'[a][b] = k, link[k].proc[f] = a, link[k].proc[Peer(f)] = b,
              link[k].end[f] = "ready"
       PROVE  link'[k].proc = link[k].proc /\ link'[k].end[f] = "ready"
  <2>1. link[k].proc[f] # p
    BY <1>8, <1>10, ClusterAssumption
  <2>2. QED
    BY <1>1, <1>2, <1>10, <2>1, BereftFacts
<1>11. TableSound'
  BY <1>4, <1>9, <1>10, TableShrinks
<1>12. QED
  BY <1>3, <1>7, <1>11 DEF TableInv

-----------------------------------------------------------------------------
(* The invariant is inductive.                                             *)
LEMMA NextTable == TableInv /\ [Next]_vars => TableInv'
<1> SUFFICES ASSUME TableInv, [Next]_vars PROVE TableInv'
  OBVIOUS
<1>1. CASE UNCHANGED vars
  BY <1>1 DEF vars, TableInv, TypeOK, LinkOK, Joins, TableSound, SessionOf, Local, Remote
<1>2. ASSUME NEW p \in Procs, Launch(p) \/ Crash(p) \/ \E q \in Procs : Send(p, q)
      PROVE  TableInv'
  BY <1>2, LaunchTable, CrashTable, SendTable
<1>3. ASSUME NEW n \in Nodes, Loop(n) \/ \E p \in Procs : OnOut(n, p) \/ OnConnectFailed(n, p)
      PROVE  TableInv'
  BY <1>3, LoopTable, OnOutTable, ConnectFailedTable
<1>4. ASSUME NEW l \in Links, OnIn(l) \/ Cut(l) PROVE TableInv'
  BY <1>4, OnInTable, CutTable
<1>5. ASSUME NEW l \in Links, NEW e \in Ends, Recv(l, e) \/ OnDisconnected(l, e) PROVE TableInv'
  BY <1>5, RecvReportTable, RecvNewNodeTable, RecvAppTable, DisconnectTable DEF Recv
<1>6. QED
  BY <1>1, <1>2, <1>3, <1>4, <1>5 DEF Next

(* The variables of the cluster keep their types.                          *)
THEOREM TypeCorrect == Spec => []TypeOK
<1>1. Spec => []TableInv
  BY InitTable, NextTable, PTL DEF Spec
<1>2. TableInv => TypeOK
  BY DEF TableInv
<1>3. QED
  BY <1>1, <1>2, PTL

(* For any cluster, and however processes crash and connections break and  *)
(* cross, an entry of Harbor's table is a connected session that the node  *)
(* it is filed under has reported on.                                      *)
THEOREM SendThroughLiveSession == Spec => []TableSound
<1>1. Spec => []TableInv
  BY InitTable, NextTable, PTL DEF Spec
<1>2. TableInv => TableSound
  BY DEF TableInv
<1>3. QED
  BY <1>1, <1>2, PTL

-----------------------------------------------------------------------------
(* Reports come first.  What is true of a single link:                     *)

Quiet(s) == \A i \in DOMAIN s : s[i] # Report

(* The other end has not reported, or its report is the first message.     *)
Greets(r, e) ==
  \/ r.inbox[e] = <<>> /\ (r.end[Peer(e)] = "idle" \/ r.cut)
  \/ /\ r.inbox[e] # <<>> /\ Head(r.inbox[e]) = Report /\ Quiet(Tail(r.inbox[e]))
     /\ r.end[Peer(e)] # "idle"

(* The invariant behind ReportFirst: an end that is ready has seen the     *)
(* report of the other and gets no second one.                             *)
Polite(r) ==
  /\ r.end["from"] # "idle"
  /\ \A e \in Ends :
       /\ r.end[e] = "ready" => Quiet(r.inbox[e]) /\ r.end[Peer(e)] # "idle"
       /\ r.end[e] \in {"idle", "open"} => Greets(r, e)

AllPolite == \A l \in Links : Polite(link[l])

(* Other messages are not reports.                                         *)
LEMMA Kinds ==
  /\ Report # App /\ \A k : NewNode(k) # Report /\ NewNode(k) # App
  /\ \A k, m : NewNode(k) = NewNode(m) => k = m
<1>1. Report.kind = "REPORT" /\ App.kind = "APP" /\ \A k : NewNode(k).kind = "NEW_NODE" /\ NewNode(k).node = k
  BY DEF Report, App, NewNode
<1>2. QED
  BY <1>1

(* What reading and sending do to a sequence of messages.                  *)
LEMMA QuietFacts ==
  /\ Quiet(<<>>) /\ Quiet(<<App>>) /\ \A k : Quiet(<<NewNode(k)>>)
  /\ \A s, t \in Seq(Msgs) : Quiet(s) /\ Quiet(t) => Quiet(s \o t)
  /\ \A s \in Seq(Msgs) : s # <<>> /\ Quiet(s) => Quiet(Tail(s))
<1>1. Quiet(<<>>) /\ Quiet(<<App>>) /\ \A k : Quiet(<<NewNode(k)>>)
  BY Kinds DEF Quiet
<1>2. ASSUME NEW s \in Seq(Msgs), NEW t \in Seq(Msgs), Quiet(s), Quiet(t) PROVE Quiet(s \o t)
  <2>1. /\ Len(s) \in Nat /\ Len(t) \in Nat /\ DOMAIN s = 1 .. Len(s) /\ DOMAIN t = 1 .. Len(t)
        /\ DOMAIN (s \o t) = 1 .. Len(s) + Len(t)
    BY ConcatProperties, LenProperties
  <2>2. \A i \in 1 .. Len(s) + Len(t) :
          \/ i \in 1 .. Len(s) /\ (s \o t)[i] = s[i]
          \/ i - Len(s) \in 1 .. Len(t) /\ (s \o t)[i] = t[i - Len(s)]
    BY <2>1, ConcatProperties
  <2>3. QED
    BY <1>2, <2>1, <2>2 DEF Quiet
<1>3. ASSUME NEW s \in Seq(Msgs), s # <<>>, Quiet(s) PROVE Quiet(Tail(s))
  <2>1. /\ Len(s) \in Nat /\ DOMAIN s = 1 .. Len(s) /\ DOMAIN Tail(s) = 1 .. Len(s) - 1
        /\ \A i \in 1 .. Len(s) - 1 : Tail(s)[i] = s[i + 1]
    BY <1>3, HeadTailProperties, LenProperties
  <2>2. QED
    BY <1>3, <2>1 DEF Quiet
<1>4. QED
  BY <1>1, <1>2, <1>3

(* More messages behind the first.                                         *)
LEMMA HeadConcat ==
  ASSUME NEW s \in Seq(Msgs), NEW t \in Seq(Msgs), s # <<>>
  PROVE  s \o t # <<>> /\ Head(s \o t) = Head(s) /\ Tail(s \o t) = Tail(s) \o t
<1>1. Len(s) \in Nat /\ Len(s) > 0 /\ Len(t) \in Nat
  BY LenProperties, EmptySeq
<1>2. s \o t \in Seq(Msgs) /\ Len(s \o t) = Len(s) + Len(t)
  BY ConcatProperties
<1>3. s \o t # <<>> /\ Head(s \o t) = Head(s)
  BY <1>1, <1>2, ConcatProperties, HeadTailProperties
<1>4. Tail(s) \in Seq(Msgs) /\ Len(Tail(s)) = Len(s) - 1
  BY HeadTailProperties
<1>5. Tail(s \o t) \in Seq(Msgs) /\ Len(Tail(s \o t)) = Len(s) + Len(t) - 1
  BY <1>1, <1>2, <1>3, HeadTailProperties
<1>6. Tail(s) \o t \in Seq(Msgs) /\ Len(Tail(s) \o t) = Len(s) + Len(t) - 1
  BY <1>1, <1>4, ConcatProperties
<1>7. \A i \in 1 .. Len(s) + Len(t) - 1 : Tail(s \o t)[i] = (Tail(s) \o t)[i]
  BY <1>1, <1>2, <1>3, <1>4, <1>5, <1>6, ConcatProperties, HeadTailProperties
<1>8. QED
  BY <1>3, <1>5, <1>6, <1>7, SeqEqual

(* An unused link.                                                         *)
LEMMA PoliteFree == Polite(Free)
BY DEF Polite, Free, Ends

(* A message that is not a report, from an end that has reported.          *)
LEMMA PoliteDeliver ==
  ASSUME NEW r \in LinkType, NEW e \in Ends, NEW msgs \in Seq(Msgs), Polite(r),
         r.end[Peer(e)] # "idle", Quiet(msgs)
  PROVE  Polite(Deliver(r, e, msgs))
<1> DEFINE d == [r EXCEPT !.inbox[e] = @ \o msgs]
<1>1. CASE r.cut
  BY <1>1 DEF Deliver
<1>2. CASE ~r.cut
  <2>1. /\ r.inbox[e] \in Seq(Msgs) /\ d.end = r.end /\ d.cut = r.cut
        /\ d.inbox[e] = r.inbox[e] \o msgs
        /\ \A f \in Ends : f # e => d.inbox[f] = r.inbox[f]
    BY DEF LinkType
  <2> HIDE DEF d
  <2>2. r.end[e] = "ready" => Quiet(d.inbox[e])
    BY <2>1, QuietFacts DEF Polite
  <2>3. r.end[e] \in {"idle", "open"} => Greets(d, e)
    <3>1. SUFFICES ASSUME r.end[e] \in {"idle", "open"} PROVE Greets(d, e)
      OBVIOUS
    <3>2. /\ r.inbox[e] # <<>> /\ Head(r.inbox[e]) = Report /\ Quiet(Tail(r.inbox[e]))
      BY <1>2, <3>1 DEF Polite, Greets
    <3>3. Tail(r.inbox[e]) \in Seq(Msgs)
      BY <2>1, <3>2, HeadTailProperties
    <3>4. /\ d.inbox[e] # <<>> /\ Head(d.inbox[e]) = Report /\ Quiet(Tail(d.inbox[e]))
      <4>1. /\ d.inbox[e] # <<>> /\ Head(d.inbox[e]) = Head(r.inbox[e])
            /\ Tail(d.inbox[e]) = Tail(r.inbox[e]) \o msgs
        BY <2>1, <3>2, HeadConcat
      <4>2. Quiet(Tail(r.inbox[e]) \o msgs)
        BY <3>2, <3>3, QuietFacts
      <4>3. QED
        BY <3>2, <4>1, <4>2
    <3>5. QED
      BY <2>1, <3>4 DEF Greets
  <2>4. \A f \in Ends : f # e => /\ d.end[f] = "ready" => Quiet(d.inbox[f]) /\ d.end[Peer(f)] # "idle"
                                 /\ d.end[f] \in {"idle", "open"} => Greets(d, f)
    BY <2>1 DEF Polite, Greets
  <2>5. Polite(d)
    BY <2>1, <2>2, <2>3, <2>4 DEF Polite
  <2>6. QED
    BY <1>2, <2>5 DEF Deliver, d
<1>3. QED
  BY <1>1, <1>2

(* An end that reads a message: the report, or one after it.               *)
LEMMA PoliteRead ==
  ASSUME TypeOK, NEW l \in Links, NEW e \in Ends, Polite(link[l]), Incoming(l, e)
  PROVE  /\ link[l].end[e] = "ready" => Polite(Consumed(l, e))
         /\ link[l].end[e] = "open" =>
              /\ Polite([Consumed(l, e) EXCEPT !.end[e] = "ready"])
              /\ link[l].end[Peer(e)] # "idle"
<1> DEFINE r == link[l]
           d == Consumed(l, e)
           g == [d EXCEPT !.end[e] = "ready"]
<1>1. r \in LinkType /\ r.inbox[e] \in Seq(Msgs) /\ r.inbox[e] # <<>> /\ r.end[e] \in {"open", "ready"}
  BY DEF TypeOK, LinkType, Incoming
<1>2. /\ d.end = r.end /\ d.cut = r.cut /\ d.inbox[e] = Tail(r.inbox[e])
      /\ \A f \in Ends : f # e => d.inbox[f] = r.inbox[f]
      /\ d \in LinkType
  BY <1>1, ConsumedFacts DEF Consumed, LinkType
<1>3. /\ g.cut = r.cut /\ g.inbox = d.inbox /\ g.end[e] = "ready"
      /\ \A f \in Ends : f # e => g.end[f] = r.end[f]
  BY <1>2 DEF LinkType
<1> HIDE DEF r, d, g
<1>4. Polite(r)
  BY DEF r
<1>5. CASE r.end[e] = "ready"
  <2>1. Quiet(d.inbox[e])
    BY <1>1, <1>2, <1>4, <1>5, QuietFacts DEF Polite
  <2>2. Polite(d)
    BY <1>2, <1>4, <1>5, <2>1 DEF Polite, Greets
  <2>3. QED
    BY <1>5, <2>2 DEF r, d
<1>6. CASE r.end[e] = "open"
  <2>1. Quiet(d.inbox[e]) /\ r.end[Peer(e)] # "idle"
    BY <1>1, <1>2, <1>4, <1>6 DEF Polite, Greets
  <2>2. Polite(g)
    <3>1. ASSUME NEW f \in Ends, f # e
          PROVE  /\ g.end[f] = "ready" => Quiet(g.inbox[f]) /\ g.end[Peer(f)] # "idle"
                 /\ g.end[f] \in {"idle", "open"} => Greets(g, f)
      <4>1. Peer(f) = e
        BY <3>1, EndFacts DEF Peer
      <4>2. r.end[f] # "idle"
        BY <2>1, <3>1, EndFacts
      <4>3. QED
        BY <1>2, <1>3, <1>4, <1>6, <3>1, <4>1, <4>2 DEF Polite, Greets
    <3>2. Peer(e) \in Ends /\ Peer(e) # e
      BY EndFacts
    <3>3. QED
      BY <1>2, <1>3, <1>4, <2>1, <3>1, <3>2, EndFacts DEF Polite
  <2>3. QED
    BY <1>6, <2>1, <2>2 DEF r, d, g
<1>7. QED
  BY <1>1, <1>5, <1>6 DEF r

(* An accepted connection: the report is the first message.                *)
LEMMA PoliteAccept ==
  ASSUME NEW r \in LinkType, Polite(r), r.end["to"] = "idle"
  PROVE  Polite(Deliver([r EXCEPT !.end["to"] = "open"], "from", <<Report>>))
<1> DEFINE s == [r EXCEPT !.end["to"] = "open"]
           d == [s EXCEPT !.inbox["from"] = @ \o <<Report>>]
<1>1. /\ s \in LinkType /\ s.inbox = r.inbox /\ s.cut = r.cut
      /\ s.end["to"] = "open" /\ s.end["from"] = r.end["from"]
  BY EndFacts DEF LinkType
<1>2. /\ d.end = s.end /\ d.cut = s.cut /\ d.inbox["to"] = s.inbox["to"]
      /\ d.inbox["from"] = s.inbox["from"] \o <<Report>>
  BY <1>1, EndFacts DEF LinkType
<1>3. r.end["from"] \in {"open", "closed"}
  BY EndFacts DEF LinkType, Polite, Peer
<1>4. Deliver(s, "from", <<Report>>) = IF r.cut THEN s ELSE d
  BY <1>1 DEF Deliver
<1> HIDE DEF s, d
<1>5. Greets(s, "to") /\ Greets(d, "to")
  BY <1>1, <1>2, EndFacts DEF Polite, Greets, Peer
<1>6. CASE r.cut
  <2>1. s.end["from"] = "open" => Greets(s, "from")
    <3>1. SUFFICES ASSUME r.end["from"] = "open" PROVE Greets(s, "from")
      BY <1>1
    <3>2. r.inbox["from"] = <<>>
      BY <3>1, EndFacts DEF Polite, Greets, Peer
    <3>3. QED
      BY <1>1, <1>6, <3>2 DEF Greets
  <2>2. Polite(s)
    BY <1>1, <1>3, <1>5, <2>1 DEF Polite, Ends
  <2>3. QED
    BY <1>4, <1>6, <2>2 DEF s
<1>7. CASE ~r.cut
  <2>1. d.end["from"] = "open" => Greets(d, "from")
    <3>1. SUFFICES ASSUME r.end["from"] = "open" PROVE Greets(d, "from")
      BY <1>1, <1>2
    <3>2. r.inbox["from"] = <<>>
      BY <3>1, EndFacts DEF Polite, Greets, Peer
    <3>3. d.inbox["from"] = <<Report>>
      BY <1>1, <1>2, <3>2
    <3>4. d.inbox["from"] # <<>> /\ Head(d.inbox["from"]) = Report /\ Tail(d.inbox["from"]) = <<>>
      BY <3>3
    <3>5. QED
      BY <1>1, <1>2, <3>4, QuietFacts DEF Greets, Peer
  <2>2. Polite(d)
    BY <1>1, <1>2, <1>3, <1>5, <2>1 DEF Polite, Ends
  <2>3. QED
    BY <1>4, <1>7, <2>2 DEF s
<1>8. QED
  BY <1>6, <1>7

(* Closing ends of a link that is cut.                                     *)
LEMMA PoliteClose ==
  ASSUME NEW r \in LinkType, Polite(r), NEW d \in LinkType, d.cut,
         \A e \in Ends : \/ d.end[e] = "closed"
                         \/ d.end[e] = r.end[e] /\ d.inbox[e] = r.inbox[e]
  PROVE  Polite(d) /\ Polite(Settle(d))
<1>1. \A e \in Ends : /\ d.end[e] = "ready" => Quiet(d.inbox[e]) /\ d.end[Peer(e)] # "idle"
                      /\ d.end[e] \in {"idle", "open"} => Greets(d, e)
  BY EndFacts DEF Polite, Greets
<1>2. Polite(d)
  BY <1>1, EndFacts DEF Polite
<1>3. QED
  BY <1>2, PoliteFree DEF Settle
-----------------------------------------------------------------------------
(* Reports come first.  The steps:                                         *)

(* Steps that replace one link.                                            *)
LEMMA PoliteSet ==
  ASSUME TypeOK, AllPolite, NEW l \in Links, NEW r, Polite(r), link' = [link EXCEPT ![l] = r]
  PROVE  AllPolite'
<1>1. \A k \in Links : link'[k] = IF k = l THEN r ELSE link[k]
  BY DEF TypeOK
<1>2. QED
  BY <1>1 DEF AllPolite

(* A new connection carries the report of the side that connected.         *)
LEMMA OnOutPolite ==
  ASSUME TypeOK, AllPolite, NEW n \in Nodes, NEW p \in Procs, OnOut(n, p) PROVE AllPolite'
<1> DEFINE r == [Free EXCEPT !.proc = [e \in Ends |-> IF e = "from" THEN n ELSE p],
                             !.end = [e \in Ends |-> IF e = "from" THEN "open" ELSE "idle"],
                             !.inbox["to"] = <<Report>>]
<1>1. PICK l \in Links : link' = [link EXCEPT ![l] = r]
  BY DEF OnOut
<1>2. /\ r.end["from"] = "open" /\ r.end["to"] = "idle" /\ r.inbox["from"] = <<>>
      /\ r.inbox["to"] = <<Report>>
  BY DEF Free, Ends
<1> HIDE DEF r
<1>3. r.inbox["to"] # <<>> /\ Head(r.inbox["to"]) = Report /\ Tail(r.inbox["to"]) = <<>>
  BY <1>2
<1>4. Polite(r)
  BY <1>2, <1>3, QuietFacts DEF Polite, Greets, Ends, Peer
<1>5. QED
  BY <1>1, <1>4, PoliteSet

(* The side that accepts reports before anything else.                     *)
LEMMA OnInPolite == ASSUME TypeOK, AllPolite, NEW l \in Links, OnIn(l) PROVE AllPolite'
<1>1. link[l] \in LinkType /\ Polite(link[l])
  BY DEF TypeOK, AllPolite
<1>2. /\ link[l].end["to"] = "idle"
      /\ link' = [link EXCEPT ![l] = Deliver([link[l] EXCEPT !.end["to"] = "open"], "from", <<Report>>)]
  BY DEF OnIn
<1>3. QED
  BY <1>1, <1>2, PoliteAccept, PoliteSet

(* A session of the table sends to an end whose peer has reported: if it   *)
(* is the side that connected, it has; if not, it is the ready side.       *)
LEMMA SendPolite ==
  ASSUME TableInv, AllPolite, NEW p \in Procs, NEW q \in Procs, Send(p, q) PROVE AllPolite'
<1>0. PICK l \in Links : l = nodes[p][q]
  BY DEF TableInv, TypeOK, Send
<1>1. PICK f \in Ends : Local(l, f) = p /\ Remote(l, f) = q /\ link[l].end[f] = "ready"
  BY <1>0 DEF TableInv, TableSound, SessionOf, Send
<1>2. PICK e \in Ends : /\ e = IF link[l].proc["from"] = p THEN "to" ELSE "from"
                        /\ link' = [link EXCEPT ![l] = Deliver(@, e, <<App>>)]
  BY <1>0, EndFacts, Zenon DEF Send
<1>3. link[l] \in LinkType /\ Polite(link[l])
  BY DEF TableInv, TypeOK, AllPolite
<1>4. link[l].end[Peer(e)] # "idle"
  <2>1. CASE e = "to"
    BY <1>3, <2>1 DEF Polite, Peer
  <2>2. CASE e = "from"
    <3>1. f = "to"
      BY <1>1, <1>2, <2>2, EndFacts DEF Local
    <3>2. QED
      BY <1>1, <2>2, <3>1 DEF Peer
  <2>3. QED
    BY <2>1, <2>2, EndFacts
<1>5. Polite(Deliver(link[l], e, <<App>>))
  BY <1>3, <1>4, PoliteDeliver, MsgFacts, QuietFacts
<1>6. QED
  BY <1>2, <1>5, PoliteSet DEF TableInv

(* What the master announces is a sequence of NEW_NODE messages, to the    *)
(* new node and to those of the table.                                     *)
LEMMA AnnounceLinks ==
  ASSUME TypeOK, NEW q \in Nodes, NEW l \in Links, NEW r \in LinkType, Announce(q, l, r)
  PROVE  \E msgs \in Seq(Msgs) :
           /\ Quiet(msgs)
           /\ \A t \in Others(q) : \E i \in DOMAIN msgs : msgs[i] = NewNode(t)
           /\ \A b, i : i \in DOMAIN msgs /\ msgs[i] = NewNode(b) => b \in Others(q)
           /\ link'[l] = Deliver(r, "from", msgs)
           /\ \A k \in Links \ {l} :
                link'[k] = IF \E t \in Others(q) : nodes[Master][t] = k
                           THEN Deliver(link[k], "from", <<NewNode(q)>>) ELSE link[k]
<1>1. Others(q) \subseteq Nodes /\ IsFiniteSet(Others(q)) /\ Cardinality(Others(q)) \in Nat
  <2>1. Others(q) \subseteq Nodes
    BY DEF Others, TypeOK
  <2>2. IsFiniteSet(Others(q))
    BY <2>1, FS_Subset, ClusterAssumption
  <2>3. QED
    BY <2>1, <2>2, FS_CardinalityType
<1>2. PICK order \in Orders(Others(q)) :
        link' = [k \in Links |->
          IF k = l THEN Deliver(r, "from", [i \in DOMAIN order |-> NewNode(order[i])])
          ELSE IF \E t \in Others(q) : nodes[Master][t] = k
               THEN Deliver(link[k], "from", <<NewNode(q)>>)
               ELSE link[k]]
  BY DEF Announce
<1> DEFINE N == Cardinality(Others(q))
           msgs == [i \in DOMAIN order |-> NewNode(order[i])]
<1>3. order \in [1 .. N -> Others(q)] /\ \A i, j \in 1 .. N : order[i] = order[j] => i = j
  BY <1>2 DEF Orders
<1>4. msgs \in Seq(Msgs) /\ Quiet(msgs)
  <2>1. \A i \in 1 .. N : NewNode(order[i]) \in Msgs
    BY <1>1, <1>3, MsgFacts
  <2>2. QED
    BY <1>1, <1>3, <2>1, Kinds DEF Quiet
<1>5. ASSUME NEW t \in Others(q) PROVE \E i \in DOMAIN msgs : msgs[i] = NewNode(t)
  <2>1. order \in Injection(1 .. N, Others(q))
    BY <1>3 DEF Injection, IsInjective
  <2>2. order \in Surjection(1 .. N, Others(q))
    <3>1. IsFiniteSet(1 .. N) /\ Cardinality(1 .. N) = N
      BY <1>1, FS_Interval
    <3>2. QED
      BY <1>1, <2>1, <3>1, FS_Surjection, FS_Injection
  <2>3. PICK i \in 1 .. N : order[i] = t
    BY <2>2 DEF Surjection
  <2>4. QED
    BY <1>3, <2>3
<1>6. \A b, i : i \in DOMAIN msgs /\ msgs[i] = NewNode(b) => b \in Others(q)
  BY <1>3, Kinds
<1>7. QED
  BY <1>2, <1>4, <1>5, <1>6

(* The report of the other side is read, or another message.               *)
LEMMA RecvPolite ==
  ASSUME TableInv, AllPolite, NEW l \in Links, NEW e \in Ends, Recv(l, e) PROVE AllPolite'
<1>1. TypeOK /\ LinkOK /\ Polite(link[l])
  BY DEF TableInv, AllPolite
<1>2. CASE RecvNewNode(l, e) \/ RecvApp(l, e)
  <2>1. Incoming(l, e) /\ link[l].end[e] = "ready" /\ link' = [link EXCEPT ![l] = Consumed(l, e)]
    BY <1>2 DEF RecvNewNode, RecvApp
  <2>2. QED
    BY <1>1, <2>1, PoliteRead, PoliteSet
<1>3. CASE RecvReport(l, e)
  <2> DEFINE r == [Consumed(l, e) EXCEPT !.end[e] = "ready"]
             q == Remote(l, e)
  <2>1. Incoming(l, e) /\ link[l].end[e] = "open"
    BY <1>3 DEF RecvReport
  <2>2. Polite(r) /\ link[l].end[Peer(e)] # "idle"
    BY <1>1, <2>1, PoliteRead
  <2>3. CASE link' = [link EXCEPT ![l] = r]
    BY <1>1, <2>2, <2>3, PoliteSet
  <2>4. CASE Local(l, e) = Master /\ Announce(q, l, r)
    <3>1. e = "to" /\ q \in Nodes
      <4>1. link[l].proc["from"] \in Nodes
        BY <1>1, <2>1, UsedLink
      <4>2. QED
        BY <2>4, <4>1, EndFacts, ClusterAssumption DEF Local, Remote, Peer
    <3>2. r \in LinkType /\ r.end[e] = "ready"
      <4>1. Consumed(l, e) \in LinkType
        BY <1>1, <2>1, ConsumedFacts
      <4>2. QED
        BY <4>1 DEF LinkType
    <3> HIDE DEF r
    <3>3. PICK msgs \in Seq(Msgs) :
            /\ Quiet(msgs) /\ link'[l] = Deliver(r, "from", msgs)
            /\ \A k \in Links \ {l} :
                 link'[k] = IF \E t \in Others(q) : nodes[Master][t] = k
                            THEN Deliver(link[k], "from", <<NewNode(q)>>) ELSE link[k]
      BY <1>1, <2>4, <3>1, <3>2, AnnounceLinks
    <3>4. Polite(link'[l])
      <4>1. r.end[Peer("from")] # "idle" /\ "from" \in Ends
        BY <3>1, <3>2 DEF Peer, Ends
      <4>2. QED
        BY <2>2, <3>2, <3>3, <4>1, PoliteDeliver
    <3>5. ASSUME NEW k \in Links, k # l PROVE Polite(link'[k])
      <4>1. Polite(link[k]) /\ link[k] \in LinkType
        BY <1>1 DEF AllPolite, TypeOK
      <4>2. CASE \E t \in Others(q) : nodes[Master][t] = k
        <5>1. PICK t \in Others(q) : nodes[Master][t] = k
          BY <4>2
        <5>2. t \in Procs /\ Master \in Procs /\ k # NoLink
          BY <1>1, ClusterAssumption DEF Others, TypeOK, Procs
        <5>3. PICK f \in Ends : Local(k, f) = Master /\ link[k].end[f] = "ready"
          BY <5>1, <5>2 DEF TableInv, TableSound, SessionOf
        <5>4. link[k].proc["from"] \in Nodes
          BY <1>1, <5>3, UsedLink
        <5>5. f = "to"
          BY <5>3, <5>4, EndFacts, ClusterAssumption DEF Local
        <5>6. link[k].end[Peer("from")] # "idle" /\ "from" \in Ends
          BY <5>3, <5>5 DEF Peer, Ends
        <5>7. <<NewNode(q)>> \in Seq(Msgs) /\ Quiet(<<NewNode(q)>>)
          BY <3>1, MsgFacts, QuietFacts
        <5>8. link'[k] = Deliver(link[k], "from", <<NewNode(q)>>)
          BY <3>3, <3>5, <4>2
        <5>9. QED
          BY <4>1, <5>6, <5>7, <5>8, PoliteDeliver
      <4>3. CASE ~ \E t \in Others(q) : nodes[Master][t] = k
        BY <3>3, <3>5, <4>1, <4>3
      <4>4. QED
        BY <4>2, <4>3
    <3>6. QED
      BY <3>4, <3>5 DEF AllPolite
  <2>5. QED
    BY <1>3, <2>3, <2>4 DEF RecvReport
<1>4. QED
  BY <1>2, <1>3 DEF Recv

(* A break loses messages only by and by.                                  *)
LEMMA CutPolite == ASSUME TypeOK, AllPolite, NEW l \in Links, Cut(l) PROVE AllPolite'
<1> DEFINE d == [link[l] EXCEPT !.cut = TRUE]
<1>1. link[l] \in LinkType /\ Polite(link[l]) /\ link' = [link EXCEPT ![l] = d]
  BY DEF TypeOK, AllPolite, Cut
<1>2. /\ d \in LinkType /\ d.cut /\ d.end = link[l].end /\ d.inbox = link[l].inbox
  BY <1>1 DEF LinkType
<1> HIDE DEF d
<1>3. Polite(d)
  BY <1>1, <1>2, PoliteClose
<1>4. QED
  BY <1>1, <1>3, PoliteSet

(* One side learns of the break.                                           *)
LEMMA DisconnectPolite ==
  ASSUME TypeOK, AllPolite, NEW l \in Links, NEW e \in Ends, OnDisconnected(l, e) PROVE AllPolite'
<1> DEFINE d == [link[l] EXCEPT !.end[e] = "closed", !.inbox[e] = <<>>]
<1>1. /\ link[l] \in LinkType /\ Polite(link[l]) /\ link[l].cut
      /\ link' = [link EXCEPT ![l] = Settle(d)]
  BY DEF TypeOK, AllPolite, OnDisconnected
<1>2. /\ d \in LinkType /\ d.cut = link[l].cut /\ d.end[e] = "closed"
      /\ \A f \in Ends : f # e => d.end[f] = link[l].end[f] /\ d.inbox[f] = link[l].inbox[f]
  BY <1>1, MsgFacts DEF LinkType
<1> HIDE DEF d
<1>3. Polite(Settle(d))
  BY <1>1, <1>2, PoliteClose
<1>4. QED
  BY <1>1, <1>3, PoliteSet

(* A process ends.                                                         *)
LEMMA CrashPolite == ASSUME TypeOK, AllPolite, NEW p \in Procs, Crash(p) PROVE AllPolite'
<1> SUFFICES ASSUME NEW l \in Links PROVE Polite(link'[l])
  BY DEF AllPolite
<1> DEFINE r == link[l]
           d == [r EXCEPT !.cut = TRUE,
                          !.end = [e \in Ends |-> IF r.proc[e] = p THEN "closed" ELSE @[e]],
                          !.inbox = [e \in Ends |-> IF r.proc[e] = p THEN <<>> ELSE @[e]]]
<1>1. link'[l] = Bereft(r, p) /\ r \in LinkType /\ Polite(r)
  BY DEF TypeOK, AllPolite, Crash
<1>2. Bereft(r, p) = r \/ Bereft(r, p) = Settle(d)
  BY DEF Bereft
<1>3. /\ d \in LinkType /\ d.cut
      /\ \A e \in Ends : \/ d.end[e] = "closed"
                         \/ d.end[e] = r.end[e] /\ d.inbox[e] = r.inbox[e]
  BY <1>1, MsgFacts DEF LinkType
<1> HIDE DEF r, d
<1>4. Polite(Settle(d))
  BY <1>1, <1>3, PoliteClose
<1>5. QED
  BY <1>1, <1>2, <1>4

(* The invariant is inductive.                                             *)
LEMMA NextPolite == TableInv /\ AllPolite /\ [Next]_vars => AllPolite'
<1> SUFFICES ASSUME TableInv, AllPolite, [Next]_vars PROVE AllPolite'
  OBVIOUS
<1>0. TypeOK
  BY DEF TableInv
<1>1. CASE UNCHANGED link
  BY <1>1 DEF AllPolite
<1>2. ASSUME NEW p \in Procs, Launch(p) \/ Crash(p) \/ \E q \in Procs : Send(p, q)
      PROVE  AllPolite'
  BY <1>0, <1>1, <1>2, CrashPolite, SendPolite DEF Launch
<1>3. ASSUME NEW n \in Nodes, Loop(n) \/ \E p \in Procs : OnOut(n, p) \/ OnConnectFailed(n, p)
      PROVE  AllPolite'
  BY <1>0, <1>1, <1>3, OnOutPolite DEF Loop, OnConnectFailed
<1>4. ASSUME NEW l \in Links, OnIn(l) \/ Cut(l) PROVE AllPolite'
  BY <1>0, <1>4, OnInPolite, CutPolite
<1>5. ASSUME NEW l \in Links, NEW e \in Ends, Recv(l, e) \/ OnDisconnected(l, e) PROVE AllPolite'
  BY <1>0, <1>5, RecvPolite, DisconnectPolite
<1>6. QED
  BY <1>1, <1>2, <1>3, <1>4, <1>5 DEF Next, vars

(* The two assertions "wtf" of NodeSession::OnRecv hold for any cluster:   *)
(* the first message a session gets is the report of the other side, and   *)
(* it gets no other report, however connections break and are made again.  *)
THEOREM ReportsComeFirst == Spec => []ReportFirst
<1>1. Init => AllPolite
  BY PoliteFree DEF Init, AllPolite
<1>2. Spec => []TableInv
  BY InitTable, NextTable, PTL DEF Spec
<1>3. Spec => []AllPolite
  BY <1>1, <1>2, NextPolite, PTL DEF Spec
<1>4. TableInv /\ AllPolite => ReportFirst
  <2> SUFFICES ASSUME TableInv, AllPolite, NEW l \in Links, NEW e \in Ends, Incoming(l, e)
               PROVE  ~Unexpected(l, e)
    BY DEF ReportFirst
  <2>1. /\ Polite(link[l]) /\ link[l].end[e] \in {"open", "ready"}
        /\ link[l].inbox[e] \in Seq(Msgs) /\ link[l].inbox[e] # <<>>
    BY DEF AllPolite, Incoming, TableInv, TypeOK, LinkType
  <2>2. CASE link[l].end[e] = "open"
    BY <2>1, <2>2 DEF Polite, Greets, Unexpected, Message
  <2>3. CASE link[l].end[e] = "ready"
    <3>1. Head(link[l].inbox[e]) = link[l].inbox[e][1] /\ 1 \in DOMAIN link[l].inbox[e]
      BY <2>1, HeadTailProperties, LenProperties, EmptySeq
    <3>2. QED
      BY <2>1, <2>3, <3>1 DEF Polite, Quiet, Unexpected, Message
  <2>4. QED
    BY <2>1, <2>2, <2>3
<1>5. QED
  BY <1>2, <1>3, <1>4, PTL

-----------------------------------------------------------------------------
(* A session that connects is in one place.                                *)

(* Entries of a list of reconnects.                                        *)
Has(s, p) == \E i \in 1 .. Len(s) : s[i] = p
Once(s, p) == \A i, j \in 1 .. Len(s) : s[i] = p /\ s[j] = p => i = j

(* The session of n to p is on this link.                                  *)
IsLive(r, n, p) == r.proc["from"] = n /\ r.proc["to"] = p /\ r.end["from"] # "closed"

LivePart(n, p) ==
  /\ \A k, l \in Links : IsLive(link[k], n, p) /\ IsLive(link[l], n, p) => k = l
  /\ (\E l \in Links : IsLive(link[l], n, p)) <=> out[n][p] = "open"

QueuePart(n, p) ==
  Once(reconnects[n], p) /\ (Has(reconnects[n], p) <=> out[n][p] = "retry")

InPlace == \A n \in Nodes, p \in Procs : LivePart(n, p) /\ QueuePart(n, p)

(* A process whose end of a link is not closed runs.                       *)
Alive == \A l \in Links, e \in Ends : link[l].end[e] # "closed" => link[l].proc[e] \in up

(* A node has sessions only while it runs, and to others only after the    *)
(* master has named them.                                                  *)
Sober ==
  \A n \in Nodes :
    /\ n \notin up => reconnects[n] = <<>> /\ opened[n] = {} /\ \A p \in Procs : out[n][p] = "none"
    /\ \A k \in Nodes : out[n][k] # "none" => k \in opened[n]

(* The inductive invariant behind SessionInOnePlace.                       *)
Placed == InPlace /\ Alive /\ Sober

(* Queueing a reconnect.                                                   *)
LEMMA QueueAppend ==
  ASSUME NEW s \in Seq(Procs), NEW p \in Procs
  PROVE  /\ Has(Append(s, p), p) /\ (~Has(s, p) => Once(Append(s, p), p))
         /\ \A q : q # p => /\ Has(Append(s, p), q) <=> Has(s, q)
                            /\ Once(s, q) => Once(Append(s, p), q)
<1>1. /\ Len(s) \in Nat /\ Len(Append(s, p)) = Len(s) + 1
      /\ \A i \in 1 .. Len(s) + 1 : Append(s, p)[i] = IF i = Len(s) + 1 THEN p ELSE s[i]
  BY LenProperties, AppendProperties
<1>2. QED
  BY <1>1 DEF Has, Once

(* Taking the first entry.                                                 *)
LEMMA QueueTail ==
  ASSUME NEW s \in Seq(Procs), s # <<>>
  PROVE  /\ Has(s, Head(s)) /\ (Once(s, Head(s)) => ~Has(Tail(s), Head(s)))
         /\ \A q : Once(s, q) => Once(Tail(s), q)
         /\ \A q : q # Head(s) => (Has(Tail(s), q) <=> Has(s, q))
<1>1. /\ Len(s) \in Nat /\ Len(s) > 0 /\ Len(Tail(s)) = Len(s) - 1 /\ Head(s) = s[1]
      /\ \A i \in 1 .. Len(s) - 1 : Tail(s)[i] = s[i + 1]
  BY LenProperties, HeadTailProperties, EmptySeq
<1>2. Has(s, Head(s))
  BY <1>1 DEF Has
<1>3. ASSUME Once(s, Head(s)), Has(Tail(s), Head(s)) PROVE FALSE
  <2>1. PICK i \in 1 .. Len(s) - 1 : Tail(s)[i] = s[1]
    BY <1>1, <1>3 DEF Has
  <2>2. i + 1 \in 1 .. Len(s) /\ 1 \in 1 .. Len(s) /\ s[i + 1] = s[1] /\ i + 1 # 1
    BY <1>1, <2>1
  <2>3. QED
    BY <1>1, <1>3, <2>2 DEF Once
<1>4. ASSUME NEW q, Once(s, q) PROVE Once(Tail(s), q)
  <2>1. SUFFICES ASSUME NEW i \in 1 .. Len(s) - 1, NEW j \in 1 .. Len(s) - 1,
                        Tail(s)[i] = q, Tail(s)[j] = q
                 PROVE  i = j
    BY <1>1 DEF Once
  <2>2. i + 1 \in 1 .. Len(s) /\ j + 1 \in 1 .. Len(s) /\ s[i + 1] = q /\ s[j + 1] = q
    BY <1>1, <2>1
  <2>3. i + 1 = j + 1
    BY <1>4, <2>2 DEF Once
  <2>4. QED
    BY <2>3
<1>5. ASSUME NEW q, q # Head(s) PROVE Has(Tail(s), q) <=> Has(s, q)
  <2>1. ASSUME Has(Tail(s), q) PROVE Has(s, q)
    <3>1. PICK i \in 1 .. Len(s) - 1 : Tail(s)[i] = q
      BY <1>1, <2>1 DEF Has
    <3>2. i + 1 \in 1 .. Len(s) /\ s[i + 1] = q
      BY <1>1, <3>1
    <3>3. QED
      BY <3>2 DEF Has
  <2>2. ASSUME Has(s, q) PROVE Has(Tail(s), q)
    <3>1. PICK i \in 1 .. Len(s) : s[i] = q
      BY <2>2 DEF Has
    <3>2. i # 1
      BY <1>1, <1>5, <3>1
    <3>3. i - 1 \in 1 .. Len(s) - 1 /\ Tail(s)[i - 1] = q
      BY <1>1, <3>1, <3>2
    <3>4. QED
      BY <1>1, <3>3 DEF Has
  <2>3. QED
    BY <2>1, <2>2
<1>6. QED
  BY <1>2, <1>3, <1>4, <1>5

(* A step that leaves the sessions of connecting nodes where they are.     *)
LEMMA LiveKept ==
  ASSUME NEW n \in Nodes, NEW p \in Procs, LivePart(n, p), out'[n][p] = out[n][p],
         \A l \in Links : IsLive(link[l], n, p) <=> IsLive(link'[l], n, p)
  PROVE  LivePart(n, p)'
BY DEF LivePart

(* A step that opens or closes no end.                                     *)
Steady ==
  \A l \in Links : /\ link'[l].proc = link[l].proc
                   /\ \A e \in Ends : link'[l].end[e] = "closed" <=> link[l].end[e] = "closed"

LEMMA SteadyPlaced ==
  ASSUME Placed, Steady, UNCHANGED <<up, out, reconnects, opened>> PROVE Placed'
<1>1. \A n \in Nodes, p \in Procs, l \in Links :
        IsLive(link[l], n, p) <=> IsLive(link'[l], n, p)
  BY EndFacts DEF Steady, IsLive
<1>2. InPlace'
  BY <1>1, LiveKept DEF Placed, InPlace, QueuePart
<1>3. Alive'
  BY DEF Placed, Alive, Steady
<1>4. Sober'
  BY DEF Placed, Sober
<1>5. QED
  BY <1>2, <1>3, <1>4 DEF Placed

(* Steps on one link that keep its processes and its open ends.            *)
LEMMA SteadySet ==
  ASSUME TypeOK, NEW l \in Links, NEW r, link' = [link EXCEPT ![l] = r], r.proc = link[l].proc,
         \A e \in Ends : r.end[e] = "closed" <=> link[l].end[e] = "closed"
  PROVE  Steady
<1>1. \A k \in Links : link'[k] = IF k = l THEN r ELSE link[k]
  BY DEF TypeOK
<1>2. QED
  BY <1>1 DEF Steady

(* Messages do not open or close ends.                                     *)
LEMMA MessageSteady ==
  ASSUME TableInv, NEW l \in Links, NEW e \in Ends, OnIn(l) \/ Cut(l) \/ Recv(l, e)
  PROVE  Steady
<1>0. TypeOK /\ link[l] \in LinkType
  BY DEF TableInv, TypeOK
<1>1. CASE OnIn(l)
  <2> DEFINE s == [link[l] EXCEPT !.end["to"] = "open"]
  <2>1. link' = [link EXCEPT ![l] = Deliver(s, "from", <<Report>>)] /\ link[l].end["to"] = "idle"
    BY <1>1 DEF OnIn
  <2>2. /\ s \in LinkType /\ s.proc = link[l].proc
        /\ \A f \in Ends : s.end[f] = "closed" <=> link[l].end[f] = "closed"
    BY <1>0, <2>1, EndFacts DEF LinkType
  <2> HIDE DEF s
  <2>3. Deliver(s, "from", <<Report>>).proc = s.proc /\ Deliver(s, "from", <<Report>>).end = s.end
    BY <2>2, DeliverFacts, MsgFacts, EndFacts, ZenonT(40)
  <2>4. PICK r : r = Deliver(s, "from", <<Report>>)
    OBVIOUS
  <2>5. /\ link' = [link EXCEPT ![l] = r] /\ r.proc = link[l].proc
        /\ \A f \in Ends : r.end[f] = "closed" <=> link[l].end[f] = "closed"
    BY <2>1, <2>2, <2>3, <2>4
  <2>6. QED
    BY <1>0, <2>5, SteadySet
<1>2. CASE Cut(l)
  <2>1. PICK r : r = [link[l] EXCEPT !.cut = TRUE]
    OBVIOUS
  <2>2. r.proc = link[l].proc /\ \A f \in Ends : r.end[f] = "closed" <=> link[l].end[f] = "closed"
    BY <1>0, <2>1 DEF LinkType
  <2>3. link' = [link EXCEPT ![l] = r]
    BY <1>2, <2>1 DEF Cut
  <2>4. QED
    BY <1>0, <2>2, <2>3, SteadySet
<1>3. CASE RecvNewNode(l, e) \/ RecvApp(l, e)
  <2>1. PICK r : r = Consumed(l, e)
    OBVIOUS
  <2>2. Incoming(l, e) /\ link' = [link EXCEPT ![l] = r]
    BY <1>3, <2>1 DEF RecvNewNode, RecvApp
  <2>3. r.proc = link[l].proc /\ \A f \in Ends : r.end[f] = "closed" <=> link[l].end[f] = "closed"
    BY <1>0, <2>1, <2>2, ConsumedFacts
  <2>4. QED
    BY <1>0, <2>2, <2>3, SteadySet
<1>4. CASE RecvReport(l, e)
  <2> DEFINE r == [Consumed(l, e) EXCEPT !.end[e] = "ready"]
             q == Remote(l, e)
  <2>1. Incoming(l, e) /\ link[l].end[e] = "open"
    BY <1>4 DEF RecvReport
  <2>2. /\ r \in LinkType /\ r.proc = link[l].proc
        /\ \A f \in Ends : r.end[f] = "closed" <=> link[l].end[f] = "closed"
    <3>1. /\ Consumed(l, e) \in LinkType
          /\ Consumed(l, e).proc = link[l].proc /\ Consumed(l, e).end = link[l].end
      BY <1>0, <2>1, ConsumedFacts
    <3>2. QED
      BY <2>1, <3>1 DEF LinkType
  <2> HIDE DEF r
  <2>3. CASE link' = [link EXCEPT ![l] = r]
    BY <1>0, <2>2, <2>3, SteadySet
  <2>4. CASE Local(l, e) = Master /\ Announce(q, l, r)
    <3>1. q \in Nodes
      <4>1. link[l].proc["from"] \in Nodes
        BY <2>1, UsedLink DEF TableInv
      <4>2. QED
        BY <2>4, <4>1, EndFacts, ClusterAssumption DEF Local, Remote, Peer
    <3>2. \A k \in Links : /\ link'[k].proc = (IF k = l THEN r ELSE link[k]).proc
                           /\ link'[k].end = (IF k = l THEN r ELSE link[k]).end
      BY <1>0, <2>2, <2>4, <3>1, AnnounceFacts
    <3>3. QED
      BY <2>2, <3>2 DEF Steady
  <2>5. QED
    BY <1>4, <2>3, <2>4 DEF RecvReport, r
<1>5. QED
  BY <1>1, <1>2, <1>3, <1>4 DEF Recv

(* Nor does sending.                                                       *)
LEMMA SendSteady ==
  ASSUME TableInv, NEW p \in Procs, NEW q \in Procs, Send(p, q) PROVE Steady
<1>0. PICK l \in Links : l = nodes[p][q]
  BY DEF TableInv, TypeOK, Send
<1>1. PICK e \in Ends : link' = [link EXCEPT ![l] = Deliver(link[l], e, <<App>>)]
  BY <1>0, EndFacts, Zenon DEF Send
<1>2. TypeOK /\ link[l] \in LinkType
  BY DEF TableInv, TypeOK
<1>3. PICK r : r = Deliver(link[l], e, <<App>>)
  OBVIOUS
<1>4. /\ r.proc = link[l].proc /\ link' = [link EXCEPT ![l] = r]
      /\ \A f \in Ends : r.end[f] = "closed" <=> link[l].end[f] = "closed"
  BY <1>1, <1>2, <1>3, DeliverFacts, MsgFacts
<1>5. QED
  BY <1>2, <1>4, SteadySet

(* Where the sessions of one node to one process go when out changes there *)
(* and the list of reconnects does not.                                    *)
LEMMA OutSet ==
  ASSUME TypeOK, NEW n \in Nodes, NEW p \in Procs, NEW s, out' = [out EXCEPT ![n][p] = s]
  PROVE  /\ out'[n][p] = s
         /\ \A m \in Nodes, q \in Procs : ~(m = n /\ q = p) => out'[m][q] = out[m][q]
BY DEF TypeOK

(* A process that starts makes its first attempt.                          *)
LEMMA LaunchPlaced == ASSUME TableInv, Placed, NEW p \in Procs, Launch(p) PROVE Placed'
<1>1. /\ p \notin up /\ up' = up \cup {p} /\ UNCHANGED <<reconnects, opened, link>> /\ TypeOK
  BY DEF Launch, TableInv
<1>2. CASE out' = out
  BY <1>1, <1>2 DEF Placed, InPlace, LivePart, QueuePart, Alive, Sober
<1>3. CASE p \in Nodes /\ Connect(p, Master)
  <2>1. PICK s \in {"connecting", "lost"} : out' = [out EXCEPT ![p][Master] = s]
    BY <1>3 DEF Connect, Attempts
  <2>2. Master \in Procs /\ Master \notin Nodes
    BY ClusterAssumption DEF Procs
  <2>3. /\ out'[p][Master] = s
        /\ \A m \in Nodes, q \in Procs : ~(m = p /\ q = Master) => out'[m][q] = out[m][q]
    BY <1>1, <1>3, <2>1, <2>2 DEF TypeOK
  <2>4. out[p][Master] = "none"
    BY <1>1, <1>3, <2>2 DEF Placed, Sober
  <2>5. ASSUME NEW m \in Nodes, NEW q \in Procs PROVE LivePart(m, q)' /\ QueuePart(m, q)'
    <3>1. (out'[m][q] = "open" <=> out[m][q] = "open") /\ (out'[m][q] = "retry" <=> out[m][q] = "retry")
      BY <2>3, <2>4
    <3>2. LivePart(m, q) /\ QueuePart(m, q)
      BY DEF Placed, InPlace
    <3>3. QED
      BY <1>1, <3>1, <3>2 DEF LivePart, QueuePart
  <2>6. Alive'
    BY <1>1 DEF Placed, Alive
  <2>7. Sober'
    <3>1. ASSUME NEW m \in Nodes
          PROVE  /\ m \notin up' => /\ reconnects'[m] = <<>> /\ opened'[m] = {}
                                    /\ \A q \in Procs : out'[m][q] = "none"
                 /\ \A k \in Nodes : out'[m][k] # "none" => k \in opened'[m]
      BY <1>1, <2>2, <2>3 DEF Placed, Sober, Procs
    <3>2. QED
      BY <3>1 DEF Sober
  <2>8. QED
    BY <2>5, <2>6, <2>7 DEF Placed, InPlace
<1>4. QED
  BY <1>2, <1>3 DEF Launch

(* A link that is not in use has both ends closed.                         *)
LEMMA UnusedClosed ==
  ASSUME LinkOK, NEW l \in Links, Unused(l) PROVE \A e \in Ends : link[l].end[e] = "closed"
BY ClusterAssumption DEF LinkOK, Joins, Unused, Procs

(* An attempt succeeds.                                                    *)
LEMMA OnOutPlaced ==
  ASSUME TableInv, Placed, NEW n \in Nodes, NEW p \in Procs, OnOut(n, p) PROVE Placed'
<1> DEFINE r == [Free EXCEPT !.proc = [e \in Ends |-> IF e = "from" THEN n ELSE p],
                             !.end = [e \in Ends |-> IF e = "from" THEN "open" ELSE "idle"],
                             !.inbox["to"] = <<Report>>]
<1>1. PICK l \in Links : Unused(l) /\ link' = [link EXCEPT ![l] = r]
  BY DEF OnOut
<1>2. r.proc["from"] = n /\ r.proc["to"] = p /\ r.end["from"] = "open"
  BY DEF Free, Ends
<1> HIDE DEF r
<1>3. /\ n \in up /\ p \in up /\ out[n][p] = "connecting" /\ TypeOK
      /\ out' = [out EXCEPT ![n][p] = "open"] /\ UNCHANGED <<up, reconnects, opened>>
  BY DEF OnOut, TableInv
<1>4. /\ out'[n][p] = "open"
      /\ \A m \in Nodes, q \in Procs : ~(m = n /\ q = p) => out'[m][q] = out[m][q]
  BY <1>3, OutSet
<1>5. link'[l] = r /\ \A k \in Links : k # l => link'[k] = link[k]
  BY <1>1, <1>3 DEF TypeOK
<1>6. \A e \in Ends : link[l].end[e] = "closed"
  BY <1>1, UnusedClosed DEF TableInv
<1>7. \A m \in Nodes, q \in Procs : /\ ~IsLive(link[l], m, q)
                                    /\ IsLive(link'[l], m, q) <=> m = n /\ q = p
  BY <1>2, <1>5, <1>6, EndFacts DEF IsLive
<1>8. ASSUME NEW m \in Nodes, NEW q \in Procs PROVE LivePart(m, q)' /\ QueuePart(m, q)'
  <2>1. LivePart(m, q) /\ QueuePart(m, q)
    BY DEF Placed, InPlace
  <2>2. CASE m = n /\ q = p
    <3>1. \A k \in Links : ~IsLive(link[k], m, q)
      BY <1>3, <2>1, <2>2 DEF LivePart
    <3>2. \A k \in Links : IsLive(link'[k], m, q) <=> k = l
      BY <1>5, <1>7, <2>2, <3>1
    <3>3. LivePart(m, q)'
      BY <1>4, <2>2, <3>2 DEF LivePart
    <3>4. QED
      BY <1>3, <1>4, <2>1, <2>2, <3>3 DEF QueuePart
  <2>3. CASE ~(m = n /\ q = p)
    <3>1. out'[m][q] = out[m][q]
      BY <1>4, <2>3
    <3>2. \A k \in Links : IsLive(link[k], m, q) <=> IsLive(link'[k], m, q)
      BY <1>5, <1>7, <2>3
    <3>3. QED
      BY <1>3, <2>1, <3>1, <3>2, LiveKept DEF QueuePart
  <2>4. QED
    BY <2>2, <2>3
<1>9. Alive'
  <2>1. \A e \in Ends : r.proc[e] \in up
    BY <1>2, <1>3, EndFacts
  <2>2. QED
    BY <1>3, <1>5, <2>1 DEF Placed, Alive
<1>10. Sober'
  BY <1>3, <1>4 DEF Placed, Sober, Procs
<1>11. QED
  BY <1>8, <1>9, <1>10 DEF Placed, InPlace

(* A session that had an attempt or a connection, and lost it, is queued.  *)
LEMMA ReconnectQueued ==
  ASSUME TypeOK, Placed, NEW n \in Nodes, NEW p \in Procs, AddReconnect(n, p),
         out[n][p] \in {"connecting", "open"}
  PROVE  /\ out'[n][p] = "retry"
         /\ \A m \in Nodes, q \in Procs : QueuePart(m, q)'
         /\ \A m \in Nodes, q \in Procs : ~(m = n /\ q = p) => out'[m][q] = out[m][q]
         /\ \A m \in Nodes : m # n => reconnects'[m] = reconnects[m]
<1>1. /\ out' = [out EXCEPT ![n][p] = "retry"]
      /\ reconnects' = [reconnects EXCEPT ![n] = Append(reconnects[n], p)]
      /\ reconnects[n] \in Seq(Procs)
  BY DEF AddReconnect, TypeOK
<1>2. /\ out'[n][p] = "retry"
      /\ \A m \in Nodes, q \in Procs : ~(m = n /\ q = p) => out'[m][q] = out[m][q]
  BY <1>1, OutSet
<1>3. /\ reconnects'[n] = Append(reconnects[n], p)
      /\ \A m \in Nodes : m # n => reconnects'[m] = reconnects[m]
  BY <1>1 DEF TypeOK
<1>4. ASSUME NEW m \in Nodes, NEW q \in Procs PROVE QueuePart(m, q)'
  <2>1. QueuePart(m, q)
    BY DEF Placed, InPlace
  <2>2. CASE m = n /\ q = p
    <3>1. ~Has(reconnects[n], p)
      BY <2>1, <2>2 DEF QueuePart
    <3>2. Has(reconnects'[n], p) /\ Once(reconnects'[n], p)
      BY <1>1, <1>3, <3>1, QueueAppend
    <3>3. QED
      BY <1>2, <2>2, <3>2 DEF QueuePart
  <2>3. CASE m = n /\ q # p
    <3>1. (Has(reconnects'[n], q) <=> Has(reconnects[n], q)) /\ Once(reconnects'[n], q)
      BY <1>1, <1>3, <2>1, <2>3, QueueAppend DEF QueuePart
    <3>2. QED
      BY <1>2, <2>1, <2>3, <3>1 DEF QueuePart
  <2>4. CASE m # n
    BY <1>2, <1>3, <2>1, <2>4 DEF QueuePart
  <2>5. QED
    BY <2>2, <2>3, <2>4
<1>5. QED
  BY <1>2, <1>3, <1>4

(* An attempt fails.                                                       *)
LEMMA ConnectFailedPlaced ==
  ASSUME TableInv, Placed, NEW n \in Nodes, NEW p \in Procs, OnConnectFailed(n, p) PROVE Placed'
<1>1. /\ n \in up /\ out[n][p] = "connecting" /\ AddReconnect(n, p) /\ TypeOK
      /\ UNCHANGED <<up, opened, link>>
  BY DEF OnConnectFailed, TableInv
<1>2. /\ out'[n][p] = "retry"
      /\ \A m \in Nodes, q \in Procs : QueuePart(m, q)'
      /\ \A m \in Nodes, q \in Procs : ~(m = n /\ q = p) => out'[m][q] = out[m][q]
      /\ \A m \in Nodes : m # n => reconnects'[m] = reconnects[m]
  BY <1>1, ReconnectQueued
<1>3. ASSUME NEW m \in Nodes, NEW q \in Procs PROVE LivePart(m, q)'
  <2>1. out'[m][q] = "open" <=> out[m][q] = "open"
    BY <1>1, <1>2
  <2>2. LivePart(m, q)
    BY DEF Placed, InPlace
  <2>3. QED
    BY <1>1, <2>1, <2>2 DEF LivePart
<1>4. Alive'
  BY <1>1 DEF Placed, Alive
<1>5. Sober'
  BY <1>1, <1>2 DEF Placed, Sober, Procs
<1>6. QED
  BY <1>2, <1>3, <1>4, <1>5 DEF Placed, InPlace

(* The first entry of the list becomes an attempt.                         *)
LEMMA LoopPlaced == ASSUME TableInv, Placed, NEW n \in Nodes, Loop(n) PROVE Placed'
<1> DEFINE p == Head(reconnects[n])
<1>1. /\ n \in up /\ reconnects[n] # <<>> /\ reconnects[n] \in Seq(Procs) /\ TypeOK
      /\ reconnects' = [reconnects EXCEPT ![n] = Tail(reconnects[n])]
      /\ Connect(n, p) /\ UNCHANGED <<up, opened, link>>
  BY DEF Loop, TableInv, TypeOK
<1>2. p \in Procs
  BY <1>1, HeadTailProperties
<1>3. PICK s \in {"connecting", "lost"} : out' = [out EXCEPT ![n][p] = s]
  BY <1>1 DEF Connect, Attempts
<1>4. /\ Has(reconnects[n], p) /\ (Once(reconnects[n], p) => ~Has(Tail(reconnects[n]), p))
      /\ \A q : Once(reconnects[n], q) => Once(Tail(reconnects[n]), q)
      /\ \A q : q # p => (Has(Tail(reconnects[n]), q) <=> Has(reconnects[n], q))
  BY <1>1, QueueTail
<1> HIDE DEF p
<1>5. /\ out'[n][p] = s
      /\ \A m \in Nodes, q \in Procs : ~(m = n /\ q = p) => out'[m][q] = out[m][q]
  BY <1>1, <1>2, <1>3 DEF TypeOK
<1>6. /\ reconnects'[n] = Tail(reconnects[n])
      /\ \A m \in Nodes : m # n => reconnects'[m] = reconnects[m]
  BY <1>1 DEF TypeOK
<1>7. out[n][p] = "retry"
  BY <1>2, <1>4 DEF Placed, InPlace, QueuePart
<1>8. ASSUME NEW m \in Nodes, NEW q \in Procs PROVE LivePart(m, q)' /\ QueuePart(m, q)'
  <2>1. LivePart(m, q) /\ QueuePart(m, q)
    BY DEF Placed, InPlace
  <2>2. out'[m][q] = "open" <=> out[m][q] = "open"
    BY <1>5, <1>7
  <2>3. LivePart(m, q)'
    BY <1>1, <2>1, <2>2 DEF LivePart
  <2>4. CASE m = n /\ q = p
    BY <1>4, <1>5, <1>6, <2>1, <2>3, <2>4 DEF QueuePart
  <2>5. CASE m = n /\ q # p
    BY <1>4, <1>5, <1>6, <2>1, <2>3, <2>5 DEF QueuePart
  <2>6. CASE m # n
    BY <1>5, <1>6, <2>1, <2>3, <2>6 DEF QueuePart
  <2>7. QED
    BY <2>4, <2>5, <2>6
<1>9. Alive'
  BY <1>1 DEF Placed, Alive
<1>10. Sober'
  BY <1>1, <1>5, <1>6, <1>7 DEF Placed, Sober, Procs
<1>11. QED
  BY <1>8, <1>9, <1>10 DEF Placed, InPlace

(* The master names a node for the first time.                             *)
LEMMA RecvNewNodePlaced ==
  ASSUME TableInv, Placed, NEW l \in Links, NEW e \in Ends, RecvNewNode(l, e) PROVE Placed'
<1> DEFINE n == Local(l, e)
           k == Message(l, e).node
<1>1. Steady
  BY MessageSteady DEF Recv
<1>2. /\ TypeOK /\ Incoming(l, e) /\ link[l].end[e] = "ready" /\ UNCHANGED <<up, reconnects>>
  BY DEF RecvNewNode, TableInv
<1>3. k \in Nodes /\ k \in Procs /\ n \in Procs
  <2>1. Message(l, e) \in Msgs /\ Message(l, e).kind = "NEW_NODE"
    BY <1>2, ConsumedFacts DEF RecvNewNode
  <2>2. k \in Nodes
    BY <2>1 DEF Msgs, Report, App, NewNode
  <2>3. n \in Procs
    BY <1>2, UsedLink DEF TableInv
  <2>4. QED
    BY <2>2, <2>3 DEF Procs
<1>4. n \in up
  BY <1>2 DEF Placed, Alive, Local
<1>5. CASE UNCHANGED <<opened, out>>
  BY <1>1, <1>2, <1>5, SteadyPlaced
<1>6. CASE /\ ~Ignored(n, k) /\ opened' = [opened EXCEPT ![n] = @ \cup {k}] /\ Connect(n, k)
  <2> HIDE DEF n, k
  <2>1. CASE n \notin Nodes
    <3>1. opened' = opened /\ out' = out
      BY <1>2, <1>6, <2>1 DEF Connect, TypeOK
    <3>2. QED
      BY <1>1, <1>2, <3>1, SteadyPlaced
  <2>2. CASE n \in Nodes
    <3>1. PICK s \in {"connecting", "lost"} : out' = [out EXCEPT ![n][k] = s]
      BY <1>6 DEF Connect, Attempts
    <3>2. /\ out'[n][k] = s
          /\ \A m \in Nodes, q \in Procs : ~(m = n /\ q = k) => out'[m][q] = out[m][q]
      BY <1>2, <1>3, <2>2, <3>1 DEF TypeOK
    <3>3. out[n][k] = "none"
      BY <1>3, <1>6, <2>2 DEF Placed, Sober, Ignored
    <3>4. ASSUME NEW m \in Nodes, NEW q \in Procs PROVE LivePart(m, q)' /\ QueuePart(m, q)'
      <4>1. /\ out'[m][q] = "open" <=> out[m][q] = "open"
            /\ out'[m][q] = "retry" <=> out[m][q] = "retry"
        BY <3>2, <3>3
      <4>2. LivePart(m, q) /\ QueuePart(m, q)
        BY DEF Placed, InPlace
      <4>3. \A j \in Links : IsLive(link[j], m, q) <=> IsLive(link'[j], m, q)
        BY <1>1, EndFacts DEF Steady, IsLive
      <4>4. QED
        BY <1>2, <4>1, <4>2, <4>3 DEF LivePart, QueuePart
    <3>5. Alive'
      BY <1>1, <1>2 DEF Placed, Alive, Steady
    <3>6. Sober'
      <4>1. \A m \in Nodes : opened'[m] = IF m = n THEN opened[m] \cup {k} ELSE opened[m]
        BY <1>2, <1>6 DEF TypeOK
      <4>2. ASSUME NEW m \in Nodes, m \notin up'
            PROVE  /\ reconnects'[m] = <<>> /\ opened'[m] = {}
                   /\ \A q \in Procs : out'[m][q] = "none"
        <5>1. m # n /\ m \notin up
          BY <1>2, <1>4, <4>2
        <5>2. /\ reconnects[m] = <<>> /\ opened[m] = {}
              /\ \A q \in Procs : out[m][q] = "none"
          BY <5>1 DEF Placed, Sober
        <5>3. reconnects' = reconnects
          BY <1>2
        <5>4. opened'[m] = opened[m]
          BY <4>1, <5>1
        <5>5. \A q \in Procs : out'[m][q] = out[m][q]
          BY <3>2, <5>1
        <5>6. QED
          BY <5>2, <5>3, <5>4, <5>5
      <4>3. ASSUME NEW m \in Nodes, NEW j \in Nodes, out'[m][j] # "none" PROVE j \in opened'[m]
        <5>1. j \in Procs
          BY DEF Procs
        <5>2. CASE m = n /\ j = k
          BY <4>1, <5>2
        <5>3. CASE ~(m = n /\ j = k)
          <6>1. out[m][j] # "none"
            BY <3>2, <4>3, <5>1, <5>3
          <6>2. QED
            BY <4>1, <6>1 DEF Placed, Sober
        <5>4. QED
          BY <5>2, <5>3
      <4>4. QED
        BY <4>2, <4>3 DEF Sober
    <3>7. QED
      BY <3>4, <3>5, <3>6 DEF Placed, InPlace
  <2>3. QED
    BY <2>1, <2>2
<1>7. QED
  BY <1>5, <1>6 DEF RecvNewNode

(* The session that connected is queued, the accepted one is deleted.      *)
LEMMA DisconnectPlaced ==
  ASSUME TableInv, Placed, NEW l \in Links, NEW e \in Ends, OnDisconnected(l, e) PROVE Placed'
<1> DEFINE d == [link[l] EXCEPT !.end[e] = "closed", !.inbox[e] = <<>>]
           n == link[l].proc["from"]
           p == link[l].proc["to"]
<1>1. /\ TypeOK /\ link[l] \in LinkType /\ link[l].end[e] # "closed"
      /\ link' = [link EXCEPT ![l] = Settle(d)] /\ UNCHANGED <<up, opened>>
  BY DEF TableInv, TypeOK, OnDisconnected
<1>2. /\ d \in LinkType /\ d.proc = link[l].proc /\ d.end[e] = "closed"
      /\ \A f \in Ends : f # e => d.end[f] = link[l].end[f]
  BY <1>1, MsgFacts DEF LinkType
<1>3. n \in Nodes /\ p \in Procs
  BY <1>1, UsedLink DEF TableInv
<1>4. link'[l] = Settle(d) /\ \A k \in Links : k # l => link'[k] = link[k]
  BY <1>1 DEF TypeOK
<1> HIDE DEF d
<1>5. \A f \in Ends : \/ link'[l].end[f] = "closed"
                      \/ f # e /\ link'[l].proc = link[l].proc /\ link'[l].end[f] = link[l].end[f]
  BY <1>2, <1>4 DEF Settle, Free
<1>6. \A f \in Ends : f # e /\ link[l].end[f] # "closed" =>
        link'[l].proc = link[l].proc /\ link'[l].end[f] = link[l].end[f]
  BY <1>2, <1>4 DEF Settle
<1>7. Alive'
  BY <1>1, <1>4, <1>5 DEF Placed, Alive
<1>8. CASE e = "to"
  <2>1. UNCHANGED <<out, reconnects>>
    BY <1>8 DEF OnDisconnected
  <2>2. \A m \in Nodes, q \in Procs, k \in Links :
          IsLive(link[k], m, q) <=> IsLive(link'[k], m, q)
    BY <1>4, <1>5, <1>6, <1>8, EndFacts DEF IsLive
  <2>3. InPlace'
    BY <2>1, <2>2, LiveKept DEF Placed, InPlace, QueuePart
  <2>4. Sober'
    BY <1>1, <2>1 DEF Placed, Sober
  <2>5. QED
    BY <1>7, <2>3, <2>4 DEF Placed
<1>9. CASE e = "from"
  <2>1. AddReconnect(n, p)
    BY <1>9 DEF OnDisconnected, Local, Remote, Peer
  <2>2. IsLive(link[l], n, p)
    BY <1>1, <1>9 DEF IsLive
  <2>3. out[n][p] = "open" /\ \A k \in Links : IsLive(link[k], n, p) => k = l
    BY <1>3, <2>2 DEF Placed, InPlace, LivePart
  <2> HIDE DEF n, p
  <2>4. /\ out'[n][p] = "retry"
        /\ \A m \in Nodes, q \in Procs : QueuePart(m, q)'
        /\ \A m \in Nodes, q \in Procs : ~(m = n /\ q = p) => out'[m][q] = out[m][q]
        /\ \A m \in Nodes : m # n => reconnects'[m] = reconnects[m]
    BY <1>1, <1>3, <2>1, <2>3, ReconnectQueued
  <2>5. \A m, q : ~IsLive(link'[l], m, q)
    BY <1>5, <1>9, EndFacts DEF IsLive
  <2>6. ASSUME NEW m \in Nodes, NEW q \in Procs PROVE LivePart(m, q)'
    <3>1. LivePart(m, q)
      BY DEF Placed, InPlace
    <3>2. CASE m = n /\ q = p
      <4>1. \A k \in Links : ~IsLive(link'[k], m, q)
        BY <1>4, <2>3, <2>5, <3>2
      <4>2. QED
        BY <2>4, <3>2, <4>1 DEF LivePart
    <3>3. CASE ~(m = n /\ q = p)
      <4>1. ~IsLive(link[l], m, q)
        BY <2>2, <3>3 DEF IsLive
      <4>2. \A k \in Links : IsLive(link[k], m, q) <=> IsLive(link'[k], m, q)
        BY <1>4, <2>5, <4>1
      <4>3. QED
        BY <2>4, <3>1, <3>3, <4>2, LiveKept
    <3>4. QED
      BY <3>2, <3>3
  <2>7. Sober'
    <3>1. n \in up
      BY <1>1, <1>9, EndFacts DEF Placed, Alive, n
    <3>2. QED
      BY <1>1, <2>3, <2>4, <3>1 DEF Placed, Sober, Procs
  <2>8. QED
    BY <1>7, <2>4, <2>6, <2>7 DEF Placed, InPlace
<1>10. QED
  BY <1>8, <1>9, EndFacts

(* The ends of a link after a process has ended.                           *)
LEMMA BereftEnds ==
  ASSUME NEW r \in LinkType, NEW p, NEW e \in Ends
  PROVE  /\ r.proc[e] = p => Bereft(r, p).end[e] = "closed"
         /\ \/ Bereft(r, p).end[e] = "closed"
            \/ Bereft(r, p).proc = r.proc /\ Bereft(r, p).end[e] = r.end[e]
         /\ r.proc[e] # p /\ r.end[e] # "closed" =>
              /\ Bereft(r, p).proc = r.proc /\ Bereft(r, p).end[e] = r.end[e]
              /\ Bereft(r, p) # r => Bereft(r, p).cut
<1> DEFINE s == [r EXCEPT !.cut = TRUE,
                          !.end = [f \in Ends |-> IF r.proc[f] = p THEN "closed" ELSE @[f]],
                          !.inbox = [f \in Ends |-> IF r.proc[f] = p THEN <<>> ELSE @[f]]]
<1>1. Bereft(r, p) = IF \A f \in Ends : r.proc[f] # p THEN r ELSE Settle(s)
  BY DEF Bereft
<1>2. /\ s.proc = r.proc /\ s.cut
      /\ \A f \in Ends : s.end[f] = IF r.proc[f] = p THEN "closed" ELSE r.end[f]
  BY DEF LinkType
<1> HIDE DEF s
<1>3. Settle(s).end[e] = s.end[e] /\ (Settle(s) = s \/ s.end[e] = "closed")
  BY DEF Settle, Free
<1>4. QED
  BY <1>1, <1>2, <1>3

(* A process ends.                                                         *)
LEMMA CrashPlaced == ASSUME TableInv, Placed, NEW p \in Procs, Crash(p) PROVE Placed'
<1>1. /\ up' = up \ {p} /\ \A l \in Links : link'[l] = Bereft(link[l], p)
      /\ \A l \in Links : link[l] \in LinkType
  BY DEF Crash, TableInv, TypeOK
<1>2. /\ \A n \in Nodes : n # p => /\ out'[n] = out[n] /\ reconnects'[n] = reconnects[n]
                                   /\ opened'[n] = opened[n]
      /\ p \in Nodes => /\ reconnects'[p] = <<>> /\ opened'[p] = {}
                        /\ \A q \in Procs : out'[p][q] = "none"
  BY DEF Crash, TableInv, TypeOK
<1>3. \A l \in Links, e \in Ends :
        /\ link[l].proc[e] = p => link'[l].end[e] = "closed"
        /\ \/ link'[l].end[e] = "closed"
           \/ link'[l].proc = link[l].proc /\ link'[l].end[e] = link[l].end[e]
        /\ link[l].proc[e] # p /\ link[l].end[e] # "closed" =>
             link'[l].proc = link[l].proc /\ link'[l].end[e] = link[l].end[e]
  BY <1>1, BereftEnds
<1>4. Alive'
  BY <1>1, <1>3 DEF Placed, Alive
<1>5. Sober'
  BY <1>1, <1>2 DEF Placed, Sober, Procs
<1>6. ASSUME NEW m \in Nodes, NEW q \in Procs PROVE LivePart(m, q)' /\ QueuePart(m, q)'
  <2>1. LivePart(m, q) /\ QueuePart(m, q)
    BY DEF Placed, InPlace
  <2>2. CASE m = p
    <3>1. \A l \in Links : ~IsLive(link'[l], m, q)
      BY <1>3, <2>2, EndFacts DEF IsLive
    <3>2. LivePart(m, q)'
      BY <1>2, <2>2, <3>1 DEF LivePart
    <3>3. QueuePart(m, q)'
      <4>1. reconnects'[m] = <<>> /\ out'[m][q] = "none"
        BY <1>2, <2>2
      <4>2. QED
        BY <4>1 DEF QueuePart, Has, Once
    <3>4. QED
      BY <3>2, <3>3
  <2>3. CASE m # p
    <3>1. \A l \in Links : IsLive(link[l], m, q) <=> IsLive(link'[l], m, q)
      BY <1>3, <2>3, EndFacts DEF IsLive
    <3>2. QED
      BY <1>2, <2>1, <2>3, <3>1, LiveKept DEF QueuePart
  <2>4. QED
    BY <2>2, <2>3
<1>7. QED
  BY <1>4, <1>5, <1>6 DEF Placed, InPlace

(* The invariant holds initially.                                          *)
LEMMA InitPlaced == Init => Placed
<1> SUFFICES ASSUME Init PROVE Placed
  OBVIOUS
<1>1. \A l \in Links, e \in Ends : link[l].end[e] = "closed"
  BY DEF Init, Free
<1>2. InPlace
  <2>1. \A n \in Nodes, p \in Procs : reconnects[n] = <<>> /\ out[n][p] = "none"
    BY DEF Init
  <2>2. \A p : ~Has(<<>>, p) /\ Once(<<>>, p)
    BY DEF Has, Once
  <2>3. QED
    BY <1>1, <2>1, <2>2, EndFacts DEF InPlace, LivePart, QueuePart, IsLive
<1>3. Alive /\ Sober
  BY <1>1 DEF Init, Alive, Sober, Procs
<1>4. QED
  BY <1>2, <1>3 DEF Placed

(* The invariant is inductive.                                             *)
LEMMA NextPlaced == TableInv /\ Placed /\ [Next]_vars => Placed'
<1> SUFFICES ASSUME TableInv, Placed, [Next]_vars PROVE Placed'
  OBVIOUS
<1>1. CASE UNCHANGED vars
  BY <1>1, SteadyPlaced DEF vars, Steady
<1>2. ASSUME NEW p \in Procs, Launch(p) \/ Crash(p) PROVE Placed'
  BY <1>2, LaunchPlaced, CrashPlaced
<1>3. ASSUME NEW p \in Procs, NEW q \in Procs, Send(p, q) PROVE Placed'
  <2>1. Steady /\ UNCHANGED <<up, out, reconnects, opened>>
    BY <1>3, SendSteady DEF Send
  <2>2. QED
    BY <2>1, SteadyPlaced
<1>4. ASSUME NEW n \in Nodes, Loop(n) \/ \E p \in Procs : OnOut(n, p) \/ OnConnectFailed(n, p)
      PROVE  Placed'
  BY <1>4, LoopPlaced, OnOutPlaced, ConnectFailedPlaced
<1>5. ASSUME NEW l \in Links, NEW e \in Ends,
             OnIn(l) \/ Cut(l) \/ RecvReport(l, e) \/ RecvApp(l, e)
      PROVE  Placed'
  <2>1. Steady /\ UNCHANGED <<up, out, reconnects, opened>>
    BY <1>5, MessageSteady DEF OnIn, Cut, Recv, RecvReport, RecvApp
  <2>2. QED
    BY <2>1, SteadyPlaced
<1>6. ASSUME NEW l \in Links, NEW e \in Ends, RecvNewNode(l, e) \/ OnDisconnected(l, e)
      PROVE  Placed'
  BY <1>6, RecvNewNodePlaced, DisconnectPlaced
<1>7. QED
  BY <1>1, <1>2, <1>3, <1>4, <1>5, <1>6, EndFacts DEF Next, Recv

(* SessionInOnePlace: a NodeSession that connects is on one connection, or *)
(* in the list of reconnects once, or attempts to connect, for any cluster *)
(* and however often its connection breaks.                                *)
THEOREM OneConnectionPerTarget == Spec => []SessionInOnePlace
<1>1. Spec => []TableInv
  BY InitTable, NextTable, PTL DEF Spec
<1>2. Spec => []Placed
  BY <1>1, InitPlaced, NextPlaced, PTL DEF Spec
<1>3. Placed => SessionInOnePlace
  <2> SUFFICES ASSUME Placed, NEW n \in Nodes, NEW p \in Procs
               PROVE  /\ Cardinality(LiveLinks(n, p)) = IF out[n][p] = "open" THEN 1 ELSE 0
                      /\ Cardinality(Queued(n, p)) = IF out[n][p] = "retry" THEN 1 ELSE 0
    BY DEF SessionInOnePlace
  <2>1. LivePart(n, p) /\ QueuePart(n, p)
    BY DEF Placed, InPlace
  <2>2. \A l : l \in LiveLinks(n, p) <=> l \in Links /\ IsLive(link[l], n, p)
    BY DEF LiveLinks, IsLive
  <2>3. \A i : i \in Queued(n, p) <=> i \in 1 .. Len(reconnects[n]) /\ reconnects[n][i] = p
    BY DEF Queued
  <2>4. IF out[n][p] = "open" THEN \E l : LiveLinks(n, p) = {l} ELSE LiveLinks(n, p) = {}
    BY <2>1, <2>2 DEF LivePart
  <2>5. IF out[n][p] = "retry" THEN \E i : Queued(n, p) = {i} ELSE Queued(n, p) = {}
    <3>1. CASE out[n][p] = "retry"
      <4>1. PICK i \in 1 .. Len(reconnects[n]) : reconnects[n][i] = p
        BY <2>1, <3>1 DEF QueuePart, Has
      <4>2. \A j : j \in Queued(n, p) <=> j = i
        BY <2>1, <2>3, <4>1 DEF QueuePart, Once
      <4>3. Queued(n, p) = {i}
        BY <4>2
      <4>4. QED
        BY <3>1, <4>3
    <3>2. CASE out[n][p] # "retry"
      BY <2>1, <2>3, <3>2 DEF QueuePart, Has
    <3>3. QED
      BY <3>1, <3>2
  <2>6. QED
    BY <2>4, <2>5, FS_EmptySet, FS_Singleton
<1>4. QED
  BY <1>2, <1>3, PTL

-----------------------------------------------------------------------------
(* Announcements.  Master::s_nodes keeps every visible node whose session  *)
(* the master's Harbor has in its table, so a node that reports is told of *)
(* all the others and they are told of it.                                 *)

Mail(r, b) == Has(r.inbox["from"], NewNode(b))

Hears(a, b) ==
  LET l == nodes[Master][a] IN
    a # b /\ l # NoLink /\ ~link[l].cut => b \in opened[a] \/ Mail(link[l], b) \/ Never(a, b)

Listed == \A a \in Nodes \ Hidden : nodes[Master][a] # NoLink => a \in known

(* The inductive invariant behind Announced.                               *)
Heard == (\A a \in Nodes \ Hidden, b \in known : Hears(a, b)) /\ Listed

(* Reading loses the first message only, sending none.                     *)
LEMMA MailTail ==
  ASSUME NEW s \in Seq(Msgs), s # <<>>, NEW m, Has(s, m)
  PROVE  m = Head(s) \/ Has(Tail(s), m)
<1>1. /\ Len(s) \in Nat /\ Len(s) > 0 /\ Len(Tail(s)) = Len(s) - 1 /\ Head(s) = s[1]
      /\ \A i \in 1 .. Len(s) - 1 : Tail(s)[i] = s[i + 1]
  BY LenProperties, HeadTailProperties, EmptySeq
<1>2. PICK i \in 1 .. Len(s) : s[i] = m
  BY DEF Has
<1>3. CASE i = 1
  BY <1>1, <1>2, <1>3
<1>4. CASE i # 1
  <2>1. i - 1 \in 1 .. Len(s) - 1 /\ Tail(s)[i - 1] = m
    BY <1>1, <1>2, <1>4
  <2>2. QED
    BY <1>1, <2>1 DEF Has
<1>5. QED
  BY <1>3, <1>4

LEMMA MailConcat ==
  ASSUME NEW s \in Seq(Msgs), NEW t \in Seq(Msgs), NEW m, Has(s, m) \/ Has(t, m)
  PROVE  Has(s \o t, m)
<1>1. /\ Len(s) \in Nat /\ Len(t) \in Nat /\ Len(s \o t) = Len(s) + Len(t)
      /\ \A i \in 1 .. Len(s) + Len(t) :
           (s \o t)[i] = IF i <= Len(s) THEN s[i] ELSE t[i - Len(s)]
  BY ConcatProperties, LenProperties
<1>2. ASSUME NEW i \in 1 .. Len(s), s[i] = m PROVE Has(s \o t, m)
  <2>1. i \in 1 .. Len(s \o t) /\ (s \o t)[i] = m
    BY <1>1, <1>2
  <2>2. QED
    BY <2>1 DEF Has
<1>3. ASSUME NEW i \in 1 .. Len(t), t[i] = m PROVE Has(s \o t, m)
  <2>1. PICK j \in 1 .. Len(s) + Len(t) : j = Len(s) + i
    BY <1>1
  <2>2. ~(j <= Len(s)) /\ j - Len(s) = i
    BY <1>1, <2>1
  <2>3. (s \o t)[j] = m
    BY <1>1, <1>3, <2>2
  <2>4. QED
    BY <1>1, <2>3 DEF Has
<1>4. QED
  BY <1>2, <1>3 DEF Has

(* What a connection that is not cut still holds for the connecting side.  *)
Forwards(r, s) == ~s.cut => ~r.cut /\ \A b \in Nodes : Mail(r, b) => Mail(s, b)

LEMMA DeliverForwards ==
  ASSUME NEW r \in LinkType, NEW e \in Ends, NEW msgs \in Seq(Msgs)
  PROVE  /\ Forwards(r, Deliver(r, e, msgs))
         /\ Deliver(r, e, msgs).cut = r.cut
         /\ \A b \in Nodes : e = "from" /\ ~r.cut /\ Has(msgs, NewNode(b)) =>
              Mail(Deliver(r, e, msgs), b)
<1>1. CASE r.cut
  BY <1>1 DEF Deliver, Forwards
<1>2. CASE ~r.cut
  <2>1. PICK d : d = Deliver(r, e, msgs)
    OBVIOUS
  <2>2. /\ d.cut = r.cut /\ d.inbox[e] = r.inbox[e] \o msgs
        /\ \A f \in Ends : f # e => d.inbox[f] = r.inbox[f]
    BY <1>2, <2>1 DEF Deliver, LinkType
  <2>3. r.inbox[e] \in Seq(Msgs)
    BY DEF LinkType
  <2>4. \A m : Has(r.inbox[e], m) \/ Has(msgs, m) => Has(d.inbox[e], m)
    BY <2>2, <2>3, MailConcat
  <2>5. QED
    BY <2>1, <2>2, <2>4, EndFacts DEF Forwards, Mail
<1>3. QED
  BY <1>1, <1>2

(* The session under which the master files a node is the one it accepted. *)
LEMMA MasterEntry ==
  ASSUME TableInv, NEW a \in Nodes, nodes[Master][a] # NoLink
  PROVE  /\ nodes[Master][a] \in Links
         /\ link[nodes[Master][a]].proc["from"] = a
         /\ link[nodes[Master][a]].proc["to"] = Master
         /\ link[nodes[Master][a]].end["to"] = "ready"
<1>1. a \in Procs /\ Master \in Procs /\ nodes[Master][a] \in Links
  BY DEF TableInv, TypeOK, Procs
<1>2. PICK l \in Links : l = nodes[Master][a]
  BY <1>1
<1>3. PICK e \in Ends : Local(l, e) = Master /\ Remote(l, e) = a /\ link[l].end[e] = "ready"
  BY <1>1, <1>2 DEF TableInv, TableSound, SessionOf
<1>4. link[l].proc["from"] \in Nodes
  BY <1>3, UsedLink DEF TableInv
<1>5. e = "to"
  BY <1>3, <1>4, EndFacts, ClusterAssumption DEF Local
<1>6. QED
  BY <1>2, <1>3, <1>5 DEF Local, Remote, Peer

(* A step that keeps what the connections in the master's table hold.      *)
LEMMA HeardKept ==
  ASSUME TypeOK, Heard, known' = known,
         \A a \in Nodes \ Hidden : nodes'[Master][a] # NoLink =>
           /\ nodes'[Master][a] = nodes[Master][a]
           /\ ~link'[nodes[Master][a]].cut =>
                opened[a] \subseteq opened'[a] /\ Forwards(link[nodes[Master][a]], link'[nodes[Master][a]])
  PROVE  Heard'
<1>1. Listed'
  BY DEF Heard, Listed
<1>2. ASSUME NEW a \in Nodes \ Hidden, NEW b \in known PROVE Hears(a, b)'
  <2>1. Hears(a, b)
    BY DEF Heard
  <2>2. QED
    BY <1>2, <2>1 DEF Hears, Forwards, Never, TypeOK
<1>3. QED
  BY <1>1, <1>2 DEF Heard

(* Writing to one connection, with the master's table and s_openNode kept. *)
LEMMA HeardSet ==
  ASSUME TableInv, Heard, NEW l \in Links, NEW r, link' = [link EXCEPT ![l] = r],
         UNCHANGED <<nodes, known, opened>>,
         \A a \in Nodes : nodes[Master][a] = l => Forwards(link[l], r)
  PROVE  Heard'
<1>1. \A k \in Links : link'[k] = IF k = l THEN r ELSE link[k]
  BY DEF TableInv, TypeOK
<1>2. ASSUME NEW a \in Nodes \ Hidden, nodes'[Master][a] # NoLink
      PROVE  /\ nodes'[Master][a] = nodes[Master][a]
             /\ ~link'[nodes[Master][a]].cut =>
                  opened[a] \subseteq opened'[a] /\ Forwards(link[nodes[Master][a]], link'[nodes[Master][a]])
  <2>1. nodes[Master][a] \in Links
    BY <1>2, MasterEntry
  <2>2. CASE nodes[Master][a] = l
    BY <1>1, <2>1, <2>2
  <2>3. CASE nodes[Master][a] # l
    BY <1>1, <2>1, <2>3 DEF Forwards
  <2>4. QED
    BY <2>2, <2>3
<1>3. QED
  BY <1>2, HeardKept DEF TableInv

(* Steps on connections, or on the way to one.                             *)
LEMMA OnOutHeard ==
  ASSUME TableInv, Heard, NEW n \in Nodes, NEW p \in Procs, OnOut(n, p) PROVE Heard'
<1>1. PICK l \in Links : l = CHOOSE x \in Links : Unused(x)
  BY DEF OnOut
<1>2. Unused(l)
  BY <1>1, Zenon DEF OnOut
<1>3. PICK r : link' = [link EXCEPT ![l] = r]
  BY <1>1, Zenon DEF OnOut
<1>4. \A a \in Nodes : nodes[Master][a] # l
  <2> SUFFICES ASSUME NEW a \in Nodes, nodes[Master][a] = l PROVE FALSE
    OBVIOUS
  <2>1. link[l].proc["from"] = a
    BY MasterEntry, ClusterAssumption
  <2>2. QED
    BY <1>2, <2>1, ClusterAssumption DEF Unused, Procs
<1>5. QED
  BY <1>3, <1>4, HeardSet DEF OnOut

LEMMA OnInHeard == ASSUME TableInv, Heard, NEW l \in Links, OnIn(l) PROVE Heard'
<1>1. PICK r : link' = [link EXCEPT ![l] = r]
  BY DEF OnIn
<1>2. \A a \in Nodes : nodes[Master][a] # l
  BY MasterEntry, ClusterAssumption DEF OnIn
<1>3. QED
  BY <1>1, <1>2, HeardSet DEF OnIn

LEMMA SendHeard ==
  ASSUME TableInv, Heard, NEW p \in Procs, NEW q \in Procs, Send(p, q) PROVE Heard'
<1>1. PICK l \in Links : l = nodes[p][q]
  BY DEF TableInv, TypeOK, Send
<1>2. PICK e \in Ends : link' = [link EXCEPT ![l] = Deliver(link[l], e, <<App>>)]
  BY <1>1, EndFacts, Zenon DEF Send
<1>3. PICK r : r = Deliver(link[l], e, <<App>>)
  OBVIOUS
<1>4. link[l] \in LinkType
  BY DEF TableInv, TypeOK
<1>5. Forwards(link[l], r) /\ link' = [link EXCEPT ![l] = r]
  BY <1>2, <1>3, <1>4, DeliverForwards, MsgFacts
<1>6. QED
  BY <1>5, HeardSet DEF Send

LEMMA CutHeard == ASSUME TableInv, Heard, NEW l \in Links, Cut(l) PROVE Heard'
<1>1. PICK r : r = [link[l] EXCEPT !.cut = TRUE]
  OBVIOUS
<1>2. link[l] \in LinkType
  BY DEF TableInv, TypeOK
<1>3. r.cut
  BY <1>1, <1>2 DEF LinkType
<1>4. Forwards(link[l], r)
  BY <1>3 DEF Forwards
<1>5. link' = [link EXCEPT ![l] = r]
  BY <1>1 DEF Cut
<1>6. QED
  BY <1>4, <1>5, HeardSet DEF Cut

(* What is left of the mail after reading a message.                       *)
LEMMA ConsumedMail ==
  ASSUME TypeOK, NEW l \in Links, NEW e \in Ends, Incoming(l, e)
  PROVE  /\ Consumed(l, e).cut = link[l].cut
         /\ \A b \in Nodes : Mail(link[l], b) =>
              Mail(Consumed(l, e), b) \/ (e = "from" /\ Message(l, e) = NewNode(b))
<1>1. PICK c : c = Consumed(l, e)
  OBVIOUS
<1>2. link[l] \in LinkType
  BY DEF TypeOK
<1>3. /\ c.cut = link[l].cut /\ c.inbox[e] = Tail(link[l].inbox[e])
      /\ \A f \in Ends : f # e => c.inbox[f] = link[l].inbox[f]
  BY <1>1, <1>2 DEF Consumed, LinkType
<1>4. link[l].inbox[e] \in Seq(Msgs) /\ link[l].inbox[e] # <<>>
  BY <1>2 DEF LinkType, Incoming
<1>5. \A m : Has(link[l].inbox[e], m) => m = Message(l, e) \/ Has(c.inbox[e], m)
  BY <1>3, <1>4, MailTail DEF Message
<1>6. QED
  BY <1>1, <1>3, <1>5, EndFacts DEF Mail

LEMMA RecvAppHeard ==
  ASSUME TableInv, Heard, NEW l \in Links, NEW e \in Ends, RecvApp(l, e) PROVE Heard'
<1>1. PICK r : r = Consumed(l, e)
  OBVIOUS
<1>2. TypeOK /\ Incoming(l, e) /\ Message(l, e) = App /\ link' = [link EXCEPT ![l] = r]
  BY <1>1 DEF RecvApp, TableInv
<1>3. \A b \in Nodes : NewNode(b) # App
  BY DEF NewNode, App
<1>4. Forwards(link[l], r)
  BY <1>1, <1>2, <1>3, ConsumedMail DEF Forwards
<1>5. QED
  BY <1>2, <1>4, HeardSet DEF RecvApp

(* A node that reads an announcement connects or has a reason not to.      *)
LEMMA RecvNewNodeHeard ==
  ASSUME TableInv, Heard, NEW l \in Links, NEW e \in Ends, RecvNewNode(l, e) PROVE Heard'
<1>1. PICK n : n = Local(l, e)
  OBVIOUS
<1>2. PICK k : k = Message(l, e).node
  OBVIOUS
<1>3. PICK r : r = Consumed(l, e)
  OBVIOUS
<1>4. /\ TypeOK /\ Incoming(l, e) /\ link[l].end[e] = "ready"
      /\ link' = [link EXCEPT ![l] = r] /\ UNCHANGED <<known, nodes>>
  BY <1>3 DEF RecvNewNode, TableInv
<1>5. \/ Ignored(n, k) /\ opened' = opened
      \/ opened' = [opened EXCEPT ![n] = @ \cup {k}]
  BY <1>1, <1>2 DEF RecvNewNode
<1>6. \A a \in Nodes : opened[a] \subseteq opened'[a]
  <2>1. CASE opened' = opened
    BY <2>1
  <2>2. CASE opened' = [opened EXCEPT ![n] = @ \cup {k}]
    <3>1. \A a \in Nodes : opened'[a] = IF a = n THEN opened[a] \cup {k} ELSE opened[a]
      BY <1>4, <2>2 DEF TypeOK
    <3>2. QED
      BY <3>1
  <2>3. QED
    BY <1>5, <2>1, <2>2
<1>7. n \in Nodes => k \in opened'[n] \/ Never(n, k)
  BY <1>4, <1>5 DEF TypeOK, Ignored, Never
<1>8. \A j \in Links : link'[j] = IF j = l THEN r ELSE link[j]
  BY <1>4 DEF TypeOK
<1>9. ASSUME NEW a \in Nodes \ Hidden, NEW b \in known PROVE Hears(a, b)'
  <2>1. Hears(a, b) /\ b \in Nodes
    BY <1>4 DEF Heard, TypeOK
  <2>2. CASE nodes[Master][a] = l /\ l # NoLink
    <3>1. link[l].proc["from"] = a
      BY <2>2, MasterEntry
    <3>2. r.cut = link[l].cut
      BY <1>3, <1>4, <2>1, ConsumedMail
    <3>3. Mail(link[l], b) => Mail(r, b) \/ (e = "from" /\ Message(l, e) = NewNode(b))
      BY <1>3, <1>4, <2>1, ConsumedMail
    <3>4. CASE e = "from" /\ Message(l, e) = NewNode(b)
      <4>1. n = a /\ k = b
        BY <1>1, <1>2, <3>1, <3>4 DEF Local, NewNode
      <4>2. b \in opened'[a] \/ Never(a, b)
        BY <1>7, <4>1
      <4>3. QED
        BY <4>2 DEF Hears, Never
    <3>5. CASE ~(e = "from" /\ Message(l, e) = NewNode(b))
      <4>1. link'[l] = r
        BY <1>8
      <4>2. QED
        BY <1>4, <1>6, <2>1, <2>2, <3>2, <3>3, <3>5, <4>1 DEF Hears, Never
    <3>6. QED
      BY <3>4, <3>5
  <2>3. CASE nodes[Master][a] # l /\ nodes[Master][a] # NoLink
    <3>1. link'[nodes[Master][a]] = link[nodes[Master][a]]
      BY <1>8, <2>3, MasterEntry
    <3>2. QED
      BY <1>4, <1>6, <2>1, <3>1 DEF Hears, Never
  <2>4. CASE nodes[Master][a] = NoLink
    BY <1>4, <2>4 DEF Hears
  <2>5. QED
    BY <2>2, <2>3, <2>4
<1>10. Listed'
  BY <1>4 DEF Heard, Listed
<1>11. QED
  BY <1>4, <1>9, <1>10 DEF Heard

(* A report: the new node hears of the others, and they hear of it.        *)
LEMMA RecvReportHeard ==
  ASSUME TableInv, Heard, NEW l \in Links, NEW e \in Ends, RecvReport(l, e) PROVE Heard'
<1>1. PICK p \in Procs, q \in Procs : p = Local(l, e) /\ q = Remote(l, e)
  BY UsedLink DEF RecvReport, TableInv
<1>2. PICK r : r = [Consumed(l, e) EXCEPT !.end[e] = "ready"]
  OBVIOUS
<1>3. /\ TypeOK /\ Incoming(l, e) /\ link[l].end[e] = "open" /\ Message(l, e) = Report
      /\ nodes' = [nodes EXCEPT ![p][q] = l] /\ opened' = opened
  BY <1>1 DEF RecvReport, TableInv
<1>4. r \in LinkType /\ r.inbox = Consumed(l, e).inbox /\ r.cut = Consumed(l, e).cut
  BY <1>2, <1>3, ConsumedFacts DEF LinkType
<1>5. \A b \in Nodes : NewNode(b) # Report
  BY DEF NewNode, Report
<1>6. Forwards(link[l], r)
  BY <1>3, <1>4, <1>5, ConsumedMail DEF Forwards, Mail
<1>7. /\ nodes'[p][q] = l
      /\ \A m \in Procs, a \in Procs : ~(m = p /\ a = q) => nodes'[m][a] = nodes[m][a]
  BY <1>3 DEF TypeOK
<1>8. Nodes \subseteq Procs /\ Master \in Procs
  BY DEF Procs
<1>9. CASE (p # Master \/ ~Visible(q)) /\ link' = [link EXCEPT ![l] = r] /\ known' = known
  <2>1. \A k \in Links : link'[k] = IF k = l THEN r ELSE link[k]
    BY <1>3, <1>9 DEF TypeOK
  <2>2. ASSUME NEW a \in Nodes \ Hidden, nodes'[Master][a] # NoLink
        PROVE  /\ nodes'[Master][a] = nodes[Master][a]
               /\ ~link'[nodes[Master][a]].cut =>
                    opened[a] \subseteq opened'[a] /\ Forwards(link[nodes[Master][a]], link'[nodes[Master][a]])
    <3>1. nodes'[Master][a] = nodes[Master][a]
      BY <1>7, <1>8, <1>9 DEF Visible
    <3>2. PICK j \in Links : j = nodes[Master][a]
      BY <2>2, <3>1, MasterEntry
    <3>3. Forwards(link[j], link'[j])
      BY <1>6, <2>1 DEF Forwards
    <3>4. QED
      BY <1>3, <3>1, <3>2, <3>3
  <2>3. QED
    BY <1>3, <1>9, <2>2, HeardKept
<1>10. CASE p = Master /\ Visible(q) /\ known' = known \cup {q} /\ Announce(q, l, r)
  <2>1. q \in Nodes /\ link[l].proc["from"] = q
    <3>1. link[l].proc["from"] \in Nodes
      BY <1>3, UsedLink DEF TableInv
    <3>2. e = "to"
      <4>1. link[l].proc[e] = Master
        BY <1>1, <1>10 DEF Local
      <4>2. link[l].proc["from"] # Master
        BY <3>1, ClusterAssumption
      <4>3. QED
        BY <4>1, <4>2, EndFacts
    <3>3. QED
      BY <1>1, <3>1, <3>2 DEF Remote, Peer
  <2>2. PICK msgs \in Seq(Msgs) :
          /\ \A t \in Others(q) : \E i \in DOMAIN msgs : msgs[i] = NewNode(t)
          /\ link'[l] = Deliver(r, "from", msgs)
          /\ \A k \in Links \ {l} :
               link'[k] = IF \E t \in Others(q) : nodes[Master][t] = k
                          THEN Deliver(link[k], "from", <<NewNode(q)>>) ELSE link[k]
    BY <1>3, <1>4, <1>10, <2>1, AnnounceLinks
  <2>3. ASSUME NEW a \in Nodes \ Hidden, NEW b \in known', a # b, nodes'[Master][a] # NoLink,
               ~link'[nodes'[Master][a]].cut
        PROVE  b \in opened'[a] \/ Mail(link'[nodes'[Master][a]], b) \/ Never(a, b)
    <3>1. CASE a = q
      <4>1. nodes'[Master][a] = l /\ b \in Others(q) /\ b \in Nodes
        BY <1>3, <1>7, <1>10, <2>3, <3>1 DEF Others, TypeOK
      <4>2. Has(msgs, NewNode(b))
        BY <2>2, <4>1, LenProperties DEF Has
      <4>3. "from" \in Ends /\ Deliver(r, "from", msgs).cut = r.cut
        BY <1>4, EndFacts, DeliverForwards
      <4>4. Mail(Deliver(r, "from", msgs), b)
        BY <1>4, <2>2, <2>3, <4>1, <4>2, <4>3, DeliverForwards
      <4>5. QED
        BY <2>2, <4>1, <4>4
    <3>2. CASE a # q
      <4>1. nodes'[Master][a] = nodes[Master][a]
        BY <1>7, <1>8, <3>2
      <4>2. PICK j \in Links : j = nodes[Master][a] /\ j # l
        BY <2>1, <2>3, <3>2, <4>1, MasterEntry
      <4>3. a \in Others(q)
        BY <2>3, <3>2, <4>1 DEF Heard, Listed, Others
      <4>4. link'[j] = Deliver(link[j], "from", <<NewNode(q)>>)
        BY <2>2, <4>2, <4>3
      <4>5. PICK one : one = <<NewNode(q)>>
        OBVIOUS
      <4>6. one \in Seq(Msgs) /\ Has(one, NewNode(q)) /\ link[j] \in LinkType
        BY <1>3, <2>1, <4>5 DEF Msgs, Has, TypeOK
      <4>7. PICK d : d = Deliver(link[j], "from", one)
        OBVIOUS
      <4>8. /\ Forwards(link[j], d) /\ d.cut = link[j].cut
            /\ ~link[j].cut => Mail(d, q)
        BY <2>1, <4>6, <4>7, EndFacts, DeliverForwards
      <4>9. link'[j] = d /\ ~d.cut
        BY <2>3, <4>1, <4>2, <4>4, <4>5, <4>7
      <4>10. CASE b = q
        BY <4>1, <4>2, <4>8, <4>9, <4>10
      <4>11. CASE b # q
        <5>1. b \in known /\ b \in Nodes
          BY <1>3, <1>10, <2>3, <4>11 DEF TypeOK
        <5>2. b \in opened[a] \/ Mail(link[j], b) \/ Never(a, b)
          BY <2>3, <4>1, <4>2, <4>8, <4>9, <5>1 DEF Heard, Hears
        <5>3. QED
          BY <1>3, <4>1, <4>2, <4>8, <4>9, <5>1, <5>2 DEF Forwards
      <4>12. QED
        BY <4>10, <4>11
    <3>3. QED
      BY <3>1, <3>2
  <2>4. ASSUME NEW a \in Nodes \ Hidden, NEW b \in known' PROVE Hears(a, b)'
    BY <2>3 DEF Hears, Never
  <2>5. Listed'
    <3>1. ASSUME NEW a \in Nodes \ Hidden, nodes'[Master][a] # NoLink PROVE a \in known'
      <4>1. CASE a = q
        BY <1>10, <4>1
      <4>2. CASE a # q
        BY <1>7, <1>8, <1>10, <3>1, <4>2 DEF Heard, Listed
      <4>3. QED
        BY <4>1, <4>2
    <3>2. QED
      BY <3>1 DEF Listed
  <2>6. QED
    BY <2>4, <2>5 DEF Heard
<1>11. QED
  BY <1>1, <1>2, <1>9, <1>10 DEF RecvReport

(* A session of the master's table leaves it, or has lost its connection.  *)
LEMMA DisconnectHeard ==
  ASSUME TableInv, Heard, NEW l \in Links, NEW e \in Ends, OnDisconnected(l, e) PROVE Heard'
<1>1. PICK d : d = [link[l] EXCEPT !.end[e] = "closed", !.inbox[e] = <<>>]
  OBVIOUS
<1>2. PICK p \in Procs, q \in Procs : p = Local(l, e) /\ q = Remote(l, e)
  BY UsedLink DEF OnDisconnected, TableInv
<1>3. /\ link[l].cut /\ link' = [link EXCEPT ![l] = Settle(d)] /\ UNCHANGED <<known, opened>>
      /\ nodes' = IF link[l].end[e] = "ready" THEN [nodes EXCEPT ![p][q] = NoLink] ELSE nodes
      /\ TypeOK /\ link[l] \in LinkType
  BY <1>1, <1>2 DEF OnDisconnected, OnNodeClose, WasReady, TableInv, TypeOK
<1>4. d \in LinkType /\ d.cut /\ \A f \in Ends : f # e => d.end[f] = link[l].end[f]
  BY <1>1, <1>3, MsgFacts DEF LinkType
<1>5. \A k \in Links : link'[k] = IF k = l THEN Settle(d) ELSE link[k]
  BY <1>3 DEF TypeOK
<1>6. /\ link[l].end[e] = "ready" => nodes'[p][q] = NoLink
      /\ \A m \in Procs, a \in Procs : nodes'[m][a] = NoLink \/ nodes'[m][a] = nodes[m][a]
  BY <1>3 DEF TypeOK
<1>7. ASSUME NEW a \in Nodes \ Hidden, nodes'[Master][a] # NoLink
      PROVE  /\ nodes'[Master][a] = nodes[Master][a]
             /\ ~link'[nodes[Master][a]].cut =>
                  opened[a] \subseteq opened'[a] /\ Forwards(link[nodes[Master][a]], link'[nodes[Master][a]])
  <2>1. nodes'[Master][a] = nodes[Master][a]
    BY <1>6, <1>7 DEF Procs
  <2>2. PICK j \in Links : j = nodes[Master][a]
    BY <1>7, <2>1, MasterEntry
  <2>3. link[j].proc["from"] = a /\ link[j].proc["to"] = Master /\ link[j].end["to"] = "ready"
    BY <1>7, <2>1, <2>2, MasterEntry
  <2>4. CASE j # l
    BY <1>3, <1>5, <2>1, <2>2, <2>4 DEF Forwards
  <2>5. CASE j = l /\ e = "to"
    <3>1. p = Master /\ q = a
      BY <1>2, <2>3, <2>5 DEF Local, Remote, Peer
    <3>2. QED
      BY <1>6, <1>7, <2>3, <2>5, <3>1
  <2>6. CASE j = l /\ e = "from"
    <3>1. d.end["to"] # "closed"
      BY <1>4, <2>3, <2>6, EndFacts
    <3>2. Settle(d) = d
      BY <1>4, <3>1, EndFacts, SettleFacts
    <3>3. link'[j].cut
      BY <1>4, <1>5, <2>6, <3>2
    <3>4. QED
      BY <2>1, <2>2, <3>3
  <2>7. QED
    BY <2>4, <2>5, <2>6, EndFacts
<1>8. QED
  BY <1>3, <1>7, HeardKept

(* A process that ends takes its connections with it.                      *)
LEMMA BereftCut ==
  ASSUME NEW r \in LinkType, NEW p, NEW e \in Ends,
         r.proc[Peer(e)] = p, r.proc[e] # p, r.end[e] # "closed"
  PROVE  Bereft(r, p).cut
<1>1. PICK s : s = [r EXCEPT !.cut = TRUE,
                          !.end = [f \in Ends |-> IF r.proc[f] = p THEN "closed" ELSE @[f]],
                          !.inbox = [f \in Ends |-> IF r.proc[f] = p THEN <<>> ELSE @[f]]]
  OBVIOUS
<1>2. s.cut /\ s.end[e] # "closed"
  BY <1>1 DEF LinkType
<1>3. Settle(s) = s
  BY <1>2 DEF Settle
<1>4. Bereft(r, p) = Settle(s)
  BY <1>1, EndFacts DEF Bereft
<1>5. QED
  BY <1>2, <1>3, <1>4

LEMMA CrashHeard == ASSUME TableInv, Heard, NEW p \in Procs, Crash(p) PROVE Heard'
<1>1. /\ known' = IF p = Master THEN {} ELSE known
      /\ \A l \in Links : link'[l] = Bereft(link[l], p) /\ link[l] \in LinkType
      /\ \A n \in Nodes : n # p => opened'[n] = opened[n]
  BY DEF Crash, TableInv, TypeOK
<1>2. \A m \in Procs, a \in Procs : nodes'[m][a] = IF m = p THEN NoLink ELSE nodes[m][a]
  BY DEF Crash, TableInv, TypeOK
<1>3. CASE p = Master
  <2>1. \A a \in Nodes : nodes'[Master][a] = NoLink
    BY <1>2, <1>3 DEF Procs
  <2>2. QED
    BY <1>1, <1>3, <2>1 DEF Heard, Listed
<1>4. CASE p # Master
  <2>1. ASSUME NEW a \in Nodes \ Hidden, nodes'[Master][a] # NoLink
        PROVE  /\ nodes'[Master][a] = nodes[Master][a]
               /\ ~link'[nodes[Master][a]].cut =>
                    opened[a] \subseteq opened'[a] /\ Forwards(link[nodes[Master][a]], link'[nodes[Master][a]])
    <3>1. nodes'[Master][a] = nodes[Master][a]
      BY <1>2, <1>4 DEF Procs
    <3>2. PICK j \in Links : j = nodes[Master][a]
      BY <2>1, <3>1, MasterEntry
    <3>3. link[j].proc["from"] = a /\ link[j].proc["to"] = Master /\ link[j].end["to"] = "ready"
      BY <2>1, <3>1, <3>2, MasterEntry
    <3>4. CASE a = p
      <4>1. link[j].proc[Peer("to")] = p
        BY <3>3, <3>4 DEF Peer
      <4>2. link'[j].cut
        BY <1>1, <1>4, <3>3, <4>1, BereftCut, EndFacts
      <4>3. QED
        BY <3>1, <3>2, <4>2
    <3>5. CASE a # p
      <4>1. link'[j] = link[j] \/ link'[j].cut
        BY <1>1, <1>4, <3>3, BereftEnds, EndFacts
      <4>2. QED
        BY <1>1, <3>1, <3>2, <3>5, <4>1 DEF Forwards
    <3>6. QED
      BY <3>4, <3>5
  <2>2. known' = known /\ TypeOK
    BY <1>1, <1>4 DEF TableInv
  <2>3. QED
    BY <2>1, <2>2, HeardKept
<1>5. QED
  BY <1>3, <1>4

(* The invariant is inductive.                                             *)
LEMMA NextHeard == TableInv /\ Heard /\ [Next]_vars => Heard'
<1> SUFFICES ASSUME TableInv, Heard, [Next]_vars PROVE Heard'
  OBVIOUS
<1>1. CASE UNCHANGED <<nodes, known, opened, link>>
  BY <1>1, HeardKept DEF TableInv, Forwards
<1>2. ASSUME NEW p \in Procs, Crash(p) \/ \E q \in Procs : Send(p, q) PROVE Heard'
  BY <1>2, CrashHeard, SendHeard
<1>3. ASSUME NEW n \in Nodes, NEW p \in Procs, OnOut(n, p) PROVE Heard'
  BY <1>3, OnOutHeard
<1>4. ASSUME NEW l \in Links, OnIn(l) \/ Cut(l) PROVE Heard'
  BY <1>4, OnInHeard, CutHeard
<1>5. ASSUME NEW l \in Links, NEW e \in Ends, Recv(l, e) \/ OnDisconnected(l, e) PROVE Heard'
  BY <1>5, RecvReportHeard, RecvNewNodeHeard, RecvAppHeard, DisconnectHeard DEF Recv
<1>6. ASSUME NEW p \in Procs, Launch(p) PROVE UNCHANGED <<nodes, known, opened, link>>
  BY <1>6 DEF Launch
<1>7. ASSUME NEW n \in Nodes, Loop(n) \/ \E p \in Procs : OnConnectFailed(n, p)
      PROVE  UNCHANGED <<nodes, known, opened, link>>
  BY <1>7 DEF Loop, OnConnectFailed
<1>8. CASE UNCHANGED vars
  BY <1>1, <1>8 DEF vars
<1>9. QED
  BY <1>1, <1>2, <1>3, <1>4, <1>5, <1>6, <1>7, <1>8 DEF Next

(* Announced: in any cluster, while its connection to the master holds, a  *)
(* node has been told of every node the master knows, or the message is on *)
(* its way, in whatever order they came.                                   *)
THEOREM NoLostAnnouncement == Spec => []Announced
<1>1. Spec => []TableInv
  BY InitTable, NextTable, PTL DEF Spec
<1>2. Init => Heard
  <2>1. ASSUME Init PROVE known = {} /\ \A a \in Nodes : nodes[Master][a] = NoLink
    BY <2>1 DEF Init, Procs
  <2>2. QED
    BY <2>1 DEF Heard, Listed
<1>3. Spec => []Heard
  BY <1>1, <1>2, NextHeard, PTL DEF Spec
<1>4. Heard => Announced
  BY DEF Heard, Announced, Hears, Told, Mail, Has, Never
<1>5. QED
  BY <1>3, <1>4, PTL
-----------------------------------------------------------------------------
(* The connections between nodes.  What is true of a single link:          *)

News(r, e, b) == Has(r.inbox[e], NewNode(b))

(* Only visible nodes are announced, and only to visible nodes; a link     *)
(* that holds has not been closed by the side that connected.              *)
Sound(r) ==
  /\ \A e \in Ends, b \in Nodes : News(r, e, b) => b \notin Hidden /\ r.proc[e] \notin Hidden
  /\ ~r.cut /\ r.proc["from"] \in Nodes => r.end["from"] # "closed"

(* A node has sessions to the nodes it should connect to.                  *)
Due(n, k) == {n, k} \cap Hidden = {} /\ ~Never(n, k)

(* The invariant behind MeshBounded.                                       *)
Meshed ==
  /\ \A l \in Links : Sound(link[l])
  /\ \A n, k \in Nodes : out[n][k] # "none" => Due(n, k)
  /\ known \cap Hidden = {}

(* An empty inbox holds no news.                                           *)
LEMMA NoNews == \A m : ~Has(<<>>, m)
BY DEF Has

LEMMA SoundFree == Sound(Free)
<1>1. /\ \A e \in Ends : Free.inbox[e] = <<>>
      /\ Free.proc["from"] = NoProc /\ NoProc \notin Nodes
  BY ClusterAssumption, EndFacts DEF Free, Procs
<1>2. QED
  BY <1>1, NoNews DEF Sound, News

(* Reading and writing add no news but what is written.                    *)
LEMMA NewsTail ==
  ASSUME NEW s \in Seq(Msgs), s # <<>>, NEW m, Has(Tail(s), m) PROVE Has(s, m)
<1>1. /\ Len(s) \in Nat /\ Len(s) > 0 /\ Len(Tail(s)) = Len(s) - 1
      /\ \A i \in 1 .. Len(s) - 1 : Tail(s)[i] = s[i + 1]
  BY LenProperties, HeadTailProperties, EmptySeq
<1>2. PICK i \in 1 .. Len(s) - 1 : Tail(s)[i] = m
  BY <1>1 DEF Has
<1>3. i + 1 \in 1 .. Len(s) /\ s[i + 1] = m
  BY <1>1, <1>2
<1>4. QED
  BY <1>3 DEF Has

LEMMA NewsConcat ==
  ASSUME NEW s \in Seq(Msgs), NEW t \in Seq(Msgs), NEW m, Has(s \o t, m)
  PROVE  Has(s, m) \/ Has(t, m)
<1>1. /\ Len(s) \in Nat /\ Len(t) \in Nat /\ Len(s \o t) = Len(s) + Len(t)
      /\ \A i \in 1 .. Len(s) + Len(t) :
           (s \o t)[i] = IF i <= Len(s) THEN s[i] ELSE t[i - Len(s)]
  BY ConcatProperties, LenProperties
<1>2. PICK i \in 1 .. Len(s) + Len(t) : (s \o t)[i] = m
  BY <1>1 DEF Has
<1>3. CASE i <= Len(s)
  <2>1. i \in 1 .. Len(s) /\ s[i] = m
    BY <1>1, <1>2, <1>3
  <2>2. QED
    BY <2>1 DEF Has
<1>4. CASE ~(i <= Len(s))
  <2>1. i - Len(s) \in 1 .. Len(t) /\ t[i - Len(s)] = m
    BY <1>1, <1>2, <1>4
  <2>2. QED
    BY <2>1 DEF Has
<1>5. QED
  BY <1>3, <1>4

(* Writing to an end: what is written is the news.                         *)
LEMMA SoundDeliver ==
  ASSUME NEW r \in LinkType, NEW e \in Ends, NEW msgs \in Seq(Msgs), Sound(r),
         \A b \in Nodes : Has(msgs, NewNode(b)) => b \notin Hidden /\ r.proc[e] \notin Hidden
  PROVE  Sound(Deliver(r, e, msgs))
<1>1. CASE r.cut
  BY <1>1 DEF Deliver
<1>2. CASE ~r.cut
  <2>1. PICK d : d = Deliver(r, e, msgs)
    OBVIOUS
  <2>2. /\ d.cut = r.cut /\ d.proc = r.proc /\ d.end = r.end
        /\ d.inbox[e] = r.inbox[e] \o msgs
        /\ \A f \in Ends : f # e => d.inbox[f] = r.inbox[f]
    BY <1>2, <2>1 DEF Deliver, LinkType
  <2>3. r.inbox[e] \in Seq(Msgs)
    BY DEF LinkType
  <2>4. \A m : Has(d.inbox[e], m) => Has(r.inbox[e], m) \/ Has(msgs, m)
    BY <2>2, <2>3, NewsConcat
  <2>5. ASSUME NEW f \in Ends, NEW b \in Nodes, News(d, f, b)
        PROVE  b \notin Hidden /\ d.proc[f] \notin Hidden
    <3>1. CASE f = e
      BY <2>2, <2>4, <2>5, <3>1 DEF News, Sound
    <3>2. CASE f # e
      BY <2>2, <2>5, <3>2 DEF News, Sound
    <3>3. QED
      BY <3>1, <3>2
  <2>6. Sound(d)
    BY <2>2, <2>5 DEF Sound
  <2>7. QED
    BY <2>1, <2>6
<1>3. QED
  BY <1>1, <1>2

(* A message that announces nobody, and one that announces q.              *)
LEMMA PlainMessages ==
  /\ \A b : ~Has(<<Report>>, NewNode(b)) /\ ~Has(<<App>>, NewNode(b))
  /\ \A b, q : Has(<<NewNode(q)>>, NewNode(b)) => b = q
<1>1. \A s, m : Has(<<s>>, m) => s = m
  BY DEF Has
<1>2. QED
  BY <1>1, Kinds

(* Reading a message.                                                      *)
LEMMA SoundConsumed ==
  ASSUME TypeOK, NEW l \in Links, NEW e \in Ends, Incoming(l, e), Sound(link[l]),
         NEW s, s.inbox = Consumed(l, e).inbox, s.cut = link[l].cut, s.proc = link[l].proc,
         \A f \in Ends : s.end[f] = "closed" => link[l].end[f] = "closed"
  PROVE  Sound(s)
<1>1. PICK r : r = link[l]
  OBVIOUS
<1>2. r \in LinkType /\ r.inbox[e] \in Seq(Msgs) /\ r.inbox[e] # <<>>
  BY <1>1 DEF TypeOK, LinkType, Incoming
<1>3. s.inbox[e] = Tail(r.inbox[e]) /\ \A f \in Ends : f # e => s.inbox[f] = r.inbox[f]
  BY <1>1, <1>2 DEF Consumed, LinkType
<1>4. \A m : Has(s.inbox[e], m) => Has(r.inbox[e], m)
  BY <1>2, <1>3, NewsTail
<1>5. \A f \in Ends, b \in Nodes : News(s, f, b) => News(r, f, b)
  BY <1>3, <1>4 DEF News
<1>6. QED
  BY <1>1, <1>5, EndFacts DEF Sound

-----------------------------------------------------------------------------
(* The connections between nodes.  The steps:                              *)

(* Steps that begin no session between nodes.                              *)
Modest == \A n, k \in Nodes : out'[n][k] # "none" => out[n][k] # "none"

LEMMA MeshedSet ==
  ASSUME TypeOK, Meshed, Modest, known' = known,
         NEW l \in Links, NEW r, Sound(r), link' = [link EXCEPT ![l] = r]
  PROVE  Meshed'
<1>1. \A k \in Links : link'[k] = IF k = l THEN r ELSE link[k]
  BY DEF TypeOK
<1>2. \A k \in Links : Sound(link'[k])
  BY <1>1 DEF Meshed
<1>3. \A n, k \in Nodes : out'[n][k] # "none" => Due(n, k)
  BY DEF Meshed, Modest
<1>4. QED
  BY <1>2, <1>3 DEF Meshed, Sound, News, Has, Due, Never

LEMMA MeshedKept ==
  ASSUME Meshed, Modest, UNCHANGED <<known, link>> PROVE Meshed'
<1>1. \A n, k \in Nodes : out'[n][k] # "none" => Due(n, k)
  BY DEF Meshed, Modest
<1>2. QED
  BY <1>1 DEF Meshed

(* Attempts: to the master, or of a session that was there before.         *)
LEMMA LaunchMeshed == ASSUME TableInv, Meshed, NEW p \in Procs, Launch(p) PROVE Meshed'
<1>1. CASE out' = out
  BY <1>1, MeshedKept DEF Launch, Modest
<1>2. CASE p \in Nodes /\ Connect(p, Master)
  <2>1. PICK s : out' = [out EXCEPT ![p][Master] = s]
    BY <1>2 DEF Connect
  <2>2. \A m \in Nodes, q \in Procs : ~(m = p /\ q = Master) => out'[m][q] = out[m][q]
    BY <1>2, <2>1, OutSet, ClusterAssumption DEF TableInv, Procs
  <2>3. Modest
    BY <2>2, ClusterAssumption DEF Modest, Procs
  <2>4. QED
    BY <2>3, MeshedKept DEF Launch
<1>3. QED
  BY <1>1, <1>2 DEF Launch

LEMMA OutModest ==
  ASSUME TypeOK, NEW n \in Nodes, NEW p \in Procs, out[n][p] # "none", NEW s,
         out' = [out EXCEPT ![n][p] = s]
  PROVE  Modest
BY OutSet DEF Modest, Procs

LEMMA ConnectFailedMeshed ==
  ASSUME TableInv, Meshed, NEW n \in Nodes, NEW p \in Procs, OnConnectFailed(n, p) PROVE Meshed'
<1>1. Modest
  BY OutModest DEF TableInv, OnConnectFailed, AddReconnect
<1>2. QED
  BY <1>1, MeshedKept DEF OnConnectFailed

LEMMA LoopMeshed ==
  ASSUME TableInv, Placed, Meshed, NEW n \in Nodes, Loop(n) PROVE Meshed'
<1>1. PICK p : p = Head(reconnects[n])
  OBVIOUS
<1>2. /\ reconnects[n] # <<>> /\ reconnects[n] \in Seq(Procs) /\ TypeOK
      /\ Connect(n, p) /\ UNCHANGED <<known, link>>
  BY <1>1 DEF Loop, TableInv, TypeOK
<1>3. p \in Procs
  BY <1>1, <1>2, HeadTailProperties
<1>4. Has(reconnects[n], p)
  BY <1>1, <1>2, QueueTail
<1>5. out[n][p] = "retry"
  BY <1>3, <1>4 DEF Placed, InPlace, QueuePart
<1>6. Modest
  BY <1>2, <1>3, <1>5, OutModest DEF Connect
<1>7. QED
  BY <1>2, <1>6, MeshedKept

(* A connection is made.                                                   *)
LEMMA OnOutMeshed ==
  ASSUME TableInv, Meshed, NEW n \in Nodes, NEW p \in Procs, OnOut(n, p) PROVE Meshed'
<1> DEFINE r == [Free EXCEPT !.proc = [e \in Ends |-> IF e = "from" THEN n ELSE p],
                             !.end = [e \in Ends |-> IF e = "from" THEN "open" ELSE "idle"],
                             !.inbox["to"] = <<Report>>]
<1>1. PICK l \in Links : link' = [link EXCEPT ![l] = r]
  BY DEF OnOut
<1>2. r.inbox["from"] = <<>> /\ r.inbox["to"] = <<Report>> /\ r.end["from"] = "open"
  BY DEF Free, Ends
<1> HIDE DEF r
<1>3. \A e \in Ends, b \in Nodes : ~News(r, e, b)
  BY <1>2, NoNews, PlainMessages, EndFacts DEF News
<1>4. Sound(r)
  BY <1>2, <1>3 DEF Sound
<1>5. Modest
  BY OutModest DEF TableInv, OnOut
<1>6. known' = known
  BY DEF OnOut
<1>7. QED
  BY <1>1, <1>4, <1>5, <1>6, MeshedSet DEF TableInv

LEMMA OnInMeshed == ASSUME TableInv, Meshed, NEW l \in Links, OnIn(l) PROVE Meshed'
<1>1. PICK s : s = [link[l] EXCEPT !.end["to"] = "open"]
  OBVIOUS
<1>2. link[l] \in LinkType /\ TypeOK /\ Sound(link[l])
  BY DEF TableInv, TypeOK, Meshed
<1>3. /\ s \in LinkType /\ s.inbox = link[l].inbox /\ s.cut = link[l].cut
      /\ s.proc = link[l].proc /\ s.end["from"] = link[l].end["from"]
  BY <1>1, <1>2, EndFacts DEF LinkType
<1>4. Sound(s)
  BY <1>2, <1>3 DEF Sound, News
<1>5. PICK one : one = <<Report>>
  OBVIOUS
<1>6. Sound(Deliver(s, "from", one))
  BY <1>3, <1>4, <1>5, SoundDeliver, MsgFacts, PlainMessages, EndFacts
<1>7. link' = [link EXCEPT ![l] = Deliver(s, "from", one)] /\ known' = known /\ out' = out
  BY <1>1, <1>5 DEF OnIn
<1>8. Modest
  BY <1>7 DEF Modest
<1>9. QED
  BY <1>2, <1>6, <1>7, <1>8, MeshedSet

LEMMA SendMeshed ==
  ASSUME TableInv, Meshed, NEW p \in Procs, NEW q \in Procs, Send(p, q) PROVE Meshed'
<1>1. PICK l \in Links : l = nodes[p][q]
  BY DEF TableInv, TypeOK, Send
<1>2. PICK e \in Ends : link' = [link EXCEPT ![l] = Deliver(link[l], e, <<App>>)]
  BY <1>1, EndFacts, Zenon DEF Send
<1>3. link[l] \in LinkType /\ Sound(link[l]) /\ TypeOK
  BY DEF TableInv, TypeOK, Meshed
<1>4. Sound(Deliver(link[l], e, <<App>>))
  BY <1>3, SoundDeliver, MsgFacts, PlainMessages
<1>5. Modest /\ known' = known
  BY DEF Send, Modest
<1>6. QED
  BY <1>2, <1>3, <1>4, <1>5, MeshedSet

LEMMA CutMeshed == ASSUME TableInv, Meshed, NEW l \in Links, Cut(l) PROVE Meshed'
<1>1. PICK r : r = [link[l] EXCEPT !.cut = TRUE]
  OBVIOUS
<1>2. link[l] \in LinkType /\ Sound(link[l]) /\ TypeOK
  BY DEF TableInv, TypeOK, Meshed
<1>3. r.cut /\ r.inbox = link[l].inbox /\ r.proc = link[l].proc
  BY <1>1, <1>2 DEF LinkType
<1>4. Sound(r)
  BY <1>2, <1>3 DEF Sound, News
<1>5. Modest /\ known' = known /\ link' = [link EXCEPT ![l] = r]
  BY <1>1 DEF Cut, Modest
<1>6. QED
  BY <1>2, <1>4, <1>5, MeshedSet

(* Messages.                                                               *)
LEMMA RecvAppMeshed ==
  ASSUME TableInv, Meshed, NEW l \in Links, NEW e \in Ends, RecvApp(l, e) PROVE Meshed'
<1>1. PICK r : r = Consumed(l, e)
  OBVIOUS
<1>2. TypeOK /\ Incoming(l, e) /\ link' = [link EXCEPT ![l] = r] /\ Sound(link[l])
  BY <1>1 DEF RecvApp, TableInv, Meshed
<1>3. r.cut = link[l].cut /\ r.proc = link[l].proc /\ r.end = link[l].end
  BY <1>1, <1>2, ConsumedFacts, ConsumedMail
<1>4. Sound(r)
  BY <1>1, <1>2, <1>3, SoundConsumed
<1>5. Modest /\ known' = known
  BY DEF RecvApp, Modest
<1>6. QED
  BY <1>2, <1>4, <1>5, MeshedSet

(* The one step that begins a session between nodes.                       *)
LEMMA RecvNewNodeMeshed ==
  ASSUME TableInv, Meshed, NEW l \in Links, NEW e \in Ends, RecvNewNode(l, e) PROVE Meshed'
<1>1. PICK n : n = Local(l, e)
  OBVIOUS
<1>2. PICK k : k = Message(l, e).node
  OBVIOUS
<1>3. PICK r : r = Consumed(l, e)
  OBVIOUS
<1>4. /\ TypeOK /\ Incoming(l, e) /\ link' = [link EXCEPT ![l] = r] /\ Sound(link[l])
      /\ known' = known /\ Message(l, e).kind = "NEW_NODE"
  BY <1>3 DEF RecvNewNode, TableInv, Meshed
<1>5. r.cut = link[l].cut /\ r.proc = link[l].proc /\ r.end = link[l].end
  BY <1>3, <1>4, ConsumedFacts, ConsumedMail
<1>6. Sound(r)
  BY <1>3, <1>4, <1>5, SoundConsumed
<1>7. k \in Nodes /\ Message(l, e) = NewNode(k)
  BY <1>2, <1>4, ConsumedFacts DEF Msgs, Report, App, NewNode
<1>8. News(link[l], e, k)
  <2>1. link[l].inbox[e] \in Seq(Msgs) /\ link[l].inbox[e] # <<>>
    BY <1>4 DEF TypeOK, LinkType, Incoming
  <2>2. /\ Len(link[l].inbox[e]) \in Nat /\ Len(link[l].inbox[e]) > 0
        /\ Head(link[l].inbox[e]) = link[l].inbox[e][1]
    BY <2>1, LenProperties, HeadTailProperties, EmptySeq
  <2>3. 1 \in 1 .. Len(link[l].inbox[e]) /\ link[l].inbox[e][1] = NewNode(k)
    BY <1>7, <2>2 DEF Message
  <2>4. QED
    BY <2>3 DEF News, Has
<1>9. k \notin Hidden /\ n \notin Hidden
  BY <1>1, <1>4, <1>7, <1>8 DEF Sound, Local
<1>10. CASE out' = out
  BY <1>4, <1>6, <1>10, MeshedSet DEF Modest
<1>11. CASE ~Ignored(n, k) /\ Connect(n, k)
  <2>1. CASE n \notin Nodes
    <3>1. out' = out
      BY <1>4, <1>11, <2>1 DEF Connect, TypeOK
    <3>2. QED
      BY <1>10, <3>1
  <2>2. CASE n \in Nodes
    <3>1. PICK s : out' = [out EXCEPT ![n][k] = s]
      BY <1>11 DEF Connect
    <3>2. \A m \in Nodes, q \in Procs : ~(m = n /\ q = k) => out'[m][q] = out[m][q]
      BY <1>4, <1>7, <2>2, <3>1, OutSet DEF Procs
    <3>3. Due(n, k)
      BY <1>9, <1>11, <2>2 DEF Ignored, Never, Due
    <3>4. ASSUME NEW m \in Nodes, NEW q \in Nodes, out'[m][q] # "none" PROVE Due(m, q)
      <4>1. CASE m = n /\ q = k
        BY <3>3, <4>1
      <4>2. CASE ~(m = n /\ q = k)
        BY <3>2, <3>4, <4>2 DEF Meshed, Procs
      <4>3. QED
        BY <4>1, <4>2
    <3>5. \A j \in Links : link'[j] = IF j = l THEN r ELSE link[j]
      BY <1>4 DEF TypeOK
    <3>6. \A j \in Links : Sound(link'[j])
      BY <1>6, <3>5 DEF Meshed
    <3>7. QED
      BY <1>4, <3>4, <3>6 DEF Meshed, Sound, News, Has, Due, Never
  <2>3. QED
    BY <2>1, <2>2
<1>12. QED
  BY <1>1, <1>2, <1>10, <1>11 DEF RecvNewNode

(* The master tells visible nodes of visible nodes.                        *)
LEMMA RecvReportMeshed ==
  ASSUME TableInv, Meshed, NEW l \in Links, NEW e \in Ends, RecvReport(l, e) PROVE Meshed'
<1>1. PICK p \in Procs, q \in Procs : p = Local(l, e) /\ q = Remote(l, e)
  BY UsedLink DEF RecvReport, TableInv
<1>2. PICK r : r = [Consumed(l, e) EXCEPT !.end[e] = "ready"]
  OBVIOUS
<1>3. /\ TypeOK /\ Incoming(l, e) /\ link[l].end[e] = "open" /\ Sound(link[l]) /\ out' = out
  BY DEF RecvReport, TableInv, Meshed
<1>4. /\ r \in LinkType /\ r.inbox = Consumed(l, e).inbox /\ r.proc = link[l].proc
      /\ r.cut = link[l].cut /\ \A f \in Ends : r.end[f] = "closed" => link[l].end[f] = "closed"
  <2>1. /\ Consumed(l, e) \in LinkType /\ Consumed(l, e).proc = link[l].proc
        /\ Consumed(l, e).end = link[l].end /\ Consumed(l, e).cut = link[l].cut
    BY <1>3, ConsumedFacts, ConsumedMail
  <2>2. QED
    BY <1>2, <1>3, <2>1 DEF LinkType
<1>5. Sound(r)
  BY <1>3, <1>4, SoundConsumed
<1>6. Modest
  BY <1>3 DEF Modest
<1>7. CASE link' = [link EXCEPT ![l] = r] /\ known' = known
  BY <1>3, <1>5, <1>6, <1>7, MeshedSet
<1>8. CASE p = Master /\ Visible(q) /\ known' = known \cup {q} /\ Announce(q, l, r)
  <2>1. q \in Nodes /\ r.proc["from"] = q
    <3>1. link[l].proc["from"] \in Nodes
      BY <1>3, UsedLink DEF TableInv
    <3>2. e = "to"
      <4>1. link[l].proc[e] = Master
        BY <1>1, <1>8 DEF Local
      <4>2. link[l].proc["from"] # Master
        BY <3>1, ClusterAssumption
      <4>3. QED
        BY <4>1, <4>2, EndFacts
    <3>3. QED
      BY <1>1, <1>4, <3>1, <3>2 DEF Remote, Peer
  <2>2. /\ q \notin Hidden /\ known' \cap Hidden = {}
        /\ Others(q) \cap Hidden = {} /\ Others(q) \subseteq Nodes
    BY <1>3, <1>8 DEF Visible, Meshed, Others, TypeOK
  <2>3. PICK msgs \in Seq(Msgs) :
          /\ \A b, i : i \in DOMAIN msgs /\ msgs[i] = NewNode(b) => b \in Others(q)
          /\ link'[l] = Deliver(r, "from", msgs)
          /\ \A k \in Links \ {l} :
               link'[k] = IF \E t \in Others(q) : nodes[Master][t] = k
                          THEN Deliver(link[k], "from", <<NewNode(q)>>) ELSE link[k]
    BY <1>3, <1>4, <1>8, <2>1, AnnounceLinks
  <2>4. Sound(link'[l])
    <3>1. \A b : Has(msgs, NewNode(b)) => b \in Others(q)
      BY <2>3, LenProperties DEF Has
    <3>2. QED
      BY <1>4, <1>5, <2>1, <2>2, <2>3, <3>1, SoundDeliver, EndFacts
  <2>5. ASSUME NEW k \in Links \ {l} PROVE Sound(link'[k])
    <3>1. link[k] \in LinkType /\ Sound(link[k])
      BY <1>3 DEF TypeOK, Meshed
    <3>2. CASE link'[k] = link[k]
      BY <3>1, <3>2
    <3>3. CASE /\ \E t \in Others(q) : nodes[Master][t] = k
               /\ link'[k] = Deliver(link[k], "from", <<NewNode(q)>>)
      <4>1. PICK t \in Others(q) : nodes[Master][t] = k
        BY <3>3
      <4>2. link[k].proc["from"] = t
        BY <2>2, <4>1, MasterEntry, ClusterAssumption
      <4>3. PICK one : one = <<NewNode(q)>>
        OBVIOUS
      <4>4. one \in Seq(Msgs) /\ \A b \in Nodes : Has(one, NewNode(b)) => b = q
        BY <2>1, <4>3, MsgFacts, PlainMessages
      <4>5. Sound(Deliver(link[k], "from", one))
        BY <2>2, <3>1, <4>1, <4>2, <4>4, SoundDeliver, EndFacts
      <4>6. QED
        BY <3>3, <4>3, <4>5
    <3>4. QED
      BY <2>3, <3>2, <3>3
  <2>6. /\ \A k \in Links : Sound(link'[k])
        /\ \A n, k \in Nodes : out'[n][k] # "none" => Due(n, k)
    BY <1>3, <2>4, <2>5 DEF Meshed
  <2>7. QED
    BY <2>2, <2>6 DEF Meshed, Sound, News, Has, Due, Never
<1>9. QED
  BY <1>1, <1>2, <1>7, <1>8 DEF RecvReport

(* A link that is closed has been cut.                                     *)
LEMMA DisconnectMeshed ==
  ASSUME TableInv, Placed, Meshed, NEW l \in Links, NEW e \in Ends, OnDisconnected(l, e)
  PROVE  Meshed'
<1>1. PICK d : d = [link[l] EXCEPT !.end[e] = "closed", !.inbox[e] = <<>>]
  OBVIOUS
<1>2. /\ TypeOK /\ link[l] \in LinkType /\ link[l].cut /\ link[l].end[e] # "closed"
      /\ Sound(link[l]) /\ link' = [link EXCEPT ![l] = Settle(d)] /\ known' = known
  BY <1>1 DEF OnDisconnected, TableInv, TypeOK, Meshed
<1>3. /\ d.cut /\ d.proc = link[l].proc /\ d.inbox[e] = <<>>
      /\ \A f \in Ends : f # e => d.inbox[f] = link[l].inbox[f]
  BY <1>1, <1>2 DEF LinkType
<1>4. \A f \in Ends, b \in Nodes : News(d, f, b) => News(link[l], f, b)
  BY <1>3, NoNews DEF News
<1>5. Sound(d)
  BY <1>2, <1>3, <1>4 DEF Sound
<1>6. Sound(Settle(d))
  BY <1>5, SoundFree DEF Settle
<1>7. Modest
  <2>1. CASE e = "to"
    BY <2>1 DEF OnDisconnected, Modest
  <2>2. CASE e = "from"
    <3>1. PICK n \in Nodes, p \in Procs : n = link[l].proc["from"] /\ p = link[l].proc["to"]
      BY <1>2, UsedLink DEF TableInv
    <3>2. AddReconnect(n, p)
      BY <2>2, <3>1 DEF OnDisconnected, Local, Remote, Peer
    <3>3. IsLive(link[l], n, p)
      BY <1>2, <2>2, <3>1 DEF IsLive
    <3>4. out[n][p] = "open"
      BY <3>3 DEF Placed, InPlace, LivePart
    <3>5. QED
      BY <1>2, <3>2, <3>4, OutModest DEF AddReconnect
  <2>3. QED
    BY <2>1, <2>2, EndFacts
<1>8. QED
  BY <1>2, <1>6, <1>7, MeshedSet

(* A process ends and cuts its links.                                      *)
LEMMA SoundBereft ==
  ASSUME NEW r \in LinkType, NEW p, Sound(r) PROVE Sound(Bereft(r, p))
<1>1. PICK s : s = [r EXCEPT !.cut = TRUE,
                          !.end = [f \in Ends |-> IF r.proc[f] = p THEN "closed" ELSE @[f]],
                          !.inbox = [f \in Ends |-> IF r.proc[f] = p THEN <<>> ELSE @[f]]]
  OBVIOUS
<1>2. /\ s.cut /\ s.proc = r.proc
      /\ \A f \in Ends : s.inbox[f] = <<>> \/ s.inbox[f] = r.inbox[f]
  BY <1>1 DEF LinkType
<1>3. \A f \in Ends, b \in Nodes : News(s, f, b) => News(r, f, b)
  BY <1>2, NoNews DEF News
<1>4. Sound(s)
  BY <1>2, <1>3 DEF Sound
<1>5. Bereft(r, p) \in {r, s, Free}
  BY <1>1 DEF Bereft, Settle
<1>6. QED
  BY <1>4, <1>5, SoundFree

LEMMA CrashMeshed == ASSUME TableInv, Meshed, NEW p \in Procs, Crash(p) PROVE Meshed'
<1>1. /\ \A l \in Links : link'[l] = Bereft(link[l], p) /\ link[l] \in LinkType
      /\ known' = IF p = Master THEN {} ELSE known
      /\ \A n \in Nodes, q \in Procs : out'[n][q] = IF n = p THEN "none" ELSE out[n][q]
  BY DEF Crash, TableInv, TypeOK
<1>2. \A l \in Links : Sound(link'[l])
  BY <1>1, SoundBereft DEF Meshed
<1>3. \A n, k \in Nodes : out'[n][k] # "none" => Due(n, k)
  BY <1>1 DEF Procs, Meshed
<1>4. known' \cap Hidden = {}
  BY <1>1 DEF Meshed
<1>5. QED
  BY <1>2, <1>3, <1>4 DEF Meshed, Sound, News, Has, Due, Never

(* The invariant is inductive.                                             *)
LEMMA NextMeshed == TableInv /\ Placed /\ Meshed /\ [Next]_vars => Meshed'
<1> SUFFICES ASSUME TableInv, Placed, Meshed, [Next]_vars PROVE Meshed'
  OBVIOUS
<1>1. CASE UNCHANGED vars
  BY <1>1, MeshedKept DEF vars, Modest
<1>2. ASSUME NEW p \in Procs, Launch(p) \/ Crash(p) \/ \E q \in Procs : Send(p, q) PROVE Meshed'
  BY <1>2, LaunchMeshed, CrashMeshed, SendMeshed
<1>3. ASSUME NEW n \in Nodes, Loop(n) \/ \E p \in Procs : OnOut(n, p) \/ OnConnectFailed(n, p)
      PROVE  Meshed'
  BY <1>3, LoopMeshed, OnOutMeshed, ConnectFailedMeshed
<1>4. ASSUME NEW l \in Links, OnIn(l) \/ Cut(l) PROVE Meshed'
  BY <1>4, OnInMeshed, CutMeshed
<1>5. ASSUME NEW l \in Links, NEW e \in Ends, Recv(l, e) \/ OnDisconnected(l, e) PROVE Meshed'
  BY <1>5, RecvReportMeshed, RecvNewNodeMeshed, RecvAppMeshed, DisconnectMeshed DEF Recv
<1>6. QED
  BY <1>1, <1>2, <1>3, <1>4, <1>5 DEF Next

(* MeshBounded: in any cluster, and through any crashes, retries and       *)
(* repeated announcements, two nodes hold at most the connections that     *)
(* Cluster::NewNodeComming and the option hide allow.                      *)
THEOREM MeshFollowsConfiguration == Spec => []MeshBounded
<1>1. Spec => []TableInv
  BY InitTable, NextTable, PTL DEF Spec
<1>2. Spec => []Placed
  BY <1>1, InitPlaced, NextPlaced, PTL DEF Spec
<1>3. Init => Meshed
  <2>1. ASSUME Init
        PROVE  /\ known = {} /\ \A l \in Links : link[l] = Free
               /\ \A n, k \in Nodes : out[n][k] = "none"
    BY <2>1 DEF Init, Procs
  <2>2. QED
    BY <2>1, SoundFree DEF Meshed
<1>4. Spec => []Meshed
  BY <1>1, <1>2, <1>3, NextMeshed, PTL DEF Spec
<1>5. Placed /\ Meshed => MeshBounded
  <2> SUFFICES ASSUME Placed, Meshed, NEW a \in Nodes, NEW b \in Nodes
               PROVE  Cardinality(Unbroken(a, b)) <=
                        IF {a, b} \cap Hidden # {} \/ Never(a, b) THEN 0 ELSE 1
    BY DEF MeshBounded
  <2>1. LivePart(a, b)
    BY DEF Placed, InPlace, Procs
  <2>2. ASSUME NEW l \in Unbroken(a, b) PROVE l \in Links /\ IsLive(link[l], a, b) /\ Due(a, b)
    <3>1. l \in Links /\ IsLive(link[l], a, b)
      BY <2>2 DEF Unbroken, Local, Meshed, Sound, IsLive
    <3>2. out[a][b] = "open"
      BY <2>1, <3>1 DEF LivePart
    <3>3. QED
      BY <3>1, <3>2 DEF Meshed
  <2>3. CASE Unbroken(a, b) = {}
    BY <2>3, FS_EmptySet
  <2>4. CASE Unbroken(a, b) # {}
    <3>1. PICK l : l \in Unbroken(a, b)
      BY <2>4
    <3>2. Unbroken(a, b) = {l}
      BY <2>1, <2>2, <3>1 DEF LivePart
    <3>3. Cardinality(Unbroken(a, b)) = 1
      BY <3>2, FS_Singleton
    <3>4. QED
      BY <2>2, <3>1, <3>3 DEF Due
  <2>5. QED
    BY <2>3, <2>4
<1>6. QED
  BY <1>2, <1>4, <1>5, PTL
=============================================================================
