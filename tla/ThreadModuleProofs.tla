-------------------------- MODULE ThreadModuleProofs --------------------------
(***************************************************************************)
(* Theorems about ThreadModule, for any number of threads and commands:    *)
(* its types, that no thread sleeps while its list has a command, that a   *)
(* thread has ended when its object is deleted, and that no command is in  *)
(* two hands.                                                              *)
(***************************************************************************)
EXTENDS ThreadModule, TLAPS, SequenceTheorems

(* The inductive invariant: the parts need each other only for types.      *)
ThreadInv == TypeOK /\ NoSleepOnWork /\ FreedAfterUse /\ CommandOnce

-----------------------------------------------------------------------------
(* Lists that share no command.                                            *)

Places == 0 .. N + 1

Elements(L) == UNION {ToSet(L[a]) : a \in Places}

Disjoint(L) ==
  \A a, b \in Places : \A i \in DOMAIN L[a], j \in DOMAIN L[b] :
    L[a][i] = L[b][j] => a = b /\ i = j

(* What is an element of some list.                                        *)
LEMMA ElementsDef ==
  ASSUME NEW L, NEW x
  PROVE  x \in Elements(L) <=> \E a \in Places : \E i \in DOMAIN L[a] : x = L[a][i]
  BY DEF Elements, ToSet

(* A command that is in no list is appended to one.                        *)
LEMMA AppendDisjoint ==
  ASSUME NEW L \in [Places -> Seq(Commands)], Disjoint(L), NEW a \in Places,
         NEW c \in Commands, c \notin Elements(L)
  PROVE  /\ Disjoint([L EXCEPT ![a] = Append(@, c)])
         /\ \A x : x \in Elements([L EXCEPT ![a] = Append(@, c)]) => x \in Elements(L) \/ x = c
<1> DEFINE M == [L EXCEPT ![a] = Append(@, c)]
<1>1. /\ M[a] = Append(L[a], c) /\ \A b \in Places : b # a => M[b] = L[b]
  OBVIOUS
<1>2. \A i \in DOMAIN M[a] : \/ i \in DOMAIN L[a] /\ M[a][i] = L[a][i]
                             \/ i = Len(L[a]) + 1 /\ i \notin DOMAIN L[a] /\ M[a][i] = c
  <2>1. L[a] \in Seq(Commands)
    OBVIOUS
  <2>2. QED
    BY <1>1, <2>1, AppendProperties, LenProperties
<1>3. \A b \in Places : \A i \in DOMAIN L[b] : L[b][i] # c
  BY ElementsDef
<1>4. Disjoint(M)
  <2> HIDE DEF M
  <2>1. SUFFICES ASSUME NEW b \in Places, NEW d \in Places, NEW i \in DOMAIN M[b],
                        NEW j \in DOMAIN M[d], M[b][i] = M[d][j]
                 PROVE  b = d /\ i = j
    BY DEF Disjoint
  <2>2. \/ i \in DOMAIN L[b] /\ M[b][i] = L[b][i]
        \/ b = a /\ i = Len(L[a]) + 1 /\ M[b][i] = c
    BY <1>1, <1>2
  <2>3. \/ j \in DOMAIN L[d] /\ M[d][j] = L[d][j]
        \/ d = a /\ j = Len(L[a]) + 1 /\ M[d][j] = c
    BY <1>1, <1>2
  <2>4. QED
    BY <1>3, <2>1, <2>2, <2>3 DEF Disjoint
<1>5. ASSUME NEW x, x \in Elements(M) PROVE x \in Elements(L) \/ x = c
  <2> HIDE DEF M
  <2>1. PICK b \in Places : \E i \in DOMAIN M[b] : x = M[b][i]
    BY <1>5, ElementsDef
  <2>2. PICK i \in DOMAIN M[b] : x = M[b][i]
    BY <2>1
  <2>3. x = c \/ (i \in DOMAIN L[b] /\ x = L[b][i])
    BY <1>1, <1>2, <2>2
  <2>4. QED
    BY <2>3, ElementsDef
<1>6. QED
  BY <1>4, <1>5

(* The first command of a list leaves it.                                  *)
LEMMA TailDisjoint ==
  ASSUME NEW L \in [Places -> Seq(Commands)], Disjoint(L), NEW a \in Places, L[a] # <<>>
  PROVE  /\ Disjoint([L EXCEPT ![a] = Tail(@)])
         /\ \A x : x \in Elements([L EXCEPT ![a] = Tail(@)]) => x \in Elements(L)
         /\ Head(L[a]) \in Elements(L)
         /\ Head(L[a]) \notin Elements([L EXCEPT ![a] = Tail(@)])
<1> DEFINE M == [L EXCEPT ![a] = Tail(@)]
<1>1. /\ M[a] = Tail(L[a]) /\ \A b \in Places : b # a => M[b] = L[b]
  OBVIOUS
<1>2. /\ \A i \in DOMAIN M[a] : i \in Nat /\ i # 0 /\ i + 1 \in DOMAIN L[a] /\ M[a][i] = L[a][i + 1]
      /\ Head(L[a]) = L[a][1] /\ 1 \in DOMAIN L[a]
  <2>1. L[a] \in Seq(Commands) /\ L[a] # <<>>
    OBVIOUS
  <2>2. QED
    BY <1>1, <2>1, HeadTailProperties, LenProperties, EmptySeq
<1> HIDE DEF M
<1>3. Disjoint(M)
  <2>1. SUFFICES ASSUME NEW b \in Places, NEW d \in Places, NEW i \in DOMAIN M[b],
                        NEW j \in DOMAIN M[d], M[b][i] = M[d][j]
                 PROVE  b = d /\ i = j
    BY DEF Disjoint
  <2>2. \/ b # a /\ i \in DOMAIN L[b] /\ M[b][i] = L[b][i]
        \/ b = a /\ i \in Nat /\ i + 1 \in DOMAIN L[a] /\ M[b][i] = L[a][i + 1]
    BY <1>1, <1>2
  <2>3. \/ d # a /\ j \in DOMAIN L[d] /\ M[d][j] = L[d][j]
        \/ d = a /\ j \in Nat /\ j + 1 \in DOMAIN L[a] /\ M[d][j] = L[a][j + 1]
    BY <1>1, <1>2
  <2>4. CASE b = a /\ d = a
    <3>1. i + 1 = j + 1
      BY <2>1, <2>2, <2>3, <2>4 DEF Disjoint
    <3>2. QED
      BY <2>2, <2>3, <2>4, <3>1
  <2>5. CASE b # a \/ d # a
    BY <2>1, <2>2, <2>3, <2>5 DEF Disjoint
  <2>6. QED
    BY <2>4, <2>5
<1>4. ASSUME NEW x, x \in Elements(M) PROVE x \in Elements(L)
  <2>1. PICK b \in Places : \E i \in DOMAIN M[b] : x = M[b][i]
    BY <1>4, ElementsDef
  <2>2. PICK i \in DOMAIN M[b] : x = M[b][i]
    BY <2>1
  <2>3. \E k \in DOMAIN L[b] : x = L[b][k]
    BY <1>1, <1>2, <2>2
  <2>4. QED
    BY <2>3, ElementsDef
<1>5. Head(L[a]) \in Elements(L)
  BY <1>2, ElementsDef
<1>6. ASSUME Head(L[a]) \in Elements(M) PROVE FALSE
  <2>1. PICK b \in Places : \E i \in DOMAIN M[b] : L[a][1] = M[b][i]
    BY <1>2, <1>6, ElementsDef
  <2>2. PICK i \in DOMAIN M[b] : L[a][1] = M[b][i]
    BY <2>1
  <2>3. CASE b = a
    <3>1. i \in Nat /\ i # 0 /\ i + 1 \in DOMAIN L[a] /\ L[a][1] = L[a][i + 1]
      BY <1>2, <2>2, <2>3
    <3>2. 1 = i + 1
      BY <1>2, <3>1 DEF Disjoint
    <3>3. QED
      BY <3>1, <3>2
  <2>4. CASE b # a
    <3>1. i \in DOMAIN L[b] /\ L[a][1] = L[b][i]
      BY <1>1, <2>2, <2>4
    <3>2. QED
      BY <1>2, <2>4, <3>1 DEF Disjoint
  <2>5. QED
    BY <2>3, <2>4
<1>7. QED
  BY <1>3, <1>4, <1>5, <1>6 DEF M

(* One list is emptied onto the end of another.                            *)
LEMMA ConcatDisjoint ==
  ASSUME NEW L \in [Places -> Seq(Commands)], Disjoint(L), NEW a \in Places, NEW b \in Places,
         a # b, NEW M \in [Places -> Seq(Commands)],
         M[a] = L[a] \o L[b], M[b] = <<>>, \A d \in Places \ {a, b} : M[d] = L[d]
  PROVE  Disjoint(M) /\ \A x : x \in Elements(M) => x \in Elements(L)
<1> DEFINE n == Len(L[a])
<1>1. /\ n \in Nat /\ DOMAIN M[b] = {}
      /\ \A i \in DOMAIN M[a] : \/ i \in DOMAIN L[a] /\ i \in 1 .. n /\ M[a][i] = L[a][i]
                                \/ i \in Nat /\ i - n \in DOMAIN L[b] /\ M[a][i] = L[b][i - n]
  <2>1. L[a] \in Seq(Commands) /\ L[b] \in Seq(Commands)
    OBVIOUS
  <2>2. n \in Nat /\ Len(L[b]) \in Nat
    BY <2>1, LenProperties
  <2>3. /\ DOMAIN M[a] = 1 .. n + Len(L[b]) /\ DOMAIN L[a] = 1 .. n
        /\ DOMAIN L[b] = 1 .. Len(L[b])
        /\ \A i \in 1 .. n + Len(L[b]) :
             M[a][i] = IF i <= n THEN L[a][i] ELSE L[b][i - n]
    BY <2>1, ConcatProperties, LenProperties
  <2>4. DOMAIN M[b] = {}
    BY EmptySeq
  <2>5. QED
    BY <2>2, <2>3, <2>4
<1> HIDE DEF n
<1>2. ASSUME NEW d \in Places, NEW i \in DOMAIN M[d]
      PROVE  \/ d # b /\ i \in DOMAIN L[d] /\ (d = a => i \in 1 .. n) /\ M[d][i] = L[d][i]
             \/ d = a /\ i \in Nat /\ i - n \in DOMAIN L[b] /\ M[d][i] = L[b][i - n]
  BY <1>1
<1>3. Disjoint(M)
  <2>1. SUFFICES ASSUME NEW d \in Places, NEW e \in Places, NEW i \in DOMAIN M[d],
                        NEW j \in DOMAIN M[e], M[d][i] = M[e][j]
                 PROVE  d = e /\ i = j
    BY DEF Disjoint
  <2>2. \/ d # b /\ i \in DOMAIN L[d] /\ M[d][i] = L[d][i]
        \/ d = a /\ i \in Nat /\ i - n \in DOMAIN L[b] /\ M[d][i] = L[b][i - n]
    BY <1>2
  <2>3. \/ e # b /\ j \in DOMAIN L[e] /\ M[e][j] = L[e][j]
        \/ e = a /\ j \in Nat /\ j - n \in DOMAIN L[b] /\ M[e][j] = L[b][j - n]
    BY <1>2
  <2>4. CASE d # b /\ i \in DOMAIN L[d] /\ M[d][i] = L[d][i]
    BY <2>1, <2>3, <2>4 DEF Disjoint
  <2>5. CASE d = a /\ i \in Nat /\ i - n \in DOMAIN L[b] /\ M[d][i] = L[b][i - n]
    <3>1. PICK k \in DOMAIN L[b] : k = i - n /\ M[d][i] = L[b][k]
      BY <2>5
    <3>2. CASE e # b /\ j \in DOMAIN L[e] /\ M[e][j] = L[e][j]
      <4>1. L[b][k] = L[e][j]
        BY <2>1, <3>1, <3>2
      <4>2. QED
        BY <3>2, <4>1 DEF Disjoint
    <3>3. CASE e = a /\ j \in Nat /\ j - n \in DOMAIN L[b] /\ M[e][j] = L[b][j - n]
      <4>1. PICK m \in DOMAIN L[b] : m = j - n /\ M[e][j] = L[b][m]
        BY <3>3
      <4>2. k = m
        <5>1. L[b][k] = L[b][m]
          BY <2>1, <3>1, <4>1
        <5>2. QED
          BY <5>1 DEF Disjoint
      <4>3. QED
        BY <1>1, <2>5, <3>1, <3>3, <4>1, <4>2
    <3>4. QED
      BY <2>3, <3>2, <3>3
  <2>6. QED
    BY <2>2, <2>4, <2>5
<1>4. ASSUME NEW x, x \in Elements(M) PROVE x \in Elements(L)
  <2>1. PICK d \in Places : \E i \in DOMAIN M[d] : x = M[d][i]
    BY <1>4, ElementsDef
  <2>2. PICK i \in DOMAIN M[d] : x = M[d][i]
    BY <2>1
  <2>3. \E e \in Places : \E k \in DOMAIN L[e] : x = L[e][k]
    BY <1>2, <2>2
  <2>4. QED
    BY <2>3, ElementsDef
<1>5. QED
  BY <1>3, <1>4
-----------------------------------------------------------------------------
(* The lists of the module.                                                *)

(* Where each list is.                                                     *)
LEMMA ListsFacts ==
  /\ Places = Threads \cup {0, N + 1} /\ 0 # N + 1
  /\ 0 \notin Threads /\ N + 1 \notin Threads
  /\ Lists[0] = done /\ Lists[N + 1] = complete
  /\ \A t \in Threads : Lists[t] = commands[t]
<1>1. /\ Places = Threads \cup {0, N + 1} /\ 0 # N + 1
      /\ 0 \notin Threads /\ N + 1 \notin Threads
  BY ThreadAssumption DEF Places, Threads
<1>2. QED
  BY <1>1 DEF Lists, Places

(* The lists of a state hold commands.                                     *)
LEMMA ListsType == ASSUME TypeOK PROVE Lists \in [Places -> Seq(Commands)]
<1>1. \A a \in Places : Lists[a] \in Seq(Commands)
  BY ListsFacts DEF TypeOK
<1>2. QED
  BY <1>1 DEF Lists, Places

(* CommandOnce in terms of the lists.                                      *)
LEMMA OnceDef ==
  CommandOnce <=>
    /\ Disjoint(Lists)
    /\ \A t \in Threads : held[t] # NoCommand =>
         held[t] \notin Elements(Lists) /\ \A u \in Threads \ {t} : held[u] # held[t]
  BY DEF CommandOnce, Disjoint, Elements, Places, Used

(* A step that leaves the lists and what threads hold.                     *)
LEMMA SameOnce ==
  ASSUME CommandOnce, UNCHANGED <<commands, held, complete, done>> PROVE CommandOnce'
<1>1. Lists' = Lists
  BY DEF Lists
<1>2. Used' = Used
  BY <1>1 DEF Used
<1>3. QED
  BY <1>1, <1>2 DEF CommandOnce

-----------------------------------------------------------------------------
(* The actions of the main thread.                                         *)

(* A command that is pushed is in no list and held by nobody.              *)
LEMMA PushOnce ==
  ASSUME TypeOK, CommandOnce, NEW t \in Threads, NEW c \in Commands, Push(t, c)
  PROVE  CommandOnce'
<1>1. /\ commands' = [commands EXCEPT ![t] = Append(commands[t], c)]
      /\ c \notin Elements(Lists) /\ \A u \in Threads : held[u] # c
      /\ UNCHANGED <<held, complete, done>>
  BY DEF Push, Used, Elements, Places
<1>2. Lists' = [Lists EXCEPT ![t] = Append(@, c)]
  <2>1. commands' \in [Threads -> Seq(Commands)] /\ commands \in [Threads -> Seq(Commands)]
    BY <1>1, AppendProperties DEF TypeOK
  <2>2. \A a \in Places : Lists'[a] = IF a = t THEN Append(Lists[a], c) ELSE Lists[a]
    BY <1>1, <2>1, ListsFacts DEF Lists, Places
  <2>3. QED
    BY <2>2, ListsType DEF Lists, Places
<1>3. Disjoint(Lists')
  BY <1>1, <1>2, ListsType, ListsFacts, AppendDisjoint, OnceDef
<1>4. \A x : x \in Elements(Lists') => x \in Elements(Lists) \/ x = c
  BY <1>1, <1>2, ListsType, ListsFacts, AppendDisjoint, OnceDef
<1>5. \A u \in Threads : held[u] # NoCommand => held[u] \notin Elements(Lists')
  BY <1>1, <1>4, OnceDef
<1>6. QED
  BY <1>1, <1>3, <1>5, OnceDef DEF CommandOnce, Disjoint, Elements, Places, Used

(* Push wakes the thread when the list was empty.                          *)
LEMMA PushInv ==
  ASSUME ThreadInv, NEW t \in Threads, NEW c \in Commands, Push(t, c) PROVE ThreadInv'
<1>1. /\ commands \in [Threads -> Seq(Commands)] /\ commands[t] \in Seq(Commands)
      /\ commands' = [commands EXCEPT ![t] = Append(commands[t], c)]
      /\ pc' = Notified(t, First(t))
      /\ UNCHANGED <<held, terminate, running, complete, done, main, freed>>
  BY DEF ThreadInv, TypeOK, Push
<1>2. commands' \in [Threads -> Seq(Commands)]
  BY <1>1, AppendProperties
<1>3. \A u \in Threads : pc'[u] = pc[u] \/ (pc[u] = "wait" /\ pc'[u] = "woken")
  BY <1>1 DEF Notified, ThreadInv, TypeOK
<1>4. pc[t] = "wait" => pc'[t] = "woken"
  <2>1. SUFFICES ASSUME pc[t] = "wait" PROVE pc'[t] = "woken"
    OBVIOUS
  <2>2. commands[t] = <<>>
    BY <2>1 DEF ThreadInv, NoSleepOnWork
  <2>3. First(t)
    BY <2>2 DEF First
  <2>4. QED
    BY <1>1, <2>1, <2>3 DEF Notified, ThreadInv, TypeOK
<1>5. TypeOK'
  <2>1. pc' \in [Threads -> {"start", "outer", "inner", "lock", "wait", "woken", "execute",
                             "leave", "guard", "ended"}]
    BY <1>1 DEF Notified, ThreadInv, TypeOK
  <2>2. QED
    BY <1>1, <1>2, <2>1 DEF ThreadInv, TypeOK
<1>6. NoSleepOnWork'
  BY <1>1, <1>3, <1>4 DEF ThreadInv, NoSleepOnWork
<1>7. FreedAfterUse'
  BY <1>1, <1>3 DEF ThreadInv, TypeOK, FreedAfterUse
<1>8. QED
  BY <1>5, <1>6, <1>7, PushOnce DEF ThreadInv

(* Process moves a list.                                                   *)
LEMMA ProcessInv == ASSUME ThreadInv, Process PROVE ThreadInv'
<1>1. /\ done \in Seq(Commands) /\ complete \in Seq(Commands)
      /\ done' = done \o complete /\ complete' = <<>>
      /\ UNCHANGED <<pc, commands, held, terminate, running, main, freed>>
  BY DEF ThreadInv, TypeOK, Process
<1>2. done' \in Seq(Commands) /\ complete' \in Seq(Commands)
  BY <1>1, ConcatProperties, EmptySeq
<1>3. TypeOK'
  BY <1>1, <1>2 DEF ThreadInv, TypeOK
<1>4. Disjoint(Lists') /\ \A x : x \in Elements(Lists') => x \in Elements(Lists)
  <2>1. Lists' \in [Places -> Seq(Commands)] /\ Lists \in [Places -> Seq(Commands)]
    <3>1. \A a \in Places : Lists'[a] \in Seq(Commands)
      BY <1>1, <1>2, ListsFacts DEF Lists, Places, ThreadInv, TypeOK
    <3>2. QED
      BY <3>1, ListsType DEF ThreadInv, Lists, Places
  <2>2. /\ Lists'[0] = Lists[0] \o Lists[N + 1] /\ Lists'[N + 1] = <<>>
        /\ \A d \in Places \ {0, N + 1} : Lists'[d] = Lists[d]
    BY <1>1, ListsFacts DEF Lists, Places
  <2>3. 0 \in Places /\ N + 1 \in Places /\ 0 # N + 1 /\ Disjoint(Lists)
    BY ListsFacts, OnceDef DEF ThreadInv
  <2>4. QED
    BY <2>1, <2>2, <2>3, ConcatDisjoint
<1>5. \A u \in Threads : held[u] # NoCommand => held[u] \notin Elements(Lists')
  BY <1>4, OnceDef DEF ThreadInv
<1>6. CommandOnce'
  BY <1>1, <1>4, <1>5, OnceDef DEF ThreadInv, CommandOnce, Disjoint, Elements, Places, Used
<1>7. QED
  BY <1>1, <1>3, <1>6 DEF ThreadInv, NoSleepOnWork, FreedAfterUse

(* Terminate goes on to a thread, or is done.                              *)
LEMMA NextThreadType ==
  ASSUME NEW t \in 0 .. N
  PROVE  \/ NextThread(t) \in [thread : Threads, at : {"terminate", "notify", "join"}]
         \/ NextThread(t) = [thread |-> N + 1, at |-> "gone"]
  BY ThreadAssumption DEF NextThread, Threads

(* The steps of Terminate: an object is deleted when its thread has ended. *)
LEMMA TerminateInv ==
  ASSUME ThreadInv, BeginTerminate \/ SetTerminate \/ NotifyAll \/ Join PROVE ThreadInv'
<1>1. main.at \in {"terminate", "notify", "join"} =>
        main \in [thread : Threads, at : {"terminate", "notify", "join"}]
  BY DEF ThreadInv, TypeOK
<1>2. CommandOnce'
  BY SameOnce DEF ThreadInv, BeginTerminate, SetTerminate, NotifyAll, Join
<1>3. CASE BeginTerminate
  <2>1. 0 \in 0 .. N
    BY ThreadAssumption
  <2>2. TypeOK'
    BY <1>3, <2>1, NextThreadType DEF ThreadInv, TypeOK, BeginTerminate
  <2>3. QED
    BY <1>2, <1>3, <2>2 DEF ThreadInv, NoSleepOnWork, FreedAfterUse, BeginTerminate
<1>4. CASE SetTerminate
  <2>1. TypeOK'
    BY <1>1, <1>4 DEF ThreadInv, TypeOK, SetTerminate
  <2>2. QED
    BY <1>2, <1>4, <2>1 DEF ThreadInv, NoSleepOnWork, FreedAfterUse, SetTerminate
<1>5. CASE NotifyAll
  <2>1. \A u \in Threads : pc'[u] = pc[u] \/ (pc[u] = "wait" /\ pc'[u] = "woken")
    BY <1>5 DEF ThreadInv, TypeOK, NotifyAll, Notified
  <2>2. pc' \in [Threads -> {"start", "outer", "inner", "lock", "wait", "woken", "execute",
                             "leave", "guard", "ended"}]
    BY <1>5 DEF ThreadInv, TypeOK, NotifyAll, Notified
  <2>3. main' \in [thread : Threads, at : {"terminate", "notify", "join"}]
    BY <1>1, <1>5 DEF NotifyAll
  <2>4. TypeOK'
    BY <1>5, <2>2, <2>3 DEF ThreadInv, TypeOK, NotifyAll
  <2>5. QED
    BY <1>2, <1>5, <2>1, <2>4 DEF ThreadInv, TypeOK, NoSleepOnWork, FreedAfterUse, NotifyAll
<1>6. CASE Join
  <2>1. main.thread \in Threads /\ main.thread \in 0 .. N
    BY <1>1, <1>6 DEF Join, Threads
  <2>2. TypeOK'
    BY <1>6, <2>1, NextThreadType DEF ThreadInv, TypeOK, Join
  <2>3. QED
    BY <1>2, <1>6, <2>2 DEF ThreadInv, NoSleepOnWork, FreedAfterUse, Join
<1>7. QED
  BY <1>3, <1>4, <1>5, <1>6
-----------------------------------------------------------------------------
(* The actions of a thread.                                                *)

(* A step that only moves a thread, not to its wait and not from its end.  *)
LEMMA MoveInv ==
  ASSUME ThreadInv, NEW t \in Threads,
         NEW to \in {"outer", "inner", "lock", "woken", "execute", "leave", "guard", "ended"},
         pc' = [pc EXCEPT ![t] = to], pc[t] # "ended",
         NEW B \in BOOLEAN, running' = running \/ running' = [running EXCEPT ![t] = B],
         UNCHANGED <<terminate, main, freed>>
  PROVE  /\ commands' = commands => NoSleepOnWork'
         /\ FreedAfterUse'
         /\ /\ commands' \in [Threads -> Seq(Commands)]
            /\ held' \in [Threads -> Commands \cup {NoCommand}]
            /\ complete' \in Seq(Commands) /\ done' \in Seq(Commands)
            => TypeOK'
<1>1. /\ pc' \in [Threads -> {"start", "outer", "inner", "lock", "wait", "woken", "execute",
                             "leave", "guard", "ended"}]
      /\ running' \in [Threads -> BOOLEAN]
  BY DEF ThreadInv, TypeOK
<1>2. pc'[t] = to /\ \A u \in Threads : u # t => pc'[u] = pc[u]
  BY DEF ThreadInv, TypeOK
<1>3. commands' = commands => NoSleepOnWork'
  BY <1>2 DEF ThreadInv, NoSleepOnWork
<1>4. FreedAfterUse'
  BY <1>2 DEF ThreadInv, TypeOK, FreedAfterUse
<1>5. QED
  BY <1>1, <1>3, <1>4 DEF ThreadInv, TypeOK

(* A thread lets go of what it holds.                                      *)
LEMMA DropOnce ==
  ASSUME TypeOK, CommandOnce, NEW t \in Threads,
         held' = held \/ held' = [held EXCEPT ![t] = NoCommand],
         UNCHANGED <<commands, complete, done>>
  PROVE  CommandOnce'
<1>1. Lists' = Lists
  BY DEF Lists
<1>2. Used' = Used
  BY <1>1 DEF Used
<1>3. \A u \in Threads : held'[u] = held[u] \/ held'[u] = NoCommand
  BY DEF TypeOK
<1>4. QED
  BY <1>1, <1>2, <1>3 DEF CommandOnce

(* The tests of the loops, and the way out.                                *)
LEMMA LoopInv ==
  ASSUME ThreadInv, NEW t \in Threads, Begin(t) \/ OuterTest(t) \/ InnerTest(t) \/ Leave(t)
  PROVE  ThreadInv'
<1>1. /\ held' = held \/ held' = [held EXCEPT ![t] = NoCommand]
      /\ UNCHANGED <<commands, terminate, complete, done, main, freed>>
  BY DEF Begin, OuterTest, InnerTest, Leave
<1>2. PICK to \in {"outer", "inner", "lock", "woken", "execute", "leave", "guard", "ended"} :
        pc' = [pc EXCEPT ![t] = to] /\ pc[t] # "ended"
  BY DEF Begin, OuterTest, InnerTest, Leave, At
<1>3. PICK B \in BOOLEAN : running' = running \/ running' = [running EXCEPT ![t] = B]
  BY DEF Begin, OuterTest, InnerTest, Leave
<1>4. /\ commands' \in [Threads -> Seq(Commands)] /\ complete' \in Seq(Commands)
      /\ done' \in Seq(Commands) /\ held' \in [Threads -> Commands \cup {NoCommand}]
  BY <1>1 DEF ThreadInv, TypeOK
<1>5. TypeOK' /\ NoSleepOnWork' /\ FreedAfterUse'
  BY <1>1, <1>2, <1>3, <1>4, MoveInv
<1>6. CommandOnce'
  BY <1>1, DropOnce DEF ThreadInv
<1>7. QED
  BY <1>5, <1>6 DEF ThreadInv

(* A command that is taken is in no list any more; nobody else holds it.   *)
LEMMA TakeOnce ==
  ASSUME TypeOK, CommandOnce, NEW t \in Threads, commands[t] # <<>>,
         held' = [held EXCEPT ![t] = Head(commands[t])],
         commands' = [commands EXCEPT ![t] = Tail(commands[t])],
         UNCHANGED <<complete, done>>
  PROVE  CommandOnce'
<1> DEFINE c == Head(commands[t])
<1>1. Lists' = [Lists EXCEPT ![t] = Tail(@)]
  <2>1. \A a \in Places : Lists'[a] = IF a = t THEN Tail(Lists[a]) ELSE Lists[a]
    BY ListsFacts DEF TypeOK, Lists, Places
  <2>2. QED
    BY <2>1, ListsType DEF Lists, Places
<1>2. /\ Disjoint(Lists') /\ \A x : x \in Elements(Lists') => x \in Elements(Lists)
      /\ c \in Elements(Lists) /\ c \notin Elements(Lists')
  BY <1>1, ListsType, ListsFacts, OnceDef, TailDisjoint
<1>3. held'[t] = c /\ \A u \in Threads : u # t => held'[u] = held[u]
  BY DEF TypeOK
<1> HIDE DEF c
<1>4. c # NoCommand
  <2>1. commands[t] \in Seq(Commands) /\ commands[t] # <<>>
    BY DEF TypeOK
  <2>2. QED
    BY <2>1, HeadTailProperties, ThreadAssumption DEF c
<1>5. \A u \in Threads : held'[u] # NoCommand =>
        held'[u] \notin Elements(Lists') /\ \A v \in Threads \ {u} : held'[v] # held'[u]
  <2> SUFFICES ASSUME NEW u \in Threads, held'[u] # NoCommand
               PROVE  held'[u] \notin Elements(Lists') /\ \A v \in Threads \ {u} : held'[v] # held'[u]
    OBVIOUS
  <2>1. \A v \in Threads : v # t => held[v] # c
    BY <1>2, <1>4, OnceDef
  <2>2. CASE u = t
    BY <1>2, <1>3, <2>1, <2>2
  <2>3. CASE u # t
    BY <1>2, <1>3, <2>1, <2>3, OnceDef
  <2>4. QED
    BY <2>2, <2>3
<1>6. QED
  BY <1>2, <1>5 DEF CommandOnce, Disjoint, Elements, Places, Used

(* The critical section: a thread waits only when its list is empty.       *)
LEMMA CriticalInv == ASSUME ThreadInv, NEW t \in Threads, Critical(t) PROVE ThreadInv'
<1>0. UNCHANGED <<terminate, running, complete, done, main, freed>>
  BY DEF Critical
<1>1. CASE /\ commands[t] = <<>> /\ At(t, "lock", "wait") /\ UNCHANGED <<commands, held>>
  <2>1. TypeOK'
    BY <1>0, <1>1 DEF ThreadInv, TypeOK, At
  <2>2. NoSleepOnWork' /\ FreedAfterUse'
    BY <1>0, <1>1 DEF ThreadInv, TypeOK, NoSleepOnWork, FreedAfterUse, At
  <2>3. QED
    BY <1>0, <1>1, <2>1, <2>2, SameOnce DEF ThreadInv
<1>2. CASE /\ commands[t] = <<>> /\ At(t, "woken", "inner") /\ UNCHANGED <<commands, held>>
  <2>1. TypeOK'
    BY <1>0, <1>2 DEF ThreadInv, TypeOK, At
  <2>2. NoSleepOnWork' /\ FreedAfterUse'
    BY <1>0, <1>2 DEF ThreadInv, TypeOK, NoSleepOnWork, FreedAfterUse, At
  <2>3. QED
    BY <1>0, <1>2, <2>1, <2>2, SameOnce DEF ThreadInv
<1>3. CASE /\ commands[t] # <<>>
           /\ At(t, "lock", "inner") \/ At(t, "woken", "inner")
           /\ held' = [held EXCEPT ![t] = Head(commands[t])]
           /\ commands' = [commands EXCEPT ![t] = Rest(t)]
  <2>1. commands[t] \in Seq(Commands) /\ commands[t] # <<>>
    BY <1>3 DEF ThreadInv, TypeOK
  <2>2. Head(commands[t]) \in Commands /\ Tail(commands[t]) \in Seq(Commands)
    BY <2>1, HeadTailProperties
  <2>3. /\ commands' \in [Threads -> Seq(Commands)]
        /\ held' \in [Threads -> Commands \cup {NoCommand}]
    BY <1>3, <2>2 DEF ThreadInv, TypeOK, Rest
  <2>4. pc' = [pc EXCEPT ![t] = "inner"] /\ pc[t] # "ended"
    BY <1>3 DEF At
  <2>5. TypeOK'
    BY <1>0, <2>3, <2>4 DEF ThreadInv, TypeOK
  <2>6. NoSleepOnWork' /\ FreedAfterUse'
    <3>1. pc'[t] = "inner" /\ \A u \in Threads : u # t => pc'[u] = pc[u] /\ commands'[u] = commands[u]
      BY <1>3, <2>4 DEF ThreadInv, TypeOK
    <3>2. QED
      BY <1>0, <2>4, <3>1 DEF ThreadInv, TypeOK, NoSleepOnWork, FreedAfterUse
  <2>7. QED
    BY <1>0, <1>3, <2>5, <2>6, TakeOnce DEF ThreadInv, Rest
<1>4. QED
  BY <1>1, <1>2, <1>3 DEF Critical, Take

(* A wake-up without a notification.                                       *)
LEMMA SpuriousInv == ASSUME ThreadInv, NEW t \in Threads, Spurious(t) PROVE ThreadInv'
<1>1. TypeOK'
  BY DEF ThreadInv, TypeOK, Spurious, At
<1>2. NoSleepOnWork' /\ FreedAfterUse'
  BY DEF ThreadInv, TypeOK, NoSleepOnWork, FreedAfterUse, Spurious, At
<1>3. CommandOnce'
  BY SameOnce DEF ThreadInv, Spurious
<1>4. QED
  BY <1>1, <1>2, <1>3 DEF ThreadInv

(* The command that was held is in the list of completed ones.             *)
LEMMA ExecuteOnce ==
  ASSUME TypeOK, CommandOnce, NEW t \in Threads, held[t] # NoCommand,
         complete' = Append(complete, held[t]),
         held' = [held EXCEPT ![t] = NoCommand], UNCHANGED <<commands, done>>
  PROVE  CommandOnce'
<1>1. PICK c \in Commands : c = held[t]
  BY DEF TypeOK
<1>2. Lists' = [Lists EXCEPT ![N + 1] = Append(@, c)]
  <2>1. \A a \in Places : Lists'[a] = IF a = N + 1 THEN Append(Lists[a], c) ELSE Lists[a]
    BY <1>1, ListsFacts DEF Lists, Places
  <2>2. QED
    BY <2>1, ListsType DEF Lists, Places
<1>3. /\ Disjoint(Lists') /\ \A x : x \in Elements(Lists') => x \in Elements(Lists) \/ x = c
  <2>1. c \notin Elements(Lists) /\ Disjoint(Lists) /\ N + 1 \in Places
    BY <1>1, OnceDef, ListsFacts
  <2>2. QED
    BY <1>2, <2>1, ListsType, AppendDisjoint
<1>4. held'[t] = NoCommand /\ \A u \in Threads : u # t => held'[u] = held[u]
  BY DEF TypeOK
<1>5. \A u \in Threads : held'[u] # NoCommand =>
        held'[u] \notin Elements(Lists') /\ \A v \in Threads \ {u} : held'[v] # held'[u]
  <2> SUFFICES ASSUME NEW u \in Threads, held'[u] # NoCommand
               PROVE  held'[u] \notin Elements(Lists') /\ \A v \in Threads \ {u} : held'[v] # held'[u]
    OBVIOUS
  <2>1. u # t /\ held'[u] = held[u]
    BY <1>4
  <2>2. held[u] # c /\ held[u] \notin Elements(Lists) /\ \A v \in Threads \ {u} : held[v] # held[u]
    BY <1>1, <2>1, OnceDef
  <2>3. QED
    BY <1>3, <1>4, <2>1, <2>2
<1>6. QED
  BY <1>3, <1>5 DEF CommandOnce, Disjoint, Elements, Places, Used

(* Execute and AddToComplete.                                              *)
LEMMA ExecuteInv == ASSUME ThreadInv, NEW t \in Threads, Execute(t) PROVE ThreadInv'
<1>1. /\ pc' = [pc EXCEPT ![t] = "outer"] /\ pc[t] # "ended"
      /\ complete' = IF held[t] = NoCommand THEN complete ELSE Append(complete, held[t])
      /\ held' = [held EXCEPT ![t] = NoCommand]
      /\ UNCHANGED <<commands, terminate, running, done, main, freed>>
  BY DEF Execute, At
<1>2. held[t] = NoCommand \/ held[t] \in Commands
  BY DEF ThreadInv, TypeOK
<1>3. complete' \in Seq(Commands) /\ held' \in [Threads -> Commands \cup {NoCommand}]
  BY <1>1, <1>2, AppendProperties DEF ThreadInv, TypeOK
<1>4. TypeOK'
  BY <1>1, <1>3 DEF ThreadInv, TypeOK
<1>5. NoSleepOnWork' /\ FreedAfterUse'
  BY <1>1 DEF ThreadInv, TypeOK, NoSleepOnWork, FreedAfterUse
<1>6. CommandOnce'
  BY <1>1, <1>2, ExecuteOnce, DropOnce DEF ThreadInv
<1>7. QED
  BY <1>4, <1>5, <1>6 DEF ThreadInv

-----------------------------------------------------------------------------
(* The invariant holds initially.                                          *)
LEMMA InitInv == Init => ThreadInv
<1> SUFFICES ASSUME Init PROVE ThreadInv
  OBVIOUS
<1>1. TypeOK
  BY EmptySeq DEF Init, TypeOK
<1>2. NoSleepOnWork /\ FreedAfterUse
  BY DEF Init, NoSleepOnWork, FreedAfterUse
<1>3. CommandOnce
  <2>1. \A a \in Places : Lists[a] = <<>>
    BY ListsFacts DEF Init
  <2>2. \A a \in Places : DOMAIN Lists[a] = {}
    BY <2>1, EmptySeq
  <2>3. QED
    BY <2>2 DEF Init, CommandOnce, Places
<1>4. QED
  BY <1>1, <1>2, <1>3 DEF ThreadInv

(* Every step keeps it.                                                    *)
LEMMA NextInv == ThreadInv /\ [Next]_vars => ThreadInv'
<1> SUFFICES ASSUME ThreadInv, [Next]_vars PROVE ThreadInv'
  OBVIOUS
<1>1. CASE Main
  BY <1>1, ProcessInv, TerminateInv DEF Main
<1>2. CASE \E t \in Threads : ThreadProc(t) \/ Spurious(t)
  BY <1>2, LoopInv, CriticalInv, ExecuteInv, SpuriousInv DEF ThreadProc
<1>3. CASE \E t \in Threads : \E c \in Commands : Push(t, c)
  BY <1>3, PushInv
<1>4. CASE UNCHANGED vars
  <2>1. CommandOnce'
    BY <1>4, SameOnce DEF ThreadInv, vars
  <2>2. QED
    BY <1>4, <2>1 DEF ThreadInv, TypeOK, NoSleepOnWork, FreedAfterUse, vars
<1>5. QED
  BY <1>1, <1>2, <1>3, <1>4 DEF Next

(* The invariant holds in every reachable state.                           *)
LEMMA ThreadInvHolds == Spec => []ThreadInv
BY InitInv, NextInv, PTL DEF Spec

(* TypeOK holds for any number of threads and commands; in particular      *)
(* Terminate never steps past the last thread.                             *)
THEOREM TypeCorrect == Spec => []TypeOK
<1>1. ThreadInv => TypeOK
  BY DEF ThreadInv
<1>2. QED
  BY <1>1, ThreadInvHolds, PTL

(* NoSleepOnWork: no wake-up is lost although Push notifies only for the   *)
(* first command of a list and a thread may wake for no reason.            *)
THEOREM NoLostWakeup == Spec => []NoSleepOnWork
<1>1. ThreadInv => NoSleepOnWork
  BY DEF ThreadInv
<1>2. QED
  BY <1>1, ThreadInvHolds, PTL

(* FreedAfterUse: Terminate deletes a Thread object only when its thread   *)
(* has run the last line of ThreadProc, the guard's destructor included.   *)
THEOREM DeletedAfterEnd == Spec => []FreedAfterUse
<1>1. ThreadInv => FreedAfterUse
  BY DEF ThreadInv
<1>2. QED
  BY <1>1, ThreadInvHolds, PTL

(* CommandOnce: no command is executed by two threads or completed twice,  *)
(* for any number of threads and commands.                                 *)
THEOREM CommandsNotShared == Spec => []CommandOnce
<1>1. ThreadInv => CommandOnce
  BY DEF ThreadInv
<1>2. QED
  BY <1>1, ThreadInvHolds, PTL
=============================================================================
