----------------------------- MODULE ThreadModule -----------------------------
(***************************************************************************)
(* Command threads (ThreadModule.h), which the Http module uses: the main  *)
(* thread pushes commands, each to the list of one thread, and terminates  *)
(* the threads one after the other.  Lists are guarded by a mutex, so a    *)
(* critical section is a step; _terminate and _running are plain Booleans  *)
(* that one thread writes and the other polls, each access a step.         *)
(***************************************************************************)
EXTENDS Naturals, FiniteSets, SequencesExt

CONSTANTS
  N,          \* the number of threads
  Commands,   \* bound: commands that exist at a time
  NoCommand

Threads == 1 .. N

ASSUME ThreadAssumption == N \in Nat /\ NoCommand \notin Commands

VARIABLES
  pc,         \* where each thread is in ThreadProc
  commands,   \* Thread::_runningCommands
  held,       \* the local variable "command" of ThreadProc
  terminate,  \* Thread::_terminate
  running,    \* Thread::_running
  complete,   \* ThreadModule::_completeCommands
  done,       \* the commands given to Complete
  main,       \* the main thread: the thread it terminates and how far it is
  freed       \* the Thread objects deleted

vars == <<pc, commands, held, terminate, running, complete, done, main, freed>>

(* ThreadModule::Start and Thread::Start.                                  *)
Init ==
  /\ pc = [t \in Threads |-> "start"]
  /\ commands = [t \in Threads |-> <<>>]
  /\ held = [t \in Threads |-> NoCommand]
  /\ terminate = [t \in Threads |-> FALSE]
  /\ running = [t \in Threads |-> TRUE]
  /\ complete = <<>>
  /\ done = <<>>
  /\ main = [thread |-> 0, at |-> "loop"]
  /\ freed = {}

-----------------------------------------------------------------------------
(* The main thread.                                                        *)

(* The lists that commands are in: given to Complete, waiting for that,    *)
(* and those of the threads.  One that a thread has replaced is lost.      *)
Lists == [a \in 0 .. N + 1 |-> IF a = 0 THEN done ELSE IF a = N + 1 THEN complete ELSE commands[a]]

Used == UNION {ToSet(Lists[a]) : a \in 0 .. N + 1}

(* A waiting thread is woken by a notification.                            *)
Notified(t, on) == IF on /\ pc[t] = "wait" THEN [pc EXCEPT ![t] = "woken"] ELSE pc

(* Mutant: the size is tested before the command is in the list.           *)
FirstEarly(t) == Len(commands[t]) = 1

(* Thread::Push notifies for the first command of the list.                *)
First(t) == Len(commands[t]) + 1 = 1

(* ThreadModule::Push.                                                     *)
Push(t, c) ==
  /\ main.at = "loop"
  /\ c \notin Used \cup {held[u] : u \in Threads}
  /\ commands' = [commands EXCEPT ![t] = Append(@, c)]
  /\ pc' = Notified(t, First(t))
  /\ UNCHANGED <<held, terminate, running, complete, done, main, freed>>

(* ThreadModule::Process: swap the list, then Complete every command.      *)
Process ==
  /\ main.at = "loop"
  /\ done' = done \o complete
  /\ complete' = <<>>
  /\ UNCHANGED <<pc, commands, held, terminate, running, main, freed>>

(* ThreadModule::Terminate goes to the next thread.                        *)
NextThread(t) == [thread |-> t + 1, at |-> IF t = N THEN "gone" ELSE "terminate"]

BeginTerminate ==
  /\ main.at = "loop"
  /\ main' = NextThread(0)
  /\ UNCHANGED <<pc, commands, held, terminate, running, complete, done, freed>>

(* Thread::Terminate.                                                      *)
SetTerminate ==
  /\ main.at = "terminate"
  /\ terminate' = [terminate EXCEPT ![main.thread] = TRUE]
  /\ main' = [main EXCEPT !.at = "notify"]
  /\ UNCHANGED <<pc, commands, held, running, complete, done, freed>>

(* Mutant: one notification, then wait for the thread.                     *)
NotifyOnce ==
  /\ main.at = "notify"
  /\ pc' = Notified(main.thread, TRUE)
  /\ main' = [main EXCEPT !.at = "join"]
  /\ UNCHANGED <<commands, held, terminate, running, complete, done, freed>>

(* while (_running) notify_all().                                          *)
NotifyAll ==
  /\ main.at = "notify"
  /\ pc' = Notified(main.thread, running[main.thread])
  /\ main' = IF running[main.thread] THEN main ELSE [main EXCEPT !.at = "join"]
  /\ UNCHANGED <<commands, held, terminate, running, complete, done, freed>>

(* Mutant: the object is deleted when _running is false.                   *)
JoinNot ==
  /\ main.at = "join"
  /\ freed' = freed \cup {main.thread}
  /\ main' = NextThread(main.thread)
  /\ UNCHANGED <<pc, commands, held, terminate, running, complete, done>>

(* join, then Release and delete.                                          *)
Join ==
  /\ main.at = "join" /\ pc[main.thread] = "ended"
  /\ freed' = freed \cup {main.thread}
  /\ main' = NextThread(main.thread)
  /\ UNCHANGED <<pc, commands, held, terminate, running, complete, done>>

-----------------------------------------------------------------------------
(* ThreadProc.                                                             *)

At(t, from, to) == pc[t] = from /\ pc' = [pc EXCEPT ![t] = to]

Begin(t) ==
  /\ At(t, "start", "outer")
  /\ running' = [running EXCEPT ![t] = TRUE]
  /\ UNCHANGED <<commands, held, terminate, complete, done, main, freed>>

OuterTest(t) ==
  /\ At(t, "outer", IF terminate[t] THEN "leave" ELSE "inner")
  /\ held' = IF terminate[t] THEN held ELSE [held EXCEPT ![t] = NoCommand]
  /\ UNCHANGED <<commands, terminate, running, complete, done, main, freed>>

InnerTest(t) ==
  /\ At(t, "inner", IF terminate[t] THEN "execute" ELSE "lock")
  /\ UNCHANGED <<commands, held, terminate, running, complete, done, main, freed>>

(* Mutant: the command stays in the list.                                  *)
RestAll(t) == commands[t]

(* pop_front.                                                              *)
Rest(t) == Tail(commands[t])

(* The critical section: wait for a command, or take one, which replaces   *)
(* one taken before.                                                       *)
Take(t) ==
  \/ /\ commands[t] = <<>>
     /\ At(t, "lock", "wait")
     /\ UNCHANGED <<commands, held>>
  \/ /\ commands[t] # <<>>
     /\ At(t, "lock", "inner") \/ At(t, "woken", "inner")
     /\ held' = [held EXCEPT ![t] = Head(commands[t])]
     /\ commands' = [commands EXCEPT ![t] = Rest(t)]
  \/ /\ commands[t] = <<>>
     /\ At(t, "woken", "inner")
     /\ UNCHANGED <<commands, held>>

Critical(t) == Take(t) /\ UNCHANGED <<terminate, running, complete, done, main, freed>>

(* A condition variable may wake a thread without a notification.          *)
Spurious(t) ==
  /\ At(t, "wait", "woken")
  /\ UNCHANGED <<commands, held, terminate, running, complete, done, main, freed>>

(* Execute, then AddToComplete.                                            *)
Execute(t) ==
  /\ At(t, "execute", "outer")
  /\ complete' = IF held[t] = NoCommand THEN complete ELSE Append(complete, held[t])
  /\ held' = [held EXCEPT ![t] = NoCommand]
  /\ UNCHANGED <<commands, terminate, running, done, main, freed>>

(* _running = false, and again in the destructor of the guard.             *)
Leave(t) ==
  /\ At(t, "leave", "guard") \/ At(t, "guard", "ended")
  /\ running' = [running EXCEPT ![t] = FALSE]
  /\ UNCHANGED <<commands, held, terminate, complete, done, main, freed>>

-----------------------------------------------------------------------------
Main == BeginTerminate \/ SetTerminate \/ NotifyAll \/ Join \/ Process

ThreadProc(t) ==
  Begin(t) \/ OuterTest(t) \/ InnerTest(t) \/ Critical(t) \/ Execute(t) \/ Leave(t)

Next ==
  \/ Main
  \/ \E t \in Threads : ThreadProc(t) \/ Spurious(t) \/ \E c \in Commands : Push(t, c)

Spec == Init /\ [][Next]_vars

(* The threads are scheduled, and so is the main thread in Terminate.      *)
Fairness ==
  /\ WF_vars(SetTerminate) /\ WF_vars(NotifyAll) /\ WF_vars(Join)
  /\ \A t \in Threads : WF_vars(ThreadProc(t))

FairSpec == Spec /\ Fairness

-----------------------------------------------------------------------------
(* Types; Terminate works on one of the threads while it has any left.     *)
TypeOK ==
  /\ pc \in [Threads -> {"start", "outer", "inner", "lock", "wait", "woken", "execute",
                         "leave", "guard", "ended"}]
  /\ commands \in [Threads -> Seq(Commands)]
  /\ held \in [Threads -> Commands \cup {NoCommand}]
  /\ terminate \in [Threads -> BOOLEAN] /\ running \in [Threads -> BOOLEAN]
  /\ complete \in Seq(Commands) /\ done \in Seq(Commands)
  /\ \/ main = [thread |-> 0, at |-> "loop"]
     \/ main \in [thread : Threads, at : {"terminate", "notify", "join"}]
     \/ main = [thread |-> N + 1, at |-> "gone"]
  /\ freed \subseteq Threads

(* A thread does not sleep while its list has a command: Push notifies     *)
(* only for the first one.                                                 *)
NoSleepOnWork == \A t \in Threads : pc[t] = "wait" => commands[t] = <<>>

(* A thread has left ThreadProc when its Thread object is deleted, also    *)
(* the guard that writes _running on the way out.                          *)
FreedAfterUse == \A t \in freed : pc[t] = "ended"

(* A command is in one list, held by one thread, or given to Complete, and *)
(* never twice.                                                            *)
CommandOnce ==
  /\ \A a, b \in 0 .. N + 1 : \A i \in DOMAIN Lists[a], j \in DOMAIN Lists[b] :
       Lists[a][i] = Lists[b][j] => a = b /\ i = j
  /\ \A t \in Threads : held[t] # NoCommand =>
       held[t] \notin Used /\ \A u \in Threads \ {t} : held[u] # held[t]

(* Terminate returns although _terminate may be set between a thread's     *)
(* test of it and its wait.                                                *)
TerminateReturns == main.at # "loop" ~> main.at = "gone"
=============================================================================
