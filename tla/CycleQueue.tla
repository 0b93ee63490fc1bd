----------------------------- MODULE CycleQueue -----------------------------
(***************************************************************************)
(* olib::CycleQueue (src/public/CycleQueue.h): the ring buffer between the *)
(* main thread and a NetWorker thread.  One thread calls Push, the other   *)
(* calls Read; there is no lock, only the two volatile indices _front and  *)
(* _tail.  Every access to shared memory is a step of its own, and an item *)
(* (WorkRequest or WorkResult, src/kernel/net/NetWorker.h) is copied word  *)
(* by word, so a read that overlaps a write would return a mixture.        *)
(***************************************************************************)
EXTENDS Integers, Sequences

CONSTANTS Size,         \* the constructor's argument
          Connection,   \* the first word of an item
          Event         \* the second word of an item

ASSUME SizeAssumption == Size \in Nat

VARIABLES queue,    \* _queue: the slots
          front,    \* _front: written by the reading thread only
          tail,     \* _tail: written by the pushing thread only
          push,     \* the pushing thread: where it is in Push, and its argument
          read,     \* the reading thread: where it is in Read, and its local copy
          out,      \* the item the last successful Read returned
          aborted   \* OASSERT(false, "queue is full") ended the process

vars == <<queue, front, tail, push, read, out, aborted>>

Item == [connection : Connection, evt : Event]
Cap == Size + 1                 \* _size
Slots == 0 .. Size
(* Mutant: the index is not wrapped.                                       *)
SuccNoWrap(i) == i + 1

Succ(i) == (i + 1) % Cap

IsEmpty == front = tail
(* Mutant: the wrap-around is forgotten in the test.                       *)
IsFullNoWrap == front = tail + 1

IsFull  == front = Succ(tail)

PushPc == {"idle", "connection", "evt", "publish"}
ReadPc == {"idle", "connection", "evt", "retire"}

(* MALLOC leaves the slots uninitialised: they start with any content.     *)
Init ==
  /\ queue \in [Slots -> Item]
  /\ front = 0
  /\ tail = 0
  /\ \E t \in Item : push = [pc |-> "idle", item |-> t]
  /\ \E t \in Item : read = [pc |-> "idle", item |-> t]
  /\ out \in Item
  /\ aborted = FALSE

-----------------------------------------------------------------------------
(* Push, by the pushing thread.                                            *)

PushCheck(t) ==
  /\ push.pc = "idle"
  /\ ~IsFull
  /\ push' = [pc |-> "connection", item |-> t]
  /\ UNCHANGED <<queue, front, tail, read, out, aborted>>

PushFull ==
  /\ push.pc = "idle"
  /\ IsFull
  /\ aborted' = TRUE
  /\ UNCHANGED <<queue, front, tail, push, read, out>>

WriteConnection ==
  /\ push.pc = "connection"
  /\ queue' = [queue EXCEPT ![tail].connection = push.item.connection]
  /\ push' = [push EXCEPT !.pc = "evt"]
  /\ UNCHANGED <<front, tail, read, out, aborted>>

WriteEvent ==
  /\ push.pc = "evt"
  /\ queue' = [queue EXCEPT ![tail].evt = push.item.evt]
  /\ push' = [push EXCEPT !.pc = "publish"]
  /\ UNCHANGED <<front, tail, read, out, aborted>>

Publish ==
  /\ push.pc = "publish"
  /\ tail' = Succ(tail)
  /\ push' = [push EXCEPT !.pc = "idle"]
  /\ UNCHANGED <<queue, front, read, out, aborted>>

-----------------------------------------------------------------------------
(* Read, by the reading thread.  On an empty queue it returns false and    *)
(* changes nothing; the callers poll.                                      *)
ReadCheck ==
  /\ read.pc = "idle"
  /\ ~IsEmpty
  /\ read' = [read EXCEPT !.pc = "connection"]
  /\ UNCHANGED <<queue, front, tail, push, out, aborted>>

CopyConnection ==
  /\ read.pc = "connection"
  /\ read' = [pc |-> "evt", item |-> [read.item EXCEPT !.connection = queue[front].connection]]
  /\ UNCHANGED <<queue, front, tail, push, out, aborted>>

CopyEvent ==
  /\ read.pc = "evt"
  /\ read' = [pc |-> "retire", item |-> [read.item EXCEPT !.evt = queue[front].evt]]
  /\ UNCHANGED <<queue, front, tail, push, out, aborted>>

(* Mutant: the index is advanced before the item is copied.                *)
RetireEarly ==
  /\ read.pc = "retire"
  /\ front' = Succ(front)
  /\ out' = queue[Succ(front)]
  /\ read' = [read EXCEPT !.pc = "idle"]
  /\ UNCHANGED <<queue, tail, push, aborted>>

Retire ==
  /\ read.pc = "retire"
  /\ front' = Succ(front)
  /\ out' = read.item
  /\ read' = [read EXCEPT !.pc = "idle"]
  /\ UNCHANGED <<queue, tail, push, aborted>>

-----------------------------------------------------------------------------
PushStep == (\E t \in Item : PushCheck(t)) \/ PushFull
              \/ WriteConnection \/ WriteEvent \/ Publish

ReadStep == ReadCheck \/ CopyConnection \/ CopyEvent \/ Retire

(* An aborted process stays aborted.                                       *)
Halted == aborted /\ UNCHANGED vars

Next == (~aborted /\ (PushStep \/ ReadStep)) \/ Halted

Spec == Init /\ [][Next]_vars

-----------------------------------------------------------------------------
TypeOK ==
  /\ queue \in [Slots -> Item]
  /\ front \in Slots
  /\ tail \in Slots
  /\ push \in [pc : PushPc, item : Item]
  /\ read \in [pc : ReadPc, item : Item]
  /\ out \in Item
  /\ aborted \in BOOLEAN

(* The two threads never touch the same slot at the same time: while Push  *)
(* writes slot _tail and Read copies slot _front, the indices differ.      *)
NoSlotRace ==
  push.pc # "idle" /\ read.pc # "idle" => tail # front

(* What each thread may rely on in the middle of its operation although it *)
(* holds no lock: its check of the other's index stays true (the other     *)
(* index can only move away from it), and the slot it works on holds what  *)
(* it has copied so far.                                                   *)
PushStable ==
  push.pc # "idle" => /\ front # Succ(tail)
                      /\ push.pc \in {"evt", "publish"} =>
                           queue[tail].connection = push.item.connection
                      /\ push.pc = "publish" => queue[tail].evt = push.item.evt

ReadStable ==
  read.pc # "idle" => /\ front # tail
                      /\ read.pc \in {"evt", "retire"} =>
                           read.item.connection = queue[front].connection
                      /\ read.pc = "retire" => read.item.evt = queue[front].evt

(* The queued items, oldest first: slots _front up to, not including, _tail. *)
Count == IF front <= tail THEN tail - front ELSE tail - front + Cap
SlotAt(i) == IF front + i - 1 < Cap THEN front + i - 1 ELSE front + i - 1 - Cap
Contents == [i \in 1 .. Count |-> queue[SlotAt(i)]]

(* The ring buffer implements the FIFO queue: an item enters when Push     *)
(* publishes _tail and leaves when Read retires _front.                    *)
Abstract == INSTANCE Fifo WITH q <- Contents

FifoSpec == Abstract!Spec
=============================================================================
