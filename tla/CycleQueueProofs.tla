-------------------------- MODULE CycleQueueProofs --------------------------
(***************************************************************************)
(* CycleQueue is a FIFO queue for every size and every set of items.       *)
(***************************************************************************)
EXTENDS CycleQueue, TLAPS

(* Stepping an index is an increment with one wrap-around.                 *)
LEMMA SuccLemma == \A i \in Slots : Succ(i) = IF i = Size THEN 0 ELSE i + 1
<1>1. SUFFICES ASSUME NEW i \in Slots
               PROVE  Succ(i) = IF i = Size THEN 0 ELSE i + 1
  OBVIOUS
<1>2. CASE i = Size
  BY <1>2, SizeAssumption, SMTT(30) DEF Succ, Cap, Slots
<1>3. CASE i # Size
  BY <1>3, SizeAssumption, SMTT(30) DEF Succ, Cap, Slots
<1>4. QED BY <1>2, <1>3

-----------------------------------------------------------------------------
(* The inductive invariant: exclusion between the threads does not survive *)
(* a step on its own, it needs what each thread knows in mid-operation.    *)
Inv == TypeOK /\ PushStable /\ ReadStable

(* The invariant holds initially.                                          *)
LEMMA InitInv == Init => Inv
<1> SUFFICES ASSUME Init PROVE Inv
  OBVIOUS
<1>1. PICK t \in Item : push = [pc |-> "idle", item |-> t]
  BY DEF Init
<1>2. PICK u \in Item : read = [pc |-> "idle", item |-> u]
  BY DEF Init
<1>3. 0 \in Slots
  BY SizeAssumption DEF Slots
<1>4. TypeOK
  BY <1>1, <1>2, <1>3 DEF Init, TypeOK, PushPc, ReadPc
<1>5. QED
  BY <1>1, <1>2, <1>4 DEF Inv, PushStable, ReadStable

(* Every step keeps the variables in their types.                          *)
LEMMA TypeInductive == TypeOK /\ [Next]_vars => TypeOK'
<1> SUFFICES ASSUME TypeOK, [Next]_vars PROVE TypeOK'
  OBVIOUS
<1>0. Succ(front) \in Slots /\ Succ(tail) \in Slots
  BY SuccLemma, SizeAssumption DEF TypeOK, Slots
<1>1. ASSUME NEW t \in Item, PushCheck(t) PROVE TypeOK'
  BY <1>1 DEF TypeOK, PushCheck, PushPc
<1>2. CASE PushFull
  BY <1>2 DEF TypeOK, PushFull
<1>3. CASE WriteConnection
  BY <1>3 DEF TypeOK, WriteConnection, PushPc, Item
<1>4. CASE WriteEvent
  BY <1>4 DEF TypeOK, WriteEvent, PushPc, Item
<1>5. CASE Publish
  BY <1>5, <1>0 DEF TypeOK, Publish, PushPc
<1>6. CASE ReadCheck
  BY <1>6 DEF TypeOK, ReadCheck, ReadPc
<1>7. CASE CopyConnection
  BY <1>7 DEF TypeOK, CopyConnection, ReadPc, Item
<1>8. CASE CopyEvent
  BY <1>8 DEF TypeOK, CopyEvent, ReadPc, Item
<1>9. CASE Retire
  BY <1>9, <1>0 DEF TypeOK, Retire, ReadPc
<1>10. CASE UNCHANGED vars
  BY <1>10 DEF TypeOK, vars
<1>11. QED
  BY <1>1, <1>2, <1>3, <1>4, <1>5, <1>6, <1>7, <1>8, <1>9, <1>10
     DEF Next, PushStep, ReadStep, Halted

(* Every step keeps what the pushing thread relies on.                     *)
LEMMA PushInductive == Inv /\ [Next]_vars => PushStable'
<1> SUFFICES ASSUME Inv, [Next]_vars PROVE PushStable'
  OBVIOUS
<1> USE DEF Inv, TypeOK
<1>1. ASSUME NEW t \in Item, PushCheck(t) PROVE PushStable'
  BY <1>1 DEF PushStable, PushCheck, IsFull, Succ, Cap
<1>2. CASE PushFull
  BY <1>2 DEF PushStable, PushFull, Succ, Cap
<1>3. CASE WriteConnection
  BY <1>3 DEF PushStable, WriteConnection, Item, Succ, Cap
<1>4. CASE WriteEvent
  BY <1>4 DEF PushStable, WriteEvent, Item, Succ, Cap
<1>5. CASE Publish
  BY <1>5 DEF PushStable, Publish, Succ, Cap
<1>6. CASE ReadCheck
  BY <1>6 DEF PushStable, ReadCheck, Succ, Cap
<1>7. CASE CopyConnection
  BY <1>7 DEF PushStable, CopyConnection, Succ, Cap
<1>8. CASE CopyEvent
  BY <1>8 DEF PushStable, CopyEvent, Succ, Cap
<1>9. CASE Retire
  <2>1. front # tail /\ front' = Succ(front) /\ tail' = tail /\ queue' = queue /\ push' = push
    BY <1>9 DEF Retire, ReadStable
  <2>2. front' # Succ(tail)
    BY <2>1, SuccLemma, SizeAssumption DEF Slots
  <2>3. Succ(tail)' = Succ(tail)
    BY <2>1 DEF Succ, Cap
  <2>4. QED
    BY <2>1, <2>2, <2>3 DEF PushStable
<1>10. CASE UNCHANGED vars
  BY <1>10 DEF PushStable, vars, Succ, Cap
<1>11. QED
  BY <1>1, <1>2, <1>3, <1>4, <1>5, <1>6, <1>7, <1>8, <1>9, <1>10
     DEF Next, PushStep, ReadStep, Halted

(* Every step keeps what the reading thread relies on.                     *)
LEMMA ReadInductive == Inv /\ [Next]_vars => ReadStable'
<1> SUFFICES ASSUME Inv, [Next]_vars PROVE ReadStable'
  OBVIOUS
<1> USE DEF Inv, TypeOK
<1>1. ASSUME NEW t \in Item, PushCheck(t) PROVE ReadStable'
  BY <1>1 DEF ReadStable, PushCheck
<1>2. CASE PushFull
  BY <1>2 DEF ReadStable, PushFull
<1>3. CASE WriteConnection
  BY <1>3 DEF ReadStable, WriteConnection, Item
<1>4. CASE WriteEvent
  BY <1>4 DEF ReadStable, WriteEvent, Item
<1>5. CASE Publish
  <2>1. push.pc # "idle" /\ tail' = Succ(tail) /\ queue' = queue /\ read' = read /\ front' = front
    BY <1>5 DEF Publish
  <2>2. front' # tail'
    BY <2>1 DEF PushStable
  <2>3. QED
    BY <2>1, <2>2 DEF ReadStable
<1>6. CASE ReadCheck
  BY <1>6 DEF ReadStable, ReadCheck, IsEmpty
<1>7. CASE CopyConnection
  BY <1>7 DEF ReadStable, CopyConnection, Item
<1>8. CASE CopyEvent
  BY <1>8 DEF ReadStable, CopyEvent, Item
<1>9. CASE Retire
  BY <1>9 DEF ReadStable, Retire
<1>10. CASE UNCHANGED vars
  BY <1>10 DEF ReadStable, vars
<1>11. QED
  BY <1>1, <1>2, <1>3, <1>4, <1>5, <1>6, <1>7, <1>8, <1>9, <1>10
     DEF Next, PushStep, ReadStep, Halted

(* The invariant holds in every reachable state.                           *)
LEMMA InvInductive == Spec => []Inv
<1>1. Inv /\ [Next]_vars => Inv'
  BY TypeInductive, PushInductive, ReadInductive DEF Inv
<1>2. QED
  BY InitInv, <1>1, PTL DEF Spec

(* Type correctness of CycleQueue: both indices stay inside the array.     *)
THEOREM TypeCorrect == Spec => []TypeOK
  BY InvInductive, PTL DEF Inv

(* Push and Read, which share no lock, never work on the same slot.        *)
THEOREM SlotExclusion == Spec => []NoSlotRace
<1>1. Inv => NoSlotRace
  BY DEF Inv, ReadStable, NoSlotRace
<1>2. QED
  BY InvInductive, <1>1, PTL

-----------------------------------------------------------------------------
(* The queued items never occupy more than Size slots, and the slot after  *)
(* the last of them is _tail.                                              *)
LEMMA ContentsFacts ==
  ASSUME TypeOK
  PROVE  /\ Count \in 0 .. Size
         /\ \A i \in 1 .. Count : SlotAt(i) \in Slots /\ SlotAt(i) # tail
         /\ Contents \in Seq(Item) /\ Len(Contents) = Count
         /\ \A i \in 1 .. Count : Contents[i] = queue[SlotAt(i)]
<1>1. /\ Count \in 0 .. Size
      /\ \A i \in 1 .. Count : SlotAt(i) \in Slots /\ SlotAt(i) # tail
  BY SizeAssumption DEF TypeOK, Slots, Count, SlotAt, Cap
<1>2. QED
  BY <1>1 DEF TypeOK, Contents

(* A step that leaves the indices and the queued slots alone is invisible. *)
LEMMA Stutter ==
  ASSUME TypeOK, front' = front, tail' = tail,
         \A s \in Slots \ {tail} : queue'[s] = queue[s]
  PROVE  Contents' = Contents
  BY ContentsFacts DEF Contents, Count, SlotAt, Cap, Slots

(* An item is its two words.                                               *)
LEMMA RecordEq ==
  ASSUME NEW a \in Item, NEW b \in Item,
         a.connection = b.connection, a.evt = b.evt
  PROVE  a = b
  BY DEF Item

(* Every step of the ring buffer is a step of the FIFO queue or invisible. *)
LEMMA StepRefines == Inv /\ [Next]_vars => [Abstract!Next]_(Abstract!vars)
<1> SUFFICES ASSUME Inv, [Next]_vars PROVE [Abstract!Next]_(Abstract!vars)
  OBVIOUS
<1> USE DEF Inv, Abstract!vars
<1>0. TypeOK
  OBVIOUS
<1>1. ASSUME NEW t \in Item, PushCheck(t) PROVE UNCHANGED Abstract!vars
  BY <1>0, <1>1, Stutter DEF PushCheck
<1>2. CASE PushFull
  BY <1>0, <1>2, Stutter DEF PushFull
<1>3. CASE WriteConnection
  BY <1>0, <1>3, Stutter DEF WriteConnection, TypeOK, Slots
<1>4. CASE WriteEvent
  BY <1>0, <1>4, Stutter DEF WriteEvent, TypeOK, Slots
<1>5. CASE Publish
  <2>1. /\ push.pc = "publish" /\ tail' = Succ(tail) /\ queue' = queue
        /\ front' = front /\ out' = out
    BY <1>5 DEF Publish
  <2>2. front # Succ(tail) /\ queue[tail] = push.item
    <3>1. /\ front # Succ(tail)
          /\ queue[tail].connection = push.item.connection
          /\ queue[tail].evt = push.item.evt
      BY <2>1 DEF PushStable
    <3>2. queue[tail] \in Item /\ push.item \in Item
      BY DEF TypeOK
    <3>3. QED
      BY <3>1, <3>2, RecordEq
  <2>3. Count' = Count + 1 /\ Count < Size /\ SlotAt(Count + 1) = tail
    BY <1>0, <2>1, <2>2, SuccLemma, SizeAssumption DEF Count, SlotAt, Cap, TypeOK, Slots
  <2>4. \A i \in 1 .. Count + 1 : SlotAt(i)' = SlotAt(i)
    BY <2>1 DEF SlotAt, Cap
  <2>5. \A i \in 1 .. Count + 1 : Contents'[i] = Append(Contents, push.item)[i]
    BY <1>0, <2>1, <2>2, <2>3, <2>4, ContentsFacts DEF Contents
  <2>6. Contents' = Append(Contents, push.item)
    BY <1>0, <2>3, <2>5, ContentsFacts DEF Contents
  <2>7. Abstract!Enq
    BY <1>0, <2>1, <2>3, <2>6, ContentsFacts DEF Abstract!Enq, TypeOK
  <2>8. QED
    BY <2>7 DEF Abstract!Next
<1>6. CASE ReadCheck
  BY <1>0, <1>6, Stutter DEF ReadCheck
<1>7. CASE CopyConnection
  BY <1>0, <1>7, Stutter DEF CopyConnection
<1>8. CASE CopyEvent
  BY <1>0, <1>8, Stutter DEF CopyEvent
<1>9. CASE Retire
  <2>1. /\ read.pc = "retire" /\ front' = Succ(front) /\ out' = read.item
        /\ queue' = queue /\ tail' = tail
    BY <1>9 DEF Retire
  <2>2. front # tail /\ queue[front] = read.item
    <3>1. /\ front # tail
          /\ queue[front].connection = read.item.connection
          /\ queue[front].evt = read.item.evt
      BY <2>1 DEF ReadStable
    <3>2. queue[front] \in Item /\ read.item \in Item
      BY DEF TypeOK
    <3>3. QED
      BY <3>1, <3>2, RecordEq
  <2>3. /\ Count > 0 /\ Count' = Count - 1 /\ SlotAt(1) = front
        /\ \A i \in 1 .. Count - 1 : SlotAt(i)' = SlotAt(i + 1)
    BY <1>0, <2>1, <2>2, SuccLemma, SizeAssumption DEF Count, SlotAt, Cap, TypeOK, Slots
  <2>4. Contents # <<>> /\ Head(Contents) = read.item
    BY <1>0, <2>2, <2>3, ContentsFacts
  <2>5. Contents' = Tail(Contents)
    BY <1>0, <2>1, <2>3, ContentsFacts DEF Contents
  <2>6. Abstract!Deq
    BY <2>1, <2>4, <2>5 DEF Abstract!Deq
  <2>7. QED
    BY <2>6 DEF Abstract!Next
<1>10. CASE UNCHANGED vars
  BY <1>0, <1>10, Stutter DEF vars
<1>11. QED
  BY <1>1, <1>2, <1>3, <1>4, <1>5, <1>6, <1>7, <1>8, <1>9, <1>10
     DEF Next, PushStep, ReadStep, Halted

(* The lock-free ring buffer is a FIFO queue: between the publication of   *)
(* _tail and the retirement of _front no item is lost, duplicated,         *)
(* reordered or torn, whatever the size and however the threads interleave. *)
THEOREM ImplementsFifo == Spec => FifoSpec
<1>1. Init => Abstract!Init
  <2> SUFFICES ASSUME Init PROVE Abstract!Init
    OBVIOUS
  <2>1. TypeOK /\ Count = 0
    BY InitInv, SizeAssumption DEF Inv, Init, Count
  <2>2. Contents = <<>>
    BY <2>1, ContentsFacts
  <2>3. QED
    BY <2>1, <2>2 DEF Abstract!Init, TypeOK
<1>2. QED
  BY <1>1, StepRefines, InvInductive, PTL DEF Spec, FifoSpec, Abstract!Spec
=============================================================================
