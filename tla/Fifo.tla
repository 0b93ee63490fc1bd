-------------------------------- MODULE Fifo --------------------------------
(***************************************************************************)
(* What olib::CycleQueue promises its two threads: a bounded first-in      *)
(* first-out queue.  One thread appends, the other removes the oldest      *)
(* item; nothing is lost, duplicated, reordered or mixed up.               *)
(***************************************************************************)
EXTENDS Naturals, Sequences

CONSTANTS Size,   \* the number of items the queue was built for
          Item    \* what may be queued

VARIABLES q,      \* the queued items, oldest first
          out     \* the item the last removal returned

vars == <<q, out>>

Init == q = <<>> /\ out \in Item

Enq == /\ Len(q) < Size
       /\ \E t \in Item : q' = Append(q, t)
       /\ UNCHANGED out

Deq == /\ q # <<>>
       /\ out' = Head(q)
       /\ q' = Tail(q)

Next == Enq \/ Deq

Spec == Init /\ [][Next]_vars
=============================================================================
