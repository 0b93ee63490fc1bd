-------------------------------- MODULE Pipe --------------------------------
(***************************************************************************)
(* What a connection promises in one direction: a pipe of bytes, numbered  *)
(* in the order in which their writer put them in.  Nothing is reordered   *)
(* or repeated, and nothing is missing before the pipe breaks.  A writer   *)
(* that goes on after a break may leave gaps.  Every connection has its    *)
(* own pipe, and what happens to one says nothing about the others.        *)
(***************************************************************************)
EXTENDS Integers, Sequences

CONSTANTS Conns,   \* the connections
          Drains   \* whether the reader goes on reading a broken pipe

VARIABLE pipe

(* put and got count the bytes its writer has put in and its reader has    *)
(* taken, wire holds the ones between them.                                *)
PipeOf(wire, put, got, state) == [wire |-> wire, put |-> put, got |-> got, state |-> state]

(* A new connection's pipe.                                                *)
New == PipeOf(<<>>, 0, 0, "whole")

Init == pipe = [c \in Conns |-> New]

(* What may become of pipe p.                                              *)
Put(p, q) ==
  /\ q.put \in Nat /\ q.put > p.put
  /\ q = PipeOf(p.wire \o [i \in 1 .. q.put - p.put |-> p.put + i], q.put, p.got, p.state)

(* The bytes do not go in, which breaks the pipe.                          *)
Drop(p, q) ==
  /\ q.put \in Nat /\ q.put > p.put
  /\ q = PipeOf(p.wire, q.put, p.got, "broken")

Take(p, q) ==
  /\ p.state = "broken" => Drains
  /\ q.got \in Nat /\ q.got > p.got /\ q.got - p.got <= Len(p.wire)
  /\ q = PipeOf(SubSeq(p.wire, q.got - p.got + 1, Len(p.wire)), p.put, q.got, p.state)

(* The last bytes on the way may be lost.                                  *)
Break(p, q) ==
  /\ p.state = "whole"
  /\ \E k \in 0 .. Len(p.wire) : q = PipeOf(SubSeq(p.wire, 1, k), p.put, p.got, "broken")

Step(p, q) == Put(p, q) \/ Drop(p, q) \/ Take(p, q) \/ Break(p, q) \/ q = New

Next == \A c \in Conns : pipe'[c] = pipe[c] \/ Step(pipe[c], pipe'[c])

Spec == Init /\ [][Next]_pipe

(* Until it breaks, a pipe holds exactly the bytes put in and not taken,   *)
(* in order; after that, still in order.                                   *)
InOrder ==
  \A c \in Conns :
    LET p == pipe[c] IN
      /\ \A i, j \in DOMAIN p.wire : i < j => p.wire[i] < p.wire[j]
      /\ p.state = "whole" => p.wire = [i \in 1 .. p.put - p.got |-> p.got + i]
=============================================================================
