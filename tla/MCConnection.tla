---------------------------- MODULE MCConnection ----------------------------
(***************************************************************************)
(* Connection instantiated for TLC.                                        *)
(***************************************************************************)
EXTENDS Connection, TLC

(* Bytes 1 and 2 are a packet, byte 3 begins a malformed one.              *)
Packets == [i \in 1 .. MaxIn |-> IF i = 3 THEN -1 ELSE 2]

(* Byte 1 is a packet, byte 2 begins a malformed one.                      *)
ShortPackets == [i \in 1 .. MaxIn |-> IF i = 2 THEN -1 ELSE 1]

(* Descriptors are interchangeable.                                        *)
ConnSymmetry == Permutations(Conns)
=============================================================================
