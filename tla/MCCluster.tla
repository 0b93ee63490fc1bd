------------------------------ MODULE MCCluster ------------------------------
(***************************************************************************)
(* Cluster instantiated for TLC.                                           *)
(***************************************************************************)
EXTENDS Cluster

CONSTANTS a, b

(* Two nodes of one type.                                                  *)
SameType == [n \in Nodes |-> 3]

(* A node of another type than the others.                                 *)
TwoTypes == [n \in Nodes |-> IF n = a THEN 2 ELSE 3]

Ids == [n \in Nodes |-> IF n = a THEN 1 ELSE IF n = b THEN 2 ELSE 3]
=============================================================================
