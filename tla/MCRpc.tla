-------------------------------- MODULE MCRpc --------------------------------
(***************************************************************************)
(* Rpc instantiated for TLC.                                               *)
(***************************************************************************)
EXTENDS Rpc

(* The processes are interchangeable.                                      *)
Symmetry == Permutations(Procs)
=============================================================================
