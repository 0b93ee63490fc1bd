---------------------------- MODULE MCCycleQueue ----------------------------
(***************************************************************************)
(* CycleQueue instantiated for TLC.                                        *)
(***************************************************************************)
EXTENDS CycleQueue
=============================================================================
