---------------------------- MODULE MCThreadModule ----------------------------
(***************************************************************************)
(* ThreadModule instantiated for TLC.                                      *)
(***************************************************************************)
EXTENDS ThreadModule
=============================================================================
