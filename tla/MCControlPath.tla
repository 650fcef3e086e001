--------------------------- MODULE MCControlPath ---------------------------
(***************************************************************************)
(* Small instances of ControlPath for TLC.                                 *)
(***************************************************************************)
EXTENDS ControlPath, TLC

MCCalls == 1..MaxCalls
MCRows  == [call : 1..MaxCalls, result : ControlStates]
=============================================================================
