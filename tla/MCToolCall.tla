------------------------------- MODULE MCToolCall -------------------------------
(***************************************************************************)
(* Instances of ToolCall for TLC.  The limits are small enough for every   *)
(* dimension to be the one that stops a run, and for exact equality with   *)
(* the elapsed limit to happen.                                            *)
(***************************************************************************)
EXTENDS ToolCall
================================================================================
