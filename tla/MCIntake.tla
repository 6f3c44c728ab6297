-------------------------------- MODULE MCIntake --------------------------------
(***************************************************************************)
(* Instances of Intake for TLC: every message over the identifiers and     *)
(* every answer a model may give.                                          *)
(***************************************************************************)
EXTENDS Intake, TLC

Symmetry == Permutations(Ids)
================================================================================
