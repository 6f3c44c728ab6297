----------------------------- MODULE MCSupportCase -----------------------------
(***************************************************************************)
(* Instances of SupportCase for TLC: identifiers are model values, and     *)
(* those that no operation compares with a literal are symmetric.          *)
(***************************************************************************)
EXTENDS SupportCase, TLC

Symmetry == Permutations(Orders) \cup Permutations(Evaluations) \cup Permutations(Reviews)

================================================================================
