------------------------------ MODULE MCTrajectory ------------------------------
(***************************************************************************)
(* Instances of Trajectory for TLC.  No step compares an order, a shipment *)
(* or a review with a literal, so they are symmetric.                      *)
(***************************************************************************)
EXTENDS Trajectory, TLC

Symmetry == Permutations(Orders) \cup Permutations(Shipments) \cup Permutations(Reviews)
================================================================================
