-------------------------- MODULE MCVolunteerBridge --------------------------
(* Instances of VolunteerBridge for TLC: the Cells are interchangeable. *)
EXTENDS VolunteerBridge, TLC

CellSymmetry == Permutations(Cells)
=============================================================================
