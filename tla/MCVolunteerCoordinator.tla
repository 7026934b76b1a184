----------------------- MODULE MCVolunteerCoordinator -----------------------
(* Instances of VolunteerCoordinator for TLC: the Cells are interchangeable. *)
EXTENDS VolunteerCoordinator, TLC

CellSymmetry == Permutations(Cells)
=============================================================================
