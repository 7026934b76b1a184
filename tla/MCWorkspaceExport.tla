-------------------------- MODULE MCWorkspaceExport --------------------------
(* Instances of the controller with the export of its workspace. *)
EXTENDS MCSessionController, WorkspaceExport, TLC

\* The controller compares Work Units, and contributors, only for equality.
Symmetries == Permutations(WorkIds) \cup Permutations(Contributors)

\* Bound: three generations of Work Units in all.
FewLeases == Cardinality(active) + Cardinality(terminals) + Cardinality(fenced) <= 3
=============================================================================
