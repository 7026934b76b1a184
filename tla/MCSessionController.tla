------------------------ MODULE MCSessionController ------------------------
(* Instances of the controller for TLC: one genesis checkpoint. *)
EXTENDS SessionController

CONSTANTS h0
MCSeeds == {<<[hash |-> h0, parent |-> None, step |-> 0]>>}
=============================================================================
