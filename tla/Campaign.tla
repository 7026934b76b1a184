------------------------------ MODULE Campaign ------------------------------
(***************************************************************************)
(* What the volunteer coordinator promises the tools around a campaign,    *)
(* without Cells, leases or files: the adapter version grows by one, the   *)
(* campaign is complete at its last version and stays so, and its operator *)
(* may pause and resume it until it is finalized, once it is complete or   *)
(* before.  Neither a pause nor finalization stops a version that the held *)
(* leases still bring about.                                               *)
(***************************************************************************)
EXTENDS Naturals

CONSTANT TargetRounds
ASSUME TargetAssumption == TargetRounds \in Nat \ {0}

VARIABLES version, complete, lifecycle
cvars == <<version, complete, lifecycle>>

CInit == version = 0 /\ complete = FALSE /\ lifecycle = "running"

Advance ==
    /\ ~complete
    /\ version' = version + 1
    /\ complete' = (version' = TargetRounds)
    /\ UNCHANGED lifecycle

Control(target) ==
    /\ lifecycle # "finalized"
    /\ lifecycle' = target
    /\ UNCHANGED <<version, complete>>

Finalize(allowIncomplete) ==
    /\ complete \/ allowIncomplete
    /\ lifecycle' = "finalized"
    /\ UNCHANGED <<version, complete>>

CNext ==
    \/ Advance
    \/ \E target \in {"running", "paused"} : Control(target)
    \/ \E a \in BOOLEAN : Finalize(a)

CSpec == CInit /\ [][CNext]_cvars
=============================================================================
