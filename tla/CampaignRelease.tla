--------------------------- MODULE CampaignRelease ---------------------------
(***************************************************************************)
(* Evaluation, finalization and export of a campaign (second half of       *)
(* volunteer_training_coordinator.py), run by operator processes beside a  *)
(* coordinator that goes on.  An evaluation reads the state under the      *)
(* state lock, computes without it and then replaces evaluation.json, so a *)
(* slow one may overwrite a newer one.  finalize and export look whether   *)
(* the file is about the current version and otherwise evaluate and look   *)
(* again, three times at most.                                             *)
(*                                                                         *)
(* The campaign is the abstract one of Campaign, which VolunteerCoordinator*)
(* implements.                                                             *)
(***************************************************************************)
EXTENDS Campaign, FiniteSets

CONSTANTS
    Operators,   \* processes that run the campaign's commands
    MaxFaults,   \* bound: operator processes killed
    None

ASSUME ReleaseAssumption ==
    /\ IsFiniteSet(Operators) /\ MaxFaults \in Nat
    /\ None \notin Nat \cup Operators

VARIABLES
    eval,      \* the adapter version evaluation.json is about, None: no file
    ops,       \* the command each operator process runs
    lock,      \* who holds the state lock beyond one step
    archive,   \* what the last archive written holds
    gaveUp,    \* commands that ended with evaluation_changed
    faults

rvars == <<eval, ops, lock, archive, gaveUp, faults>>

Resting == [cmd |-> "none", pc |-> "idle", seen |-> None, tries |-> 0, slow |-> {}]

RInit ==
    /\ CInit /\ eval = None
    /\ ops = [o \in Operators |-> Resting]
    /\ lock = None /\ archive = None /\ gaveUp = {} /\ faults = 0

\* for _attempt in range(3); its mutant.
AttemptsTwo == 2
Attempts    == 3

At(o, pc)  == ops[o].pc = pc
Step(o, r) == ops' = [ops EXCEPT ![o] = r]
Unlocked   == lock = None
\* Evaluations that were read and not yet written.
InFlight   == {ops[o].seen : o \in {p \in Operators : ops[p].pc = "write"}}

-----------------------------------------------------------------------------
\* A command starts.  The command line finalizes without allow_incomplete.
Start(o, cmd) ==
    /\ At(o, "idle")
    /\ Step(o, [Resting EXCEPT !.cmd = cmd, !.pc = IF cmd = "evaluate" THEN "read" ELSE "check"])
    /\ UNCHANGED <<cvars, eval, lock, archive, gaveUp, faults>>

\* evaluate_campaign, under the lock.
ReadState(o) ==
    /\ At(o, "read") /\ Unlocked
    /\ Step(o, [ops[o] EXCEPT !.pc = "write", !.seen = version])
    /\ UNCHANGED <<cvars, eval, lock, archive, gaveUp, faults>>

\* _write_evaluation_report, without it.  Within finalize and export one try
\* is then over.
WriteEvaluation(o) ==
    /\ At(o, "write")
    /\ eval' = ops[o].seen
    /\ LET last == ops[o].tries + 1 = Attempts
       IN  IF ops[o].cmd = "evaluate" \/ last
           THEN /\ Step(o, Resting)
                /\ gaveUp' = gaveUp \cup ({ops[o].cmd} \ {"evaluate"})
           ELSE /\ Step(o, [ops[o] EXCEPT !.pc = "check", !.tries = @ + 1])
                /\ UNCHANGED gaveUp
    /\ UNCHANGED <<cvars, lock, archive, faults>>

\* import_trusted_external_evaluation: bound to the current version and
\* written under the lock.
ImportEvaluation ==
    /\ Unlocked
    /\ eval' = version
    /\ UNCHANGED <<cvars, ops, lock, archive, gaveUp, faults>>

\* Mutant of Current: any evaluation will do.
CurrentAny == eval # None

\* _current_evaluation_from_state
Current == eval = version

\* finalize_campaign, one locked attempt.
FinalizeNow(o) ==
    /\ At(o, "check") /\ ops[o].cmd = "finalize" /\ Unlocked
    /\ Current /\ Finalize(FALSE)
    /\ Step(o, Resting)
    /\ UNCHANGED <<eval, lock, archive, gaveUp, faults>>

FinalizeRefused(o) ==
    /\ At(o, "check") /\ ops[o].cmd = "finalize" /\ Unlocked
    /\ ~complete
    /\ Step(o, Resting)
    /\ UNCHANGED <<cvars, eval, lock, archive, gaveUp, faults>>

\* Mutant of EvaluateAgain: the command gives up instead.
EvaluateNever(o) ==
    /\ At(o, "check") /\ Unlocked /\ ~Current
    /\ ops[o].cmd = "finalize" => complete
    /\ Step(o, Resting)
    /\ UNCHANGED <<cvars, eval, lock, archive, gaveUp, faults>>

\* The evaluation is not the current one: evaluate and try again.
EvaluateAgain(o) ==
    /\ At(o, "check") /\ Unlocked /\ ~Current
    /\ ops[o].cmd = "finalize" => complete
    /\ Step(o, [ops[o] EXCEPT !.pc = "read"])
    /\ UNCHANGED <<cvars, eval, lock, archive, gaveUp, faults>>

\* export_campaign keeps the lock from its look at evaluation.json until the
\* archive is written, which reads evaluation.json again.
ExportBegin(o) ==
    /\ At(o, "check") /\ ops[o].cmd = "export" /\ Unlocked /\ Current
    /\ lock' = o
    /\ Step(o, [ops[o] EXCEPT !.pc = "archive", !.seen = version, !.slow = InFlight])
    /\ UNCHANGED <<cvars, eval, archive, gaveUp, faults>>

ExportWrite(o) ==
    /\ At(o, "archive")
    /\ archive' = [lineage |-> ops[o].seen, adapter |-> version, eval |-> eval,
                   slow |-> ops[o].slow]
    /\ lock' = None
    /\ Step(o, Resting)
    /\ UNCHANGED <<cvars, eval, gaveUp, faults>>

\* An operator process dies; its lock goes with it.
Killed(o) ==
    /\ ~At(o, "idle") /\ faults < MaxFaults
    /\ faults' = faults + 1
    /\ lock' = IF lock = o THEN None ELSE lock
    /\ Step(o, Resting)
    /\ UNCHANGED <<cvars, eval, archive, gaveUp>>

\* The campaign goes on whenever the lock is free.  Pauses are left out: no
\* command here looks at them.
CampaignStep ==
    /\ Unlocked /\ Advance
    /\ UNCHANGED rvars

OperatorStep(o) ==
    \/ ReadState(o) \/ WriteEvaluation(o)
    \/ FinalizeNow(o) \/ FinalizeRefused(o) \/ EvaluateAgain(o)
    \/ ExportBegin(o) \/ ExportWrite(o)

RNext ==
    \/ CampaignStep
    \/ \E o \in Operators : \/ \E cmd \in {"evaluate", "finalize", "export"} : Start(o, cmd)
                            \/ OperatorStep(o) \/ Killed(o)
    \/ ImportEvaluation

RSpec == RInit /\ [][RNext]_<<cvars, rvars>>

\* The rounds go on to the target; a started command goes on, and finalize is
\* given again and again.
RFairSpec ==
    /\ RSpec /\ SF_<<cvars, rvars>>(CampaignStep)
    /\ \A o \in Operators : /\ SF_<<cvars, rvars>>(OperatorStep(o))
                            /\ SF_<<cvars, rvars>>(Start(o, "finalize"))

-----------------------------------------------------------------------------
\* Adapter and lineage of an archive are of one version, whatever goes on
\* around the export; its evaluation may be of another one only if an
\* evaluation had been read before and was written during the export.
ExportCoherent ==
    archive # None =>
        /\ archive.lineage = archive.adapter
        /\ archive.eval \in {archive.adapter} \cup archive.slow

\* Three tries are enough: a complete campaign changes no more, and one other
\* process can hold back only one stale evaluation, so finalize never ends
\* with volunteer_campaign_evaluation_changed_during_finalize.
FinalizeSucceeds ==
    Cardinality(Operators) <= 2 => "finalize" \notin gaveUp

\* However evaluations overwrite each other, the campaign is finalized in the
\* end and it is finalized complete.
FinalizedComplete == lifecycle = "finalized" => complete
Finalized ==
    /\ <>(lifecycle = "finalized")
    /\ []FinalizedComplete
=============================================================================
