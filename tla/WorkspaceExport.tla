--------------------------- MODULE WorkspaceExport ---------------------------
(***************************************************************************)
(* export_workspace (core/workspace.py) beside a controller that goes on:  *)
(* the receipts are listed, then the checkpoints, and the controller's own *)
(* report is taken last, each at another moment and the first two without  *)
(* the controller's lock.  Projections are never removed and never change  *)
(* their content, so a listing stands for the files copied after it.       *)
(***************************************************************************)
EXTENDS SessionController

VARIABLE exp    \* the export in progress

Nothing == [receipts |-> {}, checkpoints |-> {}, todo |-> <<>>, done |-> FALSE]
Over    == [Nothing EXCEPT !.done = TRUE]

\* Mutant of Sources: the checkpoints are listed first.
SourcesReversed == <<"checkpoints", "receipts">>

\* The directories in the order export_workspace lists them.
Sources == <<"receipts", "checkpoints">>

XInit == Init /\ exp = [Nothing EXCEPT !.todo = Sources]

\* One directory is listed.
ExportDirectory ==
    /\ exp.todo # <<>>
    /\ exp' = [exp EXCEPT !.todo = Tail(@),
                  !.receipts    = IF Head(exp.todo) = "receipts" THEN projReceipts ELSE @,
                  !.checkpoints = IF Head(exp.todo) = "checkpoints" THEN projCkpts ELSE @]
    /\ UNCHANGED vars

\* The controller's report is its status, taken under its lock.
ExportReport ==
    /\ exp.todo = <<>> /\ ~exp.done
    /\ Status
    /\ exp' = Over

\* No controller state file yet: no report.
ExportWithoutReport ==
    /\ exp.todo = <<>> /\ ~exp.done
    /\ lineage = <<>>
    /\ exp' = Over
    /\ UNCHANGED vars

XNext ==
    \/ Next /\ UNCHANGED exp
    \/ ExportDirectory \/ ExportReport \/ ExportWithoutReport

XSpec == XInit /\ [][XNext]_<<vars, exp>>

\* What is exported from a moving workspace hangs together: the output of
\* every exported receipt is an exported checkpoint, the exported checkpoints
\* are a lineage without a gap, and the report, which is taken at any moment
\* from then on, knows every exported file.
ExportClosed ==
    exp.todo = <<>> =>
    /\ \A t \in terminals : Key(t.work) \in exp.receipts /\ t.receipt.output # None
          => t.receipt.output \in exp.checkpoints
    /\ \E n \in 0..Len(lineage) : exp.checkpoints = {lineage[i].hash : i \in 1..n}
    /\ exp.receipts \subseteq TerminalKeys
=============================================================================
