---------------------------- MODULE TrainingCell ----------------------------
(***************************************************************************)
(* The training Cell (volunteer_training_cell.py) as the coordinator's     *)
(* client: join_once claims a lease, trains, writes the finished update    *)
(* into its private state as pending_submission and submits it; a Cell     *)
(* that finds a pending submission sends that one again before it claims   *)
(* anything.  What VolunteerCoordinator leaves to "some message arrives"   *)
(* is here one process per Cell that waits for its answer, loses it, ends  *)
(* and is started again.  run calls join_once in a loop and catches none   *)
(* of its exceptions: the process ends with the first one.                 *)
(*                                                                         *)
(* Whether an update passes validation is a property of the update: a bad  *)
(* one is bad at every retry.                                              *)
(***************************************************************************)
EXTENDS VolunteerCoordinator

CONSTANT MaxFaults    \* bound: answers lost, Cells killed, slow or paused, bad
                      \* updates, crashes and pauses of the campaign, together
ASSUME CellAssumption == MaxFaults \in Nat

VARIABLES
    cell,      \* per Cell: where join_once is, and its private state
    call,      \* the Cell whose request the coordinator is working on
    faults

cellVars == <<cell, call, faults>>
tvars    == <<vars, cellVars>>

NoWork == [cell |-> NoCell, version |-> 0, shard |-> 0, gen |-> 0]
NoCall == [cell |-> NoCell, drops |-> FALSE, accepts |-> FALSE]

\* pc "idle": the loop of run; "off": no process runs.
\* pending: the lease the pending_submission was trained under; bad: it fails
\* validation; gone: its file under private/work is gone; done:
\* completed_work_units; paused: the pause file.
Fresh == [pc |-> "off",  work |-> NoWork, pending |-> NoWork, bad |-> FALSE,
          gone |-> FALSE, done |-> 0, paused |-> FALSE]

TInit ==
    /\ Init
    /\ cell = [c \in Cells |-> Fresh] /\ call = NoCall
    /\ faults = 0

At(c, pc)      == cell[c].pc = pc
Become(c, r)   == cell' = [cell EXCEPT ![c] = r]
Goes(c, pc)    == Become(c, [cell[c] EXCEPT !.pc = pc])
Stops(c)       == Become(c, [cell[c] EXCEPT !.pc = "off", !.work = NoWork])
Pending(c)     == cell[c].pending # NoWork
Fault          == faults < MaxFaults /\ faults' = faults + 1
CoordinatorIdle == UNCHANGED vars
Calls(c, d, a) == call' = [cell |-> c, drops |-> d, accepts |-> a]

-----------------------------------------------------------------------------
\* The owner runs the join command; while the Cell is paused run returns at once.
Start(c) ==
    /\ At(c, "off") /\ ~cell[c].paused
    /\ Goes(c, "idle")
    /\ CoordinatorIdle /\ UNCHANGED <<call, faults>>

\* The loop of run finds the Cell paused and ends.
Breaks(c) ==
    /\ At(c, "idle") /\ cell[c].paused
    /\ Stops(c)
    /\ CoordinatorIdle /\ UNCHANGED <<call, faults>>

\* The loop of run calls join_once.
Join(c) ==
    /\ At(c, "idle") /\ ~cell[c].paused
    /\ Goes(c, IF Pending(c) THEN "send" ELSE "claim")
    /\ CoordinatorIdle /\ UNCHANGED <<call, faults>>

Claim(c) ==
    /\ At(c, "claim")
    /\ ClaimLease(c) \/ ClaimNothing(c)
    /\ Goes(c, "claimed") /\ Calls(c, FALSE, FALSE)
    /\ UNCHANGED faults

\* The trainer is done: the update is saved as pending before it is sent.  The
\* training of a Cell outside Live hangs or vanishes.
Trained(c) ==
    /\ At(c, "train") /\ c \in Live
    /\ \E bad \in BOOLEAN :
          /\ IF bad THEN Fault ELSE UNCHANGED faults
          /\ Become(c, [cell[c] EXCEPT !.pc = "send", !.pending = cell[c].work,
                           !.work = NoWork, !.bad = bad, !.gone = FALSE])
    /\ CoordinatorIdle /\ UNCHANGED call

\* _Heartbeat runs beside training and sending; an error stops the thread.
Beats(c) ==
    /\ cell[c].pc \in {"train", "send"}
    /\ LET g == IF At(c, "train") THEN cell[c].work ELSE cell[c].pending
       IN  Heartbeat(g) \/ LateHeartbeat(g)
    /\ call' = NoCall
    /\ UNCHANGED <<cell, faults>>

\* Dropped: the pending submission is over, and its refusal is an exception.
\* Counted: it was accepted.
Dropped(r) == [r EXCEPT !.pc = "off", !.pending = NoWork, !.bad = FALSE, !.gone = FALSE]
Counted(r) == [Dropped(r) EXCEPT !.pc = "idle", !.done = @ + 1]

\* Mutant of SendReplay: the old response drops the submission uncounted.
SendReplayUncounted(c) ==
    /\ At(c, "send") /\ ~cell[c].gone /\ Ready
    /\ cell[c].pending \in st.results
    /\ Become(c, Dropped(cell[c]))
    /\ CoordinatorIdle /\ UNCHANGED <<call, faults>>

\* The update is accepted already: submit answers with the old response.
SendReplay(c) ==
    /\ At(c, "send") /\ ~cell[c].gone /\ Ready
    /\ cell[c].pending \in st.results
    /\ Become(c, Counted(cell[c]))
    /\ CoordinatorIdle /\ UNCHANGED <<call, faults>>

SendAccepted(c) ==
    /\ At(c, "send") /\ ~cell[c].gone /\ ~cell[c].bad
    /\ SubmitAccepted(cell[c].pending)
    /\ Goes(c, "sent") /\ Calls(c, FALSE, TRUE)
    /\ UNCHANGED faults

\* Mutant of Drops: a refused submission is kept, whatever the reason.
DropsNothing(m, g) == FALSE

\* The five codes that make the Cell drop its pending submission: the version
\* or the round is over, or the lease is not this one any more.
Drops(m, g) == ~Holds(m, g)

SendRefused(c) ==
    /\ At(c, "send") /\ ~cell[c].gone
    /\ LET g == cell[c].pending
       IN  /\ cell[c].bad \/ ~Holds(ExpireLeasesIn(st), g)
           /\ SubmitRejected(g)
           /\ Calls(c, Drops(ExpireLeasesIn(st), g), FALSE)
    /\ Goes(c, "sent")
    /\ UNCHANGED faults

\* The file of the update is gone: an exception that drops nothing.
SendNothing(c) ==
    /\ At(c, "send") /\ cell[c].gone
    /\ Stops(c)
    /\ CoordinatorIdle /\ UNCHANGED <<call, faults>>

-----------------------------------------------------------------------------
\* What a Cell makes of its answer: run ends when the campaign is complete or
\* the submission is refused.
Grants(c) == {g \in Leases(op.mem) : g.cell = c}
AfterAnswer(c) ==
    LET r == cell[c]
    IN  CASE r.pc = "claimed" /\ op.mem.complete -> [r EXCEPT !.pc = "off"]
          [] r.pc = "claimed" /\ ~op.mem.complete /\ Grants(c) = {} -> [r EXCEPT !.pc = "idle"]
          [] r.pc = "claimed" /\ ~op.mem.complete /\ Grants(c) # {} ->
                [r EXCEPT !.pc = "train", !.work = CHOOSE g \in Grants(c) : TRUE]
          [] r.pc = "sent" /\ call.accepts -> Counted(r)
          [] r.pc = "sent" /\ call.drops   -> Dropped(r)
          [] OTHER                         -> [r EXCEPT !.pc = "off"]

\* The coordinator's operation ends with its save, and the answer arrives or is
\* lost; the Cell's own save of what it learned goes with the answer.
SaveAnswer ==
    /\ Save /\ call' = NoCall
    /\ IF call.cell = NoCell THEN UNCHANGED <<cell, faults>>
       ELSE \/ Become(call.cell, AfterAnswer(call.cell)) /\ UNCHANGED faults
            \/ Stops(call.cell) /\ Fault

\* The coordinator raises or dies: an exception in the Cell that waits.
Fails ==
    /\ call' = NoCall
    /\ IF call.cell = NoCell THEN UNCHANGED cell ELSE Stops(call.cell)

\* The process is killed or asked to stop, at any point.
Killed(c) ==
    /\ ~At(c, "off") /\ call.cell # c /\ Fault
    /\ Stops(c)
    /\ CoordinatorIdle /\ UNCHANGED call

\* pause and resume of the Cell.
PauseCell(c) ==
    /\ ~cell[c].paused /\ Fault
    /\ Become(c, [cell[c] EXCEPT !.paused = TRUE])
    /\ CoordinatorIdle /\ UNCHANGED call
ResumeCell(c) ==
    /\ cell[c].paused
    /\ Become(c, [cell[c] EXCEPT !.paused = FALSE])
    /\ CoordinatorIdle /\ UNCHANGED <<call, faults>>

\* cleanup removes private/work with the update a pending submission names.
Cleanup(c) ==
    /\ cell[c].pc \in {"off", "idle"} /\ Pending(c) /\ ~cell[c].gone
    /\ Become(c, [cell[c] EXCEPT !.gone = TRUE])
    /\ CoordinatorIdle /\ UNCHANGED <<call, faults>>

\* A Cell that vanished or hangs in its training, or that only repeats an update
\* that cannot be accepted: its work unit needs another Cell.
Hopeless(c) == c \notin Live \/ (Pending(c) /\ (cell[c].bad \/ cell[c].gone))

GoesOn(c) ==
    \/ Breaks(c) \/ Join(c) \/ Claim(c) \/ Trained(c)
    \/ SendReplay(c) \/ SendAccepted(c) \/ SendRefused(c) \/ SendNothing(c)

\* The lease of a Cell that runs and has hope runs out only if the Cell is too
\* slow.
RunsOut(s) ==
    /\ LeaseRunsOut(s)
    /\ \/ Fault
       \/ (Hopeless(st.work[s].cell) \/ At(st.work[s].cell, "off")) /\ UNCHANGED faults
    /\ UNCHANGED <<cell, call>>

TNext ==
    \/ \E c \in Cells : Start(c) \/ GoesOn(c) \/ Beats(c) \/ Killed(c) \/ Cleanup(c)
                        \/ PauseCell(c) \/ ResumeCell(c)
    \/ SaveAnswer
    \/ Raise /\ Fails /\ UNCHANGED faults
    \/ Crash /\ Fails /\ Fault
    \/ SetLifecycle("paused") /\ Fault /\ UNCHANGED <<cell, call>>
    \/ /\ \/ SetLifecycle("running")
          \/ Finalize(FALSE)
          \/ Recover \/ WriteEvent \/ WriteVersion
       /\ UNCHANGED cellVars
    \/ \E s \in Shards : RunsOut(s)

TSpec == TInit /\ [][TNext]_tvars

\* Its heartbeat thread renews the lease all the same.
Renewal(c) == Hopeless(c) /\ Beats(c) /\ op'.fresh # {}

\* Time passes on the lease of a Hopeless Cell: its expiry is reached, unless it
\* is renewed before.
TimePasses(s) ==
    LET c == st.work[s].cell
    IN  /\ c \in Cells /\ Hopeless(c)
        /\ (LeaseRunsOut(s) /\ UNCHANGED cellVars) \/ Renewal(c)

\* The coordinator makes its next step, or recovers.
Operates ==
    \/ SaveAnswer
    \/ Raise /\ Fails /\ UNCHANGED faults
    \/ (WriteEvent \/ WriteVersion \/ Recover) /\ UNCHANGED cellVars

\* A Live Cell goes on and is served however the lock is contended; its owner
\* starts it again when it ended; time passes; a coordinator that can be
\* recovered is; the operators end a pause.
TFairSpec ==
    /\ TSpec
    /\ WF_tvars(Operates)
    /\ \A c \in Live : SF_tvars(GoesOn(c)) /\ WF_tvars(Start(c) \/ ResumeCell(c))
    /\ \A s \in Shards : WF_tvars(TimePasses(s))
    /\ SF_tvars(SetLifecycle("running") /\ UNCHANGED cellVars)

-----------------------------------------------------------------------------
\* Exactly-once accounting across lost answers and restarts: a Cell has
\* counted every update of its own that the coordinator accepted, once, except
\* the one it still holds as pending.
CountsExact ==
    \A c \in Cells :
        cell[c].done + (IF cell[c].pending \in st.results THEN 1 ELSE 0)
            = Cardinality({g \in st.results : g.cell = c})

\* A Hopeless Cell renews its lease again and again and so keeps its work unit
\* for ever: training that hangs, or a join command that is run again and again
\* on an update that cannot be accepted, with the heartbeat each retry starts.
Renews(c) == []<><<Renewal(c)>>_tvars

\* The coordinator is down and refuses to recover.
Unrecoverable == ~up /\ ~LedgerOk

\* No update a live Cell has finished is kept for ever: again and again the Cell
\* is without one, since each is accepted and counted, or dropped when its lease
\* is over.  The exceptions are the
\* three that the code leaves: a cleanup that removes the file of the update, a
\* coordinator that refuses to recover, and retries that keep its own lease alive.
PendingEnds ==
    \A c \in Live :
        []<>(~Pending(c) \/ cell[c].gone \/ Unrecoverable) \/ Renews(c)

\* With a quorum of live Cells the campaign reaches its target although other
\* Cells vanish with a lease, unless a Hopeless Cell keeps its work unit for ever.
CampaignFinishes ==
    \/ <>(st.complete \/ Unrecoverable \/ \E c \in Live : Pending(c) /\ cell[c].gone)
    \/ \E c \in Cells : Renews(c)
=============================================================================
