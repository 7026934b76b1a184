---------------------------- MODULE StableSession ----------------------------
(***************************************************************************)
(* The stable_sharded session (backends/stable_session.py,                 *)
(* run_stable_sharded_session): an operator's process that cuts Work Units *)
(* from the head checkpoint, starts one rank group per attempt, promotes   *)
(* the attempt's directory to the canonical payload and commits it to the  *)
(* session controller.  It dies at any point; the rank group, a process    *)
(* session of its own, may outlive it.  The next session finds the active  *)
(* Work Unit and commits or rejects it.                                    *)
(*                                                                         *)
(* Composes SessionController, whose actions it uses as they are.  The     *)
(* trainer is external and keeps its contract: rank zero writes the result *)
(* when the distributed checkpoint is complete.  It may still fail, be     *)
(* killed, or leave a result that does not validate (BadResults).          *)
(* The workspace control file counts only for what issue reads of it: a    *)
(* pause, which run_workspace may also lose (see Resume).                  *)
(***************************************************************************)
EXTENDS Naturals, Sequences, FiniteSets, FiniteSetsExt

CONSTANTS
    Target,       \* project.target_steps
    StepCounts,   \* values of steps_per_work_unit; 0: up to the target
    MaxUnits,     \* max_work_units of one invocation
    MaxRestarts,  \* spec.max_restarts
    BadResults,   \* TRUE: a trainer may leave a result that does not validate
    MaxFaults,    \* bound: crashes, failed attempts and bad results
    MaxPauses,    \* bound: pauses by the operator
    Owner,        \* _rank_group_owner: fixed by the plan
    None

ASSUME StableAssumption ==
    /\ Target \in Nat \ {0} /\ MaxUnits \in Nat \ {0} /\ MaxRestarts \in Nat
    /\ StepCounts \subseteq Nat /\ BadResults \in BOOLEAN
    /\ MaxFaults \in Nat /\ MaxPauses \in Nat

\* Bound: no generation above MaxGen is cut.  A generation ends rejected only
\* after a fault, so the bound is never what stops a session.
MaxGen == MaxFaults + 1

\* stable-step-<from>-<to> and its generation: the name of an attempt's
\* directory and result file.  The digest of a payload is the attempt that
\* wrote it; a checkpoint's hash stands for its payload.
WorkIds == {r \in (0..Target) \X (1..Target) : r[1] < r[2]}
Attempt == {<<r[1], r[2], g>> : r \in WorkIds, g \in 1..MaxGen}
Genesis == [hash |-> <<0, 0, 0>>, parent |-> None, step |-> 0]

ASSUME NoneAssumption == None \notin Attempt \cup {Genesis.hash, Owner}

VARIABLES
    lineage, active, terminals, fenced, saving, projCkpts, projReceipts,
    ses,        \* the session process
    attempts,   \* attempts/<attempt>
    results,    \* results/<attempt>.json
    payloads,   \* payloads/full-step-<n>
    groups,     \* rank groups that run
    paused,     \* the workspace is paused
    faults, pauses

cvars == <<lineage, active, terminals, fenced, saving, projCkpts, projReceipts>>
disk  == <<attempts, results, payloads>>
vars  == <<cvars, ses, disk, groups, paused, faults, pauses>>

Ctl == INSTANCE SessionController WITH
    Contributors <- {Owner}, Hashes <- Attempt \cup {Genesis.hash}, Shards <- {0},
    Seeds <- {<<Genesis>>}, StableSharded <- TRUE, MaxActive <- 1, MaxTime <- 1,
    MaxStep <- Target

Down == [pc |-> "down", count |-> 0, left |-> 0, try |-> 0, work |-> None,
         exit |-> "none", digest |-> None, recovering |-> FALSE]

SInit ==
    /\ Ctl!Init /\ ses = Down
    /\ attempts = [k \in Attempt |-> "none"]
    /\ results = [k \in Attempt |-> "none"]
    /\ payloads = [n \in 1..Target |-> None]
    /\ groups = {} /\ paused = FALSE /\ faults = 0 /\ pauses = 0

-----------------------------------------------------------------------------
Head0 == lineage[Len(lineage)]

\* _work_for_head: the Work Unit cut from the head, at generation g.
WorkForHead(n, g) ==
    LET left == Target - Head0.step
        size == IF n = 0 \/ n > left THEN left ELSE n
    IN  [id |-> <<Head0.step, Head0.step + size>>, gen |-> g,
         base |-> Head0.hash, shard |-> 0]
AttemptOf(w) == <<w.id[1], w.id[2], w.gen>>

\* next_generation
GenerationsOf(id) ==
    {w.gen : w \in {v \in {r.work : r \in active} \cup {t.work : t \in terminals}
                            \cup {f.lease.work : f \in fenced} : v.id = id}}
NextGeneration(id) == Max(GenerationsOf(id) \cup {0}) + 1

Accept(h) == [by |-> Owner, outcome |-> "accepted", output |-> h]
Reject    == [by |-> Owner, outcome |-> "rejected", output |-> None]

At(pc)  == ses.pc = pc /\ ~saving
Go(pc)  == ses' = [ses EXCEPT !.pc = pc]
Raise   == ses' = Down
Fault   == faults < MaxFaults /\ faults' = faults + 1
Current == AttemptOf(ses.work)
Pass(w) == UNCHANGED <<w, groups, paused, faults, pauses>>

\* A new invocation takes _session_lock and initializes the controller.
Start(n) ==
    /\ At("down")
    /\ Ctl!Initialize(<<Genesis>>)
    /\ ses' = [Down EXCEPT !.pc = "choose", !.count = n, !.left = MaxUnits]
    /\ Pass(disk)

\* The head of the loop: done, fresh work, or the Work Unit a session before
\* left active, which must be the one this session would cut.
Done == ses.left = 0 \/ Head0.step >= Target
Fresh == WorkForHead(ses.count, NextGeneration(WorkForHead(ses.count, 1).id))

\* Mutant of Recoverable: the canonical payload is not looked for.
RecoverableAttempt(w) ==
    results[AttemptOf(w)] # "none" /\ attempts[AttemptOf(w)] # "none"

\* Whether the active attempt left a result and a payload to commit.
Recoverable(w) ==
    /\ results[AttemptOf(w)] # "none"
    /\ attempts[AttemptOf(w)] # "none" \/ payloads[w.id[2]] # None

ChooseEnd == At("choose") /\ Done /\ Raise /\ Pass(<<cvars, disk>>)

ChooseFresh ==
    /\ At("choose") /\ ~Done /\ active = {} /\ Fresh.gen <= MaxGen
    /\ ses' = [ses EXCEPT !.pc = "issue", !.try = 0, !.work = Fresh, !.recovering = FALSE]
    /\ Pass(<<cvars, disk>>)

ChooseActive ==
    /\ At("choose") /\ ~Done
    /\ \E r \in active :
          IF r.work # WorkForHead(ses.count, r.work.gen) THEN Raise
          ELSE ses' = [ses EXCEPT !.work = r.work, !.recovering = TRUE,
                           !.pc = IF Recoverable(r.work) THEN "judge" ELSE "refuse"]
    /\ Pass(<<cvars, disk>>)

\* controller.issue reads the pause before it takes the controller's lock.
CheckPause ==
    /\ At("issue")
    /\ IF paused THEN Raise ELSE Go("issuing")
    /\ Pass(<<cvars, disk>>)

Issue ==
    /\ At("issuing")
    /\ Ctl!IssueNew(ses.work, Owner, 0)
    /\ Go("prepare")
    /\ Pass(disk)

\* The base payload is hashed against the lineage, the attempt's directory and
\* result are cleared, and the rank group starts.
Prepare ==
    /\ At("prepare")
    /\ IF Head0.step > 0 /\ payloads[Head0.step] # Head0.hash
       THEN Raise /\ UNCHANGED <<disk, groups>>
       ELSE /\ attempts' = [attempts EXCEPT ![Current] = "partial"]
            /\ results' = [results EXCEPT ![Current] = "none"]
            /\ groups' = groups \cup {Current}
            /\ ses' = [ses EXCEPT !.pc = "train", !.exit = "none"]
            /\ UNCHANGED payloads
    /\ UNCHANGED <<cvars, paused, faults, pauses>>

\* _run_rank_group returned, or its timeout killed the process group.
TrainEnded == At("train") /\ ses.exit # "none" /\ Go("judge") /\ Pass(<<cvars, disk>>)

Timeout ==
    /\ At("train") /\ Current \in groups /\ Fault
    /\ groups' = groups \ {Current}
    /\ ses' = [ses EXCEPT !.pc = "judge", !.exit = "failed"]
    /\ UNCHANGED <<cvars, disk, paused, pauses>>

\* Mutant of Valid: the exit status of the rank group is enough.
ValidByExit == ses.recovering \/ ses.exit = "ok"

\* _commit_success validates the result.  A failure is a rejected attempt in
\* the attempt loop; in the recovery of an active Work Unit it is an error
\* nobody catches.
Valid == results[Current] = "good" /\ (ses.recovering \/ ses.exit = "ok")

Judge ==
    /\ At("judge")
    /\ IF Valid THEN Go("promote") ELSE IF ses.recovering THEN Raise ELSE Go("refuse")
    /\ Pass(<<cvars, disk>>)

\* Mutant of Promote: the payload is hashed but not moved.
PromoteForgets ==
    /\ At("promote")
    /\ ses' = [ses EXCEPT !.pc = "commit", !.digest = Current]
    /\ Pass(<<cvars, disk>>)

\* _commit_success: the attempt's directory becomes the canonical payload, or
\* is dropped when an equal one is there; a different one is a conflict.  A
\* recovered attempt may have been moved already.
Promote ==
    /\ At("promote")
    /\ LET end  == ses.work.id[2]
           here == IF attempts[Current] # "none" THEN Current ELSE payloads[end]
       IN  IF payloads[end] \in {None, here}
           THEN /\ payloads' = [payloads EXCEPT ![end] = here]
                /\ attempts' = [attempts EXCEPT ![Current] = "none"]
                /\ ses' = [ses EXCEPT !.pc = "commit", !.digest = here]
           ELSE /\ IF ses.recovering THEN Raise ELSE Go("refuse")
                /\ UNCHANGED <<payloads, attempts>>
    /\ UNCHANGED <<cvars, results, groups, paused, faults, pauses>>

Commit ==
    /\ At("commit")
    /\ LET w == ses.work
       IN  Ctl!CommitCheckpoint(w, Accept(ses.digest),
               [hash |-> ses.digest, parent |-> w.base, step |-> w.id[2]])
    /\ ses' = [ses EXCEPT !.pc = "choose", !.left = @ - 1]
    /\ Pass(disk)

\* Mutant of Refuse: an interrupted attempt is left as it is.
RefuseSkips ==
    /\ At("refuse")
    /\ IF ses.recovering THEN UNCHANGED cvars ELSE Ctl!CommitReceipt(ses.work, Reject)
    /\ Go(IF ses.recovering THEN "again" ELSE "clean")
    /\ Pass(disk)

\* The failed or interrupted attempt gets a rejected receipt.
Refuse ==
    /\ At("refuse")
    /\ Ctl!CommitReceipt(ses.work, Reject)
    /\ Go(IF ses.recovering THEN "again" ELSE "clean")
    /\ Pass(disk)

\* The attempt's directory is removed, then its result.
Clean ==
    /\ At("clean")
    /\ attempts' = [attempts EXCEPT ![Current] = "none"]
    /\ Go("unlink")
    /\ UNCHANGED <<cvars, results, payloads, groups, paused, faults, pauses>>

\* The last retry is followed by the end of the invocation.
Unlink ==
    /\ At("unlink")
    /\ results' = [results EXCEPT ![Current] = "none"]
    /\ IF ses.try >= MaxRestarts THEN Raise
       ELSE ses' = [ses EXCEPT !.pc = "again", !.try = @ + 1]
    /\ UNCHANGED <<cvars, attempts, payloads, groups, paused, faults, pauses>>

\* The same Work Unit at its next generation.
Again ==
    /\ At("again") /\ NextGeneration(ses.work.id) <= MaxGen
    /\ ses' = [ses EXCEPT !.pc = "issue", !.recovering = FALSE,
                          !.work.gen = NextGeneration(ses.work.id)]
    /\ Pass(<<cvars, disk>>)

\* _write_projections; SessionController has it file by file.
ControllerWrites ==
    /\ saving /\ saving' = FALSE
    /\ projCkpts' = Ctl!LineageHashes /\ projReceipts' = Ctl!TerminalKeys
    /\ UNCHANGED <<lineage, active, terminals, fenced, ses>>
    /\ Pass(disk)

SessionStep ==
    \/ ChooseEnd \/ ChooseFresh \/ ChooseActive \/ CheckPause \/ Issue \/ Prepare
    \/ TrainEnded \/ Judge \/ Promote \/ Commit \/ Refuse \/ Clean \/ Unlink \/ Again
    \/ ControllerWrites

-----------------------------------------------------------------------------
\* The rank group k.  Its checkpoint is complete before its result is there.
Save(k) ==
    /\ k \in groups /\ attempts[k] = "partial" /\ results[k] = "none"
    /\ attempts' = [attempts EXCEPT ![k] = "complete"]
    /\ UNCHANGED <<cvars, ses, results, payloads, groups, paused, faults, pauses>>

WriteResult(k) ==
    /\ k \in groups /\ attempts[k] = "complete" /\ results[k] = "none"
    /\ results' = [results EXCEPT ![k] = "good"]
    /\ UNCHANGED <<cvars, ses, attempts, payloads, groups, paused, faults, pauses>>

\* A result that is cut off, or refused by validate_stable_trainer_result.
WriteBadResult(k) ==
    /\ BadResults /\ k \in groups /\ attempts[k] # "none" /\ results[k] = "none" /\ Fault
    /\ results' = [results EXCEPT ![k] = "bad"]
    /\ UNCHANGED <<cvars, ses, attempts, payloads, groups, paused, pauses>>

Exit(k, x) ==
    /\ k \in groups
    /\ groups' = groups \ {k}
    /\ ses' = IF ses.pc = "train" /\ Current = k THEN [ses EXCEPT !.exit = x] ELSE ses
    /\ UNCHANGED <<cvars, disk, paused, pauses>>

ExitOk(k)   == results[k] # "none" /\ Exit(k, "ok") /\ UNCHANGED faults
ExitFail(k) == (\E x \in {"ok", "failed"} : Exit(k, x)) /\ Fault

\* The operator pauses and resumes; run_workspace, which writes back a state
\* it read without a lock, may resume as well.
Pause ==
    /\ ~paused /\ pauses < MaxPauses
    /\ paused' = TRUE /\ pauses' = pauses + 1
    /\ UNCHANGED <<cvars, ses, disk, groups, faults>>
Resume ==
    /\ paused /\ paused' = FALSE
    /\ UNCHANGED <<cvars, ses, disk, groups, faults, pauses>>

\* The session process dies; the rank group lives on.
Crash ==
    /\ ses.pc # "down" /\ Fault
    /\ ses' = Down /\ saving' = FALSE
    /\ UNCHANGED <<lineage, active, terminals, fenced, projCkpts, projReceipts,
                   disk, groups, paused, pauses>>

SNext ==
    \/ \E n \in StepCounts : Start(n)
    \/ SessionStep \/ Timeout
    \/ \E k \in groups : Save(k) \/ WriteResult(k) \/ WriteBadResult(k)
                         \/ ExitOk(k) \/ ExitFail(k)
    \/ Pause \/ Resume \/ Crash

SSpec == SInit /\ [][SNext]_vars

\* A session and a rank group that run go on; the operator starts the session
\* again until the target is reached, now and then with each step count, and
\* ends a pause.
SFairSpec ==
    /\ SSpec
    /\ WF_vars(SessionStep) /\ WF_vars(Resume)
    /\ \A n \in StepCounts : SF_vars(Start(n))
    /\ \A k \in Attempt : WF_vars(Save(k) \/ WriteResult(k) \/ ExitOk(k))

-----------------------------------------------------------------------------
\* Whatever step the session died in, every committed checkpoint has its
\* canonical payload, with the bytes the checkpoint names: the next Work Unit
\* can always be trained from the head.
PayloadsInPlace ==
    \A i \in 2..Len(lineage) : payloads[lineage[i].step] = lineage[i].hash

\* A checkpoint holds what the accepted generation trained, never the payload
\* of a generation that was rejected, and that generation left a valid result.
AcceptedPayload ==
    \A t \in terminals : t.receipt.outcome = "accepted" =>
        /\ t.receipt.output = AttemptOf(t.work)
        /\ results[AttemptOf(t.work)] = "good"

\* docs/stable-sharded-trainer.md, Recovery Rules 1: if the operator process
\* disappears, a complete and valid result is committed without retraining:
\* its generation is not rejected any more.
Abandoned(k) ==
    /\ ses.pc = "down" /\ results[k] = "good"
    /\ \E r \in active : AttemptOf(r.work) = k
RejectedAttempt(k) ==
    \E t \in terminals : AttemptOf(t.work) = k /\ t.receipt.outcome = "rejected"
ResultsKept ==
    \A k \in Attempt : [](Abandoned(k) => [](~RejectedAttempt(k)))

\* A contradiction of Recovery Rules 2 and 3, by which an attempt without a valid
\* result gets a rejected receipt and its Work Unit is issued again: the recovery
\* raises on a bad result, where the attempt loop rejects it, and does so in
\* every later session again.
Wedged == ses.pc = "down" /\ \E r \in active : results[AttemptOf(r.work)] = "bad"

\* The project reaches its target steps, whatever attempts fail, time out or
\* lose their session on the way; that contradiction is the only thing that can
\* stop it.
TargetReached == <>(lineage # <<>> /\ (Head0.step = Target \/ Wedged))
=============================================================================
