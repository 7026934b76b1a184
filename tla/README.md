# A formal model of CrowdTensor's training control plane

CrowdTensor trains one model across volunteers' machines (elastic mode) or
across the ranks of one trusted cluster (stable mode). Tensors are computed
elsewhere; what this directory models is the bookkeeping that must stay right
while machines come and go: who holds which Work Unit at which generation,
which results count, when a checkpoint advances, who may talk to the service,
and what a crash or a late message can do to all that.

Paths below are relative to `src/crowdtensor/` unless they begin with `docs/`
or `tests/`.

## 1. Inventory

| Part | Code | State it keeps | Operations | Modelled by |
|---|---|---|---|---|
| Session controller | `core/controller.py`, `core/contracts.py` | one sealed JSON file: lineage, active leases, terminals, fenced leases; projections under `checkpoints/` and `receipts/` | initialize, issue, commit, renew, fence_expired, status | `SessionController`, `WorkLedger` |
| Campaign coordinator | `volunteer_training_coordinator.py` | one JSON state file, the hash-chained audit ledger, version directories | claim, heartbeat, submit (with aggregation), expire_leases, pause, resume, finalize, recover_after_restart | `VolunteerCoordinator`, `Campaign` |
| Bridge | `backends/elastic_peft.py`, `backends/volunteer_session.py` | none of its own: binds one coordinator to one controller | record_claim_operation, record_heartbeat_operation, record_submission_operation, constructor | `VolunteerBridge` |
| Training Cell | `volunteer_training_cell.py` | private state with a pending submission, pause file, work directory | join_once, heartbeat thread, pause, resume, cleanup | `TrainingCell` |
| Cell access | `volunteer_training_operator.py`, coordinator | credentials, pairing codes, nonces, windows and quotas in the state file | issue, revoke, pair, authorize | `CellAccess` |
| Uploads | `volunteer_training_storage.py` | session directory, manifest, chunks, blob | start, put_chunk, complete | `ResumableUpload` |
| HTTP service | `volunteer_training_api.py`, the HTTP transport of the Cell | handlers in progress | authorization, uploads, submission | `UploadService` |
| Evaluation, finalization, export | coordinator, second half | `evaluation.json`, archives | evaluate, import_trusted_external_evaluation, finalize, export | `CampaignRelease` |
| Backup, restore | coordinator | an archive, and absolute paths in the state file | backup, restore | `CampaignBackup` |
| Workspace | `core/workspace.py` | manifest, plan and control files | init, plan, run, join, pause, resume; export | `WorkspaceLifecycle`, `WorkspaceExport` |
| Execution planning | `core/execution.py`, `adapters/providers.py`, `backends/accelerate.py`, `core/cli.py` | none: a function of inventory and options | build_plan, plan contract, build_launch_spec | `ExecutionPlanner` |
| Stage placement | `adapters/capabilities.py` | none: a function of manifest, capabilities, telemetry and the previous plan | build_placement_plan | `StagePlacement` |
| Stable session | `backends/stable_session.py` | attempt directories, result files, checkpoint payloads | attempts, restarts, recovery of an interrupted one | `StableSession` |
| Browser probes | coordinator | probe leases | claim, submit | next |
| Registry, plug-ins, campaign creation, adapters, training, CLI, dashboards | many | none over time | documents, tensor work, reports | left out, see section 7 |

How they interact. A Cell talks HTTP to the service. The service authorizes a
request under the campaign lock, then works on an upload under the uploads
lock, or calls the bridge; the bridge takes a transaction lock, calls the
coordinator (which takes the campaign lock, answers and saves), then
translates the answer into Work Units and receipts and calls the controller
(one more lock). These writes are not atomic together. The stable session
calls the controller directly. The workspace owns the control file that says
running, paused or completed, without any lock; issue reads it before it takes
the controller's lock. Operators evaluate, finalize, export and back up a
campaign while it goes on.

What is hard here:

- one operation is several disk writes, and any of them may be the last (state
  file before projections in the controller; audit event before state file in
  the coordinator; coordinator before controller in the bridge; directory
  before manifest, chunk before manifest, blob before manifest in the uploads);
- an exception path may already have written something;
- leases expire, are granted again at a higher generation, and are answered
  late or twice, by their holder or after their round was closed;
- a checkpoint advances while other leases on the old base are active;
- the controller derives what it may issue from the *latest* ended generation
  only;
- a Cell that vanishes must not stop a round, and a Cell whose answer was
  lost must neither lose nor double its update;
- files that several processes read, think about and write: `evaluation.json`,
  the control file, the exported directories.

`PROJECT.json` lists every hazard at its line, with the properties that watch
it, or a note saying why none does.

## 2. Modules

```
WorkLedger <=refines= SessionController <-EXTENDS- WorkspaceExport <- MCWorkspaceExport
                       ^   ^   ^
           INSTANCE    |   |   +--- MCSessionController <- MCWorkspaceExport
                       |   +--INSTANCE-- StableSession
Campaign <=refines= VolunteerCoordinator <-EXTENDS- VolunteerBridge <- MCVolunteerBridge
   ^  ^                ^    ^------------EXTENDS- TrainingCell
   |  |                +- MCVolunteerCoordinator
   |  +--EXTENDS- CampaignRelease
   +-----EXTENDS- CampaignBackup

CellAccess, ResumableUpload <-EXTENDS- UploadService
ExecutionPlanner <-EXTENDS- WorkspaceLifecycle <- MCWorkspaceLifecycle
StagePlacement <- MCStagePlacement
```

The proofs are in modules of their own, which only extend:

```
SessionController    <- SessionControllerProofs (and WorkspaceExport)
VolunteerCoordinator <- VolunteerCoordinatorProofs
                              <- VolunteerClientProofs (and VolunteerBridge, TrainingCell)
UploadService <- UploadServiceProofs      WorkspaceLifecycle <- WorkspaceLifecycleProofs
CampaignRelease <- CampaignReleaseProofs  StableSession <- StableSessionProofs
StagePlacement <- StagePlacementProofs
```

### SessionController

One action per operation, split where the operation has distinct outcomes that
change state: `IssueNew`, `IssueReplay`, `Reassign` (issue with
`replace_active`), `CommitReceipt`, `CommitCheckpoint`, `CommitReplay`,
`Renew`, `FenceExpired`, `Initialize`, `Status`. A refused call changes nothing
and is a disabled action. The state file is written atomically at the first
step of an operation; the projections follow file by file (`ProjectCheckpoint`,
`ProjectReceipt`, `Return`) while `saving` stands for the held lock, and
`Crash` may strike at any of them.

Correspondence: `lineage`, `active`, `terminals`, `fenced` are the members
`checkpoint_lineage`, `active_work_units`, `terminals`, `fenced_work_units` of
the file. A checkpoint is its hash, its parent's hash and its step; a receipt
is its contributor, outcome and output, named by its work key. `shard` is all
content of a Work Unit that is not its id, generation or base. The caller's
inputs are unconstrained: any Work Unit, owner, expiry and clock value.

Abstracted: hashing and sealing (equality stands for them), the list order no
operation reads, timestamps other than lease expiries, and the pause test of
issue, which lies outside the lock (`core/controller.py:446`), so the model
issues at least as often as the code does.

`WorkspaceExport` adds one `export_workspace` in progress: the receipts are
listed, then the checkpoints, then the controller's report is taken, with the
controller running in between.

### WorkLedger

The abstract promise: a chain of checkpoints, live and ended generations, and
which ended ones were accepted. Generations of a work id open one at a time in
increasing order, never after an acceptance; an ended one never comes back;
the chain grows by one when a live generation is accepted, and that ends every
other live generation. `SessionController!LedgerSpec` maps the controller on it,
and `StableSession!Ctl!LedgerSpec` a stable session with its controller.

### VolunteerCoordinator and Campaign

Each request is a first action that computes the operation's copy of the state
(`op.mem`) and the disk writes it owes in order (`op.todo`): `"event"` (append
to the audit ledger), `"version"` (rename of the new adapter's directory),
`"save"` (state file), or `"raise"`. The writes are then separate steps and
`Crash` may come between any two, or with no operation in progress. Every
operation includes the expiry pass the code makes at its start.

`late` is the clock: the set of leases whose expiry has passed. `grants` are
the leases Cells know of; the network may deliver a heartbeat or a submission
for any of them at any time and any number of times, so loss, delay,
duplication and reordering are all there. A delta is the grant it was computed
under; whether it passes numerical validation is a free choice between
`SubmitAccepted` and `SubmitRejected`. `orphan` says that the ledger file holds
an event that no saved state counts, which is all that matters of the hash
chain: count and head of file and state can then never agree again.

`Campaign` is what the coordinator promises to the tools around it: version,
complete, lifecycle. `VolunteerCoordinator!CampaignSpec` maps the saved state
on it, so a round that closes is one `Advance` and everything else stutters.
`CampaignRelease` and `CampaignBackup` are written over `Campaign` instead of
the whole coordinator.

### VolunteerBridge

Extends the coordinator and instantiates the controller on the same process.
`mirror` is the bridged request between the coordinator's answer and the
controller's; `Guard` is the transaction lock. `MirrorClaim` and `MirrorSubmit`
call the controller's own actions, so what the controller refuses is what
`SessionController` refuses; `MirrorClaimRefused` and `MirrorSubmitRefused` are
the requests that then fail with the coordinator already ahead. `BRecover`
binds a restarted session only under the constructor's conditions (`Rebinds`).
Bridged leases all carry one expiry value, since the coordinator decides about
time. Projections are written in one step here.

### TrainingCell

One process per Cell over the coordinator, which here no longer receives "some
message" but the requests of `join_once`. `Start` is the owner's join command
and `Breaks` the end of its loop when the Cell is paused; `run` catches none of
`join_once`'s exceptions, so the process is off (`pc = "off"`) after any of
them, after a refused submission and when the campaign is complete. `Join` looks for a pending submission,
`Claim` asks for a lease, `Trained` saves the finished update as pending,
`SendAccepted`, `SendRefused`, `SendReplay` and `SendNothing` submit it, and
`Beats` is the heartbeat thread beside training and sending. `SaveAnswer` is the
coordinator's save with the answer arriving or being lost (`AfterAnswer` is what the
Cell makes of it); `Fails` is its exception. `Drops` is the list of error codes
for which the Cell gives its pending update up. A Cell may be killed (its
private state survives), paused, or cleaned up, which removes the update's file
and not the submission that names it (`gone`). Whether an update is valid is
fixed when it is trained. The training of a Cell outside `Live` never ends: the
Cell vanished, or it hangs with its heartbeat. A Cell is `Hopeless` when another
one must do its work: it is such a Cell, or it only repeats an update that
cannot be accepted. Its heartbeats may nevertheless renew its lease, as those of
any Cell (`Renewal`). The lease of a Cell that runs and has hope runs out only
if the Cell is too slow, which is one of the faults; every other lease may run
out at any time (`RunsOut`).

### UploadService = CellAccess + ResumableUpload + client and wire

`CellAccess`: credentials, pairing codes, nonces, request window and upload
quota; `Admits` is `authorize_cell_credential`, `Charge` what it records. Each
operation saves the state file once and is one step. `ResumableUpload`: an
operation that holds the uploads lock owes its disk writes in the order of the
code (`mgr.todo`), and a crash drops the rest. `UploadService` composes both: the Cell's
request is sent (`Send`), may be duplicated or late, is authorized and charged
under one lock (`Accept`, `Refuse`) and worked on later under the other
(`Work`, `Write`); the last one submits under a second authorization (`Submit`).
Client timeouts, the death of the Cell, and a crash of the service are faults.
The handlers are coroutines of one event loop: once its request is authorized,
only the handler of a chunk waits (for the body), and other requests are
handled meanwhile; the handlers of the other requests run to their end, with
nothing but a crash between their writes (`Running`, `LoopFree`).

Assumed: a copy of a request does not stay on the wire longer than
`replay_ttl_seconds` (the code forgets nonces after that time).

### CampaignRelease and CampaignBackup

`CampaignRelease`: operator processes run evaluate, finalize and export.
`evaluate_campaign` reads under the lock (`ReadState`) and writes
`evaluation.json` without it (`WriteEvaluation`); finalize and export look for
a current evaluation, evaluate otherwise and try three times (`Attempts`).
`CampaignBackup`: of every path in the state file only its root is kept;
`Rebase` is the path rewriting of `restore_campaign`, `Lose` the loss of a disk.

### WorkspaceLifecycle and ExecutionPlanner

Commands are processes that read the control file (`Read`), decide (`Decide`),
read it again (`Reread`) and replace it (`Save`), with any other command, and
`Killed`, in between. Manifest creation is the exclusive link of the code.
`ExecutionPlanner` is the pure function behind `plan`: from an inventory of
resources it picks a rank group (`Best`), builds the plan contract (`Builds`),
the launch contract (`Launches`) and the status (`Outcome`), or raises.
`CanRun` is the reference definition: the sets of resources that can run a
project, without any ranking. What `WritePlan` may record is exactly what `Outcome`
gives for some inventory.

### StagePlacement

`build_placement_plan` as a system that is asked again and again (`Request`),
while other programs take and free memory (`OthersChange`). Each call, the
first one too, may leave any devices out and have telemetry of any of them
(`Calls` bounds which), whether a plan runs or not. The memory that is held back is
a number of each device and may be none; the limit of stages is one of
each miner. A call puts one
stage after another into each placement of its beam (`PlaceStage`: `Options`,
then the search for a completion, `Completes`, then the cut, `Cheapest`) and
takes the best one that has every required type of device (`Choose`).
`Budget` is the arithmetic of free memory, reserve and the memory the running
stages occupy themselves. `Known` says of which devices a call knew the truth:
the ones that reported some free memory, and those whose capability happens to
be right. Memory, times and penalties are small numbers;
`BestUnlessCut` and `FailsOnlyIfImpossible` compare the beam with all
placements there are (`Placements`, `Fit`). Nothing in the repository but its
tests calls the function yet, so the properties are about what it promises a
caller. The numbering of placement generations, `detect_stragglers` and the
validation of the documents are left out, and so is the cost of compiling for
a TPU.

### StableSession

One invocation of `run_stable_sharded_session` is a process with a program
counter, `ses.pc`: it takes the session lock (`Start`), looks at the head of
the lineage (`ChooseEnd`, `ChooseFresh`, `ChooseActive`), issues
(`CheckPause`, `Issue`), starts the rank group (`Prepare`), waits for it
(`TrainEnded`, `Timeout`), and then commits (`Judge`, `Promote`, `Commit`) or
rejects and retries (`Refuse`, `Clean`, `Unlink`, `Again`). The steps are cut
where the disk changes, so `Crash` comes between any two writes. `Issue`,
`Commit` and `Refuse` are the actions of `SessionController` itself. `Raise` is
any exception, and also the end of the invocation: both release the lock.

`attempts`, `results` and `payloads` are the directories and files of those
names. A payload's digest is the attempt that wrote it, so "which training is
behind this checkpoint" can be asked. A rank group is started with
`start_new_session=True` and survives its session: `groups` are the ones that
run, and an orphan may write its checkpoint and its result at any later moment.

The trainer is external. It keeps the documented contract, checkpoint before
result, and may otherwise fail: exit early with either status, run out of time,
or leave a result that does not validate (`BadResults`). Of the workspace only
the pause flag remains, which `run_workspace` rewrites from a state it read
without a lock (hence `Resume` without an operator).

## 3. Runs

| Run | Question | Bounds |
|---|---|---|
| `controller_elastic` | all safety properties of the controller; can a replay, a renewal or another contributor shorten a lease or take it over; the refinement of `WorkLedger`, crashes among the projections, and what an export copies meanwhile | 2 Work Units, 2 contributors, 2 generations and no more than 3 generations of Work Units in all (`FewLeases`), clock and expiries up to 2, 1 commit of a checkpoint |
| `coordinator_safety` | quorum, lineage, fencing, durability under late and repeated messages and a crash; the refinement of `Campaign` | 3 Cells for 2 shards, 2 rounds, leases of generation 1 may run out, 1 crash, 1 pause |
| `cells` | are updates counted exactly once by their Cells, is none kept for ever, does the campaign finish although a Cell vanishes with a lease | 3 Cells of which 1 hangs or vanishes in its training, 1 round of 2, 1 fault of any kind (lost answer, kill, slow Cell, crash, bad update, pause) besides lost leases and cleanup |
| `bridge_safety` | coordinator and controller agree | 2 Cells, 2 shards, 2 rounds, 2 generations, 1 crash |
| `service` | does every request take effect at most once and every upload arrive | 1 sender and 1 Cell with a code, 2 chunks, 3 requests per window, quota of the upload exactly, 1 fault |
| `workspace` | which interleavings of commands lose a pause or mix two projects; are recorded plans sound | 2 processes, 4 commands, every inventory over 3 resources of 2 groups |
| `release` | do stale evaluations break finalize or an export | 2 operators, 2 versions, 1 kill |
| `stable_session` | is a payload or a finished training ever lost, and is the target reached | target 2, step counts 1 and all, 2 faults, 1 restart per invocation, 1 pause |
| `placement` | is a placement found when there is one, does it fit the machines, is it the best | 3 stages of 3 kinds of need, 3 devices of 2 miners, three sets of free memory, reserves from none to more than there is and limits, beam of 1 and 20, both policies, 2 plans, 5 kinds of call (none, some, all devices with telemetry; none, one, two left out) |
| `coordinator_heartbeat`, `bridge_claims`, `restore` | three statements of the repository's docs, comments and tests that the code does not keep | as small as the counterexample allows |

Why these bounds are enough. What the controller decides about a work id
depends on its latest ended generation and on whether it is terminal or fenced;
two generations give every pair of endings, and the proofs of section 5 hold for
any number of them. Two Work Units are what one-commit-fences-another needs, and
with three generations of Work Units in all there is a reassigned one beside it.
A lease that a replay could shorten or a second contributor take over needs
two contributors and three clock values: a lease issued until 2 can be replayed
until 1 by either contributor before it has ended. Two
rounds give an update of the closed round against the open one; three Cells for
two shards give a Cell without a lease that takes over an expired one. One
crash can hit any write of any operation, and recovery ends in a state that is
already explored. `MaxGen` in the coordinator bounds how often a lease runs
out, not what happens then.

In `cells` one fault is combined with every order of three Cells, one more than the
quorum, so that one may stop with either shard and a third one can take over; a
second round would bring only updates of a closed round, which
`coordinator_safety` has. To the coordinator a Cell that vanished before it
claimed is no Cell at all, and one that vanished between training and sending is
one that vanished in training. In `service`, one fault is a lost or doubled
request, a crash between any two writes, a restart of the Cell or a credential
ended too soon; the retry after it meets the rate limit and the quota, which are
set so tight that it does: a sender needs four requests and its chunks fill the
quota, so a repeated chunk needs a new credential. Two chunks are the smallest
upload that a crash can leave half received. In `workspace`, a lost pause takes
two commands after init and plan. Three resources are the smallest inventory
with two devices in one group against one in another. In `release`, two
processes are the least that can overwrite each other's evaluation;
`FinalizeSucceeds` says itself that it is about two.

Three stages on three devices are the least at which a cheap first stage can
take the only place of a later one and two stages of a miner fill its limit; a
beam of 20 drops nothing, a beam of one drops everything it can. A second plan
is the least that knows of a running one, and it is made in every state the
first can leave, a failed one too. The five kinds of call have a device that is
left out and runs a stage, one that is silent while its neighbour reports, and a
telemetry of none and of all.

Two faults in the stable session are a fault and one in the recovery from it;
target 2 with both step counts gives a second Work Unit from the first one's
payload and an invocation that finds an active Work Unit cut to another size.

Symmetry is used over Cells, and in `controller_elastic` over Work Units and
contributors (the controller compares them for equality only), in runs without
liveness properties.
`CHECK_DEADLOCK FALSE` stands where the system may stop: plans used up, a
controller whose Work Units are all accepted or out of generations, a
coordinator that crashed and is refused recovery, a campaign or session at its
target, commands used up.

Every property has a mutant in `PROJECT.json`: a definition of the model
changed as a plausible bug would change the code (a dropped generation check, a
lease that survives a commit, a manifest written before its chunk), under which
the run finds the property violated. The mutated definitions stand in the
modules, marked as mutants, above the originals.

### What the refuted statements show

1. `LedgerVerifies` (`coordinator_heartbeat`). A heartbeat whose lease is gone
   raises after the expiry pass has appended `lease_expired` events and without
   saving the state that counts them. From then on `verify_ledger` fails, and
   so does every recovery. It needs no crash: two Cells, one expiry and one
   late heartbeat.
2. `ClaimMirrored` (`bridge_claims`). The controller follows an ended
   generation only if it ended as `lease_expired` or by a rejection; the bridge
   replaces an expired lease with `replace_active`, which leaves
   `generation_reassigned`. So the first expiry of a work unit is mirrored and
   the second is refused: the coordinator has leased the shard, the Cell gets
   an error, again and again.
3. `RestoredSelfContained` (`restore`). A restored campaign's accepted updates
   of the open round and its held-out set still lie under the old root: the
   restore rewrites `delta_path`, the records hold `accepted_delta_path`. With
   the old disk gone the round cannot close.

### Limits that passing properties name

A passing property may name a state as its exception; without the exception it is
false, as TLC shows. Four of these exceptions contradict what the repository says
of itself, like the statements above:

- `Stranded` in `UploadsFinish`. A crash of the service between the session
  directory (`volunteer_training_storage.py:441`) and its manifest (`:464`) stops
  this upload for good: every later start finds no manifest, and `mkdir` refuses the
  directory. The docstring at `:323` says "so an upload survives transport/process
  failure", and `:393` reports `"resumable_after_restart": True`.
- `Wedged` in `TargetReached`. In the recovery of an active Work Unit of the
  stable mode, a result file that is there but does not validate raises out of the
  session (`backends/stable_session.py:637-650`); the attempt is neither committed
  nor rejected, and the next session raises at the same place. In the attempt
  loop the same error is caught. `docs/stable-sharded-trainer.md:96-102` says that an
  incomplete attempt receives a rejected receipt and that its Work Unit is
  reissued.
- `crashes = 0` in `ReceiptRecoverable`. A crash between the coordinator's save of
  an accepted update and the controller's commit is repaired by the Cell's resend,
  unless another Cell closes the round first: that commit fences the lease, and
  the accepted update has no receipt for ever. `docs/security.md:11` lists
  "exactly-once receipt/checkpoint commit with restart recovery".
- `Unrecoverable` in `PendingEnds` and `CampaignFinishes`. A crash between the
  append of a ledger event and the save has the effect of `LedgerVerifies` being
  violated: `recover_after_restart` neither truncates nor replays the extra event,
  and the campaign stays down.

The property then says that there is no other way to lose what it promises. The
other exceptions contradict no document that we found:

- A Cell whose training hangs, or that is started again and again with an update
  that cannot be accepted, renews its lease from its heartbeat thread and keeps its
  shard for ever (`Renews` in `PendingEnds` and `CampaignFinishes`). It must do so
  again and again: one renewal that comes too late ends it.
- `cleanup` on a Cell with a pending submission makes every later `join_once`
  fail (`gone` in the same two).
- An archive may hold an evaluation of another version if a slow evaluation is
  written during the export (`slow` in `ExportCoherent`).
- A pause is undone by `resume`, or by a command that read the control file
  before the pause (`OnlyEarlierCommandsUnpause`).
- A placement may fail for a missing type of device although one with it exists,
  once the beam was cut (`cut` in `BestUnlessCut`); it never fails for lack of
  memory that is there (`FailsOnlyIfImpossible`).
- A device whose telemetry reports nothing free, or that sends none, is given the
  free memory of its capability plus what its stages occupy, which can be more
  than it has (`Known` in `FitsMachines` and `FailsOnlyIfImpossible`).

## 4. Fairness

`TrainingCell` (`cells`): a started operation finishes: the
locks are taken in one order, and the holder of the last one waits for nobody. A
Cell of `Live` whose process runs goes on with strong fairness: the file lock is
handed out again and again, but other requests can change the state between two
tries, so weak fairness would not describe it. The process ends with the first
exception, since `run` catches none, with a refused submission and in a pause;
that it is started again (`WF` of `Start`) is an assumption about its owner or a
supervisor, not about the code. So is that a pause ends and that a coordinator
that can be recovered is. Nothing is assumed of the Cells outside `Live`.

On the lease of a hopeless Cell time passes (`TimePasses`): it runs out, unless it
is renewed. How often heartbeats come is not assumed away: the behaviours
in which a hopeless Cell renews for ever are the exception `Renews` of the two
properties. The lease of a Cell that is not hopeless runs out as often as there
are faults, and then is answered in time: a Cell that is always too slow would
never finish, in the code too.

`UploadService` (`service`): the manager finishes its writes; an accepted request
is worked on and a request on the wire arrives or is dropped; a Cell with an
update sends and enrols again (strong, since the rate limit and the
nonces enable and disable it); the window passes, a useless credential expires,
pairing codes are created. That a Cell sends again after its process died or a
request failed is, as above, its owner's or supervisor's part. Nothing is assumed of crashes or lost requests but
their number.

`CampaignRelease` (`release`): rounds go on and a started command goes on
although the lock is busy in between (strong); an operator gives finalize again
and again.

`StableSession` (`stable_session`): a session and a rank group that run make their
next step; the operator starts a session again and again, with each of the step
counts infinitely often (one count alone may meet an active Work Unit of
another size and be refused every time), and a pause ends. Nothing is assumed
of crashes, time limits or failures but their number.

## 5. Proofs

Everything in this section holds for every value of the constants that their
assumptions allow: any number of Work Units, contributors, Cells, shards,
rounds, generations, processes, crashes. The runs of section 3 checked each
invariant, and each inductive invariant below, on small instances first.

### Session controller (`SessionControllerProofs`)

| Theorem | States |
|---|---|
| `TypeCorrect`, `Invariance`, `FileInvariance` | `TypeOK` and the inductive invariants `Inv` and `Loadable` |
| `OldBaseFenced` | `ActiveOnHead` |
| `ExactlyOnceAcceptance` | `AcceptedOnce` |
| `SavedStateReloads` | `StateReloads` |
| `ProjectionsNeverAhead` | `ProjectionsFollowState` |
| `EveryCheckpointHasReceipt` | `CheckpointsHaveReceipts` |
| `HistoryNeverRewritten`, `LeasesExtended` | the action properties `HistoryImmutable`, `LeasesOnlyExtended` |
| `ImplementsLedger` | `Spec => LedgerSpec`, the refinement of `WorkLedger` |
| `ExportHangsTogether` | `ExportClosed`, for an export beside a moving controller |

`AcceptedOnce` is not inductive: `issue` compares a new generation only with
the latest ended one, by searching the records for it. `HasLatest` says there
is a latest one whenever anything ended; `EndedOlder`, that all of them are
below the active generation, so that ending the active one makes it the latest;
`EndedOnce`, that no key ended twice; `AcceptedLast`, that an accepted
generation is the latest and nothing is active above it. `HistoryFresh` then
gives that what issue lets through is above every ended generation. All ways to
end leases are one lemma, `RetireInv`. `ActiveOnHead` makes every other lease
stale when the head moves, because the new hash is not the old head's, so a
commit with a checkpoint leaves no active lease at all (`CommitCheckpointInv`).
`Loadable` adds what the load checks beyond that: the number of leases, one at
most in the stable mode, and that every base and output is in the lineage.
The refinement is proved action by action; a crash and the projections are
stutters of the ledger.

### Campaign coordinator (`VolunteerCoordinatorProofs`)

`CoordinatorTypes` (`TypeOK`), `RoundsAlwaysQuorate` (`RoundsQuorate`),
`LineageStaysIntact` (`LineageIntact`), `AcceptedUpdatesWereHeld`
(`AcceptedWasHeld`), `GenerationsNeverShared` (`GenerationsUnique`),
`CampaignStaysDurable` (`CampaignDurable`) and `ImplementsCampaign`
(`Spec => CampaignSpec`), from `CoordinatorInvariance`.

The state file is replaced as a whole, so the work is in the copies. `Good`
is what holds of a campaign by itself, `Follows` how a saved campaign may
differ from the one before it; the invariant says that the saved campaign is
`Good` and that the copy of an operation in progress is `Good` and `Follows`
it (`Operating`). Then a save needs no case analysis, and a crash none at all.
`Owing` says which writes may still be owed: a copy that is a version ahead owes
its directory before its save, which gives `LineageIntact` across crashes.
`Granting` ties the leases that Cells hold to the saved work: none is of a
generation beyond the saved one, so the next grant of a work unit is new, also
after a crash forgot one. `InRound` (a result's work unit is accepted, at its
generation, by its Cell, and one result per Cell) is what makes a round with a
quorum of results a quorum of distinct Cells.

### Bridge (`VolunteerClientProofs`)

`BridgeKeepsCoordinator` (`BSpec => Spec`: what is proved of the coordinator
holds in a session), `LineagesNeverDiverge` (`LineagesAgree`),
`ReceiptsAlwaysBacked` (`ReceiptsBacked`), `DeliveredAlwaysKnown`
(`DeliveredKnown`), `ReceiptsRecoverable` (`ReceiptRecoverable`), from
`BridgeInvariance`.

The controller follows the coordinator by one request. `Following` is what it
has at any time: the lineage up to the coordinator's version or one short of
it, leases that are on its head and that a Cell holds, terminals backed by
accepted updates, and, when it is behind, the active lease whose commit catches
up. `Requesting` is what the bridged request still owes it. `Lossless` is about
executions without a crash only, as `ReceiptRecoverable` is (section 3 says what
a crash does): no version directory is left over, the round
a closing update ended is over, and every accepted update has its receipt or
is the one being mirrored. The controller's actions are the ones of
`SessionController`; their guards are shown to hold where the bridge relies on
them, and refusals change nothing.

### Training Cells (`VolunteerClientProofs`)

`CountsStayExact` (`CountsExact`) and `CellsImplementCampaign`
(`TSpec => CampaignSpec`) from `CellInvariance`. The Cells ask only for
what the coordinator's specification lets any Cell ask for (`CellsAsk`), because
what a Cell trains or sends was leased to it (`Leased`); so the coordinator's
invariant carries over. `Calling` is about the one request under way: the copy
about to be saved has the accepted updates of the saved campaign and, if this
request was accepted, the one its Cell holds as pending. `Exact` then survives
the save whether the answer arrives (the Cell counts and drops it) or is lost
(it stays pending, and the replay counts it). A lease in an answered claim is
never of an update that was accepted before (`GrantedUnaccepted`), so what is
trained under it counts as new.

### Uploads (`UploadServiceProofs`)

`ManifestsBacked` (`ChunksBacked`) and `EffectsOnce` (`AppliedOnce`), of `SSpec`;
`SFairSpec`, which the run checks, is `SSpec` with its fairness. `ChunksBacked`
has to be kept by every prefix of an operation's writes: `Owed` lists what may
still be owed and what is on the disk by then. `AppliedOnce` follows from
`Once`: no two requests share a nonce, the nonce of an accepted request is
remembered, and what a handler still holds, or the service would still accept
from the wire, has not taken effect yet.

### Stable session (`StableSessionProofs`)

`PayloadsStayInPlace` (`PayloadsInPlace`), `AcceptedIsTrained`
(`AcceptedPayload`) and `GoodResultsKept` (`ResultsKept`) from
`SessionInvariance`, of `SSpec`; `SFairSpec`, which the run checks, is `SSpec`
with its fairness. Neither invariant is inductive: nothing in `PayloadsInPlace`
says that the payload a session commits is the one its trainer wrote, or that
an orphan of a dead session cannot write another one in its place. `Leased`
makes the active Work Unit the only one and puts it on the head, so that it
starts where the lineage ends and no attempt is named twice; `Accounted` says
that a payload is a committed one or one of the active attempt, so the payload
of the step to be reached is free for every other attempt; `Traced`, that an
attempt which was never issued left nothing, so that a fresh generation finds no
result of an older one. `Trained` ties the three things a crash can
separate: a promoted payload has its result, and a good result has its
attempt or its payload. `Working` and `Judged` are what the session remembers
of the disk between two steps, and why this stays true although orphans write:
they write to their own attempt, never over a payload, and a result that is
there is not replaced. For `ResultsKept`, `Kept`
follows one abandoned attempt through every later session: it is taken up as a
recovery, judged and committed, or left for the next session, and never handed to
`Refuse`.

`SessionImplementsLedger` (`SSpec => Ctl!LedgerSpec`) is the refinement of `WorkLedger`
end to end. The calls a session makes are the controller's actions, but its steps
are not all the controller's (a session writes both projections at once, and
crashes with the call it is in), so it is proved of the session directly:
`Issue` opens, `Commit` promotes, `Refuse` drops, a first `Start` binds. What is
needed beyond `SessionInvariance` is `Landed`: an accepted Work Unit ends at or
before the head, so the next one, cut from the head, has another id.

### Workspace (`WorkspaceLifecycleProofs`)

`OneProject` (`ManifestAgreed`) and `PausesKept` (`OnlyEarlierCommandsUnpause`)
from `WorkspaceInvariance`: what a process between its two reads and its write
holds (`Holds`), and that a process which saw a pause it is not there to end
will write a pause (`KeepsPause`).

`PlannerSound` is about the planner alone, for every kind of project and every
inventory of finitely many resources: a plan with status ready names resources
that satisfy the reference definition `CanRun` (`ReadyPlansCanRun`), and a plan
is ready, with as many devices as can be had, whenever discovered resources can
run the project (`ElasticPlansReady`, `StablePlansReady`). The rank group is
the best in an order of sums, so the proof first shows what the folds of the
model compute: `Sums` describes the function that adds up the weights of any
subset, `SumExists` and `FoldIsSum` that the fold is that function, `SumGrows`
that it is monotone, and `BestIsAhead` that the order has a first group.
`PlansAlwaysSound` (`Spec => []PlansSound`) adds `WorkspaceInvariance`: the
project a command plans for is the one it is bound to.

### Stage placement (`StagePlacementProofs`)

`PlansFitMachines` (`FitsMachines`), `FailuresAreJustified`
(`FailsOnlyIfImpossible`) and `BestIsFound` (`BestUnlessCut`) from
`PlacementInvariance`, for any number of stages, devices, plans and any width
of the beam.

The heart is `SearchIsExact`: the look-ahead, which always takes the stage with
the fewest options, succeeds exactly if the placement has a completion within the
budgets (`Completable`). `SearchStep` says that a placement can be completed iff
every stage that is left has an option and, of any one stage, one of the options
can be completed; it rests on options only ever shrinking (`UsedFacts`,
`PlacedFacts`). So `Completable` solves the equation that defines the recursive
function `Completion`, which is thereby shown to exist (`CompletionSearches`), and
an induction over the stages that are left shows that there is no other
solution.
With it `Beaming` is inductive: a beam never holds a dead end, so it runs empty
only if nothing fits, however much of it was cut; and as long as nothing
was cut it holds the beginning of every placement that fits. That is why
failures are justified even under a narrow beam while the best placement needs a
wide one. `Honest` is about the budget of a device the call knew the truth about, whatever it
was told of the others: it is no more than the machine has beside other
programs, and no less beyond the reserve, because the memory that the running
stages occupy is counted as available exactly once (`BudgetIsHonest`; a device
without stages is `UnusedFacts`). `CheapestExists` says that the sort keeps something.

Induction over subsets and lengths is done with least elements of well-founded
orders (`LeastSubset`, `LeastOf`).

### Release (`CampaignReleaseProofs`)

`ArchivesCohere` (`ExportCoherent`), `ThreeTriesSuffice` (`FinalizeSucceeds`),
`FinalizedOnlyComplete` (`FinalizedComplete`, the safety half of `Finalized`) and
`ReleaseImplementsCampaign` (`RSpec => CSpec`) from `ReleaseInvariance`. For the
three tries a second invariant, `Held`, counts: with one other process at
most one stale evaluation is pending once the campaign is complete, and a try
that fails has used it up.

### Assumptions

The bounds are naturals, positive where a bound of zero leaves nothing to model
(target, rounds, chunks, generations of the coordinator, limits of access, Work
Units of a session); a call of the planner is a pair of sets of devices (`PlacementAssumption`).
`None`, `NoCell` and `NoCode` are not among the values they are absent from
(hashes, contributors, Cells, projects, control states, versions, operators,
attempts, the owner of a session). The lineages given to `initialize` are
lineages (`SeedAssumption`; the code checks it when it builds `CheckpointLineage`).
The quorum is positive and at most the number of shards (the campaign's creation
checks it); Cells and operators are finitely many. Those who are invited and those
who send are Cells, and each sender has the one upload it sends. Projects are of
the kinds the planner knows.

A model has at least one stage, and a stage needs some memory on every type of
device it allows (its workspace is at least 64 MiB); a miner takes at least one
stage and the beam is at least one wide (the validation says so). The
memory of a device, what its capability reports free, its reserve, times and
penalties are not negative; the reserve may be none (`AskAssumption`). Nothing else is
assumed, and every assumption is evaluated by the runs.

### Only model-checked

- Liveness (`PendingEnds`, `CampaignFinishes`, `UploadsFinish`, `TargetReached`,
  the liveness half of `Finalized`): the prover has no rules for
  fairness and ENABLED here.
- The three refuted statements, of course: `LedgerVerifies`, `ClaimMirrored`,
  `RestoredSelfContained`.

## 6. Plan

Models still worth having:

1. Browser probes (`volunteer_training_coordinator.py:1012-1354`): leases of
   their own beside the training rounds and on the same ledger.
2. The quotas of the whole campaign and of submissions, scopes, policy changes
   and key rotation in `CellAccess`.
3. Enrolment and resource preflight of a joining Cell (`volunteer_session.py`).

Every safety property that a passing run checks is proved; a new model should
come with its proofs.

## 7. Not modelled

- Browser probes: planned, see above.
- Backend registry and plug-ins: discovery of Python entry points; only the two
  built-in backends appear in `ExecutionPlanner`.
- Campaign creation, proposals, Data Packs: validation and packaging of
  documents that never change, before a campaign exists.
- Model adapters and numerical training: tensor computation and validation of
  values. The models take "this update validates" as given.
- Command line, release tools, benchmarks, dashboards, project site: argument
  parsing, reports and read-only views over the operations above.

Left out of modelled parts: the removal of uploads and campaign files (cleanup of
the coordinator and of the blob store), the S3 store, the artifact cache and
model snapshot download of the Cell, materialization of launch files and the
CPU validation option of the planner, the dry run of the stable session, HTTP
routing and size limits, timestamps and reports everywhere.
