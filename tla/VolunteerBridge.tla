--------------------------- MODULE VolunteerBridge ---------------------------
(***************************************************************************)
(* One elastic session (backends/volunteer_session.py): the Volunteer      *)
(* coordinator and, in the same process, the v2 session controller that    *)
(* mirrors it (backends/elastic_peft.py, VolunteerControllerTransport).    *)
(* The coordinator answers a claim or a submission and saves; then the     *)
(* answer is translated into Work Units and receipts and issued to or      *)
(* committed in the controller.  A transaction lock keeps other bridged    *)
(* requests out meanwhile; a crash or a refusal by the controller leaves   *)
(* the coordinator ahead.                                                  *)
(*                                                                         *)
(* Composes VolunteerCoordinator and SessionController, whose actions it   *)
(* uses as they are.  Adapter version v and the checkpoint adapter-v<v>    *)
(* stand for each other; a work id is a round and a shard.  Expiry times   *)
(* are the coordinator's business here: every mirrored lease has one.      *)
(***************************************************************************)
EXTENDS VolunteerCoordinator

CONSTANT MaxActive

ASSUME ActiveAssumption == MaxActive \in Nat

VARIABLES
    lineage, active, terminals, fenced, saving, projCkpts, projReceipts,
    mirror,      \* the bridged request whose answer is not mirrored yet
    delivered,   \* leases that reached their Cell in an answered claim
    closers      \* the updates recorded with round_aggregated

cvars == <<lineage, active, terminals, fenced, saving, projCkpts, projReceipts>>
bvars == <<mirror, delivered, closers>>
allvars == <<vars, cvars, bvars>>

\* checkpoint_lineage_from_campaign: adapter-v0 to adapter-v<v>.
Adapter(v) == [hash |-> v, parent |-> IF v = 0 THEN NoCell ELSE v - 1, step |-> v]
RemoteLineage == [i \in 1..(st.version + 1) |-> Adapter(i - 1)]

Ctl == INSTANCE SessionController WITH
    WorkIds <- Version \X Shards, Contributors <- Cells, Hashes <- Version,
    Seeds <- {<<Adapter(0)>>}, StableSharded <- FALSE, MaxTime <- 1,
    MaxStep <- TargetRounds, None <- NoCell

NoMirror == [kind |-> "none"]

\* work_from_claim
WorkOf(g) == [id |-> <<g.version, g.shard>>, gen |-> g.gen,
              base |-> g.version, shard |-> g.shard]

\* A session on a new campaign: the constructor has bound the controller to
\* the lineage of version 0.
BInit ==
    /\ Init
    /\ lineage = <<Adapter(0)>> /\ active = {} /\ terminals = {} /\ fenced = {}
    /\ saving = FALSE /\ projCkpts = {0} /\ projReceipts = {}
    /\ mirror = NoMirror /\ delivered = {} /\ closers = {}

-----------------------------------------------------------------------------
\* _transaction_guard
Guard == mirror = NoMirror /\ ~saving

\* claim: a new lease, or the Cell's own lease again, is mirrored; an answer
\* without a work unit is not.
BClaimLease(c) ==
    /\ Guard /\ ClaimLease(c)
    /\ \E g \in Leases(op'.mem) : g.cell = c /\ mirror' = [kind |-> "claim", grant |-> g]
    /\ UNCHANGED <<cvars, delivered, closers>>

BClaimNothing(c) ==
    /\ Guard /\ ClaimNothing(c)
    /\ LET own == IF op'.mem.complete THEN {}
                  ELSE {g \in Leases(op'.mem) : g.cell = c}
       IN  mirror' \in IF own = {} THEN {NoMirror}
                       ELSE {[kind |-> "claim", grant |-> g] : g \in own}
    /\ UNCHANGED <<cvars, delivered, closers>>

\* heartbeat: an accepted one renews the mirrored lease, whose expiry is
\* abstracted.
BHeartbeat(g) ==
    /\ Guard /\ g \in delivered
    /\ Heartbeat(g) \/ LateHeartbeat(g)
    /\ UNCHANGED <<cvars, bvars>>

BSubmitAccepted(g) ==
    /\ Guard /\ g \in delivered
    /\ SubmitAccepted(g)
    /\ mirror' = [kind |-> "submit", grant |-> g]
    /\ closers' = closers \cup (IF op'.mem.version # st.version THEN {g} ELSE {})
    /\ UNCHANGED <<cvars, delivered>>

\* Mutant of BSubmitRejected: any answer is mirrored as an acceptance.
BSubmitRejectedMirrored(g) ==
    /\ Guard /\ g \in delivered
    /\ SubmitRejected(g)
    /\ mirror' = [kind |-> "submit", grant |-> g]
    /\ UNCHANGED <<cvars, delivered, closers>>

BSubmitRejected(g) ==
    /\ Guard /\ g \in delivered
    /\ SubmitRejected(g)
    /\ UNCHANGED <<cvars, bvars>>

\* The Cell sends an accepted update again (it never saw the answer): the
\* coordinator replays its answer, which is mirrored like the first one.
BSubmitReplay(g) ==
    /\ Guard /\ Ready /\ g \in st.results
    /\ mirror' = [kind |-> "submit", grant |-> g]
    /\ UNCHANGED <<vars, cvars, delivered, closers>>

-----------------------------------------------------------------------------
\* _record_claim_response: what the controller must grant for the lease g.
BaseKnown(g) == g.version \in Ctl!LineageHashes
Replayed(g) ==
    {r \in Ctl!ActiveOf(WorkOf(g).id) : r.work = WorkOf(g) /\ r.owner = g.cell}
MirrorClaimAllowed(g) ==
    LET w == WorkOf(g)
    IN  /\ BaseKnown(g) /\ Ctl!OnHead(w)
        /\ \/ Ctl!ActiveOf(w.id) = {} /\ Ctl!HistoryAllows(w)
              /\ Cardinality(active) < MaxActive
           \/ Replayed(g) # {}
           \/ \E r \in Ctl!ActiveOf(w.id) : Ctl!ReassignAllowed(r, w)

\* The answer of the coordinator is there, and no one else holds its lock.
Answered(kind) == mirror.kind = kind /\ Ready /\ ~saving

MirrorClaim ==
    /\ Answered("claim")
    /\ LET g == mirror.grant
           w == WorkOf(g)
       IN  /\ BaseKnown(g)
           /\ \/ Ctl!IssueNew(w, g.cell, 1)
              \/ Replayed(g) # {} /\ Ctl!OnHead(w) /\ UNCHANGED cvars
              \/ \E r \in Ctl!ActiveOf(w.id) : Ctl!Reassign(r, w, g.cell, 1)
           /\ delivered' = delivered \cup {g}
    /\ mirror' = NoMirror
    /\ UNCHANGED <<vars, closers>>

\* Mutant of MirrorClaimRefused: the Cell gets its lease all the same.
MirrorClaimRefusalIgnored ==
    /\ Answered("claim") /\ ~MirrorClaimAllowed(mirror.grant)
    /\ delivered' = delivered \cup {mirror.grant}
    /\ mirror' = NoMirror
    /\ UNCHANGED <<vars, cvars, closers>>

\* The controller refuses: the request fails, the coordinator keeps the lease.
MirrorClaimRefused ==
    /\ Answered("claim") /\ ~MirrorClaimAllowed(mirror.grant)
    /\ mirror' = NoMirror
    /\ UNCHANGED <<vars, cvars, delivered, closers>>

\* record_submission_response: a terminal of that generation is replayed (an
\* aggregated one only while the two lineages are equal); else the active
\* lease of that generation is committed, with the next checkpoint if the
\* round was aggregated and the coordinator is exactly one version ahead.
TerminalOf(g)  == {t \in terminals : Ctl!Key(t.work) = Ctl!Key(WorkOf(g))}
Receipt(g, v)  == [by |-> g.cell, outcome |-> "accepted", output |-> v]
OneAhead       == Len(RemoteLineage) = Len(lineage) + 1
                  /\ Ctl!LineageIsPrefix(lineage, RemoteLineage)

MirrorReplay(g) ==
    \E t \in TerminalOf(g) :
        /\ g \in closers => RemoteLineage = lineage
        /\ t.receipt.output # NoCell <=> g \in closers
        /\ t.receipt.by = g.cell
        /\ Ctl!CommitReplay(t)

\* Mutant of MirrorCommit: only the update that closes the round is committed.
MirrorCommitClosing(g) ==
    /\ TerminalOf(g) = {}
    /\ IF g \in closers
       THEN OneAhead /\ Ctl!CommitCheckpoint(WorkOf(g), Receipt(g, st.version),
                                             Adapter(st.version))
       ELSE UNCHANGED cvars

MirrorCommit(g) ==
    /\ TerminalOf(g) = {}
    /\ IF g \in closers
       THEN OneAhead /\ Ctl!CommitCheckpoint(WorkOf(g), Receipt(g, st.version),
                                             Adapter(st.version))
       ELSE Ctl!CommitReceipt(WorkOf(g), Receipt(g, NoCell))

MirrorSubmit ==
    /\ Answered("submit")
    /\ MirrorReplay(mirror.grant) \/ MirrorCommit(mirror.grant)
    /\ mirror' = NoMirror
    /\ UNCHANGED <<vars, delivered, closers>>

MirrorSubmitRefused ==
    /\ Answered("submit")
    /\ LET g == mirror.grant
       IN  IF TerminalOf(g) # {}
           THEN g \in closers /\ RemoteLineage # lineage
           ELSE \/ Ctl!LeaseFor(WorkOf(g), Receipt(g, NoCell)) = {}
                \/ g \in closers /\ ~OneAhead
    /\ mirror' = NoMirror
    /\ UNCHANGED <<vars, cvars, delivered, closers>>

-----------------------------------------------------------------------------
\* The request that does not go through the bridge.  The operator's pause and
\* finalize only disable claims, so here the campaign is always running.
Unbridged ==
    /\ ExpireLeases
    /\ UNCHANGED <<cvars, bvars>>

CoordinatorWrites ==
    /\ WriteEvent \/ WriteVersion \/ Save
    /\ UNCHANGED <<cvars, bvars>>

\* _write_projections in one step; SessionController has it file by file.
ControllerWrites ==
    /\ saving /\ saving' = FALSE
    /\ projCkpts' = Ctl!LineageHashes /\ projReceipts' = Ctl!TerminalKeys
    /\ UNCHANGED <<lineage, active, terminals, fenced, vars, bvars>>

\* The exception of the coordinator reaches the Cell; nothing is mirrored.
BRaise ==
    /\ Raise /\ mirror' = NoMirror
    /\ UNCHANGED <<cvars, delivered, closers>>

\* One process: the coordinator, the bridge and the controller die together.
BCrash ==
    /\ Crash
    /\ saving' = FALSE /\ mirror' = NoMirror
    /\ UNCHANGED <<lineage, active, terminals, fenced, projCkpts, projReceipts,
                   delivered, closers>>

\* Mutant of Rebinds: a checkpoint whose commit was cut off is a conflict.
RebindsEqual == lineage = RemoteLineage

\* The constructor binds the session again only if the coordinator's lineage
\* is the controller's, or one version longer while a lease is active.
Rebinds ==
    /\ Ctl!LineageIsPrefix(lineage, RemoteLineage)
    /\ Len(RemoteLineage) \in {Len(lineage), Len(lineage) + (IF active # {} THEN 1 ELSE 0)}

\* prepare_volunteer_session: validate, bind, recover.
BRecover ==
    /\ Rebinds /\ Recover
    /\ UNCHANGED <<cvars, bvars>>

\* The clock is read as an operation begins: it passes an expiry in between.
Time ==
    /\ op = Idle /\ mirror = NoMirror /\ \E s \in Shards : MayBeLate(s) /\ LeaseRunsOut(s)
    /\ UNCHANGED <<cvars, bvars>>

BNext ==
    \/ \E c \in Cells : BClaimLease(c) \/ BClaimNothing(c)
    \/ \E g \in delivered : BHeartbeat(g) \/ BSubmitAccepted(g) \/ BSubmitRejected(g)
                            \/ BSubmitReplay(g)
    \/ MirrorClaim \/ MirrorClaimRefused \/ MirrorSubmit \/ MirrorSubmitRefused
    \/ Unbridged \/ CoordinatorWrites \/ ControllerWrites
    \/ BRaise \/ BCrash \/ BRecover \/ Time

BSpec == BInit /\ [][BNext]_allvars

-----------------------------------------------------------------------------
\* The controller's lineage is the coordinator's or one checkpoint behind it,
\* so that after any crash the session binds again.
LineagesAgree ==
    /\ Ctl!LineageIsPrefix(lineage, RemoteLineage)
    /\ Len(RemoteLineage) <= Len(lineage) + 1
    /\ ~up => Rebinds

\* The controller accepts nothing the coordinator did not accept, from no one
\* but the Cell that held the lease, and its checkpoints are the coordinator's
\* round results.
ReceiptsBacked ==
    \A t \in terminals :
        \E g \in st.results :
            /\ t.work = WorkOf(g) /\ t.receipt.by = g.cell
            /\ t.receipt.output # NoCell => g \in st.rounds[t.receipt.output]

\* A Cell never holds a lease of a generation the controller has not seen.
DeliveredKnown ==
    \A g \in delivered :
        \E w \in {r.work : r \in active} \cup {t.work : t \in terminals}
                 \cup {f.lease.work : f \in fenced} : w = WorkOf(g)

\* A lease the coordinator grants, an expired one included, can be issued by
\* the controller too.
ClaimMirrored == Answered("claim") => MirrorClaimAllowed(mirror.grant)

\* As long as the process lives, an update the coordinator accepted has its
\* receipt in the controller, or the lease that sending it again would commit.
\* docs/security.md promises it with restart recovery too, which is refuted: a
\* crash between the coordinator's save and the commit, followed by an update of
\* another Cell that closes the round, leaves an accepted one without either.
ReceiptRecoverable ==
    crashes = 0 =>
    \A g \in st.results :
        TerminalOf(g) # {} \/ \E r \in active : r.work = WorkOf(g)
=============================================================================
