------------------------ MODULE VolunteerCoordinator ------------------------
(***************************************************************************)
(* The volunteer campaign coordinator (volunteer_training_coordinator.py): *)
(* rounds of shard-sized work units leased to Cells, a quorum of distinct  *)
(* Cells per round, aggregation into the next adapter version.             *)
(*                                                                         *)
(* Every operation holds an flock, loads the state file, changes its copy, *)
(* appends audit events to the ledger file AS IT GOES and saves the state  *)
(* file last.  An operation is therefore a copy (op.mem) and the disk      *)
(* writes it still owes (op.todo); a crash drops the rest of them, and an  *)
(* error path may owe no save at all.                                      *)
(*                                                                         *)
(* Of the hash-chained ledger only this matters: an event that no saved    *)
(* state counts stays in the file for ever, so the count and the head that *)
(* verify_ledger compares never agree again.  orphan records that.         *)
(* Time is abstracted to the set of leases whose expiry has passed (late). *)
(***************************************************************************)
EXTENDS Naturals, Sequences, FiniteSets

CONSTANTS
    Cells,         \* cell id hashes
    Live,          \* the Cells that keep working; the others may vanish
    NumShards,     \* dataset shards: one work unit per shard and round
    Quorum,        \* round_policy.minimum_quorum
    TargetRounds,  \* round_policy.target_rounds
    MaxGen,        \* bound: generation up to which a Live Cell may be late
                   \* and any other Cell claims
    MaxCrashes,    \* bound: coordinator process crashes
    MaxPauses,     \* bound: pauses by the operator
    NoCell

ASSUME CoordinatorAssumption ==
    /\ Quorum \in Nat \ {0} /\ TargetRounds \in Nat \ {0}
    /\ MaxGen \in Nat \ {0} /\ MaxCrashes \in Nat /\ MaxPauses \in Nat
    /\ NumShards \in Nat /\ Quorum <= NumShards
    /\ IsFiniteSet(Cells) /\ Live \subseteq Cells /\ NoCell \notin Cells

Shards  == 1..NumShards
Version == 0..TargetRounds
WorkState == [state : {"queued", "leased", "accepted"}, gen : Nat,
              cell : Cells \cup {NoCell}]

\* A lease as its Cell knows it; it also names the result the Cell computes
\* under it (the base version fixes the round).
Grant == [cell : Cells, version : Version, shard : Shards, gen : Nat]

VARIABLES
    st,        \* the state file
    op,        \* the operation that holds the lock
    late,      \* shards of the current round whose lease has expired
    grants,    \* every lease ever handed to a Cell
    orphan,    \* the ledger file has an event no saved state counts
    versions,  \* directories under versions/
    up,        \* the coordinator process runs
    crashes, pauses

vars == <<st, op, late, grants, orphan, versions, up, crashes, pauses>>

\* _start_round_in_state
FreshRound == [s \in Shards |-> [state |-> "queued", gen |-> 0, cell |-> NoCell]]

\* create: version 0 and the first round.
NewCampaign == [version |-> 0, work |-> FreshRound, results |-> {}, rounds |-> <<>>,
                lifecycle |-> "running", complete |-> FALSE]

\* No operation holds the lock: nothing is owed (mem is then meaningless).
Idle == [mem |-> NewCampaign, todo |-> <<>>, wrote |-> FALSE, fresh |-> {}]

Init ==
    /\ st = NewCampaign /\ op = Idle
    /\ late = {} /\ grants = {}
    /\ orphan = FALSE /\ versions = {0}
    /\ up = TRUE /\ crashes = 0 /\ pauses = 0

-----------------------------------------------------------------------------
\* _locked_state: the operation works on its own copy m, owes the writes t and
\* moves the expiry of the leases in f.
Begin(m, t, f) ==
    /\ op' = [mem |-> m, todo |-> t, wrote |-> FALSE, fresh |-> f]
    /\ UNCHANGED <<st, late, grants, orphan, versions, crashes>>

Ready == up /\ op = Idle

Saves      == <<"save">>
EventSaves == <<"event", "save">>
WithEvent(b) == IF b THEN EventSaves ELSE Saves

\* Mutant of ExpiredIn: nothing expires.
NothingExpiresIn(m) == {}

\* _expire_leases_in_state: an expired lease goes back to the queue with its
\* generation kept; each one appends a lease_expired event.
ExpiredIn(m) == IF m.complete THEN {}
                ELSE {s \in late : m.work[s].state = "leased"}
ExpireLeasesIn(m) ==
    [m EXCEPT !.work = [s \in Shards |->
        IF s \in ExpiredIn(m) THEN [m.work[s] EXCEPT !.state = "queued", !.cell = NoCell]
        ELSE m.work[s]]]

ExpireLeases ==
    /\ Ready
    /\ Begin(ExpireLeasesIn(st), WithEvent(ExpiredIn(st) # {}), {})
    /\ UNCHANGED <<up, pauses>>

\* The updates accepted in the current round, and who sent them.
RoundResults(m)  == {g \in m.results : g.version = m.version}
AcceptedCells(m) == {g.cell : g \in RoundResults(m)}
LeasedTo(m, c)   == {s \in Shards : m.work[s].state = "leased" /\ m.work[s].cell = c}
Queued(m)        == {s \in Shards : m.work[s].state = "queued"}

Claimable(m, c) ==
    /\ m.lifecycle = "running" /\ ~m.complete
    /\ LeasedTo(m, c) = {} /\ c \notin AcceptedCells(m)
    /\ Queued(m) # {}

\* Mutant of ClaimLease: the generation of the expired lease is reused.
ClaimLeaseSameGen(c) ==
    /\ Ready
    /\ LET m == ExpireLeasesIn(st)
       IN  /\ Claimable(m, c)
           /\ \E s \in Queued(m) :
                 Begin([m EXCEPT !.work[s] = [state |-> "leased", gen |-> 1, cell |-> c]],
                       EventSaves, {s})
    /\ UNCHANGED <<up, pauses>>

\* claim: the lowest queued shard is leased at its next generation.
ClaimLease(c) ==
    /\ Ready
    /\ LET m == ExpireLeasesIn(st)
       IN  /\ Claimable(m, c)
           /\ \E s \in Queued(m) :
                 /\ \A q \in Queued(m) : s <= q
                 /\ c \in Live \/ m.work[s].gen < MaxGen
                 /\ Begin([m EXCEPT !.work[s] =
                              [state |-> "leased", gen |-> @.gen + 1, cell |-> c]],
                          EventSaves, {s})
    /\ UNCHANGED <<up, pauses>>

\* claim with nothing to lease: paused, finalized, complete, the Cell's own
\* lease again, its update already in, or no shard queued.  It still saves
\* what the expiry changed.
ClaimNothing(c) ==
    /\ Ready
    /\ LET m == ExpireLeasesIn(st)
       IN  /\ ~Claimable(m, c)
           /\ Begin(m, WithEvent(ExpiredIn(st) # {}), {})
    /\ UNCHANGED <<up, pauses>>

\* Mutant of Holds: the generation is not compared.
HoldsAnyGen(m, g) ==
    /\ ~m.complete /\ g.version = m.version
    /\ m.work[g.shard].state = "leased" /\ m.work[g.shard].cell = g.cell

\* A lease is answered for by the Cell it was granted to, in the round it was
\* granted in, at its generation; its token is unique to the grant.
Holds(m, g) ==
    /\ ~m.complete /\ g.version = m.version
    /\ m.work[g.shard] = [state |-> "leased", gen |-> g.gen, cell |-> g.cell]

\* heartbeat of a held lease renews it.
Heartbeat(g) ==
    /\ Ready /\ Holds(ExpireLeasesIn(st), g)
    /\ Begin(ExpireLeasesIn(st), EventSaves, {g.shard})
    /\ UNCHANGED <<up, pauses>>

\* heartbeat of a lease that is gone raises after the expiry pass, with its
\* events written and nothing saved.
LateHeartbeat(g) ==
    /\ Ready /\ ~Holds(ExpireLeasesIn(st), g)
    /\ ExpiredIn(st) # {}
    /\ Begin(ExpireLeasesIn(st), <<"event", "raise">>, {})
    /\ UNCHANGED <<up, pauses>>

-----------------------------------------------------------------------------
\* Mutants of Aggregate: the updates leave the results with their round; the
\* target is compared before the version advances.
AggregateForgets(m) ==
    LET v == m.version + 1
    IN  [m EXCEPT !.version = v, !.rounds = Append(@, RoundResults(m)),
                  !.results = @ \ RoundResults(m), !.complete = v >= TargetRounds,
                  !.work = IF v >= TargetRounds THEN @ ELSE FreshRound]
AggregateLate(m) ==
    LET v == m.version + 1
    IN  [m EXCEPT !.version = v, !.rounds = Append(@, RoundResults(m)),
                  !.complete = m.version >= TargetRounds, !.work = FreshRound]

\* _aggregate_round_in_state: the next version, then either the target is
\* reached or the next round starts.
Aggregate(m) ==
    LET v == m.version + 1
    IN  [m EXCEPT !.version  = v,
                  !.rounds   = Append(@, RoundResults(m)),
                  !.complete = v >= TargetRounds,
                  !.work     = IF v >= TargetRounds THEN @ ELSE FreshRound]

Accepted(m, g) ==
    [m EXCEPT !.results = @ \cup {g}, !.work[g.shard].state = "accepted"]

\* Mutant of SubmitAccepted: a lease that was held once is good enough, and
\* the Cells of a round need not be distinct.
SubmitAcceptedUnheld(g) ==
    /\ Ready /\ g \notin st.results /\ g.version = st.version /\ ~st.complete
    /\ LET m == Accepted(ExpireLeasesIn(st), g)
       IN  IF Cardinality(RoundResults(m)) >= Quorum
           THEN Begin(Aggregate(m), <<"event", "version", "event", "save">>, {})
           ELSE Begin(m, EventSaves, {})
    /\ UNCHANGED <<up, pauses>>

\* submit of a valid delta under a held lease by a Cell with no update in this
\* round.  The campaign lifecycle is not consulted.
SubmitAccepted(g) ==
    /\ Ready /\ g \notin st.results
    /\ Holds(ExpireLeasesIn(st), g)
    /\ g.cell \notin AcceptedCells(st)
    /\ LET m == Accepted(ExpireLeasesIn(st), g)
       IN  IF Cardinality(RoundResults(m)) >= Quorum
           THEN Begin(Aggregate(m), <<"event", "version", "event", "save">>, {})
           ELSE Begin(m, EventSaves, {})
    /\ UNCHANGED <<up, pauses>>

\* submit refused (_reject_submission): a stale version or round, a lease that
\* is gone, or a delta that fails validation.  The refusal is recorded.
SubmitRejected(g) ==
    /\ Ready /\ g \notin st.results
    /\ Begin(ExpireLeasesIn(st), EventSaves, {})
    /\ UNCHANGED <<up, pauses>>

-----------------------------------------------------------------------------
\* Mutant of SetLifecycle: a finalized campaign is resumed.
SetLifecycleReopens(target) ==
    /\ Ready /\ st.lifecycle # target
    /\ pauses' = pauses + (IF target = "paused" THEN 1 ELSE 0)
    /\ pauses' <= MaxPauses
    /\ Begin([st EXCEPT !.lifecycle = target], EventSaves, {})
    /\ UNCHANGED up

\* _set_lifecycle (pause, resume, start): refused once finalized.
SetLifecycle(target) ==
    /\ Ready /\ st.lifecycle \notin {"finalized", target}
    /\ pauses' = pauses + (IF target = "paused" THEN 1 ELSE 0)
    /\ pauses' <= MaxPauses
    /\ Begin([st EXCEPT !.lifecycle = target], EventSaves, {})
    /\ UNCHANGED up

\* finalize_campaign with a current evaluation; allow_incomplete lets it run
\* before the target is reached.
Finalize(allowIncomplete) ==
    /\ Ready /\ (st.complete \/ allowIncomplete)
    /\ Begin([st EXCEPT !.lifecycle = "finalized"], EventSaves, {})
    /\ UNCHANGED <<up, pauses>>

\* verify_ledger: every event in the file is one the saved state counts.
LedgerOk == ~orphan

\* recover_after_restart (after validate_campaign): refused unless the ledger
\* verifies and the canonical adapter is in place.
Recover ==
    /\ ~up /\ LedgerOk /\ st.version \in versions
    /\ up' = TRUE
    /\ Begin(st, EventSaves, {})
    /\ UNCHANGED pauses

-----------------------------------------------------------------------------
Next1(t) == op.todo # <<>> /\ Head(op.todo) = t

\* _append_event: appended and synced before the state is saved.
WriteEvent ==
    /\ Next1("event")
    /\ op' = [op EXCEPT !.todo = Tail(@), !.wrote = TRUE]
    /\ UNCHANGED <<st, late, grants, orphan, versions, up, crashes, pauses>>

\* os.replace(pending, versions/vN), which must not exist yet.
WriteVersion ==
    /\ Next1("version") /\ op.mem.version \notin versions
    /\ versions' = versions \cup {op.mem.version}
    /\ op' = [op EXCEPT !.todo = Tail(@)]
    /\ UNCHANGED <<st, late, grants, orphan, up, crashes, pauses>>

\* _save_state; a lease reaches its Cell with the response.
Leases(m) == {[cell |-> m.work[s].cell, version |-> m.version, shard |-> s,
               gen |-> m.work[s].gen] : s \in {x \in Shards : m.work[x].state = "leased"}}
Save ==
    /\ Next1("save")
    /\ st' = op.mem
    /\ grants' = grants \cup (IF op.mem.complete THEN {} ELSE Leases(op.mem))
    /\ late' = IF op.mem.complete \/ op.mem.version # st.version THEN {}
               ELSE {s \in late : op.mem.work[s].state = "leased"} \ op.fresh
    /\ op' = Idle
    /\ UNCHANGED <<orphan, versions, up, crashes, pauses>>

\* An exception leaves the lock without a save.
Raise ==
    /\ Next1("raise") \/ (Next1("version") /\ op.mem.version \in versions)
    /\ op' = Idle
    /\ orphan' = (orphan \/ op.wrote)
    /\ UNCHANGED <<st, late, grants, versions, up, crashes, pauses>>

\* The coordinator process dies, with or without an operation in progress.
Crash ==
    /\ up /\ crashes < MaxCrashes
    /\ crashes' = crashes + 1 /\ up' = FALSE
    /\ op' = Idle
    /\ orphan' = (orphan \/ op.wrote)
    /\ UNCHANGED <<st, late, grants, versions, pauses>>

\* The clock passes the expiry of a lease; MayBeLate is the bound MaxGen.
MayBeLate(s) == st.work[s].cell \in Live => st.work[s].gen < MaxGen
LeaseRunsOut(s) ==
    /\ ~st.complete /\ s \notin late
    /\ st.work[s].state = "leased"
    /\ late' = late \cup {s}
    /\ UNCHANGED <<st, op, grants, orphan, versions, up, crashes, pauses>>

CellStep(c) ==
    \/ ClaimLease(c) \/ ClaimNothing(c)
    \/ \E g \in {x \in grants : x.cell = c} :
          Heartbeat(g) \/ LateHeartbeat(g) \/ SubmitAccepted(g) \/ SubmitRejected(g)

Next ==
    \/ \E c \in Cells : CellStep(c)
    \/ ExpireLeases
    \/ \E target \in {"running", "paused"} : SetLifecycle(target)
    \/ \E a \in BOOLEAN : Finalize(a)
    \/ Recover
    \/ WriteEvent \/ WriteVersion \/ Save \/ Raise \/ Crash
    \/ \E s \in Shards : MayBeLate(s) /\ LeaseRunsOut(s)

Spec == Init /\ [][Next]_vars

-----------------------------------------------------------------------------
TypeOK ==
    /\ st.version \in Version /\ st.work \in [Shards -> WorkState]
    /\ st.results \subseteq Grant /\ st.rounds \in Seq(SUBSET Grant)
    /\ st.lifecycle \in {"running", "paused", "finalized"} /\ st.complete \in BOOLEAN
    /\ late \subseteq Shards /\ grants \subseteq Grant
    /\ orphan \in BOOLEAN /\ up \in BOOLEAN /\ versions \subseteq Version

\* Every adapter version was aggregated from exactly a quorum of accepted
\* updates, all based on the version before it, from distinct Cells and
\* distinct shards.
RoundsQuorate ==
    \A i \in 1..Len(st.rounds) :
        /\ st.rounds[i] \subseteq st.results
        /\ Cardinality(st.rounds[i]) = Quorum
        /\ \A g, h \in st.rounds[i] :
              g.version = i - 1 /\ (g # h => g.cell # h.cell /\ g.shard # h.shard)

\* The checkpoint lineage and the version counter agree and the canonical
\* adapter of the saved version is on disk, whatever a crash interrupted.
LineageIntact ==
    /\ st.version = Len(st.rounds)
    /\ st.complete <=> st.version = TargetRounds
    /\ 0..st.version \subseteq versions

\* Generation fencing: an accepted update of the current round is the one of
\* the generation the work unit ended in, by the Cell that held it.
AcceptedWasHeld ==
    ~st.complete =>
    /\ \A g \in RoundResults(st) :
          st.work[g.shard] = [state |-> "accepted", gen |-> g.gen, cell |-> g.cell]
    /\ \A s \in Shards : st.work[s].state = "accepted" =>
          \E g \in RoundResults(st) : g.shard = s

\* No two Cells were ever granted the same generation of a work unit, even if
\* a crash forgot a lease that was being granted.
GenerationsUnique ==
    \A g, h \in grants :
        g.version = h.version /\ g.shard = h.shard /\ g.gen = h.gen => g.cell = h.cell

\* An accepted update is never forgotten, a completed round never rewritten,
\* and a finalized campaign stays finalized.
CampaignDurable ==
    [][/\ st.results \subseteq st'.results
       /\ SubSeq(st'.rounds, 1, Len(st.rounds)) = st.rounds
       /\ st.lifecycle = "finalized" => st'.lifecycle = "finalized"]_vars

\* The tools around a campaign may think of it as Campaign: whatever leases,
\* crashes and refusals happen, its versions, completion and lifecycle move as
\* that specification says.
Tools == INSTANCE Campaign WITH
    version <- st.version, complete <- st.complete, lifecycle <- st.lifecycle
CampaignSpec == Tools!CSpec

\* Between operations the audit ledger verifies.
LedgerVerifies == op = Idle => LedgerOk
=============================================================================
