-------------------------- MODULE SessionController --------------------------
(***************************************************************************)
(* The v2 session controller (crowdtensor/core/controller.py): one sealed  *)
(* JSON file, rewritten atomically under an flock, that holds the          *)
(* checkpoint lineage, the active leases, the terminal receipts and the    *)
(* fenced leases of one project, and two directories of per-checkpoint and *)
(* per-receipt projections written after it.                               *)
(*                                                                         *)
(* A content hash stands for the content it identifies: checkpoint_id and  *)
(* content_hash are one value, and a receipt is named by its work key (the *)
(* callers derive receipt_id from it).  Lists whose order no operation     *)
(* reads (terminals, fenced, active) are sets.  The workspace pause test   *)
(* that issue makes before it takes the lock is in WorkspaceLifecycle;     *)
(* here issue is allowed more often, never less.                           *)
(***************************************************************************)
EXTENDS Naturals, Sequences, FiniteSets

CONSTANTS
    WorkIds,        \* logical Work Units
    Contributors,   \* contributor id hashes
    Hashes,         \* checkpoint content hashes
    Shards,         \* the rest of a Work Unit's content (data shard, steps)
    Seeds,          \* lineages a caller may hand to initialize
    StableSharded,  \* TRUE: mode stable_sharded, FALSE: elastic_delta
    MaxActive,      \* _MAX_ACTIVE_WORK_UNITS
    MaxGen,         \* bound: largest generation a caller asks for
    MaxTime,        \* bound: latest lease expiry and clock value
    MaxStep,        \* bound: largest checkpoint step
    None

Generation == 1..MaxGen
Time       == 1..MaxTime
NoExpiry   == 0     \* lease_expires_at is None; a real expiry is positive

\* CheckpointRef: its hash, the hash of its parent and its optimizer step.
CheckpointRef == [hash : Hashes, parent : Hashes \cup {None}, step : 0..MaxStep]

\* WorkUnit: generation-fenced, issued against one base checkpoint.
WorkUnit == [id : WorkIds, gen : Generation, base : Hashes, shard : Shards]

\* ContributionReceipt: an accepted receipt may carry the checkpoint it
\* committed, a rejected one never does.
ContributionReceipt ==
    [by : Contributors, outcome : {"accepted"}, output : Hashes \cup {None}]
      \cup [by : Contributors, outcome : {"rejected"}, output : {None}]

ActiveRecord   == [work : WorkUnit, owner : Contributors \cup {None},
                   expiry : {NoExpiry} \cup Time]
TerminalRecord == [work : WorkUnit, receipt : ContributionReceipt]
FenceReason    == {"generation_reassigned", "checkpoint_advanced", "lease_expired"}
FencedRecord   == [lease : ActiveRecord, reason : FenceReason]

\* CheckpointLineage.__post_init__: a chain of parents from a parentless
\* genesis, no hash twice, steps strictly increasing.
IsLineage(s) ==
    /\ s # <<>> /\ s[1].parent = None
    /\ \A i, j \in 1..Len(s) : s[i].hash = s[j].hash => i = j
    /\ \A i \in 1..(Len(s) - 1) : /\ s[i+1].parent = s[i].hash
                                  /\ s[i+1].step > s[i].step

ASSUME NoneAssumption  == None \notin Hashes \cup Contributors
ASSUME BoundAssumption == /\ MaxGen \in Nat /\ MaxTime \in Nat
                          /\ MaxStep \in Nat /\ MaxActive \in Nat
                          /\ StableSharded \in BOOLEAN
ASSUME SeedAssumption  == \A s \in Seeds : s \in Seq(CheckpointRef) /\ IsLineage(s)

VARIABLES
    lineage,       \* sequence of CheckpointRef; empty: no state file yet
    active,        \* active_work_units
    terminals,     \* terminals
    fenced,        \* fenced_work_units
    saving,        \* the lock is held by a call that is writing projections
    projCkpts,     \* hashes with a file under checkpoints/
    projReceipts   \* work keys with a file under receipts/

state == <<lineage, active, terminals, fenced>>
files == <<projCkpts, projReceipts>>
vars  == <<lineage, active, terminals, fenced, saving, projCkpts, projReceipts>>

-----------------------------------------------------------------------------
HeadHash       == lineage[Len(lineage)].hash
\* Mutant of Key: projections and fences keyed by the base checkpoint.
KeyByBase(w)   == <<w.base, w.gen>>
Key(w)         == <<w.id, w.gen>>                 \* _work_key
LineageHashes  == {lineage[i].hash : i \in 1..Len(lineage)}
TerminalKeys   == {Key(t.work) : t \in terminals}
ActiveWork     == {r.work : r \in active}
ActiveOf(id)   == {r \in active : r.work.id = id}
TerminalsOf(id) == {t \in terminals : t.work.id = id}
FencedOf(id)    == {f \in fenced : f.lease.work.id = id}

\* _same_work_attempt: equal in everything but the generation.
SameAttempt(v, w) == v.id = w.id /\ v.base = w.base /\ v.shard = w.shard

\* The operations run under the lock, on an initialized controller.
Locked == ~saving /\ lineage # <<>>

\* _save and _write_projections: the state file is replaced first; the
\* projections follow file by file while the lock is still held.
Save == saving' = TRUE /\ UNCHANGED files

-----------------------------------------------------------------------------
Init ==
    /\ lineage = <<>>
    /\ active = {} /\ terminals = {} /\ fenced = {}
    /\ saving = FALSE
    /\ projCkpts = {} /\ projReceipts = {}

\* initialize: binds a fresh controller to a lineage, or replays when the
\* lineage given is a prefix of the one it has.
LineageIsPrefix(p, s) ==
    /\ Len(p) <= Len(s)
    /\ \A i \in 1..Len(p) : p[i] = s[i]

\* Mutant of Initialize: a second call rebinds instead of replaying.
InitializeRebinds(s) ==
    /\ ~saving /\ lineage' = s
    /\ UNCHANGED <<active, terminals, fenced>>
    /\ Save

Initialize(s) ==
    /\ ~saving
    /\ \/ lineage = <<>> /\ lineage' = s
       \/ lineage # <<>> /\ LineageIsPrefix(s, lineage) /\ UNCHANGED lineage
    /\ UNCHANGED <<active, terminals, fenced>>
    /\ Save

\* Mutants of HistoryAllows: a terminal generation may be issued again; an
\* accepted one may be followed.
HistoryAllowsSameGen(w) ==
    \A t \in TerminalsOf(w.id) :
        t.receipt.outcome # "accepted" /\ w.gen \in {t.work.gen, t.work.gen + 1}
HistoryIgnoresOutcome(w) ==
    /\ \A t \in TerminalsOf(w.id) : w.gen > t.work.gen
    /\ \A f \in FencedOf(w.id) : w.gen > f.lease.work.gen

\* What issue asks of the generations this work id has already ended: the
\* latest one decides.  A terminal wins a tie; an accepted one is final; a
\* fenced one may be followed only if its lease expired.
HistoryAllows(w) ==
    /\ \A t \in TerminalsOf(w.id) :
          /\ \A k \in TerminalsOf(w.id) : k.work.gen <= t.work.gen
          /\ \A f \in FencedOf(w.id) : f.lease.work.gen <= t.work.gen
          => /\ t.receipt.outcome # "accepted"
             /\ w.gen = t.work.gen + 1
             /\ SameAttempt(t.work, w)
    /\ \A f \in FencedOf(w.id) :
          /\ \A k \in FencedOf(w.id) : k.lease.work.gen <= f.lease.work.gen
          /\ \A t \in TerminalsOf(w.id) : t.work.gen < f.lease.work.gen
          => /\ f.reason = "lease_expired"
             /\ w.gen = f.lease.work.gen + 1
             /\ SameAttempt(f.lease.work, w)

\* issue, _validate_work: new work is always cut from the head checkpoint.
OnHead(w) == w.base = HeadHash

\* Mutant of IssueNew: two rank groups at once in stable_sharded.
IssueNewSecondGroup(w, o, e) ==
    /\ Locked /\ OnHead(w) /\ ActiveOf(w.id) = {} /\ HistoryAllows(w)
    /\ Cardinality(active) < MaxActive
    /\ active' = active \cup {[work |-> w, owner |-> o, expiry |-> e]}
    /\ UNCHANGED <<lineage, terminals, fenced>>
    /\ Save

\* issue of a work id with no active lease (replace_active is FALSE).
IssueNew(w, o, e) ==
    /\ Locked /\ OnHead(w)
    /\ ActiveOf(w.id) = {}
    /\ HistoryAllows(w)
    /\ Cardinality(active) < MaxActive
    /\ StableSharded => active = {}
    /\ active' = active \cup {[work |-> w, owner |-> o, expiry |-> e]}
    /\ UNCHANGED <<lineage, terminals, fenced>>
    /\ Save

\* Mutant of IssueReplay: whoever asks takes the lease over.
IssueReplayTakesOver(r, o, e) ==
    /\ Locked /\ r \in active /\ OnHead(r.work)
    /\ active' = (active \ {r}) \cup {[r EXCEPT !.expiry = e, !.owner = o]}
    /\ UNCHANGED <<lineage, terminals, fenced>>
    /\ Save

\* issue of exactly the active Work Unit again: idempotent, but a later
\* expiry extends the lease.  A lease with an owner answers only to it.
IssueReplay(r, o, e) ==
    /\ Locked /\ r \in active /\ OnHead(r.work)
    /\ r.owner \in {None, o}
    /\ e > r.expiry
    /\ active' = (active \ {r}) \cup {[r EXCEPT !.expiry = e]}
    /\ UNCHANGED <<lineage, terminals, fenced>>
    /\ Save

\* Whether issue with replace_active takes w as the successor of lease r.
ReassignAllowed(r, w) ==
    /\ OnHead(w)
    /\ SameAttempt(r.work, w) /\ w.gen = r.work.gen + 1
    /\ HistoryAllows(w)

\* Mutant of Reassign: the prior generation is dropped, not fenced.
ReassignForgets(r, w, o, e) ==
    /\ Locked /\ r \in active /\ ReassignAllowed(r, w)
    /\ active' = (active \ {r}) \cup {[work |-> w, owner |-> o, expiry |-> e]}
    /\ UNCHANGED <<lineage, terminals, fenced>>
    /\ Save

\* issue with replace_active: the prior generation is fenced, the next one
\* takes its place.
Reassign(r, w, o, e) ==
    /\ Locked /\ r \in active /\ ReassignAllowed(r, w)
    /\ fenced' = fenced \cup {[lease |-> r, reason |-> "generation_reassigned"]}
    /\ active' = (active \ {r}) \cup {[work |-> w, owner |-> o, expiry |-> e]}
    /\ UNCHANGED <<lineage, terminals>>
    /\ Save

-----------------------------------------------------------------------------
\* commit: the active lease of w's key, held with w's content, whose owner
\* (if it has one) signed the receipt.
LeaseFor(w, rc) == {r \in active : r.work = w /\ r.owner \in {None, rc.by}}

\* Mutant of CommitReceipt: a receipt that names an output is taken without
\* its checkpoint.
CommitReceiptAnyOutput(w, rc) ==
    /\ Locked /\ Key(w) \notin TerminalKeys
    /\ LeaseFor(w, rc) # {} /\ w.base \in LineageHashes
    /\ active' = active \ LeaseFor(w, rc)
    /\ terminals' = terminals \cup {[work |-> w, receipt |-> rc]}
    /\ UNCHANGED <<lineage, fenced>>
    /\ Save

\* commit of a rejected receipt, or of an accepted one that advances no
\* checkpoint (a delta waiting for its quorum).
CommitReceipt(w, rc) ==
    /\ Locked
    /\ Key(w) \notin TerminalKeys
    /\ rc.output = None
    /\ LeaseFor(w, rc) # {} /\ w.base \in LineageHashes
    /\ active' = active \ LeaseFor(w, rc)
    /\ terminals' = terminals \cup {[work |-> w, receipt |-> rc]}
    /\ UNCHANGED <<lineage, fenced>>
    /\ Save

\* Mutant of CommitCheckpoint: the other leases survive the new head.
CommitCheckpointKeepsLeases(w, rc, c) ==
    /\ Locked /\ Key(w) \notin TerminalKeys
    /\ rc.outcome = "accepted" /\ rc.output = c.hash
    /\ LeaseFor(w, rc) # {} /\ c.parent = w.base /\ OnHead(w)
    /\ IsLineage(Append(lineage, c))
    /\ active' = active \ LeaseFor(w, rc)
    /\ lineage' = Append(lineage, c)
    /\ terminals' = terminals \cup {[work |-> w, receipt |-> rc]}
    /\ UNCHANGED fenced
    /\ Save

\* commit of an accepted receipt with its checkpoint c: validate_receipt_binding
\* ties c to the lease's base, the base must be the head, the lineage must
\* accept c, and every other lease is fenced because its base is no longer
\* the head.
CommitCheckpoint(w, rc, c) ==
    /\ Locked
    /\ Key(w) \notin TerminalKeys
    /\ rc.outcome = "accepted" /\ rc.output = c.hash
    /\ LeaseFor(w, rc) # {}
    /\ c.parent = w.base
    /\ OnHead(w)
    /\ IsLineage(Append(lineage, c))
    /\ LET others == active \ LeaseFor(w, rc)
           stale  == {r \in others : r.work.base # c.hash}
       IN  /\ active' = others \ stale
           /\ fenced' = fenced \cup
                  {[lease |-> r, reason |-> "checkpoint_advanced"] : r \in stale}
    /\ lineage' = Append(lineage, c)
    /\ terminals' = terminals \cup {[work |-> w, receipt |-> rc]}
    /\ Save

\* commit of a key that is already terminal with the same content: replayed,
\* which rewrites the projections.  Different content is refused.
CommitReplay(t) ==
    /\ Locked /\ t \in terminals
    /\ UNCHANGED state
    /\ Save

-----------------------------------------------------------------------------
\* Mutant of Renew: an earlier expiry is taken too.
RenewAnyExpiry(r, e) ==
    /\ Locked /\ r \in active /\ r.owner # None
    /\ active' = (active \ {r}) \cup {[r EXCEPT !.expiry = e]}
    /\ UNCHANGED <<lineage, terminals, fenced>>
    /\ Save

\* renew: the owner extends its lease; an earlier expiry is refused, an equal
\* one changes nothing.
Renew(r, e) ==
    /\ Locked /\ r \in active
    /\ r.owner # None
    /\ e > r.expiry
    /\ active' = (active \ {r}) \cup {[r EXCEPT !.expiry = e]}
    /\ UNCHANGED <<lineage, terminals, fenced>>
    /\ Save

\* fence_expired: now is whatever clock value the caller passes.
Expired(now) == {r \in active : r.expiry # NoExpiry /\ r.expiry <= now}

\* Mutant of FenceExpired: the expired leases leave no fence behind.
FenceExpiredForgets(now) ==
    /\ Locked /\ Expired(now) # {}
    /\ active' = active \ Expired(now)
    /\ UNCHANGED <<lineage, terminals, fenced>>
    /\ Save

FenceExpired(now) ==
    /\ Locked /\ Expired(now) # {}
    /\ active' = active \ Expired(now)
    /\ fenced' = fenced \cup
           {[lease |-> r, reason |-> "lease_expired"] : r \in Expired(now)}
    /\ UNCHANGED <<lineage, terminals>>
    /\ Save

\* status: rewrites the projections from the state file.
Status ==
    /\ Locked
    /\ UNCHANGED state
    /\ Save

-----------------------------------------------------------------------------
\* _write_projections: every checkpoint in lineage order, then the receipts.
ProjectCheckpoint ==
    /\ saving
    /\ \E i \in 1..Len(lineage) :
          /\ lineage[i].hash \notin projCkpts
          /\ \A j \in 1..(i - 1) : lineage[j].hash \in projCkpts
          /\ projCkpts' = projCkpts \cup {lineage[i].hash}
    /\ UNCHANGED <<lineage, active, terminals, fenced, saving, projReceipts>>

\* Mutant of ProjectReceipt: receipts do not wait for the checkpoints.
ProjectReceiptFirst ==
    /\ saving
    /\ \E k \in TerminalKeys \ projReceipts : projReceipts' = projReceipts \cup {k}
    /\ UNCHANGED <<lineage, active, terminals, fenced, saving, projCkpts>>

ProjectReceipt ==
    /\ saving /\ LineageHashes \subseteq projCkpts
    /\ \E k \in TerminalKeys \ projReceipts : projReceipts' = projReceipts \cup {k}
    /\ UNCHANGED <<lineage, active, terminals, fenced, saving, projCkpts>>

Return ==
    /\ saving
    /\ LineageHashes \subseteq projCkpts /\ TerminalKeys \subseteq projReceipts
    /\ saving' = FALSE
    /\ UNCHANGED <<lineage, active, terminals, fenced, projCkpts, projReceipts>>

\* The process dies between the state file and the end of the projections;
\* the kernel drops its flock.
Crash ==
    /\ saving /\ saving' = FALSE
    /\ UNCHANGED <<lineage, active, terminals, fenced, projCkpts, projReceipts>>

Next ==
    \/ \E s \in Seeds : Initialize(s)
    \/ \E w \in WorkUnit, o \in Contributors \cup {None}, e \in {NoExpiry} \cup Time :
          IssueNew(w, o, e)
    \/ \E r \in active, o \in Contributors \cup {None}, e \in Time : IssueReplay(r, o, e)
    \/ \E r \in active, w \in WorkUnit, o \in Contributors \cup {None},
          e \in {NoExpiry} \cup Time : Reassign(r, w, o, e)
    \/ \E w \in ActiveWork, rc \in ContributionReceipt : CommitReceipt(w, rc)
    \/ \E w \in ActiveWork, rc \in ContributionReceipt, c \in CheckpointRef :
          CommitCheckpoint(w, rc, c)
    \/ \E t \in terminals : CommitReplay(t)
    \/ \E r \in active, e \in Time : Renew(r, e)
    \/ \E now \in Time : FenceExpired(now)
    \/ Status
    \/ ProjectCheckpoint \/ ProjectReceipt \/ Return \/ Crash

Spec == Init /\ [][Next]_vars

-----------------------------------------------------------------------------
TypeOK ==
    /\ lineage \in Seq(CheckpointRef)
    /\ active \subseteq ActiveRecord
    /\ terminals \subseteq TerminalRecord
    /\ fenced \subseteq FencedRecord
    /\ saving \in BOOLEAN
    /\ projCkpts \subseteq Hashes
    /\ projReceipts \subseteq WorkIds \X Generation

\* _validate_state, which every load applies to the whole file: at most one
\* active record per work id, one rank group in stable mode, no key in two of
\* the three collections or twice in one, and no base or output outside the
\* lineage.
FencedKeys == {Key(f.lease.work) : f \in fenced}
ValidState ==
    /\ IsLineage(lineage)
    /\ Cardinality(active) <= MaxActive
    /\ StableSharded => \A r, s \in active : r = s
    /\ \A r, s \in active : r.work.id = s.work.id => r = s
    /\ \A t, u \in terminals : Key(t.work) = Key(u.work) => t = u
    /\ \A f, g \in fenced : Key(f.lease.work) = Key(g.lease.work) => f = g
    /\ \A r \in active : Key(r.work) \notin TerminalKeys \cup FencedKeys
    /\ TerminalKeys \cap FencedKeys = {}
    /\ \A r \in active : r.work.base \in LineageHashes
    /\ \A t \in terminals : /\ t.work.base \in LineageHashes
                            /\ t.receipt.output \in LineageHashes \cup {None}
    /\ \A f \in fenced : f.lease.work.base \in LineageHashes

\* Whatever sequence of calls wrote the state file, the next call can load
\* it: no operation saves a state that _validate_state refuses.
StateReloads == lineage # <<>> => ValidState

\* Old-base fencing: no lease survives an advance of the head, so a late
\* submission for an old checkpoint never finds its lease.
ActiveOnHead == \A r \in active : r.work.base = HeadHash

\* Exactly-once acceptance: a work id is accepted in at most one generation,
\* and from then on has no active lease and no later generation.
AcceptedOnce ==
    \A t \in terminals : t.receipt.outcome = "accepted" =>
        /\ ActiveOf(t.work.id) = {}
        /\ \A u \in TerminalsOf(t.work.id) : u.work.gen <= t.work.gen
        /\ \A f \in FencedOf(t.work.id) : f.lease.work.gen < t.work.gen

\* Every checkpoint after the lineage the controller was bound to was
\* committed by exactly one receipt, whose work started from its parent.
CheckpointsHaveReceipts ==
    lineage # <<>> =>
    \E n \in 1..Len(lineage) :
        /\ SubSeq(lineage, 1, n) \in Seeds
        /\ \A i \in (n + 1)..Len(lineage) :
              \E t \in terminals :
                 /\ t.receipt.output = lineage[i].hash
                 /\ t.work.base = lineage[i - 1].hash
                 /\ \A u \in terminals : u.receipt.output = lineage[i].hash => u = t

\* Whatever write a crash interrupted, the projection directories never hold
\* a file the state does not account for, nor a receipt whose output
\* checkpoint is missing from checkpoints/.
ProjectionsFollowState ==
    /\ projCkpts \subseteq LineageHashes
    /\ projReceipts \subseteq TerminalKeys
    /\ \A t \in terminals :
          Key(t.work) \in projReceipts /\ t.receipt.output # None
             => t.receipt.output \in projCkpts

\* No step rewrites history: the lineage, the terminals and the fenced leases
\* are only extended.
HistoryImmutable ==
    [][/\ LineageIsPrefix(lineage, lineage')
       /\ terminals \subseteq terminals'
       /\ fenced \subseteq fenced']_vars

\* A lease that stays active keeps its content and its owner, and its expiry
\* never moves backwards, whether issue or renew touched it.
LeasesOnlyExtended ==
    [][\A r \in active, s \in active' :
          Key(r.work) = Key(s.work) =>
             s.work = r.work /\ s.owner = r.owner /\ s.expiry >= r.expiry]_vars

\* The controller implements the abstract ledger.
Ledger == INSTANCE WorkLedger WITH
    Chains   <- {[i \in 1..Len(s) |-> s[i].hash] : s \in Seeds},
    chain    <- [i \in 1..Len(lineage) |-> lineage[i].hash],
    live     <- {Key(r.work) : r \in active},
    ended    <- TerminalKeys \cup FencedKeys,
    accepted <- {Key(t.work) : t \in {u \in terminals : u.receipt.outcome = "accepted"}}

LedgerSpec == Ledger!Spec
=============================================================================
