---------------------- MODULE SessionControllerProofs ----------------------
(***************************************************************************)
(* Safety of the session controller, that it implements the abstract       *)
(* ledger, and that an export taken beside it hangs together, for every    *)
(* set of work ids, callers and checkpoints and every bound.               *)
(***************************************************************************)
EXTENDS WorkspaceExport, FiniteSetTheorems, TLAPS

\* The two ways a lease record is rewritten in place (issue again, renew).
Extend(r, e) ==
    /\ r \in active /\ e \in Time /\ e > r.expiry
    /\ active' = (active \ {r}) \cup {[r EXCEPT !.expiry = e]}
    /\ UNCHANGED <<lineage, terminals, fenced>>

\* A step that leaves the state file alone.
Quiet == UNCHANGED state

-----------------------------------------------------------------------------
\* The records the operations build are leases, fences and terminals.
LEMMA LeaseTypes ==
  /\ \A w \in WorkUnit, o \in Contributors \cup {None}, e \in {NoExpiry} \cup Time :
        [work |-> w, owner |-> o, expiry |-> e] \in ActiveRecord
  /\ \A r \in ActiveRecord, e \in Time : [r EXCEPT !.expiry = e] \in ActiveRecord
  /\ \A r \in ActiveRecord, x \in FenceReason : [lease |-> r, reason |-> x] \in FencedRecord
  /\ \A w \in WorkUnit, rc \in ContributionReceipt :
        [work |-> w, receipt |-> rc] \in TerminalRecord
BY DEF ActiveRecord, FencedRecord, TerminalRecord

\* Every step is well typed: every record an operation writes is one
\* _validate_state can parse.
THEOREM TypeCorrect == Spec => []TypeOK
<1>1. Init => TypeOK
  <2> SUFFICES ASSUME Init PROVE TypeOK
    OBVIOUS
  <2>1. lineage \in Seq(CheckpointRef)
    BY DEF Init
  <2> QED
    BY <2>1 DEF Init, TypeOK
<1>2. TypeOK /\ [Next]_vars => TypeOK'
  <2> SUFFICES ASSUME TypeOK, [Next]_vars PROVE TypeOK'
    OBVIOUS
  <2> USE DEF TypeOK
  <2>1. ASSUME NEW s \in Seeds, Initialize(s) PROVE TypeOK'
    BY <2>1, SeedAssumption DEF Initialize, Save, files
  <2>2. ASSUME NEW w \in WorkUnit, NEW o \in Contributors \cup {None},
               NEW e \in {NoExpiry} \cup Time, IssueNew(w, o, e)
        PROVE  TypeOK'
    BY <2>2, LeaseTypes DEF IssueNew, Save, files
  <2>3. ASSUME NEW r \in active, NEW o \in Contributors \cup {None},
               NEW e \in Time, IssueReplay(r, o, e)
        PROVE  TypeOK'
    BY <2>3, LeaseTypes DEF IssueReplay, Save, files
  <2>4. ASSUME NEW r \in active, NEW w \in WorkUnit, NEW o \in Contributors \cup {None},
               NEW e \in {NoExpiry} \cup Time, Reassign(r, w, o, e)
        PROVE  TypeOK'
    BY <2>4, LeaseTypes DEF Reassign, Save, files, FenceReason
  <2>0. ActiveWork \subseteq WorkUnit
    BY DEF ActiveWork, ActiveRecord
  <2>5. ASSUME NEW w \in WorkUnit, NEW rc \in ContributionReceipt, CommitReceipt(w, rc)
        PROVE  TypeOK'
    BY <2>5, LeaseTypes DEF CommitReceipt, Save, files
  <2>6. ASSUME NEW w \in WorkUnit, NEW rc \in ContributionReceipt,
               NEW c \in CheckpointRef, CommitCheckpoint(w, rc, c)
        PROVE  TypeOK'
    <3>1. lineage' \in Seq(CheckpointRef)
      BY <2>6 DEF CommitCheckpoint
    <3>2. active' \subseteq ActiveRecord /\ terminals' \subseteq TerminalRecord
      BY <2>6, LeaseTypes DEF CommitCheckpoint
    <3>3. fenced' \subseteq FencedRecord
      BY <2>6, LeaseTypes DEF CommitCheckpoint, FenceReason
    <3> QED
      BY <2>6, <3>1, <3>2, <3>3 DEF CommitCheckpoint, Save, files
  <2>7. ASSUME NEW t \in terminals, CommitReplay(t) PROVE TypeOK'
    BY <2>7 DEF CommitReplay, Save, files, state
  <2>8. ASSUME NEW r \in active, NEW e \in Time, Renew(r, e) PROVE TypeOK'
    BY <2>8, LeaseTypes DEF Renew, Save, files
  <2>9. ASSUME NEW now \in Time, FenceExpired(now) PROVE TypeOK'
    BY <2>9, LeaseTypes DEF FenceExpired, Expired, Save, files, FenceReason
  <2>10. CASE Status
    BY <2>10 DEF Status, Save, files, state
  <2>11. CASE ProjectCheckpoint
    <3>1. PICK i \in 1..Len(lineage) : projCkpts' = projCkpts \cup {lineage[i].hash}
      BY <2>11 DEF ProjectCheckpoint
    <3>2. lineage[i] \in CheckpointRef
      BY <3>1
    <3>3. lineage[i].hash \in Hashes
      BY <3>2 DEF CheckpointRef
    <3> QED
      BY <2>11, <3>1, <3>3 DEF ProjectCheckpoint
  <2>12. CASE ProjectReceipt
    BY <2>12 DEF ProjectReceipt, TerminalKeys, Key, TerminalRecord, WorkUnit
  <2>13. CASE Return \/ Crash
    BY <2>13 DEF Return, Crash
  <2>14. CASE UNCHANGED vars
    BY <2>14 DEF vars
  <2> QED
    BY <2>0, <2>1, <2>2, <2>3, <2>4, <2>5, <2>6, <2>7, <2>8, <2>9, <2>10, <2>11, <2>12,
       <2>13, <2>14 DEF Next
<1> QED
  BY <1>1, <1>2, PTL DEF Spec

-----------------------------------------------------------------------------
(***************************************************************************)
(* The inductive invariant.  The properties alone are not inductive: issue *)
(* compares the new generation only with the LATEST ended generation of    *)
(* the work id, so that the new key is fresh needs a latest one to exist   *)
(* (HasLatest), and that it stays fresh needs every ended generation to be *)
(* below the active one (EndedOlder).                                      *)
(***************************************************************************)
Bound == lineage = <<>> => active = {} /\ terminals = {} /\ fenced = {}

Chain == lineage # <<>> => IsLineage(lineage)

OneLeasePerWork == \A r, s \in active : r.work.id = s.work.id => r = s

EndedOlder ==
    \A r \in active :
        /\ \A t \in terminals : t.work.id = r.work.id => t.work.gen < r.work.gen
        /\ \A f \in fenced : f.lease.work.id = r.work.id => f.lease.work.gen < r.work.gen

EndedOnce ==
    /\ \A t, u \in terminals : t.work.id = u.work.id /\ t.work.gen = u.work.gen => t = u
    /\ \A f, g \in fenced :
          f.lease.work.id = g.lease.work.id /\ f.lease.work.gen = g.lease.work.gen => f = g
    /\ \A t \in terminals, f \in fenced :
          t.work.id = f.lease.work.id => t.work.gen # f.lease.work.gen

Top(id, g) ==
    /\ \A t \in terminals : t.work.id = id => t.work.gen <= g
    /\ \A f \in fenced : f.lease.work.id = id => f.lease.work.gen <= g

HasLatest ==
    \A id \in WorkIds :
        \/ \E t \in terminals : t.work.id = id /\ Top(id, t.work.gen)
        \/ \E f \in fenced : f.lease.work.id = id /\ Top(id, f.lease.work.gen)
        \/ /\ \A t \in terminals : t.work.id # id
           /\ \A f \in fenced : f.lease.work.id # id

AcceptedLast ==
    \A t \in terminals : t.receipt.outcome = "accepted" =>
        /\ \A r \in active : r.work.id # t.work.id
        /\ Top(t.work.id, t.work.gen)

Inv == /\ Bound /\ Chain /\ OneLeasePerWork /\ EndedOlder /\ EndedOnce
       /\ HasLatest /\ AcceptedLast /\ ActiveOnHead

\* What issue's look at the latest ended generation buys: the generation it
\* lets through is above every ended one, and the work id was never accepted.
LEMMA HistoryFresh ==
  ASSUME TypeOK, EndedOnce, HasLatest, AcceptedLast,
         NEW w \in WorkUnit, HistoryAllows(w)
  PROVE  /\ \A t \in terminals : t.work.id = w.id =>
                t.work.gen < w.gen /\ t.receipt.outcome # "accepted"
         /\ \A f \in fenced : f.lease.work.id = w.id => f.lease.work.gen < w.gen
<1> USE DEF TypeOK, WorkUnit, Generation, ActiveRecord, TerminalRecord, FencedRecord
<1>1. ASSUME NEW t \in terminals, t.work.id = w.id, Top(w.id, t.work.gen)
      PROVE  w.gen = t.work.gen + 1 /\ t.receipt.outcome # "accepted"
  BY <1>1 DEF HistoryAllows, TerminalsOf, FencedOf, Top
<1>2. ASSUME NEW f \in fenced, f.lease.work.id = w.id, Top(w.id, f.lease.work.gen)
      PROVE  w.gen = f.lease.work.gen + 1
  <2>1. \A t \in terminals : t.work.id = w.id => t.work.gen < f.lease.work.gen
    BY <1>2 DEF Top, EndedOnce
  <2> QED
    BY <1>2, <2>1 DEF HistoryAllows, TerminalsOf, FencedOf, Top
<1>3. \A t \in terminals : t.work.id = w.id => t.receipt.outcome # "accepted"
  BY <1>1 DEF AcceptedLast
<1>4. w.id \in WorkIds
  OBVIOUS
<1>5. CASE \E t \in terminals : t.work.id = w.id /\ Top(w.id, t.work.gen)
  BY <1>1, <1>3, <1>5 DEF Top
<1>6. CASE \E f \in fenced : f.lease.work.id = w.id /\ Top(w.id, f.lease.work.gen)
  BY <1>2, <1>3, <1>6 DEF Top
<1> QED
  BY <1>3, <1>4, <1>5, <1>6 DEF HasLatest

\* The empty controller, bound to a seed lineage.
LEMMA InitializeInv ==
  ASSUME TypeOK, Inv, NEW s \in Seeds, Initialize(s) PROVE Inv'
<1>1. CASE lineage = <<>> /\ lineage' = s
  <2>1. IsLineage(s) /\ s # <<>>
    BY SeedAssumption DEF IsLineage
  <2>2. active' = {} /\ terminals' = {} /\ fenced' = {}
    BY <1>1 DEF Initialize, Inv, Bound
  <2>3. Chain' /\ Bound'
    BY <1>1, <2>1, <2>2 DEF Chain, Bound
  <2> QED
    BY <2>2, <2>3 DEF Inv, OneLeasePerWork, EndedOlder, EndedOnce, HasLatest,
                      AcceptedLast, ActiveOnHead
<1>2. CASE lineage # <<>> /\ UNCHANGED lineage
  BY <1>2 DEF Initialize, Inv, Bound, Chain, OneLeasePerWork, EndedOlder, EndedOnce,
      HasLatest, Top, AcceptedLast, ActiveOnHead, HeadHash
<1> QED
  BY <1>1, <1>2 DEF Initialize

\* A call that only rewrites projections, a return and a crash leave the
\* state file, and with it the invariant, as it is.
LEMMA QuietInv == Inv /\ Quiet => Inv'
BY DEF Quiet, state, Inv, Bound, Chain, OneLeasePerWork, EndedOlder, EndedOnce,
       HasLatest, Top, AcceptedLast, ActiveOnHead, HeadHash

\* issue of new work: its key is fresh and above whatever its work id ended.
LEMMA IssueNewInv ==
  ASSUME TypeOK, Inv, NEW w \in WorkUnit, NEW o \in Contributors \cup {None},
         NEW e \in {NoExpiry} \cup Time, IssueNew(w, o, e)
  PROVE  Inv'
<1> DEFINE n == [work |-> w, owner |-> o, expiry |-> e]
<1>1. /\ active' = active \cup {n} /\ n.work = w
      /\ UNCHANGED <<lineage, terminals, fenced>>
      /\ lineage # <<>> /\ w.base = HeadHash
      /\ \A r \in active : r.work.id # w.id
  BY DEF IssueNew, Locked, OnHead, ActiveOf
<1> HIDE DEF n
<1>2. /\ \A t \in terminals : t.work.id = w.id =>
             t.work.gen < w.gen /\ t.receipt.outcome # "accepted"
      /\ \A f \in fenced : f.lease.work.id = w.id => f.lease.work.gen < w.gen
  BY HistoryFresh DEF IssueNew, Inv
<1>3. Bound' /\ Chain' /\ EndedOnce' /\ HasLatest'
  BY <1>1 DEF Inv, Bound, Chain, EndedOnce, HasLatest, Top
<1>4. OneLeasePerWork'
  BY <1>1 DEF Inv, OneLeasePerWork
<1>5. EndedOlder' /\ AcceptedLast'
  BY <1>1, <1>2 DEF Inv, EndedOlder, AcceptedLast, Top
<1>6. ActiveOnHead'
  BY <1>1 DEF Inv, ActiveOnHead, HeadHash
<1> QED
  BY <1>3, <1>4, <1>5, <1>6 DEF Inv

\* issue again and renew move only an expiry, which the invariant ignores.
LEMMA ExtendInv ==
  ASSUME TypeOK, Inv, NEW r, NEW e, Extend(r, e) PROVE Inv'
<1> DEFINE n == [r EXCEPT !.expiry = e]
<1>1. /\ active' = (active \ {r}) \cup {n} /\ n.work = r.work /\ r \in active
      /\ UNCHANGED <<lineage, terminals, fenced>>
  BY DEF Extend, TypeOK, ActiveRecord
<1> HIDE DEF n
<1>2. Bound' /\ Chain' /\ EndedOnce' /\ HasLatest'
  BY <1>1 DEF Inv, Bound, Chain, EndedOnce, HasLatest, Top
<1>3. OneLeasePerWork' /\ EndedOlder' /\ AcceptedLast'
  BY <1>1 DEF Inv, OneLeasePerWork, EndedOlder, AcceptedLast, Top
<1>4. ActiveOnHead'
  BY <1>1 DEF Inv, ActiveOnHead, HeadHash
<1> QED
  BY <1>2, <1>3, <1>4 DEF Inv

\* issue with replace_active: the prior generation becomes the latest ended
\* one of its work id, right below the new lease.
LEMMA ReassignInv ==
  ASSUME TypeOK, Inv, NEW r \in active, NEW w \in WorkUnit,
         NEW o \in Contributors \cup {None}, NEW e \in {NoExpiry} \cup Time,
         Reassign(r, w, o, e)
  PROVE  Inv'
<1> DEFINE n == [work |-> w, owner |-> o, expiry |-> e]
           x == [lease |-> r, reason |-> "generation_reassigned"]
<1>1. /\ active' = (active \ {r}) \cup {n} /\ n.work = w
      /\ fenced' = fenced \cup {x} /\ x.lease = r
      /\ UNCHANGED <<lineage, terminals>>
      /\ lineage # <<>> /\ w.base = HeadHash
      /\ w.id = r.work.id /\ w.gen = r.work.gen + 1
  BY DEF Reassign, ReassignAllowed, SameAttempt, Locked, OnHead
<1> HIDE DEF n, x
<1>2. r.work.gen \in Nat /\ w.gen \in Nat /\ w.id \in WorkIds
  BY DEF TypeOK, ActiveRecord, WorkUnit, Generation
<1>3. /\ \A t \in terminals : t.work.gen \in Nat
      /\ \A f \in fenced : f.lease.work.gen \in Nat
  BY DEF TypeOK, TerminalRecord, FencedRecord, ActiveRecord, WorkUnit, Generation
<1>4. /\ \A t \in terminals : t.work.id = w.id =>
             t.work.gen < r.work.gen /\ t.receipt.outcome # "accepted"
      /\ \A f \in fenced : f.lease.work.id = w.id => f.lease.work.gen < r.work.gen
  BY <1>1 DEF Inv, EndedOlder, AcceptedLast
<1>5. Bound' /\ Chain'
  BY <1>1 DEF Inv, Bound, Chain
<1>6. OneLeasePerWork' /\ EndedOlder'
  BY <1>1, <1>2, <1>3, <1>4, SMTT(30) DEF Inv, OneLeasePerWork, EndedOlder
<1>7. EndedOnce'
  BY <1>1, <1>2, <1>3, <1>4 DEF Inv, EndedOnce
<1>8. HasLatest'
  <2> SUFFICES ASSUME NEW id \in WorkIds
               PROVE  \/ \E t \in terminals' : t.work.id = id /\ Top(id, t.work.gen)'
                      \/ \E f \in fenced' : f.lease.work.id = id /\ Top(id, f.lease.work.gen)'
                      \/ /\ \A t \in terminals' : t.work.id # id
                         /\ \A f \in fenced' : f.lease.work.id # id
    BY DEF HasLatest
  <2>1. CASE id = w.id
    <3>1. Top(id, r.work.gen)'
      BY <1>1, <1>2, <1>3, <1>4, <2>1 DEF Top
    <3> QED
      BY <1>1, <2>1, <3>1
  <2>2. CASE id # w.id
    BY <1>1, <2>2 DEF Inv, HasLatest, Top
  <2> QED
    BY <2>1, <2>2
<1>9. AcceptedLast'
  BY <1>1, <1>4 DEF Inv, AcceptedLast, Top
<1>10. ActiveOnHead'
  BY <1>1 DEF Inv, ActiveOnHead, HeadHash
<1> QED
  BY <1>5, <1>6, <1>7, <1>8, <1>9, <1>10 DEF Inv

\* Leases that end: each becomes a terminal or a fenced record of its own
\* key, above every generation of its work id that ended before.
Retire(T, F) ==
    /\ \A t \in T : \E r \in active \ active' : r.work = t.work
    /\ \A f \in F : f.lease \in active \ active'
    /\ \A t, u \in T : t.work = u.work => t = u
    /\ \A f, g \in F : f.lease = g.lease => f = g
    /\ \A t \in T, f \in F : t.work # f.lease.work
    /\ active' \subseteq active
    /\ terminals' = terminals \cup T /\ fenced' = fenced \cup F

\* Whatever ends leases (a commit, an expiry, an advance of the head) keeps
\* the part of the invariant that is about generations.
LEMMA RetireInv ==
  ASSUME TypeOK, Inv, NEW T, NEW F, Retire(T, F)
  PROVE  OneLeasePerWork' /\ EndedOlder' /\ EndedOnce' /\ HasLatest' /\ AcceptedLast'
<1>1. /\ \A t \in terminals : t.work.gen \in Nat
      /\ \A f \in fenced : f.lease.work.gen \in Nat
      /\ \A r \in active : r.work.gen \in Nat /\ r.work.id \in WorkIds
  BY DEF TypeOK, TerminalRecord, FencedRecord, ActiveRecord, WorkUnit, Generation
<1>2. /\ \A t \in T : t.work.gen \in Nat
      /\ \A f \in F : f.lease.work.gen \in Nat
  BY <1>1 DEF Retire
<1>3. /\ \A t \in T, r \in active' : t.work.id # r.work.id
      /\ \A f \in F, r \in active' : f.lease.work.id # r.work.id
  BY DEF Retire, Inv, OneLeasePerWork
<1>4. /\ \A t, u \in T : t.work.id = u.work.id => t = u
      /\ \A f, g \in F : f.lease.work.id = g.lease.work.id => f = g
      /\ \A t \in T, f \in F : t.work.id # f.lease.work.id
  BY DEF Retire, Inv, OneLeasePerWork
<1>5. /\ \A t \in T, u \in terminals : u.work.id = t.work.id =>
             u.work.gen < t.work.gen /\ u.receipt.outcome # "accepted"
      /\ \A t \in T, f \in fenced : f.lease.work.id = t.work.id =>
             f.lease.work.gen < t.work.gen
  BY DEF Retire, Inv, EndedOlder, AcceptedLast
<1>6. /\ \A f \in F, u \in terminals : u.work.id = f.lease.work.id =>
             u.work.gen < f.lease.work.gen /\ u.receipt.outcome # "accepted"
      /\ \A f \in F, g \in fenced : g.lease.work.id = f.lease.work.id =>
             g.lease.work.gen < f.lease.work.gen
  BY DEF Retire, Inv, EndedOlder, AcceptedLast
<1>7. /\ terminals' = terminals \cup T /\ fenced' = fenced \cup F
      /\ active' \subseteq active
  BY DEF Retire
<1>8. OneLeasePerWork' /\ EndedOlder'
  BY <1>3, <1>7 DEF Inv, OneLeasePerWork, EndedOlder
<1>9. EndedOnce'
  BY <1>1, <1>2, <1>4, <1>5, <1>6, <1>7 DEF Inv, EndedOnce
<1>10. \A t \in T : Top(t.work.id, t.work.gen)'
  BY <1>1, <1>2, <1>4, <1>5, <1>7 DEF Top
<1>11. \A f \in F : Top(f.lease.work.id, f.lease.work.gen)'
  BY <1>1, <1>2, <1>4, <1>6, <1>7 DEF Top
<1>12. AcceptedLast'
  <2> SUFFICES ASSUME NEW t \in terminals', t.receipt.outcome = "accepted"
               PROVE  /\ \A r \in active' : r.work.id # t.work.id
                      /\ Top(t.work.id, t.work.gen)'
    BY DEF AcceptedLast
  <2>1. CASE t \in T
    BY <1>3, <1>10, <2>1
  <2>2. CASE t \in terminals
    BY <1>5, <1>6, <1>7, <2>2 DEF Inv, AcceptedLast, Top
  <2> QED
    BY <1>7, <2>1, <2>2
<1>13. HasLatest'
  <2> SUFFICES ASSUME NEW id \in WorkIds
               PROVE  \/ \E t \in terminals' : t.work.id = id /\ Top(id, t.work.gen)'
                      \/ \E f \in fenced' : f.lease.work.id = id /\ Top(id, f.lease.work.gen)'
                      \/ /\ \A t \in terminals' : t.work.id # id
                         /\ \A f \in fenced' : f.lease.work.id # id
    BY DEF HasLatest
  <2>1. CASE \E t \in T : t.work.id = id
    BY <1>7, <1>10, <2>1
  <2>2. CASE \E f \in F : f.lease.work.id = id
    BY <1>7, <1>11, <2>2
  <2>3. CASE (\A t \in T : t.work.id # id) /\ (\A f \in F : f.lease.work.id # id)
    BY <1>7, <2>3 DEF Inv, HasLatest, Top
  <2> QED
    BY <2>1, <2>2, <2>3
<1> QED
  BY <1>8, <1>9, <1>12, <1>13

\* commit without a checkpoint ends exactly one lease.
LEMMA CommitReceiptInv ==
  ASSUME TypeOK, Inv, NEW w \in WorkUnit, NEW rc \in ContributionReceipt,
         CommitReceipt(w, rc)
  PROVE  Inv'
<1> DEFINE t == [work |-> w, receipt |-> rc]
<1>1. Retire({t}, {})
  BY DEF CommitReceipt, LeaseFor, Retire
<1>2. Bound' /\ Chain' /\ ActiveOnHead'
  BY DEF CommitReceipt, LeaseFor, Locked, Inv, Bound, Chain, ActiveOnHead, HeadHash
<1> QED
  BY <1>1, <1>2, RetireInv DEF Inv

\* fence_expired ends the leases that ran out.
LEMMA FenceExpiredInv ==
  ASSUME TypeOK, Inv, NEW now \in Time, FenceExpired(now) PROVE Inv'
<1> DEFINE F == {[lease |-> r, reason |-> "lease_expired"] : r \in Expired(now)}
<1>1. Retire({}, F)
  BY DEF FenceExpired, Expired, Retire
<1>2. Bound' /\ Chain' /\ ActiveOnHead'
  BY DEF FenceExpired, Expired, Locked, Inv, Bound, Chain, ActiveOnHead, HeadHash
<1> QED
  BY <1>1, <1>2, RetireInv DEF Inv

\* commit with a checkpoint ends every lease: the new hash differs from the
\* old head, on which all of them are based.
LEMMA CommitCheckpointInv ==
  ASSUME TypeOK, Inv, NEW w \in WorkUnit, NEW rc \in ContributionReceipt,
         NEW c \in CheckpointRef, CommitCheckpoint(w, rc, c)
  PROVE  Inv' /\ active' = {}
<1> DEFINE t == [work |-> w, receipt |-> rc]
           others == active \ LeaseFor(w, rc)
           F == {[lease |-> r, reason |-> "checkpoint_advanced"] : r \in others}
<1>1. /\ lineage' = Append(lineage, c) /\ IsLineage(Append(lineage, c))
      /\ lineage # <<>> /\ lineage \in Seq(CheckpointRef)
  BY DEF CommitCheckpoint, Locked, TypeOK
<1>2. c.hash # HeadHash
  <2>1. /\ Len(lineage) \in 1..Len(Append(lineage, c))
        /\ Len(Append(lineage, c)) = Len(lineage) + 1
        /\ Append(lineage, c)[Len(lineage)] = lineage[Len(lineage)]
        /\ Append(lineage, c)[Len(lineage) + 1] = c
    BY <1>1
  <2> QED
    BY <1>1, <2>1 DEF IsLineage, HeadHash
<1>3. \A r \in others : r.work.base # c.hash
  BY <1>2 DEF Inv, ActiveOnHead
<1>4. active' = {} /\ fenced' = fenced \cup F /\ terminals' = terminals \cup {t}
  BY <1>3 DEF CommitCheckpoint
<1>5. LeaseFor(w, rc) # {} /\ LeaseFor(w, rc) \subseteq active
      /\ \A r \in LeaseFor(w, rc) : r.work = w
  BY DEF CommitCheckpoint, LeaseFor
<1>6. \A r \in others : r.work # w
  BY <1>5 DEF Inv, OneLeasePerWork
<1>7. Retire({t}, F)
  BY <1>4, <1>5, <1>6 DEF Retire
<1>8. Bound' /\ Chain' /\ ActiveOnHead'
  BY <1>1, <1>4 DEF Bound, Chain, ActiveOnHead, IsLineage
<1> QED
  BY <1>4, <1>7, <1>8, RetireInv DEF Inv

\* The invariant holds in every reachable state.
THEOREM Invariance == Spec => [](TypeOK /\ Inv)
<1>1. Init => Inv
  BY DEF Init, Inv, Bound, Chain, OneLeasePerWork, EndedOlder, EndedOnce, HasLatest,
         AcceptedLast, ActiveOnHead
<1>2. TypeOK /\ Inv /\ [Next]_vars => Inv'
  <2> SUFFICES ASSUME TypeOK, Inv, [Next]_vars PROVE Inv'
    OBVIOUS
  <2>1. ASSUME NEW r \in active, NEW o \in Contributors \cup {None}, NEW e \in Time,
               IssueReplay(r, o, e)
        PROVE  Inv'
    BY <2>1, ExtendInv DEF IssueReplay, Extend
  <2>2. ASSUME NEW r \in active, NEW e \in Time, Renew(r, e) PROVE Inv'
    BY <2>2, ExtendInv DEF Renew, Extend
  <2>3. CASE (\E t \in terminals : CommitReplay(t)) \/ Status \/ ProjectCheckpoint
             \/ ProjectReceipt \/ Return \/ Crash \/ UNCHANGED vars
    BY <2>3, QuietInv DEF CommitReplay, Status, ProjectCheckpoint, ProjectReceipt,
       Return, Crash, vars, Quiet, state
  <2>4. ActiveWork \subseteq WorkUnit
    BY DEF ActiveWork, TypeOK, ActiveRecord
  <2> QED
    BY <2>1, <2>2, <2>3, <2>4, InitializeInv, IssueNewInv, ReassignInv, CommitReceiptInv,
       CommitCheckpointInv, FenceExpiredInv DEF Next
<1> QED
  BY <1>1, <1>2, TypeCorrect, PTL DEF Spec

\* No lease survives an advance of the head checkpoint.
THEOREM OldBaseFenced == Spec => []ActiveOnHead
BY Invariance, PTL DEF Inv

\* A work id is accepted in at most one generation, its last.
THEOREM ExactlyOnceAcceptance == Spec => []AcceptedOnce
<1>1. TypeOK /\ Inv => AcceptedOnce
  <2> SUFFICES ASSUME TypeOK, Inv, NEW t \in terminals, t.receipt.outcome = "accepted"
               PROVE  /\ ActiveOf(t.work.id) = {}
                      /\ \A u \in TerminalsOf(t.work.id) : u.work.gen <= t.work.gen
                      /\ \A f \in FencedOf(t.work.id) : f.lease.work.gen < t.work.gen
    BY DEF AcceptedOnce
  <2>1. /\ \A r \in active : r.work.id # t.work.id
        /\ Top(t.work.id, t.work.gen)
    BY DEF Inv, AcceptedLast
  <2>2. /\ t.work.gen \in Nat
        /\ \A f \in fenced : f.lease.work.gen \in Nat
    BY DEF TypeOK, TerminalRecord, FencedRecord, ActiveRecord, WorkUnit, Generation
  <2>3. ActiveOf(t.work.id) = {}
    BY <2>1 DEF ActiveOf
  <2>4. \A u \in TerminalsOf(t.work.id) : u.work.gen <= t.work.gen
    BY <2>1 DEF TerminalsOf, Top
  <2>5. \A f \in FencedOf(t.work.id) : f.lease.work.gen < t.work.gen
    <3> SUFFICES ASSUME NEW f \in fenced, f.lease.work.id = t.work.id
                 PROVE  f.lease.work.gen < t.work.gen
      BY DEF FencedOf
    <3>1. f.lease.work.gen # t.work.gen
      BY DEF Inv, EndedOnce
    <3> QED
      BY <2>1, <2>2, <3>1 DEF Top
  <2> QED
    BY <2>3, <2>4, <2>5
<1> QED
  BY <1>1, Invariance, PTL

-----------------------------------------------------------------------------
(***************************************************************************)
(* What _validate_state asks of a loaded file beyond Inv.  Its conjuncts   *)
(* about keys follow from Inv; these are kept by each operation together   *)
(* with it, because the base of a lease that ends is known to be in the    *)
(* lineage only because the lease was on the head.                         *)
(***************************************************************************)
Loadable ==
    /\ IsFiniteSet(active) /\ Cardinality(active) <= MaxActive
    /\ StableSharded => \A r, s \in active : r = s
    /\ \A t \in terminals : /\ t.work.base \in LineageHashes
                            /\ t.receipt.output \in LineageHashes \cup {None}
    /\ \A f \in fenced : f.lease.work.base \in LineageHashes

\* One lease for another leaves no more leases than there were.
LEMMA SwapCardinality ==
  ASSUME NEW S, IsFiniteSet(S), NEW r \in S, NEW n
  PROVE  /\ IsFiniteSet((S \ {r}) \cup {n})
         /\ Cardinality((S \ {r}) \cup {n}) <= Cardinality(S)
<1>1. /\ IsFiniteSet(S \ {r}) /\ Cardinality(S \ {r}) = Cardinality(S) - 1
      /\ Cardinality(S) \in Nat /\ Cardinality(S \ {r}) \in Nat
  BY FS_RemoveElement, FS_CardinalityType
<1>2. /\ IsFiniteSet((S \ {r}) \cup {n})
      /\ \/ Cardinality((S \ {r}) \cup {n}) = Cardinality(S \ {r})
         \/ Cardinality((S \ {r}) \cup {n}) = Cardinality(S \ {r}) + 1
  BY <1>1, FS_AddElement
<1> QED
  BY <1>1, <1>2

\* A longer lineage keeps the hashes of the shorter one.
LEMMA PrefixHashes ==
  ASSUME lineage \in Seq(CheckpointRef), lineage' \in Seq(CheckpointRef),
         LineageIsPrefix(lineage, lineage')
  PROVE  LineageHashes \subseteq LineageHashes'
BY DEF LineageIsPrefix, LineageHashes

\* The base of every lease is a committed checkpoint: the head.
LEMMA HeadInLineage ==
  ASSUME TypeOK, Inv, NEW r \in active
  PROVE  r.work.base \in LineageHashes
<1>1. lineage # <<>> /\ lineage \in Seq(CheckpointRef)
  BY DEF Inv, Bound, TypeOK
<1>2. Len(lineage) \in 1..Len(lineage)
  BY <1>1
<1> QED
  BY <1>2 DEF Inv, ActiveOnHead, HeadHash, LineageHashes

\* Every operation keeps the file loadable.
LEMMA LoadableInv ==
  ASSUME TypeOK, TypeOK', Inv, Loadable, [Next]_vars PROVE Loadable'
<1> USE DEF Loadable
<1>0. MaxActive \in Nat /\ Cardinality(active) \in Nat
  BY BoundAssumption, FS_CardinalityType
<1>1. ASSUME NEW s \in Seeds, Initialize(s) PROVE Loadable'
  <2>1. CASE lineage = <<>>
    <3>1. active' = {} /\ terminals' = {} /\ fenced' = {}
      BY <1>1, <2>1 DEF Initialize, Inv, Bound
    <3> QED
      BY <3>1, <1>0, FS_EmptySet
  <2>2. CASE UNCHANGED lineage
    BY <1>1, <2>2 DEF Initialize, LineageHashes
  <2> QED
    BY <1>1, <2>1, <2>2 DEF Initialize
<1>2. ASSUME NEW w \in WorkUnit, NEW o \in Contributors \cup {None},
             NEW e \in {NoExpiry} \cup Time, IssueNew(w, o, e)
      PROVE  Loadable'
  <2> DEFINE n == [work |-> w, owner |-> o, expiry |-> e]
  <2>1. /\ active' = active \cup {n} /\ Cardinality(active) < MaxActive
        /\ StableSharded => active = {}
        /\ UNCHANGED <<lineage, terminals, fenced>>
    BY <1>2 DEF IssueNew
  <2> HIDE DEF n
  <2>2. IsFiniteSet(active') /\ Cardinality(active') <= MaxActive
    BY <2>1, <1>0, FS_AddElement
  <2> QED
    BY <2>1, <2>2 DEF LineageHashes
<1>3. ASSUME NEW r \in active, NEW n, active' = (active \ {r}) \cup {n},
             UNCHANGED <<lineage, terminals>>,
             fenced' = fenced \/ \E x \in FenceReason : fenced' = fenced \cup {[lease |-> r, reason |-> x]}
      PROVE  Loadable'
  <2>1. IsFiniteSet(active') /\ Cardinality(active') <= Cardinality(active)
    BY <1>3, SwapCardinality
  <2>2. IsFiniteSet(active') /\ Cardinality(active') <= MaxActive
    BY <2>1, <1>0, FS_CardinalityType
  <2>3. StableSharded => \A p, q \in active' : p = q
    BY <1>3
  <2>4. \A f \in fenced' : f.lease.work.base \in LineageHashes'
    BY <1>3, HeadInLineage DEF LineageHashes
  <2> QED
    BY <1>3, <2>2, <2>3, <2>4 DEF LineageHashes
<1>4. ASSUME NEW w \in ActiveWork, NEW rc \in ContributionReceipt, CommitReceipt(w, rc)
      PROVE  Loadable'
  <2>1. /\ active' \subseteq active /\ UNCHANGED <<lineage, fenced>>
        /\ terminals' = terminals \cup {[work |-> w, receipt |-> rc]}
        /\ rc.output = None /\ w.base \in LineageHashes
    BY <1>4 DEF CommitReceipt
  <2>2. IsFiniteSet(active') /\ Cardinality(active') <= MaxActive
    BY <2>1, <1>0, FS_Subset, FS_CardinalityType
  <2> QED
    BY <2>1, <2>2 DEF LineageHashes
<1>5. ASSUME NEW w \in ActiveWork, NEW rc \in ContributionReceipt, NEW c \in CheckpointRef,
             CommitCheckpoint(w, rc, c)
      PROVE  Loadable'
  <2>1. w \in WorkUnit
    BY DEF ActiveWork, TypeOK, ActiveRecord
  <2>2. active' = {}
    BY <1>5, <2>1, CommitCheckpointInv
  <2>3. lineage' = Append(lineage, c) /\ lineage \in Seq(CheckpointRef)
    BY <1>5 DEF CommitCheckpoint, TypeOK
  <2>4. LineageHashes \subseteq LineageHashes'
    BY <2>3, PrefixHashes DEF LineageIsPrefix, TypeOK
  <2>5. c.hash \in LineageHashes'
    <3>1. Len(lineage') \in 1..Len(lineage') /\ lineage'[Len(lineage')] = c
      BY <2>3
    <3> QED
      BY <3>1 DEF LineageHashes
  <2>6. \A f \in fenced' : f.lease.work.base \in LineageHashes'
    <3>1. \A f \in fenced' : f \in fenced \/ f.lease \in active
      BY <1>5 DEF CommitCheckpoint
    <3> QED
      BY <3>1, <2>4, HeadInLineage
  <2>7. /\ terminals' = terminals \cup {[work |-> w, receipt |-> rc]}
        /\ rc.output = c.hash /\ w.base \in LineageHashes
    BY <1>5, HeadInLineage DEF CommitCheckpoint, ActiveWork
  <2> QED
    BY <2>2, <2>4, <2>5, <2>6, <2>7, <1>0, FS_EmptySet
<1>6. ASSUME NEW now \in Time, FenceExpired(now) PROVE Loadable'
  <2>1. /\ active' \subseteq active /\ UNCHANGED <<lineage, terminals>>
        /\ \A f \in fenced' : f \in fenced \/ f.lease \in active
    BY <1>6 DEF FenceExpired, Expired
  <2>2. IsFiniteSet(active') /\ Cardinality(active') <= MaxActive
    BY <2>1, <1>0, FS_Subset, FS_CardinalityType
  <2> QED
    BY <2>1, <2>2, HeadInLineage DEF LineageHashes
<1>7. ASSUME NEW r \in active, NEW o \in Contributors \cup {None}, NEW e \in Time,
             IssueReplay(r, o, e) \/ Renew(r, e)
      PROVE  Loadable'
  BY <1>3, <1>7 DEF IssueReplay, Renew
<1>8. ASSUME NEW r \in active, NEW w \in WorkUnit, NEW o \in Contributors \cup {None},
             NEW e \in {NoExpiry} \cup Time, Reassign(r, w, o, e)
      PROVE  Loadable'
  BY <1>3, <1>8 DEF Reassign, FenceReason
<1>9. CASE UNCHANGED state
  BY <1>9 DEF state, LineageHashes
<1>10. CASE (\E t \in terminals : CommitReplay(t)) \/ Status \/ ProjectCheckpoint
            \/ ProjectReceipt \/ Return \/ Crash \/ UNCHANGED vars
  BY <1>9, <1>10 DEF CommitReplay, Status, ProjectCheckpoint, ProjectReceipt, Return, Crash,
     vars, state
<1> QED
  BY <1>1, <1>2, <1>4, <1>5, <1>6, <1>7, <1>8, <1>10 DEF Next

\* The whole of what holds of the state file.
THEOREM FileInvariance == Spec => [](TypeOK /\ Inv /\ Loadable)
<1>1. Init => Loadable
  BY FS_EmptySet, BoundAssumption DEF Init, Loadable
<1> QED
  BY <1>1, LoadableInv, Invariance, PTL DEF Spec

\* No operation saves a state that the next load refuses.
THEOREM SavedStateReloads == Spec => []StateReloads
<1>1. TypeOK /\ Inv /\ Loadable => StateReloads
  <2> SUFFICES ASSUME TypeOK, Inv, Loadable, lineage # <<>> PROVE ValidState
    BY DEF StateReloads
  <2>1. IsLineage(lineage) /\ OneLeasePerWork
    BY DEF Inv, Chain
  <2>2. /\ \A t, u \in terminals : Key(t.work) = Key(u.work) => t = u
        /\ \A f, g \in fenced : Key(f.lease.work) = Key(g.lease.work) => f = g
    BY DEF Inv, EndedOnce, Key
  <2>3. TerminalKeys \cap FencedKeys = {}
    BY DEF Inv, EndedOnce, Key, TerminalKeys, FencedKeys
  <2>4. ASSUME NEW r \in active PROVE Key(r.work) \notin TerminalKeys \cup FencedKeys
    BY DEF Inv, EndedOlder, Key, TerminalKeys, FencedKeys, TypeOK, ActiveRecord, WorkUnit,
           Generation
  <2>5. \A r \in active : r.work.base \in LineageHashes
    BY HeadInLineage
  <2> QED
    BY <2>1, <2>2, <2>3, <2>4, <2>5 DEF ValidState, Loadable, OneLeasePerWork
<1> QED
  BY <1>1, FileInvariance, PTL

-----------------------------------------------------------------------------
\* A step of the file: what the projections see of any operation.
\* No checkpoint, terminal or fenced lease is taken back, and a new terminal
\* has a new key.
Growth ==
    /\ LineageIsPrefix(lineage, lineage')
    /\ terminals \subseteq terminals' /\ fenced \subseteq fenced'
    /\ \A t \in terminals' \ terminals : Key(t.work) \notin TerminalKeys

LEMMA StepGrowth ==
  ASSUME TypeOK, Inv, [Next]_vars PROVE Growth
<1>0. LineageIsPrefix(lineage, lineage)
  BY DEF LineageIsPrefix, TypeOK
<1>1. ASSUME NEW s \in Seeds, Initialize(s) PROVE Growth
  <2>1. CASE lineage = <<>>
    BY <1>1, <2>1 DEF Initialize, Growth, LineageIsPrefix
  <2>2. CASE UNCHANGED lineage
    BY <1>0, <1>1, <2>2 DEF Initialize, Growth
  <2> QED
    BY <1>1, <2>1, <2>2 DEF Initialize
<1>2. ASSUME NEW w \in ActiveWork, NEW rc \in ContributionReceipt, NEW c \in CheckpointRef,
             CommitCheckpoint(w, rc, c)
      PROVE  Growth
  <2>1. lineage' = Append(lineage, c) /\ lineage \in Seq(CheckpointRef)
    BY <1>2 DEF CommitCheckpoint, TypeOK
  <2>2. LineageIsPrefix(lineage, lineage')
    BY <2>1 DEF LineageIsPrefix
  <2> QED
    BY <1>2, <2>2 DEF CommitCheckpoint, Growth
<1>3. ASSUME NEW w \in ActiveWork, NEW rc \in ContributionReceipt, CommitReceipt(w, rc)
      PROVE  Growth
  BY <1>0, <1>3 DEF CommitReceipt, Growth
<1>4. ASSUME UNCHANGED <<lineage, terminals>>, fenced \subseteq fenced' PROVE Growth
  BY <1>0, <1>4 DEF Growth
<1> QED
  BY <1>1, <1>2, <1>3, <1>4 DEF Next, IssueNew, IssueReplay, Reassign, CommitReplay, Renew,
     FenceExpired, Status, ProjectCheckpoint, ProjectReceipt, Return, Crash, vars, state

\* No operation, and no crash, takes back a checkpoint, a terminal or a
\* fenced lease.
THEOREM HistoryNeverRewritten == Spec => HistoryImmutable
<1>1. TypeOK /\ Inv /\ [Next]_vars =>
        [/\ LineageIsPrefix(lineage, lineage')
         /\ terminals \subseteq terminals'
         /\ fenced \subseteq fenced']_vars
  BY StepGrowth DEF Growth
<1> QED
  BY <1>1, Invariance, PTL DEF Spec, HistoryImmutable

\* A lease of one key is the same lease before and after any step, up to a
\* later expiry.
THEOREM LeasesExtended == Spec => LeasesOnlyExtended
<1> DEFINE Kept == \A r \in active, s \in active' :
                      Key(r.work) = Key(s.work) =>
                         s.work = r.work /\ s.owner = r.owner /\ s.expiry >= r.expiry
<1>1. ASSUME TypeOK, Inv, [Next]_vars PROVE Kept
  <2>0. /\ \A r \in active : /\ r.work.gen \in Nat /\ r.expiry \in Nat
                             /\ r = [work |-> r.work, owner |-> r.owner, expiry |-> r.expiry]
        /\ \A r, s \in active : Key(r.work) = Key(s.work) => r = s
    BY <1>1 DEF TypeOK, ActiveRecord, WorkUnit, Generation, Time, NoExpiry, Key, Inv,
                OneLeasePerWork
  <2>1. ASSUME active' \subseteq active PROVE Kept
    BY <2>0, <2>1
  <2>2. ASSUME NEW r \in active, NEW e \in Time, e > r.expiry,
               active' = (active \ {r}) \cup {[r EXCEPT !.expiry = e]}
        PROVE  Kept
    <3>1. /\ [r EXCEPT !.expiry = e].work = r.work /\ [r EXCEPT !.expiry = e].owner = r.owner
          /\ [r EXCEPT !.expiry = e].expiry = e
      BY <1>1 DEF TypeOK, ActiveRecord
    <3>2. e \in Nat
      BY DEF Time
    <3> QED
      BY <2>0, <2>2, <3>1, <3>2
  <2>3. ASSUME NEW w \in WorkUnit, NEW o \in Contributors \cup {None},
               NEW e \in {NoExpiry} \cup Time, IssueNew(w, o, e)
        PROVE  Kept
    <3>1. \A r \in active : Key(r.work) # Key(w)
      BY <2>3 DEF IssueNew, ActiveOf, Key
    <3> QED
      BY <2>0, <2>3, <3>1 DEF IssueNew
  <2>4. ASSUME NEW p \in active, NEW w \in WorkUnit, NEW o \in Contributors \cup {None},
               NEW e \in {NoExpiry} \cup Time, Reassign(p, w, o, e)
        PROVE  Kept
    <3>1. w.id = p.work.id /\ w.gen = p.work.gen + 1
      BY <2>4 DEF Reassign, ReassignAllowed, SameAttempt
    <3>2. \A r \in active : Key(r.work) # Key(w)
      BY <1>1, <2>0, <3>1 DEF Key, Inv, OneLeasePerWork
    <3> QED
      BY <2>0, <2>4, <3>2 DEF Reassign
  <2>5. ASSUME NEW s \in Seeds, Initialize(s) PROVE Kept
    BY <2>1, <2>5 DEF Initialize
  <2>6. ASSUME NEW w \in ActiveWork, NEW rc \in ContributionReceipt, CommitReceipt(w, rc)
        PROVE  Kept
    BY <2>1, <2>6 DEF CommitReceipt
  <2>7. ASSUME NEW w \in ActiveWork, NEW rc \in ContributionReceipt, NEW c \in CheckpointRef,
               CommitCheckpoint(w, rc, c)
        PROVE  Kept
    BY <2>1, <2>7 DEF CommitCheckpoint
  <2>8. ASSUME NEW now \in Time, FenceExpired(now) PROVE Kept
    BY <2>1, <2>8 DEF FenceExpired
  <2>9. CASE UNCHANGED active
    BY <2>1, <2>9
  <2> HIDE DEF Kept
  <2> QED
    BY <1>1, <2>2, <2>3, <2>4, <2>5, <2>6, <2>7, <2>8, <2>9 DEF Next, IssueReplay, Renew,
       CommitReplay, Status, ProjectCheckpoint, ProjectReceipt, Return, Crash, vars, state
<1> QED
  BY <1>1, Invariance, PTL DEF Spec, LeasesOnlyExtended

-----------------------------------------------------------------------------
\* The projections stay behind the file: a step of the file only grows what
\* they may hold, and a receipt is written only after every checkpoint.
LEMMA ProjectionsStep ==
  ASSUME TypeOK, TypeOK', Inv, Loadable, ProjectionsFollowState, [Next]_vars
  PROVE  ProjectionsFollowState'
<1>1. Growth
  BY StepGrowth
<1>2. LineageHashes \subseteq LineageHashes' /\ TerminalKeys \subseteq TerminalKeys'
  BY <1>1, PrefixHashes DEF Growth, TypeOK, TerminalKeys
<1>3. CASE UNCHANGED files
  <2>1. \A t \in terminals' : Key(t.work) \in projReceipts => t \in terminals
    BY <1>1 DEF Growth, ProjectionsFollowState
  <2> QED
    BY <1>2, <1>3, <2>1 DEF files, ProjectionsFollowState
<1>4. CASE ProjectCheckpoint
  BY <1>4 DEF ProjectCheckpoint, ProjectionsFollowState, LineageHashes, TerminalKeys
<1>5. CASE ProjectReceipt
  <2>1. /\ \A t \in terminals : t.receipt.output \in LineageHashes \cup {None}
        /\ UNCHANGED <<terminals, projCkpts>> /\ LineageHashes \subseteq projCkpts
        /\ LineageHashes' = LineageHashes /\ TerminalKeys' = TerminalKeys
        /\ projReceipts' \subseteq projReceipts \cup TerminalKeys
    BY <1>5 DEF ProjectReceipt, Loadable, LineageHashes, TerminalKeys
  <2> QED
    BY <2>1 DEF ProjectionsFollowState
<1> QED
  BY <1>3, <1>4, <1>5 DEF Next, Initialize, IssueNew, IssueReplay, Reassign, CommitReceipt,
     CommitCheckpoint, CommitReplay, Renew, FenceExpired, Status, Return, Crash, Save, vars, files

\* Whatever a crash interrupted, checkpoints/ and receipts/ hold nothing the
\* state file does not account for, and no receipt before its checkpoint.
THEOREM ProjectionsNeverAhead == Spec => []ProjectionsFollowState
<1>1. Init => ProjectionsFollowState
  BY DEF Init, ProjectionsFollowState
<1> QED
  BY <1>1, ProjectionsStep, FileInvariance, PTL DEF Spec

-----------------------------------------------------------------------------
\* A committed checkpoint is the output of the one receipt committed with it,
\* because no earlier receipt can name a hash the lineage does not have yet.
LEMMA ReceiptsStep ==
  ASSUME TypeOK, Inv, Loadable, CheckpointsHaveReceipts, [Next]_vars
  PROVE  CheckpointsHaveReceipts'
<1> DEFINE One(T, i) ==
      \E t \in T : /\ t.receipt.output = lineage[i].hash
                   /\ t.work.base = lineage[i - 1].hash
                   /\ \A u \in T : u.receipt.output = lineage[i].hash => u = t
<1>0. /\ lineage \in Seq(CheckpointRef)
      /\ \A i \in 1..Len(lineage) : lineage[i].hash \in Hashes
  <2>1. lineage \in Seq(CheckpointRef)
    BY DEF TypeOK
  <2>2. \A i \in 1..Len(lineage) : lineage[i] \in CheckpointRef
    BY <2>1
  <2> QED
    BY <2>1, <2>2 DEF CheckpointRef
<1>1. ASSUME NEW s \in Seeds, Initialize(s), lineage = <<>> PROVE CheckpointsHaveReceipts'
  <2>1. lineage' = s /\ s \in Seq(CheckpointRef) /\ s # <<>>
    BY <1>1, SeedAssumption DEF Initialize, IsLineage
  <2>2. SubSeq(s, 1, Len(s)) = s /\ Len(s) \in 1..Len(s) /\ (Len(s) + 1)..Len(s) = {}
    BY <2>1
  <2> QED
    BY <2>1, <2>2 DEF CheckpointsHaveReceipts
<1>2. ASSUME NEW w \in ActiveWork, NEW rc \in ContributionReceipt, NEW c \in CheckpointRef,
             CommitCheckpoint(w, rc, c)
      PROVE  CheckpointsHaveReceipts'
  <2> DEFINE m == Len(lineage)
             x == [work |-> w, receipt |-> rc]
  <2>1. /\ lineage' = Append(lineage, c) /\ terminals' = terminals \cup {x}
        /\ rc.output = c.hash /\ w.base = lineage[m].hash
        /\ lineage # <<>> /\ IsLineage(Append(lineage, c))
    BY <1>2 DEF CommitCheckpoint, OnHead, HeadHash, Locked
  <2>2. /\ x.receipt = rc /\ x.work = w
    OBVIOUS
  <2> HIDE DEF x
  <2>3. /\ m \in Nat /\ Len(lineage') = m + 1 /\ lineage'[m + 1] = c
        /\ \A i \in 1..m : lineage'[i] = lineage[i]
    BY <1>0, <2>1
  <2>4. \A i \in 1..m : lineage[i].hash # c.hash
    BY <2>1, <2>3 DEF IsLineage
  <2>5. \A u \in terminals : u.receipt.output # c.hash
    <3>1. c.hash \in Hashes /\ c.hash \notin LineageHashes
      BY <2>4 DEF CheckpointRef, LineageHashes
    <3> QED
      BY <3>1, NoneAssumption DEF Loadable
  <2>6. PICK n \in 1..m : /\ SubSeq(lineage, 1, n) \in Seeds
                          /\ \A i \in (n + 1)..m : One(terminals, i)
    BY <2>1 DEF CheckpointsHaveReceipts
  <2>7. n \in 1..Len(lineage') /\ SubSeq(lineage', 1, n) \in Seeds
    <3>1. n \in 1..Len(lineage') /\ n <= m
      BY <2>3
    <3>2. \A i \in 1..n : lineage'[i] = lineage[i]
      BY <2>3
    <3>3. SubSeq(lineage', 1, n) = SubSeq(lineage, 1, n)
      BY <3>1, <3>2
    <3> QED
      BY <2>6, <3>1, <3>3
  <2>8. ASSUME NEW i \in (n + 1)..m
        PROVE  \E t \in terminals' :
                  /\ t.receipt.output = lineage'[i].hash
                  /\ t.work.base = lineage'[i - 1].hash
                  /\ \A u \in terminals' : u.receipt.output = lineage'[i].hash => u = t
    <3>1. i \in 1..m /\ i - 1 \in 1..m
      OBVIOUS
    <3>2. One(terminals, i)
      BY <2>6
    <3> QED
      BY <2>1, <2>2, <2>3, <2>4, <3>1, <3>2
  <2>9. /\ x \in terminals' /\ x.receipt.output = lineage'[m + 1].hash
        /\ x.work.base = lineage'[m].hash
        /\ \A u \in terminals' : u.receipt.output = lineage'[m + 1].hash => u = x
    BY <2>1, <2>2, <2>3, <2>5
  <2>10. \A i \in (n + 1)..Len(lineage') : i \in (n + 1)..m \/ i = m + 1
    BY <2>3
  <2>11. m = (m + 1) - 1
    BY <2>3
  <2> HIDE DEF m
  <2>12. ASSUME NEW i \in (n + 1)..Len(lineage')
         PROVE  \E t \in terminals' :
                   /\ t.receipt.output = lineage'[i].hash
                   /\ t.work.base = lineage'[i - 1].hash
                   /\ \A u \in terminals' : u.receipt.output = lineage'[i].hash => u = t
    <3>1. CASE i \in (n + 1)..m
      BY <2>8, <3>1
    <3>2. CASE i = m + 1
      <4>1. i - 1 = m
        BY <2>11, <3>2
      <4> QED
        BY <2>9, <3>2, <4>1
    <3> QED
      BY <2>10, <3>1, <3>2
  <2> QED
    BY <2>7, <2>12 DEF CheckpointsHaveReceipts
<1>3. ASSUME NEW w \in ActiveWork, NEW rc \in ContributionReceipt, CommitReceipt(w, rc)
      PROVE  CheckpointsHaveReceipts'
  <2> DEFINE x == [work |-> w, receipt |-> rc]
  <2>1. /\ lineage' = lineage /\ terminals' = terminals \cup {x} /\ x.receipt.output = None
        /\ lineage # <<>>
    BY <1>3 DEF CommitReceipt, Locked
  <2> HIDE DEF x
  <2>2. PICK n \in 1..Len(lineage) : /\ SubSeq(lineage, 1, n) \in Seeds
                                     /\ \A i \in (n + 1)..Len(lineage) : One(terminals, i)
    BY <2>1 DEF CheckpointsHaveReceipts
  <2>3. ASSUME NEW i \in (n + 1)..Len(lineage')
        PROVE  \E t \in terminals' :
                  /\ t.receipt.output = lineage'[i].hash
                  /\ t.work.base = lineage'[i - 1].hash
                  /\ \A u \in terminals' : u.receipt.output = lineage'[i].hash => u = t
    <3>1. lineage[i].hash # None /\ One(terminals, i)
      BY <1>0, <2>1, <2>2, NoneAssumption
    <3> QED
      BY <2>1, <3>1
  <2>4. n \in 1..Len(lineage') /\ SubSeq(lineage', 1, n) \in Seeds
    BY <2>1, <2>2
  <2> QED
    BY <2>3, <2>4 DEF CheckpointsHaveReceipts
<1>4. CASE UNCHANGED <<lineage, terminals>>
  BY <1>4 DEF CheckpointsHaveReceipts
<1> QED
  BY <1>1, <1>2, <1>3, <1>4 DEF Next, Initialize, IssueNew, IssueReplay, Reassign, CommitReplay,
     Renew, FenceExpired, Status, ProjectCheckpoint, ProjectReceipt, Return, Crash, vars, state

\* Every checkpoint after the lineage the controller was bound to has its one
\* accepted receipt.
THEOREM EveryCheckpointHasReceipt == Spec => []CheckpointsHaveReceipts
<1>1. Init => CheckpointsHaveReceipts
  BY DEF Init, CheckpointsHaveReceipts
<1> QED
  BY <1>1, ReceiptsStep, FileInvariance, PTL DEF Spec

-----------------------------------------------------------------------------
\* The controller implements WorkLedger.

\* The ledger's variables, as the refinement mapping gives them.
Chained == [i \in 1..Len(lineage) |-> lineage[i].hash]
Live    == {Key(r.work) : r \in active}
Ended   == TerminalKeys \cup FencedKeys
Taken   == {Key(t.work) : t \in {u \in terminals : u.receipt.outcome = "accepted"}}

\* A step the ledger does not see.
Unseen == UNCHANGED <<Chained, Live, Ended, Taken>>

LEMMA LedgerStutter == Unseen => UNCHANGED Ledger!lvars
BY DEF Unseen, Ledger!lvars, Chained, Live, Ended, Taken

LEMMA KeyParts ==
  ASSUME NEW w \in WorkUnit
  PROVE  Key(w)[1] = w.id /\ Key(w)[2] = w.gen /\ Key(w) = <<w.id, w.gen>>
BY DEF Key

\* What a live, an ended and an accepted key come from.
LEMMA KeyTypes ==
  ASSUME TypeOK
  PROVE  /\ \A r \in active : r.work \in WorkUnit
         /\ \A t \in terminals : t.work \in WorkUnit
         /\ \A f \in fenced : f.lease.work \in WorkUnit
         /\ \A w \in WorkUnit : w.id \in WorkIds /\ w.gen \in Generation /\ w.gen \in Nat
BY DEF TypeOK, ActiveRecord, TerminalRecord, FencedRecord, WorkUnit, Generation

\* Ending some leases ends exactly their keys.
LEMMA LiveWithout ==
  ASSUME TypeOK, Inv, NEW S \in SUBSET active
  PROVE  {Key(r.work) : r \in active \ S} = Live \ {Key(r.work) : r \in S}
<1>1. \A r, s \in active : Key(r.work) = Key(s.work) => r = s
  BY KeyTypes, KeyParts DEF Inv, OneLeasePerWork
<1> QED
  BY <1>1 DEF Live

\* A generation that issue lets through is fresh for the ledger too.
LEMMA FreshForLedger ==
  ASSUME TypeOK, Inv, NEW w \in WorkUnit, NEW K \in SUBSET Live,
         \A x \in K : x[1] # w.id,
         \A x \in Live : x[1] = w.id => x[2] < w.gen,
         HistoryAllows(w)
  PROVE  Ledger!Fresh(Key(w), K)
<1>1. /\ \A t \in terminals : t.work.id = w.id =>
             t.work.gen < w.gen /\ t.receipt.outcome # "accepted"
      /\ \A f \in fenced : f.lease.work.id = w.id => f.lease.work.gen < w.gen
  BY HistoryFresh DEF Inv
<1>2. \A x \in Ended : x[1] = w.id => x[2] < w.gen
  BY <1>1, KeyTypes, KeyParts DEF Ended, TerminalKeys, FencedKeys
<1>3. \A x \in Taken : x[1] # w.id
  BY <1>1, KeyTypes, KeyParts DEF Taken
<1> QED
  BY <1>2, <1>3, KeyParts DEF Ledger!Fresh, Live, Ended, Taken

\* One lease more is one live key more.
LEMMA LiveMore ==
  ASSUME NEW S, NEW w, NEW o, NEW e, active' = S \cup {[work |-> w, owner |-> o, expiry |-> e]}
  PROVE  Live' = {Key(s.work) : s \in S} \cup {Key(w)}
<1> DEFINE n == [work |-> w, owner |-> o, expiry |-> e]
<1>1. n.work = w /\ active' = S \cup {n}
  OBVIOUS
<1> HIDE DEF n
<1> QED
  BY <1>1 DEF Live

\* Fencing some leases ends exactly their keys.
LEMMA FencedMore ==
  ASSUME NEW S, NEW x, fenced' = fenced \cup {[lease |-> r, reason |-> x] : r \in S}
  PROVE  FencedKeys' = FencedKeys \cup {Key(r.work) : r \in S}
<1> DEFINE F(r) == [lease |-> r, reason |-> x]
<1>1. (\A r \in S : F(r).lease = r) /\ fenced' = fenced \cup {F(r) : r \in S}
  OBVIOUS
<1> HIDE DEF F
<1> QED
  BY <1>1 DEF FencedKeys

-----------------------------------------------------------------------------
\* initialize binds the ledger's chain.
LEMMA InitializeBinds ==
  ASSUME TypeOK, Inv, NEW s \in Seeds, Initialize(s)
  PROVE  [Ledger!LNext]_(Ledger!lvars)
<1>1. CASE lineage = <<>> /\ lineage' = s
  <2>1. Chained = <<>>
    BY <1>1 DEF Chained
  <2>2. Chained' \in {[i \in 1..Len(p) |-> p[i].hash] : p \in Seeds}
    BY <1>1 DEF Chained
  <2>3. UNCHANGED <<Live, Ended, Taken>>
    BY DEF Initialize, Live, Ended, Taken, TerminalKeys, FencedKeys
  <2> QED
    BY <2>1, <2>2, <2>3 DEF Ledger!LNext, Ledger!Bind, Chained, Live, Ended, Taken
<1>2. CASE UNCHANGED lineage
  BY <1>2, LedgerStutter DEF Initialize, Unseen, Chained, Live, Ended, Taken, TerminalKeys,
     FencedKeys
<1> QED
  BY <1>1, <1>2 DEF Initialize

\* issue of new work opens its generation.
LEMMA IssueOpens ==
  ASSUME TypeOK, Inv, NEW w \in WorkUnit, NEW o \in Contributors \cup {None},
         NEW e \in {NoExpiry} \cup Time, IssueNew(w, o, e)
  PROVE  Ledger!Open(<<w.id, w.gen>>)
<1>1. \A x \in Live : x[1] # w.id
  BY KeyTypes, KeyParts DEF IssueNew, ActiveOf, Live
<1>2. Ledger!Fresh(Key(w), Live)
  BY <1>1, FreshForLedger DEF IssueNew
<1>3. Live' = Live \cup {Key(w)}
  BY LiveMore DEF IssueNew, Live
<1>4. UNCHANGED <<Chained, Ended, Taken>>
  BY DEF IssueNew, Chained, Ended, Taken, TerminalKeys, FencedKeys
<1>5. Chained # <<>>
  <2>1. lineage # <<>> /\ lineage \in Seq(CheckpointRef)
    BY DEF IssueNew, Locked, TypeOK
  <2>2. 1 \in DOMAIN Chained
    BY <2>1 DEF Chained
  <2> QED
    BY <2>2
<1> QED
  BY <1>2, <1>3, <1>4, <1>5 DEF Ledger!Open, Key, Chained, Live, Ended, Taken

\* issue with replace_active opens the next generation over the prior one.
LEMMA ReassignSupersedes ==
  ASSUME TypeOK, Inv, NEW r \in active, NEW w \in WorkUnit,
         NEW o \in Contributors \cup {None}, NEW e \in {NoExpiry} \cup Time,
         Reassign(r, w, o, e)
  PROVE  /\ Key(r.work) \in Live
         /\ Ledger!Supersede(Key(r.work), <<Key(r.work)[1], w.gen>>)
<1>1. w.id = r.work.id /\ w.gen = r.work.gen + 1 /\ HistoryAllows(w)
  BY DEF Reassign, ReassignAllowed, SameAttempt
<1>2. Key(r.work) \in Live /\ Key(r.work)[1] = w.id /\ Key(w) = <<Key(r.work)[1], w.gen>>
  BY <1>1, KeyTypes, KeyParts DEF Live
<1>3. Live \ {Key(r.work)} = {Key(s.work) : s \in active \ {r}}
  <2>1. {Key(s.work) : s \in {r}} = {Key(r.work)}
    OBVIOUS
  <2> QED
    BY <2>1, LiveWithout
<1>4. \A s \in active : s.work.id = w.id => s = r
  BY <1>1 DEF Inv, OneLeasePerWork
<1>5. \A x \in Live \ {Key(r.work)} : x[1] # w.id
  BY <1>3, <1>4, KeyTypes, KeyParts
<1>6. \A x \in Live : x[1] = w.id => x[2] < w.gen
  BY <1>1, <1>4, KeyTypes, KeyParts DEF Live
<1>7. Ledger!Fresh(Key(w), Live \ {Key(r.work)})
  BY <1>1, <1>5, <1>6, FreshForLedger
<1>8. Live' = (Live \ {Key(r.work)}) \cup {Key(w)}
  <2>1. active' = (active \ {r}) \cup {[work |-> w, owner |-> o, expiry |-> e]}
    BY DEF Reassign
  <2>2. Live' = {Key(s.work) : s \in active \ {r}} \cup {Key(w)}
    BY <2>1, LiveMore
  <2> QED
    BY <1>3, <2>2
<1>9. Ended' = Ended \cup {Key(r.work)}
  <2>1. /\ terminals' = terminals
        /\ fenced' = fenced \cup {[lease |-> s, reason |-> "generation_reassigned"] : s \in {r}}
    BY DEF Reassign
  <2>2. FencedKeys' = FencedKeys \cup {Key(s.work) : s \in {r}}
    BY <2>1, FencedMore
  <2> QED
    BY <2>1, <2>2 DEF Ended, TerminalKeys
<1>10. UNCHANGED <<Chained, Taken>>
  BY DEF Reassign, Chained, Taken
<1> QED
  BY <1>2, <1>7, <1>8, <1>9, <1>10, KeyParts, KeyTypes
     DEF Ledger!Supersede, Chained, Live, Ended, Taken

\* The lease a commit ends is the only one of its key.
LEMMA CommittedLease ==
  ASSUME TypeOK, Inv, NEW w \in WorkUnit, NEW rc, LeaseFor(w, rc) # {}
  PROVE  /\ Key(w) \in Live /\ LeaseFor(w, rc) \subseteq active
         /\ {Key(r.work) : r \in LeaseFor(w, rc)} = {Key(w)}
BY DEF LeaseFor, Live

\* commit without a checkpoint accepts its generation or drops it.
LEMMA CommitReceiptAccepts ==
  ASSUME TypeOK, Inv, NEW w \in WorkUnit, NEW rc \in ContributionReceipt, CommitReceipt(w, rc)
  PROVE  \/ \E k \in Live : Ledger!Accept(k)
         \/ \E K \in SUBSET Live : Ledger!Drop(K)
<1> DEFINE t == [work |-> w, receipt |-> rc]
<1>1. /\ active' = active \ LeaseFor(w, rc) /\ LeaseFor(w, rc) # {}
      /\ terminals' = terminals \cup {t} /\ t.work = w /\ t.receipt = rc
      /\ UNCHANGED <<lineage, fenced>>
  BY DEF CommitReceipt
<1> HIDE DEF t
<1>2. Key(w) \in Live /\ Live' = Live \ {Key(w)}
  <2>1. /\ Key(w) \in Live /\ LeaseFor(w, rc) \in SUBSET active
        /\ {Key(r.work) : r \in LeaseFor(w, rc)} = {Key(w)}
    BY <1>1, CommittedLease
  <2>2. {Key(r.work) : r \in active \ LeaseFor(w, rc)} = Live \ {Key(w)}
    BY <2>1, LiveWithout
  <2> QED
    BY <1>1, <2>1, <2>2 DEF Live
<1>3. Ended' = Ended \cup {Key(w)}
  BY <1>1 DEF Ended, TerminalKeys, FencedKeys
<1>4. UNCHANGED Chained
  BY <1>1 DEF Chained
<1>5. CASE rc.outcome = "accepted"
  <2>1. Taken' = Taken \cup {Key(w)}
    BY <1>1, <1>5 DEF Taken
  <2> QED
    BY <1>2, <1>3, <1>4, <2>1 DEF Ledger!Accept, Chained, Live, Ended, Taken
<1>6. CASE rc.outcome # "accepted"
  <2>1. Taken' = Taken
    BY <1>1, <1>6 DEF Taken
  <2>2. Ledger!Drop({Key(w)})
    BY <1>2, <1>3, <1>4, <2>1 DEF Ledger!Drop, Chained, Live, Ended, Taken
  <2> QED
    BY <1>2, <2>2
<1> QED
  BY <1>5, <1>6

\* commit with a checkpoint promotes it and ends every live generation.
LEMMA CommitCheckpointPromotes ==
  ASSUME TypeOK, Inv, NEW w \in WorkUnit, NEW rc \in ContributionReceipt,
         NEW c \in CheckpointRef, CommitCheckpoint(w, rc, c)
  PROVE  \E k \in Live, h \in Hashes : Ledger!Promote(k, h)
<1> DEFINE t == [work |-> w, receipt |-> rc]
           others == active \ LeaseFor(w, rc)
<1>1. /\ LeaseFor(w, rc) # {} /\ rc.outcome = "accepted"
      /\ terminals' = terminals \cup {t} /\ t.work = w /\ t.receipt = rc
      /\ lineage' = Append(lineage, c) /\ IsLineage(Append(lineage, c))
      /\ lineage \in Seq(CheckpointRef)
  BY DEF CommitCheckpoint, TypeOK
<1>2. active' = {}
  BY CommitCheckpointInv
<1>3. fenced' = fenced \cup {[lease |-> r, reason |-> "checkpoint_advanced"] : r \in others}
  <2> DEFINE stale == {r \in others : r.work.base # c.hash}
  <2>1. /\ active' = others \ stale
        /\ fenced' = fenced \cup
              {[lease |-> r, reason |-> "checkpoint_advanced"] : r \in stale}
    BY DEF CommitCheckpoint
  <2>2. stale = others
    BY <1>2, <2>1
  <2> QED
    BY <2>1, <2>2
<1> HIDE DEF t
<1>4. Key(w) \in Live /\ Live' = {}
  BY <1>1, <1>2, CommittedLease DEF Live
<1>5. Ended' = Ended \cup Live
  <2>1. FencedKeys' = FencedKeys \cup {Key(r.work) : r \in others}
    BY <1>3, FencedMore
  <2>2. TerminalKeys' = TerminalKeys \cup {Key(w)}
    BY <1>1 DEF TerminalKeys
  <2>3. {Key(r.work) : r \in others} = Live \ {Key(w)}
    <3>1. /\ LeaseFor(w, rc) \in SUBSET active
          /\ {Key(r.work) : r \in LeaseFor(w, rc)} = {Key(w)}
      BY <1>1, CommittedLease
    <3> QED
      BY <3>1, LiveWithout
  <2> QED
    BY <1>4, <2>1, <2>2, <2>3 DEF Ended
<1>6. Taken' = Taken \cup {Key(w)}
  BY <1>1 DEF Taken
<1>7. /\ Len(lineage') = Len(lineage) + 1 /\ lineage'[Len(lineage) + 1] = c
      /\ \A i \in 1..Len(lineage) : lineage'[i] = lineage[i]
      /\ Len(lineage) \in Nat
  BY <1>1
<1>8. /\ Chained \in Seq(Hashes) /\ Len(Chained) = Len(lineage) /\ c.hash \in Hashes
      /\ \A i \in 1..Len(lineage) : Chained[i] = lineage[i].hash
  <2>1. \A i \in 1..Len(lineage) : lineage[i] \in CheckpointRef
    BY <1>1
  <2>2. \A i \in 1..Len(lineage) : lineage[i].hash \in Hashes
    BY <2>1 DEF CheckpointRef
  <2> QED
    BY <1>7, <2>2 DEF Chained, CheckpointRef
<1>9. Chained' = Append(Chained, c.hash)
  <2>1. /\ Append(Chained, c.hash) \in Seq(Hashes)
        /\ Len(Append(Chained, c.hash)) = Len(lineage) + 1
        /\ \A i \in 1..(Len(lineage) + 1) :
              Append(Chained, c.hash)[i] = IF i = Len(lineage) + 1 THEN c.hash ELSE lineage[i].hash
    BY <1>7, <1>8
  <2>2. Chained' = [i \in 1..(Len(lineage) + 1) |->
                       IF i = Len(lineage) + 1 THEN c.hash ELSE lineage[i].hash]
    BY <1>7 DEF Chained
  <2>3. Append(Chained, c.hash) = [i \in 1..(Len(lineage) + 1) |-> Append(Chained, c.hash)[i]]
    BY <2>1, <1>7
  <2> QED
    BY <2>1, <2>2, <2>3
<1>10. \A i \in 1..Len(Chained) : Chained[i] # c.hash
  <2>1. \A i \in 1..Len(lineage) : lineage[i].hash # c.hash
    BY <1>1, <1>7 DEF IsLineage
  <2> QED
    BY <1>8, <2>1
<1>11. Ledger!Promote(Key(w), c.hash)
  BY <1>4, <1>5, <1>6, <1>9, <1>10 DEF Ledger!Promote, Chained, Live, Ended, Taken
<1> QED
  BY <1>4, <1>8, <1>11

\* fence_expired drops the generations that ran out.
LEMMA FenceExpiredDrops ==
  ASSUME TypeOK, Inv, NEW now \in Time, FenceExpired(now)
  PROVE  \E K \in SUBSET Live : Ledger!Drop(K)
<1> DEFINE E == Expired(now)
           K == {Key(r.work) : r \in E}
<1>1. /\ E # {} /\ E \subseteq active /\ active' = active \ E
      /\ fenced' = fenced \cup {[lease |-> r, reason |-> "lease_expired"] : r \in E}
      /\ UNCHANGED <<lineage, terminals>>
  BY DEF FenceExpired, Expired
<1> HIDE DEF E
<1>2. K # {} /\ K \subseteq Live
  BY <1>1 DEF Live
<1>3. Live' = Live \ K
  BY <1>1, LiveWithout DEF Live
<1>4. Ended' = Ended \cup K
  <2>1. FencedKeys' = FencedKeys \cup K
    BY <1>1, FencedMore
  <2> QED
    BY <1>1, <2>1 DEF Ended, TerminalKeys
<1>5. UNCHANGED <<Chained, Taken>>
  BY <1>1 DEF Chained, Taken
<1>6. Ledger!Drop(K)
  BY <1>2, <1>3, <1>4, <1>5 DEF Ledger!Drop, Chained, Live, Ended, Taken
<1> QED
  BY <1>2, <1>6

\* Moving an expiry is nothing to the ledger.
LEMMA ExtendUnseen ==
  ASSUME TypeOK, NEW r, NEW e, Extend(r, e) PROVE Unseen
<1>1. r \in active /\ [r EXCEPT !.expiry = e].work = r.work
  BY DEF Extend, TypeOK, ActiveRecord
<1>2. Live' = Live
  BY <1>1 DEF Extend, Live
<1> QED
  BY <1>2 DEF Extend, Unseen, Chained, Ended, Taken, TerminalKeys, FencedKeys

\* Every call, every interrupted call and every crash of the controller is a
\* step of the ledger or leaves it alone: callers may reason about the
\* controller as about the ledger.
THEOREM ImplementsLedger == Spec => LedgerSpec
<1>1. Init => Ledger!Init
  BY DEF Init, Ledger!Init, TerminalKeys, FencedKeys
<1>2. ASSUME TypeOK, Inv, [Next]_vars PROVE [Ledger!LNext]_(Ledger!lvars)
  <2>0. ActiveWork \subseteq WorkUnit /\ \A w \in WorkUnit : w.id \in WorkIds /\ w.gen \in Generation
    BY <1>2, KeyTypes DEF ActiveWork
  <2>1. ASSUME NEW w \in WorkUnit, NEW o \in Contributors \cup {None},
               NEW e \in {NoExpiry} \cup Time, IssueNew(w, o, e)
        PROVE  Ledger!LNext
    BY <1>2, <2>0, <2>1, IssueOpens DEF Ledger!LNext
  <2>2. ASSUME NEW r \in active, NEW w \in WorkUnit, NEW o \in Contributors \cup {None},
               NEW e \in {NoExpiry} \cup Time, Reassign(r, w, o, e)
        PROVE  Ledger!LNext
    BY <1>2, <2>0, <2>2, ReassignSupersedes DEF Ledger!LNext, Live
  <2>3. ASSUME NEW w \in WorkUnit, NEW rc \in ContributionReceipt, CommitReceipt(w, rc)
        PROVE  Ledger!LNext
    BY <1>2, <2>3, CommitReceiptAccepts DEF Ledger!LNext, Live
  <2>4. ASSUME NEW w \in WorkUnit, NEW rc \in ContributionReceipt, NEW c \in CheckpointRef,
               CommitCheckpoint(w, rc, c)
        PROVE  Ledger!LNext
    BY <1>2, <2>4, CommitCheckpointPromotes DEF Ledger!LNext, Live
  <2>5. ASSUME NEW now \in Time, FenceExpired(now) PROVE Ledger!LNext
    BY <1>2, <2>5, FenceExpiredDrops DEF Ledger!LNext, Live
  <2>6. ASSUME NEW r \in active, NEW o \in Contributors \cup {None}, NEW e \in Time,
               IssueReplay(r, o, e) \/ Renew(r, e)
        PROVE  UNCHANGED Ledger!lvars
    <3>1. Extend(r, e)
      BY <2>6 DEF IssueReplay, Renew, Extend
    <3> QED
      BY <1>2, <3>1, ExtendUnseen, LedgerStutter
  <2>7. ASSUME UNCHANGED state PROVE UNCHANGED Ledger!lvars
    BY <2>7, LedgerStutter DEF state, Unseen, Chained, Live, Ended, Taken, TerminalKeys,
       FencedKeys
  <2>8. CASE (\E t \in terminals : CommitReplay(t)) \/ Status \/ ProjectCheckpoint
             \/ ProjectReceipt \/ Return \/ Crash \/ UNCHANGED vars
    BY <2>7, <2>8 DEF CommitReplay, Status, ProjectCheckpoint, ProjectReceipt, Return, Crash,
       vars, state
  <2> QED
    BY <1>2, <2>0, <2>1, <2>2, <2>3, <2>4, <2>5, <2>6, <2>8, InitializeBinds DEF Next
<1> QED
  BY <1>1, <1>2, Invariance, PTL DEF Spec, LedgerSpec, Ledger!Spec

-----------------------------------------------------------------------------
(***************************************************************************)
(* The export.  The listed receipts are a subset of the terminals at any   *)
(* later moment; that their outputs are among the listed checkpoints needs *)
(* the order of the listings (receipts first) and that a receipt is only   *)
(* written after every checkpoint.  That the checkpoints listed are the    *)
(* first n of the lineage needs the projections to be written in lineage   *)
(* order, through every crash and across every later commit.               *)
(***************************************************************************)
FirstN(n) == {lineage[i].hash : i \in 1..n}

\* checkpoints/ holds the first n of the lineage.
ProjectedInOrder == \E n \in 0..Len(lineage) : projCkpts = FirstN(n)

\* What an export has listed so far, at each of its two listings.
Listing ==
    \/ exp.todo = Sources
    \/ /\ exp.todo = <<"checkpoints">>
       /\ exp.receipts \subseteq projReceipts
    \/ /\ exp.todo = <<>>
       /\ exp.receipts \subseteq projReceipts
       /\ ExportClosed

XInv == ProjectedInOrder /\ Listing

LEMMA FirstNKept ==
  ASSUME TypeOK, Growth, NEW n \in 0..Len(lineage), lineage' \in Seq(CheckpointRef)
  PROVE  n \in 0..Len(lineage') /\ FirstN(n)' = FirstN(n)
<1>1. /\ Len(lineage) <= Len(lineage') /\ \A i \in 1..Len(lineage) : lineage[i] = lineage'[i]
      /\ lineage \in Seq(CheckpointRef)
  BY DEF Growth, LineageIsPrefix, TypeOK
<1> QED
  BY <1>1 DEF FirstN

\* The projections are written in lineage order, whatever write a crash cut
\* short and whichever call continues it.
LEMMA ProjectedStep ==
  ASSUME TypeOK, TypeOK', Inv, ProjectedInOrder, [Next]_vars
  PROVE  ProjectedInOrder'
<1>1. Growth /\ lineage' \in Seq(CheckpointRef) /\ lineage \in Seq(CheckpointRef)
  BY StepGrowth DEF TypeOK
<1>2. PICK n \in 0..Len(lineage) : projCkpts = FirstN(n)
  BY DEF ProjectedInOrder
<1>3. CASE UNCHANGED projCkpts
  BY <1>1, <1>2, <1>3, FirstNKept DEF ProjectedInOrder
<1>4. CASE ProjectCheckpoint
  <2>1. PICK i \in 1..Len(lineage) :
           /\ lineage[i].hash \notin projCkpts
           /\ \A j \in 1..(i - 1) : lineage[j].hash \in projCkpts
           /\ projCkpts' = projCkpts \cup {lineage[i].hash}
    BY <1>4 DEF ProjectCheckpoint
  <2>2. lineage' = lineage /\ \A j, k \in 1..Len(lineage) : lineage[j].hash = lineage[k].hash => j = k
    BY <1>4, <2>1 DEF ProjectCheckpoint, Inv, Chain, IsLineage
  <2>3. i = n + 1
    <3>1. i > n
      BY <1>1, <1>2, <2>1 DEF FirstN
    <3>2. CASE i > n + 1
      <4>1. n + 1 \in 1..(i - 1) /\ n + 1 \in 1..Len(lineage)
        BY <1>1, <3>2
      <4>2. PICK j \in 1..n : lineage[j].hash = lineage[n + 1].hash
        BY <1>2, <2>1, <4>1 DEF FirstN
      <4>3. j \in 1..Len(lineage) /\ j # n + 1
        BY <1>1
      <4> QED
        BY <2>2, <4>1, <4>2, <4>3
    <3> QED
      BY <1>1, <3>1, <3>2
  <2>4. FirstN(i) = FirstN(n) \cup {lineage[i].hash}
    BY <1>1, <2>3 DEF FirstN
  <2>5. i \in 0..Len(lineage') /\ projCkpts' = FirstN(i)'
    BY <1>2, <2>1, <2>2, <2>4 DEF FirstN
  <2> QED
    BY <2>5 DEF ProjectedInOrder
<1> QED
  BY <1>3, <1>4 DEF Next, Initialize, IssueNew, IssueReplay, Reassign, CommitReceipt,
     CommitCheckpoint, CommitReplay, Renew, FenceExpired, Status, ProjectReceipt, Return,
     Crash, Save, vars, files

\* A step of the controller takes nothing an export has listed away and adds
\* no terminal under a key it has listed.
LEMMA ListingStep ==
  ASSUME TypeOK, TypeOK', Inv, ProjectionsFollowState, Listing, [Next]_vars, UNCHANGED exp
  PROVE  Listing'
<1>1. Growth /\ lineage' \in Seq(CheckpointRef)
  BY StepGrowth DEF TypeOK
<1>2. projReceipts \subseteq projReceipts'
  BY DEF Next, Initialize, IssueNew, IssueReplay, Reassign, CommitReceipt,
     CommitCheckpoint, CommitReplay, Renew, FenceExpired, Status, ProjectCheckpoint,
     ProjectReceipt, Return, Crash, Save, vars, files
<1>3. CASE exp.todo # <<>>
  BY <1>2, <1>3 DEF Listing
<1>4. CASE exp.todo = <<>>
  <2>1. exp.receipts \subseteq projReceipts /\ ExportClosed
    BY <1>4 DEF Listing, Sources
  <2>2. exp.receipts \subseteq TerminalKeys /\ TerminalKeys \subseteq TerminalKeys'
    BY <1>1, <2>1 DEF ProjectionsFollowState, Growth, TerminalKeys
  <2>3. \A t \in terminals' : Key(t.work) \in exp.receipts => t \in terminals
    BY <1>1, <2>2 DEF Growth
  <2>4. \E n \in 0..Len(lineage') : exp.checkpoints = FirstN(n)'
    BY <1>1, <1>4, <2>1, FirstNKept DEF ExportClosed, FirstN
  <2>5. ExportClosed'
    BY <1>4, <2>1, <2>2, <2>3, <2>4 DEF ExportClosed, FirstN
  <2> QED
    BY <1>2, <1>4, <2>1, <2>5 DEF Listing
<1> QED
  BY <1>3, <1>4

\* A listing reads a directory of a controller that is still.
LEMMA DirectoryStep ==
  ASSUME TypeOK, ProjectionsFollowState, XInv, ExportDirectory
  PROVE  XInv'
<1>1. UNCHANGED vars /\ ProjectedInOrder'
  BY DEF ExportDirectory, XInv, ProjectedInOrder, FirstN, vars
<1>2. CASE exp.todo = Sources
  <2>1. exp'.todo = <<"checkpoints">> /\ exp'.receipts = projReceipts
    BY <1>2 DEF ExportDirectory, Sources
  <2> QED
    BY <1>1, <2>1 DEF XInv, Listing, vars
<1>3. CASE exp.todo = <<"checkpoints">> /\ exp.receipts \subseteq projReceipts
  <2>1. exp'.todo = <<>> /\ exp'.receipts = exp.receipts /\ exp'.checkpoints = projCkpts
    BY <1>3 DEF ExportDirectory
  <2>2. ExportClosed'
    BY <1>1, <1>3, <2>1 DEF XInv, ProjectedInOrder, FirstN, ExportClosed, ProjectionsFollowState,
       vars, TerminalKeys
  <2> QED
    BY <1>1, <1>3, <2>1, <2>2 DEF XInv, Listing, vars
<1> QED
  BY <1>2, <1>3 DEF ExportDirectory, XInv, Listing

\* When the report is taken the export is over.
LEMMA OverCloses ==
  ASSUME TypeOK, exp' = Over, ProjectedInOrder', UNCHANGED <<lineage, terminals>>
  PROVE  XInv'
<1>1. exp'.todo = <<>> /\ exp'.receipts = {} /\ exp'.checkpoints = {}
  BY DEF Over, Nothing
<1>2. 0 \in 0..Len(lineage') /\ FirstN(0)' = {}
  BY DEF FirstN, TypeOK
<1>3. ExportClosed'
  BY <1>1, <1>2 DEF ExportClosed, FirstN
<1> QED
  BY <1>1, <1>3 DEF XInv, Listing

\* The exported receipts, checkpoints and report agree, at whatever moments
\* of whatever run of the controller each was taken.
THEOREM ExportHangsTogether == XSpec => []ExportClosed
<1>1. XInit => Init /\ XInv
  BY DEF XInit, XInv, Init, ProjectedInOrder, FirstN, Listing, Nothing
<1>2. ASSUME TypeOK, TypeOK', Inv, ProjectionsFollowState, XInv, [XNext]_<<vars, exp>>
      PROVE  XInv'
  <2>1. CASE [Next]_vars /\ UNCHANGED exp
    BY <1>2, <2>1, ProjectedStep, ListingStep DEF XInv
  <2>2. CASE ExportDirectory
    BY <1>2, <2>2, DirectoryStep
  <2>3. CASE ExportReport
    <3>1. [Next]_vars /\ UNCHANGED <<lineage, terminals>>
      BY <2>3 DEF ExportReport, Next, Status, state
    <3> QED
      BY <1>2, <2>3, <3>1, ProjectedStep, OverCloses DEF ExportReport, XInv
  <2>4. CASE ExportWithoutReport
    <3>1. ProjectedInOrder' /\ UNCHANGED <<lineage, terminals>>
      BY <1>2, <2>4 DEF ExportWithoutReport, XInv, ProjectedInOrder, FirstN, vars
    <3> QED
      BY <1>2, <2>4, <3>1, OverCloses DEF ExportWithoutReport
  <2> QED
    BY <1>2, <2>1, <2>2, <2>3, <2>4 DEF XNext
<1>3. [XNext]_<<vars, exp>> => [Next]_vars
  BY DEF XNext, ExportDirectory, ExportReport, ExportWithoutReport, Next
<1>4. XSpec => Spec
  BY <1>1, <1>3, PTL DEF XSpec, Spec
<1>5. XInv => ExportClosed
  BY DEF XInv, Listing, ExportClosed, Sources
<1> QED
  BY <1>1, <1>2, <1>4, <1>5, Invariance, ProjectionsNeverAhead, PTL DEF XSpec
=============================================================================
