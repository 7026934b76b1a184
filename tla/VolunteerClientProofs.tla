------------------------ MODULE VolunteerClientProofs ------------------------
(***************************************************************************)
(* Safety of the two modules around the Volunteer coordinator, its bridge  *)
(* to the session controller and the training Cells, for any number of     *)
(* Cells, shards, rounds, generations, crashes and faults.                 *)
(*                                                                         *)
(* Both leave the coordinator as it is: every step of theirs is one of the *)
(* coordinator or none, or a lease runs out beyond the bound MaxGen, which *)
(* leaves the campaign alone; so what is proved of it holds here too       *)
(* (BridgeKeepsCoordinator, CellsImplementCampaign).                       *)
(*                                                                         *)
(* The controller follows the coordinator by one request at a time: what   *)
(* it has is Following, what the bridged request still owes it is          *)
(* Requesting, and, as long as no crash cut a request off, Lossless.       *)
(*                                                                         *)
(* The Cells make requests under leases they were granted (Leased).  One   *)
(* request is under way at a time, and what its Cell waits for says what   *)
(* the copy about to be saved has more than the saved campaign (Calling).  *)
(***************************************************************************)
EXTENDS VolunteerBridge, TrainingCell, VolunteerCoordinatorProofs

\* The lineage of version k; the version the controller's lineage ends in.
Chain(k) == [i \in 1..(k + 1) |-> Adapter(i - 1)]
Known    == Len(lineage) - 1

\* The controller has an active lease for g, in the name of its Cell.
Held(g) == \E r \in active : r.work = WorkOf(g) /\ r.owner = g.cell

-----------------------------------------------------------------------------
\* The lineage is the coordinator's, or one version short of it.
Chained == /\ Known \in Nat /\ lineage = Chain(Known)
           /\ Known <= st.version /\ st.version <= Known + 1

\* An active lease is cut from the head and is one that a Cell has.
Leasing ==
    \A r \in active : /\ r.work.base = Known
                      /\ \E g \in delivered : r.work = WorkOf(g) /\ r.owner = g.cell

Delivering == /\ closers \subseteq delivered /\ delivered \subseteq grants
              /\ \A g \in delivered : g.version <= Known
              /\ DeliveredKnown

\* A fenced lease is of an earlier round, or of a generation the coordinator
\* has granted a successor of.
Fencing ==
    \A f \in fenced :
        \/ f.lease.work.base \in Nat /\ f.lease.work.base < Known
        \/ \E h \in grants : f.lease.work.id = <<h.version, h.shard>>
                             /\ f.lease.work.gen < h.gen

Backed ==
    \A t \in terminals :
        \E g \in st.results :
            /\ t.work = WorkOf(g) /\ t.receipt.by = g.cell
            /\ t.receipt.output # NoCell =>
                  t.receipt.output \in 1..Len(st.rounds) /\ g \in st.rounds[t.receipt.output]

\* When the controller is behind, the lease whose commit catches up is there.
Behind ==
    st.version # Known =>
        \E g \in closers : g \in st.results /\ g.version = Known /\ Held(g)

Following == Chained /\ Leasing /\ Delivering /\ Fencing /\ Backed /\ Behind

-----------------------------------------------------------------------------
\* The lease of a bridged claim is granted, or about to be with the save.
Claiming ==
    mirror.kind = "claim" =>
        /\ mirror.grant.version = st.version /\ ~st.complete
        /\ \/ mirror.grant \in grants
           \/ op # Idle /\ ~op.mem.complete /\ mirror.grant \in Leases(op.mem)

\* The update of a bridged submission is accepted, or about to be.
Submitting ==
    mirror.kind = "submit" =>
        /\ mirror.grant \in delivered
        /\ mirror.grant \in st.results \/ (op # Idle /\ mirror.grant \in op.mem.results)

\* A copy that is a version ahead or has a new result is that of a bridged
\* submission whose lease the controller still has.
Unsaved ==
    op # Idle =>
        /\ op.mem.version # st.version =>
              /\ mirror.kind = "submit" /\ mirror.grant \in closers
              /\ mirror.grant.version = st.version /\ st.version = Known
              /\ Held(mirror.grant)
        /\ \/ op.mem.results \subseteq st.results
           \/ /\ mirror.kind = "submit" /\ Held(mirror.grant)
              /\ op.mem.results \subseteq st.results \cup {mirror.grant}
        /\ mirror.kind # "none" => op.todo \notin {<<"event", "raise">>, <<"raise">>}

Requesting == Claiming /\ Submitting /\ Unsaved /\ (~up => op = Idle /\ mirror.kind = "none")

\* Without a crash nothing is lost: no version directory is left over, the
\* round an update closed is over, and every accepted update has its receipt
\* unless it is being mirrored.
NothingLeft == \/ versions \subseteq 0..st.version
               \/ op.todo \in {<<"event", "save">>, <<"save">>}
                  /\ versions \subseteq 0..op.mem.version
ClosersClosed ==
    \A g \in closers : \/ g.version < st.version
                       \/ op # Idle /\ op.mem.version # st.version /\ g.version = st.version
ReceiptsDone ==
    \A g \in st.results :
        \/ TerminalOf(g) # {}
        \/ mirror.kind = "submit" /\ mirror.grant = g /\ Held(g)

Lossless == /\ crashes \in Nat
            /\ crashes = 0 => NothingLeft /\ ClosersClosed /\ ReceiptsDone

BInv == Inv /\ Following /\ Requesting /\ Lossless

-----------------------------------------------------------------------------
\* Lemmas about the lineages.
LEMMA ChainFacts ==
  ASSUME NEW k \in Nat
  PROVE  /\ Chain(k) \in Seq({Adapter(i) : i \in Nat}) /\ Len(Chain(k)) = k + 1
         /\ \A i \in 1..(k + 1) : Chain(k)[i] = Adapter(i - 1)
<1>1. \A i \in 1..(k + 1) : Adapter(i - 1) \in {Adapter(j) : j \in Nat}
  <2> TAKE i \in 1..(k + 1)
  <2>1. i - 1 \in Nat
    OBVIOUS
  <2> QED
    BY <2>1
<1>2. k + 1 \in Nat
  OBVIOUS
<1>3. \A i \in 1..(k + 1) : Chain(k)[i] = Adapter(i - 1)
  BY Zenon DEF Chain
<1>4. Chain(k) = [i \in 1..(k + 1) |-> Chain(k)[i]]
  BY <1>3, Zenon DEF Chain
<1>5. Chain(k) \in Seq({Adapter(i) : i \in Nat})
  <2>1. Chain(k) \in [1..(k + 1) -> {Adapter(i) : i \in Nat}]
    BY <1>1, <1>3, <1>4
  <2> QED
    BY <1>2, <2>1
<1>6. Len(Chain(k)) = k + 1
  BY <1>2, <1>5, <1>4, LenProperties
<1> QED
  BY <1>3, <1>5, <1>6

LEMMA ChainGrows == ASSUME NEW k \in Nat PROVE Append(Chain(k), Adapter(k + 1)) = Chain(k + 1)
<1> DEFINE S == {Adapter(i) : i \in Nat}
<1>1. k + 1 \in Nat
  OBVIOUS
<1>2. /\ Chain(k) \in Seq(S) /\ Len(Chain(k)) = k + 1
      /\ \A i \in 1..(k + 1) : Chain(k)[i] = Adapter(i - 1)
  BY ChainFacts
<1>3. /\ Chain(k + 1) \in Seq(S) /\ Len(Chain(k + 1)) = (k + 1) + 1
      /\ \A i \in 1..((k + 1) + 1) : Chain(k + 1)[i] = Adapter(i - 1)
  BY <1>1, ChainFacts
<1>4. Adapter(k + 1) \in S
  BY <1>1
<1> HIDE DEF S
<1>5. PICK a : a = Append(Chain(k), Adapter(k + 1))
  OBVIOUS
<1>6. /\ a \in Seq(S) /\ Len(a) = Len(Chain(k)) + 1
      /\ \A i \in 1..Len(Chain(k)) : a[i] = Chain(k)[i]
      /\ a[Len(Chain(k)) + 1] = Adapter(k + 1)
  BY <1>2, <1>4, <1>5, AppendProperties
<1>7. Len(a) = Len(Chain(k + 1))
  BY <1>2, <1>3, <1>6
<1>8. ASSUME NEW i \in 1..Len(a) PROVE a[i] = Chain(k + 1)[i]
  <2>1. CASE i \in 1..(k + 1)
    <3>1. a[i] = Adapter(i - 1)
      BY <1>2, <1>6, <2>1
    <3>2. i \in 1..((k + 1) + 1)
      BY <2>1
    <3> QED
      BY <1>3, <3>1, <3>2
  <2>2. CASE i = (k + 1) + 1
    <3>1. i - 1 = k + 1 /\ i \in 1..((k + 1) + 1)
      BY <2>2
    <3>2. a[i] = Adapter(k + 1)
      BY <1>2, <1>6, <2>2
    <3>3. Chain(k + 1)[i] = Adapter(i - 1)
      BY <1>3, <3>1
    <3> QED
      BY <3>1, <3>2, <3>3
  <2>3. i \in 1..(k + 1) \/ i = (k + 1) + 1
    BY <1>2, <1>6
  <2> QED
    BY <2>1, <2>2, <2>3
<1> QED
  BY <1>3, <1>5, <1>6, <1>7, <1>8, SeqEqual

\* What the lineages are to the operations of the bridge.
LEMMA Lineages ==
  ASSUME Chained, st.version \in Nat
  PROVE  /\ RemoteLineage = Chain(st.version) /\ Len(RemoteLineage) = st.version + 1
         /\ Len(lineage) = Known + 1 /\ lineage # <<>>
         /\ Ctl!HeadHash = Known /\ Ctl!LineageHashes = 0..Known
         /\ Ctl!LineageIsPrefix(lineage, RemoteLineage)
         /\ RemoteLineage = lineage => st.version = Known
         /\ st.version = Known => RemoteLineage = lineage
<1>1. RemoteLineage = Chain(st.version)
  BY Zenon DEF RemoteLineage, Chain
<1>2. /\ Len(Chain(st.version)) = st.version + 1
      /\ \A i \in 1..(st.version + 1) : Chain(st.version)[i] = Adapter(i - 1)
  BY ChainFacts
<1>3. /\ Known \in Nat /\ lineage = Chain(Known)
      /\ Known <= st.version /\ st.version <= Known + 1
  BY DEF Chained
<1>4. /\ Len(lineage) = Known + 1 /\ lineage \in Seq({Adapter(i) : i \in Nat})
      /\ \A i \in 1..(Known + 1) : lineage[i] = Adapter(i - 1)
  BY <1>3, ChainFacts
<1>5. lineage # <<>>
  BY <1>3, <1>4
<1>6. \A i \in Nat : Adapter(i).hash = i
  BY DEF Adapter
<1>7. Ctl!HeadHash = Known
  <2>1. Known + 1 \in 1..(Known + 1) /\ (Known + 1) - 1 = Known
    BY <1>3
  <2>2. lineage[Known + 1] = Adapter(Known)
    BY <1>4, <2>1
  <2> QED
    BY <1>3, <1>4, <1>6, <2>2 DEF Ctl!HeadHash
<1>8. Ctl!LineageHashes = 0..Known
  <2>1. \A i \in 1..(Known + 1) : lineage[i].hash = i - 1
    <3> TAKE i \in 1..(Known + 1)
    <3>1. i - 1 \in Nat
      BY <1>3
    <3> QED
      BY <1>4, <1>6, <3>1
  <2>2. ASSUME NEW h \in 0..Known PROVE \E i \in 1..(Known + 1) : lineage[i].hash = h
    <3>1. h + 1 \in 1..(Known + 1) /\ (h + 1) - 1 = h
      BY <1>3, <2>2
    <3> QED
      BY <2>1, <3>1
  <2>3. \A i \in 1..(Known + 1) : lineage[i].hash \in 0..Known
    BY <1>3, <2>1
  <2> QED
    BY <1>4, <2>2, <2>3 DEF Ctl!LineageHashes
<1>9. Ctl!LineageIsPrefix(lineage, RemoteLineage)
  <2>1. Len(lineage) <= Len(RemoteLineage)
    BY <1>1, <1>2, <1>3, <1>4
  <2>2. \A i \in 1..Len(lineage) : lineage[i] = RemoteLineage[i]
    <3> TAKE i \in 1..Len(lineage)
    <3>1. i \in 1..(Known + 1) /\ i \in 1..(st.version + 1)
      BY <1>3, <1>4
    <3> QED
      BY <1>1, <1>2, <1>4, <3>1
  <2> QED
    BY <2>1, <2>2 DEF Ctl!LineageIsPrefix
<1>10. RemoteLineage = lineage => st.version = Known
  BY <1>1, <1>2, <1>3, <1>4
<1>11. st.version = Known => RemoteLineage = lineage
  BY <1>1, <1>3, Zenon
<1> QED
  BY <1>1, <1>2, <1>4, <1>5, <1>7, <1>8, <1>9, <1>10, <1>11

-----------------------------------------------------------------------------
LEMMA SameLease ==
  ASSUME Inv, NEW g \in grants, NEW h \in grants, WorkOf(g) = WorkOf(h)
  PROVE  g = h
<1>1. g.version = h.version /\ g.shard = h.shard /\ g.gen = h.gen
  BY DEF WorkOf
<1>2. g.cell = h.cell
  BY <1>1 DEF Inv, Granting, GenerationsUnique
<1>3. g \in Grant /\ h \in Grant
  BY Saved
<1> QED
  BY <1>1, <1>2, <1>3 DEF Grant

\* Every step of the bridge is a step of the coordinator or none.
LEMMA BridgeStep == ASSUME Inv, Following, [BNext]_allvars PROVE [Next]_vars
<1>1. \A g \in delivered : g \in grants /\ g.cell \in Cells
  BY Saved DEF Following, Delivering
<1>2. ASSUME NEW g \in delivered, BHeartbeat(g) \/ BSubmitAccepted(g) \/ BSubmitRejected(g)
      PROVE  Next
  <2>1. g \in {x \in grants : x.cell = g.cell} /\ g.cell \in Cells
    BY <1>1
  <2> QED
    BY <1>2, <2>1 DEF BHeartbeat, BSubmitAccepted, BSubmitRejected, Next, CellStep
<1>3. ASSUME NEW c \in Cells, BClaimLease(c) \/ BClaimNothing(c) PROVE Next
  BY <1>3 DEF BClaimLease, BClaimNothing, Next, CellStep
<1>4. ASSUME \/ \E g \in delivered : BSubmitReplay(g)
             \/ MirrorClaim \/ MirrorClaimRefused \/ MirrorSubmit \/ MirrorSubmitRefused
             \/ ControllerWrites
      PROVE  UNCHANGED vars
  BY <1>4 DEF BSubmitReplay, MirrorClaim, MirrorClaimRefused, MirrorSubmit,
     MirrorSubmitRefused, ControllerWrites
<1>5. ASSUME Unbridged \/ CoordinatorWrites \/ BRaise \/ BCrash \/ BRecover \/ Time PROVE Next
  BY <1>5 DEF Unbridged, CoordinatorWrites, BRaise, BCrash, BRecover, Time, Next
<1> QED
  BY <1>2, <1>3, <1>4, <1>5 DEF BNext, allvars

\* What the controller has is not touched by what happens at the coordinator
\* before the save.
LEMMA FollowingKept ==
  ASSUME Following, UNCHANGED <<st, grants, lineage, active, terminals, fenced, delivered>>,
         closers \subseteq closers', closers' \subseteq delivered
  PROVE  Following'
<1>1. Known' = Known
  BY DEF Known
<1>2. Chained' /\ Leasing' /\ Fencing' /\ Backed'
  BY <1>1 DEF Following, Chained, Leasing, Fencing, Backed
<1>3. Delivering'
  BY <1>1 DEF Following, Delivering, DeliveredKnown
<1>4. Behind'
  BY <1>1 DEF Following, Behind, Held
<1> QED
  BY <1>2, <1>3, <1>4 DEF Following

-----------------------------------------------------------------------------
LEMMA SaveFollowing ==
  ASSUME Inv, Following, Requesting, Save, UNCHANGED <<cvars, bvars>>
  PROVE  Following'
<1>1. PICK m : m = op.mem
  OBVIOUS
<1>2. /\ Good(st) /\ Good(m) /\ Follows(st, m) /\ st' = m /\ op # Idle
      /\ m.version \in Nat /\ st.version \in Nat
      /\ m.version = st.version \/ m.version = st.version + 1
      /\ st.results \subseteq m.results /\ grants \subseteq grants'
  BY <1>1, SaveFacts
<1>3. UNCHANGED <<lineage, active, terminals, fenced, delivered, closers>> /\ Known' = Known
  BY DEF cvars, bvars, Known
<1>4. m.version # st.version =>
         /\ mirror.kind = "submit" /\ mirror.grant \in closers
         /\ mirror.grant.version = st.version /\ st.version = Known /\ Held(mirror.grant)
  BY <1>1, <1>2 DEF Requesting, Unsaved
<1>5. mirror.kind = "submit" => mirror.grant \in delivered /\ mirror.grant \in m.results
  BY <1>1, <1>2 DEF Requesting, Submitting
<1>6. Known \in Nat /\ Known <= st.version /\ st.version <= Known + 1
  BY DEF Following, Chained
<1>7. Chained'
  BY <1>2, <1>3, <1>4, <1>6 DEF Following, Chained
<1>8. Leasing' /\ Fencing'
  BY <1>2, <1>3 DEF Following, Leasing, Fencing
<1>9. Delivering'
  BY <1>2, <1>3 DEF Following, Delivering, DeliveredKnown
<1>10. Backed'
  <2> SUFFICES ASSUME NEW t \in terminals
               PROVE  \E g \in m.results :
                        /\ t.work = WorkOf(g) /\ t.receipt.by = g.cell
                        /\ t.receipt.output # NoCell =>
                              t.receipt.output \in 1..Len(m.rounds) /\ g \in m.rounds[t.receipt.output]
    BY <1>2, <1>3 DEF Backed
  <2>1. PICK g \in st.results :
          /\ t.work = WorkOf(g) /\ t.receipt.by = g.cell
          /\ t.receipt.output # NoCell =>
                t.receipt.output \in 1..Len(st.rounds) /\ g \in st.rounds[t.receipt.output]
    BY DEF Following, Backed
  <2>2. ASSUME t.receipt.output # NoCell
        PROVE  t.receipt.output \in 1..Len(m.rounds) /\ g \in m.rounds[t.receipt.output]
    <3>1. t.receipt.output \in 1..Len(st.rounds) /\ g \in st.rounds[t.receipt.output]
      BY <2>1, <2>2
    <3>2. PICK n : n = st /\ Good(n) /\ Follows(n, m)
      BY <1>2
    <3>3. PICK i \in 1..Len(n.rounds) : i = t.receipt.output
      BY <3>1, <3>2
    <3>4. i \in 1..Len(m.rounds) /\ m.rounds[i] = n.rounds[i]
      BY <1>2, <3>2, RoundsKept
    <3> QED
      BY <3>1, <3>2, <3>3, <3>4
  <2> QED
    BY <1>2, <2>1, <2>2
<1>11. Behind'
  <2> SUFFICES ASSUME m.version # Known
               PROVE  \E g \in closers : g \in m.results /\ g.version = Known /\ Held(g)
    BY <1>2, <1>3 DEF Behind, Held
  <2>1. CASE m.version = st.version
    BY <1>2, <2>1 DEF Following, Behind
  <2>2. CASE m.version # st.version
    BY <1>4, <1>5, <2>2
  <2> QED
    BY <2>1, <2>2
<1> QED
  BY <1>7, <1>8, <1>9, <1>10, <1>11 DEF Following

LEMMA SaveRequesting ==
  ASSUME Inv, Following, Requesting, Lossless, Save, UNCHANGED <<cvars, bvars>>
  PROVE  Requesting' /\ Lossless'
<1>1. PICK m : m = op.mem
  OBVIOUS
<1>2. /\ st' = m /\ op # Idle /\ op' = Idle
      /\ m.version \in Nat /\ st.version \in Nat
      /\ m.version = st.version \/ m.version = st.version + 1
      /\ m.version = st.version => m.complete = st.complete
      /\ st.results \subseteq m.results
      /\ grants' = grants \cup (IF m.complete THEN {} ELSE Leases(m))
      /\ UNCHANGED <<versions, up, crashes>>
  BY <1>1, SaveFacts
<1>3. UNCHANGED <<active, terminals, closers, mirror, delivered>>
  BY DEF cvars, bvars
<1>4. /\ m.version # st.version => mirror.kind = "submit"
      /\ \/ m.results \subseteq st.results
         \/ /\ mirror.kind = "submit" /\ Held(mirror.grant)
            /\ m.results \subseteq st.results \cup {mirror.grant}
  BY <1>1, <1>2 DEF Requesting, Unsaved
<1>5. Claiming'
  BY <1>1, <1>2, <1>3, <1>4 DEF Requesting, Claiming
<1>6. Submitting'
  BY <1>1, <1>2, <1>3 DEF Requesting, Submitting
<1>7. Requesting'
  BY <1>2, <1>3, <1>5, <1>6 DEF Requesting, Unsaved
<1>8. ASSUME crashes = 0 PROVE (NothingLeft /\ ClosersClosed /\ ReceiptsDone)'
  <2>1. NothingLeft /\ ClosersClosed /\ ReceiptsDone
    BY <1>8 DEF Lossless
  <2>2. NothingLeft'
    BY <1>1, <1>2, <2>1 DEF NothingLeft
  <2>3. ClosersClosed'
    <3>1. \A g \in closers : g.version \in Nat
      BY Saved DEF Following, Delivering
    <3> SUFFICES ASSUME NEW g \in closers PROVE g.version < m.version
      BY <1>2, <1>3 DEF ClosersClosed
    <3>2. \/ g.version < st.version
          \/ m.version # st.version /\ g.version = st.version
      BY <1>1, <2>1 DEF ClosersClosed
    <3>3. CASE m.version = st.version
      BY <3>2, <3>3
    <3>4. CASE m.version # st.version /\ g.version = st.version
      BY <1>2, <3>4
    <3>5. CASE m.version = st.version + 1 /\ g.version < st.version
      BY <1>2, <3>1, <3>5
    <3> QED
      BY <1>2, <3>2, <3>3, <3>4, <3>5
  <2>4. ReceiptsDone'
    <3> SUFFICES ASSUME NEW g \in m.results
                 PROVE  \/ TerminalOf(g) # {}
                        \/ mirror.kind = "submit" /\ mirror.grant = g /\ Held(g)
      BY <1>2, <1>3 DEF ReceiptsDone, TerminalOf, Held
    <3> QED
      BY <1>4, <2>1 DEF ReceiptsDone
  <2> QED
    BY <2>2, <2>3, <2>4
<1> QED
  BY <1>2, <1>7, <1>8 DEF Lossless

-----------------------------------------------------------------------------
\* An operation begins that neither accepts an update nor ends a round: its
\* request is bridged as a claim, or the bridge leaves it alone.
LEMMA BeginQuiet ==
  ASSUME Inv, Following, Requesting, Lossless, op = Idle, up' = TRUE,
         NEW m, NEW t, NEW f, Begin(m, t, f),
         t \in {<<"save">>, <<"event", "save">>, <<"event", "raise">>},
         m.version = st.version, m.complete = st.complete, m.results = st.results,
         UNCHANGED <<cvars, delivered, closers>>,
         \/ mirror' = mirror /\ (mirror.kind # "none" => t # <<"event", "raise">>)
         \/ /\ mirror.kind = "none" /\ t # <<"event", "raise">> /\ ~m.complete
            /\ \E g \in Leases(m) : mirror' = [kind |-> "claim", grant |-> g]
  PROVE  Following' /\ Requesting' /\ Lossless'
<1>1. /\ op'.mem = m /\ op'.todo = t /\ op' # Idle
      /\ UNCHANGED <<st, grants, versions, crashes>>
      /\ UNCHANGED <<lineage, active, terminals, fenced, delivered, closers>>
  <2>1. op'.mem = m /\ op'.todo = t /\ UNCHANGED <<st, grants, versions, crashes>>
    BY DEF Begin
  <2>2. t # <<>>
    BY OwedWrites
  <2> QED
    BY <2>1, <2>2, IdleOp DEF cvars
<1>2. Following'
  <2>1. closers \subseteq closers' /\ closers' \subseteq delivered
    BY <1>1 DEF Following, Delivering
  <2> QED
    BY <1>1, <2>1, FollowingKept
<1>3. /\ mirror'.kind = "claim" =>
           /\ mirror'.grant.version = st.version /\ ~st.complete
           /\ mirror'.grant \in grants \/ (~m.complete /\ mirror'.grant \in Leases(m))
      /\ mirror'.kind = "submit" => mirror' = mirror
      /\ mirror'.kind # "none" => t # <<"event", "raise">>
  <2>1. CASE mirror' = mirror /\ (mirror.kind # "none" => t # <<"event", "raise">>)
    BY <2>1 DEF Requesting, Claiming
  <2>2. CASE /\ mirror.kind = "none" /\ t # <<"event", "raise">> /\ ~m.complete
             /\ \E g \in Leases(m) : mirror' = [kind |-> "claim", grant |-> g]
    BY <2>2 DEF Leases
  <2> QED
    BY <2>1, <2>2
<1>4. Claiming' /\ Submitting'
  BY <1>1, <1>3 DEF Claiming, Submitting, Requesting
<1>5. Unsaved'
  <2>1. t \in {<<"save">>, <<"event", "save">>, <<"event", "raise">>} /\ t # <<"event", "raise">>
        => t \notin {<<"event", "raise">>, <<"raise">>}
    OBVIOUS
  <2> QED
    BY <1>1, <1>3, <2>1 DEF Unsaved
<1>6. Requesting'
  BY <1>4, <1>5 DEF Requesting
<1>7. ASSUME crashes = 0 PROVE (NothingLeft /\ ClosersClosed /\ ReceiptsDone)'
  <2>1. NothingLeft /\ ClosersClosed /\ ReceiptsDone
    BY <1>7 DEF Lossless
  <2>2. versions \subseteq 0..st.version
    BY <2>1, IdleOp DEF NothingLeft
  <2>3. (mirror'.kind = mirror.kind /\ mirror'.grant = mirror.grant) \/ mirror.kind # "submit"
    OBVIOUS
  <2>4. ReceiptsDone'
    BY <1>1, <2>1, <2>3 DEF ReceiptsDone, TerminalOf, Held
  <2> QED
    BY <1>1, <2>1, <2>2, <2>4 DEF NothingLeft, ClosersClosed
<1> QED
  BY <1>1, <1>2, <1>6, <1>7 DEF Lossless

LEMMA ClaimSteps ==
  ASSUME Inv, Following, Requesting, Lossless, NEW c \in Cells,
         BClaimLease(c) \/ BClaimNothing(c)
  PROVE  Following' /\ Requesting' /\ Lossless'
<1>1. PICK n : n = ExpireLeasesIn(st) /\ Requeued(st, n)
  BY ExpiryGood
<1>2. /\ n.version = st.version /\ n.complete = st.complete /\ n.results = st.results
      /\ \A b \in BOOLEAN : WithEvent(b) \in {<<"save">>, <<"event", "save">>}
  BY <1>1, Expiry
<1>3. mirror = NoMirror => mirror.kind = "none"
  BY DEF NoMirror
<1>4. CASE BClaimLease(c)
  <2>1. /\ op = Idle /\ up' = TRUE /\ mirror = NoMirror /\ UNCHANGED <<cvars, delivered, closers>>
        /\ Claimable(n, c)
        /\ \E s \in Queued(n) :
              Begin([n EXCEPT !.work[s] = [state |-> "leased", gen |-> @.gen + 1, cell |-> c]],
                    EventSaves, {s})
        /\ \E g \in Leases(op'.mem) : mirror' = [kind |-> "claim", grant |-> g]
    BY <1>1, <1>4 DEF BClaimLease, ClaimLease, Guard, Ready, Inv
  <2>2. PICK s, k : /\ k = [n EXCEPT !.work[s] = [state |-> "leased", gen |-> @.gen + 1, cell |-> c]]
                    /\ Begin(k, EventSaves, {s})
    BY <2>1
  <2>3. k.version = n.version /\ k.complete = n.complete /\ k.results = n.results
    <3>1. n \in CampaignState
      BY <1>1 DEF Requeued
    <3>2. PICK w : w = [n.work EXCEPT ![s] = [state |-> "leased", gen |-> n.work[s].gen + 1, cell |-> c]]
      OBVIOUS
    <3>3. k = [n EXCEPT !.work = w]
      BY <2>2, <3>2, Zenon
    <3> QED
      BY <3>1, <3>3 DEF CampaignState
  <2>4. ~k.complete /\ op'.mem = k
    BY <2>1, <2>2, <2>3 DEF Claimable, Begin
  <2>5. \E g \in Leases(k) : mirror' = [kind |-> "claim", grant |-> g]
    BY <2>1, <2>4
  <2>6. EventSaves # <<"event", "raise">>
        /\ EventSaves \in {<<"save">>, <<"event", "save">>, <<"event", "raise">>}
    BY DEF EventSaves
  <2> QED
    BY <1>2, <1>3, <2>1, <2>2, <2>3, <2>4, <2>5, <2>6, BeginQuiet
<1>5. CASE BClaimNothing(c)
  <2>1. /\ op = Idle /\ up' = TRUE /\ mirror = NoMirror /\ UNCHANGED <<cvars, delivered, closers>>
        /\ Begin(n, WithEvent(ExpiredIn(st) # {}), {}) /\ op'.mem = n
    BY <1>1, <1>5 DEF BClaimNothing, ClaimNothing, Guard, Ready, Begin, Inv
  <2>2. PICK t : t = WithEvent(ExpiredIn(st) # {}) /\ t \in {<<"save">>, <<"event", "save">>}
    BY <1>2
  <2>3. \/ mirror' = NoMirror
        \/ ~n.complete /\ \E g \in Leases(n) : mirror' = [kind |-> "claim", grant |-> g]
    <3>1. PICK own : own = IF n.complete THEN {} ELSE {g \in Leases(n) : g.cell = c}
      OBVIOUS
    <3>2. mirror' \in IF own = {} THEN {NoMirror}
                      ELSE {[kind |-> "claim", grant |-> g] : g \in own}
      BY <1>5, <2>1, <3>1 DEF BClaimNothing
    <3> QED
      BY <3>1, <3>2
  <2>4. t \in {<<"save">>, <<"event", "save">>, <<"event", "raise">>} /\ t # <<"event", "raise">>
    BY <2>2
  <2> QED
    BY <1>2, <1>3, <2>1, <2>2, <2>3, <2>4, BeginQuiet
<1> QED
  BY <1>4, <1>5

\* The requests that the bridge lets through as they are, and the operations
\* that begin beside it.
LEMMA PlainSteps ==
  ASSUME Inv, Following, Requesting, Lossless,
         \/ \E g \in delivered : BHeartbeat(g) \/ BSubmitRejected(g)
         \/ Unbridged \/ BRecover
  PROVE  Following' /\ Requesting' /\ Lossless'
<1>1. PICK n : n = ExpireLeasesIn(st)
  OBVIOUS
<1>2. /\ n.version = st.version /\ n.complete = st.complete /\ n.results = st.results
      /\ \A b \in BOOLEAN : WithEvent(b) \in {<<"save">>, <<"event", "save">>}
  BY <1>1, Expiry
<1>3. mirror = NoMirror => mirror.kind = "none"
  BY DEF NoMirror
<1>4. EventSaves # <<"event", "raise">> /\ <<"save">> # <<"event", "raise">>
      /\ EventSaves \in {<<"save">>, <<"event", "save">>, <<"event", "raise">>}
  BY DEF EventSaves
<1>5. ASSUME NEW g \in delivered, BHeartbeat(g) \/ BSubmitRejected(g)
      PROVE  Following' /\ Requesting' /\ Lossless'
  <2>1. /\ op = Idle /\ up' = TRUE /\ mirror.kind = "none" /\ mirror' = mirror
        /\ UNCHANGED <<cvars, delivered, closers>>
    BY <1>3, <1>5 DEF BHeartbeat, Heartbeat, LateHeartbeat, BSubmitRejected, SubmitRejected,
       Guard, Ready, bvars, Inv
  <2>2. \E f : \E t \in {<<"save">>, <<"event", "save">>, <<"event", "raise">>} : Begin(n, t, f)
    BY <1>1, <1>4, <1>5 DEF BHeartbeat, Heartbeat, LateHeartbeat, BSubmitRejected, SubmitRejected
  <2> QED
    BY <1>2, <2>1, <2>2, BeginQuiet
<1>6. ASSUME Unbridged PROVE Following' /\ Requesting' /\ Lossless'
  <2>1. /\ op = Idle /\ up' = TRUE /\ mirror' = mirror /\ UNCHANGED <<cvars, delivered, closers>>
        /\ Begin(n, WithEvent(ExpiredIn(st) # {}), {})
    BY <1>1, <1>6 DEF Unbridged, ExpireLeases, Ready, bvars, Inv
  <2>2. PICK t : t = WithEvent(ExpiredIn(st) # {}) /\ t \in {<<"save">>, <<"event", "save">>}
    BY <1>2
  <2>3. t \in {<<"save">>, <<"event", "save">>, <<"event", "raise">>} /\ t # <<"event", "raise">>
    BY <1>4, <2>2 DEF EventSaves
  <2> QED
    BY <1>2, <2>1, <2>2, <2>3, BeginQuiet
<1>7. ASSUME BRecover PROVE Following' /\ Requesting' /\ Lossless'
  <2>1. /\ op = Idle /\ up' = TRUE /\ mirror' = mirror /\ UNCHANGED <<cvars, delivered, closers>>
        /\ Begin(st, EventSaves, {})
    BY <1>7 DEF BRecover, Recover, Requesting, bvars
  <2>2. PICK m : m = st
    OBVIOUS
  <2>3. Begin(m, EventSaves, {}) /\ m.version = st.version /\ m.complete = st.complete
        /\ m.results = st.results
    BY <2>1, <2>2
  <2> QED
    BY <1>4, <2>1, <2>3, BeginQuiet
<1> QED
  BY <1>5, <1>6, <1>7

-----------------------------------------------------------------------------
\* The audit event and the version directory.
LEMMA WriteSteps ==
  ASSUME Inv, Following, Requesting, Lossless, WriteEvent \/ WriteVersion,
         UNCHANGED <<cvars, bvars>>
  PROVE  Following' /\ Requesting' /\ Lossless'
<1>1. /\ op.todo # <<>> /\ op # Idle /\ UNCHANGED <<st, grants, up, crashes>>
      /\ UNCHANGED <<lineage, active, terminals, fenced, mirror, delivered, closers>>
  BY IdleOp DEF WriteEvent, WriteVersion, Next1, cvars, bvars
<1>2. IsOp(op) /\ Owing /\ Follows(st, op.mem)
  BY <1>1, TodoCases
<1>3. op'.mem = op.mem /\ op'.todo = Tail(op.todo)
  BY <1>2 DEF IsOp, WriteEvent, WriteVersion
<1>4. \/ /\ WriteEvent /\ versions' = versions
         /\ \/ op.todo = <<"event", "save">> /\ op'.todo = <<"save">>
            \/ /\ op.todo = <<"event", "version", "event", "save">>
               /\ op'.todo = <<"version", "event", "save">>
            \/ op.todo = <<"event", "raise">> /\ op'.todo = <<"raise">>
      \/ /\ WriteVersion /\ versions' = versions \cup {op.mem.version}
         /\ op.todo = <<"version", "event", "save">> /\ op'.todo = <<"event", "save">>
  <2>1. CASE WriteEvent
    <3>1. Head(op.todo) = "event" /\ versions' = versions
      BY <2>1 DEF WriteEvent, Next1
    <3> QED
      BY <1>2, <1>3, <2>1, <3>1, Heads, Tails, Zenon
  <2>2. CASE WriteVersion
    <3>1. Head(op.todo) = "version" /\ versions' = versions \cup {op.mem.version}
      BY <2>2 DEF WriteVersion, Next1
    <3> QED
      BY <1>2, <1>3, <2>2, <3>1, Heads, Tails, Zenon
  <2> QED
    BY <2>1, <2>2
<1>5. /\ op' # Idle
      /\ op'.todo \in {<<"event", "raise">>, <<"raise">>} => op.todo \in {<<"event", "raise">>, <<"raise">>}
  <2>1. op'.todo # <<>> /\ (op'.todo = <<"raise">> => op.todo = <<"event", "raise">>)
        /\ op'.todo # <<"event", "raise">>
    BY <1>4, WrittenTodo
  <2> QED
    BY <2>1, IdleOp
<1>6. Following'
  BY <1>1, FollowingKept DEF Following, Delivering
<1>7. Requesting'
  <2>1. Claiming' /\ Submitting'
    BY <1>1, <1>3, <1>5 DEF Requesting, Claiming, Submitting
  <2>2. Unsaved'
    BY <1>1, <1>3, <1>5 DEF Requesting, Unsaved, Held, Known
  <2> QED
    BY <1>1, <2>1, <2>2 DEF Requesting
<1>8. ASSUME crashes = 0 PROVE (NothingLeft /\ ClosersClosed /\ ReceiptsDone)'
  <2>1. NothingLeft /\ ClosersClosed /\ ReceiptsDone
    BY <1>8 DEF Lossless
  <2>2. NothingLeft'
    <3>1. CASE versions' = versions
      BY <1>1, <1>3, <1>4, <2>1, <3>1 DEF NothingLeft
    <3>2. CASE WriteVersion /\ versions' = versions \cup {op.mem.version}
      <4>1. op.todo = <<"version", "event", "save">> /\ op'.todo = <<"event", "save">>
        BY <3>2, <1>4 DEF WriteEvent, WriteVersion, Next1
      <4>2. op.mem.version = st.version + 1 /\ st.version \in Nat
        BY <1>2, <4>1, Saved DEF Owing
      <4>3. versions \subseteq 0..st.version
        BY <2>1, <4>1 DEF NothingLeft
      <4>4. versions' \subseteq 0..op'.mem.version
        <5>1. PICK w : w = op.mem.version
          OBVIOUS
        <5>2. versions' = versions \cup {w} /\ op'.mem.version = w
              /\ w = st.version + 1 /\ st.version \in Nat
          BY <1>3, <3>2, <4>2, <5>1
        <5>3. PICK v \in Nat : v = st.version
          BY <5>2
        <5>4. w = v + 1 /\ versions \subseteq 0..v
          BY <4>3, <5>2, <5>3
        <5>5. versions \cup {w} \subseteq 0..w
          <6>1. \A i \in 0..v : i \in 0..w
            BY <5>3, <5>4
          <6>2. w \in 0..w
            BY <5>3, <5>4
          <6> QED
            BY <5>4, <6>1, <6>2, Zenon
        <5> QED
          BY <5>2, <5>5
      <4> QED
        BY <4>1, <4>4 DEF NothingLeft
    <3> QED
      BY <1>4, <3>1, <3>2
  <2>3. ClosersClosed' /\ ReceiptsDone'
    BY <1>1, <1>3, <1>5, <2>1 DEF ClosersClosed, ReceiptsDone, TerminalOf, Held
  <2> QED
    BY <2>2, <2>3
<1> QED
  BY <1>1, <1>6, <1>7, <1>8 DEF Lossless

-----------------------------------------------------------------------------
\* An exception, a crash: what was owed is dropped, and what was to be
\* mirrored with it.
LEMMA RaiseSteps ==
  ASSUME Inv, Following, Requesting, Lossless, BRaise
  PROVE  Following' /\ Requesting' /\ Lossless'
<1>1. /\ op' = Idle /\ mirror' = NoMirror /\ mirror'.kind = "none"
      /\ UNCHANGED <<st, grants, versions, up, crashes>>
      /\ UNCHANGED <<lineage, active, terminals, fenced, delivered, closers>>
  BY DEF BRaise, Raise, NoMirror, cvars
<1>2. Following'
  BY <1>1, FollowingKept DEF Following, Delivering
<1>3. Requesting'
  BY <1>1 DEF Requesting, Claiming, Submitting, Unsaved
<1>4. ASSUME crashes = 0 PROVE (NothingLeft /\ ClosersClosed /\ ReceiptsDone)'
  <2>1. NothingLeft /\ ClosersClosed /\ ReceiptsDone
    BY <1>4 DEF Lossless
  <2>2. op.todo # <<>> /\ op # Idle
        /\ \/ Head(op.todo) = "raise"
           \/ Head(op.todo) = "version" /\ op.mem.version \in versions
    BY IdleOp DEF BRaise, Raise, Next1
  <2>3. Owing
    BY <2>2, TodoCases
  <2>4. op.todo = <<"raise">>
    <3>1. CASE Head(op.todo) = "version" /\ op.mem.version \in versions
      <4>1. op.todo = <<"version", "event", "save">>
        BY <2>3, <3>1, Heads
      <4>2. op.mem.version = st.version + 1 /\ st.version \in Nat
        BY <2>3, <4>1, Saved DEF Owing
      <4>3. versions \subseteq 0..st.version
        BY <2>1, <4>1 DEF NothingLeft
      <4> QED
        BY <3>1, <4>2, <4>3
    <3>2. CASE Head(op.todo) = "raise"
      <4>1. op.todo \in {<<"save">>, <<"event", "save">>, <<"event", "version", "event", "save">>,
                        <<"version", "event", "save">>, <<"event", "raise">>, <<"raise">>}
        BY <2>3 DEF Owing
      <4> QED
        BY <3>2, <4>1
    <3> QED
      BY <2>2, <3>1, <3>2
  <2>5. mirror.kind # "submit" /\ op.mem.version = st.version
    BY <2>2, <2>4 DEF Requesting, Unsaved
  <2>6. versions \subseteq 0..st.version
    BY <2>1, <2>4 DEF NothingLeft
  <2> QED
    BY <1>1, <2>1, <2>5, <2>6 DEF NothingLeft, ClosersClosed, ReceiptsDone, TerminalOf
<1> QED
  BY <1>1, <1>2, <1>3, <1>4 DEF Lossless

LEMMA CrashSteps ==
  ASSUME Following, Requesting, Lossless, BCrash
  PROVE  Following' /\ Requesting' /\ Lossless'
<1>1. /\ op' = Idle /\ mirror' = NoMirror /\ mirror'.kind = "none" /\ crashes' = crashes + 1
      /\ UNCHANGED <<st, grants>>
      /\ UNCHANGED <<lineage, active, terminals, fenced, delivered, closers>>
  BY DEF BCrash, Crash, NoMirror
<1>2. Following'
  BY <1>1, FollowingKept DEF Following, Delivering
<1>3. Requesting'
  BY <1>1 DEF Requesting, Claiming, Submitting, Unsaved
<1> QED
  BY <1>1, <1>2, <1>3 DEF Lossless

\* The clock, the projections of the controller, and an answer given again.
LEMMA RestSteps ==
  ASSUME Inv, Following, Requesting, Lossless,
         \/ Time \/ ControllerWrites \/ UNCHANGED allvars
         \/ \E g \in delivered : BSubmitReplay(g)
  PROVE  Following' /\ Requesting' /\ Lossless'
<1>1. /\ UNCHANGED <<st, op, grants, versions, up, crashes>>
      /\ UNCHANGED <<lineage, active, terminals, fenced, delivered, closers>>
  BY DEF Time, LeaseRunsOut, ControllerWrites, BSubmitReplay, allvars, vars, cvars, bvars
<1>2. Following'
  BY <1>1, FollowingKept DEF Following, Delivering
<1>3. CASE mirror' = mirror
  BY <1>1, <1>2, <1>3 DEF Requesting, Claiming, Submitting, Unsaved, Held, Known,
     Lossless, NothingLeft, ClosersClosed, ReceiptsDone, TerminalOf
<1>4. ASSUME NEW g \in delivered, BSubmitReplay(g) PROVE Requesting' /\ Lossless'
  <2>1. /\ mirror.kind = "none" /\ op = Idle /\ up /\ g \in st.results
        /\ mirror'.kind = "submit" /\ mirror'.grant = g
    BY <1>4 DEF BSubmitReplay, Guard, NoMirror, Ready
  <2>2. Requesting'
    BY <1>1, <2>1 DEF Requesting, Claiming, Submitting, Unsaved
  <2>3. Lossless'
    BY <1>1, <2>1 DEF Lossless, NothingLeft, ClosersClosed, ReceiptsDone, TerminalOf
  <2> QED
    BY <2>2, <2>3
<1>5. mirror' = mirror \/ \E g \in delivered : BSubmitReplay(g)
  BY DEF Time, ControllerWrites, allvars, bvars
<1> QED
  BY <1>2, <1>3, <1>4, <1>5

-----------------------------------------------------------------------------
\* The coordinator accepts an update: the controller still has its lease.
LEMMA HeldAtSubmit ==
  ASSUME Inv, Following, NEW g \in delivered, Holds(ExpireLeasesIn(st), g)
  PROVE  Held(g) /\ g.version = st.version /\ st.version = Known
<1>1. PICK n : n = ExpireLeasesIn(st) /\ Requeued(st, n)
  BY ExpiryGood
<1>2. g \in grants /\ g \in Grant /\ g.version <= Known /\ g.shard \in Shards /\ g.gen \in Nat
  BY Saved DEF Following, Delivering
<1>3. /\ g.version = st.version /\ ~st.complete
      /\ n.work[g.shard] = [state |-> "leased", gen |-> g.gen, cell |-> g.cell]
  BY <1>1 DEF Holds, Requeued
<1>4. st.version = Known
  BY <1>2, <1>3, Saved DEF Following, Chained
<1>5. st.work[g.shard].state = "leased" /\ st.work[g.shard].gen = g.gen
  BY <1>1, <1>2, <1>3 DEF Requeued
<1>6. PICK w \in {r.work : r \in active} \cup {t.work : t \in terminals}
                 \cup {f.lease.work : f \in fenced} : w = WorkOf(g)
  BY DEF Following, Delivering, DeliveredKnown
<1>7. ASSUME NEW t \in terminals, t.work = WorkOf(g) PROVE FALSE
  <2>1. PICK h \in st.results : WorkOf(h) = WorkOf(g)
    BY <1>7 DEF Following, Backed
  <2>2. h.version = g.version /\ h.shard = g.shard
    BY <2>1 DEF WorkOf
  <2>3. h \in RoundResults(st)
    BY <1>3, <2>2 DEF RoundResults
  <2>4. InRound(st)
    BY <1>3 DEF Inv, Good, Sound
  <2>5. st.work[h.shard] = [state |-> "accepted", gen |-> h.gen, cell |-> h.cell]
    BY <2>3, <2>4 DEF InRound
  <2> QED
    BY <1>5, <2>2, <2>5
<1>8. ASSUME NEW f \in fenced, f.lease.work = WorkOf(g) PROVE FALSE
  <2>1. /\ f.lease.work.base = g.version /\ f.lease.work.gen = g.gen
        /\ f.lease.work.id = <<g.version, g.shard>>
    BY <1>8 DEF WorkOf
  <2>2. CASE f.lease.work.base \in Nat /\ f.lease.work.base < Known
    BY <1>2, <1>3, <1>4, <2>1, <2>2, Saved
  <2>3. ASSUME NEW h \in grants, f.lease.work.id = <<h.version, h.shard>>, f.lease.work.gen < h.gen
        PROVE  FALSE
    <3>1. h.version = st.version /\ h.shard = g.shard
      BY <1>3, <2>1, <2>3
    <3>2. h.gen <= st.work[h.shard].gen
      BY <1>3, <3>1 DEF Inv, Granting
    <3>3. h.gen \in Nat
      BY Saved
    <3> QED
      BY <1>2, <1>5, <2>1, <2>3, <3>1, <3>2, <3>3
  <2> QED
    BY <2>2, <2>3 DEF Following, Fencing
<1>9. PICK r \in active : r.work = WorkOf(g)
  BY <1>6, <1>7, <1>8
<1>10. PICK h \in delivered : r.work = WorkOf(h) /\ r.owner = h.cell
  BY DEF Following, Leasing
<1>11. h = g
  BY <1>2, <1>9, <1>10, SameLease DEF Following, Delivering
<1> QED
  BY <1>3, <1>4, <1>9, <1>10, <1>11 DEF Held

LEMMA SubmitSteps ==
  ASSUME Inv, Following, Requesting, Lossless, NEW g \in delivered, BSubmitAccepted(g)
  PROVE  Following' /\ Requesting' /\ Lossless'
<1>1. PICK m, t : m = op'.mem /\ t = op'.todo
  OBVIOUS
<1>2. g \in grants
  BY DEF Following, Delivering
<1>3. /\ Holds(ExpireLeasesIn(st), g) /\ op = Idle /\ up /\ up' = up
      /\ UNCHANGED <<st, grants, versions, crashes>>
      /\ m.results = st.results \cup {g}
      /\ m.version = st.version \/ m.version = st.version + 1
      /\ t \in {<<"event", "save">>, <<"event", "version", "event", "save">>}
  BY <1>1, <1>2, SubmitFacts DEF BSubmitAccepted
<1>4. Held(g) /\ g.version = st.version /\ st.version = Known /\ st.version \in Nat
  BY <1>3, HeldAtSubmit, Saved
<1>5. /\ mirror.kind = "none" /\ mirror'.kind = "submit" /\ mirror'.grant = g
      /\ closers' = closers \cup (IF m.version # st.version THEN {g} ELSE {})
      /\ UNCHANGED <<lineage, active, terminals, fenced, delivered>>
  BY <1>1 DEF BSubmitAccepted, Guard, NoMirror, cvars
<1>6. /\ op' # Idle /\ t \notin {<<"event", "raise">>, <<"raise">>}
  <2>1. t # <<>> /\ t \notin {<<"event", "raise">>, <<"raise">>}
    BY <1>3
  <2> QED
    BY <1>1, <2>1, IdleOp
<1>7. Following'
  <2>1. closers \subseteq closers' /\ closers' \subseteq delivered
    BY <1>5 DEF Following, Delivering
  <2> QED
    BY <1>3, <1>5, <2>1, FollowingKept
<1>8. Held(g)' /\ Known' = Known
  BY <1>4, <1>5 DEF Held, Known
<1>9. Requesting'
  <2>1. Claiming'
    BY <1>5 DEF Claiming
  <2>2. Submitting'
    BY <1>1, <1>3, <1>5, <1>6 DEF Submitting
  <2>3. Unsaved'
    BY <1>1, <1>3, <1>4, <1>5, <1>6, <1>8 DEF Unsaved
  <2> QED
    BY <1>3, <2>1, <2>2, <2>3 DEF Requesting
<1>10. ASSUME crashes = 0 PROVE (NothingLeft /\ ClosersClosed /\ ReceiptsDone)'
  <2>1. NothingLeft /\ ClosersClosed /\ ReceiptsDone
    BY <1>10 DEF Lossless
  <2>2. NothingLeft'
    BY <1>3, <2>1, IdleOp DEF NothingLeft
  <2>3. ClosersClosed'
    BY <1>1, <1>3, <1>4, <1>5, <1>6, <2>1 DEF ClosersClosed
  <2>4. ReceiptsDone'
    BY <1>3, <1>5, <2>1 DEF ReceiptsDone, TerminalOf
  <2> QED
    BY <2>2, <2>3, <2>4
<1> QED
  BY <1>3, <1>7, <1>9, <1>10 DEF Lossless

-----------------------------------------------------------------------------
\* The answer is mirrored: the coordinator is left alone, so only what the
\* controller has is to be looked at.
LEMMA MirrorDone ==
  ASSUME Requesting, Lossless, op = Idle, UNCHANGED <<vars, closers>>, mirror' = NoMirror,
         crashes = 0 => \A g \in st.results : TerminalOf(g)' # {}
  PROVE  Requesting' /\ Lossless'
<1>1. mirror'.kind = "none" /\ UNCHANGED <<st, op, versions, up, crashes, closers>>
  BY DEF NoMirror, vars
<1>2. Requesting'
  BY <1>1 DEF Requesting, Claiming, Submitting, Unsaved
<1>3. Lossless'
  BY <1>1 DEF Lossless, NothingLeft, ClosersClosed, ReceiptsDone
<1> QED
  BY <1>2, <1>3

\* The controller grants the lease of a claim.
LEMMA MirrorClaimSteps ==
  ASSUME Inv, Following, Requesting, Lossless, MirrorClaim
  PROVE  Following' /\ Requesting' /\ Lossless'
<1>1. PICK g : g = mirror.grant
  OBVIOUS
<1>2. PICK rec : rec = [work |-> WorkOf(g), owner |-> g.cell, expiry |-> 1]
  OBVIOUS
<1>3. /\ mirror.kind = "claim" /\ op = Idle /\ BaseKnown(g)
      /\ delivered' = delivered \cup {g} /\ mirror' = NoMirror /\ UNCHANGED <<vars, closers>>
  BY <1>1 DEF MirrorClaim, Answered, Ready
<1>4. UNCHANGED <<st, grants, crashes>>
  BY <1>3 DEF vars
<1>5. g \in grants /\ g \in Grant /\ g.version = st.version /\ g.gen \in Nat
  BY <1>1, <1>3, Saved DEF Requesting, Claiming
<1>6. st.version = Known
  BY <1>3, <1>5, Lineages, Saved DEF BaseKnown, Following, Chained
<1>7. /\ UNCHANGED <<lineage, terminals>>
      /\ \/ active' = active \cup {rec} /\ fenced' = fenced
         \/ /\ active' = active /\ fenced' = fenced
            /\ \E r \in active : r.work = WorkOf(g) /\ r.owner = g.cell
         \/ \E r \in active :
               /\ active' = (active \ {r}) \cup {rec}
               /\ fenced' = fenced \cup {[lease |-> r, reason |-> "generation_reassigned"]}
               /\ r.work.id = WorkOf(g).id /\ WorkOf(g).gen = r.work.gen + 1
  <2>1. CASE Ctl!IssueNew(WorkOf(g), g.cell, 1)
    BY <1>2, <2>1 DEF Ctl!IssueNew
  <2>2. CASE Replayed(g) # {} /\ UNCHANGED cvars
    BY <2>2 DEF Replayed, cvars, Ctl!ActiveOf
  <2>3. ASSUME NEW r \in active, Ctl!Reassign(r, WorkOf(g), g.cell, 1)
        PROVE  /\ UNCHANGED <<lineage, terminals>>
               /\ active' = (active \ {r}) \cup {rec}
               /\ fenced' = fenced \cup {[lease |-> r, reason |-> "generation_reassigned"]}
               /\ r.work.id = WorkOf(g).id /\ WorkOf(g).gen = r.work.gen + 1
    BY <1>2, <2>3 DEF Ctl!Reassign, Ctl!ReassignAllowed, Ctl!SameAttempt
  <2>4. \/ Ctl!IssueNew(WorkOf(g), g.cell, 1)
        \/ Replayed(g) # {} /\ UNCHANGED cvars
        \/ \E r \in Ctl!ActiveOf(WorkOf(g).id) : Ctl!Reassign(r, WorkOf(g), g.cell, 1)
    BY <1>1 DEF MirrorClaim
  <2>5. \A r \in Ctl!ActiveOf(WorkOf(g).id) : r \in active
    BY DEF Ctl!ActiveOf
  <2> QED
    BY <2>1, <2>2, <2>3, <2>4, <2>5
<1>8. Known' = Known
  BY <1>7 DEF Known
<1>9. rec.work = WorkOf(g) /\ rec.owner = g.cell
  BY <1>2
<1>10. /\ WorkOf(g).base = g.version /\ WorkOf(g).id = <<g.version, g.shard>>
       /\ WorkOf(g).gen = g.gen
  BY DEF WorkOf
<1>11. Chained' /\ Backed' /\ Behind'
  BY <1>4, <1>6, <1>7, <1>8 DEF Following, Chained, Backed, Behind
<1>12. Leasing'
  <2>1. \A r \in active' : r \in active \/ r = rec
    BY <1>7
  <2>2. rec.work.base = Known
    BY <1>5, <1>6, <1>9, <1>10
  <2> QED
    BY <1>3, <1>8, <1>9, <2>1, <2>2 DEF Following, Leasing
<1>13. Fencing'
  <2> SUFFICES ASSUME NEW f \in fenced'
               PROVE  \/ f.lease.work.base \in Nat /\ f.lease.work.base < Known
                      \/ \E h \in grants : f.lease.work.id = <<h.version, h.shard>>
                                           /\ f.lease.work.gen < h.gen
    BY <1>4, <1>8 DEF Fencing
  <2>1. CASE f \in fenced
    BY <2>1 DEF Following, Fencing
  <2>2. ASSUME NEW r \in active, f = [lease |-> r, reason |-> "generation_reassigned"],
               r.work.id = WorkOf(g).id, WorkOf(g).gen = r.work.gen + 1
        PROVE  \E h \in grants : f.lease.work.id = <<h.version, h.shard>>
                                 /\ f.lease.work.gen < h.gen
    <3>1. f.lease = r
      BY <2>2
    <3>2. PICK h \in delivered : r.work = WorkOf(h)
      BY DEF Following, Leasing
    <3>3. h \in Grant /\ h.gen \in Nat /\ WorkOf(h).gen = h.gen
      BY Saved DEF Following, Delivering, WorkOf
    <3>4. r.work.gen < g.gen
      BY <1>5, <1>10, <2>2, <3>2, <3>3
    <3> QED
      BY <1>5, <1>10, <2>2, <3>1, <3>4
  <2> QED
    BY <1>7, <2>1, <2>2
<1>14. Delivering'
  <2>1. closers' \subseteq delivered' /\ delivered' \subseteq grants'
    BY <1>3, <1>4, <1>5 DEF Following, Delivering
  <2>2. \A h \in delivered' : h.version <= Known'
    BY <1>3, <1>5, <1>6, <1>8, Saved DEF Following, Delivering
  <2>3. DeliveredKnown'
    <3>1. \A r \in active : r \in active' \/ \E f \in fenced' : f.lease = r
      BY <1>7
    <3>2. fenced \subseteq fenced' /\ terminals' = terminals
      BY <1>7
    <3>3. \E r \in active' : r.work = WorkOf(g)
      BY <1>7, <1>9
    <3> SUFFICES ASSUME NEW h \in delivered'
                 PROVE  \/ \E r \in active' : r.work = WorkOf(h)
                        \/ \E t \in terminals' : t.work = WorkOf(h)
                        \/ \E f \in fenced' : f.lease.work = WorkOf(h)
      BY DEF DeliveredKnown
    <3>4. CASE h = g
      BY <3>3, <3>4
    <3>5. CASE h \in delivered
      <4>1. \/ \E r \in active : r.work = WorkOf(h)
            \/ \E t \in terminals : t.work = WorkOf(h)
            \/ \E f \in fenced : f.lease.work = WorkOf(h)
        BY <3>5 DEF Following, Delivering, DeliveredKnown
      <4> QED
        BY <3>1, <3>2, <4>1
    <3> QED
      BY <1>3, <3>4, <3>5
  <2> QED
    BY <2>1, <2>2, <2>3 DEF Delivering
<1>15. crashes = 0 => \A h \in st.results : TerminalOf(h)' # {}
  <2>1. \A h : TerminalOf(h)' = TerminalOf(h)
    BY <1>7 DEF TerminalOf
  <2> QED
    BY <1>3, <2>1 DEF Lossless, ReceiptsDone
<1> QED
  BY <1>3, <1>11, <1>12, <1>13, <1>14, <1>15, MirrorDone DEF Following

\* The controller commits an update that waits for its quorum.
LEMMA ReceiptFollowing ==
  ASSUME Inv, Following, NEW g \in delivered, g \in st.results, g \notin closers,
         Ctl!CommitReceipt(WorkOf(g), Receipt(g, NoCell)),
         UNCHANGED <<vars, delivered, closers>>
  PROVE  Following' /\ terminals' = terminals \cup {[work |-> WorkOf(g), receipt |-> Receipt(g, NoCell)]}
<1>1. PICK gone : gone = Ctl!LeaseFor(WorkOf(g), Receipt(g, NoCell))
  OBVIOUS
<1>2. PICK t : t = [work |-> WorkOf(g), receipt |-> Receipt(g, NoCell)]
  OBVIOUS
<1>3. /\ active' = active \ gone /\ terminals' = terminals \cup {t}
      /\ UNCHANGED <<lineage, fenced>> /\ UNCHANGED <<st, grants, delivered, closers>>
  BY <1>1, <1>2 DEF Ctl!CommitReceipt, vars
<1>4. \A r \in gone : r \in active /\ r.work = WorkOf(g)
  BY <1>1 DEF Ctl!LeaseFor
<1>5. t.work = WorkOf(g) /\ t.receipt.by = g.cell /\ t.receipt.output = NoCell
  BY <1>2 DEF Receipt
<1>6. Known' = Known
  BY <1>3 DEF Known
<1>7. Chained' /\ Leasing' /\ Fencing'
  BY <1>3, <1>6 DEF Following, Chained, Leasing, Fencing
<1>8. Delivering'
  <2>1. DeliveredKnown'
    <3> SUFFICES ASSUME NEW h \in delivered
                 PROVE  \/ \E r \in active' : r.work = WorkOf(h)
                        \/ \E u \in terminals' : u.work = WorkOf(h)
                        \/ \E f \in fenced' : f.lease.work = WorkOf(h)
      BY <1>3 DEF DeliveredKnown
    <3>1. \/ \E r \in active : r.work = WorkOf(h)
          \/ \E u \in terminals : u.work = WorkOf(h)
          \/ \E f \in fenced : f.lease.work = WorkOf(h)
      BY DEF Following, Delivering, DeliveredKnown
    <3> QED
      BY <1>3, <1>4, <1>5, <3>1
  <2> QED
    BY <1>3, <1>6, <2>1 DEF Following, Delivering
<1>9. Backed'
  <2>1. \A u \in terminals' : u \in terminals \/ u = t
    BY <1>3
  <2> QED
    BY <1>3, <1>5, <2>1 DEF Following, Backed
<1>10. Behind'
  <2> SUFFICES ASSUME st.version # Known
               PROVE  \E h \in closers : h \in st.results /\ h.version = Known /\ Held(h)'
    BY <1>3, <1>6 DEF Behind
  <2>1. PICK h \in closers : h \in st.results /\ h.version = Known /\ Held(h)
    BY DEF Following, Behind
  <2>2. PICK r \in active : r.work = WorkOf(h) /\ r.owner = h.cell
    BY <2>1 DEF Held
  <2>3. h \in grants /\ g \in grants /\ h # g
    BY DEF Following, Delivering
  <2>4. r \notin gone
    BY <1>4, <2>2, <2>3, SameLease
  <2> QED
    BY <1>3, <2>1, <2>2, <2>4 DEF Held
<1> QED
  BY <1>2, <1>3, <1>7, <1>8, <1>9, <1>10 DEF Following

\* The controller commits the update that closed the round, with the next
\* checkpoint: it has caught up, and every other lease is fenced.
LEMMA CheckpointFollowing ==
  ASSUME Inv, Following, NEW g \in delivered, g \in st.results, OneAhead,
         Ctl!CommitCheckpoint(WorkOf(g), Receipt(g, st.version), Adapter(st.version)),
         UNCHANGED <<vars, delivered, closers>>
  PROVE  /\ Following'
         /\ terminals' = terminals \cup {[work |-> WorkOf(g), receipt |-> Receipt(g, st.version)]}
<1>1. PICK gone : gone = Ctl!LeaseFor(WorkOf(g), Receipt(g, st.version))
  OBVIOUS
<1>2. PICK t : t = [work |-> WorkOf(g), receipt |-> Receipt(g, st.version)]
  OBVIOUS
<1>3. PICK k \in Nat : k = Known
  BY DEF Following, Chained
<1>4. /\ st.version = k + 1 /\ Len(lineage) = k + 1 /\ lineage = Chain(k) /\ Ctl!HeadHash = k
  <2>1. /\ Len(RemoteLineage) = st.version + 1 /\ Len(lineage) = Known + 1
        /\ Ctl!HeadHash = Known /\ st.version \in Nat
    BY Lineages, Saved DEF Following
  <2>2. Len(RemoteLineage) = Len(lineage) + 1
    BY DEF OneAhead
  <2> QED
    BY <1>3, <2>1, <2>2 DEF Following, Chained
<1>5. Adapter(st.version).hash = k + 1
  BY <1>4 DEF Adapter
<1>6. PICK others : others = active \ gone
  OBVIOUS
<1>7. \A r \in active : r.work.base = k
  BY <1>3 DEF Following, Leasing
<1>8. {r \in others : r.work.base # Adapter(st.version).hash} = others
  <2>1. \A r \in others : r.work.base # Adapter(st.version).hash
    BY <1>3, <1>5, <1>6, <1>7
  <2> QED
    BY <2>1
<1>9. /\ active' = {}
      /\ fenced' = fenced \cup {[lease |-> r, reason |-> "checkpoint_advanced"] : r \in others}
      /\ lineage' = Append(lineage, Adapter(st.version)) /\ terminals' = terminals \cup {t}
      /\ WorkOf(g).base = k
      /\ UNCHANGED <<st, grants, delivered, closers>>
  <2>1. /\ active' = others \ others
        /\ fenced' = fenced \cup {[lease |-> r, reason |-> "checkpoint_advanced"] : r \in others}
    BY <1>1, <1>6, <1>8, Zenon DEF Ctl!CommitCheckpoint
  <2>2. /\ lineage' = Append(lineage, Adapter(st.version)) /\ terminals' = terminals \cup {t}
        /\ WorkOf(g).base = k
    BY <1>2, <1>4 DEF Ctl!CommitCheckpoint, Ctl!OnHead
  <2>3. UNCHANGED <<st, grants, delivered, closers>>
    BY DEF vars
  <2> QED
    BY <2>1, <2>2, <2>3
<1>10. \A r \in gone : r.work = WorkOf(g)
  BY <1>1 DEF Ctl!LeaseFor
<1>11. t.work = WorkOf(g) /\ t.receipt.by = g.cell /\ t.receipt.output = k + 1
  BY <1>2, <1>4 DEF Receipt
<1>12. lineage' = Chain(k + 1) /\ Known' = k + 1
  <2>1. lineage' = Chain(k + 1)
    BY <1>3, <1>4, <1>9, ChainGrows
  <2>2. k + 1 \in Nat
    BY <1>3
  <2>3. Len(Chain(k + 1)) = (k + 1) + 1
    BY <2>2, ChainFacts
  <2>4. Known' = Len(lineage') - 1
    BY DEF Known
  <2> QED
    BY <1>3, <2>1, <2>3, <2>4
<1>13. Chained' /\ Leasing' /\ Behind'
  <2>1. Chained'
    BY <1>3, <1>4, <1>9, <1>12 DEF Chained
  <2> QED
    BY <1>4, <1>9, <1>12, <2>1 DEF Leasing, Behind
<1>14. Fencing'
  <2> SUFFICES ASSUME NEW f \in fenced'
               PROVE  \/ f.lease.work.base \in Nat /\ f.lease.work.base < k + 1
                      \/ \E h \in grants : f.lease.work.id = <<h.version, h.shard>>
                                           /\ f.lease.work.gen < h.gen
    BY <1>9, <1>12 DEF Fencing
  <2>1. CASE f \in fenced
    <3>1. \/ f.lease.work.base \in Nat /\ f.lease.work.base < k
          \/ \E h \in grants : f.lease.work.id = <<h.version, h.shard>>
                               /\ f.lease.work.gen < h.gen
      BY <1>3, <2>1 DEF Following, Fencing
    <3> QED
      BY <1>3, <3>1
  <2>2. ASSUME NEW r \in others, f = [lease |-> r, reason |-> "checkpoint_advanced"]
        PROVE  f.lease.work.base \in Nat /\ f.lease.work.base < k + 1
    <3>1. f.lease.work.base = k
      BY <1>6, <1>7, <2>2
    <3> QED
      BY <1>3, <3>1
  <2> QED
    BY <1>9, <2>1, <2>2
<1>15. Delivering'
  <2>1. DeliveredKnown'
    <3>1. ASSUME NEW r \in active
          PROVE  r.work = WorkOf(g) \/ \E f \in fenced' : f.lease = r
      <4>1. CASE r \in others
        <5>1. [lease |-> r, reason |-> "checkpoint_advanced"] \in fenced'
          BY <1>9, <4>1
        <5>2. [lease |-> r, reason |-> "checkpoint_advanced"].lease = r
          OBVIOUS
        <5> QED
          BY <5>1, <5>2
      <4> QED
        BY <1>6, <1>10, <4>1
    <3> SUFFICES ASSUME NEW h \in delivered
                 PROVE  \/ \E u \in terminals' : u.work = WorkOf(h)
                        \/ \E f \in fenced' : f.lease.work = WorkOf(h)
      BY <1>9 DEF DeliveredKnown
    <3>2. \/ \E r \in active : r.work = WorkOf(h)
          \/ \E u \in terminals : u.work = WorkOf(h)
          \/ \E f \in fenced : f.lease.work = WorkOf(h)
      BY DEF Following, Delivering, DeliveredKnown
    <3> QED
      BY <1>9, <1>11, <3>1, <3>2
  <2>2. ASSUME NEW h \in delivered PROVE h.version <= k + 1
    <3>1. h.version <= k /\ h.version \in Nat
      BY <1>3, Saved DEF Following, Delivering
    <3> QED
      BY <1>3, <3>1
  <2> QED
    BY <1>9, <1>12, <2>1, <2>2 DEF Following, Delivering
<1>16. Backed'
  <2>1. \A u \in terminals' : u \in terminals \/ u = t
    BY <1>9
  <2>2. g.version = k
    BY <1>9 DEF WorkOf
  <2>3. g \in st.rounds[k + 1] /\ k + 1 \in 1..Len(st.rounds)
    BY <1>3, <1>4, <2>2 DEF Inv, Good, Sound, Versioned
  <2> QED
    BY <1>9, <1>11, <2>1, <2>3 DEF Following, Backed
<1> QED
  BY <1>2, <1>9, <1>13, <1>14, <1>15, <1>16 DEF Following

\* The controller mirrors an accepted update, or a replayed answer.
LEMMA MirrorSubmitSteps ==
  ASSUME Inv, Following, Requesting, Lossless, MirrorSubmit
  PROVE  Following' /\ Requesting' /\ Lossless'
<1>1. PICK g : g = mirror.grant
  OBVIOUS
<1>2. /\ mirror.kind = "submit" /\ op = Idle /\ mirror' = NoMirror
      /\ UNCHANGED <<vars, delivered, closers>> /\ UNCHANGED <<st, grants, crashes>>
      /\ MirrorReplay(g) \/ MirrorCommit(g)
  BY <1>1 DEF MirrorSubmit, Answered, Ready, vars
<1>3. g \in delivered /\ g \in st.results
  BY <1>1, <1>2 DEF Requesting, Submitting
<1>4. /\ Following' /\ terminals \subseteq terminals'
      /\ \E t \in terminals' : Ctl!Key(t.work) = Ctl!Key(WorkOf(g))
  <2>1. CASE MirrorReplay(g)
    <3>1. PICK t \in TerminalOf(g) : Ctl!CommitReplay(t)
      BY <2>1 DEF MirrorReplay
    <3>2. UNCHANGED <<lineage, active, terminals, fenced>>
      BY <3>1 DEF Ctl!CommitReplay, Ctl!state
    <3>3. t \in terminals /\ Ctl!Key(t.work) = Ctl!Key(WorkOf(g))
      BY DEF TerminalOf
    <3> QED
      BY <1>2, <3>2, <3>3, FollowingKept DEF Following, Delivering
  <2>2. CASE MirrorCommit(g) /\ g \notin closers
    <3>1. Ctl!CommitReceipt(WorkOf(g), Receipt(g, NoCell))
      BY <2>2 DEF MirrorCommit
    <3>2. /\ Following'
          /\ terminals' = terminals \cup {[work |-> WorkOf(g), receipt |-> Receipt(g, NoCell)]}
      BY <1>2, <1>3, <2>2, <3>1, ReceiptFollowing
    <3>3. PICK t : t = [work |-> WorkOf(g), receipt |-> Receipt(g, NoCell)]
      OBVIOUS
    <3>4. t.work = WorkOf(g) /\ terminals' = terminals \cup {t}
      BY <3>2, <3>3
    <3> QED
      BY <3>2, <3>4
  <2>3. CASE MirrorCommit(g) /\ g \in closers
    <3>1. /\ OneAhead
          /\ Ctl!CommitCheckpoint(WorkOf(g), Receipt(g, st.version), Adapter(st.version))
      BY <2>3 DEF MirrorCommit
    <3>2. /\ Following'
          /\ terminals' = terminals \cup {[work |-> WorkOf(g), receipt |-> Receipt(g, st.version)]}
      BY <1>2, <1>3, <3>1, CheckpointFollowing
    <3>3. PICK t : t = [work |-> WorkOf(g), receipt |-> Receipt(g, st.version)]
      OBVIOUS
    <3>4. t.work = WorkOf(g) /\ terminals' = terminals \cup {t}
      BY <3>2, <3>3
    <3> QED
      BY <3>2, <3>4
  <2> QED
    BY <1>2, <2>1, <2>2, <2>3
<1>5. crashes = 0 => \A h \in st.results : TerminalOf(h)' # {}
  <2> SUFFICES ASSUME crashes = 0, NEW h \in st.results
               PROVE  \E t \in terminals' : Ctl!Key(t.work) = Ctl!Key(WorkOf(h))
    BY DEF TerminalOf, Ctl!Key, WorkOf
  <2>1. TerminalOf(h) # {} \/ h = g
    BY <1>1 DEF Lossless, ReceiptsDone
  <2> QED
    BY <1>4, <2>1 DEF TerminalOf
<1> QED
  BY <1>2, <1>4, <1>5, MirrorDone

\* A refusal: without a crash, it is never of an update that has no receipt.
LEMMA RefusedSteps ==
  ASSUME Inv, Following, Requesting, Lossless, MirrorClaimRefused \/ MirrorSubmitRefused
  PROVE  Following' /\ Requesting' /\ Lossless'
<1>1. /\ op = Idle /\ mirror' = NoMirror
      /\ UNCHANGED <<vars, cvars, delivered, closers>> /\ UNCHANGED <<st, grants, crashes>>
      /\ UNCHANGED <<lineage, active, terminals, fenced>>
  BY DEF MirrorClaimRefused, MirrorSubmitRefused, Answered, Ready, vars, cvars
<1>2. Following'
  BY <1>1, FollowingKept DEF Following, Delivering
<1>3. ASSUME crashes = 0, NEW h \in st.results, TerminalOf(h) = {} PROVE FALSE
  <2>1. mirror.kind = "submit" /\ mirror.grant = h /\ Held(h)
    BY <1>3 DEF Lossless, ReceiptsDone
  <2>2. PICK r \in active : r.work = WorkOf(h) /\ r.owner = h.cell
    BY <2>1 DEF Held
  <2>3. r \in Ctl!LeaseFor(WorkOf(h), Receipt(h, NoCell))
    BY <2>2 DEF Ctl!LeaseFor, Receipt
  <2>4. h \in closers /\ ~OneAhead
    BY <1>3, <2>1, <2>3 DEF MirrorSubmitRefused, MirrorClaimRefused, Answered
  <2>5. h.version < st.version /\ h.version = Known
    <3>1. h.version < st.version
      BY <1>1, <1>3, <2>4 DEF Lossless, ClosersClosed
    <3>2. r.work.base = Known /\ WorkOf(h).base = h.version
      BY DEF Following, Leasing, WorkOf
    <3> QED
      BY <2>2, <3>1, <3>2
  <2>6. Known \in Nat /\ st.version \in Nat /\ Known <= st.version /\ st.version <= Known + 1
    BY Saved DEF Following, Chained
  <2>7. st.version = Known + 1
    BY <2>5, <2>6
  <2>8. OneAhead
    BY <2>6, <2>7, Lineages DEF OneAhead, Following
  <2> QED
    BY <2>4, <2>8
<1>4. crashes = 0 => \A h \in st.results : TerminalOf(h)' # {}
  BY <1>1, <1>3 DEF TerminalOf
<1> QED
  BY <1>1, <1>2, <1>4, MirrorDone

-----------------------------------------------------------------------------
LEMMA BridgeInit == BInit => BInv
<1> SUFFICES ASSUME BInit PROVE BInv
  OBVIOUS
<1>1. /\ Inv /\ st.version = 0 /\ st.results = {} /\ op = Idle /\ grants = {}
      /\ versions = {0} /\ up = TRUE /\ crashes = 0
      /\ lineage = <<Adapter(0)>> /\ active = {} /\ terminals = {} /\ fenced = {}
      /\ mirror.kind = "none" /\ delivered = {} /\ closers = {}
  BY InitInv DEF BInit, Init, NewCampaign, NoMirror
<1>2. lineage = Chain(0) /\ Known = 0
  <2>1. Len(<<Adapter(0)>>) = 1
    OBVIOUS
  <2>2. Chain(0) = <<Adapter(0)>>
    <3>1. /\ Chain(0) \in Seq({Adapter(i) : i \in Nat}) /\ Len(Chain(0)) = 1
          /\ Chain(0)[1] = Adapter(0)
      <4>1. /\ Chain(0) \in Seq({Adapter(i) : i \in Nat}) /\ Len(Chain(0)) = 0 + 1
            /\ \A i \in 1..(0 + 1) : Chain(0)[i] = Adapter(i - 1)
        BY ChainFacts
      <4>2. 1 \in 1..(0 + 1) /\ 1 - 1 = 0 /\ 0 + 1 = 1
        OBVIOUS
      <4>3. Chain(0)[1] = Adapter(1 - 1)
        BY <4>1, <4>2
      <4> QED
        BY <4>1, <4>2, <4>3
    <3>2. PICK a : a = Adapter(0)
      OBVIOUS
    <3>3. /\ <<a>> \in Seq({Adapter(i) : i \in Nat}) /\ Len(<<a>>) = 1 /\ <<a>>[1] = a
      BY <3>2
    <3>4. Chain(0) = <<a>>
      BY <3>1, <3>2, <3>3, SeqEqual
    <3> QED
      BY <3>2, <3>4
  <2> QED
    BY <1>1, <2>1, <2>2 DEF Known
<1>3. Following
  BY <1>1, <1>2 DEF Following, Chained, Leasing, Delivering, DeliveredKnown, Fencing, Backed, Behind
<1>4. Requesting
  BY <1>1 DEF Requesting, Claiming, Submitting, Unsaved
<1>5. Lossless
  BY <1>1 DEF Lossless, NothingLeft, ClosersClosed, ReceiptsDone
<1> QED
  BY <1>1, <1>3, <1>4, <1>5 DEF BInv

LEMMA BridgeNext == ASSUME BInv, [BNext]_allvars PROVE BInv'
<1>1. Inv /\ Following /\ Requesting /\ Lossless
  BY DEF BInv
<1>2. Inv'
  BY <1>1, BridgeStep, NextInv
<1>3. CASE BRaise
  BY <1>1, <1>2, <1>3, RaiseSteps DEF BInv
<1>4. CASE BCrash
  BY <1>1, <1>2, <1>4, CrashSteps DEF BInv
<1>5. CASE CoordinatorWrites
  BY <1>1, <1>2, <1>5, WriteSteps, SaveFollowing, SaveRequesting DEF CoordinatorWrites, BInv
<1>6. CASE MirrorClaim
  BY <1>1, <1>2, <1>6, MirrorClaimSteps DEF BInv
<1>7. CASE MirrorSubmit
  BY <1>1, <1>2, <1>7, MirrorSubmitSteps DEF BInv
<1>8. CASE MirrorClaimRefused \/ MirrorSubmitRefused
  BY <1>1, <1>2, <1>8, RefusedSteps DEF BInv
<1>9. CASE Time \/ ControllerWrites \/ UNCHANGED allvars \/ \E g \in delivered : BSubmitReplay(g)
  BY <1>1, <1>2, <1>9, RestSteps DEF BInv
<1>10. CASE \E c \in Cells : BClaimLease(c) \/ BClaimNothing(c)
  BY <1>1, <1>2, <1>10, ClaimSteps DEF BInv
<1>11. CASE \/ \E g \in delivered : BHeartbeat(g) \/ BSubmitRejected(g)
            \/ Unbridged \/ BRecover
  BY <1>1, <1>2, <1>11, PlainSteps DEF BInv
<1>12. CASE \E g \in delivered : BSubmitAccepted(g)
  BY <1>1, <1>2, <1>12, SubmitSteps DEF BInv
<1> QED
  BY <1>2, <1>3, <1>4, <1>5, <1>6, <1>7, <1>8, <1>9, <1>10, <1>11, <1>12 DEF BInv, BNext

-----------------------------------------------------------------------------
\* The inductive invariant of the bridged session.
THEOREM BridgeInvariance == BSpec => []BInv
<1>1. BInv /\ [BNext]_allvars => BInv'
  BY BridgeNext
<1> QED
  BY <1>1, BridgeInit, PTL DEF BSpec

\* Bridging a coordinator changes nothing of what it does: what is proved of
\* Spec holds of the coordinator of a session.
THEOREM BridgeKeepsCoordinator == BSpec => Spec
<1>1. BInit => Init
  BY DEF BInit
<1>2. BInv /\ [BNext]_allvars => [Next]_vars
  BY BridgeStep DEF BInv
<1> QED
  BY <1>1, <1>2, BridgeInvariance, PTL DEF BSpec, Spec

\* The controller's lineage is the coordinator's or one checkpoint behind it,
\* and then a lease is active, so that after a crash the session binds again.
THEOREM LineagesNeverDiverge == BSpec => []LineagesAgree
<1>1. BInv => LineagesAgree
  <2> SUFFICES ASSUME BInv PROVE LineagesAgree
    OBVIOUS
  <2>1. /\ Ctl!LineageIsPrefix(lineage, RemoteLineage) /\ Len(RemoteLineage) = st.version + 1
        /\ Len(lineage) = Known + 1 /\ st.version \in Nat /\ Known \in Nat
        /\ Known <= st.version /\ st.version <= Known + 1
    BY Lineages, Saved DEF BInv, Following, Chained
  <2>2. st.version # Known => active # {}
    BY DEF BInv, Following, Behind, Held
  <2>3. Len(RemoteLineage) \in {Len(lineage), Len(lineage) + (IF active # {} THEN 1 ELSE 0)}
    BY <2>1, <2>2
  <2>4. Len(RemoteLineage) <= Len(lineage) + 1
    BY <2>1
  <2> QED
    BY <2>1, <2>3, <2>4 DEF LineagesAgree, Rebinds
<1> QED
  BY <1>1, BridgeInvariance, PTL

\* The controller accepts only what the coordinator accepted, from the Cell
\* that held the lease, and its checkpoints are the coordinator's rounds.
THEOREM ReceiptsAlwaysBacked == BSpec => []ReceiptsBacked
<1>1. BInv => ReceiptsBacked
  BY DEF BInv, Following, Backed, ReceiptsBacked
<1> QED
  BY <1>1, BridgeInvariance, PTL

\* No Cell holds a lease of a generation the controller has not seen.
THEOREM DeliveredAlwaysKnown == BSpec => []DeliveredKnown
<1>1. BInv => DeliveredKnown
  BY DEF BInv, Following, Delivering
<1> QED
  BY <1>1, BridgeInvariance, PTL

\* As long as the process lives, an accepted update has its receipt in the
\* controller, or the lease that sending it again commits.
THEOREM ReceiptsRecoverable == BSpec => []ReceiptRecoverable
<1>1. BInv => ReceiptRecoverable
  BY DEF BInv, Lossless, ReceiptsDone, Held, ReceiptRecoverable
<1> QED
  BY <1>1, BridgeInvariance, PTL

-----------------------------------------------------------------------------
\* The training Cells.
PcState == {"off", "idle", "claim", "claimed", "train", "send", "sent"}
CellState ==
    [pc : PcState,
     work : Grant \cup {NoWork}, pending : Grant \cup {NoWork},
     bad : BOOLEAN, gone : BOOLEAN, done : Nat, paused : BOOLEAN]

\* A Cell claims only when nothing is pending, and trains and sends under
\* leases of its own; what it trains was not accepted yet.
Working(c, r) ==
    /\ r.pending # NoWork => r.pending \in grants /\ r.pending.cell = c
    /\ r.pc \in {"claim", "claimed", "train"} => r.pending = NoWork
    /\ r.pc \in {"send", "sent"} => r.pending # NoWork
    /\ r.pc = "train" => /\ r.work \in grants /\ r.work.cell = c
                         /\ r.work \notin st.results

Leased == /\ cell \in [Cells -> CellState]
          /\ \A c \in Cells : Working(c, cell[c])

\* The request under way: a claim or a submission, that changes the accepted
\* updates by the one it was sent for and only if it is accepted.
Waiting(c, r) ==
    /\ r.pc \in {"claimed", "sent"}
    /\ r.pc = "claimed" => ~call.accepts
    /\ r.pc = "sent" => r.pending \notin st.results
    /\ op.mem.results = st.results \cup (IF call.accepts THEN {r.pending} ELSE {})

Calling ==
    /\ op = Idle => call = NoCall
    /\ ~up => op = Idle
    /\ call.accepts \in BOOLEAN /\ (call.accepts => ~call.drops)
    /\ call.cell # NoCell => call.cell \in Cells /\ Waiting(call.cell, cell[call.cell])
    /\ call.cell = NoCell /\ op # Idle => op.mem.results = st.results

\* What the coordinator accepted of a Cell.
AcceptedOf(c) == {g \in st.results : g.cell = c}
CountedOf(c, r) ==
    /\ IsFiniteSet(AcceptedOf(c))
    /\ r.done + (IF r.pending \in st.results THEN 1 ELSE 0) = Cardinality(AcceptedOf(c))
Exact == \A c \in Cells : CountedOf(c, cell[c])

CInv == Inv /\ Leased /\ Calling /\ Exact

-----------------------------------------------------------------------------
LEMMA NoLease == ASSUME Inv PROVE NoWork \notin Grant /\ NoWork \notin st.results /\ NoWork.cell = NoCell
BY Constant, Saved DEF NoWork, Grant

\* What a Cell may become, as the actions write it.
LEMMA GoesForm ==
  ASSUME NEW o \in CellState, NEW q \in PcState,
         NEW r, r = [o EXCEPT !.pc = q]
  PROVE  r \in CellState /\ r.pc = q /\ r.work = o.work /\ r.pending = o.pending /\ r.done = o.done
BY DEF CellState, PcState

LEMMA StopsForm ==
  ASSUME NEW o \in CellState, NEW r, r = [o EXCEPT !.pc = "off", !.work = NoWork]
  PROVE  r \in CellState /\ r.pc = "off" /\ r.pending = o.pending /\ r.done = o.done
<1>1. PICK w : w = NoWork
  OBVIOUS
<1>2. w \in Grant \cup {NoWork} /\ r = [o EXCEPT !.pc = "off", !.work = w]
  BY <1>1
<1> QED
  BY <1>2 DEF CellState, PcState

LEMMA DroppedForm ==
  ASSUME NEW o \in CellState, NEW r, r = Dropped(o)
  PROVE  r \in CellState /\ r.pc = "off" /\ r.pending = NoWork /\ r.done = o.done
<1>1. PICK w : w = NoWork
  OBVIOUS
<1>2. /\ w \in Grant \cup {NoWork}
      /\ r = [o EXCEPT !.pc = "off", !.pending = w, !.bad = FALSE, !.gone = FALSE]
  BY <1>1 DEF Dropped
<1>3. r \in CellState /\ r.pc = "off" /\ r.pending = w /\ r.done = o.done
  BY <1>2, ZenonT(40) DEF CellState, PcState
<1> QED
  BY <1>1, <1>3

LEMMA CountedForm ==
  ASSUME NEW o \in CellState, NEW r, r = Counted(o)
  PROVE  r \in CellState /\ r.pc = "idle" /\ r.pending = NoWork /\ r.done = o.done + 1
<1>1. PICK d : d = Dropped(o)
  OBVIOUS
<1>2. d \in CellState /\ d.pc = "off" /\ d.pending = NoWork /\ d.done = o.done
  BY <1>1, DroppedForm
<1>3. o.done \in Nat
  BY DEF CellState
<1>4. PICK n \in Nat : n = o.done + 1
  BY <1>3
<1>5. r = [d EXCEPT !.pc = "idle", !.done = n]
  BY <1>1, <1>2, <1>4, Zenon DEF Counted
<1>6. r \in CellState /\ r.pc = "idle" /\ r.pending = d.pending /\ r.done = n
  BY <1>2, <1>5 DEF CellState, PcState
<1> QED
  BY <1>2, <1>4, <1>6

LEMMA CellParts ==
  ASSUME Leased, NEW c \in Cells
  PROVE  /\ cell[c] \in CellState /\ cell[c].done \in Nat
         /\ \A r : cell' = [cell EXCEPT ![c] = r] =>
               cell'[c] = r /\ \A d \in Cells : d # c => cell'[d] = cell[d]
BY DEF Leased, CellState

\* A Cell moves on its own.
LEMMA LocalStep ==
  ASSUME Inv, Leased, Calling, Exact, NEW c \in Cells, NEW r \in CellState,
         cell' = [cell EXCEPT ![c] = r], UNCHANGED vars, call' = call,
         Working(c, r), CountedOf(c, r),
         call.cell = c => r.pc = cell[c].pc /\ r.pending = cell[c].pending
  PROVE  Leased' /\ Calling' /\ Exact'
<1>1. UNCHANGED <<st, op, grants, up>>
  BY DEF vars
<1>2. cell'[c] = r /\ \A d \in Cells : d # c => cell'[d] = cell[d]
  BY CellParts
<1>3. Leased'
  <2>1. cell' \in [Cells -> CellState]
    BY DEF Leased
  <2> QED
    BY <1>1, <1>2, <2>1 DEF Leased, Working
<1>4. Calling'
  <2>1. call.cell # NoCell => call.cell \in Cells /\ Waiting(call.cell, cell'[call.cell])
    BY <1>2 DEF Calling, Waiting
  <2> QED
    BY <1>1, <2>1 DEF Calling, Waiting
<1>5. Exact'
  BY <1>1, <1>2 DEF Exact, CountedOf, AcceptedOf
<1> QED
  BY <1>3, <1>4, <1>5

\* A request of a Cell begins.
LEMMA CallStep ==
  ASSUME Inv, Leased, Calling, Exact, NEW c \in Cells, NEW r \in CellState,
         cell' = [cell EXCEPT ![c] = r], UNCHANGED <<st, grants>>, up' = TRUE, op' # Idle,
         Working(c, r), r.pending = cell[c].pending, r.done = cell[c].done,
         r.pc = "claimed" \/ (r.pc = "sent" /\ r.pending \notin st.results),
         call'.cell = c,
         \/ call'.accepts = FALSE /\ op'.mem.results = st.results
         \/ /\ call'.accepts = TRUE /\ call'.drops = FALSE /\ r.pc = "sent"
            /\ op'.mem.results = st.results \cup {r.pending}
  PROVE  Leased' /\ Calling' /\ Exact'
<1>1. cell'[c] = r /\ \A e \in Cells : e # c => cell'[e] = cell[e]
  BY CellParts
<1>2. c # NoCell
  BY Constant
<1>3. Leased'
  <2>1. cell' \in [Cells -> CellState]
    BY DEF Leased
  <2> QED
    BY <1>1, <2>1 DEF Leased, Working
<1>4. Calling'
  BY <1>1, <1>2 DEF Calling, Waiting
<1>5. Exact'
  BY <1>1 DEF Exact, CountedOf, AcceptedOf
<1> QED
  BY <1>3, <1>4, <1>5

\* An operation that no Cell waits for begins, or one is under way.
LEMMA OtherStep ==
  ASSUME Inv, Leased, Calling, Exact, cell' = cell, call' = call, UNCHANGED <<st, grants>>,
         \/ op = Idle /\ op'.mem.results = st.results
         \/ op # Idle /\ op'.mem = op.mem
         \/ op' = op,
         op = Idle \/ op' # Idle, op' # Idle => up'
  PROVE  Leased' /\ Calling' /\ Exact'
<1>1. Leased'
  BY DEF Leased, Working
<1>2. Calling'
  BY DEF Calling, Waiting, NoCall
<1>3. Exact'
  BY DEF Exact, CountedOf, AcceptedOf
<1> QED
  BY <1>1, <1>2, <1>3

-----------------------------------------------------------------------------
\* A Cell that no request is under way for.
LEMMA NotCalling ==
  ASSUME Leased, Calling, NEW c \in Cells, cell[c].pc \notin {"claimed", "sent"}
  PROVE  call.cell # c
<1>1. c # NoCell
  BY Constant
<1> QED
  BY <1>1 DEF Calling, Waiting

LEMMA LocalSteps ==
  ASSUME Inv, Leased, Calling, Exact, NEW c \in Cells,
         \/ Start(c) \/ Breaks(c) \/ Join(c) \/ Trained(c) \/ SendReplay(c) \/ SendNothing(c)
         \/ Killed(c) \/ PauseCell(c) \/ ResumeCell(c) \/ Cleanup(c)
  PROVE  Leased' /\ Calling' /\ Exact'
<1>1. PICK o : o = cell[c] /\ o \in CellState /\ o.done \in Nat
  BY CellParts
<1>2. Working(c, o) /\ CountedOf(c, o)
  BY <1>1 DEF Leased, Exact
<1>3. NoWork \notin st.results /\ NoWork \notin Grant
  BY NoLease
<1>4. UNCHANGED vars /\ call' = call
  BY DEF Start, Breaks, Join, Trained, SendReplay, SendNothing, Killed, PauseCell, ResumeCell,
     Cleanup, CoordinatorIdle
<1>5. ASSUME NEW r \in CellState, cell' = [cell EXCEPT ![c] = r], Working(c, r),
             r.pending = o.pending, r.done = o.done,
             r.pc = o.pc \/ call.cell # c
      PROVE  Leased' /\ Calling' /\ Exact'
  <2>1. CountedOf(c, r)
    BY <1>2, <1>5 DEF CountedOf
  <2> QED
    BY <1>1, <1>4, <1>5, <2>1, LocalStep
<1>6. CASE Join(c) \/ Start(c)
  <2>1. PICK q : q = IF Start(c) THEN "idle" ELSE IF Pending(c) THEN "send" ELSE "claim"
    OBVIOUS
  <2>2. PICK r : r = [o EXCEPT !.pc = q] /\ cell' = [cell EXCEPT ![c] = r]
    BY <1>1, <1>6, <2>1 DEF Join, Start, Goes, Become
  <2>3. q \in PcState
    BY <2>1 DEF PcState
  <2>4. r \in CellState /\ r.pc = q /\ r.pending = o.pending /\ r.done = o.done
    BY <1>1, <2>2, <2>3, GoesForm
  <2>5. Working(c, r)
    BY <1>1, <1>2, <2>1, <2>4 DEF Working, Pending
  <2>6. call.cell # c
    BY <1>6, NotCalling DEF Join, Start, At
  <2> QED
    BY <1>5, <2>2, <2>4, <2>5, <2>6
<1>7. CASE Trained(c)
  <2>1. o.pc = "train"
    BY <1>1, <1>7 DEF Trained, At
  <2>2. PICK bad \in BOOLEAN :
           cell' = [cell EXCEPT ![c] =
                      [cell[c] EXCEPT !.pc = "send", !.pending = cell[c].work, !.work = NoWork,
                                      !.bad = bad, !.gone = FALSE]]
    BY <1>7 DEF Trained, Become
  <2>3. PICK n : n = NoWork
    OBVIOUS
  <2>4. PICK w : w = o.work /\ w \in grants /\ w.cell = c /\ w \notin st.results /\ w \in Grant
    BY <1>2, <2>1, Saved DEF Working
  <2>5. PICK r : /\ r = [o EXCEPT !.pc = "send", !.pending = w, !.work = n, !.bad = bad,
                                  !.gone = FALSE]
                 /\ cell' = [cell EXCEPT ![c] = r]
    BY <1>1, <2>2, <2>3, <2>4
  <2>6. w \in Grant \cup {NoWork} /\ n \in Grant \cup {NoWork}
    BY <2>3, <2>4
  <2>7. r \in CellState /\ r.pc = "send" /\ r.pending = w /\ r.done = o.done
    BY <1>1, <2>5, <2>6 DEF CellState, PcState
  <2>8. Working(c, r)
    BY <1>3, <2>4, <2>7 DEF Working
  <2>9. o.pending \notin st.results
    BY <1>2, <1>3, <2>1 DEF Working
  <2>10. CountedOf(c, r)
    BY <1>2, <2>4, <2>7, <2>9 DEF CountedOf
  <2>11. call.cell # c
    BY <1>1, <2>1, NotCalling
  <2> QED
    BY <1>4, <2>5, <2>7, <2>8, <2>10, <2>11, LocalStep
<1>8. CASE SendReplay(c)
  <2>1. PICK r : r = Counted(o) /\ cell' = [cell EXCEPT ![c] = r]
    BY <1>1, <1>8 DEF SendReplay, Become
  <2>2. r \in CellState /\ r.pc = "idle" /\ r.pending = NoWork /\ r.done = o.done + 1
    BY <1>1, <2>1, CountedForm
  <2>3. o.pc = "send" /\ o.pending \in st.results
    BY <1>1, <1>8 DEF SendReplay, At
  <2>4. Working(c, r)
    BY <2>2 DEF Working
  <2>5. CountedOf(c, r)
    <3>1. IsFiniteSet(AcceptedOf(c)) /\ o.done + 1 = Cardinality(AcceptedOf(c))
      BY <1>2, <2>3 DEF CountedOf
    <3>2. Cardinality(AcceptedOf(c)) \in Nat
      BY <3>1, FS_CardinalityType
    <3> QED
      BY <1>3, <2>2, <3>1, <3>2 DEF CountedOf
  <2>6. call.cell # c
    BY <1>1, <2>3, NotCalling
  <2> QED
    BY <1>4, <2>1, <2>2, <2>4, <2>5, <2>6, LocalStep
<1>9. CASE SendNothing(c) \/ Killed(c) \/ Breaks(c)
  <2>1. PICK r : r = [o EXCEPT !.pc = "off", !.work = NoWork] /\ cell' = [cell EXCEPT ![c] = r]
    BY <1>1, <1>9 DEF SendNothing, Killed, Breaks, Stops, Become
  <2>2. r \in CellState /\ r.pc = "off" /\ r.pending = o.pending /\ r.done = o.done
    BY <1>1, <2>1, StopsForm
  <2>3. Working(c, r)
    BY <1>2, <2>2 DEF Working
  <2>4. call.cell # c
    BY <1>9, NotCalling DEF SendNothing, Killed, Breaks, At
  <2> QED
    BY <1>5, <2>1, <2>2, <2>3, <2>4
<1>10. CASE PauseCell(c) \/ ResumeCell(c) \/ Cleanup(c)
  <2>1. PICK r : /\ \/ \E b \in BOOLEAN : r = [o EXCEPT !.paused = b]
                    \/ r = [o EXCEPT !.gone = TRUE]
                 /\ cell' = [cell EXCEPT ![c] = r]
    BY <1>1, <1>10 DEF PauseCell, ResumeCell, Cleanup, Become
  <2>2. /\ r \in CellState /\ r.pc = o.pc /\ r.work = o.work /\ r.pending = o.pending
        /\ r.done = o.done
    BY <1>1, <2>1 DEF CellState
  <2>3. Working(c, r)
    BY <1>2, <2>2 DEF Working
  <2> QED
    BY <1>5, <2>1, <2>2, <2>3
<1> QED
  BY <1>6, <1>7, <1>8, <1>9, <1>10

-----------------------------------------------------------------------------
\* The requests of a Cell.
LEMMA ClaimCopy ==
  ASSUME Inv, NEW c \in Cells, ClaimLease(c) \/ ClaimNothing(c)
  PROVE  /\ op'.mem.results = st.results /\ op' # Idle /\ up' = TRUE
         /\ UNCHANGED <<st, grants>>
<1>1. PICK n : n = ExpireLeasesIn(st)
  OBVIOUS
<1>2. n \in CampaignState /\ n.results = st.results
  BY <1>1, ExpiryGood DEF Good, Sound, Requeued
<1>3. \E m, t, f : /\ Begin(m, t, f) /\ m.results = n.results
                   /\ t \in {<<"save">>, <<"event", "save">>}
  <2>1. CASE ClaimLease(c)
    <3>1. PICK s \in Shards :
             Begin([n EXCEPT !.work[s] = [state |-> "leased", gen |-> @.gen + 1, cell |-> c]],
                   EventSaves, {s})
      BY <1>1, <2>1 DEF ClaimLease, Queued
    <3>2. PICK w : w = [n.work EXCEPT ![s] = [state |-> "leased", gen |-> @.gen + 1, cell |-> c]]
      OBVIOUS
    <3>3. PICK m : m = [n EXCEPT !.work = w]
      OBVIOUS
    <3>4. m = [n EXCEPT !.work[s] = [state |-> "leased", gen |-> @.gen + 1, cell |-> c]]
      BY <3>2, <3>3, Zenon
    <3>5. m.results = n.results
      BY <1>2, <3>3 DEF CampaignState
    <3>6. Begin(m, EventSaves, {s})
      BY <3>1, <3>4
    <3> QED
      BY <3>5, <3>6 DEF EventSaves
  <2>2. CASE ClaimNothing(c)
    <3>1. Begin(n, WithEvent(ExpiredIn(st) # {}), {})
      BY <1>1, <2>2 DEF ClaimNothing
    <3> QED
      BY <3>1 DEF WithEvent, Saves, EventSaves
  <2> QED
    BY <2>1, <2>2
<1>4. PICK m, t, f : /\ Begin(m, t, f) /\ m.results = n.results
                     /\ t \in {<<"save">>, <<"event", "save">>}
  BY <1>3
<1>5. op'.mem = m /\ op'.todo = t /\ t # <<>>
  BY <1>4 DEF Begin
<1>6. op' # Idle
  BY <1>5, IdleOp
<1>7. UNCHANGED <<st, grants>> /\ up' = TRUE
  BY <1>4 DEF Begin, ClaimLease, ClaimNothing, Ready, Inv
<1> QED
  BY <1>2, <1>4, <1>5, <1>6, <1>7

LEMMA CallSteps ==
  ASSUME Inv, Leased, Calling, Exact, NEW c \in Cells,
         Claim(c) \/ SendAccepted(c) \/ SendRefused(c)
  PROVE  Leased' /\ Calling' /\ Exact'
<1>1. PICK o : o = cell[c] /\ o \in CellState
  BY CellParts
<1>2. Working(c, o)
  BY <1>1 DEF Leased
<1>3. CASE Claim(c)
  <2>1. PICK r : r = [o EXCEPT !.pc = "claimed"] /\ cell' = [cell EXCEPT ![c] = r]
    BY <1>1, <1>3 DEF Claim, Goes, Become
  <2>2. r \in CellState /\ r.pc = "claimed" /\ r.pending = o.pending /\ r.done = o.done
    BY <1>1, <2>1, GoesForm DEF PcState
  <2>3. Working(c, r)
    BY <1>1, <1>2, <1>3, <2>2 DEF Working, Claim, At
  <2>4. call'.cell = c /\ call'.accepts = FALSE
    BY <1>3 DEF Claim, Calls
  <2>5. /\ op' # Idle /\ up' = TRUE /\ UNCHANGED <<st, grants>>
        /\ op'.mem.results = st.results
    BY <1>3, ClaimCopy DEF Claim
  <2>6. r.pending = cell[c].pending /\ r.done = cell[c].done /\ r.pc = "claimed"
    BY <1>1, <2>2
  <2> QED
    BY <2>1, <2>2, <2>3, <2>4, <2>5, <2>6, CallStep
<1>4. CASE SendAccepted(c)
  <2>1. PICK r : r = [o EXCEPT !.pc = "sent"] /\ cell' = [cell EXCEPT ![c] = r]
    BY <1>1, <1>4 DEF SendAccepted, Goes, Become
  <2>2. r \in CellState /\ r.pc = "sent" /\ r.pending = o.pending /\ r.done = o.done
    BY <1>1, <2>1, GoesForm DEF PcState
  <2>3. o.pc = "send" /\ SubmitAccepted(o.pending) /\ call'.cell = c /\ call'.accepts = TRUE
        /\ call'.drops = FALSE
    BY <1>1, <1>4 DEF SendAccepted, At, Calls
  <2>4. o.pending \in grants
    BY <1>2, <2>3 DEF Working
  <2>5. PICK g \in grants : g = o.pending /\ SubmitAccepted(g)
    BY <2>3, <2>4
  <2>6. /\ up' = TRUE /\ UNCHANGED <<st, grants>> /\ op'.mem.results = st.results \cup {g}
        /\ op'.todo \in {<<"event", "save">>, <<"event", "version", "event", "save">>}
    BY <2>5, SubmitFacts DEF Inv
  <2>7. op' # Idle
    BY <2>6, OwedWrites, IdleOp
  <2>8. g \notin st.results
    BY <2>5 DEF SubmitAccepted
  <2>9. Working(c, r)
    BY <1>2, <2>2, <2>3 DEF Working
  <2>10. op'.mem.results = st.results \cup {r.pending}
    BY <2>2, <2>5, <2>6
  <2>11. /\ r.pending = cell[c].pending /\ r.done = cell[c].done
         /\ r.pc = "sent" /\ r.pending \notin st.results
    BY <1>1, <2>2, <2>5, <2>8
  <2>12. call'.cell = c /\ call'.accepts = TRUE /\ call'.drops = FALSE
    BY <2>3
  <2>13. up' = TRUE /\ UNCHANGED <<st, grants>> /\ r \in CellState
    BY <2>2, <2>6
  <2> QED
    BY <2>1, <2>7, <2>9, <2>10, <2>11, <2>12, <2>13, CallStep
<1>5. CASE SendRefused(c)
  <2>1. PICK r : r = [o EXCEPT !.pc = "sent"] /\ cell' = [cell EXCEPT ![c] = r]
    BY <1>1, <1>5 DEF SendRefused, Goes, Become
  <2>2. r \in CellState /\ r.pc = "sent" /\ r.pending = o.pending /\ r.done = o.done
    BY <1>1, <2>1, GoesForm DEF PcState
  <2>3. call'.cell = c /\ call'.accepts = FALSE
    BY <1>5 DEF SendRefused, Calls
  <2>4. o.pc = "send" /\ SubmitRejected(o.pending)
    BY <1>1, <1>5 DEF SendRefused, At
  <2>5. PICK n : n = ExpireLeasesIn(st) /\ n.results = st.results
    BY Expiry
  <2>6. Begin(n, EventSaves, {}) /\ up' = TRUE /\ o.pending \notin st.results
    BY <2>4, <2>5 DEF SubmitRejected, Ready, Inv
  <2>7. op'.mem = n /\ op'.todo = <<"event", "save">> /\ UNCHANGED <<st, grants>>
    BY <2>6 DEF Begin, EventSaves
  <2>8. op' # Idle
    BY <2>7, OwedWrites, IdleOp
  <2>9. Working(c, r)
    BY <1>2, <2>2, <2>4 DEF Working
  <2>10. op'.mem.results = st.results
    BY <2>5, <2>7
  <2> QED
    BY <1>1, <2>1, <2>2, <2>3, <2>6, <2>7, <2>8, <2>9, <2>10, CallStep
<1> QED
  BY <1>3, <1>4, <1>5

-----------------------------------------------------------------------------
\* The heartbeats, the operators' commands, the writes an operation owes and
\* the clock.
LEMMA OtherSteps ==
  ASSUME Inv, Leased, Calling, Exact, cell' = cell,
         \/ (\E c \in Cells : Beats(c))
         \/ call' = call /\ (\E l \in {"running", "paused"} : SetLifecycle(l))
         \/ call' = call /\ (Finalize(FALSE) \/ Recover \/ WriteEvent \/ WriteVersion)
         \/ call' = call /\ (\E s \in Shards : LeaseRunsOut(s))
  PROVE  Leased' /\ Calling' /\ Exact'
<1>1. ASSUME op = Idle, call' = call, up' = TRUE, NEW m, NEW t, NEW f, Begin(m, t, f),
             m.results = st.results,
             t \in {<<"save">>, <<"event", "save">>, <<"event", "raise">>}
      PROVE  Leased' /\ Calling' /\ Exact'
  <2>1. op'.mem = m /\ op'.todo = t /\ UNCHANGED <<st, grants>>
    BY <1>1 DEF Begin
  <2>2. op' # Idle
    BY <1>1, <2>1, OwedWrites, IdleOp
  <2> QED
    BY <1>1, <2>1, <2>2, OtherStep
<1>2. ASSUME NEW c \in Cells, Beats(c) PROVE Leased' /\ Calling' /\ Exact'
  <2>1. PICK g : Heartbeat(g) \/ LateHeartbeat(g)
    BY <1>2 DEF Beats
  <2>2. PICK n : n = ExpireLeasesIn(st) /\ n.results = st.results
    BY Expiry
  <2>3. op = Idle /\ up' = TRUE
    BY <2>1 DEF Heartbeat, LateHeartbeat, Ready, Inv
  <2>4. PICK t, f : t \in {<<"event", "save">>, <<"event", "raise">>} /\ Begin(n, t, f)
    BY <2>1, <2>2 DEF Heartbeat, LateHeartbeat, EventSaves
  <2>5. call' = call
    BY <1>2, <2>3 DEF Beats, Calling
  <2> QED
    BY <1>1, <2>2, <2>3, <2>4, <2>5
<1>3. ASSUME call' = call, (\E l \in {"running", "paused"} : SetLifecycle(l)) \/ Finalize(FALSE)
      PROVE  Leased' /\ Calling' /\ Exact'
  <2>1. PICK l : Begin([st EXCEPT !.lifecycle = l], EventSaves, {}) /\ Ready /\ up' = up
    BY <1>3 DEF SetLifecycle, Finalize
  <2>2. PICK m : m = [st EXCEPT !.lifecycle = l]
    OBVIOUS
  <2>3. m.results = st.results
    BY <2>2, Saved DEF CampaignState
  <2>4. Begin(m, <<"event", "save">>, {}) /\ op = Idle /\ up' = TRUE
    BY <2>1, <2>2 DEF EventSaves, Ready, Inv
  <2> QED
    BY <1>1, <1>3, <2>3, <2>4
<1>4. ASSUME call' = call, Recover PROVE Leased' /\ Calling' /\ Exact'
  <2>1. PICK m : m = st
    OBVIOUS
  <2>2. Begin(m, <<"event", "save">>, {}) /\ op = Idle /\ up' = TRUE /\ m.results = st.results
    BY <1>4, <2>1 DEF Recover, EventSaves, Calling
  <2> QED
    BY <1>1, <1>4, <2>2
<1>5. ASSUME call' = call, WriteEvent \/ WriteVersion PROVE Leased' /\ Calling' /\ Exact'
  <2>1. op.todo # <<>> /\ op # Idle /\ UNCHANGED <<st, grants, up>>
    BY <1>5, IdleOp DEF WriteEvent, WriteVersion, Next1
  <2>2. IsOp(op) /\ Owing
    BY <2>1, TodoCases
  <2>3. op'.mem = op.mem /\ op'.todo = Tail(op.todo)
    BY <1>5, <2>2 DEF IsOp, WriteEvent, WriteVersion
  <2>4. Head(op.todo) = "event" \/ Head(op.todo) = "version"
    BY <1>5 DEF WriteEvent, WriteVersion, Next1
  <2>5. op'.todo \in {<<"save">>, <<"version", "event", "save">>, <<"raise">>, <<"event", "save">>}
    BY <2>2, <2>3, <2>4, Heads, Tails, Zenon
  <2>6. op' # Idle
    BY <2>5, WrittenTodo, IdleOp
  <2> QED
    BY <1>5, <2>1, <2>3, <2>6, OtherStep DEF Calling
<1>6. ASSUME call' = call, NEW s \in Shards, LeaseRunsOut(s) PROVE Leased' /\ Calling' /\ Exact'
  BY <1>6, OtherStep DEF LeaseRunsOut, Calling
<1> QED
  BY <1>2, <1>3, <1>4, <1>5, <1>6

-----------------------------------------------------------------------------
\* An operation ends for which no Cell waits.
LEMMA EndStep ==
  ASSUME Inv, Leased, Calling, Exact, op' = Idle, call' = NoCall, cell' = cell,
         st'.results = st.results, grants \subseteq grants'
  PROVE  Leased' /\ Calling' /\ Exact'
<1>1. Leased'
  BY DEF Leased, Working
<1>2. Calling'
  BY DEF Calling, NoCall
<1>3. Exact'
  BY DEF Exact, CountedOf, AcceptedOf
<1> QED
  BY <1>1, <1>2, <1>3

\* The request of Cell c ends, and with it the Cell's wait.  The other Cells
\* are not concerned: an update that is accepted is the one c sent.
LEMMA EndFor ==
  ASSUME Inv, Leased, Calling, Exact, op' = Idle, call' = NoCall, grants \subseteq grants',
         NEW c \in Cells, NEW r \in CellState, cell' = [cell EXCEPT ![c] = r],
         NEW X \in SUBSET {cell[c].pending}, st'.results = st.results \cup X,
         X # {} => cell[c].pending \in grants /\ cell[c].pending.cell = c,
         Working(c, r)', CountedOf(c, r)'
  PROVE  Leased' /\ Calling' /\ Exact'
<1>1. cell'[c] = r /\ \A d \in Cells : d # c => cell'[d] = cell[d]
  BY CellParts
<1>2. \A g \in X : g.cell = c /\ g \in Grant
  BY Saved
<1>3. Leased'
  <2>1. cell' \in [Cells -> CellState]
    BY DEF Leased
  <2>2. ASSUME NEW d \in Cells, d # c PROVE Working(d, cell[d])'
    <3>1. Working(d, cell[d]) /\ cell'[d] = cell[d]
      BY <1>1, <2>2 DEF Leased
    <3> QED
      BY <1>2, <2>2, <3>1 DEF Working
  <2> QED
    BY <1>1, <2>1, <2>2 DEF Leased
<1>4. Calling'
  BY DEF Calling, NoCall
<1>5. Exact'
  <2>1. ASSUME NEW d \in Cells, d # c PROVE CountedOf(d, cell[d])'
    <3>1. CountedOf(d, cell[d]) /\ Working(d, cell[d]) /\ cell'[d] = cell[d]
      BY <1>1, <2>1 DEF Leased, Exact
    <3>2. AcceptedOf(d)' = AcceptedOf(d)
      BY <1>2, <2>1 DEF AcceptedOf
    <3>3. cell[d].pending \notin X
      BY <1>2, <2>1, <3>1, NoLease DEF Working
    <3> QED
      BY <3>1, <3>2, <3>3 DEF CountedOf
  <2> QED
    BY <1>1, <2>1 DEF Exact
<1> QED
  BY <1>3, <1>4, <1>5

\* What the coordinator accepted of c once the request of c is answered.
LEMMA AcceptedAfter ==
  ASSUME Inv, NEW c \in Cells, NEW p, NEW b \in BOOLEAN, NEW d \in Nat, IsFiniteSet(AcceptedOf(c)),
         d = Cardinality(AcceptedOf(c)), p.cell = c, p \notin st.results,
         st'.results = st.results \cup (IF b THEN {p} ELSE {})
  PROVE  /\ IsFiniteSet(AcceptedOf(c)')
         /\ Cardinality(AcceptedOf(c)') = IF b THEN d + 1 ELSE d
<1>1. p \notin AcceptedOf(c)
  BY DEF AcceptedOf
<1>2. AcceptedOf(c)' = IF b THEN AcceptedOf(c) \cup {p} ELSE AcceptedOf(c)
  BY DEF AcceptedOf
<1> QED
  BY <1>1, <1>2, FS_AddElement

\* A lease the copy grants is not one whose update it has accepted.
LEMMA GrantedUnaccepted ==
  ASSUME NEW m, Good(m), ~m.complete, NEW g \in Leases(m)
  PROVE  g \notin m.results
<1>1. PICK s \in Shards : /\ m.work[s].state = "leased"
                          /\ g = [cell |-> m.work[s].cell, version |-> m.version, shard |-> s,
                                  gen |-> m.work[s].gen]
  BY DEF Leases
<1>2. g.version = m.version /\ g.shard = s
  BY <1>1
<1>3. ASSUME g \in RoundResults(m) PROVE FALSE
  <2>1. m.work[g.shard].state = "accepted"
    BY <1>3, ResultOfRound DEF Good, Sound
  <2> QED
    BY <1>1, <1>2, <2>1
<1> QED
  BY <1>2, <1>3 DEF RoundResults

-----------------------------------------------------------------------------
\* The save, and what its Cell makes of the answer.
LEMMA SaveSteps ==
  ASSUME Inv, Leased, Calling, Exact, SaveAnswer
  PROVE  Leased' /\ Calling' /\ Exact'
<1>1. PICK m : m = op.mem
  OBVIOUS
<1>2. /\ Good(m) /\ op # Idle /\ op' = Idle /\ st' = m /\ call' = NoCall
      /\ grants' = grants \cup (IF m.complete THEN {} ELSE Leases(m))
  BY <1>1, SaveFacts DEF SaveAnswer
<1>3. CASE call.cell = NoCell
  <2>1. cell' = cell /\ m.results = st.results
    BY <1>1, <1>2, <1>3 DEF SaveAnswer, Calling
  <2> QED
    BY <1>2, <2>1, EndStep
<1>4. CASE call.cell # NoCell
  <2>1. PICK c \in Cells : c = call.cell /\ c # NoCell
    BY <1>4 DEF Calling
  <2>2. PICK o : o = cell[c] /\ o \in CellState /\ o.done \in Nat
    BY CellParts
  <2>3. Working(c, o) /\ CountedOf(c, o) /\ Waiting(c, o)
    BY <2>1, <2>2 DEF Leased, Exact, Calling
  <2>4. PICK b : b = call.accepts /\ b \in BOOLEAN
    BY DEF Calling
  <2>5. PICK p : p = o.pending
    OBVIOUS
  <2>6. PICK X : X = IF b THEN {p} ELSE {}
    OBVIOUS
  <2>7. st'.results = st.results \cup X /\ X \in SUBSET {cell[c].pending}
    BY <1>1, <1>2, <2>2, <2>3, <2>4, <2>5, <2>6 DEF Waiting
  <2>8. /\ o.pc \in {"claimed", "sent"} /\ (o.pc = "claimed" => ~b /\ p = NoWork)
        /\ (o.pc = "sent" => p \notin st.results /\ p \in grants /\ p.cell = c)
    BY <2>3, <2>4, <2>5 DEF Waiting, Working
  <2>9. NoWork \notin st.results /\ NoWork \notin X
    BY <2>5, <2>6, <2>8, NoLease, Saved
  <2>10. X # {} => cell[c].pending \in grants /\ cell[c].pending.cell = c
    BY <2>2, <2>5, <2>6, <2>8
  <2>11. p \notin st.results /\ IsFiniteSet(AcceptedOf(c)) /\ o.done = Cardinality(AcceptedOf(c))
    BY <2>2, <2>3, <2>5, <2>8, <2>9 DEF CountedOf
  <2>12. /\ IsFiniteSet(AcceptedOf(c)')
         /\ Cardinality(AcceptedOf(c)') = IF b THEN o.done + 1 ELSE o.done
    <3>1. CASE b
      <4>1. o.pc = "sent"
        BY <2>8, <3>1
      <4> QED
        BY <2>2, <2>4, <2>6, <2>7, <2>8, <2>11, <3>1, <4>1, AcceptedAfter, ZenonT(40)
    <3>2. CASE ~b
      BY <2>6, <2>7, <2>11, <3>2 DEF AcceptedOf
    <3> QED
      BY <3>1, <3>2
  <2>13. ASSUME NEW r \in CellState, cell' = [cell EXCEPT ![c] = r], Working(c, r)',
                \/ r.pending = p /\ r.done = o.done
                \/ b /\ r.pending = NoWork /\ r.done = o.done + 1
                \/ ~b /\ r.pending = NoWork /\ r.done = o.done
         PROVE  Leased' /\ Calling' /\ Exact'
    <3>1. CountedOf(c, r)'
      <4>1. r.pending \in st'.results <=> b /\ r.pending = p
        BY <2>6, <2>7, <2>9, <2>11, <2>13
      <4>2. r.done + (IF r.pending \in st'.results THEN 1 ELSE 0) = Cardinality(AcceptedOf(c)')
        BY <2>2, <2>4, <2>8, <2>6, <2>9, <2>12, <2>13, <4>1
      <4> QED
        BY <2>12, <4>2 DEF CountedOf
    <3> QED
      BY <1>2, <2>7, <2>10, <2>13, <3>1, EndFor
  <2>14. Become(c, AfterAnswer(c)) \/ Stops(c)
    BY <2>1 DEF SaveAnswer
  <2>15. ASSUME NEW r \in CellState, cell' = [cell EXCEPT ![c] = r], r.pc \in {"idle", "off"},
                r.pending = p, r.done = o.done
         PROVE  Leased' /\ Calling' /\ Exact'
    <3>1. r.pending = NoWork \/ (r.pending \in grants /\ r.pending.cell = c)
      BY <2>8, <2>15
    <3>2. Working(c, r)'
      BY <1>2, <2>15, <3>1 DEF Working
    <3> QED
      BY <2>13, <2>15, <3>2
  <2>16. CASE Stops(c)
    <3>1. PICK r : r = [o EXCEPT !.pc = "off", !.work = NoWork] /\ cell' = [cell EXCEPT ![c] = r]
      BY <2>2, <2>16 DEF Stops, Become
    <3>2. r \in CellState /\ r.pc = "off" /\ r.pending = o.pending /\ r.done = o.done
      BY <2>2, <3>1, StopsForm
    <3> QED
      BY <2>5, <2>15, <3>1, <3>2
  <2>17. CASE Become(c, AfterAnswer(c))
    <3>1. PICK r : r = AfterAnswer(c) /\ cell' = [cell EXCEPT ![c] = r]
      BY <2>17 DEF Become
    <3>2. \/ \E q \in {"idle", "off"} : r = [o EXCEPT !.pc = q]
          \/ /\ o.pc = "claimed" /\ ~m.complete /\ Grants(c) # {}
             /\ r = [o EXCEPT !.pc = "train", !.work = CHOOSE g \in Grants(c) : TRUE]
          \/ o.pc = "sent" /\ b /\ r = Counted(o)
          \/ o.pc = "sent" /\ ~b /\ r = Dropped(o)
      <4>1. PICK w : w = CHOOSE g \in Grants(c) : TRUE
        OBVIOUS
      <4>2. PICK i, e, t, k, d : /\ i = [o EXCEPT !.pc = "idle"]
                              /\ e = [o EXCEPT !.pc = "off"]
                              /\ t = [o EXCEPT !.pc = "train", !.work = w]
                              /\ k = Counted(o) /\ d = Dropped(o)
        OBVIOUS
      <4>3. r = CASE o.pc = "claimed" /\ m.complete -> e
                  [] o.pc = "claimed" /\ ~m.complete /\ Grants(c) = {} -> i
                  [] o.pc = "claimed" /\ ~m.complete /\ Grants(c) # {} -> t
                  [] o.pc = "sent" /\ call.accepts -> k
                  [] o.pc = "sent" /\ call.drops   -> d
                  [] OTHER                         -> e
        BY <1>1, <2>2, <3>1, <4>1, <4>2, Zenon DEF AfterAnswer
      <4>4. b => ~call.drops
        BY <2>4 DEF Calling
      <4>5. \/ r = i \/ r = e
            \/ o.pc = "claimed" /\ ~m.complete /\ Grants(c) # {} /\ r = t
            \/ o.pc = "sent" /\ b /\ r = k
            \/ o.pc = "sent" /\ ~b /\ r = d
        BY <2>4, <4>3, <4>4
      <4> QED
        BY <4>1, <4>2, <4>5
    <3>3. CASE \E q \in {"idle", "off"} : r = [o EXCEPT !.pc = q]
      <4>1. PICK q \in PcState : q \in {"idle", "off"} /\ r = [o EXCEPT !.pc = q]
        BY <3>3 DEF PcState
      <4>3. r \in CellState /\ r.pc = q /\ r.pending = o.pending /\ r.done = o.done
        BY <2>2, <4>1, GoesForm
      <4> QED
        BY <2>5, <2>15, <3>1, <4>1, <4>3
    <3>4. CASE /\ o.pc = "claimed" /\ ~m.complete /\ Grants(c) # {}
               /\ r = [o EXCEPT !.pc = "train", !.work = CHOOSE g \in Grants(c) : TRUE]
      <4>1. PICK w : w = CHOOSE g \in Grants(c) : TRUE
        OBVIOUS
      <4>2. w \in Leases(m) /\ w.cell = c
        BY <1>1, <3>4, <4>1 DEF Grants
      <4>3. w \in grants' /\ w \notin m.results /\ w \in Grant
        <5>1. w \in grants' /\ w \notin m.results
          BY <1>2, <3>4, <4>2, GrantedUnaccepted
        <5>2. grants' \subseteq Grant
          BY <1>2, SaveInv DEF SaveAnswer, Inv, Granting
        <5> QED
          BY <5>1, <5>2
      <4>4. r = [o EXCEPT !.pc = "train", !.work = w]
        BY <3>4, <4>1
      <4>5. r \in CellState /\ r.pc = "train" /\ r.work = w /\ r.pending = p /\ r.done = o.done
        BY <2>2, <2>5, <4>3, <4>4 DEF CellState, PcState
      <4>6. Working(c, r)'
        BY <1>2, <2>8, <3>4, <4>2, <4>3, <4>5 DEF Working
      <4> QED
        BY <2>13, <3>1, <4>5, <4>6
    <3>5. CASE o.pc = "sent" /\ ((b /\ r = Counted(o)) \/ (~b /\ r = Dropped(o)))
      <4>1. /\ r \in CellState /\ r.pc \in {"idle", "off"} /\ r.pending = NoWork
            /\ \/ b /\ r.done = o.done + 1
               \/ ~b /\ r.done = o.done
        <5>1. CASE b /\ r = Counted(o)
          BY <2>2, <5>1, CountedForm
        <5>2. CASE ~b /\ r = Dropped(o)
          BY <2>2, <5>2, DroppedForm
        <5> QED
          BY <3>5, <5>1, <5>2
      <4>2. Working(c, r)'
        BY <4>1 DEF Working
      <4> QED
        BY <2>13, <3>1, <4>1, <4>2
    <3> QED
      BY <3>2, <3>3, <3>4, <3>5
  <2> QED
    BY <2>14, <2>16, <2>17
<1> QED
  BY <1>3, <1>4

\* The operation raises or the coordinator dies.
LEMMA FailSteps ==
  ASSUME Inv, Leased, Calling, Exact, Raise \/ Crash, Fails
  PROVE  Leased' /\ Calling' /\ Exact'
<1>1. op' = Idle /\ call' = NoCall /\ st' = st /\ grants' = grants
  BY DEF Raise, Crash, Fails
<1>2. CASE call.cell = NoCell
  BY <1>1, <1>2, EndStep DEF Fails
<1>3. CASE call.cell # NoCell
  <2>1. PICK c \in Cells : c = call.cell /\ Stops(c)
    BY <1>3 DEF Calling, Fails
  <2>2. PICK o : o = cell[c] /\ o \in CellState
    BY CellParts
  <2>3. PICK r : r = [o EXCEPT !.pc = "off", !.work = NoWork] /\ cell' = [cell EXCEPT ![c] = r]
    BY <2>1, <2>2 DEF Stops, Become
  <2>4. r \in CellState /\ r.pc = "off" /\ r.pending = o.pending /\ r.done = o.done
    BY <2>2, <2>3, StopsForm
  <2>5. Working(c, o) /\ CountedOf(c, o)
    BY <2>2 DEF Leased, Exact
  <2>6. Working(c, r)' /\ CountedOf(c, r)'
    BY <1>1, <2>4, <2>5 DEF Working, CountedOf, AcceptedOf
  <2>7. PICK X : X = {}
    OBVIOUS
  <2>8. X \in SUBSET {cell[c].pending} /\ st'.results = st.results \cup X
    BY <1>1, <2>7
  <2> QED
    BY <1>1, <2>3, <2>4, <2>6, <2>7, <2>8, EndFor
<1> QED
  BY <1>2, <1>3

-----------------------------------------------------------------------------
LEMMA CellInit == TInit => CInv
<1> SUFFICES ASSUME TInit PROVE CInv
  OBVIOUS
<1>1. Inv /\ st.results = {} /\ op = Idle /\ call = NoCall
  BY InitInv DEF TInit, Init, NewCampaign
<1>2. Fresh \in CellState /\ Fresh.pc = "off" /\ Fresh.pending = NoWork /\ Fresh.done = 0
  BY DEF Fresh, CellState, PcState
<1>3. Leased
  BY <1>2 DEF TInit, Leased, Working
<1>4. Calling
  BY <1>1 DEF TInit, Init, Calling, NoCall
<1>5. Exact
  <2>1. \A c \in Cells : AcceptedOf(c) = {}
    BY <1>1 DEF AcceptedOf
  <2> QED
    BY <1>1, <1>2, <2>1, FS_EmptySet DEF TInit, Exact, CountedOf
<1> QED
  BY <1>1, <1>3, <1>4, <1>5 DEF CInv

\* The Cells ask for what the coordinator's own specification lets any Cell
\* ask for; the clock alone runs further than its bound.
LEMMA CellsAsk ==
  ASSUME Inv, Leased, [TNext]_tvars
  PROVE  [Next]_vars \/ \E s \in Shards : LeaseRunsOut(s)
<1>1. ASSUME NEW c \in Cells, Start(c) \/ GoesOn(c) \/ Beats(c) PROVE [Next]_vars
  <2>1. PICK o : o = cell[c] /\ Working(c, o)
    BY DEF Leased
  <2>2. \A g : g \in grants /\ g.cell = c => g \in {x \in grants : x.cell = c}
    OBVIOUS
  <2>3. CASE Claim(c)
    BY <2>3 DEF Claim, Next, CellStep
  <2>4. CASE SendAccepted(c) \/ SendRefused(c)
    <3>1. PICK g : g = o.pending
      OBVIOUS
    <3>2. (SubmitAccepted(g) \/ SubmitRejected(g)) /\ g \in grants /\ g.cell = c
      BY <2>1, <2>4, <3>1 DEF SendAccepted, SendRefused, At, Working
    <3> QED
      BY <2>2, <3>2 DEF Next, CellStep
  <2>5. CASE Beats(c)
    <3>1. PICK g : g = IF o.pc = "train" THEN o.work ELSE o.pending
      OBVIOUS
    <3>2. (Heartbeat(g) \/ LateHeartbeat(g)) /\ o.pc \in {"train", "send"}
      BY <2>1, <2>5, <3>1 DEF Beats, At
    <3>3. g \in grants /\ g.cell = c
      BY <2>1, <3>1, <3>2 DEF Working
    <3> QED
      BY <2>2, <3>2, <3>3 DEF Next, CellStep
  <2>6. CASE \/ Start(c) \/ Breaks(c) \/ Join(c) \/ Trained(c) \/ SendReplay(c)
             \/ SendNothing(c)
    BY <2>6 DEF Start, Breaks, Join, Trained, SendReplay, SendNothing, CoordinatorIdle
  <2> QED
    BY <1>1, <2>3, <2>4, <2>5, <2>6 DEF GoesOn
<1>2. ASSUME NEW c \in Cells, Killed(c) \/ Cleanup(c) \/ PauseCell(c) \/ ResumeCell(c)
      PROVE  [Next]_vars
  BY <1>2 DEF Killed, Cleanup, PauseCell, ResumeCell, CoordinatorIdle
<1>3. ASSUME \/ SaveAnswer \/ Raise \/ Crash \/ SetLifecycle("paused") \/ SetLifecycle("running")
             \/ Finalize(FALSE) \/ Recover \/ WriteEvent \/ WriteVersion
      PROVE  [Next]_vars
  BY <1>3 DEF SaveAnswer, Next
<1>4. CASE UNCHANGED tvars
  BY <1>4 DEF tvars
<1> QED
  BY <1>1, <1>2, <1>3, <1>4 DEF TNext, RunsOut

LEMMA CellNext == ASSUME CInv, [TNext]_tvars PROVE CInv'
<1>1. Inv /\ Leased /\ Calling /\ Exact
  BY DEF CInv
<1>2. Inv'
  BY <1>1, CellsAsk, NextInv, ClockInv
<1>3. ASSUME NEW c \in Cells,
             \/ Start(c) \/ GoesOn(c) \/ Beats(c) \/ Killed(c) \/ Cleanup(c)
             \/ PauseCell(c) \/ ResumeCell(c)
      PROVE  Leased' /\ Calling' /\ Exact'
  <2>1. CASE Beats(c)
    BY <1>1, <2>1, OtherSteps DEF Beats
  <2>2. CASE Claim(c) \/ SendAccepted(c) \/ SendRefused(c)
    BY <1>1, <2>2, CallSteps
  <2>3. CASE \/ Start(c) \/ Breaks(c) \/ Join(c) \/ Trained(c) \/ SendReplay(c)
             \/ SendNothing(c) \/ Killed(c) \/ PauseCell(c) \/ ResumeCell(c) \/ Cleanup(c)
    BY <1>1, <2>3, LocalSteps
  <2> QED
    BY <1>3, <2>1, <2>2, <2>3 DEF GoesOn
<1>4. ASSUME UNCHANGED <<cell, call>>,
             \/ SetLifecycle("paused") \/ SetLifecycle("running")
             \/ Finalize(FALSE) \/ Recover \/ WriteEvent \/ WriteVersion
             \/ \E s \in Shards : LeaseRunsOut(s)
      PROVE  Leased' /\ Calling' /\ Exact'
  BY <1>1, <1>4, OtherSteps
<1>5. ASSUME UNCHANGED tvars PROVE Leased' /\ Calling' /\ Exact'
  BY <1>1, <1>5 DEF tvars, cellVars, vars, Leased, Calling, Exact, Working, Waiting, CountedOf,
     AcceptedOf
<1>6. Leased' /\ Calling' /\ Exact'
  BY <1>1, <1>3, <1>4, <1>5, SaveSteps, FailSteps DEF TNext, cellVars, RunsOut
<1> QED
  BY <1>2, <1>6 DEF CInv

-----------------------------------------------------------------------------
\* The inductive invariant of the Cells and their coordinator.
THEOREM CellInvariance == TSpec => []CInv
<1>1. CInv /\ [TNext]_tvars => CInv'
  BY CellNext
<1> QED
  BY <1>1, CellInit, PTL DEF TSpec

\* Exactly-once accounting: whatever answers are lost and whoever restarts, a
\* Cell has counted each of its accepted updates once, except the one it
\* still holds.
THEOREM CountsStayExact == TSpec => []CountsExact
<1>1. CInv => CountsExact
  BY DEF CInv, Exact, CountedOf, AcceptedOf, CountsExact
<1> QED
  BY <1>1, CellInvariance, PTL
\* The campaign that the Cells drive, with answers lost and processes killed,
\* is to its operators the one that Campaign promises.
THEOREM CellsImplementCampaign == TSpec => CampaignSpec
<1>1. TInit => Tools!CInit
  BY DEF TInit, Init, NewCampaign, Tools!CInit
<1>2. CInv /\ [TNext]_tvars => [Tools!CNext]_<<st.version, st.complete, st.lifecycle>>
  <2> SUFFICES ASSUME CInv, [TNext]_tvars
               PROVE  Tools!CNext \/ UNCHANGED <<st.version, st.complete, st.lifecycle>>
    OBVIOUS
  <2>1. [Next]_vars \/ st' = st
    BY CellsAsk DEF CInv, LeaseRunsOut
  <2>2. CASE st' = st
    BY <2>2
  <2>3. CASE Follows(st, st')
    <3>1. Moves(st, st')
      BY <2>3 DEF Follows
    <3> QED
      BY <3>1 DEF Moves, Tools!CNext, Tools!Advance, Tools!Control, Tools!Finalize
  <2> QED
    BY <2>1, <2>2, <2>3, SavedFollows DEF CInv
<1> QED
  BY <1>1, <1>2, CellInvariance, PTL DEF TSpec, CampaignSpec, Tools!CSpec, Tools!cvars
=============================================================================
