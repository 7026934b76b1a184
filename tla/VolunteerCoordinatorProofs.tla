---------------------- MODULE VolunteerCoordinatorProofs ----------------------
(***************************************************************************)
(* Safety of the coordinator's rounds, for any number of Cells, shards,    *)
(* rounds, generations, crashes and pauses, and that to the tools around   *)
(* it a campaign is the one of Campaign.                                   *)
(*                                                                         *)
(* The state file is replaced as a whole, so what has to be kept is kept   *)
(* by the operations on their copy: a copy about to be saved is as good a  *)
(* campaign as the saved one (Good) and a successor of it (Follows).       *)
(***************************************************************************)
EXTENDS VolunteerCoordinator, FiniteSetTheorems, SequenceTheorems, TLAPS

CampaignState ==
    [version : Version, work : [Shards -> WorkState], results : SUBSET Grant,
     rounds : Seq(SUBSET Grant), lifecycle : {"running", "paused", "finalized"},
     complete : BOOLEAN]

-----------------------------------------------------------------------------
\* A campaign in good order: the parts of TypeOK, RoundsQuorate, LineageIntact
\* and AcceptedWasHeld that are about one campaign, and why the round in
\* progress will be one more good round.
Owned(m) == \A s \in Shards : m.work[s].state # "queued" => m.work[s].cell \in Cells

Quorate(m) ==
    \A i \in 1..Len(m.rounds) :
        /\ m.rounds[i] \subseteq m.results
        /\ Cardinality(m.rounds[i]) = Quorum
        /\ \A g, h \in m.rounds[i] :
              g.version = i - 1 /\ (g # h => g.cell # h.cell /\ g.shard # h.shard)

Versioned(m) ==
    /\ m.version = Len(m.rounds)
    /\ m.complete <=> m.version = TargetRounds
    /\ \A g \in m.results :
          /\ g.version <= m.version
          /\ g.version < m.version => g \in m.rounds[g.version + 1]

InRound(m) ==
    /\ \A g \in RoundResults(m) :
          m.work[g.shard] = [state |-> "accepted", gen |-> g.gen, cell |-> g.cell]
    /\ \A s \in Shards : m.work[s].state = "accepted" =>
          \E g \in RoundResults(m) : g.shard = s
    /\ \A g, h \in RoundResults(m) : g.cell = h.cell => g = h
    /\ IsFiniteSet(RoundResults(m))

Sound(m) == m \in CampaignState /\ Owned(m) /\ Quorate(m) /\ Versioned(m)
            /\ (~m.complete => InRound(m))
Good(m)  == Sound(m) /\ (~m.complete => Cardinality(RoundResults(m)) < Quorum)

\* What a saved campaign n may be after the saved campaign m.
Prefixed(m, n) == SubSeq(n.rounds, 1, Len(m.rounds)) = m.rounds

Moves(m, n) ==
    \/ n.version = m.version /\ n.complete = m.complete
       /\ \/ n.lifecycle = m.lifecycle \/ n.lifecycle = "finalized"
          \/ m.lifecycle # "finalized" /\ n.lifecycle \in {"running", "paused"}
    \/ ~m.complete /\ n.version = m.version + 1 /\ n.lifecycle = m.lifecycle
       /\ n.complete = (n.version = TargetRounds)

\* A work unit is leased again only at a later generation.
Regranted(w, x) == x.gen >= w.gen /\ (x.state = "leased" => x = w \/ x.gen > w.gen)

Works(m, n) ==
    \/ n.version = m.version /\ \A s \in Shards : Regranted(m.work[s], n.work[s])
    \/ n.version = m.version + 1 /\ (n.complete \/ n.work = FreshRound)

Follows(m, n) == m.results \subseteq n.results /\ Prefixed(m, n) /\ Moves(m, n) /\ Works(m, n)

-----------------------------------------------------------------------------
\* Lemmas about the operators of the model.
LEMMA Constant == /\ Quorum \in Nat \ {0} /\ TargetRounds \in Nat \ {0}
                  /\ Version \subseteq Nat /\ \A v \in Version : v <= TargetRounds
                  /\ NoCell \notin Cells
BY CoordinatorAssumption DEF Version

LEMMA NewCampaignGood == Good(NewCampaign)
<1> DEFINE m == NewCampaign
<1>1. m \in CampaignState
  BY Constant DEF NewCampaign, CampaignState, FreshRound, WorkState, Version
<1>2. m.version = 0 /\ m.rounds = <<>> /\ m.results = {} /\ m.complete = FALSE /\ m.work = FreshRound
  BY DEF NewCampaign
<1>3. RoundResults(m) = {}
  BY <1>2 DEF RoundResults
<1>4. Owned(m) /\ Quorate(m) /\ Versioned(m)
  BY <1>2, Constant DEF Owned, Quorate, Versioned, FreshRound
<1>5. InRound(m) /\ Cardinality(RoundResults(m)) < Quorum
  BY <1>2, <1>3, FS_EmptySet, Constant DEF InRound, FreshRound
<1> QED
  BY <1>1, <1>4, <1>5 DEF Good, Sound

\* What the expiry pass leaves: everything but the work, and a work unit as it
\* was or, if it was leased, queued at the same generation.
Requeued(m, n) ==
    /\ n \in CampaignState
    /\ n.version = m.version /\ n.results = m.results /\ n.rounds = m.rounds
    /\ n.lifecycle = m.lifecycle /\ n.complete = m.complete
    /\ \A s \in Shards :
          \/ n.work[s] = m.work[s]
          \/ m.work[s].state = "leased" /\ n.work[s].state = "queued" /\ n.work[s].gen = m.work[s].gen

LEMMA ExpiryRequeues ==
  ASSUME NEW m \in CampaignState PROVE Requeued(m, ExpireLeasesIn(m))
<1> DEFINE w == [s \in Shards |->
                   IF s \in ExpiredIn(m) THEN [m.work[s] EXCEPT !.state = "queued", !.cell = NoCell]
                   ELSE m.work[s]]
<1>1. \A s \in ExpiredIn(m) : m.work[s].state = "leased"
  BY DEF ExpiredIn
<1>2. \A s \in Shards : m.work[s] \in WorkState
  BY DEF CampaignState
<1>3. w \in [Shards -> WorkState]
  BY <1>2 DEF WorkState
<1>4. \A s \in Shards : \/ w[s] = m.work[s]
                        \/ m.work[s].state = "leased" /\ w[s].state = "queued" /\ w[s].gen = m.work[s].gen
  BY <1>1, <1>2 DEF WorkState
<1> HIDE DEF w
<1>5. ExpireLeasesIn(m) = [m EXCEPT !.work = w]
  BY DEF ExpireLeasesIn, w
<1> QED
  BY <1>3, <1>4, <1>5 DEF Requeued, CampaignState

LEMMA RequeuedGood == ASSUME NEW m, NEW n, Good(m), Requeued(m, n) PROVE Good(n)
<1>1. RoundResults(n) = RoundResults(m)
  BY DEF Requeued, RoundResults
<1>2. Owned(n) /\ Quorate(n) /\ Versioned(n)
  BY DEF Good, Sound, Owned, Quorate, Versioned, Requeued
<1>3. ~n.complete => InRound(n)
  <2> SUFFICES ASSUME ~n.complete PROVE InRound(n)
    OBVIOUS
  <2>1. InRound(m)
    BY DEF Requeued, Good, Sound
  <2>2. \A g \in RoundResults(m) : g.shard \in Shards
    BY DEF RoundResults, Good, Sound, CampaignState, Grant
  <2> QED
    BY <1>1, <2>1, <2>2 DEF InRound, Requeued
<1> QED
  BY <1>1, <1>2, <1>3 DEF Good, Sound, Requeued

LEMMA PrefixItself == ASSUME NEW m \in CampaignState, NEW n, n.rounds = m.rounds PROVE Prefixed(m, n)
BY SubSeqFull DEF Prefixed, CampaignState

LEMMA RequeuedFollows == ASSUME NEW m, NEW n, Good(m), Requeued(m, n) PROVE Follows(m, n)
<1>1. \A s \in Shards : m.work[s].gen \in Nat
  BY DEF Good, Sound, CampaignState, WorkState
<1>2. Works(m, n)
  BY <1>1 DEF Requeued, Works, Regranted
<1> QED
  BY <1>2, PrefixItself DEF Requeued, Follows, Moves, Good, Sound

\* The work unit of a result of the round in progress.
LEMMA ResultOfRound ==
  ASSUME NEW m \in CampaignState, InRound(m), NEW g \in RoundResults(m)
  PROVE  /\ g \in Grant /\ g.shard \in Shards /\ m.work[g.shard].state = "accepted"
         /\ m.work[g.shard] = [state |-> "accepted", gen |-> g.gen, cell |-> g.cell]
<1>1. g \in Grant /\ g.shard \in Shards
  BY DEF RoundResults, CampaignState, Grant
<1>2. m.work[g.shard] = [state |-> "accepted", gen |-> g.gen, cell |-> g.cell]
  BY DEF InRound
<1> QED
  BY <1>1, <1>2

-----------------------------------------------------------------------------
\* Copies that an operation makes after the expiry pass.

\* claim leases a queued work unit at its next generation.
LEMMA ClaimGood ==
  ASSUME NEW m, NEW n, Good(m), Requeued(m, n), NEW s \in Shards, n.work[s].state = "queued",
         NEW c \in Cells,
         NEW k, k = [n EXCEPT !.work[s] = [state |-> "leased", gen |-> @.gen + 1, cell |-> c]]
  PROVE  Good(k) /\ Follows(m, k)
<1>1. Good(n) /\ n \in CampaignState
  BY RequeuedGood DEF Requeued
<1>2. PICK w : w = [state |-> "leased", gen |-> n.work[s].gen + 1, cell |-> c]
  OBVIOUS
<1>3. k = [n EXCEPT !.work[s] = w]
  BY <1>2
<1>4. w \in WorkState /\ w.state = "leased" /\ w.cell = c /\ w.gen = n.work[s].gen + 1
  <2>1. n.work[s].gen \in Nat
    BY <1>1 DEF CampaignState, WorkState
  <2> QED
    BY <1>2, <2>1 DEF WorkState
<1>5. /\ k \in CampaignState
      /\ k.version = n.version /\ k.results = n.results /\ k.rounds = n.rounds
      /\ k.lifecycle = n.lifecycle /\ k.complete = n.complete
      /\ k.work[s] = w /\ \A t \in Shards : t # s => k.work[t] = n.work[t]
  BY <1>1, <1>3, <1>4 DEF CampaignState
<1>6. RoundResults(k) = RoundResults(n)
  BY <1>5 DEF RoundResults
<1>7. Good(k)
  <2>1. Owned(k) /\ Quorate(k) /\ Versioned(k)
    BY <1>1, <1>4, <1>5 DEF Good, Sound, Owned, Quorate, Versioned
  <2>2. ASSUME ~k.complete PROVE InRound(k)
    <3>1. InRound(n)
      BY <1>1, <1>5, <2>2 DEF Good, Sound
    <3>2. \A g \in RoundResults(n) : g.shard \in Shards /\ g.shard # s
      BY <1>1, <1>4, <3>1, ResultOfRound
    <3> QED
      BY <1>4, <1>5, <1>6, <3>1, <3>2 DEF InRound
  <2> QED
    BY <1>1, <1>5, <1>6, <2>1, <2>2 DEF Good, Sound
<1>8. Works(m, k)
  <2>1. \A t \in Shards : m.work[t].gen \in Nat
    BY DEF Good, Sound, CampaignState, WorkState
  <2>2. \A t \in Shards : Regranted(m.work[t], n.work[t])
    BY <2>1 DEF Requeued, Regranted
  <2>3. n.work[s].gen = m.work[s].gen
    BY DEF Requeued
  <2>4. Regranted(m.work[s], w)
    BY <1>4, <2>1, <2>3 DEF Regranted
  <2> QED
    BY <1>5, <2>2, <2>4 DEF Works, Requeued
<1> QED
  BY <1>5, <1>7, <1>8, PrefixItself, ZenonT(40) DEF Follows, Moves, Requeued, Good, Sound

\* The lifecycle commands change nothing else.
LEMMA LifecycleGood ==
  ASSUME NEW m, Good(m), NEW l \in {"running", "paused", "finalized"},
         NEW k, k = [m EXCEPT !.lifecycle = l],
         m.lifecycle # "finalized" \/ l = "finalized"
  PROVE  Good(k) /\ Follows(m, k)
<1>1. /\ k \in CampaignState
      /\ k.version = m.version /\ k.results = m.results /\ k.rounds = m.rounds
      /\ k.lifecycle = l /\ k.complete = m.complete /\ k.work = m.work
  BY DEF Good, Sound, CampaignState
<1>2. RoundResults(k) = RoundResults(m)
  BY <1>1 DEF RoundResults
<1>3. Good(k)
  BY <1>1, <1>2 DEF Good, Sound, Owned, Quorate, Versioned, InRound
<1>4. Works(m, k)
  <2>1. \A t \in Shards : m.work[t].gen \in Nat
    BY DEF Good, Sound, CampaignState, WorkState
  <2> QED
    BY <1>1, <2>1 DEF Works, Regranted
<1> QED
  BY <1>1, <1>3, <1>4, PrefixItself DEF Follows, Moves, Good, Sound

\* An accepted update: the round is as sound as before and has one result more.
LEMMA AcceptedSound ==
  ASSUME NEW m, NEW n, Good(m), Requeued(m, n), NEW g \in Grant, Holds(n, g),
         g \notin m.results, g.cell \notin AcceptedCells(m), NEW k, k = Accepted(n, g)
  PROVE  /\ Sound(k)
         /\ k.version = m.version /\ k.rounds = m.rounds /\ k.lifecycle = m.lifecycle
         /\ k.complete = FALSE /\ m.complete = FALSE /\ m.results \subseteq k.results
         /\ Cardinality(RoundResults(k)) \in Nat /\ Cardinality(RoundResults(k)) <= Quorum
         /\ \A s \in Shards : Regranted(m.work[s], k.work[s])
<1>1. Good(n) /\ n \in CampaignState /\ n.complete = FALSE /\ m.complete = FALSE
  BY RequeuedGood DEF Requeued, Holds, CampaignState
<1>2. /\ g.shard \in Shards /\ g.cell \in Cells /\ g.gen \in Nat /\ g.version = n.version
      /\ n.work[g.shard] = [state |-> "leased", gen |-> g.gen, cell |-> g.cell]
  BY DEF Grant, Holds
<1>3. /\ k \in CampaignState
      /\ k.version = n.version /\ k.rounds = n.rounds
      /\ k.lifecycle = n.lifecycle /\ k.complete = n.complete
      /\ k.results = n.results \cup {g}
      /\ k.work[g.shard] = [state |-> "accepted", gen |-> g.gen, cell |-> g.cell]
      /\ \A t \in Shards : t # g.shard => k.work[t] = n.work[t]
  <2>1. PICK w : w = [state |-> "accepted", gen |-> g.gen, cell |-> g.cell]
    OBVIOUS
  <2>2. w = [n.work[g.shard] EXCEPT !.state = "accepted"] /\ w \in WorkState
    BY <1>2, <2>1 DEF WorkState
  <2>3. k = [n EXCEPT !.results = n.results \cup {g}, !.work = [n.work EXCEPT ![g.shard] = w]]
    BY <1>1, <2>2 DEF Accepted, CampaignState
  <2>4. PICK v : v = [n.work EXCEPT ![g.shard] = w]
    OBVIOUS
  <2>5. /\ v \in [Shards -> WorkState] /\ v[g.shard] = w
        /\ \A t \in Shards : t # g.shard => v[t] = n.work[t]
    BY <1>1, <1>2, <2>2, <2>4 DEF CampaignState
  <2>6. PICK r : r = n.results \cup {g} /\ r \subseteq Grant
    <3>1. n.results \cup {g} \subseteq Grant
      BY <1>1 DEF CampaignState
    <3> QED
      BY <3>1
  <2>7. k = [n EXCEPT !.results = r, !.work = v]
    BY <2>3, <2>4, <2>6
  <2>8. /\ k \in CampaignState
        /\ k.version = n.version /\ k.rounds = n.rounds
        /\ k.lifecycle = n.lifecycle /\ k.complete = n.complete
        /\ k.results = r /\ k.work = v
    BY <1>1, <2>5, <2>6, <2>7 DEF CampaignState
  <2> QED
    BY <2>1, <2>5, <2>6, <2>8
<1>4. RoundResults(k) = RoundResults(n) \cup {g} /\ g \notin RoundResults(n)
  BY <1>2, <1>3 DEF RoundResults, Requeued
<1>5. InRound(n) /\ Cardinality(RoundResults(n)) < Quorum
  BY <1>1 DEF Good, Sound
<1>6. \A h \in RoundResults(n) : h.cell # g.cell /\ h.shard # g.shard /\ h.shard \in Shards
  <2>1. \A h \in RoundResults(n) : h.cell # g.cell
    BY DEF AcceptedCells, RoundResults, Requeued
  <2>2. \A h \in RoundResults(n) : n.work[h.shard].state = "accepted" /\ h.shard \in Shards
    BY <1>1, <1>5, ResultOfRound
  <2>3. n.work[g.shard].state = "leased"
    BY <1>2
  <2> QED
    BY <2>1, <2>2, <2>3
<1>7. InRound(k)
  <2>1. IsFiniteSet(RoundResults(k))
    BY <1>4, <1>5, FS_AddElement DEF InRound
  <2>2. \A h, q \in RoundResults(k) : h.cell = q.cell => h = q
    BY <1>4, <1>5, <1>6 DEF InRound
  <2>3. \A h \in RoundResults(k) :
          k.work[h.shard] = [state |-> "accepted", gen |-> h.gen, cell |-> h.cell]
    BY <1>3, <1>4, <1>5, <1>6, ZenonT(40) DEF InRound
  <2>4. \A s \in Shards : k.work[s].state = "accepted" => \E h \in RoundResults(k) : h.shard = s
    BY <1>3, <1>4, <1>5 DEF InRound
  <2> QED
    BY <2>1, <2>2, <2>3, <2>4 DEF InRound
<1>8. Owned(k) /\ Quorate(k) /\ Versioned(k)
  <2>1. Owned(n) /\ Quorate(n) /\ Versioned(n)
    BY <1>1 DEF Good, Sound
  <2>2. Owned(k)
    BY <1>2, <1>3, <2>1 DEF Owned
  <2>3. Quorate(k)
    BY <1>3, <2>1 DEF Quorate
  <2>4. n.version \in Nat
    BY <1>1, Constant DEF CampaignState
  <2>5. g.version <= n.version /\ ~(g.version < n.version)
    BY <1>2, <2>4
  <2>6. Versioned(k)
    BY <1>3, <2>1, <2>5 DEF Versioned
  <2> QED
    BY <2>2, <2>3, <2>6
<1>9. Cardinality(RoundResults(k)) = Cardinality(RoundResults(n)) + 1
      /\ Cardinality(RoundResults(n)) \in Nat
  BY <1>4, <1>5, FS_AddElement, FS_CardinalityType DEF InRound
<1>10. Cardinality(RoundResults(k)) \in Nat /\ Cardinality(RoundResults(k)) <= Quorum
  BY <1>5, <1>9, Constant
<1>11. \A s \in Shards : Regranted(m.work[s], k.work[s])
  <2>1. \A t \in Shards : m.work[t].gen \in Nat
    BY DEF Good, Sound, CampaignState, WorkState
  <2>2. \A t \in Shards : Regranted(m.work[t], n.work[t])
    BY <2>1 DEF Requeued, Regranted
  <2>3. n.work[g.shard].gen = m.work[g.shard].gen
    BY <1>2 DEF Requeued
  <2>4. Regranted(m.work[g.shard], k.work[g.shard])
    BY <1>2, <1>3, <2>1, <2>3 DEF Regranted
  <2> QED
    BY <1>3, <2>2, <2>4
<1> QED
  BY <1>1, <1>3, <1>7, <1>8, <1>10, <1>11 DEF Sound, Requeued

\* The next version: the round that ends joins the lineage, and the round that
\* begins is empty.
LEMMA AggregateGood ==
  ASSUME NEW m, Sound(m), m.complete = FALSE, Cardinality(RoundResults(m)) = Quorum,
         NEW k, k = Aggregate(m)
  PROVE  /\ Good(k)
         /\ k.version = m.version + 1 /\ k.lifecycle = m.lifecycle
         /\ k.complete = (k.version = TargetRounds) /\ k.results = m.results
         /\ Prefixed(m, k) /\ (k.complete \/ k.work = FreshRound)
<1> DEFINE new == RoundResults(m)
<1>1. m \in CampaignState /\ m.version \in Nat /\ m.version < TargetRounds
      /\ m.version = Len(m.rounds) /\ m.rounds \in Seq(SUBSET Grant)
      /\ m.results \subseteq Grant /\ \A g \in m.results : g.version <= m.version
  <2>1. m \in CampaignState /\ m.version # TargetRounds /\ m.version = Len(m.rounds)
        /\ \A g \in m.results : g.version <= m.version
    BY DEF Sound, Versioned
  <2>2. m.version \in Version /\ m.rounds \in Seq(SUBSET Grant) /\ m.results \subseteq Grant
    BY <2>1 DEF CampaignState
  <2>3. m.version \in Nat /\ m.version <= TargetRounds
    BY <2>2, Constant
  <2> QED
    BY <2>1, <2>2, <2>3, Constant
<1>2. PICK v \in Nat : v = m.version + 1
  BY <1>1
<1>3. v \in Version /\ v # m.version /\ (v >= TargetRounds <=> v = TargetRounds)
  BY <1>1, <1>2, Constant DEF Version
<1>4. new \in SUBSET Grant /\ new \subseteq m.results
  BY <1>1 DEF RoundResults
<1>5. PICK r : r = Append(m.rounds, new)
  OBVIOUS
<1>6. /\ r \in Seq(SUBSET Grant) /\ Len(r) = v
      /\ \A i \in 1..Len(m.rounds) : r[i] = m.rounds[i]
      /\ r[v] = new
  <2> HIDE DEF new
  <2>1. /\ r \in Seq(SUBSET Grant) /\ Len(r) = Len(m.rounds) + 1
        /\ \A i \in 1..Len(m.rounds) : r[i] = m.rounds[i]
        /\ r[Len(m.rounds) + 1] = new
    BY <1>1, <1>4, <1>5, AppendProperties
  <2> QED
    BY <1>1, <1>2, <2>1
<1>7. PICK w : w = IF v >= TargetRounds THEN m.work ELSE FreshRound
  OBVIOUS
<1>8. w \in [Shards -> WorkState]
  BY <1>1, <1>7 DEF CampaignState, FreshRound, WorkState
<1>9. k = [m EXCEPT !.version = v, !.rounds = r, !.complete = (v = TargetRounds), !.work = w]
  <2>1. k = [m EXCEPT !.version = v, !.rounds = r, !.complete = (v >= TargetRounds), !.work = w]
    BY <1>2, <1>5, <1>7, Zenon DEF Aggregate
  <2>2. (v >= TargetRounds) = (v = TargetRounds)
    BY <1>3
  <2> QED
    BY <2>1, <2>2, Zenon
<1>10. /\ k \in CampaignState
       /\ k.version = v /\ k.rounds = r /\ k.complete = (v = TargetRounds) /\ k.work = w
       /\ k.results = m.results /\ k.lifecycle = m.lifecycle
  <2> HIDE DEF new
  <2>1. (v = TargetRounds) \in BOOLEAN
    OBVIOUS
  <2> QED
    BY <1>1, <1>3, <1>6, <1>8, <1>9, <2>1 DEF CampaignState
<1>11. RoundResults(k) = {}
  <2>1. \A g \in m.results : g.version \in Nat /\ g.version <= m.version
    BY <1>1, Constant DEF Grant
  <2>2. \A g \in m.results : g.version # v
    BY <1>1, <1>2, <2>1
  <2> QED
    BY <1>10, <2>2 DEF RoundResults
<1>12. Owned(k)
  <2>1. FreshRound = w => Owned(k)
    BY <1>10 DEF Owned, FreshRound
  <2> QED
    BY <1>7, <1>10, <2>1 DEF Owned, Sound
<1>13. Quorate(k)
  <2> SUFFICES ASSUME NEW i \in 1..Len(r)
               PROVE  /\ r[i] \subseteq m.results /\ Cardinality(r[i]) = Quorum
                      /\ \A g, h \in r[i] :
                            g.version = i - 1 /\ (g # h => g.cell # h.cell /\ g.shard # h.shard)
    BY <1>10 DEF Quorate
  <2>1. CASE i \in 1..Len(m.rounds)
    BY <1>6, <2>1 DEF Sound, Quorate
  <2>2. CASE i = v
    <3>1. r[i] = new /\ i - 1 = m.version
      BY <1>1, <1>2, <1>6, <2>2
    <3>2. InRound(m)
      BY DEF Sound
    <3>3. \A g \in new : g.version = m.version
      BY DEF RoundResults
    <3>4. ASSUME NEW g \in new, NEW h \in new, g # h PROVE g.cell # h.cell /\ g.shard # h.shard
      <4>1. g.cell # h.cell
        BY <3>2, <3>4 DEF InRound
      <4>2. /\ m.work[g.shard] = [state |-> "accepted", gen |-> g.gen, cell |-> g.cell]
            /\ m.work[h.shard] = [state |-> "accepted", gen |-> h.gen, cell |-> h.cell]
        BY <1>1, <3>2, ResultOfRound
      <4> QED
        BY <4>1, <4>2
    <3> QED
      BY <1>4, <3>1, <3>3, <3>4
  <2>3. i \in 1..Len(m.rounds) \/ i = v
    BY <1>1, <1>2, <1>6
  <2> QED
    BY <2>1, <2>2, <2>3
<1>14. Versioned(k)
  <2>1. ASSUME NEW g \in m.results PROVE g.version <= v /\ (g.version < v => g \in r[g.version + 1])
    <3>1. g.version \in Nat /\ g.version <= m.version
          /\ (g.version < m.version => g \in m.rounds[g.version + 1])
      BY <1>1, Constant DEF Grant, Sound, Versioned
    <3>2. CASE g.version < m.version
      <4>1. g.version + 1 \in 1..Len(m.rounds)
        BY <1>1, <3>1, <3>2
      <4> QED
        BY <1>1, <1>2, <1>6, <3>1, <3>2, <4>1
    <3>3. CASE g.version = m.version
      <4>1. g \in new
        BY <3>3 DEF RoundResults
      <4> QED
        BY <1>1, <1>2, <1>6, <3>3, <4>1
    <3> QED
      BY <1>1, <3>1, <3>2, <3>3
  <2> QED
    BY <1>6, <1>10, <2>1 DEF Versioned
<1>15. ~k.complete => InRound(k) /\ Cardinality(RoundResults(k)) < Quorum
  <2> SUFFICES ASSUME ~k.complete PROVE InRound(k) /\ Cardinality(RoundResults(k)) < Quorum
    OBVIOUS
  <2>1. k.work = FreshRound
    BY <1>3, <1>7, <1>10
  <2>2. \A s \in Shards : k.work[s].state = "queued"
    BY <2>1 DEF FreshRound
  <2> QED
    BY <1>11, <2>2, FS_EmptySet, Constant DEF InRound
<1>16. Prefixed(m, k)
  <2>1. SubSeq(r, 1, Len(m.rounds)) = m.rounds
    <3>1. \A i \in 1..Len(m.rounds) : r[i] \in SUBSET Grant
      BY <1>1, <1>6
    <3> QED
      BY <1>1, <1>6, <3>1, SubSeqProperties
  <2> QED
    BY <1>10, <2>1 DEF Prefixed
<1>17. k.complete \/ k.work = FreshRound
  BY <1>3, <1>7, <1>10
<1> QED
  BY <1>2, <1>10, <1>12, <1>13, <1>14, <1>15, <1>16, <1>17 DEF Good, Sound

-----------------------------------------------------------------------------
(***************************************************************************)
(* The inductive invariant.  Owing: a copy is saved only when the adapter  *)
(* of its version is in place.  Granting: the lease a Cell was given is    *)
(* never of a generation the saved campaign has not reached, and a lease   *)
(* the saved campaign shows was given to its Cell.                         *)
(***************************************************************************)
IsOp(o) == o = [mem |-> o.mem, todo |-> o.todo, wrote |-> o.wrote, fresh |-> o.fresh]

Owing ==
    \/ op.todo \in {<<"save">>, <<"event", "save">>} /\ 0..op.mem.version \subseteq versions
    \/ /\ op.todo \in {<<"event", "version", "event", "save">>, <<"version", "event", "save">>}
       /\ op.mem.version = st.version + 1
    \/ op.todo \in {<<"event", "raise">>, <<"raise">>}

Operating ==
    \/ op = Idle
    \/ IsOp(op) /\ op.wrote \in BOOLEAN /\ Good(op.mem) /\ Follows(st, op.mem) /\ Owing

Granting ==
    /\ grants \subseteq Grant /\ \A g \in grants : g.version <= st.version
    /\ ~st.complete =>
         /\ Leases(st) \subseteq grants
         /\ \A g \in grants : g.version = st.version => g.gen <= st.work[g.shard].gen
    /\ GenerationsUnique

Inv ==
    /\ Good(st) /\ Operating /\ Granting
    /\ 0..st.version \subseteq versions /\ versions \subseteq Version
    /\ late \subseteq Shards /\ orphan \in BOOLEAN /\ up \in BOOLEAN

LEMMA IdleOp == IsOp(Idle) /\ Idle.todo = <<>> /\ Idle.wrote = FALSE
BY DEF IsOp, Idle

LEMMA InitInv == Init => Inv
<1> SUFFICES ASSUME Init PROVE Inv
  OBVIOUS
<1>1. Good(st) /\ st.version = 0 /\ versions = {0} /\ grants = {} /\ late = {}
      /\ orphan = FALSE /\ up = TRUE /\ op = Idle
  BY NewCampaignGood DEF Init, NewCampaign
<1>2. Leases(st) = {}
  BY DEF Init, NewCampaign, Leases, FreshRound
<1>3. versions \subseteq Version /\ 0..st.version \subseteq versions
  BY <1>1, Constant DEF Version
<1> QED
  BY <1>1, <1>2, <1>3 DEF Inv, Operating, Granting, GenerationsUnique

\* An operation that begins with a good successor of the saved campaign.
Owes(k, t) ==
    \/ t \in {<<"save">>, <<"event", "save">>} /\ k.version = st.version
    \/ t = <<"event", "version", "event", "save">> /\ k.version = st.version + 1
    \/ t = <<"event", "raise">>

LEMMA BeginInv ==
  ASSUME Inv, NEW k, NEW t, NEW f, Begin(k, t, f), Good(k), Follows(st, k), Owes(k, t),
         up' \in BOOLEAN
  PROVE  Inv'
<1>1. /\ UNCHANGED <<st, late, grants, orphan, versions>>
      /\ IsOp(op') /\ op'.wrote = FALSE /\ op'.mem = k /\ op'.todo = t
  BY DEF Begin, IsOp
<1>2. Operating'
  BY <1>1 DEF Inv, Operating, Owing, Owes
<1>3. Granting'
  BY <1>1 DEF Inv, Granting, GenerationsUnique
<1> QED
  BY <1>1, <1>2, <1>3 DEF Inv

\* A step that leaves the saved campaign and what the Cells have alone.
LEMMA RestInv ==
  ASSUME Inv, UNCHANGED <<st, grants, versions>>, Operating', late' \subseteq Shards,
         orphan' \in BOOLEAN, up' \in BOOLEAN
  PROVE  Inv'
BY DEF Inv, Granting, GenerationsUnique

-----------------------------------------------------------------------------
\* The expiry pass, as every operation but the lifecycle commands begins.
LEMMA ExpiryGood ==
  ASSUME Inv
  PROVE  /\ Requeued(st, ExpireLeasesIn(st))
         /\ Good(ExpireLeasesIn(st)) /\ Follows(st, ExpireLeasesIn(st))
         /\ ExpireLeasesIn(st).version = st.version
<1>1. st \in CampaignState
  BY DEF Inv, Good, Sound
<1>2. Requeued(st, ExpireLeasesIn(st))
  BY <1>1, ExpiryRequeues
<1>3. PICK n : n = ExpireLeasesIn(st) /\ Requeued(st, n)
  BY <1>2
<1>4. Good(n) /\ Follows(st, n) /\ n.version = st.version
  BY <1>3, RequeuedGood, RequeuedFollows DEF Inv, Requeued
<1> QED
  BY <1>3, <1>4

LEMMA ExpiryInv ==
  ASSUME Inv, up' \in BOOLEAN, NEW t, NEW f, Begin(ExpireLeasesIn(st), t, f),
         t \in {<<"save">>, <<"event", "save">>, <<"event", "raise">>}
  PROVE  Inv'
BY ExpiryGood, BeginInv DEF Owes

LEMMA ClaimInv == ASSUME Inv, NEW c \in Cells, ClaimLease(c) PROVE Inv'
<1>1. PICK n : n = ExpireLeasesIn(st) /\ Requeued(st, n)
  BY ExpiryGood
<1>2. PICK s \in Queued(n) :
        Begin([n EXCEPT !.work[s] = [state |-> "leased", gen |-> @.gen + 1, cell |-> c]],
              EventSaves, {s})
  BY <1>1 DEF ClaimLease
<1>3. PICK k : k = [n EXCEPT !.work[s] = [state |-> "leased", gen |-> @.gen + 1, cell |-> c]]
  OBVIOUS
<1>4. s \in Shards /\ n.work[s].state = "queued"
  BY DEF Queued
<1>5. Good(k) /\ Follows(st, k)
  BY <1>1, <1>3, <1>4, ClaimGood DEF Inv
<1>6. k.version = st.version
  <2>1. k.version = n.version
    BY <1>1, <1>3 DEF Requeued, CampaignState
  <2> QED
    BY <1>1, <2>1 DEF Requeued
<1>7. Begin(k, EventSaves, {s}) /\ up' = up
  BY <1>2, <1>3 DEF ClaimLease
<1> QED
  BY <1>5, <1>6, <1>7, BeginInv DEF Owes, EventSaves, Inv

LEMMA SubmitInv == ASSUME Inv, NEW g \in grants, SubmitAccepted(g) PROVE Inv'
<1>1. PICK n : n = ExpireLeasesIn(st) /\ Requeued(st, n)
  BY ExpiryGood
<1>2. PICK k : k = Accepted(n, g)
  OBVIOUS
<1>3. /\ g \in Grant /\ g \notin st.results /\ Holds(n, g) /\ g.cell \notin AcceptedCells(st)
      /\ up' = up
      /\ IF Cardinality(RoundResults(k)) >= Quorum
         THEN Begin(Aggregate(k), <<"event", "version", "event", "save">>, {})
         ELSE Begin(k, EventSaves, {})
  BY <1>1, <1>2 DEF SubmitAccepted, Inv, Granting
<1>4. /\ Sound(k)
      /\ k.version = st.version /\ k.rounds = st.rounds /\ k.lifecycle = st.lifecycle
      /\ k.complete = FALSE /\ st.complete = FALSE /\ st.results \subseteq k.results
      /\ Cardinality(RoundResults(k)) \in Nat /\ Cardinality(RoundResults(k)) <= Quorum
      /\ \A s \in Shards : Regranted(st.work[s], k.work[s])
  <2>1. PICK m : m = st /\ Good(m) /\ Requeued(m, n)
    BY <1>1 DEF Inv
  <2>2. g \notin m.results /\ g.cell \notin AcceptedCells(m)
    BY <1>3, <2>1
  <2>3. /\ Sound(k)
        /\ k.version = m.version /\ k.rounds = m.rounds /\ k.lifecycle = m.lifecycle
        /\ k.complete = FALSE /\ m.complete = FALSE /\ m.results \subseteq k.results
        /\ Cardinality(RoundResults(k)) \in Nat /\ Cardinality(RoundResults(k)) <= Quorum
        /\ \A s \in Shards : Regranted(m.work[s], k.work[s])
    BY <1>2, <1>3, <2>1, <2>2, AcceptedSound, ZenonT(40)
  <2> QED
    BY <2>1, <2>3
<1>5. CASE Cardinality(RoundResults(k)) >= Quorum
  <2>1. Cardinality(RoundResults(k)) = Quorum
    BY <1>4, <1>5, Constant
  <2>2. PICK a : a = Aggregate(k)
    OBVIOUS
  <2>3. /\ Good(a)
        /\ a.version = k.version + 1 /\ a.lifecycle = k.lifecycle
        /\ a.complete = (a.version = TargetRounds) /\ a.results = k.results
        /\ Prefixed(k, a) /\ (a.complete \/ a.work = FreshRound)
    BY <1>4, <2>1, <2>2, AggregateGood
  <2>4. Follows(st, a)
    BY <1>4, <2>3 DEF Follows, Prefixed, Moves, Works
  <2> QED
    BY <1>3, <1>4, <1>5, <2>2, <2>3, <2>4, BeginInv DEF Owes, Inv
<1>6. CASE ~(Cardinality(RoundResults(k)) >= Quorum)
  <2>1. Cardinality(RoundResults(k)) < Quorum
    BY <1>4, <1>6, Constant
  <2>2. Good(k)
    BY <1>4, <2>1 DEF Good
  <2>3. st \in CampaignState
    BY DEF Inv, Good, Sound
  <2>4. Follows(st, k)
    BY <1>4, <2>3, PrefixItself DEF Follows, Moves, Works
  <2> QED
    BY <1>3, <1>4, <1>6, <2>2, <2>4, BeginInv DEF Owes, EventSaves, Inv
<1> QED
  BY <1>5, <1>6

LEMMA LifecycleInv ==
  ASSUME Inv, NEW l \in {"running", "paused", "finalized"}, up' = up,
         Begin([st EXCEPT !.lifecycle = l], EventSaves, {}),
         st.lifecycle # "finalized" \/ l = "finalized"
  PROVE  Inv'
<1>1. PICK k : k = [st EXCEPT !.lifecycle = l]
  OBVIOUS
<1>2. Good(k) /\ Follows(st, k)
  BY <1>1, LifecycleGood DEF Inv
<1>3. k.version = st.version
  BY <1>1 DEF Inv, Good, Sound, CampaignState
<1> QED
  BY <1>1, <1>2, <1>3, BeginInv DEF Owes, EventSaves, Inv

-----------------------------------------------------------------------------
\* The writes an operation owes.
LEMMA TodoCases ==
  ASSUME Inv, op.todo # <<>>
  PROVE  /\ IsOp(op) /\ op.wrote \in BOOLEAN /\ Good(op.mem) /\ Follows(st, op.mem) /\ Owing
BY IdleOp DEF Inv, Operating

LEMMA Heads ==
  ASSUME Owing
  PROVE  /\ Head(op.todo) = "event" =>
              op.todo \in {<<"event", "save">>, <<"event", "version", "event", "save">>,
                          <<"event", "raise">>}
         /\ Head(op.todo) = "version" => op.todo = <<"version", "event", "save">>
         /\ Head(op.todo) = "save" => op.todo = <<"save">>
<1>1. op.todo \in {<<"save">>, <<"event", "save">>, <<"event", "version", "event", "save">>,
                  <<"version", "event", "save">>, <<"event", "raise">>, <<"raise">>}
  BY DEF Owing
<1> QED
  BY <1>1

LEMMA Tails ==
  /\ Tail(<<"event", "save">>) = <<"save">>
  /\ Tail(<<"event", "version", "event", "save">>) = <<"version", "event", "save">>
  /\ Tail(<<"version", "event", "save">>) = <<"event", "save">>
  /\ Tail(<<"event", "raise">>) = <<"raise">>
OBVIOUS

LEMMA EventInv == ASSUME Inv, WriteEvent PROVE Inv'
<1>1. /\ op.todo # <<>> /\ Head(op.todo) = "event"
      /\ op' = [op EXCEPT !.todo = Tail(@), !.wrote = TRUE]
      /\ UNCHANGED <<st, late, grants, orphan, versions, up>>
  BY DEF WriteEvent, Next1
<1>2. IsOp(op) /\ Good(op.mem) /\ Follows(st, op.mem) /\ Owing
  BY <1>1, TodoCases
<1>3. IsOp(op') /\ op'.wrote = TRUE /\ op'.mem = op.mem /\ op'.todo = Tail(op.todo)
  BY <1>1, <1>2 DEF IsOp
<1>4. \/ op.todo = <<"event", "save">> /\ Tail(op.todo) = <<"save">>
      \/ /\ op.todo = <<"event", "version", "event", "save">>
         /\ Tail(op.todo) = <<"version", "event", "save">>
      \/ op.todo = <<"event", "raise">> /\ Tail(op.todo) = <<"raise">>
  BY <1>1, <1>2, Heads, Tails, Zenon
<1>5. Owing'
  BY <1>1, <1>2, <1>3, <1>4 DEF Owing
<1>6. Operating'
  BY <1>1, <1>2, <1>3, <1>5 DEF Operating
<1> QED
  BY <1>1, <1>6, RestInv DEF Inv

LEMMA VersionInv == ASSUME Inv, WriteVersion PROVE Inv'
<1>1. /\ op.todo # <<>> /\ Head(op.todo) = "version"
      /\ op' = [op EXCEPT !.todo = Tail(@)] /\ versions' = versions \cup {op.mem.version}
      /\ UNCHANGED <<st, late, grants, orphan, up>>
  BY DEF WriteVersion, Next1
<1>2. IsOp(op) /\ op.wrote \in BOOLEAN /\ Good(op.mem) /\ Follows(st, op.mem) /\ Owing
  BY <1>1, TodoCases
<1>3. IsOp(op') /\ op'.wrote = op.wrote /\ op'.mem = op.mem /\ op'.todo = Tail(op.todo)
  BY <1>1, <1>2 DEF IsOp
<1>4. op'.todo = <<"event", "save">> /\ op.mem.version = st.version + 1
  <2>1. op.todo = <<"version", "event", "save">>
    BY <1>1, <1>2, Heads
  <2>2. op.mem.version = st.version + 1
    BY <1>2, <2>1 DEF Owing
  <2> QED
    BY <1>3, <2>1, <2>2, Tails
<1>5. st.version \in Nat /\ op.mem.version \in Version
  BY <1>2, Constant DEF Inv, Good, Sound, CampaignState
<1>6. 0..op.mem.version \subseteq versions' /\ versions' \subseteq Version
      /\ 0..st.version \subseteq versions'
  BY <1>1, <1>4, <1>5 DEF Inv
<1>7. Operating'
  BY <1>1, <1>2, <1>3, <1>4, <1>6 DEF Operating, Owing
<1> QED
  BY <1>1, <1>6, <1>7 DEF Inv, Granting, GenerationsUnique

\* The operation ends without a save.
LEMMA DropInv ==
  ASSUME Inv, op' = Idle, orphan' = (orphan \/ op.wrote),
         UNCHANGED <<st, late, grants, versions>>, up' \in BOOLEAN
  PROVE  Inv'
<1>1. op.wrote \in BOOLEAN
  BY IdleOp DEF Inv, Operating
<1> QED
  BY <1>1, RestInv DEF Inv, Operating

LEMMA SavesGood ==
  ASSUME Inv, Save
  PROVE  /\ Good(op.mem) /\ Follows(st, op.mem) /\ 0..op.mem.version \subseteq versions
         /\ st.version \in Nat /\ Good(st)
<1>1. op.todo # <<>> /\ Head(op.todo) = "save"
  BY DEF Save, Next1
<1>2. Good(op.mem) /\ Follows(st, op.mem) /\ Owing
  BY <1>1, TodoCases
<1>3. 0..op.mem.version \subseteq versions
  BY <1>1, <1>2 DEF Owing
<1> QED
  BY <1>2, <1>3, Constant DEF Inv, Good, Sound, CampaignState

LEMMA SaveInv == ASSUME Inv, Save PROVE Inv'
<1>1. PICK m : m = op.mem
  OBVIOUS
<1>2. /\ Good(m) /\ Follows(st, m) /\ 0..m.version \subseteq versions
      /\ st.version \in Nat /\ Good(st) /\ m.version \in Nat
  BY <1>1, SavesGood, Constant DEF Good, Sound, CampaignState
<1>3. /\ st' = m /\ op' = Idle /\ late' \subseteq late
      /\ grants' = grants \cup (IF m.complete THEN {} ELSE Leases(m))
      /\ UNCHANGED <<orphan, versions, up>>
  BY <1>1 DEF Save
<1>4. m.version >= st.version
  BY <1>2 DEF Follows, Moves
<1>5. CASE m.complete
  <2>1. grants' = grants
    BY <1>3, <1>5
  <2>2. \A g \in grants : g.version \in Nat
    BY Constant DEF Inv, Granting, Grant
  <2>3. Granting'
    BY <1>2, <1>3, <1>4, <1>5, <2>1, <2>2 DEF Inv, Granting, GenerationsUnique
  <2> QED
    BY <1>2, <1>3, <2>3 DEF Inv, Operating
<1>6. CASE ~m.complete /\ m.version = st.version + 1
  <2>1. m.work = FreshRound
    BY <1>2, <1>6 DEF Follows, Works
  <2>2. Leases(m) = {}
    BY <2>1 DEF Leases, FreshRound
  <2>3. grants' = grants
    BY <1>3, <2>2
  <2>4. \A g \in grants : g.version \in Nat /\ g.version <= st.version
    BY Constant DEF Inv, Granting, Grant
  <2>5. \A g \in grants : g.version # m.version /\ g.version <= m.version
    BY <1>2, <1>6, <2>4
  <2>6. Leases(st') \subseteq grants'
    BY <1>3, <2>2
  <2>7. Granting'
    BY <1>3, <2>3, <2>5, <2>6 DEF Inv, Granting, GenerationsUnique
  <2> QED
    BY <1>2, <1>3, <2>7 DEF Inv, Operating
<1>7. CASE ~m.complete /\ m.version = st.version
  <2>1. ~st.complete /\ \A s \in Shards : Regranted(st.work[s], m.work[s])
    BY <1>2, <1>7 DEF Follows, Moves, Works
  <2>2. grants' = grants \cup Leases(m)
    BY <1>3, <1>7
  <2>3. /\ grants \subseteq Grant /\ Leases(st) \subseteq grants
        /\ \A g \in grants : g.version <= st.version
        /\ \A g \in grants : g.version = st.version => g.gen <= st.work[g.shard].gen
    BY <2>1 DEF Inv, Granting
  <2>4. \A s \in Shards : st.work[s].gen \in Nat /\ m.work[s] \in WorkState /\ m.work[s].gen \in Nat
                          /\ (m.work[s].state # "queued" => m.work[s].cell \in Cells)
    BY <1>2 DEF Good, Sound, Owned, CampaignState, WorkState
  <2>5. ASSUME NEW l \in Leases(m)
        PROVE  /\ l \in Grant /\ l.version = st.version
               /\ m.work[l.shard].state = "leased"
               /\ l.gen = m.work[l.shard].gen /\ l.cell = m.work[l.shard].cell
               /\ l \in grants \/ l.gen > st.work[l.shard].gen
    <3>1. PICK s \in Shards :
            /\ m.work[s].state = "leased"
            /\ l = [cell |-> m.work[s].cell, version |-> m.version, shard |-> s,
                    gen |-> m.work[s].gen]
      BY DEF Leases
    <3>2. /\ l.shard = s /\ l.version = m.version /\ l.gen = m.work[s].gen
          /\ l.cell = m.work[s].cell
      BY <3>1
    <3>3. l \in Grant
      <4>1. m.version \in Version /\ m.work[s].cell \in Cells
        BY <1>2, <2>4, <3>1 DEF Good, Sound, CampaignState
      <4> QED
        BY <2>4, <3>1, <4>1 DEF Grant
    <3>4. l \in grants \/ l.gen > st.work[s].gen
      <4>1. m.work[s] = st.work[s] \/ m.work[s].gen > st.work[s].gen
        BY <2>1, <3>1 DEF Regranted
      <4>2. CASE m.work[s] = st.work[s]
        <5>1. l \in Leases(st)
          BY <1>7, <3>1, <4>2 DEF Leases
        <5> QED
          BY <2>3, <5>1
      <4> QED
        BY <3>2, <4>1, <4>2
    <3> QED
      BY <1>7, <3>1, <3>2, <3>3, <3>4
  <2>6. \A g \in grants : g.shard \in Shards /\ g.gen \in Nat
    BY <2>3 DEF Grant
  <2>7. \A g \in grants' : g.version <= m.version
                           /\ (g.version = m.version => g.gen <= m.work[g.shard].gen)
    <3>1. ASSUME NEW g \in grants
          PROVE  g.version <= m.version /\ (g.version = m.version => g.gen <= m.work[g.shard].gen)
      BY <1>7, <2>1, <2>3, <2>4, <2>6 DEF Regranted
    <3>2. ASSUME NEW g \in Leases(m)
          PROVE  g.version <= m.version /\ g.gen <= m.work[g.shard].gen
      <4>1. g.version = m.version /\ g.gen = m.work[g.shard].gen /\ g.gen \in Nat
        BY <1>7, <2>5, <3>2 DEF Grant
      <4> QED
        BY <1>2, <4>1
    <3> QED
      BY <2>2, <3>1, <3>2
  <2>8. ASSUME NEW g \in grants, NEW l \in Leases(m), g.version = l.version, g.shard = l.shard,
               g.gen = l.gen
        PROVE  g.cell = l.cell
    <3>1. l.version = st.version /\ (l \in grants \/ l.gen > st.work[l.shard].gen)
      BY <2>5
    <3>2. g.gen <= st.work[g.shard].gen /\ g.gen \in Nat /\ st.work[g.shard].gen \in Nat
      BY <2>3, <2>4, <2>6, <2>8, <3>1
    <3>3. l \in grants
      BY <2>8, <3>1, <3>2
    <3> QED
      BY <2>8, <3>3 DEF Inv, Granting, GenerationsUnique
  <2>9. GenerationsUnique'
    <3> SUFFICES ASSUME NEW g \in grants', NEW h \in grants', g.version = h.version,
                        g.shard = h.shard, g.gen = h.gen
                 PROVE  g.cell = h.cell
      BY DEF GenerationsUnique
    <3>1. CASE g \in grants /\ h \in grants
      BY <3>1 DEF Inv, Granting, GenerationsUnique
    <3>2. CASE g \in Leases(m) /\ h \in Leases(m)
      BY <2>5, <3>2
    <3>3. CASE g \in grants /\ h \in Leases(m)
      BY <2>8, <3>3
    <3>4. CASE g \in Leases(m) /\ h \in grants
      BY <2>8, <3>4
    <3> QED
      BY <2>2, <3>1, <3>2, <3>3, <3>4
  <2>10. grants' \subseteq Grant /\ Leases(st') \subseteq grants'
    BY <1>3, <2>2, <2>3, <2>5
  <2>11. Granting'
    BY <1>3, <2>7, <2>9, <2>10 DEF Granting
  <2> QED
    BY <1>2, <1>3, <2>11 DEF Inv, Operating
<1> QED
  BY <1>2, <1>5, <1>6, <1>7 DEF Follows, Moves

-----------------------------------------------------------------------------
LEMMA CellStepInv == ASSUME Inv, NEW c \in Cells, CellStep(c) PROVE Inv'
<1>1. ASSUME ClaimNothing(c) PROVE Inv'
  <2>1. \E t \in {<<"save">>, <<"event", "save">>} : Begin(ExpireLeasesIn(st), t, {})
    BY <1>1 DEF ClaimNothing, WithEvent, Saves, EventSaves
  <2> QED
    BY <1>1, <2>1, ExpiryInv DEF ClaimNothing, Inv
<1>2. ASSUME NEW g \in grants, Heartbeat(g) PROVE Inv'
  BY <1>2, ExpiryInv DEF Heartbeat, EventSaves, Inv
<1>3. ASSUME NEW g \in grants, LateHeartbeat(g) PROVE Inv'
  BY <1>3, ExpiryInv DEF LateHeartbeat, Inv
<1>4. ASSUME NEW g \in grants, SubmitRejected(g) PROVE Inv'
  BY <1>4, ExpiryInv DEF SubmitRejected, EventSaves, Inv
<1> QED
  BY <1>1, <1>2, <1>3, <1>4, ClaimInv, SubmitInv DEF CellStep

LEMMA ClockInv == ASSUME Inv, NEW s \in Shards, LeaseRunsOut(s) PROVE Inv'
<1>1. late' \subseteq Shards /\ UNCHANGED <<st, op, grants, orphan, versions, up>>
  BY DEF LeaseRunsOut, Inv
<1>2. Operating'
  BY <1>1 DEF Inv, Operating, Owing
<1> QED
  BY <1>1, <1>2, RestInv DEF Inv

LEMMA NextInv == ASSUME Inv, [Next]_vars PROVE Inv'
<1>1. CASE UNCHANGED vars
  BY <1>1 DEF vars, Inv, Operating, Owing, Granting, GenerationsUnique
<1>2. ASSUME ExpireLeases PROVE Inv'
  <2>1. \E t \in {<<"save">>, <<"event", "save">>} : Begin(ExpireLeasesIn(st), t, {})
    BY <1>2 DEF ExpireLeases, WithEvent, Saves, EventSaves
  <2> QED
    BY <1>2, <2>1, ExpiryInv DEF ExpireLeases, Inv
<1>3. ASSUME NEW target \in {"running", "paused"}, SetLifecycle(target) PROVE Inv'
  BY <1>3, LifecycleInv DEF SetLifecycle
<1>4. ASSUME NEW a \in BOOLEAN, Finalize(a) PROVE Inv'
  BY <1>4, LifecycleInv DEF Finalize
<1>5. ASSUME Recover PROVE Inv'
  <2>1. Good(st) /\ st \in CampaignState
    BY DEF Inv, Good, Sound
  <2>2. \A s \in Shards : st.work[s].gen \in Nat
    BY <2>1 DEF CampaignState, WorkState
  <2>3. Follows(st, st)
    BY <2>1, <2>2, PrefixItself DEF Follows, Moves, Works, Regranted
  <2> QED
    BY <1>5, <2>1, <2>3, BeginInv DEF Recover, Owes, EventSaves
<1>6. ASSUME Raise PROVE Inv'
  BY <1>6, DropInv DEF Raise, Inv
<1>7. ASSUME Crash PROVE Inv'
  BY <1>7, DropInv DEF Crash
<1> QED
  BY <1>1, <1>2, <1>3, <1>4, <1>5, <1>6, <1>7, ClockInv, CellStepInv, EventInv, VersionInv, SaveInv
  DEF Next

\* The inductive invariant: the saved campaign is sound, and so is the copy
\* of the operation in progress, which may follow it.
THEOREM CoordinatorInvariance == Spec => []Inv
<1>1. Inv /\ [Next]_vars => Inv'
  BY NextInv
<1> QED
  BY <1>1, InitInv, PTL DEF Spec

\* The state of the coordinator is well typed.
THEOREM CoordinatorTypes == Spec => []TypeOK
<1>1. Inv => TypeOK
  BY DEF Inv, Granting, Good, Sound, CampaignState, TypeOK
<1> QED
  BY <1>1, CoordinatorInvariance, PTL

\* Every version was aggregated from exactly a quorum of updates based on the
\* version before it, from distinct Cells and shards.
THEOREM RoundsAlwaysQuorate == Spec => []RoundsQuorate
<1>1. Inv => RoundsQuorate
  BY DEF Inv, Good, Sound, Quorate, RoundsQuorate
<1> QED
  BY <1>1, CoordinatorInvariance, PTL

\* The lineage, the version counter and the adapter directories agree,
\* whatever a crash interrupted.
THEOREM LineageStaysIntact == Spec => []LineageIntact
<1>1. Inv => LineageIntact
  BY DEF Inv, Good, Sound, Versioned, LineageIntact
<1> QED
  BY <1>1, CoordinatorInvariance, PTL

\* Generation fencing: an accepted update is the one of the lease the work
\* unit ended in.
THEOREM AcceptedUpdatesWereHeld == Spec => []AcceptedWasHeld
<1>1. Inv => AcceptedWasHeld
  BY DEF Inv, Good, Sound, InRound, AcceptedWasHeld
<1> QED
  BY <1>1, CoordinatorInvariance, PTL

\* No generation of a work unit was ever granted to two Cells.
THEOREM GenerationsNeverShared == Spec => []GenerationsUnique
<1>1. Inv => GenerationsUnique
  BY DEF Inv, Granting
<1> QED
  BY <1>1, CoordinatorInvariance, PTL

-----------------------------------------------------------------------------
\* A step changes the saved campaign by saving a campaign that follows it.
LEMMA SavedFollows == ASSUME Inv, [Next]_vars PROVE st' = st \/ Follows(st, st')
<1>1. CASE Save
  <2>1. PICK m : m = op.mem
    OBVIOUS
  <2>2. Follows(st, m) /\ st' = m
    BY <1>1, <2>1, SavesGood DEF Save
  <2> QED
    BY <2>2
<1>2. CASE ~Save
  BY <1>2 DEF Next, vars, CellStep, ClaimLease, ClaimNothing, Heartbeat, LateHeartbeat,
     SubmitAccepted, SubmitRejected, ExpireLeases, SetLifecycle, Finalize, Recover, Begin,
     WriteEvent, WriteVersion, Raise, Crash, LeaseRunsOut
<1> QED
  BY <1>1, <1>2

\* Accepted updates, completed rounds and finalization are never undone.
THEOREM CampaignStaysDurable == Spec => CampaignDurable
<1> DEFINE Durable == /\ st.results \subseteq st'.results
                      /\ SubSeq(st'.rounds, 1, Len(st.rounds)) = st.rounds
                      /\ st.lifecycle = "finalized" => st'.lifecycle = "finalized"
<1>1. Inv /\ [Next]_vars => [Durable]_vars
  <2> SUFFICES ASSUME Inv, [Next]_vars PROVE Durable
    OBVIOUS
  <2>1. CASE st' = st
    <3>1. st \in CampaignState
      BY DEF Inv, Good, Sound
    <3> QED
      BY <2>1, <3>1, PrefixItself DEF Prefixed
  <2>2. CASE Follows(st, st')
    BY <2>2 DEF Follows, Prefixed, Moves
  <2> QED
    BY <2>1, <2>2, SavedFollows
<1> QED
  BY <1>1, CoordinatorInvariance, PTL DEF Spec, CampaignDurable

\* Version, completion and lifecycle of the saved campaign move as Campaign
\* says, whatever leases, crashes and refusals happen.
THEOREM ImplementsCampaign == Spec => CampaignSpec
<1>1. Init => Tools!CInit
  BY DEF Init, NewCampaign, Tools!CInit
<1>2. Inv /\ [Next]_vars => [Tools!CNext]_<<st.version, st.complete, st.lifecycle>>
  <2> SUFFICES ASSUME Inv, [Next]_vars
               PROVE  Tools!CNext \/ UNCHANGED <<st.version, st.complete, st.lifecycle>>
    OBVIOUS
  <2>1. CASE st' = st
    BY <2>1
  <2>2. CASE Follows(st, st')
    <3>1. Moves(st, st')
      BY <2>2 DEF Follows
    <3> QED
      BY <3>1 DEF Moves, Tools!CNext, Tools!Advance, Tools!Control, Tools!Finalize
  <2> QED
    BY <2>1, <2>2, SavedFollows
<1> QED
  BY <1>1, <1>2, CoordinatorInvariance, PTL DEF Spec, CampaignSpec, Tools!CSpec, Tools!cvars

-----------------------------------------------------------------------------
(***************************************************************************)
(* What the systems built on the coordinator need to know of its steps.    *)
(***************************************************************************)
\* The saved campaign and the leases.
LEMMA Saved ==
  ASSUME Inv
  PROVE  /\ st.version \in Nat /\ st.results \subseteq Grant /\ grants \subseteq Grant
         /\ st \in CampaignState /\ st.complete \in BOOLEAN
         /\ \A g \in Grant : g.cell \in Cells /\ g.version \in Nat /\ g.shard \in Shards
                             /\ g.gen \in Nat
         /\ \A g \in grants : g.version <= st.version
BY Constant DEF Inv, Good, Sound, CampaignState, Granting, Grant

\* What the expiry pass keeps of the saved campaign.
LEMMA Expiry ==
  ASSUME Inv, NEW m, m = ExpireLeasesIn(st)
  PROVE  /\ m.version = st.version /\ m.complete = st.complete /\ m.results = st.results
         /\ \A b \in BOOLEAN : WithEvent(b) \in {<<"save">>, <<"event", "save">>}
BY ExpiryGood DEF Requeued, WithEvent, Saves, EventSaves

\* The rounds of a campaign are still those of the campaigns that follow it.
LEMMA RoundsKept ==
  ASSUME NEW m, NEW n, Good(m), Good(n), Follows(m, n), NEW i \in 1..Len(m.rounds)
  PROVE  i \in 1..Len(n.rounds) /\ n.rounds[i] = m.rounds[i]
<1>1. /\ m.rounds \in Seq(SUBSET Grant) /\ n.rounds \in Seq(SUBSET Grant)
      /\ m.version = Len(m.rounds) /\ n.version = Len(n.rounds)
  BY DEF Good, Sound, Versioned, CampaignState
<1>2. Len(m.rounds) \in Nat /\ Len(n.rounds) \in Nat
  BY <1>1, LenProperties
<1>3. Len(m.rounds) <= Len(n.rounds)
  BY <1>1, <1>2 DEF Follows, Moves
<1>4. i \in 1..Len(n.rounds)
  BY <1>2, <1>3
<1>5. \A j \in 1..Len(m.rounds) : n.rounds[j] \in SUBSET Grant
  <2> TAKE j \in 1..Len(m.rounds)
  <2>1. j \in 1..Len(n.rounds)
    BY <1>2, <1>3
  <2> QED
    BY <1>1, <2>1, ElementOfSeq
<1>6. SubSeq(n.rounds, 1, Len(m.rounds)) = m.rounds
  BY DEF Follows, Prefixed
<1>7. \A j \in 1..(Len(m.rounds) - 1 + 1) :
         SubSeq(n.rounds, 1, Len(m.rounds))[j] = n.rounds[1 + j - 1]
  BY <1>2, <1>5, SubSeqProperties
<1>8. i \in 1..(Len(m.rounds) - 1 + 1) /\ 1 + i - 1 = i
  BY <1>2
<1> QED
  BY <1>4, <1>6, <1>7, <1>8

\* The save: the one step in which the coordinator gets ahead.
LEMMA SaveFacts ==
  ASSUME Inv, Save
  PROVE  /\ Good(st) /\ Good(op.mem) /\ Follows(st, op.mem)
         /\ op # Idle /\ op' = Idle /\ st' = op.mem
         /\ op.mem.version \in Nat /\ st.version \in Nat
         /\ op.mem.version = st.version \/ op.mem.version = st.version + 1
         /\ op.mem.version = st.version => op.mem.complete = st.complete
         /\ st.results \subseteq op.mem.results
         /\ grants' = grants \cup (IF op.mem.complete THEN {} ELSE Leases(op.mem))
         /\ UNCHANGED <<versions, up, crashes>>
<1>1. op # Idle
  BY IdleOp DEF Save, Next1
<1>2. Good(op.mem) /\ Follows(st, op.mem) /\ Good(st) /\ st.version \in Nat
  BY SavesGood
<1>3. op.mem.version \in Nat
  BY <1>2, Constant DEF Good, Sound, CampaignState
<1>4. /\ op.mem.version = st.version \/ op.mem.version = st.version + 1
      /\ op.mem.version = st.version => op.mem.complete = st.complete
      /\ st.results \subseteq op.mem.results
  BY <1>2 DEF Follows, Moves
<1> QED
  BY <1>1, <1>2, <1>3, <1>4 DEF Save

\* The copy of a submission that is accepted has the update as well, and may
\* be a version ahead.
LEMMA SubmitFacts ==
  ASSUME Inv, NEW g \in grants, SubmitAccepted(g)
  PROVE  /\ Holds(ExpireLeasesIn(st), g) /\ op = Idle /\ up /\ up' = up
         /\ UNCHANGED <<st, grants, versions, crashes>>
         /\ op'.mem.results = st.results \cup {g}
         /\ op'.mem.version = st.version \/ op'.mem.version = st.version + 1
         /\ op'.todo \in {<<"event", "save">>, <<"event", "version", "event", "save">>}
<1>1. PICK n : n = ExpireLeasesIn(st) /\ Requeued(st, n)
  BY ExpiryGood
<1>2. n \in CampaignState /\ n.results = st.results /\ n.version = st.version
  BY <1>1 DEF Requeued
<1>3. PICK k : k = Accepted(n, g)
  OBVIOUS
<1>4. k.results = st.results \cup {g} /\ k.version = st.version
  <2>1. PICK w : w = [n.work EXCEPT ![g.shard].state = "accepted"]
    OBVIOUS
  <2>2. PICK r : r = n.results \cup {g}
    OBVIOUS
  <2>3. k = [n EXCEPT !.results = r, !.work = w]
    BY <1>3, <2>1, <2>2, Zenon DEF Accepted
  <2>4. k.results = r /\ k.version = n.version
    BY <1>2, <2>3 DEF CampaignState
  <2> QED
    BY <1>2, <2>2, <2>4
<1>5. PICK a : a = Aggregate(k)
  OBVIOUS
<1>6. a.results = k.results /\ a.version = k.version + 1
  <2>1. PICK v, q, c, w : a = [k EXCEPT !.version = v, !.rounds = q, !.complete = c, !.work = w]
                          /\ v = k.version + 1
    BY <1>5, Zenon DEF Aggregate
  <2>2. k \in CampaignState
    <3>1. PICK m : m = st /\ Good(m) /\ Requeued(m, n)
      BY <1>1 DEF Inv
    <3>2. g \in Grant /\ Holds(n, g) /\ g \notin m.results /\ g.cell \notin AcceptedCells(m)
      BY <1>1, <3>1, Saved DEF SubmitAccepted
    <3>3. Sound(k)
      BY <1>3, <3>1, <3>2, AcceptedSound
    <3> QED
      BY <3>3 DEF Sound
  <2> QED
    BY <2>1, <2>2 DEF CampaignState
<1>7. \/ Begin(a, <<"event", "version", "event", "save">>, {})
      \/ Begin(k, <<"event", "save">>, {})
  BY <1>1, <1>3, <1>5 DEF SubmitAccepted, EventSaves
<1>8. \/ op'.mem = a /\ op'.todo = <<"event", "version", "event", "save">>
      \/ op'.mem = k /\ op'.todo = <<"event", "save">>
  BY <1>7 DEF Begin
<1>9. Holds(ExpireLeasesIn(st), g) /\ op = Idle /\ up /\ up' = up
      /\ UNCHANGED <<st, grants, versions, crashes>>
  BY <1>7 DEF SubmitAccepted, Ready, Begin
<1> QED
  BY <1>4, <1>6, <1>8, <1>9

\* The writes an operation begins with are not none, and those of which the
\* event was written are not either.
LEMMA OwedWrites ==
  ASSUME NEW t \in {<<"save">>, <<"event", "save">>, <<"event", "raise">>,
                    <<"event", "version", "event", "save">>}
  PROVE  t # <<>> /\ (t # <<"event", "raise">> => t \notin {<<"event", "raise">>, <<"raise">>})
OBVIOUS

LEMMA WrittenTodo ==
  /\ <<"save">> # <<>> /\ <<"version", "event", "save">> # <<>> /\ <<"raise">> # <<>>
  /\ <<"event", "save">> # <<>> /\ <<"raise">> # <<"event", "raise">>
  /\ \A t \in {<<"save">>, <<"version", "event", "save">>, <<"event", "save">>} :
        t # <<"event", "raise">> /\ t # <<"raise">>
OBVIOUS
=============================================================================
