------------------------ MODULE StableSessionProofs ------------------------
(***************************************************************************)
(* Safety of the stable session, for any target, step counts, retries,     *)
(* faults and pauses: whatever step a session dies in, and whatever rank   *)
(* group outlives it, the payloads of the committed checkpoints are in     *)
(* place, they are what the accepted attempts trained, a result left to be *)
(* recovered is never thrown away, and the controller's ledger is kept.    *)
(***************************************************************************)
EXTENDS StableSession, WellFoundedInduction, TLAPS

Points  == {"down", "choose", "issue", "issuing", "prepare", "train", "judge", "promote",
            "commit", "refuse", "clean", "unlink", "again"}
Session == [pc : Points, count : Nat, left : Int, try : Nat,
            work : Ctl!WorkUnit \cup {None}, exit : {"none", "ok", "failed"},
            digest : Attempt \cup {None}, recovering : BOOLEAN]

TypeOK ==
    /\ lineage \in Seq(Ctl!CheckpointRef)
    /\ active \subseteq Ctl!ActiveRecord /\ terminals \subseteq Ctl!TerminalRecord
    /\ fenced = {} /\ saving \in BOOLEAN
    /\ ses \in Session
    /\ attempts \in [Attempt -> {"none", "partial", "complete"}]
    /\ results \in [Attempt -> {"none", "good", "bad"}]
    /\ payloads \in [1..Target -> Attempt \cup {None}]
    /\ groups \subseteq Attempt

\* A Work Unit that starts where the lineage ends.
AtHead(w) == lineage # <<>> /\ w.base = Head0.hash /\ w.id[1] = Head0.step

\* The head has the largest step.
Ordered ==
    lineage # <<>> =>
        /\ Ctl!IsLineage(lineage) /\ lineage[1] = Genesis
        /\ \A i \in 1..Len(lineage) : lineage[i].step <= Head0.step
        /\ \A i \in 2..Len(lineage) : lineage[i].step \in 1..Target

\* There is at most one active Work Unit, at the head, and an attempt is named
\* by one lease or one receipt.
Leased ==
    /\ \A r, s \in active : r = s
    /\ \A r \in active : AtHead(r.work) /\ r.owner = Owner
    /\ \A r \in active, t \in terminals : AttemptOf(r.work) # AttemptOf(t.work)
    /\ \A t, u \in terminals : AttemptOf(t.work) = AttemptOf(u.work) => t = u

\* The Work Unit in the session's hands is leased while it is worked on and
\* until it is committed or rejected; its next generation is a fresh one.
Working ==
    /\ ses.pc # "down" => lineage # <<>>
    /\ ses.pc \notin {"down", "choose"} => ses.work \in Ctl!WorkUnit /\ AtHead(ses.work)
    /\ ses.pc \in {"issue", "issuing"} =>
          \A t \in terminals : t.work.id = ses.work.id => t.work.gen < ses.work.gen
    /\ ses.pc \in {"prepare", "train", "judge", "promote", "commit", "refuse"} =>
          \E r \in active : r.work = ses.work
    /\ ses.pc \in {"issue", "issuing", "clean", "unlink", "again"} => active = {}
    /\ ses.pc \in {"clean", "unlink"} =>
          \E t \in terminals : t.work = ses.work /\ t.receipt.outcome = "rejected"

\* Nothing is on the disk, and no rank group runs, for an attempt that was not
\* leased yet.
Issued == {AttemptOf(r.work) : r \in active} \cup {AttemptOf(t.work) : t \in terminals}
Traced ==
    \A k \in Attempt :
        attempts[k] # "none" \/ results[k] # "none" \/ k \in groups => k \in Issued

\* A canonical payload is a committed one or the one about to be committed.
Accounted ==
    \A n \in 1..Target : payloads[n] # None =>
        \/ \E i \in 2..Len(lineage) : lineage[i].step = n
        \/ \E r \in active : r.work.id[2] = n /\ payloads[n] = AttemptOf(r.work)

\* The active Work Unit has a good result if its attempt was promoted, and its
\* attempt or its payload is there if it has a good result.
Trained ==
    \A r \in active :
        LET k == AttemptOf(r.work)
        IN  /\ payloads[r.work.id[2]] = k => results[k] = "good"
            /\ results[k] = "good" => attempts[k] = "complete" \/ payloads[r.work.id[2]] = k

\* What the session knows of the payload it is about to write or to commit.
Judged ==
    LET end == payloads[ses.work.id[2]]
    IN  /\ ses.pc \in {"prepare", "train", "refuse"} => end = None
        /\ ses.pc \in {"judge", "promote"} /\ ~ses.recovering => end = None
        /\ ses.pc \in {"promote", "commit"} => results[Current] = "good"
        /\ ses.pc = "commit" => end = Current /\ ses.digest = Current

\* Everything but the session process.
Stored == Ordered /\ Leased /\ Traced /\ Accounted /\ Trained /\ PayloadsInPlace /\ AcceptedPayload
Inv    == TypeOK /\ Stored /\ Working /\ Judged

-----------------------------------------------------------------------------
\* The least of some numbers, from the well-foundedness of their order.
LEMMA LeastOf ==
  ASSUME NEW S, S \subseteq Nat, S # {}
  PROVE  \E n \in S : \A m \in S : n <= m
<1> DEFINE R == {ss \in Nat \X Nat : ss[1] < ss[2]}
<1>1. IsWellFoundedOn(R, Nat)
  BY NatLessThanWellFounded DEF OpToRel
<1> HIDE DEF R
<1>2. PICK n \in S : \A m \in S : <<m, n>> \notin R
  BY <1>1, WFMin
<1>3. \A m \in S : ~(m < n)
  BY <1>2 DEF R
<1> QED
  BY <1>3

\* Max finds the largest of some numbers that have a bound: it is the least
\* bound.
LEMMA MaxOf ==
  ASSUME NEW n \in Nat, NEW S, S \subseteq 0..n, S # {}
  PROVE  Max(S) \in S /\ \A x \in S : x <= Max(S)
<1> DEFINE B == {b \in Nat : \A x \in S : x <= b}
<1>1. B \subseteq Nat /\ n \in B
  OBVIOUS
<1>2. PICK b \in B : \A c \in B : b <= c
  <2> HIDE DEF B
  <2> QED
    BY <1>1, LeastOf
<1>3. b \in S
  <2>1. SUFFICES ASSUME b \notin S PROVE FALSE
    OBVIOUS
  <2>2. PICK x \in S : TRUE
    OBVIOUS
  <2>3. b \in Nat /\ \A y \in S : y \in Nat /\ y <= b /\ y # b
    BY <2>1
  <2>4. b - 1 \in Nat /\ \A y \in S : y <= b - 1
    BY <2>2, <2>3
  <2>5. b - 1 \in B
    BY <2>4
  <2> HIDE DEF B
  <2> QED
    BY <1>2, <2>3, <2>5
<1>4. \A x \in S : b >= x /\ x <= b
  BY <1>1
<1> HIDE DEF B
<1>5. \E m \in S : \A x \in S : m >= x
  BY <1>3, <1>4
<1>6. Max(S) \in S /\ \A x \in S : Max(S) >= x
  BY <1>5 DEF Max
<1> QED
  BY <1>6

-----------------------------------------------------------------------------
LEMMA WorkTypes ==
  ASSUME NEW w \in Ctl!WorkUnit
  PROVE  /\ w.id[1] \in 0..Target /\ w.id[2] \in 1..Target /\ w.id[1] < w.id[2]
         /\ w.id = <<w.id[1], w.id[2]>> /\ w.id \in WorkIds
         /\ w.gen \in 1..MaxGen /\ AttemptOf(w) \in Attempt /\ AttemptOf(w) # None
         /\ w.base \in Attempt \cup {Genesis.hash}
BY NoneAssumption DEF Ctl!WorkUnit, Ctl!Generation, WorkIds, Attempt, AttemptOf

LEMMA RecordTypes ==
  ASSUME TypeOK
  PROVE  /\ \A r \in active : r.work \in Ctl!WorkUnit
         /\ \A t \in terminals : t.work \in Ctl!WorkUnit
         /\ MaxGen \in Nat
BY StableAssumption DEF TypeOK, Ctl!ActiveRecord, Ctl!TerminalRecord, MaxGen

\* An attempt's name has the Work Unit's id and generation.
LEMMA AttemptNames ==
  ASSUME NEW v \in Ctl!WorkUnit, NEW w \in Ctl!WorkUnit
  PROVE  AttemptOf(v) = AttemptOf(w) <=> v.id = w.id /\ v.gen = w.gen
<1>1. v.id = <<v.id[1], v.id[2]>> /\ w.id = <<w.id[1], w.id[2]>>
  BY WorkTypes
<1>2. /\ AttemptOf(v)[1] = v.id[1] /\ AttemptOf(v)[2] = v.id[2] /\ AttemptOf(v)[3] = v.gen
      /\ AttemptOf(w)[1] = w.id[1] /\ AttemptOf(w)[2] = w.id[2] /\ AttemptOf(w)[3] = w.gen
  BY DEF AttemptOf
<1>3. v.id = w.id /\ v.gen = w.gen => AttemptOf(v) = AttemptOf(w)
  BY DEF AttemptOf
<1> QED
  BY <1>1, <1>2, <1>3

\* next_generation is above every generation the session has ended.
LEMMA NextIsFresh ==
  ASSUME TypeOK, NEW id
  PROVE  /\ NextGeneration(id) \in Nat \ {0}
         /\ \A t \in terminals : t.work.id = id => t.work.gen < NextGeneration(id)
<1> DEFINE S == GenerationsOf(id) \cup {0}
<1>1. S \subseteq 0..MaxGen
  BY RecordTypes, WorkTypes DEF GenerationsOf, TypeOK
<1>2. \A t \in terminals : t.work.id = id => t.work.gen \in S
  BY DEF GenerationsOf
<1>3. S # {} /\ MaxGen \in Nat
  BY RecordTypes
<1> HIDE DEF S
<1>4. Max(S) \in 0..MaxGen /\ \A x \in S : x <= Max(S)
  BY <1>1, <1>3, MaxOf
<1>5. NextGeneration(id) = Max(S) + 1
  BY DEF NextGeneration, S
<1>6. \A x \in S : x \in Nat
  BY <1>1
<1> QED
  BY <1>2, <1>4, <1>5, <1>6, <1>3

LEMMA HeadTypes ==
  ASSUME TypeOK, lineage # <<>>
  PROVE  /\ Len(lineage) \in Nat \ {0} /\ Head0 \in Ctl!CheckpointRef
         /\ Head0.step \in 0..Target /\ Head0.hash \in Attempt \cup {Genesis.hash}
         /\ \A i \in 1..Len(lineage) : lineage[i].step \in 0..Target
<1>1. lineage \in Seq(Ctl!CheckpointRef)
  BY DEF TypeOK
<1>2. Len(lineage) \in Nat \ {0} /\ \A i \in 1..Len(lineage) : lineage[i] \in Ctl!CheckpointRef
  BY <1>1
<1> QED
  BY <1>2 DEF Head0, Ctl!CheckpointRef

\* A Work Unit at the head ends beyond every committed checkpoint: if there is
\* a payload where it ends, that payload is its own.
LEMMA Beyond ==
  ASSUME TypeOK, Ordered, Accounted, NEW w \in Ctl!WorkUnit, AtHead(w)
  PROVE  /\ \A i \in 1..Len(lineage) : lineage[i].step # w.id[2]
         /\ payloads[w.id[2]] # None =>
               \E r \in active : payloads[w.id[2]] = AttemptOf(r.work)
<1>1. \A i \in 1..Len(lineage) : lineage[i].step \in Nat /\ lineage[i].step <= w.id[1]
  BY HeadTypes DEF AtHead, Ordered
<1>2. \A i \in 1..Len(lineage) : lineage[i].step # w.id[2]
  BY <1>1, WorkTypes
<1>3. \A i \in 2..Len(lineage) : i \in 1..Len(lineage)
  OBVIOUS
<1> QED
  BY <1>2, <1>3, WorkTypes DEF Accounted

-----------------------------------------------------------------------------
LEMMA InitInv == SInit => Inv
<1> SUFFICES ASSUME SInit PROVE Inv
  OBVIOUS
<1>1. lineage = <<>> /\ active = {} /\ terminals = {} /\ fenced = {} /\ saving = FALSE
  BY DEF SInit, Ctl!Init
<1>2. Target \in Nat /\ MaxGen \in Nat /\ Len(lineage) = 0
  BY <1>1, StableAssumption DEF MaxGen
<1>3. TypeOK
  <2>1. ses \in Session
    BY DEF SInit, Down, Session, Points
  <2>2. lineage \in Seq(Ctl!CheckpointRef)
    BY <1>1
  <2> QED
    BY <1>1, <2>1, <2>2 DEF SInit, TypeOK
<1>4. Stored
  BY <1>1, <1>2 DEF SInit, Stored, Ordered, Leased, Traced, Accounted, Trained,
     PayloadsInPlace, AcceptedPayload
<1>5. Working /\ Judged
  BY DEF SInit, Down, Working, Judged
<1> QED
  BY <1>3, <1>4, <1>5 DEF Inv

\* What is stored depends on neither the session process nor on rank groups
\* that end.
StoreStays ==
    /\ UNCHANGED <<lineage, active, terminals, fenced, attempts, results, payloads>>
    /\ groups' \subseteq groups

LEMMA StoreStaysStored ==
  ASSUME Stored, StoreStays
  PROVE  Stored'
<1>1. Ordered' /\ Leased' /\ PayloadsInPlace' /\ AcceptedPayload'
  BY DEF Stored, StoreStays, Ordered, Leased, AtHead, Head0, PayloadsInPlace, AcceptedPayload,
     AttemptOf
<1>2. Traced' /\ Accounted' /\ Trained'
  BY DEF Stored, StoreStays, Traced, Issued, Accounted, Trained
<1> QED
  BY <1>1, <1>2 DEF Stored

LEMMA SessionMoves ==
  ASSUME Inv, StoreStays, saving' \in BOOLEAN, ses' \in Session, Working', Judged'
  PROVE  Inv'
<1>1. TypeOK'
  BY DEF Inv, TypeOK, StoreStays
<1> QED
  BY <1>1, StoreStaysStored DEF Inv

\* A session that ends, raises or dies.
LEMMA SessionEnds ==
  ASSUME Inv, StoreStays, saving' \in BOOLEAN, ses' = Down
  PROVE  Inv'
<1>1. Down \in Session /\ Down.pc = "down"
  BY DEF Down, Session, Points
<1>2. Working' /\ Judged'
  BY <1>1 DEF Working, Judged
<1> QED
  BY <1>1, <1>2, SessionMoves

\* The session does not move.
LEMMA SessionRests ==
  ASSUME Inv, StoreStays, saving' \in BOOLEAN,
         ses' = ses \/ \E x \in {"ok", "failed"} : ses' = [ses EXCEPT !.exit = x]
  PROVE  Inv'
<1>1. /\ ses' \in Session
      /\ ses'.pc = ses.pc /\ ses'.work = ses.work
      /\ ses'.recovering = ses.recovering /\ ses'.digest = ses.digest
  BY DEF Inv, TypeOK, Session
<1>2. Working'
  BY <1>1 DEF Inv, Working, AtHead, Head0, StoreStays
<1>3. Judged'
  BY <1>1 DEF Inv, Judged, Current, StoreStays
<1> QED
  BY <1>1, <1>2, <1>3, SessionMoves

\* The parts of an action every proof about it needs.
LEMMA StoreStaysWhen ==
  /\ UNCHANGED <<cvars, disk>> /\ groups' = groups => StoreStays /\ saving' = saving
  /\ UNCHANGED <<cvars, disk>> /\ groups' \subseteq groups => StoreStays /\ saving' = saving
BY DEF cvars, disk, StoreStays

LEMMA ChooseFreshInv == ASSUME Inv, ChooseFresh PROVE Inv'
<1> DEFINE w == Fresh
<1>1. /\ ses.pc = "choose" /\ lineage # <<>> /\ ~(Head0.step >= Target) /\ active = {}
      /\ w.gen <= MaxGen /\ StoreStays /\ saving' = saving
      /\ ses' = [ses EXCEPT !.pc = "issue", !.try = 0, !.work = w, !.recovering = FALSE]
  BY StoreStaysWhen DEF ChooseFresh, At, Done, Inv, Working, Pass
<1>2. /\ w = WorkForHead(ses.count, w.gen) /\ w.id = WorkForHead(ses.count, 1).id
      /\ w.gen = NextGeneration(w.id)
  BY DEF Fresh, WorkForHead
<1>3. PICK size \in 1..(Target - Head0.step) : w.id = <<Head0.step, Head0.step + size>>
  <2>1. ses.count \in Nat /\ Target \in Nat /\ Head0.step \in 0..Target
    BY <1>1, HeadTypes, StableAssumption DEF Inv, TypeOK, Session
  <2> QED
    BY <1>1, <1>2, <2>1 DEF WorkForHead
<1>4. w \in Ctl!WorkUnit /\ AtHead(w)
  <2>1. /\ w.base = Head0.hash /\ w.shard = 0 /\ w.id[1] = Head0.step
        /\ w = [id |-> w.id, gen |-> w.gen, base |-> w.base, shard |-> w.shard]
    BY <1>2 DEF WorkForHead
  <2>2. w.gen \in 1..MaxGen
    BY <1>1, <1>2, NextIsFresh, RecordTypes DEF Inv
  <2>3. /\ Target \in Nat /\ Head0.step \in 0..Target
        /\ Head0.hash \in Attempt \cup {Genesis.hash}
    BY <1>1, HeadTypes, StableAssumption DEF Inv
  <2>4. w.id \in WorkIds
    BY <1>3, <2>3 DEF WorkIds
  <2> HIDE DEF w
  <2> QED
    BY <1>1, <2>1, <2>2, <2>3, <2>4 DEF Ctl!WorkUnit, Ctl!Generation, AtHead
<1>5. \A t \in terminals : t.work.id = w.id => t.work.gen < w.gen
  BY <1>2, NextIsFresh DEF Inv
<1> HIDE DEF w
<1>6. /\ ses' \in Session /\ ses'.pc = "issue" /\ ses'.work = w
  BY <1>1, <1>4 DEF Inv, TypeOK, Session, Points
<1>7. Working'
  BY <1>1, <1>4, <1>5, <1>6 DEF Working, AtHead, Head0, StoreStays
<1>8. Judged'
  BY <1>6 DEF Judged
<1> QED
  BY <1>1, <1>6, <1>7, <1>8, SessionMoves DEF Inv, TypeOK

\* A recovery judges only what left a result, and gives an attempt up only if
\* no payload was promoted from it.
LEMMA ChooseActiveInv == ASSUME Inv, ChooseActive PROVE Inv'
<1>1. StoreStays /\ saving' = saving /\ ses.pc = "choose" /\ saving \in BOOLEAN /\ lineage # <<>>
  BY StoreStaysWhen DEF ChooseActive, Pass, Inv, TypeOK, At, Working
<1>2. CASE ses' = Down
  BY <1>1, <1>2, SessionEnds
<1>3. ASSUME NEW r \in active, 
             ses' = [ses EXCEPT !.work = r.work, !.recovering = TRUE,
                          !.pc = IF Recoverable(r.work) THEN "judge" ELSE "refuse"]
      PROVE  Inv'
  <2>1. /\ ses' \in Session /\ ses'.work = r.work /\ ses'.recovering
        /\ ses'.pc = IF Recoverable(r.work) THEN "judge" ELSE "refuse"
    BY <1>3, RecordTypes DEF Inv, TypeOK, Session, Points
  <2>2. r.work \in Ctl!WorkUnit /\ AtHead(r.work)
    BY RecordTypes DEF Inv, Stored, Leased
  <2>3. Working'
    BY <1>1, <2>1, <2>2 DEF Working, AtHead, Head0, StoreStays
  <2>4. ~Recoverable(r.work) => payloads[r.work.id[2]] = None
    <3>1. payloads[r.work.id[2]] # None => payloads[r.work.id[2]] = AttemptOf(r.work)
      BY <2>2, Beyond DEF Inv, Stored, Leased
    <3> QED
      BY <3>1 DEF Recoverable, Inv, Stored, Trained
  <2>5. Judged'
    BY <1>1, <2>1, <2>4 DEF Judged, StoreStays
  <2> QED
    BY <1>1, <2>1, <2>3, <2>5, SessionMoves
<1> QED
  BY <1>2, <1>3 DEF ChooseActive, Raise

\* A step of the session that changes nothing but its own point.
LEMMA PointMoves ==
  ASSUME Inv, StoreStays, saving' = saving, NEW pc \in Points,
         ses' = [ses EXCEPT !.pc = pc]
  PROVE  /\ ses' \in Session /\ ses'.pc = pc /\ ses'.work = ses.work
         /\ ses'.recovering = ses.recovering /\ ses'.digest = ses.digest
         /\ (Working' /\ Judged' => Inv')
<1>1. /\ ses' \in Session /\ ses'.pc = pc /\ ses'.work = ses.work
      /\ ses'.recovering = ses.recovering /\ ses'.digest = ses.digest
  BY DEF Inv, TypeOK, Session
<1> QED
  BY <1>1, SessionMoves DEF Inv, TypeOK

LEMMA CheckPauseInv == ASSUME Inv, CheckPause PROVE Inv'
<1>1. StoreStays /\ saving' = saving /\ ses.pc = "issue" /\ saving \in BOOLEAN
  BY StoreStaysWhen DEF CheckPause, Pass, Inv, TypeOK, At
<1>2. CASE ses' = Down
  BY <1>1, <1>2, SessionEnds
<1>3. CASE ses' = [ses EXCEPT !.pc = "issuing"]
  <2>1. /\ ses'.pc = "issuing" /\ ses'.work = ses.work
        /\ (Working' /\ Judged' => Inv')
    BY <1>1, <1>3, PointMoves DEF Points
  <2>2. Working'
    BY <1>1, <2>1 DEF Inv, Working, AtHead, Head0, StoreStays
  <2>3. Judged'
    BY <2>1 DEF Judged
  <2> QED
    BY <2>1, <2>2, <2>3
<1> QED
  BY <1>2, <1>3 DEF CheckPause, Raise, Go

\* issue: the new attempt has a name nothing on the disk has.
LEMMA IssueInv == ASSUME Inv, Issue PROVE Inv'
<1> DEFINE w == ses.work
           r == [work |-> w, owner |-> Owner, expiry |-> 0]
           k == AttemptOf(w)
<1>1. /\ ses.pc = "issuing" /\ active = {} /\ active' = {r} /\ saving' = TRUE
      /\ ses' = [ses EXCEPT !.pc = "prepare"]
      /\ UNCHANGED <<lineage, terminals, fenced, attempts, results, payloads, groups>>
  BY DEF Issue, At, Ctl!IssueNew, Ctl!Save, Go, Pass, disk, Inv, Working
<1>2. /\ w \in Ctl!WorkUnit /\ AtHead(w)
      /\ \A t \in terminals : t.work.id = w.id => t.work.gen < w.gen
  BY <1>1 DEF Inv, Working
<1>3. r.work = w /\ r.owner = Owner /\ r \in Ctl!ActiveRecord
  BY <1>2 DEF Ctl!ActiveRecord, Ctl!NoExpiry
<1> HIDE DEF w, r
<1>4. /\ ses' \in Session /\ ses'.pc = "prepare" /\ ses'.work = w
  BY <1>1 DEF Inv, TypeOK, Session, Points, w
<1>5. \A t \in terminals : AttemptOf(t.work) # k
  <2>1. ASSUME NEW t \in terminals, AttemptOf(t.work) = k PROVE FALSE
    <3>1. t.work \in Ctl!WorkUnit
      BY RecordTypes DEF Inv
    <3>2. t.work.gen < w.gen /\ t.work.gen = w.gen /\ w.gen \in 1..MaxGen
      BY <1>2, <2>1, <3>1, AttemptNames, WorkTypes
    <3> QED
      BY <3>2, RecordTypes DEF Inv
  <2> QED
    BY <2>1
<1>6. k \in Attempt /\ k \notin Issued
  BY <1>1, <1>2, <1>5, WorkTypes DEF Issued
<1>7. attempts[k] = "none" /\ results[k] = "none" /\ k \notin groups
  BY <1>6 DEF Inv, Stored, Traced
<1>8. payloads[w.id[2]] = None
  BY <1>1, <1>2, Beyond DEF Inv, Stored
<1>9. TypeOK'
  BY <1>1, <1>3, <1>4 DEF Inv, TypeOK
<1>10. Ordered' /\ PayloadsInPlace' /\ AcceptedPayload'
  BY <1>1 DEF Inv, Stored, Ordered, Head0, PayloadsInPlace, AcceptedPayload
<1>11. Leased'
  BY <1>1, <1>2, <1>3, <1>5 DEF Inv, Stored, Leased, AtHead, Head0
<1>12. Traced'
  BY <1>1 DEF Inv, Stored, Traced, Issued
<1>13. Accounted'
  BY <1>1 DEF Inv, Stored, Accounted
<1>14. Trained'
  BY <1>1, <1>3, <1>6, <1>7, <1>8, WorkTypes, NoneAssumption DEF Trained
<1>15. Working'
  BY <1>1, <1>2, <1>3, <1>4 DEF Working, AtHead, Head0
<1>16. Judged'
  BY <1>1, <1>4, <1>8 DEF Judged
<1> QED
  BY <1>9, <1>10, <1>11, <1>12, <1>13, <1>14, <1>15, <1>16 DEF Inv, Stored

\* A step that leaves the controller's state alone.
CtlStays == UNCHANGED <<lineage, active, terminals, fenced, saving>>

LEMMA CtlStaysOrdered ==
  ASSUME Stored, CtlStays
  PROVE  Ordered' /\ Leased' /\ Issued' = Issued
BY DEF Stored, CtlStays, Ordered, Leased, AtHead, Head0, Issued

\* The session's own attempt: it is the active one.
LEMMA HeldAttempt ==
  ASSUME Inv, ses.pc \in {"prepare", "train", "judge", "promote", "commit", "refuse"}
  PROVE  /\ ses.work \in Ctl!WorkUnit /\ AtHead(ses.work)
         /\ Current \in Attempt /\ Current # None /\ Current \in Issued
         /\ ses.work.id[2] \in 1..Target
         /\ \A r \in active : r.work = ses.work
         /\ \E r \in active : r.work = ses.work
         /\ \A t \in terminals : AttemptOf(t.work) # Current
BY WorkTypes DEF Inv, Stored, Leased, Working, Current, Issued

LEMMA PrepareInv == ASSUME Inv, Prepare PROVE Inv'
<1>1. CtlStays /\ ses.pc = "prepare"
  BY DEF Prepare, cvars, CtlStays, At
<1>2. CASE ses' = Down /\ UNCHANGED <<disk, groups>>
  BY <1>1, <1>2, SessionEnds DEF Inv, TypeOK, CtlStays, StoreStays, disk
<1>3. CASE /\ attempts' = [attempts EXCEPT ![Current] = "partial"]
           /\ results' = [results EXCEPT ![Current] = "none"]
           /\ groups' = groups \cup {Current}
           /\ ses' = [ses EXCEPT !.pc = "train", !.exit = "none"]
           /\ UNCHANGED payloads
  <2>1. /\ ses' \in Session /\ ses'.pc = "train" /\ ses'.work = ses.work
    BY <1>3 DEF Inv, TypeOK, Session, Points
  <2>2. payloads[ses.work.id[2]] = None
    BY <1>1 DEF Inv, Judged
  <2>3. /\ Current \in Attempt /\ Current \in Issued /\ Current # None
        /\ \A r \in active : r.work = ses.work
        /\ \A t \in terminals : AttemptOf(t.work) # Current
    BY <1>1, HeldAttempt
  <2>4. /\ DOMAIN attempts = Attempt /\ DOMAIN results = Attempt
        /\ \A k \in Attempt \ {Current} : attempts'[k] = attempts[k] /\ results'[k] = results[k]
        /\ results'[Current] = "none"
    BY <1>3, <2>3 DEF Inv, TypeOK
  <2>5. TypeOK'
    BY <1>1, <1>3, <2>1, <2>3 DEF Inv, TypeOK, CtlStays
  <2>6. Ordered' /\ Leased' /\ Issued' = Issued
    BY <1>1, CtlStaysOrdered DEF Inv
  <2>7. Traced'
    BY <1>3, <2>3, <2>4, <2>6 DEF Inv, Stored, Traced
  <2>8. Accounted' /\ PayloadsInPlace'
    BY <1>1, <1>3 DEF Inv, Stored, Accounted, PayloadsInPlace, CtlStays
  <2>9. Trained'
    BY <1>1, <1>3, <2>2, <2>3, <2>4 DEF Trained, CtlStays, Current
  <2>10. AcceptedPayload'
    <3>1. \A t \in terminals : AttemptOf(t.work) \in Attempt
      BY RecordTypes, WorkTypes DEF Inv
    <3> QED
      BY <1>1, <2>3, <2>4, <3>1 DEF Inv, Stored, AcceptedPayload, CtlStays
  <2>11. Working'
    BY <1>1, <2>1 DEF Inv, Working, AtHead, Head0, CtlStays
  <2>12. Judged'
    BY <1>3, <2>1, <2>2 DEF Judged
  <2> QED
    BY <2>5, <2>6, <2>7, <2>8, <2>9, <2>10, <2>11, <2>12 DEF Inv, Stored
<1> QED
  BY <1>2, <1>3 DEF Prepare, Raise

LEMMA TrainEndedInv == ASSUME Inv, TrainEnded PROVE Inv'
<1>1. /\ StoreStays /\ saving' = saving /\ ses.pc = "train" /\ ses' = [ses EXCEPT !.pc = "judge"]
  BY StoreStaysWhen DEF TrainEnded, At, Go, Pass
<1>2. /\ ses'.pc = "judge" /\ ses'.work = ses.work
      /\ (Working' /\ Judged' => Inv')
  BY <1>1, PointMoves DEF Points
<1>3. Working'
  BY <1>1, <1>2 DEF Inv, Working, AtHead, Head0, StoreStays
<1>4. Judged'
  BY <1>1, <1>2 DEF Inv, Judged, StoreStays
<1> QED
  BY <1>2, <1>3, <1>4

LEMMA TimeoutInv == ASSUME Inv, Timeout PROVE Inv'
<1>1. /\ StoreStays /\ saving' = saving /\ ses.pc = "train" /\ saving \in BOOLEAN
      /\ ses' = [ses EXCEPT !.pc = "judge", !.exit = "failed"]
  BY StoreStaysWhen DEF Timeout, At, Inv, TypeOK, cvars
<1>2. ses' \in Session /\ ses'.pc = "judge" /\ ses'.work = ses.work
  BY <1>1 DEF Inv, TypeOK, Session, Points
<1>3. Working'
  BY <1>1, <1>2 DEF Inv, Working, AtHead, Head0, StoreStays
<1>4. Judged'
  BY <1>1, <1>2 DEF Inv, Judged, StoreStays
<1> QED
  BY <1>1, <1>2, <1>3, <1>4, SessionMoves

LEMMA JudgeInv == ASSUME Inv, Judge PROVE Inv'
<1>1. StoreStays /\ saving' = saving /\ ses.pc = "judge" /\ saving \in BOOLEAN
  BY StoreStaysWhen DEF Judge, At, Pass, Inv, TypeOK
<1>2. CASE ses' = Down
  BY <1>1, <1>2, SessionEnds
<1>3. CASE Valid /\ ses' = [ses EXCEPT !.pc = "promote"]
  <2>1. /\ ses'.pc = "promote" /\ ses'.work = ses.work /\ ses'.recovering = ses.recovering
        /\ (Working' /\ Judged' => Inv')
    BY <1>1, <1>3, PointMoves DEF Points
  <2>2. Working'
    BY <1>1, <2>1 DEF Inv, Working, AtHead, Head0, StoreStays
  <2>3. Judged'
    BY <1>1, <1>3, <2>1 DEF Inv, Judged, Valid, Current, StoreStays
  <2> QED
    BY <2>1, <2>2, <2>3
<1>4. CASE ~ses.recovering /\ ses' = [ses EXCEPT !.pc = "refuse"]
  <2>1. /\ ses'.pc = "refuse" /\ ses'.work = ses.work
        /\ (Working' /\ Judged' => Inv')
    BY <1>1, <1>4, PointMoves DEF Points
  <2>2. Working'
    BY <1>1, <2>1 DEF Inv, Working, AtHead, Head0, StoreStays
  <2>3. Judged'
    BY <1>1, <1>4, <2>1 DEF Inv, Judged, StoreStays
  <2> QED
    BY <2>1, <2>2, <2>3
<1> QED
  BY <1>2, <1>3, <1>4 DEF Judge, Go, Raise

\* There is never another payload in the way, and what is promoted is the
\* attempt itself: found in its directory, or promoted before the session died.
LEMMA PromotesOwn ==
  ASSUME Inv, ses.pc = "promote"
  PROVE  /\ payloads[ses.work.id[2]] \in {None, Current}
         /\ attempts[Current] = "none" => payloads[ses.work.id[2]] = Current
<1> DEFINE w == ses.work
<1>1. /\ w \in Ctl!WorkUnit /\ AtHead(w) /\ \A r \in active : r.work = w
      /\ \E r \in active : r.work = w
  BY HeldAttempt
<1>2. payloads[w.id[2]] # None => payloads[w.id[2]] = Current
  BY <1>1, Beyond DEF Inv, Stored, Current
<1>3. attempts[Current] = "complete" \/ payloads[w.id[2]] = Current
  BY <1>1 DEF Inv, Judged, Stored, Trained, Current
<1> QED
  BY <1>2, <1>3

LEMMA PromoteInv == ASSUME Inv, Promote PROVE Inv'
<1> DEFINE end == ses.work.id[2]
<1>1. /\ CtlStays /\ ses.pc = "promote" /\ UNCHANGED <<results, groups>>
      /\ payloads' = [payloads EXCEPT ![end] = Current]
      /\ attempts' = [attempts EXCEPT ![Current] = "none"]
      /\ ses' = [ses EXCEPT !.pc = "commit", !.digest = Current]
  <2>1. /\ CtlStays /\ ses.pc = "promote" /\ UNCHANGED <<results, groups>>
    BY DEF Promote, CtlStays, cvars, At
  <2>2. /\ (IF attempts[Current] # "none" THEN Current ELSE payloads[end]) = Current
        /\ payloads[end] \in {None, Current}
    BY <2>1, PromotesOwn
  <2> QED
    BY <2>1, <2>2, Zenon DEF Promote
<1>2. /\ ses.work \in Ctl!WorkUnit /\ AtHead(ses.work) /\ end \in 1..Target
      /\ Current \in Attempt /\ Current # None /\ Current \in Issued
      /\ \A r \in active : r.work = ses.work
      /\ \E r \in active : r.work = ses.work
  BY <1>1, HeldAttempt
<1>3. payloads[end] \in {None, Current} /\ results[Current] = "good"
  BY <1>1, PromotesOwn DEF Inv, Judged
<1>4. /\ \A n \in 1..Target : n # end => payloads'[n] = payloads[n]
      /\ payloads'[end] = Current
      /\ \A k \in Attempt : k # Current => attempts'[k] = attempts[k]
      /\ attempts'[Current] = "none"
  BY <1>1, <1>2 DEF Inv, TypeOK
<1>5. /\ ses' \in Session /\ ses'.pc = "commit" /\ ses'.work = ses.work /\ ses'.digest = Current
  BY <1>1, <1>2 DEF Inv, TypeOK, Session, Points
<1>6. TypeOK'
  BY <1>1, <1>2, <1>5 DEF Inv, TypeOK, CtlStays
<1>7. Ordered' /\ Leased' /\ Issued' = Issued
  BY <1>1, CtlStaysOrdered DEF Inv
<1>8. Traced'
  BY <1>1, <1>2, <1>4, <1>7 DEF Inv, Stored, Traced
<1>9. Accounted'
  <2>1. \E r \in active' : r.work.id[2] = end /\ payloads'[end] = AttemptOf(r.work)
    BY <1>1, <1>2, <1>4 DEF CtlStays, Current
  <2> QED
    BY <1>1, <1>4, <2>1 DEF Inv, Stored, Accounted, CtlStays
<1>10. Trained'
  BY <1>1, <1>2, <1>3, <1>4 DEF Trained, CtlStays, Current
<1>11. PayloadsInPlace'
  <2>1. \A i \in 2..Len(lineage) : lineage[i].step # end /\ lineage[i].step \in 1..Target
    BY <1>2, Beyond DEF Inv, Stored, Ordered
  <2> QED
    BY <1>1, <1>4, <2>1 DEF Inv, Stored, PayloadsInPlace, CtlStays
<1>12. AcceptedPayload'
  BY <1>1 DEF Inv, Stored, AcceptedPayload, CtlStays
<1>13. Working'
  BY <1>1, <1>5 DEF Inv, Working, AtHead, Head0, CtlStays
<1>14. Judged'
  BY <1>1, <1>3, <1>4, <1>5 DEF Judged, Current
<1> QED
  BY <1>6, <1>7, <1>8, <1>9, <1>10, <1>11, <1>12, <1>13, <1>14 DEF Inv, Stored

-----------------------------------------------------------------------------
\* A receipt takes the place of the session's lease.
Settles(rc) ==
    /\ active' = {} /\ fenced' = fenced
    /\ terminals' = terminals \cup {[work |-> ses.work, receipt |-> rc]}

LEMMA CommitSettles ==
  ASSUME Inv, ses.pc \in {"commit", "refuse"}, NEW rc, rc.by = Owner
  PROVE  active \ Ctl!LeaseFor(ses.work, rc) = {}
BY HeldAttempt DEF Inv, Stored, Leased, Ctl!LeaseFor

LEMMA SettledFacts ==
  ASSUME Inv, ses.pc \in {"commit", "refuse"}, NEW rc \in Ctl!ContributionReceipt, Settles(rc)
  PROVE  /\ Issued' = Issued /\ terminals' \subseteq Ctl!TerminalRecord
         /\ \A t, u \in terminals' : AttemptOf(t.work) = AttemptOf(u.work) => t = u
         /\ \E t \in terminals' : t.work = ses.work /\ t.receipt = rc
<1> DEFINE x == [work |-> ses.work, receipt |-> rc]
<1>1. x.work = ses.work /\ x.receipt = rc
  OBVIOUS
<1>2. /\ ses.work \in Ctl!WorkUnit
      /\ \A r \in active : r.work = ses.work
      /\ \E r \in active : r.work = ses.work
      /\ \A t \in terminals : AttemptOf(t.work) # AttemptOf(ses.work)
  BY HeldAttempt DEF Current
<1>3. x \in Ctl!TerminalRecord
  BY <1>2 DEF Ctl!TerminalRecord
<1> HIDE DEF x
<1>4. terminals' = terminals \cup {x} /\ active' = {}
  BY DEF Settles, x
<1>5. {AttemptOf(r.work) : r \in active} = {AttemptOf(ses.work)}
  BY <1>2
<1>6. {AttemptOf(t.work) : t \in terminals'} =
         {AttemptOf(t.work) : t \in terminals} \cup {AttemptOf(ses.work)}
  BY <1>1, <1>4
<1>7. Issued' = Issued
  BY <1>4, <1>5, <1>6 DEF Issued
<1>8. \A t, u \in terminals' : AttemptOf(t.work) = AttemptOf(u.work) => t = u
  BY <1>1, <1>2, <1>4 DEF Inv, Stored, Leased
<1> QED
  BY <1>1, <1>3, <1>4, <1>7, <1>8 DEF Inv, TypeOK

\* Once it is settled, the disk holds nothing that is not accounted for.
LEMMA SettledStore ==
  ASSUME Inv, ses.pc \in {"commit", "refuse"}, NEW rc \in Ctl!ContributionReceipt, Settles(rc),
         UNCHANGED <<disk, groups>>
  PROVE  Traced' /\ Trained'
BY SettledFacts DEF Inv, Stored, Traced, Trained, Settles, disk

LEMMA RefuseInv == ASSUME Inv, Refuse PROVE Inv'
<1>1. /\ ses.pc = "refuse" /\ Reject.by = Owner /\ Reject.output = None
      /\ Reject.outcome = "rejected" /\ Reject \in Ctl!ContributionReceipt
  BY DEF Refuse, At, Reject, Ctl!ContributionReceipt
<1>2. /\ Settles(Reject) /\ lineage' = lineage /\ saving' = TRUE /\ UNCHANGED <<disk, groups>>
      /\ ses' = [ses EXCEPT !.pc = IF ses.recovering THEN "again" ELSE "clean"]
  BY <1>1, CommitSettles DEF Refuse, Ctl!CommitReceipt, Ctl!Save, Settles, Pass, Go
<1>3. /\ ses' \in Session /\ ses'.work = ses.work
      /\ ses'.pc = "again" \/ ses'.pc = "clean"
  BY <1>2 DEF Inv, TypeOK, Session, Points
<1>4. /\ Issued' = Issued /\ terminals' \subseteq Ctl!TerminalRecord
      /\ \A t, u \in terminals' : AttemptOf(t.work) = AttemptOf(u.work) => t = u
      /\ \E t \in terminals' : t.work = ses.work /\ t.receipt = Reject
  BY <1>1, <1>2, SettledFacts
<1>5. TypeOK'
  BY <1>2, <1>3, <1>4 DEF Inv, TypeOK, Settles, disk
<1>6. Ordered' /\ PayloadsInPlace'
  BY <1>2 DEF Inv, Stored, Ordered, Head0, PayloadsInPlace, disk
<1>7. Leased'
  BY <1>2, <1>4 DEF Leased, Settles
<1>8. Traced' /\ Trained'
  BY <1>1, <1>2, SettledStore
<1>9. Accounted'
  <2>1. payloads[ses.work.id[2]] = None /\ \A r \in active : r.work = ses.work
    BY <1>1, HeldAttempt DEF Inv, Judged
  <2> QED
    BY <1>2, <2>1 DEF Inv, Stored, Accounted, disk
<1>10. AcceptedPayload'
  BY <1>1, <1>2 DEF Inv, Stored, AcceptedPayload, Settles, disk
<1>11. Working'
  BY <1>1, <1>2, <1>3, <1>4 DEF Inv, Working, AtHead, Head0, Settles
<1>12. Judged'
  BY <1>3 DEF Judged
<1> QED
  BY <1>5, <1>6, <1>7, <1>8, <1>9, <1>10, <1>11, <1>12 DEF Inv, Stored

\* commit: the head moves to the payload that was promoted.
LEMMA CommitInv == ASSUME Inv, Commit PROVE Inv'
<1> DEFINE w  == ses.work
           rc == Accept(ses.digest)
           c  == [hash |-> ses.digest, parent |-> w.base, step |-> w.id[2]]
           m  == Len(lineage)
<1>1. /\ ses.pc = "commit" /\ w \in Ctl!WorkUnit /\ AtHead(w) /\ w.id[2] \in 1..Target
      /\ ses.digest = Current /\ payloads[w.id[2]] = Current /\ results[Current] = "good"
      /\ Current \in Attempt /\ Current = AttemptOf(w)
  BY HeldAttempt DEF Commit, At, Inv, Judged, Current
<1>2. /\ rc.by = Owner /\ rc.output = Current /\ rc.outcome = "accepted"
      /\ rc \in Ctl!ContributionReceipt
      /\ c.hash = Current /\ c.step = w.id[2] /\ c \in Ctl!CheckpointRef
  BY <1>1, WorkTypes, StableAssumption DEF Accept, Ctl!ContributionReceipt, Ctl!CheckpointRef
<1>3. /\ Ctl!CommitCheckpoint(w, rc, c) /\ UNCHANGED <<disk, groups>>
      /\ ses' = [ses EXCEPT !.pc = "choose", !.left = @ - 1] /\ ses.left \in Int
  BY DEF Commit, Pass, Inv, TypeOK, Session
<1>4. /\ Settles(rc) /\ lineage' = Append(lineage, c) /\ saving' = TRUE
      /\ Ctl!IsLineage(Append(lineage, c))
  <2> HIDE DEF rc, c, w
  <2>1. active \ Ctl!LeaseFor(w, rc) = {}
    BY <1>1, <1>2, CommitSettles DEF w
  <2>2. /\ active' = {} /\ fenced' = fenced \cup {}
        /\ terminals' = terminals \cup {[work |-> w, receipt |-> rc]}
    BY <1>3, <2>1 DEF Ctl!CommitCheckpoint
  <2> QED
    BY <1>3, <2>2 DEF Ctl!CommitCheckpoint, Ctl!Save, Settles, w
<1> HIDE DEF rc, c
<1>5. /\ m \in Nat \ {0} /\ Len(lineage') = m + 1 /\ lineage'[m + 1] = c
      /\ \A i \in 1..m : lineage'[i] = lineage[i]
      /\ lineage' \in Seq(Ctl!CheckpointRef) /\ lineage' # <<>>
  <2>1. m \in Nat \ {0} /\ lineage \in Seq(Ctl!CheckpointRef)
    BY <1>1, HeadTypes DEF Inv, TypeOK, AtHead
  <2> QED
    BY <1>2, <1>4, <2>1
<1>6. /\ ses' \in Session /\ ses'.pc = "choose"
  <2>1. ses.left - 1 \in Int
    BY <1>3
  <2>2. ses \in Session /\ ses' = [[ses EXCEPT !.pc = "choose"] EXCEPT !.left = ses.left - 1]
    BY <1>3 DEF Inv, TypeOK, Session
  <2> QED
    BY <2>1, <2>2 DEF Session, Points
<1>7. /\ Issued' = Issued /\ terminals' \subseteq Ctl!TerminalRecord
      /\ \A t, u \in terminals' : AttemptOf(t.work) = AttemptOf(u.work) => t = u
  BY <1>1, <1>2, <1>4, SettledFacts
<1>8. TypeOK'
  BY <1>3, <1>4, <1>5, <1>6, <1>7 DEF Inv, TypeOK, Settles, disk
<1>9. \A i \in 1..m : lineage[i].step \in Nat /\ lineage[i].step < w.id[2]
  <2>1. \A i \in 1..m : lineage[i].step \in Nat /\ lineage[i].step <= w.id[1]
    BY <1>1, HeadTypes DEF Inv, Stored, AtHead, Ordered
  <2> QED
    BY <1>1, <2>1, WorkTypes
<1> HIDE DEF m
<1>10. Ordered'
  <2>1. /\ Head0' = c /\ c.step \in 1..Target /\ Target \in Nat
    BY <1>1, <1>2, <1>5, StableAssumption DEF Head0
  <2>2. lineage'[1] = Genesis
    BY <1>1, <1>5 DEF Inv, Stored, Ordered, AtHead
  <2>3. \A i \in 1..(m + 1) : lineage'[i].step <= c.step
    BY <1>2, <1>5, <1>9, <2>1
  <2>4. \A i \in 2..(m + 1) : lineage'[i].step \in 1..Target
    <3>1. \A i \in 2..m : lineage[i].step \in 1..Target
      BY <1>1 DEF Inv, Stored, Ordered, AtHead, m
    <3> QED
      BY <1>5, <2>1, <3>1
  <2> QED
    BY <1>4, <1>5, <2>1, <2>2, <2>3, <2>4 DEF Ordered
<1>11. Leased'
  BY <1>4, <1>7 DEF Leased, Settles
<1>12. Traced' /\ Trained'
  BY <1>1, <1>2, <1>3, <1>4, SettledStore
<1>13. Accounted'
  <2>1. \A r \in active : r.work = w
    BY <1>1, HeldAttempt
  <2>2. ASSUME NEW n \in 1..Target, payloads'[n] # None
        PROVE  \E i \in 2..(m + 1) : lineage'[i].step = n
    <3>1. CASE n = w.id[2]
      BY <1>2, <1>5, <3>1
    <3>2. CASE n # w.id[2]
      <4>1. PICK i \in 2..Len(lineage) : lineage[i].step = n
        BY <1>3, <2>1, <2>2, <3>2 DEF Inv, Stored, Accounted, disk
      <4> QED
        BY <1>5, <4>1 DEF m
    <3> QED
      BY <3>1, <3>2
  <2> QED
    BY <1>5, <2>2 DEF Accounted
<1>14. PayloadsInPlace'
  <2>1. \A i \in 2..m : payloads[lineage[i].step] = lineage[i].hash
    BY DEF Inv, Stored, PayloadsInPlace, m
  <2>2. payloads' = payloads
    BY <1>3 DEF disk
  <2>3. \A i \in 2..(m + 1) : payloads'[lineage'[i].step] = lineage'[i].hash
    BY <1>1, <1>2, <1>5, <2>1, <2>2
  <2> QED
    BY <1>5, <2>3 DEF PayloadsInPlace
<1>15. AcceptedPayload'
  <2> DEFINE x == [work |-> w, receipt |-> rc]
  <2>1. x.work = w /\ x.receipt = rc
    OBVIOUS
  <2> HIDE DEF x
  <2>2. terminals' = terminals \cup {x} /\ results' = results
    BY <1>3, <1>4 DEF Settles, disk, x
  <2> QED
    BY <1>1, <1>2, <2>1, <2>2 DEF Inv, Stored, AcceptedPayload
<1>16. Working'
  BY <1>5, <1>6 DEF Working
<1>17. Judged'
  BY <1>6 DEF Judged
<1> QED
  BY <1>8, <1>10, <1>11, <1>12, <1>13, <1>14, <1>15, <1>16, <1>17 DEF Inv, Stored

-----------------------------------------------------------------------------
\* The attempt that is cleared away is a rejected one.
LEMMA ClearedAttempt ==
  ASSUME Inv, ses.pc \in {"clean", "unlink"}
  PROVE  /\ Current \in Attempt /\ active = {} /\ lineage # <<>>
         /\ \A t \in terminals : t.receipt.outcome = "accepted" =>
               AttemptOf(t.work) \in Attempt /\ AttemptOf(t.work) # Current
<1>1. PICK u \in terminals : u.work = ses.work /\ u.receipt.outcome = "rejected"
  BY DEF Inv, Working
<1>2. \A t \in terminals : AttemptOf(t.work) \in Attempt
  BY RecordTypes, WorkTypes DEF Inv
<1> QED
  BY <1>1, <1>2 DEF Inv, Stored, Leased, Working, Current

LEMMA CleanInv == ASSUME Inv, Clean PROVE Inv'
<1>1. /\ CtlStays /\ ses.pc = "clean" /\ UNCHANGED <<results, payloads, groups>>
      /\ attempts' = [attempts EXCEPT ![Current] = "none"]
      /\ ses' = [ses EXCEPT !.pc = "unlink"]
  BY DEF Clean, cvars, CtlStays, At, Go
<1>2. Current \in Attempt /\ active = {} /\ lineage # <<>>
  BY <1>1, ClearedAttempt
<1>3. ses' \in Session /\ ses'.pc = "unlink" /\ ses'.work = ses.work
  BY <1>1 DEF Inv, TypeOK, Session, Points
<1>4. /\ attempts' \in [Attempt -> {"none", "partial", "complete"}]
      /\ \A k \in Attempt : attempts'[k] # "none" => attempts[k] # "none"
  BY <1>1, <1>2 DEF Inv, TypeOK
<1>5. TypeOK'
  BY <1>1, <1>3, <1>4 DEF Inv, TypeOK, CtlStays
<1>6. Ordered' /\ Leased' /\ Issued' = Issued
  BY <1>1, CtlStaysOrdered DEF Inv
<1>7. Traced'
  BY <1>1, <1>4, <1>6 DEF Inv, Stored, Traced
<1>8. Accounted' /\ Trained' /\ PayloadsInPlace' /\ AcceptedPayload'
  BY <1>1, <1>2 DEF Inv, Stored, Accounted, Trained, PayloadsInPlace, AcceptedPayload, CtlStays
<1>9. Working'
  BY <1>1, <1>3 DEF Inv, Working, AtHead, Head0, CtlStays
<1>10. Judged'
  BY <1>3 DEF Judged
<1> QED
  BY <1>5, <1>6, <1>7, <1>8, <1>9, <1>10 DEF Inv, Stored

LEMMA UnlinkInv == ASSUME Inv, Unlink PROVE Inv'
<1>1. /\ CtlStays /\ ses.pc = "unlink" /\ UNCHANGED <<attempts, payloads, groups>>
      /\ results' = [results EXCEPT ![Current] = "none"]
      /\ ses' = Down \/ ses' = [ses EXCEPT !.pc = "again", !.try = @ + 1]
  BY DEF Unlink, cvars, CtlStays, At, Raise
<1>2. /\ Current \in Attempt /\ active = {} /\ lineage # <<>>
      /\ \A t \in terminals : t.receipt.outcome = "accepted" =>
            AttemptOf(t.work) \in Attempt /\ AttemptOf(t.work) # Current
  BY <1>1, ClearedAttempt
<1>3. /\ ses' \in Session
      /\ \/ ses'.pc = "down"
         \/ ses'.pc = "again" /\ ses'.work = ses.work
  <2>1. CASE ses' = Down
    BY <2>1 DEF Down, Session, Points
  <2>2. CASE ses' = [ses EXCEPT !.pc = "again", !.try = @ + 1]
    <3>1. ses \in Session /\ ses.try + 1 \in Nat
      BY DEF Inv, TypeOK, Session
    <3>2. ses' = [[ses EXCEPT !.pc = "again"] EXCEPT !.try = ses.try + 1]
      BY <2>2, <3>1 DEF Session
    <3> QED
      BY <3>1, <3>2 DEF Session, Points
  <2> QED
    BY <1>1, <2>1, <2>2
<1>4. /\ results' \in [Attempt -> {"none", "good", "bad"}]
      /\ \A k \in Attempt : results'[k] # "none" => results[k] # "none"
      /\ \A k \in Attempt : k # Current => results'[k] = results[k]
  BY <1>1, <1>2 DEF Inv, TypeOK
<1>5. TypeOK'
  BY <1>1, <1>3, <1>4 DEF Inv, TypeOK, CtlStays
<1>6. Ordered' /\ Leased' /\ Issued' = Issued
  BY <1>1, CtlStaysOrdered DEF Inv
<1>7. Traced'
  BY <1>1, <1>4, <1>6 DEF Inv, Stored, Traced
<1>8. Accounted' /\ Trained' /\ PayloadsInPlace'
  BY <1>1, <1>2 DEF Inv, Stored, Accounted, Trained, PayloadsInPlace, CtlStays
<1>9. AcceptedPayload'
  BY <1>1, <1>2, <1>4 DEF Inv, Stored, AcceptedPayload, CtlStays
<1>10. Working'
  BY <1>1, <1>3 DEF Inv, Working, AtHead, Head0, CtlStays
<1>11. Judged'
  BY <1>3 DEF Judged
<1> QED
  BY <1>5, <1>6, <1>7, <1>8, <1>9, <1>10, <1>11 DEF Inv, Stored

LEMMA AgainInv == ASSUME Inv, Again PROVE Inv'
<1> DEFINE g == NextGeneration(ses.work.id)
           w == [ses.work EXCEPT !.gen = g]
<1>1. /\ ses.pc = "again" /\ g <= MaxGen /\ StoreStays /\ saving' = saving
      /\ ses' = [ses EXCEPT !.pc = "issue", !.recovering = FALSE, !.work.gen = g]
  BY StoreStaysWhen DEF Again, At, Pass
<1>2. ses.work \in Ctl!WorkUnit /\ AtHead(ses.work) /\ active = {}
  BY <1>1 DEF Inv, Working
<1>3. /\ g \in Nat \ {0}
      /\ \A t \in terminals : t.work.id = ses.work.id => t.work.gen < g
  BY NextIsFresh DEF Inv
<1> HIDE DEF g
<1>4. /\ w \in Ctl!WorkUnit /\ w.id = ses.work.id /\ w.base = ses.work.base /\ w.gen = g
  BY <1>1, <1>2, <1>3, RecordTypes DEF Ctl!WorkUnit, Ctl!Generation, Inv
<1>5. ses' \in Session /\ ses'.pc = "issue" /\ ses'.work = w
  <2>1. ses \in Session /\ ses' = [ses EXCEPT !.pc = "issue", !.recovering = FALSE, !.work = w]
    BY <1>1 DEF Inv, TypeOK, Session
  <2> QED
    BY <1>4, <2>1 DEF Session, Points
<1> HIDE DEF w
<1>6. Working'
  BY <1>1, <1>2, <1>3, <1>4, <1>5 DEF Working, AtHead, Head0, StoreStays
<1>7. Judged'
  BY <1>5 DEF Judged
<1> QED
  BY <1>1, <1>5, <1>6, <1>7, SessionMoves DEF Inv, TypeOK

\* A new invocation on a fresh or a used workspace.
LEMMA StartInv == ASSUME Inv, NEW n \in StepCounts, Start(n) PROVE Inv'
<1>1. /\ ses.pc = "down" /\ UNCHANGED <<active, terminals, fenced, disk, groups>> /\ saving' = TRUE
      /\ ses' = [Down EXCEPT !.pc = "choose", !.count = n, !.left = MaxUnits]
      /\ \/ lineage = <<>> /\ lineage' = <<Genesis>>
         \/ lineage # <<>> /\ lineage' = lineage
  BY DEF Start, At, Ctl!Initialize, Ctl!Save, Pass, disk
<1>2. ses' \in Session /\ ses'.pc = "choose"
  <2>1. Down \in Session /\ n \in Nat /\ MaxUnits \in Int
    BY StableAssumption DEF Down, Session, Points
  <2> QED
    BY <1>1, <2>1 DEF Session, Points
<1>3. Working' /\ Judged'
  BY <1>1, <1>2 DEF Working, Judged
<1>4. CASE lineage' = lineage
  BY <1>1, <1>2, <1>3, <1>4, SessionMoves DEF StoreStays, disk
<1>5. CASE lineage = <<>> /\ lineage' = <<Genesis>>
  <2>1. /\ Len(lineage') = 1 /\ lineage'[1] = Genesis /\ Head0' = Genesis /\ Len(lineage) = 0
    BY <1>5 DEF Head0
  <2>2. /\ Genesis.hash = <<0, 0, 0>> /\ Genesis.parent = None /\ Genesis.step = 0 /\ Target \in Nat
        /\ Genesis \in Ctl!CheckpointRef
    BY StableAssumption DEF Genesis, Ctl!CheckpointRef
  <2>3. lineage' \in Seq(Ctl!CheckpointRef)
    BY <1>5, <2>2
  <2>4. TypeOK'
    BY <1>1, <1>2, <2>3 DEF Inv, TypeOK, disk
  <2>5. Ordered'
    BY <1>5, <2>1, <2>2 DEF Ordered, Ctl!IsLineage
  <2>6. active = {}
    BY <1>5 DEF Inv, Stored, Leased, AtHead
  <2>7. Leased' /\ Traced' /\ Trained'
    BY <1>1, <2>6 DEF Inv, Stored, Leased, Traced, Issued, Trained, disk
  <2>8. Accounted' /\ PayloadsInPlace' /\ AcceptedPayload'
    BY <1>1, <2>1, <2>6 DEF Inv, Stored, Accounted, PayloadsInPlace, AcceptedPayload, disk
  <2> QED
    BY <1>3, <2>4, <2>5, <2>7, <2>8 DEF Inv, Stored
<1> QED
  BY <1>1, <1>4, <1>5

-----------------------------------------------------------------------------
\* A rank group completes its checkpoint, then leaves a result: nothing a
\* receipt or another attempt relies on.
LEMMA SaveInv == ASSUME Inv, NEW k \in groups, Save(k) PROVE Inv'
<1>1. /\ CtlStays /\ attempts[k] = "partial" /\ k \in Attempt
      /\ attempts' = [attempts EXCEPT ![k] = "complete"]
      /\ UNCHANGED <<ses, results, payloads, groups>>
  BY DEF Save, cvars, CtlStays, Inv, TypeOK
<1>2. /\ attempts' \in [Attempt -> {"none", "partial", "complete"}]
      /\ \A j \in Attempt : /\ attempts'[j] # "none" => attempts[j] # "none"
                            /\ attempts[j] = "complete" => attempts'[j] = "complete"
  BY <1>1 DEF Inv, TypeOK
<1>3. TypeOK'
  BY <1>1, <1>2 DEF Inv, TypeOK, CtlStays
<1>4. Ordered' /\ Leased' /\ Issued' = Issued
  BY <1>1, CtlStaysOrdered DEF Inv
<1>5. Traced'
  BY <1>1, <1>2, <1>4 DEF Inv, Stored, Traced
<1>6. Accounted' /\ PayloadsInPlace' /\ AcceptedPayload'
  BY <1>1 DEF Inv, Stored, Accounted, PayloadsInPlace, AcceptedPayload, CtlStays
<1>7. Trained'
  <2>1. \A r \in active : AttemptOf(r.work) \in Attempt
    BY RecordTypes, WorkTypes DEF Inv
  <2> QED
    BY <1>1, <1>2, <2>1 DEF Inv, Stored, Trained, CtlStays
<1>8. Working' /\ Judged'
  BY <1>1 DEF Inv, Working, Judged, AtHead, Head0, Current, CtlStays
<1> QED
  BY <1>3, <1>4, <1>5, <1>6, <1>7, <1>8 DEF Inv, Stored

LEMMA ResultInv ==
  ASSUME Inv, NEW k \in groups, WriteResult(k) \/ WriteBadResult(k)
  PROVE  Inv'
<1>1. PICK x \in {"good", "bad"} :
         /\ CtlStays /\ results[k] = "none" /\ k \in Attempt
         /\ results' = [results EXCEPT ![k] = x]
         /\ x = "good" => attempts[k] = "complete"
         /\ UNCHANGED <<ses, attempts, payloads, groups>>
  BY DEF WriteResult, WriteBadResult, cvars, CtlStays, Inv, TypeOK
<1>2. /\ results' \in [Attempt -> {"none", "good", "bad"}]
      /\ \A j \in Attempt : j # k => results'[j] = results[j]
      /\ results'[k] = x
      /\ \A j \in Attempt : results[j] = "good" => results'[j] = "good"
  BY <1>1 DEF Inv, TypeOK
<1>3. TypeOK'
  BY <1>1, <1>2 DEF Inv, TypeOK, CtlStays
<1>4. Ordered' /\ Leased' /\ Issued' = Issued
  BY <1>1, CtlStaysOrdered DEF Inv
<1>5. Traced'
  BY <1>1, <1>2, <1>4 DEF Inv, Stored, Traced
<1>6. Accounted' /\ PayloadsInPlace'
  BY <1>1 DEF Inv, Stored, Accounted, PayloadsInPlace, CtlStays
<1>7. AcceptedPayload'
  <2>1. \A t \in terminals : AttemptOf(t.work) \in Attempt
    BY RecordTypes, WorkTypes DEF Inv
  <2> QED
    BY <1>1, <1>2, <2>1 DEF Inv, Stored, AcceptedPayload, CtlStays
<1>8. Trained'
  <2>1. \A r \in active : AttemptOf(r.work) \in Attempt
    BY RecordTypes, WorkTypes DEF Inv
  <2> QED
    BY <1>1, <1>2, <2>1 DEF Inv, Stored, Trained, CtlStays
<1>9. Working'
  BY <1>1 DEF Inv, Working, AtHead, Head0, CtlStays
<1>10. Judged'
  <2>1. ses.pc \in {"promote", "commit"} => Current \in Attempt
    BY HeldAttempt
  <2> QED
    BY <1>1, <1>2, <2>1 DEF Inv, Judged, Current
<1> QED
  BY <1>3, <1>4, <1>5, <1>6, <1>7, <1>8, <1>9, <1>10 DEF Inv, Stored

\* A rank group that ends is at most noticed by the session that waits for it.
LEMMA ExitInv ==
  ASSUME Inv, NEW k \in groups, NEW x \in {"ok", "failed"}, Exit(k, x)
  PROVE  Inv'
<1>1. /\ StoreStays /\ saving' \in BOOLEAN
      /\ ses' = ses \/ ses' = [ses EXCEPT !.exit = x]
  BY StoreStaysWhen DEF Exit, cvars, Inv, TypeOK
<1> QED
  BY <1>1, SessionRests

LEMMA OthersInv ==
  ASSUME Inv, ChooseEnd \/ ControllerWrites \/ Pause \/ Resume \/ Crash
  PROVE  Inv'
<1>1. CASE ChooseEnd
  BY <1>1, StoreStaysWhen, SessionEnds DEF ChooseEnd, Pass, Raise, Inv, TypeOK
<1>2. CASE Crash
  BY <1>2, SessionEnds DEF Crash, StoreStays, disk
<1>3. CASE ControllerWrites \/ Pause \/ Resume
  <2>1. StoreStays /\ saving' \in BOOLEAN /\ ses' = ses
    BY <1>3 DEF ControllerWrites, Pause, Resume, StoreStays, cvars, disk, Pass, Inv, TypeOK
  <2> QED
    BY <2>1, SessionRests
<1> QED
  BY <1>1, <1>2, <1>3

\* Inv is inductive.
LEMMA NextInv == ASSUME Inv, [SNext]_vars PROVE Inv'
<1>1. CASE UNCHANGED vars
  <2>1. StoreStays /\ saving' \in BOOLEAN /\ ses' = ses
    BY <1>1 DEF vars, cvars, disk, StoreStays, Inv, TypeOK
  <2> QED
    BY <2>1, SessionRests
<1>2. CASE SessionStep
  BY <1>2, ChooseFreshInv, ChooseActiveInv, CheckPauseInv, IssueInv, PrepareInv, TrainEndedInv,
     JudgeInv, PromoteInv, CommitInv, RefuseInv, CleanInv, UnlinkInv, AgainInv, OthersInv
     DEF SessionStep
<1>3. ASSUME NEW k \in groups, ExitOk(k) \/ ExitFail(k) PROVE Inv'
  BY <1>3, ExitInv DEF ExitOk, ExitFail
<1> QED
  BY <1>1, <1>2, <1>3, StartInv, TimeoutInv, SaveInv, ResultInv, OthersInv DEF SNext

-----------------------------------------------------------------------------
THEOREM SessionInvariance == SSpec => []Inv
BY InitInv, NextInv, PTL DEF SSpec

\* Whatever step the session dies in, every committed checkpoint has its
\* canonical payload.
THEOREM PayloadsStayInPlace == SSpec => []PayloadsInPlace
<1>1. Inv => PayloadsInPlace
  BY DEF Inv, Stored
<1> QED
  BY <1>1, SessionInvariance, PTL

\* A checkpoint is what its accepted generation trained, and the result of
\* that generation stays.
THEOREM AcceptedIsTrained == SSpec => []AcceptedPayload
<1>1. Inv => AcceptedPayload
  BY DEF Inv, Stored
<1> QED
  BY <1>1, SessionInvariance, PTL

-----------------------------------------------------------------------------
\* The attempt k left a good result, and it is accepted or is on its way to be:
\* nothing that has it in hands can refuse it.
Kept(k) ==
    /\ results[k] = "good"
    /\ \/ \E t \in terminals : AttemptOf(t.work) = k /\ t.receipt.outcome = "accepted"
       \/ /\ \E r \in active : AttemptOf(r.work) = k
          /\ ses.pc \in {"down", "choose", "judge", "promote", "commit"}
          /\ ses.pc = "judge" => ses.recovering

LEMMA AbandonedKept ==
  ASSUME Inv, NEW k \in Attempt
  PROVE  /\ Abandoned(k) => Kept(k)
         /\ Kept(k) => ~RejectedAttempt(k)
BY DEF Inv, Stored, Leased, Abandoned, Kept, RejectedAttempt

LEMMA ReceiptsStay == ASSUME Inv, [SNext]_vars PROVE terminals \subseteq terminals'
<1>1. CASE SessionStep
  <2>1. CASE Commit \/ Refuse \/ Issue
    BY <2>1 DEF Commit, Refuse, Issue, Ctl!CommitCheckpoint, Ctl!CommitReceipt, Ctl!IssueNew
  <2>2. CASE ~(Commit \/ Refuse \/ Issue)
    <3>1. terminals' = terminals
      BY <1>1, <2>2 DEF SessionStep, cvars, Pass, ChooseEnd, ChooseFresh, ChooseActive, CheckPause,
         Prepare, TrainEnded, Judge, Promote, Clean, Unlink, Again, ControllerWrites
    <3> QED
      BY <3>1
  <2> QED
    BY <2>1, <2>2
<1>2. CASE ~SessionStep
  <2>1. terminals' = terminals
    BY <1>2 DEF SNext, vars, cvars, Start, Ctl!Initialize, Timeout, Save, WriteResult,
       WriteBadResult, ExitOk, ExitFail, Exit, Pause, Resume, Crash
  <2> QED
    BY <2>1
<1> QED
  BY <1>1, <1>2

\* The recovery of the one active Work Unit, step by step.
LEMMA RecoveryKeeps ==
  ASSUME Inv, SessionStep, NEW k \in Attempt, Kept(k),
         \E r \in active : AttemptOf(r.work) = k,
         ses.pc \in {"down", "choose", "judge", "promote", "commit"}
  PROVE  Kept(k)'
<1>1. PICK r \in active : AttemptOf(r.work) = k
  OBVIOUS
<1>2. /\ active = {r} /\ results[k] = "good" /\ k # None
      /\ ses.pc = "judge" => ses.recovering
  BY <1>1, NoneAssumption DEF Inv, Stored, Leased, Kept
<1>3. CASE ControllerWrites
  BY <1>3 DEF ControllerWrites, Pass, disk, Kept
<1>4. CASE ChooseEnd
  BY <1>1, <1>2, <1>4 DEF ChooseEnd, Raise, Pass, cvars, disk, Kept, Down
<1>5. CASE ChooseActive
  <2>1. attempts[k] = "complete" \/ payloads[r.work.id[2]] = k
    BY <1>1, <1>2 DEF Inv, Stored, Trained
  <2>2. Recoverable(r.work)
    BY <1>1, <1>2, <2>1 DEF Recoverable
  <2>3. /\ UNCHANGED <<active, results, terminals>>
        /\ \/ ses' = Down
           \/ ses' = [ses EXCEPT !.work = r.work, !.recovering = TRUE, !.pc = "judge"]
    BY <1>2, <1>5, <2>2 DEF ChooseActive, Raise, Pass, cvars, disk
  <2>4. \/ ses'.pc = "down"
        \/ ses'.pc = "judge" /\ ses'.recovering
    <3>1. Down.pc = "down" /\ ses \in Session
      BY DEF Down, Inv, TypeOK
    <3> QED
      BY <2>3, <3>1 DEF Session
  <2> QED
    BY <1>1, <1>2, <2>3, <2>4 DEF Kept
<1>6. CASE Judge
  <2>1. ses.pc = "judge" /\ ses.work = r.work
    BY <1>2, <1>6, HeldAttempt DEF Judge, At
  <2>2. Valid
    BY <1>1, <1>2, <2>1 DEF Valid, Current
  <2>3. /\ UNCHANGED <<active, results, terminals>> /\ ses'.pc = "promote"
    BY <1>6, <2>2 DEF Judge, Go, Pass, cvars, disk, Inv, TypeOK, Session
  <2> QED
    BY <1>1, <1>2, <2>3 DEF Kept
<1>7. CASE Promote
  <2>1. ses.pc = "promote"
    BY <1>7 DEF Promote, At
  <2>2. payloads[ses.work.id[2]] \in {None, IF attempts[Current] # "none" THEN Current
                                            ELSE payloads[ses.work.id[2]]}
    BY <2>1, PromotesOwn
  <2>3. /\ UNCHANGED <<active, results, terminals>> /\ ses'.pc = "commit"
    BY <1>7, <2>2 DEF Promote, cvars, Inv, TypeOK, Session
  <2> QED
    BY <1>1, <1>2, <2>3 DEF Kept
<1>8. CASE Commit
  <2> DEFINE x == [work |-> ses.work, receipt |-> Accept(ses.digest)]
  <2>1. ses.work = r.work /\ results' = results
    BY <1>2, <1>8, HeldAttempt DEF Commit, At, Pass, disk
  <2>2. x.work = ses.work /\ x.receipt.outcome = "accepted"
    BY DEF Accept
  <2>3. x \in terminals'
    BY <1>8 DEF Commit, Ctl!CommitCheckpoint
  <2> HIDE DEF x
  <2> QED
    BY <1>1, <1>2, <2>1, <2>2, <2>3 DEF Kept
<1> QED
  BY <1>2, <1>3, <1>4, <1>5, <1>6, <1>7, <1>8 DEF SessionStep, ChooseFresh, CheckPause, Issue,
     Prepare, TrainEnded, Refuse, Clean, Unlink, Again, At

LEMMA KeptStays == ASSUME Inv, [SNext]_vars, NEW k \in Attempt, Kept(k) PROVE Kept(k)'
<1>1. CASE \E t \in terminals : AttemptOf(t.work) = k /\ t.receipt.outcome = "accepted"
  <2>1. PICK t \in terminals' : AttemptOf(t.work) = k /\ t.receipt.outcome = "accepted"
    BY <1>1, ReceiptsStay
  <2>2. AcceptedPayload'
    BY NextInv DEF Inv, Stored
  <2>3. results'[k] = "good"
    BY <2>1, <2>2 DEF AcceptedPayload
  <2> QED
    BY <2>1, <2>3 DEF Kept
<1>2. CASE /\ \E r \in active : AttemptOf(r.work) = k
           /\ ses.pc \in {"down", "choose", "judge", "promote", "commit"}
  <2>1. results[k] = "good"
    BY DEF Kept
  <2>2. CASE SessionStep
    BY <1>2, <2>2, RecoveryKeeps
  <2>3. ASSUME NEW n \in StepCounts, Start(n) PROVE Kept(k)'
    <3>1. UNCHANGED <<active, results, terminals>> /\ ses'.pc = "choose"
      BY <2>3 DEF Start, Ctl!Initialize, Pass, disk, Down
    <3> QED
      BY <1>2, <2>1, <3>1 DEF Kept
  <2>4. CASE Crash
    BY <1>2, <2>1, <2>4 DEF Crash, Down, disk, Kept
  <2>5. CASE Pause \/ Resume \/ UNCHANGED vars
    BY <2>5 DEF Pause, Resume, vars, cvars, disk, Kept
  <2>6. ASSUME NEW j \in groups,
               Save(j) \/ WriteResult(j) \/ WriteBadResult(j) \/ ExitOk(j) \/ ExitFail(j)
        PROVE  Kept(k)'
    <3>1. UNCHANGED <<active, terminals, ses>> /\ results'[k] = "good"
      BY <1>2, <2>1, <2>6 DEF Save, WriteResult, WriteBadResult, ExitOk, ExitFail, Exit, cvars, disk,
         Inv, TypeOK
    <3> QED
      BY <1>2, <3>1 DEF Kept
  <2> QED
    BY <1>2, <2>2, <2>3, <2>4, <2>5, <2>6 DEF SNext, Timeout, At
<1> QED
  BY <1>1, <1>2 DEF Kept

\* A complete and valid result that a lost session leaves behind is never
\* rejected: the next sessions keep it until one commits it.
THEOREM GoodResultsKept == SSpec => ResultsKept
<1>1. ASSUME NEW k \in Attempt
      PROVE  SSpec => [](Abandoned(k) => [](~RejectedAttempt(k)))
  <2>1. Inv => (Abandoned(k) => Kept(k)) /\ (Kept(k) => ~RejectedAttempt(k))
    BY AbandonedKept
  <2>2. Inv /\ [SNext]_vars /\ Kept(k) => Kept(k)'
    BY KeptStays
  <2> QED
    BY <2>1, <2>2, SessionInvariance, PTL DEF SSpec
<1> QED
  BY <1>1 DEF ResultsKept
-----------------------------------------------------------------------------
(***************************************************************************)
(* The session as a caller of the controller.  The first four definitions  *)
(* are what the ledger sees.  A Work Unit that was accepted ends at or     *)
(* before the head, which is where the next one starts (Landed): so no id  *)
(* is opened again after it was accepted.                                  *)
(***************************************************************************)
Chained == [i \in 1..Len(lineage) |-> lineage[i].hash]
Live    == {Ctl!Key(r.work) : r \in active}
Ended   == Ctl!TerminalKeys \cup Ctl!FencedKeys
Taken   == {Ctl!Key(t.work) : t \in {u \in terminals : u.receipt.outcome = "accepted"}}

Landed ==
    \A t \in terminals : t.receipt.outcome = "accepted" =>
        lineage # <<>> /\ t.work.id[2] <= Head0.step

\* What a commit or a refusal does to what the ledger sees.
LEMMA SettledKeys ==
  ASSUME Inv, ses.pc \in {"commit", "refuse"}, NEW rc, Settles(rc)
  PROVE  /\ Live = {Ctl!Key(ses.work)} /\ Live' = {}
         /\ Ended' = Ended \cup Live
         /\ Taken' = Taken \cup (IF rc.outcome = "accepted" THEN Live ELSE {})
<1> DEFINE x == [work |-> ses.work, receipt |-> rc]
<1>1. x.work = ses.work /\ x.receipt = rc
  OBVIOUS
<1> HIDE DEF x
<1>2. terminals' = terminals \cup {x} /\ active' = {} /\ fenced' = fenced
  BY DEF Settles, x
<1>3. Live = {Ctl!Key(ses.work)} /\ Live' = {}
  BY <1>2, HeldAttempt DEF Live
<1>4. Ended' = Ended \cup {Ctl!Key(ses.work)}
  BY <1>1, <1>2 DEF Ended, Ctl!TerminalKeys, Ctl!FencedKeys
<1>5. Taken' = Taken \cup (IF rc.outcome = "accepted" THEN {Ctl!Key(ses.work)} ELSE {})
  <2>1. {u \in terminals' : u.receipt.outcome = "accepted"} =
           {u \in terminals : u.receipt.outcome = "accepted"}
             \cup (IF rc.outcome = "accepted" THEN {x} ELSE {})
    BY <1>1, <1>2
  <2> QED
    BY <1>1, <2>1 DEF Taken
<1> QED
  BY <1>3, <1>4, <1>5

\* What a commit does to the lineage.
LEMMA CommitExtends ==
  ASSUME Inv, Commit
  PROVE  /\ ses.pc = "commit" /\ ses.work \in Ctl!WorkUnit /\ ses.digest \in Attempt
         /\ AtHead(ses.work) /\ Settles(Accept(ses.digest))
         /\ \E c : /\ lineage' = Append(lineage, c) /\ Ctl!IsLineage(Append(lineage, c))
                   /\ c.hash = ses.digest /\ c.step = ses.work.id[2]
<1> DEFINE w  == ses.work
           rc == Accept(ses.digest)
           c  == [hash |-> ses.digest, parent |-> w.base, step |-> w.id[2]]
<1>1. /\ ses.pc = "commit" /\ w \in Ctl!WorkUnit /\ ses.digest \in Attempt /\ AtHead(w)
      /\ rc.by = Owner /\ c.hash = ses.digest /\ c.step = w.id[2]
      /\ Ctl!CommitCheckpoint(w, rc, c)
  BY HeldAttempt DEF Commit, At, Accept, Inv, Judged
<1> HIDE DEF w, rc, c
<1>2. active \ Ctl!LeaseFor(w, rc) = {}
  BY <1>1, CommitSettles DEF w
<1>3. Settles(rc)
  BY <1>1, <1>2 DEF Ctl!CommitCheckpoint, Settles, w
<1> QED
  BY <1>1, <1>3 DEF Ctl!CommitCheckpoint, w, rc

\* What a refusal does.
LEMMA RefuseSettles ==
  ASSUME Inv, Refuse
  PROVE  ses.pc = "refuse" /\ Settles(Reject) /\ UNCHANGED lineage
<1>1. /\ ses.pc = "refuse" /\ Reject.by = Owner /\ Ctl!CommitReceipt(ses.work, Reject)
  BY DEF Refuse, At, Reject
<1>2. active \ Ctl!LeaseFor(ses.work, Reject) = {}
  BY <1>1, CommitSettles
<1> QED
  BY <1>1, <1>2 DEF Ctl!CommitReceipt, Settles

\* The steps that reach the controller's state.
LEMMA ControllerSteps ==
  ASSUME [SNext]_vars
  PROVE  \/ \E n \in StepCounts : Start(n)
         \/ Issue \/ Commit \/ Refuse
         \/ UNCHANGED <<lineage, active, terminals, fenced>>
BY DEF SNext, SessionStep, vars, cvars, Pass, ChooseEnd, ChooseFresh, ChooseActive, CheckPause,
   Prepare, TrainEnded, Judge, Promote, Clean, Unlink, Again, ControllerWrites, Timeout, Save,
   WriteResult, WriteBadResult, ExitOk, ExitFail, Exit, Pause, Resume, Crash
\* Only a commit accepts, and its Work Unit ends at the new head.
LEMMA LandedInv == ASSUME Inv, Landed, [SNext]_vars PROVE Landed'
<1>1. CASE UNCHANGED <<lineage, active, terminals, fenced>>
  BY <1>1 DEF Landed, Head0
<1>2. CASE \E n \in StepCounts : Start(n)
  <2>1. /\ UNCHANGED terminals
        /\ lineage # <<>> => UNCHANGED lineage
    BY <1>2 DEF Start, Ctl!Initialize
  <2> QED
    BY <2>1 DEF Landed, Head0
<1>3. CASE Issue
  BY <1>3 DEF Issue, Ctl!IssueNew, Landed, Head0
<1>4. CASE Refuse
  BY <1>4, RefuseSettles DEF Settles, Reject, Landed, Head0
<1>5. CASE Commit
  <2>1. /\ ses.work \in Ctl!WorkUnit /\ AtHead(ses.work) /\ Settles(Accept(ses.digest))
        /\ lineage \in Seq(Ctl!CheckpointRef) /\ lineage # <<>>
    BY <1>5, CommitExtends DEF Inv, TypeOK, AtHead
  <2>2. PICK c : lineage' = Append(lineage, c) /\ c.step = ses.work.id[2]
    BY <1>5, CommitExtends
  <2>3. lineage' # <<>> /\ Head0' = c
    BY <2>1, <2>2 DEF Head0
  <2>4. Head0.step \in Nat /\ ses.work.id[2] \in Nat /\ Head0.step < ses.work.id[2]
    BY <2>1, HeadTypes, WorkTypes DEF Inv, AtHead
  <2>5. \A t \in terminals : t.work \in Ctl!WorkUnit /\ t.work.id[2] \in Nat
    BY RecordTypes, WorkTypes DEF Inv
  <2>6. \A t \in terminals : t.receipt.outcome = "accepted" => t.work.id[2] <= Head0.step
    BY DEF Landed
  <2>7. ASSUME NEW t \in terminals', t.receipt.outcome = "accepted"
        PROVE  lineage' # <<>> /\ t.work.id[2] <= Head0'.step
    <3>1. CASE t \in terminals
      BY <2>2, <2>3, <2>4, <2>5, <2>6, <2>7, <3>1
    <3>2. CASE t.work = ses.work
      BY <2>2, <2>3, <2>4, <3>2
    <3> QED
      BY <2>1, <2>7, <3>1, <3>2 DEF Settles
  <2> QED
    BY <2>7 DEF Landed
<1> QED
  BY <1>1, <1>2, <1>3, <1>4, <1>5, ControllerSteps

\* The session only issues what the ledger may open.
LEMMA IssueOpens ==
  ASSUME Inv, Landed, Issue
  PROVE  Ctl!Ledger!Open(<<ses.work.id, ses.work.gen>>)
<1> DEFINE w == ses.work
           x == [work |-> w, owner |-> Owner, expiry |-> 0]
<1>1. /\ w \in Ctl!WorkUnit /\ AtHead(w) /\ active = {} /\ active' = {x} /\ fenced = {}
      /\ \A t \in terminals : t.work.id = w.id => t.work.gen < w.gen
      /\ UNCHANGED <<lineage, terminals, fenced>>
  BY DEF Issue, At, Ctl!IssueNew, Inv, TypeOK, Working
<1>2. x.work = w
  OBVIOUS
<1> HIDE DEF w, x
<1>3. Live = {} /\ Live' = {<<w.id, w.gen>>}
  BY <1>1, <1>2 DEF Live, Ctl!Key
<1>4. \A k \in Ended : k[1] = w.id => k[2] < w.gen
  BY <1>1 DEF Ended, Ctl!TerminalKeys, Ctl!FencedKeys, Ctl!Key
<1>5. \A k \in Taken : k[1] # w.id
  <2>1. ASSUME NEW t \in terminals, t.receipt.outcome = "accepted", t.work.id = w.id PROVE FALSE
    <3>1. w.id[1] = Head0.step /\ w.id[2] <= Head0.step
      BY <1>1, <2>1 DEF AtHead, Landed
    <3>2. w.id[1] \in Nat /\ w.id[2] \in Nat /\ w.id[1] < w.id[2]
      BY <1>1, WorkTypes
    <3> QED
      BY <3>1, <3>2
  <2> QED
    BY <2>1 DEF Taken, Ctl!Key
<1>6. Chained # <<>>
  <2>1. lineage # <<>> /\ lineage \in Seq(Ctl!CheckpointRef)
    BY <1>1 DEF AtHead, Inv, TypeOK
  <2>2. 1 \in DOMAIN Chained
    BY <2>1 DEF Chained
  <2> QED
    BY <2>2
<1>7. UNCHANGED <<Chained, Ended, Taken>>
  BY <1>1 DEF Chained, Ended, Taken, Ctl!TerminalKeys, Ctl!FencedKeys
<1>8. <<w.id, w.gen>>[1] = w.id /\ <<w.id, w.gen>>[2] = w.gen
  OBVIOUS
<1> QED
  BY <1>3, <1>4, <1>5, <1>6, <1>7, <1>8
     DEF Ctl!Ledger!Open, Ctl!Ledger!Fresh, Chained, Live, Ended, Taken, w

\* A committed checkpoint is a new one, and it ends the one live generation.
LEMMA CommitPromotes ==
  ASSUME Inv, Commit
  PROVE  \E k \in Live, h \in Attempt \cup {Genesis.hash} : Ctl!Ledger!Promote(k, h)
<1>1. /\ Live = {Ctl!Key(ses.work)} /\ Live' = {}
      /\ Ended' = Ended \cup Live /\ Taken' = Taken \cup {Ctl!Key(ses.work)}
  <2>1. Accept(ses.digest).outcome = "accepted"
    BY DEF Accept
  <2> QED
    BY <2>1, CommitExtends, SettledKeys
<1>2. PICK c : /\ lineage' = Append(lineage, c) /\ Ctl!IsLineage(Append(lineage, c))
               /\ c.hash = ses.digest
  BY CommitExtends
<1>3. lineage \in Seq(Ctl!CheckpointRef) /\ Len(lineage) \in Nat
  BY DEF Inv, TypeOK
<1>4. /\ Len(lineage') = Len(lineage) + 1 /\ lineage'[Len(lineage) + 1] = c
      /\ \A i \in 1..Len(lineage) : lineage'[i] = lineage[i]
  BY <1>2, <1>3
<1>5. \A i \in 1..Len(lineage) : lineage[i].hash # ses.digest
  <2>1. \A i, j \in 1..Len(lineage') : lineage'[i].hash = lineage'[j].hash => i = j
    BY <1>2 DEF Ctl!IsLineage
  <2>2. ASSUME NEW i \in 1..Len(lineage), lineage[i].hash = ses.digest PROVE FALSE
    <3>1. i \in 1..Len(lineage') /\ Len(lineage) + 1 \in 1..Len(lineage') /\ i # Len(lineage) + 1
      BY <1>3, <1>4
    <3> QED
      BY <1>2, <1>4, <2>1, <2>2, <3>1
  <2> QED
    BY <2>2
<1>6. Chained' = Append(Chained, ses.digest) /\ Len(Chained) = Len(lineage)
  <2>1. Len(Chained) = Len(lineage) /\ Chained \in Seq({lineage[i].hash : i \in 1..Len(lineage)})
    BY <1>3 DEF Chained
  <2>2. Chained' = [i \in 1..(Len(lineage) + 1) |->
                       IF i <= Len(lineage) THEN lineage[i].hash ELSE ses.digest]
    BY <1>2, <1>3, <1>4 DEF Chained
  <2> QED
    BY <1>3, <2>1, <2>2 DEF Chained
<1>7. \A i \in 1..Len(Chained) : Chained[i] # ses.digest
  BY <1>5, <1>6 DEF Chained
<1>8. Ctl!Key(ses.work) \in Live /\ ses.digest \in Attempt \cup {Genesis.hash}
  BY <1>1, CommitExtends
<1> QED
  BY <1>1, <1>6, <1>7, <1>8 DEF Ctl!Ledger!Promote, Chained, Live, Ended, Taken

\* A refused attempt is dropped.
LEMMA RefuseDrops ==
  ASSUME Inv, Refuse
  PROVE  Ctl!Ledger!Drop(Live)
<1>1. /\ Live = {Ctl!Key(ses.work)} /\ Live' = {} /\ Ended' = Ended \cup Live /\ Taken' = Taken
  <2>1. Reject.outcome # "accepted"
    BY DEF Reject
  <2> QED
    BY <2>1, RefuseSettles, SettledKeys
<1>2. Chained' = Chained
  BY RefuseSettles DEF Chained
<1> QED
  BY <1>1, <1>2 DEF Ctl!Ledger!Drop, Chained, Live, Ended, Taken

\* The first session of a project binds the chain.
LEMMA StartBinds ==
  ASSUME Inv, NEW n \in StepCounts, Start(n)
  PROVE  Ctl!Ledger!Bind \/ UNCHANGED Ctl!Ledger!lvars
<1>1. UNCHANGED <<Live, Ended, Taken>>
  BY DEF Start, Ctl!Initialize, Live, Ended, Taken, Ctl!TerminalKeys, Ctl!FencedKeys
<1>2. CASE lineage = <<>> /\ lineage' = <<Genesis>>
  <2>1. Chained = <<>>
    BY <1>2 DEF Chained
  <2>2. Chained' \in {[i \in 1..Len(s) |-> s[i].hash] : s \in {<<Genesis>>}}
    BY <1>2 DEF Chained
  <2> QED
    BY <1>1, <2>1, <2>2 DEF Ctl!Ledger!Bind, Chained, Live, Ended, Taken
<1>3. CASE lineage' = lineage
  BY <1>1, <1>3 DEF Ctl!Ledger!lvars, Chained, Live, Ended, Taken
<1> QED
  BY <1>2, <1>3 DEF Start, Ctl!Initialize

\* Whatever sessions die and whatever attempts are recovered or refused, the
\* controller they call keeps its ledger as it promises any caller.
THEOREM SessionImplementsLedger == SSpec => Ctl!LedgerSpec
<1>1. SInit => Ctl!Ledger!Init /\ Landed
  BY DEF SInit, Ctl!Init, Ctl!Ledger!Init, Ctl!TerminalKeys, Ctl!FencedKeys, Landed
<1>2. ASSUME Inv, Landed, [SNext]_vars PROVE [Ctl!Ledger!LNext]_(Ctl!Ledger!lvars)
  <2>1. CASE Issue
    <3>1. ses.work.id \in WorkIds /\ ses.work.gen \in 1..MaxGen
      BY <2>1, <1>2, WorkTypes DEF Issue, At, Inv, Working
    <3> QED
      BY <1>2, <2>1, <3>1, IssueOpens DEF Ctl!Ledger!LNext, Ctl!Generation
  <2>2. CASE Commit
    BY <1>2, <2>2, CommitPromotes DEF Ctl!Ledger!LNext, Live
  <2>3. CASE Refuse
    BY <1>2, <2>3, RefuseDrops DEF Ctl!Ledger!LNext, Live
  <2>4. CASE \E n \in StepCounts : Start(n)
    BY <1>2, <2>4, StartBinds DEF Ctl!Ledger!LNext
  <2>5. CASE UNCHANGED <<lineage, active, terminals, fenced>>
    BY <2>5 DEF Ctl!Ledger!lvars, Ctl!TerminalKeys, Ctl!FencedKeys
  <2> QED
    BY <1>2, <2>1, <2>2, <2>3, <2>4, <2>5, ControllerSteps
<1>3. Inv /\ Landed /\ [SNext]_vars => Landed'
  BY LandedInv
<1> QED
  BY <1>1, <1>2, <1>3, SessionInvariance, PTL
     DEF SSpec, Ctl!LedgerSpec, Ctl!Ledger!Spec
=============================================================================
