------------------------ MODULE UploadServiceProofs ------------------------
(***************************************************************************)
(* Safety of the uploads, for any number of Cells, uploads, chunks, nonces *)
(* and faults: what a session's manifest says is on the disk, and every    *)
(* request takes effect at most once.                                      *)
(***************************************************************************)
EXTENDS UploadService, TLAPS

-----------------------------------------------------------------------------
(***************************************************************************)
(* The manager.  A crash may come before any write, so ChunksBacked has to *)
(* be kept by every prefix of an operation's writes; what keeps it is what *)
(* the writes still owed may say: the manifest of a put may list its chunk *)
(* only once the chunk is there, and the chunks go only once the manifest  *)
(* no longer needs them.                                                   *)
(***************************************************************************)
\* A session directory.
IsSession(d) ==
    d = [dir |-> d.dir, state |-> d.state, listed |-> d.listed, files |-> d.files,
         blob |-> d.blob]

\* An operation that holds the uploads lock.
IsJob(m) ==
    m = [up |-> m.up, todo |-> m.todo, chunk |-> m.chunk, state |-> m.state, listed |-> m.listed]

Backed(u) ==
    /\ disk[u].state = "active" => disk[u].listed \subseteq disk[u].files
    /\ disk[u].state = "complete" => disk[u].blob /\ u \in stored

\* What the operation on u still owes, and why it may.
Owed(u, t, s, l) ==
    \/ t = <<"dir", "manifest">> /\ s = "active" /\ l = {}
    \/ t = <<"chunk", "manifest">> /\ s = "active"
       /\ (u \in Uploads => l \subseteq disk[u].files \cup {mgr.chunk})
    \/ t = <<"manifest">> /\ s = "active" /\ (u \in Uploads => l \subseteq disk[u].files)
    \/ t = <<"store", "blob", "manifest", "rmtree">> /\ s = "complete"
    \/ t = <<"blob", "manifest", "rmtree">> /\ s = "complete" /\ u \in stored
    \/ t = <<"manifest", "rmtree">> /\ s = "complete" /\ u \in stored
       /\ (u \in Uploads => disk[u].blob)
    \/ t = <<"rmtree">> /\ u \in stored
       /\ (u \in Uploads => disk[u].state = "complete")

Owing(u) ==
    /\ IsJob(mgr) /\ mgr.up = {u}
    /\ Owed(u, mgr.todo, mgr.state, mgr.listed)

DiskInv ==
    /\ disk = [u \in Uploads |-> disk[u]]
    /\ \A u \in Uploads : IsSession(disk[u]) /\ Backed(u)
    /\ mgr = Free \/ \E u \in UNION {mgr.up} : Owing(u)

\* The operations that may begin on a free manager.
Begins(u, i) ==
    /\ mgr = Free
    /\ Start(u) \/ (Puts(u, i) /\ Put(u, i)) \/ (Completes(u) /\ Complete(u))

LEMMA BeginsInv ==
  ASSUME DiskInv, NEW u, NEW i, Begins(u, i)
  PROVE  DiskInv'
<1>1. UNCHANGED <<disk, stored>> /\ mgr'.up = {u}
  BY DEF Begins, Start, Put, Complete, Owes
<1>2. CASE Start(u)
  BY <1>1, <1>2 DEF Start, Owes, DiskInv, IsSession, IsJob, Backed, Owing, Owed
<1>3. CASE Puts(u, i) /\ Put(u, i)
  <2>1. u \in Uploads => disk[u].listed \subseteq disk[u].files
    BY <1>3 DEF Puts, DiskInv, Backed
  <2>2. mgr' = [up |-> {u}, todo |-> <<"chunk", "manifest">>, chunk |-> i, state |-> "active",
                listed |-> disk[u].listed \cup {i}]
    BY <1>3 DEF Put, Owes
  <2>3. Owing(u)'
    BY <1>1, <2>1, <2>2 DEF Owing, Owed, IsJob
  <2> QED
    BY <1>1, <2>3 DEF DiskInv, IsSession, Backed
<1>4. CASE Complete(u)
  BY <1>1, <1>4 DEF Complete, Owes, DiskInv, IsSession, IsJob, Backed, Owing, Owed
<1> QED
  BY <1>2, <1>3, <1>4 DEF Begins

\* The effect of one write on the members of the session.
LEMMA WroteMembers ==
  ASSUME NEW u, IsSession(disk[u]), NEW w
  PROVE  /\ IsSession(Wrote(u, w))
         /\ Wrote(u, w).state  = IF w = "manifest" THEN mgr.state ELSE disk[u].state
         /\ Wrote(u, w).listed = IF w = "manifest" THEN mgr.listed ELSE disk[u].listed
         /\ Wrote(u, w).files  = IF w = "chunk" THEN disk[u].files \cup {mgr.chunk}
                                 ELSE IF w = "rmtree" THEN {} ELSE disk[u].files
         /\ Wrote(u, w).blob   = IF w = "blob" THEN TRUE ELSE disk[u].blob
<1>1. CASE w = "dir"
  BY <1>1 DEF Wrote, IsSession
<1>2. CASE w = "manifest"
  BY <1>2 DEF Wrote, IsSession
<1>3. CASE w = "chunk"
  BY <1>3 DEF Wrote, IsSession
<1>4. CASE w = "blob"
  BY <1>4 DEF Wrote, IsSession
<1>5. CASE w = "rmtree"
  BY <1>5 DEF Wrote, IsSession
<1>6. CASE w \notin {"dir", "manifest", "chunk", "blob", "rmtree"}
  BY <1>6 DEF Wrote, IsSession
<1> QED
  BY <1>1, <1>2, <1>3, <1>4, <1>5, <1>6

LEMMA WriteInv ==
  ASSUME DiskInv, MgrWrite
  PROVE  DiskInv'
<1>1. PICK u : Owing(u)
  BY DEF MgrWrite, Free, DiskInv
<1> DEFINE t == mgr.todo
           w == Head(t)
<1>2. mgr.up = {u} /\ (CHOOSE x \in mgr.up : TRUE) = u
  BY <1>1 DEF Owing
<1>3. /\ disk' = [disk EXCEPT ![u] = Wrote(u, w)]
      /\ stored' = IF w = "store" THEN stored \cup {u} ELSE stored
      /\ mgr' = IF Len(t) = 1 THEN Free ELSE [mgr EXCEPT !.todo = Tail(@)]
  BY <1>2 DEF MgrWrite
<1>4. /\ disk' = [v \in Uploads |-> disk'[v]]
      /\ \A v \in Uploads : disk'[v] = IF v = u THEN Wrote(u, w) ELSE disk[v]
  BY <1>3 DEF DiskInv
<1>5. \A v \in Uploads : v # u => IsSession(disk'[v]) /\ Backed(v)'
  BY <1>3, <1>4 DEF DiskInv, IsSession, Backed
<1>6. Len(t) # 1 => /\ IsJob(mgr') /\ mgr'.up = {u} /\ mgr'.todo = Tail(t)
                    /\ mgr'.chunk = mgr.chunk /\ mgr'.state = mgr.state
                    /\ mgr'.listed = mgr.listed
  <2>1. IsJob(mgr) /\ (Len(t) # 1 => mgr' = [mgr EXCEPT !.todo = Tail(t)])
    BY <1>1, <1>3 DEF Owing
  <2> QED
    BY <1>2, <2>1 DEF IsJob
<1>7. u \in Uploads =>
        /\ Backed(u) /\ IsSession(disk'[u])
        /\ disk'[u].state  = IF w = "manifest" THEN mgr.state ELSE disk[u].state
        /\ disk'[u].listed = IF w = "manifest" THEN mgr.listed ELSE disk[u].listed
        /\ disk'[u].files  = IF w = "chunk" THEN disk[u].files \cup {mgr.chunk}
                             ELSE IF w = "rmtree" THEN {} ELSE disk[u].files
        /\ disk'[u].blob   = IF w = "blob" THEN TRUE ELSE disk[u].blob
  <2> SUFFICES ASSUME u \in Uploads PROVE
        /\ Backed(u) /\ IsSession(disk'[u])
        /\ disk'[u].state  = IF w = "manifest" THEN mgr.state ELSE disk[u].state
        /\ disk'[u].listed = IF w = "manifest" THEN mgr.listed ELSE disk[u].listed
        /\ disk'[u].files  = IF w = "chunk" THEN disk[u].files \cup {mgr.chunk}
                             ELSE IF w = "rmtree" THEN {} ELSE disk[u].files
        /\ disk'[u].blob   = IF w = "blob" THEN TRUE ELSE disk[u].blob
    OBVIOUS
  <2>1. IsSession(disk[u]) /\ Backed(u) /\ disk'[u] = Wrote(u, w)
    BY <1>4 DEF DiskInv
  <2> HIDE DEF w
  <2>2. /\ IsSession(Wrote(u, w))
        /\ Wrote(u, w).state = IF w = "manifest" THEN mgr.state ELSE disk[u].state
        /\ Wrote(u, w).listed = IF w = "manifest" THEN mgr.listed ELSE disk[u].listed
        /\ Wrote(u, w).files = IF w = "chunk" THEN disk[u].files \cup {mgr.chunk}
                                ELSE IF w = "rmtree" THEN {} ELSE disk[u].files
        /\ Wrote(u, w).blob = IF w = "blob" THEN TRUE ELSE disk[u].blob
    BY <2>1, WroteMembers
  <2> QED
    BY <2>1, <2>2
<1>8. (u \in Uploads => Backed(u)') /\ (mgr' = Free \/ Owed(u, mgr.todo, mgr.state, mgr.listed)')
  <2>1. Owed(u, t, mgr.state, mgr.listed)
    BY <1>1 DEF Owing
  <2>2. CASE t = <<"dir", "manifest">> /\ mgr.state = "active" /\ mgr.listed = {}
    <3>1. w = "dir" /\ Len(t) # 1 /\ Tail(t) = <<"manifest">>
      BY <2>2
    <3> QED
      BY <1>3, <1>6, <1>7, <2>2, <3>1 DEF Owed, Backed
  <2>3. CASE /\ t = <<"chunk", "manifest">> /\ mgr.state = "active"
             /\ (u \in Uploads => mgr.listed \subseteq disk[u].files \cup {mgr.chunk})
    <3>1. w = "chunk" /\ Len(t) # 1 /\ Tail(t) = <<"manifest">>
      BY <2>3
    <3> QED
      BY <1>3, <1>6, <1>7, <2>3, <3>1 DEF Owed, Backed
  <2>4. CASE /\ t = <<"manifest">> /\ mgr.state = "active"
             /\ (u \in Uploads => mgr.listed \subseteq disk[u].files)
    <3>1. w = "manifest" /\ Len(t) = 1
      BY <2>4
    <3> QED
      BY <1>3, <1>7, <2>4, <3>1 DEF Backed
  <2>5. CASE t = <<"store", "blob", "manifest", "rmtree">> /\ mgr.state = "complete"
    <3>1. w = "store" /\ Len(t) # 1 /\ Tail(t) = <<"blob", "manifest", "rmtree">>
      BY <2>5
    <3> QED
      BY <1>3, <1>6, <1>7, <2>5, <3>1 DEF Owed, Backed
  <2>6. CASE t = <<"blob", "manifest", "rmtree">> /\ mgr.state = "complete" /\ u \in stored
    <3>1. w = "blob" /\ Len(t) # 1 /\ Tail(t) = <<"manifest", "rmtree">>
      BY <2>6
    <3> QED
      BY <1>3, <1>6, <1>7, <2>6, <3>1, ZenonT(40) DEF Owed, Backed
  <2>7. CASE /\ t = <<"manifest", "rmtree">> /\ mgr.state = "complete" /\ u \in stored
             /\ (u \in Uploads => disk[u].blob)
    <3>1. w = "manifest" /\ Len(t) # 1 /\ Tail(t) = <<"rmtree">>
      BY <2>7
    <3> QED
      BY <1>3, <1>6, <1>7, <2>7, <3>1 DEF Owed, Backed
  <2>8. CASE t = <<"rmtree">> /\ u \in stored /\ (u \in Uploads => disk[u].state = "complete")
    <3>1. w = "rmtree" /\ Len(t) = 1
      BY <2>8
    <3> QED
      BY <1>3, <1>7, <2>8, <3>1 DEF Backed
  <2> QED
    BY <2>1, <2>2, <2>3, <2>4, <2>5, <2>6, <2>7, <2>8 DEF Owed
<1>9. Len(t) = 1 => mgr' = Free
  BY <1>3
<1>10. mgr' = Free \/ Owing(u)'
  BY <1>6, <1>8, <1>9 DEF Owing
<1> QED
  BY <1>4, <1>5, <1>7, <1>8, <1>10 DEF DiskInv, Owing

\* Every step of the service begins an operation, writes, drops one, or
\* leaves the manager alone.
LEMMA ManagerSteps ==
  ASSUME [SNext]_svars
  PROVE  \/ UNCHANGED uploadVars \/ MgrWrite
         \/ \E u, i : Begins(u, i)
         \/ mgr' = Free /\ UNCHANGED <<disk, stored>>
<1>1. ASSUME NEW r \in handlers, Work(r) PROVE UNCHANGED uploadVars \/ \E u, i : Begins(u, i)
  BY <1>1 DEF Work, Changes, Writes, Begins
<1> QED
  BY <1>1 DEF SNext, Enrol, Send, TimesOut, Dies, Accept, Refuse, Submit, Write, Crash, Access,
     svars

\* What a manifest lists can be assembled and a complete upload has its blob,
\* whichever write a crash of the service came before.
THEOREM ManifestsBacked == SSpec => []ChunksBacked
<1>1. SInit => DiskInv
  BY DEF SInit, UploadInit, NoSession, DiskInv, IsSession, Backed
<1>2. DiskInv /\ [SNext]_svars => DiskInv'
  <2> SUFFICES ASSUME DiskInv, [SNext]_svars PROVE DiskInv'
    OBVIOUS
  <2>1. CASE UNCHANGED uploadVars
    BY <2>1 DEF uploadVars, DiskInv, IsSession, Backed, Owing, Owed, IsJob
  <2>2. CASE mgr' = Free /\ UNCHANGED <<disk, stored>>
    BY <2>2 DEF DiskInv, IsSession, Backed
  <2> QED
    BY <2>1, <2>2, BeginsInv, WriteInv, ManagerSteps
<1>3. DiskInv => ChunksBacked
  BY DEF DiskInv, Backed, ChunksBacked
<1> QED
  BY <1>1, <1>2, <1>3, PTL DEF SSpec

-----------------------------------------------------------------------------
(***************************************************************************)
(* Requests.  One nonce belongs to one request as long as a copy of it can *)
(* reach the service; a nonce is kept in replay_nonces from the moment the *)
(* request is authorized, so while it waits for the uploads lock no second *)
(* copy gets past authorize_cell_request.                                  *)
(***************************************************************************)
Requests == wire \cup handlers \cup job \cup submitting

Counts     == applied \in [Nonces -> {0, 1}] /\ \A r \in Requests : r.nonce \in Nonces
OwnNonce   == \A q, r \in Requests : q.nonce = r.nonce => q = r
Remembered == \A r \in handlers \cup job \cup submitting : <<r.nonce, "">> \in seen
Unapplied  ==
    /\ \A r \in handlers : applied[r.nonce] = 0
    /\ \A r \in wire : <<r.nonce, "">> \notin seen => applied[r.nonce] = 0

Once == Counts /\ OwnNonce /\ Remembered /\ Unapplied

\* A step that loses, forgets or moves requests on, but adds none.
FewerRequests ==
    /\ wire' \subseteq wire /\ handlers' \subseteq handlers
    /\ job' \cup submitting' \subseteq job \cup submitting
    /\ seen \subseteq seen' /\ UNCHANGED applied

LEMMA FewerOnce == ASSUME Once, FewerRequests PROVE Once'
BY DEF Once, Counts, OwnNonce, Remembered, Unapplied, FewerRequests, Requests

\* A nonce that is drawn again is not in use.
LEMMA SendOnce == ASSUME Once, NEW c \in Cells, Send(c) PROVE Once'
<1> DEFINE free == {n \in Nonces : Unused(n)}
<1>1. PICK n \in free :
         /\ wire' = wire \cup {Request(c, n)}
         /\ applied' = [applied EXCEPT ![n] = 0]
         /\ seen' = seen \ {<<n, "">>, <<n, ":submit">>}
         /\ UNCHANGED <<handlers, job, submitting>>
  BY DEF Send, served
<1>2. n \in Nonces /\ \A r \in Requests : r.nonce # n
  BY DEF Unused, Requests
<1>3. PICK s : s = Request(c, n) /\ s.nonce = n
  <2>1. Request(c, n).nonce = n
    BY DEF Request
  <2> QED
    BY <2>1
<1>4. Requests' = Requests \cup {s}
  BY <1>1, <1>3 DEF Requests
<1>5. \A m : m # n => (<<m, "">> \in seen <=> <<m, "">> \in seen')
  BY <1>1
<1>6. applied' \in [Nonces -> {0, 1}] /\ \A m \in Nonces : applied'[m] = IF m = n THEN 0 ELSE applied[m]
  BY <1>1 DEF Once, Counts
<1>7. Counts' /\ OwnNonce'
  BY <1>2, <1>3, <1>4, <1>6 DEF Once, Counts, OwnNonce
<1>8. Remembered'
  BY <1>1, <1>2, <1>5 DEF Once, Remembered, Requests
<1>9. Unapplied'
  <2>1. \A r \in handlers' : applied'[r.nonce] = 0
    BY <1>1, <1>2, <1>6 DEF Once, Counts, Unapplied, Requests
  <2>2. ASSUME NEW r \in wire', <<r.nonce, "">> \notin seen' PROVE applied'[r.nonce] = 0
    <3>1. CASE r = s
      BY <1>2, <1>3, <1>6, <3>1
    <3>2. CASE r \in wire
      <4>1. r.nonce # n /\ r.nonce \in Nonces
        BY <1>2, <3>2 DEF Requests, Once, Counts
      <4> QED
        BY <1>5, <1>6, <2>2, <3>2, <4>1 DEF Once, Unapplied
    <3> QED
      BY <1>1, <1>3, <3>1, <3>2
  <2> QED
    BY <2>1, <2>2 DEF Unapplied
<1> QED
  BY <1>7, <1>8, <1>9 DEF Once

\* An authorized request is the first copy of its nonce.
LEMMA AcceptOnce == ASSUME Once, NEW r \in wire, Accept(r) PROVE Once'
<1>1. /\ <<r.nonce, "">> \notin seen
      /\ seen' = seen \cup {<<r.nonce, "">>}
      /\ handlers' = handlers \cup {r} /\ wire' \subseteq wire
      /\ UNCHANGED <<job, submitting, applied>>
  BY DEF Accept, Admitted, Admits, Charge, Delivers
<1>2. Requests' \subseteq Requests
  BY <1>1 DEF Requests
<1>3. Counts' /\ OwnNonce'
  BY <1>1, <1>2 DEF Once, Counts, OwnNonce
<1>4. Remembered' /\ Unapplied'
  BY <1>1 DEF Once, Remembered, Unapplied
<1> QED
  BY <1>3, <1>4 DEF Once

\* Work on a request is done by the only one of its nonce.
LEMMA WorkOnce == ASSUME Once, NEW r \in handlers, Work(r) PROVE Once'
<1>1. /\ handlers' = handlers \ {r} /\ applied' = [applied EXCEPT ![r.nonce] = @ + 1]
      /\ UNCHANGED <<wire, seen>>
      /\ job' \cup submitting' \subseteq job \cup submitting \cup {r}
  BY DEF Work, Ended, accessVars
<1>2. applied[r.nonce] = 0 /\ r.nonce \in Nonces /\ <<r.nonce, "">> \in seen
  BY DEF Once, Counts, Remembered, Unapplied, Requests
<1>3. /\ applied' \in [Nonces -> {0, 1}]
      /\ \A m \in Nonces : m # r.nonce => applied'[m] = applied[m]
  <2>1. applied[r.nonce] + 1 = 1
    <3>1. 0 + 1 = 1
      OBVIOUS
    <3>2. applied[r.nonce] = 0
      BY <1>2, Zenon
    <3> QED
      BY <3>1, <3>2, Zenon
  <2>2. applied' = [applied EXCEPT ![r.nonce] = 1]
    BY <1>1, <2>1
  <2> QED
    BY <1>2, <2>2 DEF Once, Counts
<1>4. Requests' \subseteq Requests /\ r \in Requests
  BY <1>1 DEF Requests
<1>5. \A q \in Requests : q.nonce = r.nonce => q = r
  BY <1>4 DEF Once, OwnNonce
<1>6. Counts' /\ OwnNonce' /\ Remembered'
  BY <1>1, <1>2, <1>3, <1>4 DEF Once, Counts, OwnNonce, Remembered
<1>7. Unapplied'
  <2>1. \A q \in handlers' : q.nonce # r.nonce /\ q.nonce \in Nonces /\ q \in handlers
    BY <1>1, <1>5 DEF Requests, Once, Counts
  <2>2. \A q \in wire' : <<q.nonce, "">> \notin seen' =>
           q.nonce # r.nonce /\ q.nonce \in Nonces /\ q \in wire /\ <<q.nonce, "">> \notin seen
    BY <1>1, <1>2 DEF Requests, Once, Counts
  <2> QED
    BY <1>3, <2>1, <2>2 DEF Once, Unapplied
<1> QED
  BY <1>6, <1>7 DEF Once

\* Every request takes effect at most once.
THEOREM EffectsOnce == SSpec => []AppliedOnce
<1>1. SInit => Once
  BY DEF SInit, AccessInit, Once, Counts, OwnNonce, Remembered, Unapplied, Requests
<1>2. Once /\ [SNext]_svars => Once'
  <2> SUFFICES ASSUME Once, [SNext]_svars PROVE Once'
    OBVIOUS
  <2>1. ASSUME NEW r \in job, Write(r) PROVE FewerRequests
    BY <2>1 DEF Write, Ended, FewerRequests, accessVars
  <2>2. ASSUME NEW r \in submitting, Submit(r) PROVE FewerRequests
    BY <2>2 DEF Submit, FewerRequests, accessVars, Charge
  <2>3. ASSUME Access PROVE FewerRequests
    BY <2>3 DEF Access, CreateCode, CodeExpires, Revoke, Ends, Expires, WindowPasses, served,
       FewerRequests
  <2>4. ASSUME NEW c \in Cells, Enrol(c) PROVE FewerRequests
    BY <2>4 DEF Enrol, Issue, Redeem, served, FewerRequests
  <2>5. ASSUME NEW c \in Cells, TimesOut(c) \/ Dies(c) PROVE FewerRequests
    BY <2>5 DEF TimesOut, Dies, accessVars, served, FewerRequests
  <2>6. ASSUME NEW r \in wire, Refuse(r) PROVE FewerRequests
    BY <2>6 DEF Refuse, accessVars, served, FewerRequests
  <2>7. ASSUME Crash PROVE FewerRequests
    BY <2>7 DEF Crash, accessVars, FewerRequests
  <2>8. ASSUME UNCHANGED svars PROVE FewerRequests
    BY <2>8 DEF svars, accessVars, served, FewerRequests
  <2> QED
    BY <2>1, <2>2, <2>3, <2>4, <2>5, <2>6, <2>7, <2>8, FewerOnce, SendOnce, AcceptOnce, WorkOnce
    DEF SNext
<1>3. Once => AppliedOnce
  <2> SUFFICES ASSUME Once, NEW n \in Nonces PROVE applied[n] <= 1
    BY DEF AppliedOnce
  <2>1. applied[n] = 0 \/ applied[n] = 1
    BY DEF Once, Counts
  <2> QED
    BY <2>1
<1> QED
  BY <1>1, <1>2, <1>3, PTL DEF SSpec
=============================================================================
