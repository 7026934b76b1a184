---------------------------- MODULE UploadService ----------------------------
(***************************************************************************)
(* A Cell sends its finished update through the HTTP service               *)
(* (volunteer_training_api.py) with HTTPVolunteerTransport                 *)
(* (volunteer_training_cell.py): start, the chunks the session does not    *)
(* have yet, complete.  Every request is authorized and charged under the  *)
(* campaign lock (CellAccess) and then worked on under the uploads lock    *)
(* (ResumableUpload); complete ends with the submission, authorized once   *)
(* more with the nonce of the request extended by ":submit".               *)
(*                                                                         *)
(* The handlers are coroutines of one event loop.  Once it has authorized  *)
(* its request, only the handler of a chunk waits (for the body); the      *)
(* others run to their end, so that nothing but a crash interrupts them.   *)
(*                                                                         *)
(* The wire loses, delays and duplicates requests, answers are lost, the   *)
(* service and the Cell die at any step.  A copy of a request does not     *)
(* stay on the wire longer than replay_ttl_seconds.                        *)
(***************************************************************************)
EXTENDS CellAccess, ResumableUpload

CONSTANTS
    Senders,    \* the Cells that have an update to send; the others enrol only
    MaxFaults   \* bound: faults of every kind

ASSUME ServiceAssumption ==
    Senders \subseteq Cells /\ Senders = Uploads /\ MaxFaults \in Nat

VARIABLES
    client,      \* per Cell: its attempt at sending its update
    wire,        \* requests that may still reach the service
    handlers,    \* authorized requests whose work has not begun
    job,         \* the request the upload manager works for
    submitting,  \* completed uploads that are not submitted yet
    applied,     \* per nonce: how often the work of its request was done
    received,    \* Cells whose update the coordinator has been given
    faults

served == <<handlers, job, submitting>>
svars  == <<accessVars, uploadVars, client, wire, served, applied, received, faults>>

\* cred: the credential in use (0: none); waits: the request that is out;
\* known: the chunks the session has, as the Cell knows it.
Away == [pc |-> "start", cred |-> 0, waits |-> {}, known |-> {}]
Rest == [Away EXCEPT !.pc = "done"]

SInit ==
    /\ AccessInit /\ UploadInit
    /\ client = [c \in Cells |-> IF c \in Senders THEN Away ELSE Rest]
    /\ wire = {} /\ handlers = {} /\ job = {} /\ submitting = {}
    /\ applied = [n \in Nonces |-> 0]
    /\ received = {} /\ faults = 0

Fault         == faults < MaxFaults /\ faults' = faults + 1
Becomes(c, r) == client' = [client EXCEPT ![c] = r]
Out(c)        == client[c].waits # {}
Done(c)       == client[c].pc = "done"
\* An exception ends the attempt; the next one starts the upload again.
Fails(b)      == [b EXCEPT !.pc = "start", !.waits = {}, !.known = {}]

\* The handler that has the event loop; a chunk waits for its body without it.
Running  == job \cup submitting \cup {r \in handlers : r.kind # "chunk"}
LoopFree == Running = {}

-----------------------------------------------------------------------------
\* _ensure_cell_credential: only expiry is noticed, and the invite then buys a
\* new credential; from_pairing_code redeems a code.
NeedsCredential(c) ==
    client[c].cred \in CredIds => creds[client[c].cred].state = "expired"

Enrol(c) ==
    /\ LoopFree /\ NeedsCredential(c) /\ ~Out(c) /\ (c \in Senders => ~Done(c))
    /\ Issue(c) \/ (c \notin Invited /\ \E k \in Codes : Redeem(c, k))
    /\ \/ Becomes(c, [client[c] EXCEPT !.cred = Len(creds')]) /\ UNCHANGED faults
       \/ Becomes(c, [client[c] EXCEPT !.known = {}]) /\ Fault
    /\ UNCHANGED <<uploadVars, wire, served, applied, received>>

\* The next request of _submit_resumable: start, the lowest chunk the session
\* does not have, complete.
Missing(c) == Chunks \ client[c].known
Request(c, n) ==
    [cell |-> c, nonce |-> n, cred |-> client[c].cred, kind |-> client[c].pc,
     chunk |-> IF client[c].pc # "chunk" THEN 0
               ELSE CHOOSE i \in Missing(c) : \A j \in Missing(c) : i <= j]
Unused(n) == \A r \in wire \cup handlers \cup job \cup submitting : r.nonce # n

Send(c) ==
    /\ ~Out(c) /\ ~Done(c) /\ ~NeedsCredential(c)
    /\ LET free == {n \in Nonces : Unused(n)}
           n    == CHOOSE x \in free : TRUE
       IN  /\ free # {}
           /\ wire' = wire \cup {Request(c, n)}
           /\ Becomes(c, [client[c] EXCEPT !.waits = {Request(c, n)}])
           /\ applied' = [applied EXCEPT ![n] = 0]
           /\ seen' = seen \ {<<n, "">>, <<n, ":submit">>}
    /\ UNCHANGED <<creds, codes, uploadVars, served, received, faults>>

\* What the Cell does with the answer to r, if it still waits for it.
After(r) ==
    LET b == client[r.cell]
        k == CASE r.kind = "start" -> disk'[r.cell].listed
               [] r.kind = "chunk" -> b.known \cup {r.chunk}
               [] OTHER            -> b.known
    IN  [b EXCEPT !.waits = {}, !.known = k,
             !.pc = IF r.kind = "complete" THEN "done"
                    ELSE IF k = Chunks THEN "complete" ELSE "chunk"]
Answer(r, ok) ==
    client' = IF r \notin client[r.cell].waits THEN client
              ELSE [client EXCEPT ![r.cell] = IF ok THEN After(r) ELSE Fails(@)]

-----------------------------------------------------------------------------
\* The wire delivers r, and may keep a copy of it.
Delivers(r) ==
    \/ wire' = wire \ {r} /\ UNCHANGED faults
    \/ wire' = wire /\ Fault

\* authorize_cell_request.
Bytes(r) == IF r.kind = "chunk" THEN 1 ELSE 0
Admitted(r) == Admits(r.cred, r.cell, <<r.nonce, "">>, Bytes(r))
Accept(r) ==
    /\ LoopFree /\ r \in wire /\ Admitted(r) /\ Delivers(r)
    /\ Charge(r.cred, <<r.nonce, "">>, Bytes(r))
    /\ handlers' = handlers \cup {r}
    /\ UNCHANGED <<uploadVars, client, job, submitting, applied, received>>

\* The refusal of a second copy is nobody's answer.
Refuse(r) ==
    /\ LoopFree /\ r \in wire /\ ~Admitted(r)
    /\ wire' = wire \ {r} /\ UNCHANGED uploadVars
    /\ IF <<r.nonce, "">> \in seen THEN UNCHANGED client ELSE Answer(r, FALSE)
    /\ UNCHANGED <<accessVars, served, applied, received, faults>>

\* The manager's operation for r: whether it can be done, whether it has
\* something to write, and what it writes.
Possible(r) ==
    \/ r.kind = "start" /\ StartOk(r.cell)
    \/ r.kind = "chunk" /\ PutOk(r.cell, r.chunk)
    \/ r.kind = "complete" /\ CompleteOk(r.cell)
Changes(r) ==
    \/ r.kind = "start" /\ Starts(r.cell)
    \/ r.kind = "chunk" /\ Puts(r.cell, r.chunk)
    \/ r.kind = "complete" /\ Completes(r.cell)
Writes(r) ==
    \/ r.kind = "start" /\ Start(r.cell)
    \/ r.kind = "chunk" /\ Put(r.cell, r.chunk)
    \/ r.kind = "complete" /\ Complete(r.cell)

\* The end of the manager's part of r: its answer, or the submission.
Ended(r, ok) ==
    IF ok /\ r.kind = "complete" THEN submitting' = submitting \cup {r} /\ UNCHANGED client
    ELSE Answer(r, ok) /\ UNCHANGED submitting

Work(r) ==
    /\ Running \subseteq {r} /\ r \in handlers /\ mgr = Free
    /\ handlers' = handlers \ {r}
    /\ applied' = [applied EXCEPT ![r.nonce] = @ + 1]
    /\ \/ /\ Possible(r) /\ Changes(r) /\ Writes(r) /\ job' = {r}
          /\ UNCHANGED <<client, submitting>>
       \/ /\ ~(Possible(r) /\ Changes(r))
          /\ UNCHANGED <<uploadVars, job>> /\ Ended(r, Possible(r))
    /\ UNCHANGED <<accessVars, wire, received, faults>>

Write(r) ==
    /\ r \in job /\ MgrWrite
    /\ IF mgr' = Free THEN job' = {} /\ Ended(r, TRUE)
       ELSE UNCHANGED <<job, client, submitting>>
    /\ UNCHANGED <<accessVars, wire, handlers, applied, received, faults>>

\* coordinator.submit is authorized on its own.
Submit(r) ==
    /\ r \in submitting /\ submitting' = submitting \ {r} /\ UNCHANGED uploadVars
    /\ LET n == <<r.nonce, ":submit">>
       IN  \/ /\ Admits(r.cred, r.cell, n, 0) /\ Charge(r.cred, n, 0)
              /\ received' = received \cup {r.cell} /\ Answer(r, TRUE)
           \/ /\ ~Admits(r.cred, r.cell, n, 0) /\ Answer(r, FALSE)
              /\ UNCHANGED <<accessVars, received>>
    /\ UNCHANGED <<wire, handlers, job, applied, faults>>

-----------------------------------------------------------------------------
\* The Cell gives up waiting; its request is lost, late, or in work.
TimesOut(c) ==
    /\ Out(c) /\ Fault /\ Becomes(c, Fails(client[c]))
    /\ wire' = wire \/ wire' = wire \ client[c].waits
    /\ UNCHANGED <<accessVars, uploadVars, served, applied, received>>

\* The Cell dies: a credential bought with the invite is kept in memory only.
Dies(c) ==
    /\ ~Done(c) /\ Fault
    /\ Becomes(c, [Fails(client[c]) EXCEPT !.cred = IF c \in Invited THEN 0 ELSE @])
    /\ UNCHANGED <<accessVars, uploadVars, wire, served, applied, received>>

\* The service dies and is started again; who waits for an answer gets none.
Crash ==
    /\ Fault
    /\ mgr' = Free /\ handlers' = {} /\ job' = {} /\ submitting' = {}
    /\ client' = [c \in Cells |-> IF Out(c) THEN Fails(client[c]) ELSE client[c]]
    /\ UNCHANGED <<accessVars, disk, stored, wire, applied, received>>

\* A credential nobody can use any more expires like every other.
Useless(i) ==
    LET c == creds[i].cell
    IN  client[c].cred # i \/ creds[i].state = "revoked" \/ creds[i].uploaded = MaxUpload

Access ==
    /\ \/ (\E k \in Codes : CreateCode(k)) /\ UNCHANGED faults
       \/ (\E k \in Codes : CodeExpires(k)) /\ Fault
       \/ (\E i \in CredIds : Revoke(i)) /\ Fault
       \/ \E i \in CredIds : Expires(i) /\ IF Useless(i) THEN UNCHANGED faults ELSE Fault
       \/ (\E i \in CredIds : WindowPasses(i)) /\ UNCHANGED faults
    /\ UNCHANGED <<uploadVars, client, wire, served, applied, received>>

SNext ==
    \/ \E c \in Cells : Enrol(c) \/ Send(c) \/ TimesOut(c) \/ Dies(c)
    \/ \E r \in wire : Accept(r) \/ Refuse(r)
    \/ \E r \in handlers : Work(r)
    \/ \E r \in submitting : Submit(r)
    \/ \E r \in job : Write(r)
    \/ Crash \/ Access

SSpec == SInit /\ [][SNext]_svars

\* The service works on what it has accepted, the wire carries a request or
\* loses it, a Cell with an update goes on, and time passes.
OfCell(S, c) == {r \in S : r.cell = c}
SFairSpec ==
    /\ SSpec
    /\ WF_svars(\E r \in job : Write(r))
    /\ \A c \in Cells :
          /\ SF_svars(Enrol(c)) /\ SF_svars(Send(c))
          /\ WF_svars(\E r \in OfCell(wire, c) : Accept(r) \/ Refuse(r))
          /\ SF_svars(\E r \in OfCell(handlers, c) : Work(r))
          /\ WF_svars(\E r \in OfCell(submitting, c) : Submit(r))
    /\ WF_svars(Access /\ (\E k \in Codes : CreateCode(k)))
    /\ WF_svars(Access /\ (\E i \in CredIds : Useless(i) /\ Expires(i)))
    /\ WF_svars(Access /\ (\E i \in CredIds : WindowPasses(i)))

-----------------------------------------------------------------------------
\* A request takes effect at most once, however often the wire delivers it and
\* whatever happens between its authorization and its work.
AppliedOnce == \A n \in Nonces : applied[n] <= 1

\* Every Cell that holds the invite gets its update to the coordinator, across
\* lost and late requests, restarts, the rate limit, the upload quota and
\* credentials that end.  ResumableUploadManager says that an upload survives
\* the failure of the process; the one exception contradicts it: a session
\* directory without a manifest, left by a crash of the service, stops the
\* upload for good.
Stranded(c) == disk[c].dir /\ disk[c].state = "none" /\ mgr = Free
UploadsFinish ==
    \A c \in Senders \cap Invited : <>(c \in received /\ Done(c)) \/ <>[]Stranded(c)
=============================================================================
