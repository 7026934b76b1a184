--------------------------- MODULE ResumableUpload ---------------------------
(***************************************************************************)
(* The resumable uploads of volunteer_training_storage.py.  Every upload   *)
(* has a session directory with a manifest, a file per received chunk and, *)
(* once assembled, the completed blob; the blob also goes to the content   *)
(* addressed store.                                                        *)
(*                                                                         *)
(* An operation holds the uploads lock and writes as it goes: mgr.todo is  *)
(* what it still has to write, in the order of the code, and a crash drops *)
(* it.  Cell c's update is upload c: the upload id is a hash of the owner, *)
(* the lease and the file, so every attempt of the Cell finds its session. *)
(***************************************************************************)
EXTENDS Naturals, Sequences, FiniteSets

CONSTANTS
    Uploads,
    NumChunks   \* chunk_count

ASSUME UploadAssumption == NumChunks \in Nat \ {0}

Chunks == 1..NumChunks

VARIABLES
    disk,    \* the session directories
    stored,  \* uploads whose blob is in the store
    mgr      \* the operation that holds the uploads lock

uploadVars == <<disk, stored, mgr>>

NoSession == [dir |-> FALSE, state |-> "none", listed |-> {}, files |-> {}, blob |-> FALSE]
Free      == [up |-> {}, todo |-> <<>>, chunk |-> 0, state |-> "none", listed |-> {}]

UploadInit ==
    disk = [u \in Uploads |-> NoSession] /\ stored = {} /\ mgr = Free

\* The operation on upload u owes the writes t, the manifest with state s and
\* received chunks l among them; i is the chunk it stores.
Owes(u, t, i, s, l) ==
    /\ mgr' = [up |-> {u}, todo |-> t, chunk |-> i, state |-> s, listed |-> l]
    /\ UNCHANGED <<disk, stored>>

\* Mutant of StartOk: an existing directory is taken for an error even when
\* its manifest is there.
StartOnce(u) == ~disk[u].dir

\* start: the session exists and is resumed, or its directory must not exist.
Starts(u)    == disk[u].state = "none" /\ ~disk[u].dir
StartOk(u)   == disk[u].state # "none" \/ ~disk[u].dir
Start(u)     == Owes(u, <<"dir", "manifest">>, 0, "active", {})

\* Mutant of Put: the manifest is written before the chunk.
PutListsFirst(u, i) ==
    Owes(u, <<"manifest", "chunk">>, i, "active", disk[u].listed \cup {i})

\* put_chunk of a chunk that is new to the manifest.
Puts(u, i)   == disk[u].state = "active" /\ i \notin disk[u].listed
PutOk(u, i)  == \/ disk[u].state = "complete"
                \/ disk[u].state = "active" /\ (i \in disk[u].listed => i \in disk[u].files)
Put(u, i)    == Owes(u, <<"chunk", "manifest">>, i, "active", disk[u].listed \cup {i})

\* complete assembles every chunk it has received.
Completes(u)  == disk[u].state = "active" /\ disk[u].listed = Chunks
CompleteOk(u) == \/ disk[u].state = "complete"
                 \/ Completes(u) /\ disk[u].files = Chunks
Complete(u)   == Owes(u, <<"store", "blob", "manifest", "rmtree">>, 0, "complete", Chunks)

-----------------------------------------------------------------------------
\* The disk writes.
Wrote(u, w) ==
    LET d == disk[u]
    IN  CASE w = "dir"      -> [d EXCEPT !.dir = TRUE]
          [] w = "manifest" -> [d EXCEPT !.state = mgr.state, !.listed = mgr.listed]
          [] w = "chunk"    -> [d EXCEPT !.files = @ \cup {mgr.chunk}]
          [] w = "blob"     -> [d EXCEPT !.blob = TRUE]
          [] w = "rmtree"   -> [d EXCEPT !.files = {}]
          [] OTHER          -> d

MgrWrite ==
    /\ mgr.todo # <<>>
    /\ LET w == Head(mgr.todo)
           u == CHOOSE x \in mgr.up : TRUE
       IN  /\ disk' = [disk EXCEPT ![u] = Wrote(u, w)]
           /\ stored' = IF w = "store" THEN stored \cup {u} ELSE stored
    /\ mgr' = IF Len(mgr.todo) = 1 THEN Free ELSE [mgr EXCEPT !.todo = Tail(@)]

-----------------------------------------------------------------------------
\* What a manifest says is on the disk, whatever write a crash comes before:
\* every chunk it lists can be assembled, and a complete upload has its blob.
ChunksBacked ==
    \A u \in Uploads :
        /\ disk[u].state = "active" => disk[u].listed \subseteq disk[u].files
        /\ disk[u].state = "complete" => disk[u].blob /\ u \in stored
=============================================================================
