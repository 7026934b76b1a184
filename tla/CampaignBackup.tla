--------------------------- MODULE CampaignBackup ---------------------------
(***************************************************************************)
(* Backup and restore of a campaign: a backup is an archive of everything  *)
(* under the root directory, taken under the state lock.  The state file   *)
(* in it names files by absolute paths; a restore unpacks the archive in   *)
(* another directory and rewrites paths from the old root to the new one.  *)
(*                                                                         *)
(* Of a path only the root it lies under matters.  The campaign is the     *)
(* abstract one of Campaign.                                               *)
(***************************************************************************)
EXTENDS Campaign, Sequences, SequencesExt

CONSTANTS
    Roots,    \* root directories
    Quorum,   \* round_policy.minimum_quorum
    None

VARIABLES
    root,     \* where the campaign lives
    paths,    \* the root each path in the state file lies under
    backup,   \* the archive: state and paths of its moment
    lost      \* roots that are gone with their disk

bvars == <<cvars, root, paths, backup, lost>>

\* current_adapter_path, current_config_path and current_velocity_path,
\* blob_store_root with the local_path of every artifact, accepted_delta_path
\* of each update of the open round, and evaluation_dataset_path.
Paths(r) == [adapter |-> r, blobs |-> r, deltas |-> <<>>, heldout |-> r]

BInit ==
    /\ CInit /\ backup = None /\ lost = {}
    /\ \E r \in Roots : root = r /\ paths = Paths(r)

Here == root \notin lost

\* submit keeps the accepted delta under the root and its path in the record.
Accept ==
    /\ Here /\ ~complete /\ Len(paths.deltas) + 1 < Quorum
    /\ paths' = [paths EXCEPT !.deltas = Append(@, root)]
    /\ UNCHANGED <<cvars, root, backup, lost>>

\* The update that closes the round: every delta of it is read, and the new
\* version's files are written under the root.
Close ==
    /\ Here /\ Len(paths.deltas) + 1 = Quorum
    /\ ToSet(paths.deltas) \cap lost = {}
    /\ Advance
    /\ paths' = [paths EXCEPT !.adapter = root, !.deltas = <<>>]
    /\ UNCHANGED <<root, backup, lost>>

\* backup_campaign
Backup ==
    /\ Here
    /\ backup' = [version |-> version, complete |-> complete, lifecycle |-> lifecycle,
                  paths |-> paths]
    /\ UNCHANGED <<cvars, root, paths, lost>>

\* The restore loops over the submissions but rewrites delta_path, which no
\* record has, and does not touch evaluation_dataset_path.
Rebase(p, r) == [p EXCEPT !.adapter = r, !.blobs = r]

\* restore_campaign into an empty directory; the recovery that follows checks
\* the ledger, the adapter and the blobs.
Restore(r) ==
    /\ backup # None /\ r \notin lost \cup {root}
    /\ version' = backup.version /\ complete' = backup.complete
    /\ lifecycle' = backup.lifecycle
    /\ root' = r /\ paths' = Rebase(backup.paths, r)
    /\ UNCHANGED <<backup, lost>>

\* The disk a backup is for.
Lose(r) ==
    /\ r \notin lost /\ lost' = lost \cup {r}
    /\ UNCHANGED <<cvars, root, paths, backup>>

BNext == Accept \/ Close \/ Backup \/ \E r \in Roots : Restore(r) \/ Lose(r)
BSpec == BInit /\ [][BNext]_bvars

\* restore_campaign reports state_rebased, and
\* tests/test_volunteer_training_operator_beta.py:201 that the restored
\* campaign validates: nothing it needs lies under the old root.
RestoredSelfContained ==
    {paths.adapter, paths.blobs, paths.heldout} \cup ToSet(paths.deltas) = {root}
=============================================================================
