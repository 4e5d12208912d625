--------------------------- MODULE SnapshotStore ---------------------------
(***************************************************************************)
(* What versioned backups promise (backup.py 3-13, docs/backup-restore.md):*)
(* every run adds a new snapshot, whole or not at all; a snapshot that is  *)
(* kept is never changed and no other run replaces it; it only goes away   *)
(* as a whole.                                                             *)
(***************************************************************************)
CONSTANT Ids          \* snapshot timestamps

VARIABLES kept,       \* the snapshots that are complete
          used        \* the timestamps that have ever named one

Init == kept = {} /\ used = {}

\* A run completes under a timestamp of its own.
Complete(i) ==
    /\ i \notin used
    /\ kept' = kept \cup {i}
    /\ used' = used \cup {i}

\* Retention or the operator removes a snapshot.
Remove(i) ==
    /\ i \in kept
    /\ kept' = kept \ {i}
    /\ UNCHANGED used

Next == \E i \in Ids : Complete(i) \/ Remove(i)

Spec == Init /\ [][Next]_<<kept, used>>
=============================================================================
