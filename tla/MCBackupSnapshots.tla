------------------------- MODULE MCBackupSnapshots -------------------------
(* Instances of BackupSnapshots for TLC: the configurations give numbers   *)
(* for all of its constants.                                               *)
EXTENDS BackupSnapshots

(* Steps that add nothing to what the properties can tell apart, as        *)
(* constraints on steps.                                                   *)

\* Only the start of a run, the cutoff of its prune and a crash look at the
\* clock, so it need not move at other times.
ClockMovesWhenRead ==
    now' # now => run.pc \in {"idle", "find"} \/ crashes' # crashes

\* A read changes nothing but itself, and nothing is said of the reads of a
\* snapshot whose run had not ended.
ReadsThatCount == read.pc = "idle" /\ read'.pc # "idle" => read'.sound
=============================================================================
