-------------------------- MODULE MCBackupSchedule --------------------------
(* Instances of BackupSchedule for TLC, which need no definitions.         *)
EXTENDS BackupSchedule
=============================================================================
