-------------------------- MODULE BackupSnapshots --------------------------
(***************************************************************************)
(* Versioned snapshots in the backup store (backup.py): the backup run,    *)
(* which claims a timestamp in the index, writes the rows of every table   *)
(* and then prunes what retention no longer covers; the operator's delete; *)
(* and the two readers, the session monitor's fallback and the restore.    *)
(*                                                                         *)
(* One run at a time holds BackupManager._lock; deletes and readers do     *)
(* not take it.  Every statement on the backup store is an action.  Time   *)
(* is the order of the ISO timestamps.  Of the rows only their number per  *)
(* table matters, since no statement here updates one.                     *)
(***************************************************************************)
EXTENDS Integers, FiniteSets, FiniteSetsExt

CONSTANTS
    NTables,      \* SNAPSHOT_TABLES: 1 is backup_accounts
    MaxRows,      \* bound: rows the primary has in one table
    MaxTime,      \* bound: timestamps
    Retention,    \* retention_days, in units of the clock
    MaxCrashes,   \* bound: crashes of the gateway
    Faults,       \* TRUE: statements of the backup store may raise
    Deletes,      \* TRUE: the operator deletes snapshots
    Reads,        \* TRUE: the fallback and restores read snapshots
    ClockSteps    \* TRUE: the clock may step back, also over a restart

ASSUME BackupAssumption ==
    /\ NTables \in Nat \ {0} /\ MaxRows \in Nat \ {0}
    /\ MaxTime \in Nat \ {0} /\ Retention \in Nat \ {0}
    /\ MaxCrashes \in Nat
    /\ Faults \in BOOLEAN /\ Deletes \in BOOLEAN /\ Reads \in BOOLEAN
    /\ ClockSteps \in BOOLEAN

Ids == 1..MaxTime
Tables == 1..NTables
Counts == [Tables -> 0..MaxRows]
Nothing == [t \in Tables |-> 0]

VARIABLES
    index,        \* backup_snapshots
    rows,         \* rows[i][t]: rows of snapshot i in table t
    now,          \* the clock
    last,         \* _last_snapshot_at, 0 in a new process
    run,          \* the run that holds _lock: its timestamp, the rows it has
                  \* still to write, the snapshots its prune still has to
                  \* delete, and the table a delete is at
    del,          \* the operator's delete
    read,         \* a reader: which one, its snapshot, whether that was
                  \* complete when it began, and whether it found it whole
    want,         \* history: want[i] is what snapshot i has to hold
    done,         \* history: the snapshots that were whole at their run's end
    removed,      \* history: the snapshots something began to delete
    failed,       \* history: the snapshots whose run, or whose removal by a
                  \* prune or the operator, was cut short
    pruned,       \* history: the cutoff of the run's completed prune, or 0
    crashes

vars == <<index, rows, now, last, run, del, read, want, done, removed, failed,
          pruned, crashes>>
storeVars == <<index, rows>>
histVars == <<want, done, removed, failed>>

RunPCs == {"idle", "dump", "claim", "write", "discard", "find", "prune", "report"}
NoRun == [pc |-> "idle", id |-> 0, todo |-> Nothing, left |-> {}, at |-> 1]
NoDelete == [pc |-> "idle", id |-> 0, at |-> 1]
NoRead == [pc |-> "idle", id |-> 0, sound |-> FALSE, whole |-> TRUE]
Reading(there, i) == [pc |-> there, id |-> i, sound |-> i \in done, whole |-> TRUE]

\* The snapshot store holds only whole statements' worth of rows, and the
\* run, the delete and the read are at a point of backup.py.
TypeOK ==
    /\ index \subseteq Ids
    /\ rows \in [Ids -> Counts]
    /\ now \in Ids
    /\ last \in 0..MaxTime
    /\ run \in [pc : RunPCs, id : 0..MaxTime, todo : Counts, left : SUBSET Ids,
                at : 1..(NTables + 1)]
    /\ del \in [pc : {"idle", "delete"}, id : 0..MaxTime, at : 1..(NTables + 1)]
    /\ read \in [pc : {"idle", "fallback", "accounts", "others", "fell_back", "restored"},
                 id : 0..MaxTime, sound : BOOLEAN, whole : BOOLEAN]
    /\ want \in [Ids -> Counts]
    /\ done \subseteq Ids /\ removed \subseteq Ids /\ failed \subseteq Ids
    /\ pruned \in 0..MaxTime
    /\ crashes \in 0..MaxCrashes

Init ==
    /\ index = {} /\ rows = [i \in Ids |-> Nothing]
    /\ now = 1 /\ last = 0
    /\ run = NoRun /\ del = NoDelete /\ read = NoRead
    /\ want = [i \in Ids |-> Nothing]
    /\ done = {} /\ removed = {} /\ failed = {}
    /\ pruned = 0 /\ crashes = 0

Whole(i) == i \in index /\ rows[i] = want[i]
HasRows(i) == rows[i] # Nothing

\* _delete_snapshot_rows: the tables in their order, the index row last.
\* Seeded fault: the index row goes first.
DeleteIndexFirst(i, at) ==
    IF at = 1 THEN index' = index \ {i} /\ UNCHANGED rows
              ELSE rows' = [rows EXCEPT ![i][at - 1] = 0] /\ UNCHANGED index
\* Seeded fault: the rows of every snapshot up to this one go with it.
DeleteStatementUpTo(i, at) ==
    IF at <= NTables
    THEN rows' = [j \in Ids |-> IF j <= i THEN [rows[j] EXCEPT ![at] = 0] ELSE rows[j]] /\ UNCHANGED index
    ELSE index' = index \ {i} /\ UNCHANGED rows
DeleteStatement(i, at) ==
    IF at <= NTables THEN rows' = [rows EXCEPT ![i][at] = 0] /\ UNCHANGED index
                     ELSE index' = index \ {i} /\ UNCHANGED rows

-----------------------------------------------------------------------------
(* run: while another run holds the lock it returns at once, otherwise it  *)
(* draws its timestamp.                                                    *)

\* Seeded fault: the clock alone.
ClockSnapshotAt == now
\* _next_snapshot_at: the clock, or one past the last timestamp of this process.
NextSnapshotAt == IF last # 0 /\ now <= last THEN last + 1 ELSE now

StartRun ==
    /\ run.pc = "idle"
    /\ NextSnapshotAt <= MaxTime
    /\ last' = NextSnapshotAt
    /\ run' = [NoRun EXCEPT !.pc = "dump", !.id = NextSnapshotAt]
    /\ UNCHANGED <<storeVars, now, del, read, histVars, pruned, crashes>>

\* The dumps of the primary's tables decide what the snapshot has to hold.
Dump ==
    /\ run.pc = "dump"
    /\ \E c \in Counts : run' = [run EXCEPT !.pc = "claim", !.todo = c]
    /\ UNCHANGED <<storeVars, now, last, del, read, histVars, pruned, crashes>>

\* The primary or the backup store fails before there is anything to discard.
RunFails ==
    /\ Faults
    /\ run.pc \in {"dump", "claim"}
    /\ run' = NoRun
    /\ UNCHANGED <<storeVars, now, last, del, read, histVars, pruned, crashes>>

\* The index row comes before any row.  A timestamp that names a removed
\* snapshot may come again (ClockSteps): it is another snapshot then.
Claim ==
    /\ run.pc = "claim"
    /\ run.id \notin index
    /\ index' = index \cup {run.id}
    /\ want' = [want EXCEPT ![run.id] = run.todo]
    /\ run' = [run EXCEPT !.pc = "write"]
    /\ done' = done \ {run.id}
    /\ removed' = removed \ {run.id}
    /\ failed' = failed \ {run.id}
    /\ read' = [read EXCEPT !.sound = @ /\ read.id # run.id]
    /\ UNCHANGED <<rows, now, last, del, pruned, crashes>>

\* The index row is there but its reply is lost: the INSERT raises outside
\* the block that discards, and the run ends with nothing else done.
ClaimLost ==
    /\ Faults
    /\ run.pc = "claim"
    /\ run.id \notin index
    /\ index' = index \cup {run.id}
    /\ want' = [want EXCEPT ![run.id] = run.todo]
    /\ run' = NoRun
    /\ done' = done \ {run.id}
    /\ removed' = removed \ {run.id}
    /\ failed' = failed \cup {run.id}
    /\ read' = [read EXCEPT !.sound = @ /\ read.id # run.id]
    /\ UNCHANGED <<rows, now, last, del, pruned, crashes>>

\* Seeded fault: the claim stands inside the block that discards on a failure.
DuplicateClaimDiscards ==
    /\ run.pc = "claim"
    /\ run.id \in index
    /\ run' = [run EXCEPT !.pc = "discard"]
    /\ UNCHANGED <<storeVars, now, last, del, read, histVars, pruned, crashes>>

\* The primary key of the index makes a used timestamp fail here.
DuplicateClaim ==
    /\ run.pc = "claim"
    /\ run.id \in index
    /\ run' = NoRun
    /\ UNCHANGED <<storeVars, now, last, del, read, histVars, pruned, crashes>>

\* _write_snapshot, table after table, row after row.
WriteRow ==
    /\ run.pc = "write"
    /\ run.todo # Nothing
    /\ LET t == Min({u \in Tables : run.todo[u] > 0})
       IN  /\ rows' = [rows EXCEPT ![run.id][t] = @ + 1]
           /\ run' = [run EXCEPT !.todo[t] = @ - 1]
    /\ UNCHANGED <<index, now, last, del, read, histVars, pruned, crashes>>

WriteDone ==
    /\ run.pc = "write"
    /\ run.todo = Nothing
    /\ run' = [run EXCEPT !.pc = "find"]
    /\ done' = IF Whole(run.id) THEN done \cup {run.id} ELSE done
    /\ UNCHANGED <<storeVars, now, last, del, read, want, removed, failed, pruned, crashes>>

\* Seeded fault: a failed write is logged and the run goes on.
WriteFailsQuietly ==
    /\ Faults
    /\ run.pc = "write"
    /\ run' = [run EXCEPT !.pc = "find", !.todo = Nothing]
    /\ UNCHANGED <<storeVars, now, last, del, read, histVars, pruned, crashes>>

WriteFails ==
    /\ Faults
    /\ run.pc = "write"
    /\ run' = [run EXCEPT !.pc = "discard", !.todo = Nothing]
    /\ removed' = removed \cup {run.id}
    /\ UNCHANGED <<storeVars, now, last, del, read, want, done, failed, pruned, crashes>>

(* _discard_snapshot: best effort, the run has failed either way.          *)
Discard ==
    /\ run.pc = "discard"
    /\ DeleteStatement(run.id, run.at)
    /\ run' = IF run.at > NTables THEN NoRun ELSE [run EXCEPT !.at = @ + 1]
    /\ UNCHANGED <<now, last, del, read, histVars, pruned, crashes>>

DiscardFails ==
    /\ Faults
    /\ run.pc = "discard"
    /\ run' = NoRun
    /\ failed' = failed \cup {run.id}
    /\ UNCHANGED <<storeVars, now, last, del, read, want, done, removed, pruned, crashes>>

-----------------------------------------------------------------------------
(* _prune: what lies before the cutoff goes, index rows and rows that have *)
(* lost theirs.  The queries that find it are one step: nothing adds to    *)
(* what they look for.                                                     *)
Cutoff == now - Retention

\* Seeded fault: only the index says what has expired.
ExpiredInIndex(cutoff) == {i \in index : i < cutoff}
Expired(cutoff) == {i \in Ids : i < cutoff /\ (i \in index \/ HasRows(i))}

\* The snapshot the prune is deleting.
AtPrune(i) == run.pc = "prune" /\ run.left # {} /\ i = Min(run.left)

PruneFind ==
    /\ run.pc = "find"
    /\ run' = [run EXCEPT !.pc = "prune", !.left = Expired(Cutoff), !.at = 1]
    /\ pruned' = IF Cutoff > 0 THEN Cutoff ELSE 0
    /\ UNCHANGED <<storeVars, now, last, del, read, histVars, crashes>>

PruneDelete ==
    /\ run.pc = "prune"
    /\ run.left # {}
    /\ LET i == Min(run.left)
       IN  /\ DeleteStatement(i, run.at)
           /\ removed' = removed \cup {i}
           /\ run' = IF run.at > NTables THEN [run EXCEPT !.left = @ \ {i}, !.at = 1]
                                         ELSE [run EXCEPT !.at = @ + 1]
    /\ UNCHANGED <<now, last, del, read, want, done, failed, pruned, crashes>>

PruneDone ==
    /\ run.pc = "prune"
    /\ run.left = {}
    /\ run' = [run EXCEPT !.pc = "report"]
    /\ UNCHANGED <<storeVars, now, last, del, read, histVars, pruned, crashes>>

\* A pruning failure never fails the run; what it was at stays as it is.
PruneFails ==
    /\ Faults
    /\ run.pc \in {"find", "prune"}
    /\ run' = [run EXCEPT !.pc = "report", !.left = {}, !.at = 1]
    /\ failed' = failed \cup {i \in Ids : AtPrune(i)}
    /\ pruned' = 0
    /\ UNCHANGED <<storeVars, now, last, del, read, want, done, removed, crashes>>

\* ok is recorded and the lock released.
Report ==
    /\ run.pc = "report"
    /\ run' = NoRun
    /\ pruned' = 0
    /\ UNCHANGED <<storeVars, now, last, del, read, histVars, crashes>>

-----------------------------------------------------------------------------
(* DELETE backup/snapshots: no lock, and no look at what a run is doing.   *)
StartDelete(i) ==
    /\ Deletes
    /\ del.pc = "idle"
    /\ i \in index
    /\ del' = [pc |-> "delete", id |-> i, at |-> 1]
    /\ UNCHANGED <<storeVars, now, last, run, read, histVars, pruned, crashes>>

Delete ==
    /\ del.pc = "delete"
    /\ DeleteStatement(del.id, del.at)
    /\ removed' = removed \cup {del.id}
    /\ del' = IF del.at > NTables THEN NoDelete ELSE [del EXCEPT !.at = @ + 1]
    /\ UNCHANGED <<now, last, run, read, want, done, failed, pruned, crashes>>

DeleteFails ==
    /\ Faults
    /\ del.pc = "delete"
    /\ del' = NoDelete
    /\ failed' = failed \cup {del.id}
    /\ UNCHANGED <<storeVars, now, last, run, read, want, done, removed, pruned, crashes>>

-----------------------------------------------------------------------------
(* The readers: latest_snapshot and then its accounts, for the fallback;   *)
(* snapshot_exists, the accounts and then the other tables, for a restore. *)
Latest == IF index = {} THEN 0 ELSE Max(index)

StartFallback ==
    /\ Reads
    /\ read.pc = "idle"
    /\ index # {}
    /\ read' = Reading("fallback", Latest)
    /\ UNCHANGED <<storeVars, now, last, run, del, histVars, pruned, crashes>>

FallbackAccounts ==
    /\ read.pc = "fallback"
    /\ read' = [read EXCEPT !.pc = "fell_back",
                            !.whole = rows[read.id][1] = want[read.id][1]]
    /\ UNCHANGED <<storeVars, now, last, run, del, histVars, pruned, crashes>>

StartRestore(i) ==
    /\ Reads
    /\ read.pc = "idle"
    /\ i \in index
    /\ read' = Reading("accounts", i)
    /\ UNCHANGED <<storeVars, now, last, run, del, histVars, pruned, crashes>>

RestoreAccounts ==
    /\ read.pc = "accounts"
    /\ read' = [read EXCEPT !.pc = "others",
                            !.whole = rows[read.id][1] = want[read.id][1]]
    /\ UNCHANGED <<storeVars, now, last, run, del, histVars, pruned, crashes>>

RestoreOthers ==
    /\ read.pc = "others"
    /\ read' = [read EXCEPT !.pc = "restored",
                            !.whole = @ /\ \A t \in Tables \ {1} :
                                           rows[read.id][t] = want[read.id][t]]
    /\ UNCHANGED <<storeVars, now, last, run, del, histVars, pruned, crashes>>

EndRead ==
    /\ read.pc \in {"fell_back", "restored"}
    /\ read' = NoRead
    /\ UNCHANGED <<storeVars, now, last, run, del, histVars, pruned, crashes>>

-----------------------------------------------------------------------------
Tick ==
    /\ now < MaxTime
    /\ now' = now + 1
    /\ UNCHANGED <<storeVars, last, run, del, read, histVars, pruned, crashes>>

\* The clock is set back while the gateway runs.
StepBack ==
    /\ ClockSteps
    /\ now' \in {t \in Ids : t < now}
    /\ UNCHANGED <<storeVars, last, run, del, read, histVars, pruned, crashes>>

\* What a crash cuts short: the run's snapshot, the prune's and the delete's.
AtRun(i) == i = run.id /\ run.pc \in {"write", "discard"}
AtDelete(i) == i = del.id /\ del.pc = "delete"

\* The process dies with everything under way; a restart takes longer than
\* the microsecond that tells two timestamps apart.
Crash ==
    /\ crashes < MaxCrashes
    /\ crashes' = crashes + 1
    /\ now' \in {t \in Ids : ClockSteps \/ (t > now /\ t > last)}
    /\ last' = 0
    /\ failed' = failed \cup {i \in Ids : AtRun(i) \/ AtPrune(i) \/ AtDelete(i)}
    /\ run' = NoRun /\ del' = NoDelete /\ read' = NoRead
    /\ pruned' = 0
    /\ UNCHANGED <<storeVars, want, done, removed>>

Next ==
    \/ StartRun \/ Dump \/ RunFails \/ Claim \/ ClaimLost \/ DuplicateClaim
    \/ WriteRow \/ WriteDone \/ WriteFails \/ Discard \/ DiscardFails
    \/ PruneFind \/ PruneDelete \/ PruneDone \/ PruneFails \/ Report
    \/ \E i \in Ids : StartDelete(i) \/ StartRestore(i)
    \/ Delete \/ DeleteFails
    \/ StartFallback \/ FallbackAccounts \/ RestoreAccounts \/ RestoreOthers \/ EndRead
    \/ Tick \/ StepBack \/ Crash

Spec == Init /\ [][Next]_vars

-----------------------------------------------------------------------------
(* backup-restore.md 55-60: rows are deleted before the index row they     *)
(* belong to, so neither a crash nor a failed statement leaves a row that  *)
(* belongs to no snapshot.                                                 *)
NoOrphans == \A i \in Ids : HasRows(i) => i \in index

(* A listed snapshot that nobody is writing or deleting at this moment is  *)
(* whole, unless its run, or a prune or a delete of it, was cut short by a *)
(* failing statement or a crash: those leave half a snapshot listed.       *)
ListedIsWhole ==
    \A i \in index :
        Whole(i) \/ i \in failed \/ AtRun(i) \/ AtPrune(i) \/ AtDelete(i)

(* backup-restore.md 60-61: after a prune that did not fail nothing lies   *)
(* before the cutoff, not even rows whose index row had already vanished.  *)
PrunedIsGone ==
    run.pc = "report" /\ pruned # 0 =>
        \A i \in Ids : i < pruned => i \notin index /\ ~HasRows(i)

(* backup.py 9-10: a run, however it ends, leaves the earlier copies as    *)
(* they are; they go only when retention or the operator says so.          *)
EarlierCopiesStay ==
    [][\A i \in Ids :
           Whole(i) /\ i \in done => \/ Whole(i)' \/ i = del.id
                                     \/ run.pc = "prune" /\ i \in run.left]_vars

(* A restore, or the fallback, of a snapshot whose run had ended when it    *)
(* began reads all of it (backup.py 298-300), whatever later runs do and   *)
(* however they end, unless retention or the operator begins to remove it  *)
(* meanwhile: the reads are several statements and take no lock.           *)
SettledReadsWhole ==
    read.pc \in {"fell_back", "restored"} /\ read.sound /\ read.id \notin removed
        => read.whole

\* The snapshots as the store of whole snapshots that backups promise.
Store == INSTANCE SnapshotStore WITH
    kept <- {i \in done : Whole(i)}, used <- done
ImplementsStore == Store!Spec

-----------------------------------------------------------------------------
(* backup.py 114-115, "a half-written snapshot must never be picked up by  *)
(* the fallback (which reads the NEWEST one)".                             *)
FallbackReadsWhole == read.pc = "fell_back" => read.whole
=============================================================================
