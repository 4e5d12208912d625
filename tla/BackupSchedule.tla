--------------------------- MODULE BackupSchedule ---------------------------
(***************************************************************************)
(* When backups are taken: the monitor's loop with its housekeeping        *)
(* (session_monitor.py), the backup ten seconds after a start and the      *)
(* cursor read at a start (main.py), the admin's button (routes_admin.py), *)
(* all of which need the stores that the start has opened (Startup), and   *)
(* of a run (backup.py) the lock, the order of its steps and the marks it  *)
(* sets, last_backup_attempt_at, last_backup_at and the row in meta.       *)
(* What a run writes is the matter of BackupSnapshots.                     *)
(*                                                                         *)
(* Instants are kept as ages in ticks, which stop counting at Oldest.  The *)
(* clock goes forward.  Work takes at most MaxBusy ticks of the monitor's  *)
(* pass and MaxRun of a run, and what is due is done before the next tick, *)
(* so that "how old can the newest backup get" has an answer.              *)
(***************************************************************************)
EXTENDS Integers

CONSTANTS
    Interval,    \* backup_interval_hours
    Period,      \* the monitor's interval between two passes
    MaxBusy,     \* bound: ticks a pass of the monitor takes
    MaxRun,      \* bound: ticks a run takes
    MaxFaults,   \* bound: statements of the stores that fail
    MaxBoots,    \* bound: restarts
    Never        \* an instant that has not been

ASSUME BackupScheduleAssumption ==
    /\ Interval \in Nat \ {0} /\ Period \in Nat \ {0}
    /\ MaxBusy \in Nat /\ MaxRun \in Nat /\ MaxFaults \in Nat /\ MaxBoots \in Nat
    /\ Never \notin Int

\* The age from which on ages are not told apart.
Oldest == Interval + (MaxFaults + MaxBoots + 2) * (Period + MaxBusy + MaxRun) + 1
Ages == 0..Oldest \cup {Never}
Sources == {"startup", "schedule", "admin"}
Stores == {"primary", "backup"}
Steps == {"dump", "write", "prune", "meta"}

VARIABLES
    lastAt,      \* state.last_backup_at
    attemptAt,   \* state.last_backup_attempt_at
    cursor,      \* last_backup_success_at in the primary's meta table
    run,         \* whose run holds BackupManager._lock, and its step
    runTime,     \* ticks the run has taken
    monitor,     \* "sleep", "check" or "house", or "backup" in its own run
    timer,       \* ticks the monitor still sleeps, or has been busy
    nowAge,      \* ticks since housekeeping took `now`
    startup,     \* the startup task: "sleep", "backup", "done"
    opened,      \* the stores that came up at this process's start
    newest,      \* history: age of the newest complete snapshot
    exposed,     \* history: of that age, the ticks in processes with both stores
    setbacks,    \* history: runs that failed and restarts since then
    blind,       \* history: since then a pass, with both stores, that knew of
                 \* no backup went by the last attempt
    faultsLeft, bootsLeft

written == <<newest, exposed>>
marks == <<lastAt, attemptAt, cursor, written, setbacks, blind>>
budget == <<opened, faultsLeft, bootsLeft>>
tasks == <<monitor, timer, nowAge, startup>>
vars == <<marks, run, runTime, tasks, budget>>

NoRun == [by |-> "nobody", step |-> "dump"]
Runs == [by : Sources, step : Steps] \cup {NoRun}

\* An age is a tick count or Never, and timers stay within their bounds.
TypeOK ==
    /\ lastAt \in Ages /\ attemptAt \in Ages /\ cursor \in Ages
    /\ newest \in Ages /\ exposed \in Ages /\ opened \subseteq Stores
    /\ run \in Runs /\ runTime \in 0..MaxRun
    /\ monitor \in {"sleep", "check", "house", "backup"}
    /\ timer \in 0..Period \cup 0..MaxBusy /\ nowAge \in 0..MaxBusy
    /\ startup \in {"sleep", "backup", "done"}
    /\ setbacks \in 0..(MaxFaults + MaxBoots) /\ blind \in BOOLEAN
    /\ faultsLeft \in 0..MaxFaults /\ bootsLeft \in 0..MaxBoots

\* backup_manager is not None
Manager == "backup" \in opened

\* Both stores came up: what the process has to back up, and where to.
Equipped == opened = Stores

\* The first start of an installation.
Init ==
    /\ lastAt = Never /\ attemptAt = Never /\ cursor = Never
    /\ newest = Never /\ exposed = Never
    /\ opened \in SUBSET Stores
    /\ run = NoRun /\ runTime = 0
    /\ monitor = "sleep" /\ timer = Period /\ nowAge = 0
    /\ startup = IF Manager THEN "sleep" ELSE "done"
    /\ setbacks = 0 /\ blind = FALSE
    /\ faultsLeft = MaxFaults /\ bootsLeft = MaxBoots

Fault == faultsLeft > 0 /\ faultsLeft' = faultsLeft - 1
SetBack == setbacks' = setbacks + 1

-----------------------------------------------------------------------------
(* BackupManager.run for one of its three callers.                         *)

\* With the lock held by another run the caller gets an error and goes on.
Busy == run # NoRun

Begin(by) ==
    /\ run' = [by |-> by, step |-> "dump"]
    /\ runTime' = 0
    /\ attemptAt' = 0

\* The caller of the run that ends goes on: the monitor to sleep, the startup
\* task to its end.
Return ==
    /\ run' = NoRun /\ runTime' = 0
    /\ IF run.by = "schedule"
       THEN monitor' = "sleep" /\ timer' = Period ELSE UNCHANGED <<monitor, timer>>
    /\ startup' = IF run.by = "startup" THEN "done" ELSE startup
    /\ UNCHANGED nowAge

At(step) == Busy /\ run.step = step

Dump ==
    /\ At("dump")
    /\ run' = [run EXCEPT !.step = "write"]
    /\ UNCHANGED <<runTime, marks, tasks, budget>>

\* A primary that was given up at the start has no pool (but a sqlite file
\* may answer all the same): this run fails, and so does every other one.
DumpFails ==
    /\ At("dump") /\ "primary" \notin opened
    /\ attemptAt' = 0
    /\ Return
    /\ UNCHANGED <<lastAt, cursor, written, setbacks, blind, budget>>

\* The last row is in; from here on nothing discards the snapshot.
Write ==
    /\ At("write")
    /\ newest' = 0 /\ exposed' = 0
    /\ setbacks' = 0 /\ blind' = FALSE
    /\ run' = [run EXCEPT !.step = "prune"]
    /\ UNCHANGED <<runTime, lastAt, attemptAt, cursor, tasks, budget>>

\* _prune reports its own errors and never fails a run.  The mark in memory
\* is set first, then the row in meta is written.
Prune ==
    /\ At("prune")
    /\ lastAt' = 0
    /\ run' = [run EXCEPT !.step = "meta"]
    /\ UNCHANGED <<runTime, attemptAt, cursor, written, setbacks, blind, tasks, budget>>

SetMeta ==
    /\ At("meta")
    /\ cursor' = lastAt
    /\ Return
    /\ UNCHANGED <<lastAt, attemptAt, written, setbacks, blind, budget>>

\* Seeded fault: a failed run counts as the last backup.
RunFailsAsBackup ==
    /\ Busy /\ run.step # "prune"
    /\ Fault
    /\ attemptAt' = 0
    /\ lastAt' = 0
    /\ SetBack
    /\ Return
    /\ UNCHANGED <<cursor, written, blind, opened, bootsLeft>>

\* A statement of the primary or of the backup store fails.  In the last step
\* the snapshot and the mark in memory stay, and the run is reported as failed.
RunFails ==
    /\ Busy /\ run.step # "prune"
    /\ Fault
    /\ attemptAt' = 0
    /\ SetBack
    /\ Return
    /\ UNCHANGED <<lastAt, cursor, written, blind, opened, bootsLeft>>

-----------------------------------------------------------------------------
(* The monitor's loop.                                                     *)
Wake ==
    /\ monitor = "sleep" /\ timer = 0
    /\ monitor' = "check"
    /\ UNCHANGED <<run, runTime, marks, timer, nowAge, startup, budget>>

\* check_once is over, failed or not; housekeeping takes the time.
Checked ==
    /\ monitor = "check"
    /\ monitor' = "house"
    /\ nowAge' = 0
    /\ UNCHANGED <<run, runTime, marks, timer, startup, budget>>

\* last_backup_at or last_backup_attempt_at
Reference == IF lastAt # Never THEN lastAt ELSE attemptAt

\* Seeded fault: an installation without a successful backup is never due.
DueAfterSuccess == lastAt # Never /\ lastAt - nowAge >= Interval

\* Seeded fault: the attempt decides, as soon as there is one.
DueAfterAttempt ==
    LET mark == IF attemptAt # Never THEN attemptAt ELSE lastAt IN
    mark = Never \/ mark - nowAge >= Interval

\* Measured at `now`, which is older than the usage prune it waited for.
Due == Reference = Never \/ Reference - nowAge >= Interval

Sleep == monitor' = "sleep" /\ timer' = Period

House ==
    /\ monitor = "house"
    /\ IF Manager /\ Due /\ ~Busy
       THEN monitor' = "backup" /\ Begin("schedule") /\ UNCHANGED <<timer, blind>>
       ELSE /\ Sleep
            /\ blind' = (blind \/ (Equipped /\ ~Due /\ lastAt = Never))
            /\ UNCHANGED <<run, runTime, attemptAt>>
    /\ nowAge' = 0
    /\ UNCHANGED <<lastAt, cursor, written, setbacks, startup, budget>>

-----------------------------------------------------------------------------
\* _run_startup_backup after its sleep; without a manager there is no such task
StartupBackup ==
    /\ startup = "sleep"
    /\ IF Busy THEN startup' = "done" /\ UNCHANGED <<run, runTime, attemptAt>>
               ELSE startup' = "backup" /\ Begin("startup")
    /\ UNCHANGED <<lastAt, cursor, written, setbacks, blind, monitor, timer, nowAge, budget>>

\* POST /api/backup
TriggerBackup ==
    /\ Manager /\ ~Busy
    /\ Begin("admin")
    /\ UNCHANGED <<lastAt, cursor, written, setbacks, blind, tasks, budget>>

\* A restart, in the middle of a run perhaps.  A store that fails all attempts
\* is given up for the life of the process.  The cursor is read if the primary
\* is there, and answers.
Boot ==
    /\ bootsLeft > 0 /\ bootsLeft' = bootsLeft - 1
    /\ opened' \in SUBSET Stores
    /\ run' = NoRun /\ runTime' = 0
    /\ attemptAt' = Never
    /\ \/ "primary" \in opened' /\ lastAt' = cursor /\ UNCHANGED faultsLeft
       \/ "primary" \in opened' /\ lastAt' = Never /\ Fault
       \/ "primary" \notin opened' /\ lastAt' = Never /\ UNCHANGED faultsLeft
    /\ monitor' = "sleep" /\ timer' = Period /\ nowAge' = 0
    /\ startup' = IF Manager' THEN "sleep" ELSE "done"
    /\ SetBack
    /\ UNCHANGED <<cursor, written, blind>>

Older(a) == IF a = Never \/ a = Oldest THEN a ELSE a + 1

\* Nothing that is due waits for the next tick, and no work takes longer than
\* its bound.  The startup task's ten seconds are less than a tick.
MayTick ==
    /\ startup # "sleep"
    /\ monitor = "sleep" => timer > 0
    /\ monitor \in {"check", "house"} => timer < MaxBusy
    /\ Busy => runTime < MaxRun

Tick ==
    /\ MayTick
    /\ lastAt' = Older(lastAt) /\ attemptAt' = Older(attemptAt)
    /\ cursor' = Older(cursor) /\ newest' = Older(newest)
    /\ exposed' = IF Equipped THEN Older(exposed) ELSE exposed
    /\ timer' = CASE monitor = "sleep" -> timer - 1
                  [] monitor = "backup" -> timer
                  [] OTHER -> timer + 1
    /\ nowAge' = IF monitor = "house" THEN nowAge + 1 ELSE nowAge
    /\ runTime' = IF Busy THEN runTime + 1 ELSE runTime
    /\ UNCHANGED <<run, monitor, startup, setbacks, blind, budget>>

-----------------------------------------------------------------------------
RunStep == Dump \/ DumpFails \/ Write \/ Prune \/ SetMeta

MonitorStep == Wake \/ Checked \/ House

Next ==
    \/ RunStep \/ RunFails
    \/ MonitorStep \/ StartupBackup
    \/ TriggerBackup \/ Boot \/ Tick

Spec == Init /\ [][Next]_vars

(* The event loop runs what can run, and time passes.                      *)
FairSpec ==
    /\ Spec
    /\ WF_vars(RunStep) /\ WF_vars(MonitorStep) /\ WF_vars(StartupBackup) /\ WF_vars(Tick)

-----------------------------------------------------------------------------
\* The longest time between two passes of the monitor that decide.
Pass == Period + MaxBusy

(* session_monitor.py 118-124, "Failed attempts remain retryable": the     *)
(* time without a newer backup, not counting processes that came up        *)
(* without one of the stores, is never longer than the interval, one pass  *)
(* of the monitor and one run, and each run that failed and each restart   *)
(* since costs one more pass and run; nobody else's run puts the schedule  *)
(* off.  (Not where the process knows of no backup and its first run       *)
(* fails: the attempt then counts like a success, and the next is an       *)
(* interval away.)                                                         *)
StaysFresh ==
    ~blind /\ newest # Never =>
        exposed < Interval + MaxBusy + MaxRun + (setbacks + 1) * (Pass + MaxRun)

(* backup.py 136-145, main.py 250: the mark in memory and the row in meta  *)
(* claim no backup that has not been written out whole, through failures   *)
(* and restarts, so what the dashboard shows as the last success is one.   *)
CursorIsBacked ==
    /\ lastAt # Never => newest # Never /\ newest <= lastAt + MaxRun
    /\ cursor # Never => newest # Never /\ newest <= cursor + MaxRun

(* After finitely many failures and restarts, also before the first        *)
(* success, backups go on being taken, if the last start found both stores *)
(* (main.py:199-218: for one that did not, nothing brings them back).      *)
BackupsRecur == []<>(newest = 0 \/ ~Equipped)
=============================================================================
