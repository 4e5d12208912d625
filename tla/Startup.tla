------------------------------ MODULE Startup ------------------------------
(***************************************************************************)
(* The life of a gateway process (main.py, db_resilience.py): the stores   *)
(* are connected and migrated one after the other with bounded retries,    *)
(* then the tool policy is attached, the account pool restored and the     *)
(* background tasks started; the process serves, degraded when a store is  *)
(* missing, until it is shut down or dies, and is started again.           *)
(*                                                                         *)
(* An action runs from one await of the lifespan, or of a task, to the     *)
(* next.  What the schema migration, a session check and a backup do       *)
(* inside is the matter of Migrations, AccountPool and BackupSnapshots:    *)
(* here they are what they need of the stores and what they report.        *)
(***************************************************************************)
EXTENDS Integers

CONSTANTS
    Configured,   \* DB_CONNECT_MAX_ATTEMPTS
    Base, Cap,    \* DB_CONNECT_BASE_DELAY_SECONDS, ..._MAX_DELAY_SECONDS
    Configs,      \* installations: see Config
    MaxFlips,     \* bound on outages and recoveries of the servers
    MaxBoots      \* bound on starts of the process

Databases == {"own", "kxstrel"}

\* What an installation fixes: whether there is a backup store and a usable
\* encryption key; VALIDATE_ON_STARTUP; whether the backend has pools (sqlite
\* has none), the driver refuses the DSN, the server denies CREATE TABLE in
\* some database, and accepts CREATE DATABASE.
Config == [backup : BOOLEAN, key : BOOLEAN, validate : BOOLEAN, pooled : BOOLEAN,
           badDsn : BOOLEAN, denied : SUBSET Databases, canCreate : BOOLEAN]

ASSUME StartupAssumption ==
    /\ Configured \in Int /\ Base \in Nat /\ Cap \in Nat
    /\ Configs \subseteq Config
    /\ MaxFlips \in Nat /\ MaxBoots \in Nat

Stores == {"primary", "backup"}
Kinds == {"none", "host_unreachable", "unknown_database", "create_denied",
          "unsupported_dsn"}

\* _policy: 0 stands for an unset value, which is 1 attempt.
MaxAttempts == IF Configured < 1 THEN 1 ELSE IF Configured > 10 THEN 10 ELSE Configured

VARIABLES
    conf,         \* this installation
    up, dbs,      \* of each store's server: it answers; its databases
    flips, boots, \* how many outages and recoveries, and starts, so far
    pc,           \* where the lifespan is
    which,        \* the store connect_and_init works on
    attempt, tried,  \* its loop variable and creation_attempted
    slept, waited,   \* how many delays it has slept, and their sum
    name,         \* the database of each store's DSN
    pool,         \* the store has an open pool
    kind,         \* error_kind of each store's outcome
    migrated,     \* the database init_schema last completed in
    dbOk, policy, \* db_ok and policy_ready
    manager,      \* backup_manager is not None
    restored,     \* some session check has filled the account pool
    monitor, backupTask, validation  \* the background tasks

envVars == <<conf, up, dbs, flips, boots>>
retryVars == <<which, attempt, tried, slept, waited, name, kind, migrated>>
stateVars == <<dbOk, policy, manager, restored>>
taskVars == <<monitor, backupTask, validation>>
vars == <<envVars, pc, retryVars, pool, stateVars, taskVars>>

Connecting == {"connect", "schema", "failed", "create", "sleep"}
Booting == Connecting \cup {"lost", "ping", "attach", "restore", "tasks"}
Stopping == {"stopBackup", "stopMonitor", "close"}

\* A task that is in the middle of work on the stores.
Working == {"check", "backup", "run", "undo"}

\* Attempts stay within the policy's, and every task is at a point of its code.
TypeOK ==
    /\ conf \in Config
    /\ up \in [Stores -> BOOLEAN] /\ dbs \in [Stores -> SUBSET Databases]
    /\ flips \in 0..MaxFlips /\ boots \in 0..MaxBoots
    /\ pc \in Booting \cup Stopping \cup {"off", "serving", "closed"}
    /\ which \in Stores
    /\ attempt \in 1..MaxAttempts /\ tried \in BOOLEAN
    /\ slept \in 0..(MaxAttempts - 1) /\ waited \in Nat
    /\ name \in [Stores -> Databases] /\ pool \in [Stores -> BOOLEAN]
    /\ kind \in [Stores -> Kinds]
    /\ migrated \in [Stores -> Databases \cup {"none"}]
    /\ {dbOk, policy, manager, restored} \subseteq BOOLEAN
    /\ monitor \in {"none", "sleep", "check", "backup", "undo", "done"}
    /\ backupTask \in {"none", "sleep", "run", "undo", "done"}
    /\ validation \in {"none", "run", "done"}

\* A query on s is answered.
Reachable(s) == up[s] /\ name[s] \in dbs[s] /\ (conf.pooled => pool[s])

Fresh(v) == [s \in Stores |-> v]

Init ==
    /\ conf \in Configs
    /\ up \in [Stores -> BOOLEAN]
    /\ dbs \in [Stores -> IF conf.pooled THEN {{}, {"own"}} ELSE {{"own"}}]
    /\ flips = 0 /\ boots = 0
    /\ pc = "off"
    /\ which = "primary" /\ attempt = 1 /\ tried = FALSE
    /\ slept = 0 /\ waited = 0
    /\ name = Fresh("own") /\ pool = Fresh(FALSE)
    /\ kind = Fresh("none") /\ migrated = Fresh("none")
    /\ dbOk = FALSE /\ policy = FALSE /\ manager = FALSE /\ restored = FALSE
    /\ monitor = "none" /\ backupTask = "none" /\ validation = "none"

\* A server goes away or comes back.
Flip(s) ==
    /\ flips < MaxFlips
    /\ flips' = flips + 1
    /\ up' = [up EXCEPT ![s] = ~@]
    /\ UNCHANGED <<conf, dbs, boots, pc, retryVars, pool, stateVars, taskVars>>

-----------------------------------------------------------------------------
(* connect_and_init, for the store `which'.                                *)
BeginConnect(s) ==
    /\ pc' = "connect"
    /\ which' = s
    /\ attempt' = 1 /\ tried' = FALSE /\ slept' = 0 /\ waited' = 0

Boot ==
    /\ pc = "off" /\ boots < MaxBoots
    /\ boots' = boots + 1
    /\ BeginConnect("primary")
    /\ name' = Fresh("own") /\ pool' = Fresh(FALSE)
    /\ kind' = Fresh("none") /\ migrated' = Fresh("none")
    /\ dbOk' = FALSE /\ policy' = FALSE /\ manager' = FALSE /\ restored' = FALSE
    /\ monitor' = "none" /\ backupTask' = "none" /\ validation' = "none"
    /\ UNCHANGED <<conf, up, dbs, flips>>

Fails(k) ==
    /\ kind' = [kind EXCEPT ![which] = k]
    /\ pc' = "failed"
    /\ UNCHANGED <<envVars, which, attempt, tried, slept, waited, name, migrated,
                   pool, stateVars, taskVars>>

ConnectFails ==
    /\ pc = "connect"
    /\ \/ conf.badDsn /\ Fails("unsupported_dsn")
       \/ ~conf.badDsn /\ ~up[which] /\ Fails("host_unreachable")
       \/ ~conf.badDsn /\ up[which] /\ name[which] \notin dbs[which] /\ Fails("unknown_database")

Connect ==
    /\ pc = "connect" /\ ~conf.badDsn
    /\ up[which] /\ name[which] \in dbs[which]
    /\ pool' = [pool EXCEPT ![which] = conf.pooled]
    /\ pc' = "schema"
    /\ UNCHANGED <<envVars, retryVars, stateVars, taskVars>>

SchemaFails ==
    /\ pc = "schema"
    /\ \/ ~up[which] /\ Fails("host_unreachable")
       \/ up[which] /\ name[which] \in conf.denied /\ Fails("create_denied")

\* init_schema returns: connect_and_init does too.
Migrated ==
    /\ pc = "schema" /\ up[which] /\ name[which] \notin conf.denied
    /\ migrated' = [migrated EXCEPT ![which] = name[which]]
    /\ kind' = [kind EXCEPT ![which] = "none"]
    /\ IF which = "primary"
       THEN pc' = "ping" /\ UNCHANGED manager
       ELSE pc' = "attach" /\ manager' = TRUE
    /\ UNCHANGED <<envVars, which, attempt, tried, slept, waited, name, pool, dbOk,
                   policy, restored, taskVars>>

\* Seeded fault: the cap is forgotten.
DelayUncapped(n) == IF Base = 0 \/ Cap = 0 THEN 0 ELSE Base * 2^(n - 1)

\* The longest the jitter can make the n-th delay.
Delay(n) ==
    IF Base = 0 \/ Cap = 0 THEN 0
    ELSE IF Base * 2^(n - 1) < Cap THEN Base * 2^(n - 1) ELSE Cap

BackOff ==
    IF attempt >= MaxAttempts
    THEN pc' = "lost" /\ UNCHANGED <<slept, waited>>
    ELSE /\ pc' = "sleep"
         /\ slept' = slept + 1
         /\ \E d \in 0..Delay(attempt) : waited' = waited + d

\* Worth one CREATE DATABASE for each call of connect_and_init.
CanBeCreated == kind[which] \in {"unknown_database", "create_denied"} /\ ~tried

\* Seeded fault: the pool of the failed attempt is kept.
HandleFailureOpen ==
    /\ pc = "failed"
    /\ BackOff
    /\ UNCHANGED <<envVars, which, attempt, tried, name, kind, migrated, pool,
                   stateVars, taskVars>>

\* The half-open pool is dropped, then the failure is dealt with.
HandleFailure ==
    /\ pc = "failed"
    /\ pool' = [pool EXCEPT ![which] = FALSE]
    /\ CASE kind[which] = "unsupported_dsn" ->
              pc' = "lost" /\ UNCHANGED <<tried, name, slept, waited>>
         [] CanBeCreated ->
              /\ pc' = "create"
              /\ tried' = TRUE
              /\ name' = [name EXCEPT ![which] = IF kind[which] = "create_denied"
                                                 THEN "kxstrel" ELSE @]
              /\ UNCHANGED <<slept, waited>>
         [] OTHER -> BackOff /\ UNCHANGED <<tried, name>>
    /\ UNCHANGED <<envVars, which, attempt, kind, migrated, stateVars, taskVars>>

\* CREATE DATABASE is accepted: `continue', which starts the next attempt or,
\* after the last one, ends the loop.
Created ==
    /\ pc = "create"
    /\ conf.pooled /\ up[which] /\ conf.canCreate
    /\ dbs' = [dbs EXCEPT ![which] = @ \cup {name[which]}]
    /\ IF attempt < MaxAttempts
       THEN pc' = "connect" /\ attempt' = attempt + 1
       ELSE pc' = "lost" /\ UNCHANGED attempt
    /\ UNCHANGED <<conf, up, flips, boots, which, tried, slept, waited, name, kind, migrated,
                   pool, stateVars, taskVars>>

NotCreated ==
    /\ pc = "create"
    /\ ~(conf.pooled /\ up[which] /\ conf.canCreate)
    /\ BackOff
    /\ UNCHANGED <<envVars, which, attempt, tried, name, kind, migrated, pool,
                   stateVars, taskVars>>

\* Seeded fault: the attempts are not counted.
RetryUncounted ==
    /\ pc = "sleep"
    /\ pc' = "connect"
    /\ slept' = 0 /\ waited' = 0
    /\ UNCHANGED <<envVars, which, attempt, tried, name, kind, migrated, pool,
                   stateVars, taskVars>>

Retry ==
    /\ pc = "sleep"
    /\ pc' = "connect"
    /\ attempt' = attempt + 1
    /\ UNCHANGED <<envVars, which, tried, slept, waited, name, kind, migrated, pool,
                   stateVars, taskVars>>

-----------------------------------------------------------------------------
(* The rest of the start-up.                                               *)
NextStore ==
    IF conf.backup
    THEN BeginConnect("backup")
    ELSE pc' = "attach" /\ UNCHANGED <<which, attempt, tried, slept, waited>>

\* Every attempt failed.
Lost ==
    /\ pc = "lost"
    /\ IF which = "primary"
       THEN NextStore
       ELSE pc' = "attach" /\ UNCHANGED <<which, attempt, tried, slept, waited>>
    /\ UNCHANGED <<envVars, name, kind, migrated, pool, stateVars, taskVars>>

Ping ==
    /\ pc = "ping"
    /\ dbOk' = Reachable("primary")
    /\ NextStore
    /\ UNCHANGED <<envVars, name, kind, migrated, pool, policy, manager, restored, taskVars>>

Attach ==
    /\ pc = "attach"
    /\ policy' = dbOk
    /\ pc' = "restore"
    /\ UNCHANGED <<envVars, retryVars, pool, dbOk, manager, restored, taskVars>>

\* check_once: from the primary, or else from the newest snapshot.
Served == Reachable("primary") \/ (manager /\ Reachable("backup"))

CheckOnce ==
    IF conf.key
    THEN restored' = (restored \/ Served) /\ dbOk' = (dbOk \/ Served)
    ELSE UNCHANGED <<restored, dbOk>>

\* With a reachable primary the accounts are listed, and then the missing
\* import of `os' raises NameError before the check.
Restore ==
    /\ pc = "restore"
    /\ pc' = "tasks"
    /\ IF conf.key /\ ~dbOk /\ manager
       THEN CheckOnce /\ validation' = (IF conf.validate THEN "run" ELSE validation)
       ELSE UNCHANGED <<restored, dbOk, validation>>
    /\ UNCHANGED <<envVars, retryVars, pool, policy, manager, monitor, backupTask>>

StartTasks ==
    /\ pc = "tasks"
    /\ monitor' = "sleep"
    /\ backupTask' = IF manager THEN "sleep" ELSE "none"
    /\ pc' = "serving"
    /\ UNCHANGED <<envVars, retryVars, pool, stateVars, validation>>

-----------------------------------------------------------------------------
(* The background tasks and the admin overview.                            *)
others(v) == UNCHANGED <<envVars, pc, retryVars, pool, policy, manager, v>>

MonitorWakes ==
    /\ monitor = "sleep" /\ monitor' = "check"
    /\ UNCHANGED <<dbOk, restored>> /\ others(<<backupTask, validation>>)

\* The check ends; the housekeeping may find a backup due.
MonitorChecks ==
    /\ monitor = "check"
    /\ CheckOnce
    /\ monitor' \in {"sleep"} \cup (IF manager THEN {"backup"} ELSE {})
    /\ others(<<backupTask, validation>>)

\* A backup of the housekeeping ends, or the clean-up of a cancelled one.
MonitorBackupEnds ==
    /\ \/ monitor = "backup" /\ monitor' = "sleep"
       \/ monitor = "undo" /\ monitor' = "done"
    /\ UNCHANGED <<dbOk, restored>> /\ others(<<backupTask, validation>>)

BackupTaskSteps ==
    /\ \/ backupTask = "sleep" /\ backupTask' = "run"
       \/ backupTask \in {"run", "undo"} /\ backupTask' = "done"
    /\ UNCHANGED <<dbOk, restored>> /\ others(<<monitor, validation>>)

ValidationEnds ==
    /\ validation = "run" /\ validation' = "done"
    /\ CheckOnce
    /\ others(<<monitor, backupTask>>)

Overview ==
    /\ pc = "serving" /\ ~dbOk
    /\ dbOk' = Reachable("primary")
    /\ UNCHANGED restored /\ others(taskVars)

-----------------------------------------------------------------------------
(* Shutdown: the startup backup is cancelled and awaited, then the monitor,*)
(* then the stores are closed.  The validation task is left to itself.     *)
Cancelled(t) ==
    IF t = "sleep" \/ t = "check" THEN "done"
    ELSE IF t \in {"run", "backup"} THEN "undo" ELSE t

Shutdown ==
    /\ pc = "serving"
    /\ pc' = "stopBackup"
    /\ backupTask' = Cancelled(backupTask)
    /\ UNCHANGED <<envVars, retryVars, pool, stateVars, monitor, validation>>

\* Seeded fault: the cancelled backup is not awaited.
StopMonitorAtOnce ==
    /\ pc = "stopBackup"
    /\ pc' = "stopMonitor"
    /\ monitor' = Cancelled(monitor)
    /\ UNCHANGED <<envVars, retryVars, pool, stateVars, backupTask, validation>>

StopMonitor ==
    /\ pc = "stopBackup" /\ backupTask \in {"none", "done"}
    /\ pc' = "stopMonitor"
    /\ monitor' = Cancelled(monitor)
    /\ UNCHANGED <<envVars, retryVars, pool, stateVars, backupTask, validation>>

Close ==
    /\ pc = "stopMonitor" /\ monitor = "done"
    /\ pc' = "closed"
    /\ pool' = Fresh(FALSE)
    /\ UNCHANGED <<envVars, retryVars, stateVars, taskVars>>

\* The process ends, after a shutdown or at any time.
Exit ==
    /\ pc # "off"
    /\ pc' = "off"
    /\ pool' = Fresh(FALSE)
    /\ monitor' = "none" /\ backupTask' = "none" /\ validation' = "none"
    /\ policy' = FALSE
    /\ UNCHANGED <<envVars, retryVars, dbOk, manager, restored>>

-----------------------------------------------------------------------------
Lifespan ==
    \/ ConnectFails \/ Connect \/ SchemaFails \/ Migrated
    \/ HandleFailure \/ Created \/ NotCreated \/ Retry
    \/ Lost \/ Ping \/ Attach \/ Restore \/ StartTasks
    \/ StopMonitor \/ Close

Background ==
    MonitorWakes \/ MonitorChecks \/ MonitorBackupEnds \/ BackupTaskSteps \/ ValidationEnds

Next ==
    \/ \E s \in Stores : Flip(s)
    \/ Boot \/ Lifespan \/ Background \/ Overview \/ Shutdown \/ Exit

Spec == Init /\ [][Next]_vars

\* asyncio runs what is ready to run: the lifespan goes on and so do the
\* tasks.  Nothing makes the servers answer, or an admin look.
FairSpec == Spec /\ WF_vars(Lifespan) /\ WF_vars(MonitorWakes)
                 /\ WF_vars(MonitorChecks) /\ WF_vars(MonitorBackupEnds)
                 /\ WF_vars(BackupTaskSteps) /\ WF_vars(ValidationEnds)

-----------------------------------------------------------------------------
(* A start-up is bounded whatever the servers do: one pause before every   *)
(* attempt after the first, except after the one CREATE DATABASE, and in   *)
(* all no longer than the delay cap for each of them (_policy,             *)
(* backoff_delay, connect_and_init).                                       *)
RetriesAreBounded ==
    pc \in Connecting \ {"sleep"} =>
        /\ attempt - 1 - slept \in 0..1
        /\ attempt - 1 - slept = 1 => tried
        /\ waited <= slept * Cap

\* connect_and_init has returned for s, a configured store.
Beyond == {"attach", "restore", "tasks", "serving", "stopBackup", "stopMonitor"}
Concluded(s) ==
    IF s = "primary"
    THEN pc \in Beyond \cup {"ping"} \/ (pc \in Connecting \cup {"lost"} /\ which = "backup")
    ELSE conf.backup /\ pc \in Beyond

(* What a start says of a store is what it left there (main.py:165-176,    *)
(* 202-216, 262-271): one reported as good has the pool and the schema of  *)
(* the database its DSN now names, one reported as failed has neither,     *)
(* whatever its attempts had opened.  The backup manager is there exactly  *)
(* for a good backup store, and a tool policy only over a good primary     *)
(* that db_ok does not deny.                                               *)
OutcomeIsTrue ==
    /\ \A s \in Stores : Concluded(s) =>
         IF kind[s] = "none" THEN migrated[s] = name[s] /\ pool[s] = conf.pooled
                             ELSE migrated[s] = "none" /\ ~pool[s]
    /\ pc = "lost" => kind[which] # "none" /\ migrated[which] = "none" /\ ~pool[which]
    /\ Concluded("backup") => (manager <=> kind["backup"] = "none")
    /\ policy => dbOk /\ kind["primary"] = "none"

(* At a shutdown nothing of the startup backup or of the monitor, neither  *)
(* their work nor the clean-up of what was cancelled, finds its store      *)
(* closed (the order of main.py:349-366).                                  *)
StoresOutliveTasks ==
    pc = "closed" => monitor \notin Working /\ backupTask \notin Working \cup {"sleep"}

(* Every start reaches the point where requests are served, or the process *)
(* is stopped first: a degraded start is never a hang.                     *)
BootFinishes == pc = "connect" ~> pc \in {"serving", "off"}

(* A start that finds its primary restores the account pool before it      *)
(* serves (main.py:306).                                                   *)
StartRestoresPool ==
    [][pc = "restore" /\ pc' = "tasks" /\ conf.key /\ dbOk /\ Reachable("primary")
          => restored']_vars
=============================================================================
