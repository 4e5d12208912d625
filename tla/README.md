# Formal models of the kxstrel gateway

kxstrel is a FastAPI gateway that serves X (Twitter) tools over MCP. It keeps
account credentials in a primary database, serves tool calls from a local
account pool filled from it, writes versioned snapshots to a second database,
and is operated through admin routes. This directory holds TLA+ models of its
stateful parts, the TLC configurations that check them on small instances, and
theorems about all of them proved with TLAPS for every instance. Paths like
`app/db.py` are relative to the source tree.

Contents:

1. Inventory of the system
2. Modules, and how they correspond to the code
3. The runs: what they check, bounds, fairness
4. The proofs
5. Disagreements between code and documentation
6. What is only model-checked, what is not modelled
7. Plan

## 1. Inventory

One asyncio process (several may share the databases) with these parts.

| Part | State | Operations | Interacts with |
|---|---|---|---|
| Account store, `app/db.py` | tables `x_accounts`, `tool_flags`, `tool_usage`, `admin_audit`, `meta`, `schema_migrations`; a connection pool | row reads and upserts; `connect`, `close`; `init_schema` | everything |
| Migration runner, `app/db.py` 583-1000 | `schema_migrations` rows (claim or record), the DDL that has run | claim, read, take over, execute, finalise, release | the other gateways that boot on the same database |
| Resilient connect, `app/db_resilience.py` | attempts counter, creation flag, outcome | connect, classify a failure, create the database, back off | start-up, store |
| Start-up and shutdown, `app/main.py` | `db_ok`, `policy_ready`, `backup_manager`, background tasks | lifespan | all of the above, monitor, backups |
| SQL text, `app/db.py` 76-165, 1032-1124 | none; pure functions | scan, split a script, rewrite placeholders | migrations, every query |
| Session monitor, `app/session_monitor.py` | its task, the last check's result | `check_once`, housekeeping | store, snapshots, pool |
| Spectre adapter, `app/spectre_adapter.py` | the account pool, `operation_lock` | sync, drop, validate | monitor, admin routes |
| Admin routes, `app/routes_admin.py` | none of their own | set up, enable, disable, delete, validate, restore, delete snapshot, toggle, test a tool, overview | store, pool, backups, tool middleware |
| Backups, `app/backup.py` | `backup_snapshots` (index) and one row table for each dumped table; the run lock; last timestamp | run, prune, delete, fallback read, restore | monitor, admin routes, start-up |
| Backup schedule, `app/session_monitor.py` 92-130, `app/main.py`, `app/backup.py` | marks of the last attempt and the last success, the cursor in `meta`, the run lock | housekeeping, start-up backup, admin trigger, reading the cursor at a start | backups, monitor, start-up |
| Tool middleware, `app/tool_middleware.py` | cached flags with their age, in-flight counts per caller and tool | policy check, pacing, refresh | store, admin toggles |
| Enrichment of results, `app/tool_middleware.py` 70-330 | the list of scheduled tweets on X | list after the call, match, rewrite the result | tool middleware, pool |
| Rate limiter, `app/rate_limit.py` | per key a queue of admission times | `allow`, sweep | auth middleware, which computes `Retry-After` |
| Auth middleware, `app/middleware.py` | limiter; reads `policy_ready` | guards on MCP, admin and login requests | start-up |
| Admin sessions, `app/admin_sessions.py` | sessions in a shared Redis or in memory, bound to the admin token | issue, check, revoke one, revoke all, prune | admin routes, middleware, monitor |
| Client registry `app/client_registry.py`, upstream capture `app/upstream_capture.py` | bounded maps | count; capture | dashboard |
| Config, crypto, logging, metrics, dashboard, scripts | none that others decide by | | |

What is hard in it, and what correctness means there:

- **Migrations.** Gateways race through the same list with statements that
  commit one by one; owners of a claim die, stall past the take-over deadline
  and come back. *Applied* must mean every statement ran; `init_schema` must
  only return on a complete schema, and must return.
- **Account pool.** The monitor reads accounts, waits for `operation_lock` and
  acts on what it read, while admin requests change the row and the pool in
  several awaited steps that fail one by one and are partly undone. What an
  operator took out must not come back by itself, what is enabled must in the
  end be served with the stored credential, and no request may hang.
- **Snapshots.** Statement-by-statement writes in a store without a
  transaction around them; a run, a prune, an operator's delete, a restore and
  the fallback interleave; crashes and a clock that steps back. A snapshot
  that looks complete must be, and earlier copies must survive.
- **Tool calls.** A flag refresh that is under way while a tool is switched
  off; slots held over sleeps, exceptions and cancellations.
- **Enrichment.** Between the call that schedules a tweet and the listing that
  is to reveal its id, others schedule, edit and delete tweets, also twins of
  it. A wrong id is worse than none, and the two representations of a result
  must not disagree.
- **Backup schedule.** Three callers share one run lock and two marks of time;
  runs fail before and after the snapshot is complete; a restart forgets the
  marks and may fail to read the cursor. Backups must go on, in time, and
  nothing may be shown as a backup that is none.
- **Admin sessions.** Redis requests that are not answered may have been
  executed, now or later; instances share Redis but not their memories; a
  rotated token reaches one instance after the other. What was revoked must
  stay revoked, and a login that was answered be honoured.
- **SQL text.** A quote, an escape or the beginning of a comment at the edge of
  another one changes what is code after it, so what is split and what is a
  placeholder.
- **Rate limiter.** Boundary arithmetic of the window and of `Retry-After`,
  and a sweep that forgets keys.
- **Start-up.** Two stores with bounded retries that share an attempts counter
  between connecting, migrating and creating the database; degraded service;
  background tasks that must end before their store is closed.

`PROJECT.json` lists every component, with what of it is modelled, and every
hazard at its line.

## 2. Modules

| Module | Models | Abstract specification |
|---|---|---|
| `Migrations` | migration runner | `MigrationLedger` (refined) |
| `AccountPool` | store rows, pool, session checks, admin account routes | |
| `BackupSnapshots` | backup runs, prune, delete, restore and fallback reads | `SnapshotStore` (refined) |
| `ToolCalls` | tool middleware, toggle, tester | |
| `RateLimiter` | limiter and `Retry-After` | `SlidingWindow` (refined) |
| `Startup` | lifespan, `connect_and_init`, background tasks, shutdown | |
| `BackupSchedule` | when backups are taken: housekeeping, start-up backup, trigger, cursor | |
| `AdminSessions` | sessions of the dashboard in several instances | |
| `Enrichment` | recovery of a scheduled tweet's id | |
| `SqlText` | scanner, splitter, placeholders of `app/db.py` | a lexer (compared with) |
| `MC*` | instances of each for TLC | |
| `DatabaseProofs` | theorems about `Migrations` and `SqlText`, two parts of `app/db.py` | |
| `RateLimiterProofs`, `AdminSessionsProofs`, `BackupScheduleProofs`, `BackupSnapshotsProofs`, `StartupProofs`, `AccountPoolProofs` | theorems about the module they are named after | |
| `MiddlewareProofs` | theorems about `ToolCalls` and `Enrichment`, the two parts of `app/tool_middleware.py` | |

The common convention: **an action is the code from one await to the next**,
since asyncio switches tasks only there, and every awaited database statement
takes effect at one moment. Where a statement may fail, the model has the
failure before its effect and, where the code can see it, the loss of the
answer after it. Variables marked *history* record what a property needs and
never guard an action. Definitions headed *Seeded fault* are variants of the
definition below them with a plausible bug; no specification uses them, they
serve to show that a property notices the bug.

### Migrations and MigrationLedger

`row[v]` is the row of version *v*: absent, claimed by a token, or applied
(`applied_at` not NULL). `schema[v]` is the set of the statements of *v* that
have run. `pc`, `ver`, `pos`, `late`, `seen` are the locals of
`_apply_migrations` and `_claim_version`; a token (`_claim_marker`) is a runner
and the number of its start, so that no two starts share one. `InsertClaim`,
`TakeOver`, `Finalise` and `Release` are the four statements of a
`*MigrationIO` class; the actions at `read` and `reread` are what
`_claim_version` decides from the row it read. Several databases' dialects have
the same protocol; SQLite runs the whole list in one exclusive transaction,
which is the case of runners that do not interleave. Only statement effects
that are idempotent (`IF NOT EXISTS`, as all of the migrations are) are
modelled: running a statement twice is running it once.

`MigrationLedger` has no claims, runners or failures: statements of a version
after all earlier versions are complete, the record after all statements,
nothing undone. `Migrations` refines it with `applied` mapped to the versions
whose row is applied.

### AccountPool

`row`, `snap` and `copy` are what the primary and the backup store hold for
each label (`copy` is the newest copy of a label in any snapshot, which
`account_from_newest_snapshot` reads), `pool` the credential the pool serves.
A credential is the number of the set-up that issued it, 0 one that does not
decrypt. Each task runs operations one after the other; `pc` names the await it
is at, and the set `Locked` those inside `async with operation_lock`. The
session check is `StartCheck` to `EndCheck`, set-up the actions with `s_`,
disable `d_`, enable `e_`, delete `x_`, restore `r_`. Each includes the failures
of the store and the pool and the undo the route attempts, in and outside the
lock as in the code. A sync swallows the failure of its delete and adds all the
same, with the pool replacing or keeping the entry that is still there.
`validate()` is the time for which a task keeps the lock.

### BackupSnapshots and SnapshotStore

`index` is `backup_snapshots`; `rows[i][t]` counts the rows of snapshot *i* in
table *t*, which is enough because no statement updates one. `run` is the run
that holds `BackupManager._lock`, with its program counter, timestamp, rows
still to write and, while it prunes, the snapshots still to delete. `del` and
`read` are the operator's delete and a reader, neither of which takes the lock.
`NextSnapshotAt` is `_next_snapshot_at`, whose guard knows only the timestamps
of this process (`last`), so `Crash` resets it, and with `ClockSteps` the clock
may step back, in the process (`StepBack`) and over a restart. A claim of a
timestamp that is already used fails on the primary key (`DuplicateClaim`); one
whose reply is lost leaves its index row and ends the run outside the block that
discards (`ClaimLost`). The history `failed` holds the snapshots whose run, or
whose removal by a prune or an operator, was cut short.

`SnapshotStore` promises snapshots that appear whole, under a name never used
before, and go away as a whole.

### ToolCalls

`flags`, `loaded`, `fresh` and `flagLock` are `_flags`, `_flags_loaded`, the
age test against the TTL, and `_flag_lock`; `inFlight` is the `_pairs` map.
`got[x]` is the answer to the `list_tool_flags` of a task, read at the store
before it is installed after the await: the window in which an older answer
could overwrite a newer one. A call goes through policy, refresh, decision,
`_admit`, gap, the call itself and `_release`; it may be cancelled while it
waits for the flags or in the gap, and `Finish` covers return, exception and
cancellation during the call, which all pass the `finally`. The admin's tester
reads the store's flag itself and then goes through the middleware. A restore
writes flags as a toggle does but forces no refresh (`RestoreFlag`); the history
`undone` remembers the toggles whose tool it met under way.

### RateLimiter and SlidingWindow

One call of `allow` is one action, because it awaits nothing but an uncontended
lock. `hits` maps keys to buckets; `Popped` is the pop loop, `Swept` the sweep,
`RetryAfter` the truncation to whole seconds and the `+ 1`
of `middleware.py`. `served` remembers every admission, which
`SlidingWindow`, the exact limiter, decides by.

### Startup

`pc` walks through `lifespan`; `connect` to `sleep` are the loop of
`connect_and_init`, used for the primary and then for the backup store. An
installation (`conf`) fixes what does not change while the process runs: backup
store or not, key or not, `VALIDATE_ON_STARTUP` or not, sqlite or a server, a DSN
the driver refuses, a database in which CREATE TABLE is denied, a server that
accepts CREATE DATABASE. A raise out of `_build_store` (`main.py:163`) ends the
process, which `Exit` covers as any other end. Servers go away and come back (`Flip`). What a migration, a session
check or a backup does inside is the matter of the other modules; here it is
what it needs of the stores and what it reports.

### BackupSchedule

Instants are ages in ticks, so that "how old can the newest backup get" is a
question about one state. `lastAt` and `attemptAt` are the two marks of
`GatewayState`, `cursor` is `last_backup_success_at` in `meta`; `run` is whose
run holds the lock and its step (dump, write, prune, meta), `monitor` and
`timer` the loop of `session_monitor.py`. `House` compares with `now` as taken
before the usage prune, hence `nowAge`. `Boot` is a restart, in the middle of a
run perhaps. Any of the two stores may fail all its attempts at it and is then
missing (`opened`) for the life of the process: without the backup store there
is no manager, so neither a start-up backup, nor a trigger, nor a housekeeping
run; without the primary each run fails at its dump (`DumpFails`). The cursor is
read if the primary came up, unless it fails just then. `exposed` counts, of the
age of the newest backup, the ticks in processes that have both stores. What a
run writes is the matter of `BackupSnapshots`; the lock and the order of the
steps are the same in both.

### AdminSessions

`redis` and `local[i]` are the two places of a session; `late` holds SETs whose
client has given up waiting. A request is idle or at one of its Redis awaits
(`pc`); each is answered or fails, and a failed one may have been executed.
`Accepts` is `validate`, which the properties evaluate in every state for a
Redis that answers and for one that does not. `Boot` restarts an instance with
any token and with Redis reachable or not, so instances of a rotation in
progress coexist.

### Enrichment

`listed` is what X lists, which calls, and everybody else, change; a call goes
from `idle` over `create` and `list` to `done` (`stage`). `Matches` is the comparison of
text and time within the tolerance, `Recovered` the candidates when there is
exactly one, `Rewrite` the change of the envelope and the text block with the
restoring of the first when the second refuses. With `Rotates` the listing may
be answered by another account than the call was. Anybody may edit or delete
any entry at any time, the one that a call has just created too (`Schedule`,
`Remove`); `touched` remembers the calls to whose own tweet that happened.

### SqlText

Pure functions on a text that grows by one character at a time: `Scan`, `Split`,
`Pg` and `MysqlPrepare` as the code does it, by looking ahead, against a lexer
that reads one character at a time. A character stands for its class. `Scan`
is the loop of the generator `_scan_sql`: `AfterPiece` is what one turn yields
after another, `Ended` when there is no further turn, `Yields` turn after turn.
`Split` has a statement for each end of a part, a cut or the end of the text, that
is not blank, with the place where it begins: what `strip()` leaves of a part is
what lies between its first and its last character that is not whitespace
(`Inked`). `Interpolate` is the driver's formatting, one turn after another
(`Formatted`).

### Composition

The modules are composed by what one requires of another: `Startup` takes
`init_schema` as one step that may fail, which `Migrations` justifies
(`ReadyIsMigrated`, `InitSchemaReturns`); `AccountPool` takes a snapshot as one
value, which holds for settled snapshots (`SettledReadsWhole`) and not for one
being written (section 5, disagreement 3).

## 3. Runs

All runs are in `PROJECT.json` with their properties. Each property of a
passing run also has a mutant, a change of a definition by a seeded fault that
makes TLC report that property as violated.

| Run | Instance | Distinct states | Properties |
|---|---|---|---|
| `migrations` | 2 runners, 2 versions of 2 statements, 2 starts each, faults | 436 000 | `AppliedIsComplete`, `ReadyIsMigrated`, `VersionsInOrder`, `AppliedIsForever`, `ImplementsLedger`, `InitSchemaReturns` |
| `pool_safety` | 1 label, 3 tasks, all operations, 3 admin operations, 1 outage, pool faults, corruption | 2 174 000 | `GoneStaysOut` |
| `pool_liveness` | 1 label, 2 tasks, all operations, 3 admin operations, 1 outage | 138 000 | `RequestsFinish`, `PoolConverges` |
| `snapshots_runs` | 2 row tables, 3 timestamps, faults, 1 crash, clock steps, readers | 6 946 000 | `NoOrphans`, `ListedIsWhole`, `EarlierCopiesStay`, `SettledReadsWhole` |
| `snapshots_deletes` | 1 row table, 3 timestamps, faults, 1 crash, deletes | 1 950 000 | `PrunedIsGone`, `ImplementsStore` |
| `calls` | 3 calls of one caller to one tool, cap 2, gap 1, 1 toggle, restores, failing store, fairness | 132 000 | `SlotsAreExact`, `OffIsImmediate`, `CallsFinish` |
| `limiter` | 2 keys, 2 hits in a window of 3 ticks, a second of 2 ticks, sweep beyond 1 bucket, 7 ticks | 262 000 | `TypeOK`, `WindowHolds`, `RetryAfterIsKept`, `ImplementsWindow` |
| `startup` | every installation, 4 attempts, 2 flips, 2 starts | 1 329 000 | `RetriesAreBounded`, `OutcomeIsTrue`, `StoresOutliveTasks`, `BootFinishes` |
| `sessions` | 2 instances, 2 requests, 2 sessions, 2 tokens, time to live 1, 1 fault, 1 restart | 2 601 000 | `LoggedOutStaysOut`, `TokenBinds`, `TTLBounds`, `LoginIsHonoured` |
| `schedule` | interval 5, period 2, work up to a tick, 2 faults, 1 restart, stores given up, fairness | 2 049 000 | `StaysFresh`, `CursorIsBacked`, `BackupsRecur` |
| `enrich` | 2 calls, 1 other tweet, 1 account, 2 texts, 2 times, 2 representations | 1 045 000 | `RecoveredIsOwn`, `LoneTweetIsFound`, `ViewsAgree` |
| `sqltext` | every text of up to 5 of 11 characters | 177 000 | `ScanMatchesLexer`, `PiecesStandAlone`, `DriversBindAlike` |

Every module with variables has a `TypeOK`; the modules with proofs prove it
(`TypeCorrect`). The runs spend their properties on the hazards and, but for
`limiter`, do not list it.

What each shows, and why its bounds are enough:

- **migrations.** Two versions show order between versions, two statements a
  half-applied version. Two starts of each runner let a restarted runner meet
  its own old claim and its successor's. A third live runner adds no step:
  every action concerns one runner and one row, and an old start of a dead
  runner acts as a third owner. `AppliedIsComplete` and `ReadyIsMigrated` are
  the meaning of the table; `AppliedIsForever` is that of a settled row, which
  no statement of a slow or dead owner touches any more; `InitSchemaReturns` says
  that nobody polls for ever.
- **pool_safety.** `GoneStaysOut`: after a disable or delete has completed with
  nothing else in flight that may bring the label back, no session check that
  began earlier serves it again. Any of the three tasks may run any operation,
  so the monitor meets two overlapping admin requests. Labels share only the
  lock and the check's list of records, and a check holds the lock for one
  record at a time.
- **pool_liveness.** Without pool faults, which may repeat for ever, and without
  damaged credentials: what a failing add leaves out, or a swallowed failing
  delete leaves behind, is for a later check to put right, and this run does not
  show that (hazard H13).
  `PoolConverges` covers the credential that an overlapping check syncs stale:
  it does not last.
- **snapshots_runs, snapshots_deletes.** Three timestamps give
  an expired, a kept and a current snapshot. In the first run the clock steps
  back within a process, which is what the guard of `_next_snapshot_at` is for,
  and over a restart, which it does not see. `ListedIsWhole` exempts what is
  being written or removed at that moment, and what was cut short while it was:
  a run by a crash, by a failing clean-up or by the lost reply of its claim; a
  prune or a delete by a crash or a failing statement (disagreements 24 and 25).
  The readers are in this run too, and a restore reads two tables in two
  statements. Two constraints on steps keep the run small and lose nothing: the
  clock moves only where somebody looks at it (`ClockMovesWhenRead`), and no read
  begins of a snapshot whose run has not ended, because a read changes nothing
  and no property says anything of such a one (`ReadsThatCount`). The operator
  deletes nothing there, because a delete of the
  snapshot being written leaves orphans (disagreement 10); in the second he may
  delete anything at any time. A delete beside a restore is disagreement 9.
- **calls.** Three calls are the smallest number that overflows a
  cap of 2, and the second waits for the gap while the first runs.
  `OffIsImmediate` has the refresh of an older call under way while a tool is
  switched off, and restores of the flag at any point. Toggles of one tool
  promise nothing while they overlap, and those of different tools meet only at
  the flag lock, where the calls wait too. `CallsFinish` needs a
  waiter at the flag lock and one at the cap, which the calls and the toggle give.
- **limiter.** Seven ticks are two windows and a remainder; a sweep happens at
  every admission with two keys.
- **startup.** Four attempts have three pauses, of 1, 2 and without the cap 4
  ticks, so the third is cut to the cap of 2. The two starts share the databases
  that were created. `OutcomeIsTrue` begins from the outcome that was reported
  (`kind`) of a store that was configured and tried (`Concluded`), and says what
  of pool, schema, manager and policy must then be there or not.
- **sessions.** Two instances show what one does not know of the other, two
  requests a revoke-all that overlaps a login or a logout, a time to live of
  one tick the expiry. One fault and one restart each hit any step; the proofs
  cover any number.
- **schedule.** An interval of two and a half periods, so that a
  pass comes just before one is due; two faults and a restart, so that the
  setbacks of `StaysFresh` add up, and each start, the first too, with any of the
  two stores given up. What such a start costs has no bound, since only another
  start ends it (disagreement 26), and both properties say so: the age in
  `StaysFresh` counts the time with both stores (`exposed`), and `BackupsRecur`
  promises nothing of a process that lacks one.
- **enrich.** A call, its twin and a stranger's tweet with times
  within and just beyond the tolerance (half seconds 1 and 3, the first of which
  a report in seconds turns into 0, with a tolerance of 2). Everybody may edit or
  delete every entry. A tweet on another account is not on the list, and with
  `Rotates = FALSE` no call lists another account than its own, so one account is
  enough. Either representation may be missing or refuse the write.
- **sqltext.** Five characters hold every pair of delimiters that overlap
  (`/*/`, `''`, `--` in a quote) with a character of code after them. All three
  properties are also proved for every length (section 4).

Deadlock is checked where the system never stops (the runs of `ToolCalls`,
`BackupSchedule`, `RateLimiter` and `AccountPool`);
the other configurations switch it off, because a runner that has used
up its starts, a clock at its bound or a process that has exited does stop.

**Fairness.** `FairSpec` of each module assumes what asyncio guarantees: a task
that is ready runs (weak fairness of its steps), `asyncio.Lock` is first in,
first out (strong fairness of the steps that acquire a lock). In addition:
the clock reaches a waiter's deadline (`Migrations`), the monitor goes on
checking and outages end (`AccountPool`), sleeps end and upstream calls return
(`ToolCalls`); what can run runs before the clock ticks, and the clock ticks
(`BackupSchedule`: weak fairness of `RunStep`, `MonitorStep`, `StartupBackup`
and `Tick`). `AdminSessions`, `Enrichment` and `SqlText` are checked for
safety, without fairness. Nothing makes an operator act, a fault happen or stop, or a
server come back in `Startup`.

## 4. Proofs

All theorems hold for every value of the constants that satisfies the named
assumption of the module, which only states types and that the values that
mark an absence are not among the others (`MigrationsAssumption`,
`RateLimiterAssumption`, `AdminSessionsAssumption`, `EnrichmentAssumption`,
`ToolCallsAssumption`, `BackupScheduleAssumption`, `StartupAssumption`,
`AccountPoolAssumption`, `BackupAssumption`, `SqlTextAssumption`). A theorem that needs more says so in
its own ASSUME.

**DatabaseProofs.** About `Migrations`: `TypeCorrect`, `AppliedVersionsAreComplete`,
`ReadyStoresAreMigrated`, `DDLRunsInOrder`, `AppliedVersionsStay`
and `ClaimsImplementLedger`. `AppliedIsComplete` is not inductive: `Finalise` marks
a version as applied because of the runner's position in its own list, and the
claim may have been taken over and given back meanwhile. The invariant `IInv`
adds `Progress`: the versions before `ver[i]` are complete and the statements
before `pos[i]` have run. It is stable because DDL is only ever added, whoever
runs it, which is also why losing a claim to a slow owner harms nothing. Each
action is one of three cases: it leaves schema and positions alone
(`QuietStep`), advances over a complete version (`AdvanceStep`) or runs a
statement (`ExecuteStep`). The refinement follows from the same invariant.

About `SqlText`: `ScannerMatchesLexer`, for a text of any length in either
dialect, and with it `ScansAsLexed`. It is an induction
over positions, which `Positions` states for a set of them, so that no operator
has to be instantiated; `Iterates` says that a recursion over positions has a
solution, which makes the recursive functions of the model what their
definitions say (`ModesMeans`, `YieldsMeans`). Between two pieces the scanner is
where the lexer is (`Agrees`), but for a backslash that ends the text, which
escapes nothing. Each piece then tells code from the rest as the lexer does
(`Sound`): for a quote by the character after it (`QuotedFollows`), for a comment
by an induction up to its end (`LineCommentFollows`, `BlockCommentFollows`).
Each turn takes a character at least, so the loop ends (`ScanMeans`), and the
pieces tile the text.

The statements rest on it (`StatementsStandAlone`, `NoTextIsLost`,
`PlaceholdersAreKept`, together `ScriptsStandAlone`). What begins in code is lexed
by itself as it was in its place (`Shift`). A statement does begin in code,
because since the cut before it there was whitespace only (`BeginsInCode`). It is
terminated, because neither whitespace nor a semicolon ends a literal or a
block comment, so one that is open at its end would be open at the next cut,
which is code, or at the end of the text, which scans (`EndsClosed`). And its
last character is code by itself exactly if it was, because what comes after it
begins no comment (`NoCommentBegins`). That the one statement has as many
placeholders as the text is a bijection between them (`SameCount`).

The placeholders (`RewritesAgree`, `DriversAgree`): the two replacements put for
each character what `Prepared` says (`PrepareMeans`), because the marks that the
second inserts come after the percent signs were doubled; and the driver has,
after as many turns as characters, the arguments where the placeholders were
(`TurnStep`), with the numbers that `Pg` counts (`CountStep`, `PgNumbers`).

**RateLimiterProofs.** `TypeCorrect`, `BudgetHolds`, `RetryAfterSuffices` and
`LimiterImplementsWindow`. The invariant says that a bucket is what is left of
a key's admissions when a first part is cut off (`CutAt`), that what was cut
off, by a pop or by the sweep, is a window old, that times are recorded in
order, and that a refused key with a full bucket was told a time at which its
head is old (`Advised`). So a bucket with room means that the admission
`PerMinute` places back has left the window.

**AdminSessionsProofs.** `RevokedSessionsStayOut`, `SessionsAreBoundToTheToken`,
`SessionsExpire`, `LoginsAreHonoured`. How its login ended (`issued[s].place`)
decides where a session may be: one that went into Redis is in no memory, one
whose SET was not answered is in the memory of the instance that issued it, and
until the login is answered nobody else knows it (`Setting`, `InRedis`,
`InMemory`, `Underway`). So an instance that reaches a session removes every
record of it, a scan includes what its revoke-all promised (`Revoking`), and
nothing comes back (`Gone`). `Timed` and `Kept` bound the time left in each
record from above and from below.

**MiddlewareProofs.** About `ToolCalls`: `TypeCorrect`, `SlotsAreAlwaysExact`,
`SwitchedOffIsImmediate`. `SlotsAreExact` is inductive with the type, by
counting the calls of a pair before and after each step. For the switch, the
invariant says that the lock is held by whoever waits for a list of flags
(`LockIsHeld`), that such a list differs from the store only in tools whose
toggle has yet to take the lock and refresh, or that a restore has written since,
of which nothing is promised (`AnswersAreCurrent`), and so that a tool that is
off for good is off in store and cache (`OffMeans`).

About `Enrichment`: `EnrichmentTypeCorrect`, `RepresentationsAgree`,
`LoneTweetsAreFound` and, under the hypothesis `Rotates = FALSE`,
`RecoveredIdsAreOwn`. The own tweet is on the list as it was asked for until the
call is answered, unless somebody has touched it (`OnTheList`), and so is a
candidate; if there is one candidate, it is that one. For a call whose own tweet
was edited, deleted or sent the theorem says nothing, and nothing holds
(disagreement 27). Rounding to whole seconds stays within the
tolerance (`RoundingIsSmall`). A tweet that is alone in its text is the one
candidate, since the rounding of its time is within the tolerance too.

**BackupScheduleProofs.** `TypeCorrect`, `CursorIsAlwaysBacked`,
`BackupsStayFresh`. `KeepsUp` gives a bound on the exposure, the part of the
newest backup's age that passed in processes with both stores, at each point
between two passes: while the monitor sleeps, works, or a run is in progress. In
a process that lacks a store the exposure does not grow, and the next start is a
setback that allows for the pass and the run with which it begins. A setback moves the bound by one pass and one run (`CostFacts`). A
pass that does nothing does so because a mark is young, and a mark of a success
is not younger than a backup by more than a run.

**BackupSnapshotsProofs.** One inductive invariant (`Invariant`) carries
`SettledReadsAreWhole`, `PrunedSnapshotsAreGone`, `EarlierSnapshotsStay`,
`ListedSnapshotsAreWhole`, `NoRowsAreOrphaned`, `TypeCorrect` and
`SnapshotsImplementStore`. A snapshot under way is not settled (`Unsettled`),
and a settled one has all its rows until something begins to remove it, and
never one too many (`Settled`): that is what a reader relies on, whose several
statements take no lock (`ReadsSettled`), and why a step of a removal is a
`Remove` of the store or nothing (`RemovalStep`). A removal has emptied the
tables it has passed (`Deleted`), so the index row goes last, and what a prune
was to find is still to delete or gone (`PrunedSoFar`). The rows that are there
and those still to come are those of the dump (`Written`).

The first three hold whatever is switched on. The others have a hypothesis,
each of which TLC shows to be needed:

- `NoRowsAreOrphaned` excludes the operator's delete, which may delete the
  snapshot a run is writing (disagreement 10).
- `SnapshotsImplementStore` excludes a clock that steps back over a restart,
  which may draw a timestamp a second time (disagreement 11). Without one a
  timestamp is later than every one that names a snapshot or rows (`Fresh`).
- `ListedSnapshotsAreWhole`, which exempts what is being written or removed and
  what was cut short while it was, and `TypeCorrect` exclude the two together:
  the rows that such a delete left behind are taken for those of the new
  snapshot when the timestamp comes again.

**StartupProofs.** `TypeCorrect`, `RetriesStayBounded`, `OutcomesAreTrue`,
`ShutdownIsOrderly`. A connect has paused once per attempt it has begun but the
first, and once less if a CREATE DATABASE took the place of a pause
(`RetriesAreCounted`); no delay is over the cap (`DelaysAreCapped`), so the time
waited is at most a cap per pause (`WaitsAreCapped`). `Outcomes` follows the
store in the works through connect, failure and creation (`InTheWorks`), the
backup store that waits behind the primary (`BackupIsNext`) and the stores whose
outcome stands (`StoresAreSettled`, for those with `Concluded`); until the policy
is attached the lifespan is alone (`AloneAtFirst`), so `db_ok` and the policy
follow the ping of a good primary (`PrimaryIsTrue`), and the manager is what the
backup store's outcome says (`ManagerIsTrue`). At a shutdown a task that was awaited is
over before the next is cancelled (`TasksStop`). That `MaxAttempts` is at most
10, as the code clamps it, is used for the powers of two.

**AccountPoolProofs.** `TypeCorrect`, `LockExcludes`, `GoneAccountsStayOut`. The
holder of `operation_lock` is the one task inside it (`LockIsHeld`). A label that
is gone is not in the pool, not enabled, and nobody is on the way to bring it
back (`GoneMeans`, `Returning`): that includes a check that has taken the lock
for it but not yet added it. A disable or a delete that is about to note a label
as gone holds the lock, so there is no such check (`NotedGone`); a check that
read its accounts earlier asks `is_account_enabled` under the lock and finds the
label off. This holds for any number of labels and tasks, with pool faults,
outages and damaged credentials.

**Only model-checked:** liveness (`InitSchemaReturns`, `RequestsFinish`,
`PoolConverges`, `CallsFinish`, `BootFinishes`, `BackupsRecur`), which needs
fairness and ENABLED and is outside what the prover supports. Every other
property that a run checks is also the statement of a theorem.

## 5. Disagreements

The first four can be reproduced with a property that the modules define and no
configuration lists; each fails within a second or two:

1. `_claim_version` sets its deadline once and takes over whatever claim it
   meets after it. Of two waiters on a dead owner, the second takes over the
   fresh claim of the first, and both run the DDL (`db.py:54`: "only the owner
   runs the statements"). The proofs show that the schema survives it.
   *Reproduce:* `MCMigrations`, `Spec`, INVARIANT `OneRunnerPerVersion`,
   `Inst <- ThreeRunners`, `NVersions = 1`, `NStmts = 2`, `MaxRuns = 1`,
   `Faults = TRUE`, `OwnersAreFast = TRUE`.
2. An account disabled after the newest snapshot is served from it during an
   outage and stays in the pool afterwards, since a check only adds
   (`docs/backup-restore.md:79-81`). *Reproduce:* `MCAccountPool`, `Spec`,
   INVARIANT `DisabledIsNotServed`, the constants of `MCAccountPool_safety.cfg`
   with `TwoTasks`, `CheckOps`, `MaxCred = 1`, `MaxOps = 0`, `MaxOutages = 1`
   and no pool faults or corruption.
3. The index row is inserted before the rows, so the fallback can read a
   snapshot that is being written (`backup.py:114-115`: "must never be picked
   up"). *Reproduce:* `MCBackupSnapshots`, `Spec`, INVARIANT
   `FallbackReadsWhole`, `NTables = 2`, `MaxRows = 1`, `MaxTime = 3`,
   `Retention = 1`, `MaxCrashes = 0`, `Faults = FALSE`, `Deletes = FALSE`,
   `Reads = TRUE`, `ClockSteps = FALSE`.
4. `main.py` uses `os` without importing it. With a primary that answers, the
   start-up restore ends in a swallowed NameError (`main.py:306`: "Always
   restore enabled accounts"). *Reproduce:* `MCStartup`, `Spec`, PROPERTY
   `StartRestoresPool`, `Configured = 1`, `Base = 1`, `Cap = 2`,
   `Configs <- JustPrimary`, `MaxFlips = 0`, `MaxBoots = 1`.

Met while modelling:

5. `db.py:997`: a waiter whose take-over loses to the owner's finalise raises,
   although the version is applied (970-971 say it returns False).
6. `routes_admin.py:323`: a set-up with `enabled=false` leaves an account that
   is in the pool there.
7. `session_monitor.py:248,273`: only the enabled flag is read again under the
   lock; a credential rotated meanwhile is overwritten in the pool until the
   next check.
8. `session_monitor.py:153`: deleting the last account makes the primary look
   empty, and the fallback serves it again (`docs/backup-restore.md:96-97`:
   "It never resurrects a deleted account").
9. `backup.py:315`: a restore reads the tables in separate statements; a
   delete in between leaves it with a part, reported as ok.
10. `backup.py:242`: a delete of the snapshot that a run is writing leaves rows
    that belong to no index row (`docs/backup-restore.md:56-58`).
11. `backup.py:73`: the guard against a clock that steps back is forgotten over
    a restart, so a new snapshot may sort before older ones. It may also take
    the timestamp of a deleted one; rows that disagreement 10 left under it then
    pass for rows of the new snapshot.
12. `tool_middleware.py:525`: a forced refresh that fails keeps the old flags
    for a TTL while the toggle answers 200 (`README.md:369`).
    `OffIsImmediate` therefore speaks of toggles whose refresh succeeded.
13. `tool_middleware.py:468`: delays count from admission, so follow-ups
    admitted together start together (`tests/test_tool_concurrency.py:8-9`).
14. `db_resilience.py:397`: after creating the database on the last attempt
    `continue` leaves the loop ("retry immediately").
15. `session_monitor.py:180,307`: a check served from a snapshot sets `db_ok`
    although the primary did not answer.
16. `main.py:271`: `policy_ready` is never set after start-up, so a gateway
    that started without its primary refuses calls as "temporarily
    unavailable" (`middleware.py:263`) until it is restarted.
17. `session_monitor.py:118-120` against its comment "Failed attempts remain
    retryable": without a known success `or last_backup_attempt_at` makes a
    failed first attempt wait a whole interval. `StaysFresh` therefore excludes
    a backup since which that happened (`blind`). Also, a failed `set_meta`
    reports a complete snapshot as failed (`backup.py:136-151`), and the cursor
    is not read when the primary is down at boot (`main.py:243-250`).
18. `docs/token-rotation.md:116-119` ("revokes all live sessions at once")
    against `admin_sessions.py`: revocations swallow Redis faults, do not reach
    the memories of other instances, and may be overtaken by a SET that Redis
    executes late. `LoggedOutStaysOut` therefore speaks of revocations that were
    carried out by an instance that could reach the session.
19. `main.py:311`: the validation task is not cancelled at a shutdown.
20. `tool_middleware.py:328-331` says that a listing from another account
    "simply matches nothing". It matches a twin of the tweet that was scheduled
    there: with `Rotates = TRUE` and a second account the run `enrich` violates
    `RecoveredIsOwn`.
21. `tool_middleware.py:240-275`: the rewrite of the text representation changes
    every text block that holds such a JSON object, not the first only.
22. `db.py:1043-1063`: `_mysql_prepare` also replaces a `?` in a literal, a name
    or a comment, which `_pg` leaves alone; `DriversBindAlike` excludes such
    texts. `db.py:1119-1124`: MySQL's `_exec` sends a script unsplit.
23. `db.py:89-165`: the scanner knows neither nested comments and dollar quotes
    (Postgres) nor `#` comments and the blank after `--` (MySQL). None of the
    repository's own statements has any.
24. `backup.py:223-226,242-249`: a prune or an operator's delete that fails
    between its statements leaves the snapshot half deleted, but listed, so a
    restore and, if it is the newest, the fallback serve what is left of it. An
    expired one lasts until the next prune; what an operator's delete left stays
    until it is repeated. `ListedIsWhole` exempts these (`failed`).
25. `backup.py:104`: the INSERT of the index row stands outside the block that
    discards. If its reply is lost the run ends as failed and an empty snapshot
    stays listed, the newest one, which the fallback reads
    (`docs/backup-restore.md:39`: "so a half snapshot never").
26. `main.py:199-218`: a backup store that fails all attempts at a start leaves
    `backup_manager` None, and nothing makes another attempt, so no backup is
    taken, whatever is due, until a restart (196-198: a cold store "must not cost
    the installation its backup manager for the whole process lifetime"; the
    retries make it rarer, no more). Likewise a primary that was given up makes
    each run fail (`backup.py:95`). `StaysFresh` counts no such time, and
    `BackupsRecur` promises nothing for such a process.
27. `tool_middleware.py:355` against "never guess" (129-130): between the create
    and the listing anybody on the account may edit or delete the new tweet, or
    its time may come. A twin of it is then the one match, and its id is added.
    `RecoveredIsOwn` therefore excludes calls whose own tweet was touched.
28. `backup.py:339`: a restore writes tool flags into the primary and refreshes
    no cache, so calls to a tool that the restore switched off go on for up to a
    TTL (`README.md:369`). `OffIsImmediate` speaks of toggles.
29. `spectre_adapter.py:118-121`: a sync takes any failure of its delete for
    "fresh pool or already absent". If the entry is still there it depends on
    the pool whether the add replaces its credential.

## 6. Not modelled

- Path canonicalisation, redaction, token comparison, body limits and response
  rendering: functions of one request without state.
- Encryption: a credential that does not decrypt is a value.
- The third-party MCP and Spectre servers, Redis, the database engines: as the
  environment only.
- Usage, audit and metrics rows: written, never decided by.
- Reported status columns and counters of the accounts: several writers
  overwrite one another, but nothing decides by them.
- The client registry: counts each client name's handshakes in a map that
  ignores new names when it is full. Every step is one synchronous call, so a
  unit test reaches all of it, and nothing decides by it.
- The upstream capture: a ring buffer for diagnosis, off by default, whose
  recording awaits nothing.
- Argument checks of tool calls: functions of one call.
- Configuration: read once; its clamps are definitions (`MaxAttempts`,
  `PerMinute`) where they matter.
- Durations in `AccountPool`: an outage, a check and a request take any time.
- The audit rows that a restore puts back. Its account writes are
  `AccountPool!RestoreRow`, its flag writes `ToolCalls!RestoreFlag`; that they
  come out of one snapshot is the matter of `BackupSnapshots`, which ends with
  what was read.
- In `AdminSessions`, the iterations of `scan_iter`, several requests, are one
  step (`Scan`), and the GET of `validate` is no step of its own: `Accepts` is
  what it would answer in the state it is evaluated in. A scan in several
  requests may return less of what is added meanwhile, which the properties do
  not count on.
- In `Enrichment`, that restoring the first representation may itself fail
  (`_assign_field` of a value that was there before).

## 7. Plan

Done, with proofs: `Migrations` with its ledger, `AccountPool`, `ToolCalls`,
`RateLimiter` with its window, `Startup`, `AdminSessions`, `Enrichment`,
`BackupSchedule` and `BackupSnapshots` with its store, and `SqlText`.

Next:

1. `BackupSchedule` and `BackupSnapshots` in one composition, so that the cursor
   is backed by a snapshot that retention has not removed.
2. `AccountPool` with several labels in one snapshot.
