---------------------------- MODULE AccountPool ----------------------------
(***************************************************************************)
(* Who may serve: the account rows of the primary store, the local Spectre *)
(* pool that answers tool calls with them, and everything that copies one  *)
(* into the other under adapter.operation_lock: the session check with its *)
(* snapshot fallback (session_monitor.py), the admin routes that set up,   *)
(* enable, disable, delete and restore accounts (routes_admin.py) and the  *)
(* pool calls they make (spectre_adapter.py).                              *)
(*                                                                         *)
(* A process is one asyncio task: the monitor's loop, a validate_now call  *)
(* or an admin request.  Every awaited store, snapshot or pool call is an  *)
(* action; code between two awaits belongs to the action before it.        *)
(* A credential is the number of the set-up that issued it, 0 a stored     *)
(* credential that no longer decrypts.  The status columns and x_status    *)
(* are not modelled (nothing here decides by them), but the failure of     *)
(* writing them is, since it changes what the disable and enable routes do.*)
(* validate() only reads, so it is the time a process keeps the lock.      *)
(***************************************************************************)
EXTENDS Integers, FiniteSets

CONSTANTS
    Labels,       \* account labels
    Procs,        \* asyncio tasks
    NoProc,       \* the operation_lock is free
    Ops,          \* the operations of this instance, a subset of AllOps
    MaxCred,      \* bound: credentials issued per label
    MaxOps,       \* bound: admin operations in one behaviour
    MaxOutages,   \* bound: outages of the primary store
    PoolFaults,   \* TRUE: add_account_cookies and delete_accounts may raise
    Corruption    \* TRUE: stored credentials may become undecryptable

AllOps == {"check", "setup", "enable", "disable", "delete", "restore", "backup"}

ASSUME AccountPoolAssumption ==
    /\ NoProc \notin Procs
    /\ Labels # {}
    /\ Ops \subseteq AllOps
    /\ MaxCred \in Nat \ {0} /\ MaxOps \in Nat /\ MaxOutages \in Nat
    /\ PoolFaults \in BOOLEAN /\ Corruption \in BOOLEAN

VARIABLES
    row,          \* row[l]: l's row of x_accounts
    issued,       \* issued[l]: credentials the operator has issued for l
    pool,         \* pool[l]: the credential the pool serves l with, 0 if absent
    snap,         \* snap[l]: l's row in the newest snapshot
    copy,         \* copy[l]: l's credential in the newest snapshot that has l
    storeUp,      \* the primary store answers
    lock,         \* the holder of adapter.operation_lock
    pc, op,       \* control state and operation of each process
    lab, cred,    \* the label and credential a process works on
    todo,         \* records a check or a restore still has to handle
    source,       \* where a check's records came from
    gone,         \* history: l was taken out of service and nothing that may
                  \* bring it back has begun since
    opsLeft, outagesLeft

vars == <<row, issued, pool, snap, copy, storeUp, lock, pc, op, lab, cred, todo,
          source, gone, opsLeft, outagesLeft>>
procVars == <<pc, op, lab, cred, todo, source>>
storeVars == <<row, issued, snap, copy, storeUp, outagesLeft>>

Creds == 0..MaxCred
NoRow == [present |-> FALSE, enabled |-> FALSE, cred |-> 0]
Rows == [present : {TRUE}, enabled : BOOLEAN, cred : Creds] \cup {NoRow}
Records == [label : Labels, enabled : BOOLEAN, cred : Creds]
Row(en, c) == [present |-> TRUE, enabled |-> en, cred |-> c]
Record(rows, l) == [label |-> l, enabled |-> rows[l].enabled, cred |-> rows[l].cred]

\* The points at which a process is inside `async with operation_lock`.
Locked == {"recover", "drop_old", "add", "d_status", "d_drop", "d_undo",
           "e_set", "e_status", "x_row"}
PCs == Locked \cup {"idle", "fallback", "loop", "s_wait", "e_wait", "e_undo", "r_rows"}

\* Every row, pool entry and record is one the store, the pool file and the
\* routes can hold; a label without a row is never enabled.
TypeOK ==
    /\ row \in [Labels -> Rows]
    /\ issued \in [Labels -> Creds]
    /\ pool \in [Labels -> Creds]
    /\ snap \in [Labels -> Rows]
    /\ copy \in [Labels -> Creds]
    /\ storeUp \in BOOLEAN
    /\ lock \in Procs \cup {NoProc}
    /\ pc \in [Procs -> PCs]
    /\ op \in [Procs -> AllOps]
    /\ lab \in [Procs -> Labels]
    /\ cred \in [Procs -> Creds]
    /\ todo \in [Procs -> SUBSET Records]
    /\ source \in [Procs -> {"primary", "snapshot"}]
    /\ gone \in [Labels -> BOOLEAN]
    /\ opsLeft \in 0..MaxOps
    /\ outagesLeft \in 0..MaxOutages

\* A gateway that has just started: an empty pool, and any accounts in the
\* store and in the newest snapshot, which is older.
Init ==
    /\ row \in [Labels -> {NoRow, Row(TRUE, 1), Row(FALSE, 1)}]
    /\ snap \in [Labels -> {NoRow, Row(TRUE, 1), Row(FALSE, 1)}]
    /\ copy = [l \in Labels |-> snap[l].cred]
    /\ issued = [l \in Labels |-> 1]
    /\ pool = [l \in Labels |-> 0]
    /\ storeUp = TRUE
    /\ lock = NoProc
    /\ pc = [p \in Procs |-> "idle"]
    /\ op = [p \in Procs |-> "check"]
    /\ lab = [p \in Procs |-> CHOOSE l \in Labels : TRUE]
    /\ cred = [p \in Procs |-> 0]
    /\ todo = [p \in Procs |-> {}]
    /\ source = [p \in Procs |-> "primary"]
    /\ gone = [l \in Labels |-> FALSE]
    /\ opsLeft = MaxOps
    /\ outagesLeft = MaxOutages

Goto(p, there) == pc' = [pc EXCEPT ![p] = there]
\* An operation ends; its locals are gone.
End(p) == Goto(p, "idle") /\ op' = [op EXCEPT ![p] = "check"]
Acquire(p) == lock = NoProc /\ lock' = p
Release == lock' = NoProc
Serve(l, c) == pool' = [pool EXCEPT ![l] = c]
\* UPDATE ... WHERE label: no row, no effect.
SetEnabled(l, en) == row' = [row EXCEPT ![l].enabled = en /\ row[l].present]

Accounts(rows) == {l \in Labels : rows[l].present}
EnabledRecords(rows) == {Record(rows, l) : l \in {k \in Accounts(rows) : rows[k].enabled}}

\* Something other than p is under way that may bring l into service.
MayReturn(p, l) ==
    \E q \in Procs \ {p} :
        \/ op[q] \in {"setup", "enable"} /\ lab[q] = l /\ pc[q] # "idle"
        \/ pc[q] \in {"r_rows", "fallback"}
        \/ op[q] = "check" /\ source[q] = "snapshot" /\ pc[q] # "idle"
NoteGone(p, l) ==
    gone' = [gone EXCEPT ![l] = ~row'[l].enabled /\ ~MayReturn(p, l)]
NoteReturn(ls) == gone' = [l \in Labels |-> gone[l] /\ l \notin ls]

Begin(p, o) ==
    /\ pc[p] = "idle"
    /\ o \in Ops
    /\ op' = [op EXCEPT ![p] = o]
BeginOp(p, o) == Begin(p, o) /\ opsLeft > 0 /\ opsLeft' = opsLeft - 1

-----------------------------------------------------------------------------
(* check_once                                                              *)

\* _accounts_to_serve: the primary's rows decide whenever there are any;
\* an unreadable or empty primary sends the check to the newest snapshot.
ReadAccounts(p) ==
    IF storeUp /\ Accounts(row) # {}
    THEN /\ todo' = [todo EXCEPT ![p] = EnabledRecords(row)]
         /\ source' = [source EXCEPT ![p] = "primary"]
         /\ Goto(p, "loop")
         /\ UNCHANGED gone
    ELSE /\ Goto(p, "fallback")
         /\ NoteReturn(Labels)
         /\ UNCHANGED <<todo, source>>

StartCheck(p) ==
    /\ Begin(p, "check")
    /\ ReadAccounts(p)
    /\ UNCHANGED <<storeVars, pool, lock, lab, cred, opsLeft>>

\* newest_snapshot_accounts; without a usable snapshot nothing is served.
ReadFallback(p) ==
    /\ pc[p] = "fallback"
    /\ todo' \in {[todo EXCEPT ![p] = EnabledRecords(snap)], [todo EXCEPT ![p] = {}]}
    /\ source' = [source EXCEPT ![p] = "snapshot"]
    /\ Goto(p, "loop")
    /\ UNCHANGED <<storeVars, pool, lock, op, lab, cred, gone, opsLeft>>

\* Seeded faults: an account the pool has already is left as it is, and the
\* record's own flag, read before the lock, is trusted.
MaySyncMissing(p, r) ==
    source[p] = "snapshot" \/ (row[r.label].enabled /\ pool[r.label] = 0)
MaySyncUnchecked(p, r) == source[p] = "snapshot" \/ r.enabled
\* The head of the loop, with the lock: is_account_enabled for a record of
\* the primary (it raises, and ends the check, if the store is gone).
MaySync(p, r) == source[p] = "snapshot" \/ row[r.label].enabled

NextAccount(p, r) ==
    /\ pc[p] = "loop"
    /\ r \in todo[p]
    /\ source[p] = "primary" => storeUp
    /\ MaySync(p, r)
    /\ source[p] = "snapshot" => r.cred # 0
    /\ Acquire(p)
    /\ todo' = [todo EXCEPT ![p] = @ \ {r}]
    /\ lab' = [lab EXCEPT ![p] = r.label]
    /\ cred' = [cred EXCEPT ![p] = r.cred]
    /\ Goto(p, IF r.cred = 0 THEN "recover" ELSE "drop_old")
    /\ UNCHANGED <<storeVars, pool, op, source, gone, opsLeft>>

\* A disabled account is skipped, a snapshot row that does not decrypt too.
SkipAccount(p, r) ==
    /\ pc[p] = "loop"
    /\ r \in todo[p]
    /\ lock = NoProc
    /\ IF source[p] = "primary" THEN storeUp /\ ~MaySync(p, r) ELSE r.cred = 0
    /\ todo' = [todo EXCEPT ![p] = @ \ {r}]
    /\ UNCHANGED <<storeVars, pool, lock, pc, op, lab, cred, source, gone, opsLeft>>

AbortCheck(p) ==
    /\ pc[p] = "loop"
    /\ todo[p] # {}
    /\ lock = NoProc
    /\ source[p] = "primary" /\ ~storeUp
    /\ todo' = [todo EXCEPT ![p] = {}]
    /\ End(p)
    /\ source' = [source EXCEPT ![p] = "primary"]
    /\ UNCHANGED <<storeVars, pool, lock, lab, cred, gone, opsLeft>>

EndCheck(p) ==
    /\ pc[p] = "loop"
    /\ todo[p] = {}
    /\ End(p)
    /\ source' = [source EXCEPT ![p] = "primary"]
    /\ UNCHANGED <<storeVars, pool, lock, lab, cred, todo, gone, opsLeft>>

\* _decrypt_snapshot_credential: the newest copy of this label in any
\* snapshot, unless it does not decrypt or the backup store does not answer.
Recover(p) ==
    /\ pc[p] = "recover"
    /\ \/ /\ copy[lab[p]] # 0
          /\ cred' = [cred EXCEPT ![p] = copy[lab[p]]]
          /\ Goto(p, "drop_old")
          /\ UNCHANGED lock
       \/ /\ Goto(p, "loop")
          /\ Release
          /\ UNCHANGED cred
    /\ UNCHANGED <<storeVars, pool, op, lab, todo, source, gone, opsLeft>>

-----------------------------------------------------------------------------
(* _sync_account, under the lock: delete, then add.                        *)

\* A delete that raises is passed over, and the old entry stays.
SyncDelete(p) ==
    /\ pc[p] = "drop_old"
    /\ \/ Serve(lab[p], 0)
       \/ PoolFaults /\ UNCHANGED pool
    /\ Goto(p, "add")
    /\ UNCHANGED <<storeVars, lock, op, lab, cred, todo, source, gone, opsLeft>>

\* Where a process goes on after its account was added, or was not.
AfterSync(p, added) ==
    /\ cred' = [cred EXCEPT ![p] = 0]
    /\ CASE op[p] = "setup" -> End(p) /\ Release
         [] op[p] = "enable" /\ added -> Goto(p, "e_set") /\ UNCHANGED <<op, lock>>
         [] op[p] = "enable" /\ ~added -> Goto(p, "e_undo") /\ Release /\ UNCHANGED op
         [] OTHER -> Goto(p, "loop") /\ Release /\ UNCHANGED op

\* An entry that the delete has left is replaced, or kept: the pool decides.
SyncAdd(p) ==
    /\ pc[p] = "add"
    /\ \/ Serve(lab[p], cred[p])
       \/ pool[lab[p]] # 0 /\ UNCHANGED pool
    /\ AfterSync(p, TRUE)
    /\ UNCHANGED <<storeVars, lab, todo, source, gone, opsLeft>>

SyncAddFails(p) ==
    /\ PoolFaults
    /\ pc[p] = "add"
    /\ AfterSync(p, FALSE)
    /\ UNCHANGED <<storeVars, pool, lab, todo, source, gone, opsLeft>>

-----------------------------------------------------------------------------
(* POST /admin/api/accounts: the upsert takes no lock, the sync does.  A   *)
(* disabled set-up leaves the pool as it is.                               *)
SetupUpsert(p, l, en) ==
    /\ BeginOp(p, "setup")
    /\ storeUp
    /\ issued[l] < MaxCred
    /\ issued' = [issued EXCEPT ![l] = @ + 1]
    /\ row' = [row EXCEPT ![l] = Row(en, issued[l] + 1)]
    /\ lab' = [lab EXCEPT ![p] = l]
    /\ cred' = [cred EXCEPT ![p] = IF en THEN issued[l] + 1 ELSE 0]
    /\ Goto(p, IF en THEN "s_wait" ELSE "idle")
    /\ NoteReturn({l})
    /\ UNCHANGED <<pool, snap, copy, storeUp, outagesLeft, lock, todo, source>>

SetupLock(p) ==
    /\ pc[p] = "s_wait"
    /\ Acquire(p)
    /\ Goto(p, "drop_old")
    /\ UNCHANGED <<storeVars, pool, op, lab, cred, todo, source, gone, opsLeft>>

(* PATCH enabled=false, all of it under the lock.                          *)
DisableRow(p, l) ==
    /\ BeginOp(p, "disable")
    /\ storeUp
    /\ row[l].present
    /\ Acquire(p)
    /\ SetEnabled(l, FALSE)
    /\ lab' = [lab EXCEPT ![p] = l]
    /\ Goto(p, "d_status")
    /\ UNCHANGED <<issued, pool, snap, copy, storeUp, outagesLeft, cred, todo, source, gone>>

\* update_status; if it raises, the route answers 503 and drops nothing.
DisableStatus(p) ==
    /\ pc[p] = "d_status"
    /\ IF storeUp THEN Goto(p, "d_drop") /\ UNCHANGED <<lock, op>>
                  ELSE End(p) /\ Release
    /\ UNCHANGED <<storeVars, pool, lab, cred, todo, source, gone, opsLeft>>

\* Seeded fault: drop_account, which takes the lock, for _drop_account.
DisableDropRelocking(p) ==
    /\ pc[p] = "d_drop"
    /\ Acquire(p)
    /\ Serve(lab[p], 0)
    /\ End(p)
    /\ UNCHANGED row
    /\ NoteGone(p, lab[p])
    /\ UNCHANGED <<issued, snap, copy, storeUp, outagesLeft, lab, cred, todo, source, opsLeft>>

DisableDrop(p) ==
    /\ pc[p] = "d_drop"
    /\ Serve(lab[p], 0)
    /\ End(p)
    /\ Release
    /\ UNCHANGED row
    /\ NoteGone(p, lab[p])
    /\ UNCHANGED <<issued, snap, copy, storeUp, outagesLeft, lab, cred, todo, source, opsLeft>>

DisableDropFails(p) ==
    /\ PoolFaults
    /\ pc[p] = "d_drop"
    /\ Goto(p, "d_undo")
    /\ UNCHANGED <<storeVars, pool, lock, op, lab, cred, todo, source, gone, opsLeft>>

\* The pool kept the account, so the row is enabled again.
DisableUndo(p) ==
    /\ pc[p] = "d_undo"
    /\ IF storeUp THEN SetEnabled(lab[p], TRUE) /\ NoteReturn({lab[p]})
                  ELSE UNCHANGED <<row, gone>>
    /\ End(p)
    /\ Release
    /\ UNCHANGED <<issued, pool, snap, copy, storeUp, outagesLeft, lab, cred, todo, source, opsLeft>>

(* PATCH enabled=true: the record is read before the lock is taken.        *)
EnableRead(p, l) ==
    /\ BeginOp(p, "enable")
    /\ storeUp
    /\ row[l].present
    /\ lab' = [lab EXCEPT ![p] = l]
    /\ cred' = [cred EXCEPT ![p] = row[l].cred]
    /\ Goto(p, "e_wait")
    /\ NoteReturn({l})
    /\ UNCHANGED <<storeVars, pool, lock, todo, source>>

\* Decrypting fails inside the lock, which the exception leaves at once.
EnableLock(p) ==
    /\ pc[p] = "e_wait"
    /\ lock = NoProc
    /\ IF cred[p] = 0 THEN Goto(p, "e_undo") /\ UNCHANGED lock
                      ELSE Goto(p, "drop_old") /\ Acquire(p)
    /\ UNCHANGED <<storeVars, pool, op, lab, cred, todo, source, gone, opsLeft>>

EnableSet(p) ==
    /\ pc[p] = "e_set"
    /\ IF storeUp THEN SetEnabled(lab[p], TRUE) /\ Goto(p, "e_status") /\ UNCHANGED lock
                  ELSE UNCHANGED row /\ Goto(p, "e_undo") /\ Release
    /\ UNCHANGED <<issued, pool, snap, copy, storeUp, outagesLeft, op, lab, cred, todo, source,
                   gone, opsLeft>>

EnableStatus(p) ==
    /\ pc[p] = "e_status"
    /\ IF storeUp THEN End(p) ELSE Goto(p, "e_undo") /\ UNCHANGED op
    /\ Release
    /\ UNCHANGED <<storeVars, pool, lab, cred, todo, source, gone, opsLeft>>

\* The handler, outside the lock, switches the row off; the pool is not touched.
EnableUndo(p) ==
    /\ pc[p] = "e_undo"
    /\ IF storeUp THEN SetEnabled(lab[p], FALSE) ELSE UNCHANGED row
    /\ End(p)
    /\ UNCHANGED <<issued, pool, snap, copy, storeUp, outagesLeft, lock, lab, cred, todo, source,
                   gone, opsLeft>>

(* DELETE: out of the pool first, then out of the store, under the lock.   *)
DeleteDrop(p, l) ==
    /\ BeginOp(p, "delete")
    /\ Acquire(p)
    /\ Serve(l, 0)
    /\ lab' = [lab EXCEPT ![p] = l]
    /\ Goto(p, "x_row")
    /\ UNCHANGED <<storeVars, cred, todo, source, gone>>

DeleteRow(p) ==
    /\ pc[p] = "x_row"
    /\ IF storeUp THEN row' = [row EXCEPT ![lab[p]] = NoRow] /\ NoteGone(p, lab[p])
                  ELSE UNCHANGED <<row, gone>>
    /\ End(p)
    /\ Release
    /\ UNCHANGED <<issued, pool, snap, copy, storeUp, outagesLeft, lab, cred, todo, source, opsLeft>>

(* POST backup/restore: the newest snapshot is upserted row by row without *)
(* the lock; then the route runs a session check of its own.               *)
RestoreStart(p) ==
    /\ BeginOp(p, "restore")
    /\ todo' = [todo EXCEPT ![p] = {Record(snap, l) : l \in Accounts(snap)}]
    /\ Goto(p, "r_rows")
    /\ NoteReturn(Accounts(snap))
    /\ UNCHANGED <<storeVars, pool, lock, lab, cred, source>>

RestoreRow(p, r) ==
    /\ pc[p] = "r_rows"
    /\ r \in todo[p]
    /\ storeUp
    /\ row' = [row EXCEPT ![r.label] = Row(r.enabled, r.cred)]
    /\ todo' = [todo EXCEPT ![p] = @ \ {r}]
    /\ UNCHANGED <<issued, pool, snap, copy, storeUp, outagesLeft, lock, pc, op, lab, cred, source,
                   gone, opsLeft>>

RestoreFails(p) ==
    /\ pc[p] = "r_rows"
    /\ ~storeUp
    /\ todo' = [todo EXCEPT ![p] = {}]
    /\ End(p)
    /\ UNCHANGED <<storeVars, pool, lock, lab, cred, source, gone, opsLeft>>

RestoreCheck(p) ==
    /\ pc[p] = "r_rows"
    /\ todo[p] = {}
    /\ ReadAccounts(p)
    /\ op' = [op EXCEPT ![p] = "check"]
    /\ UNCHANGED <<storeVars, pool, lock, lab, cred, opsLeft>>

-----------------------------------------------------------------------------
(* The surroundings: outages, backups, damage to a stored credential.      *)
StoreFails ==
    /\ storeUp /\ outagesLeft > 0
    /\ storeUp' = FALSE
    /\ outagesLeft' = outagesLeft - 1
    /\ UNCHANGED <<row, issued, snap, copy, pool, lock, procVars, gone, opsLeft>>

StoreReturns ==
    /\ ~storeUp
    /\ storeUp' = TRUE
    /\ UNCHANGED <<row, issued, snap, copy, outagesLeft, pool, lock, procVars, gone, opsLeft>>

BackupRun ==
    /\ "backup" \in Ops
    /\ storeUp
    /\ snap' = row
    /\ copy' = [l \in Labels |-> IF row[l].present THEN row[l].cred ELSE copy[l]]
    /\ UNCHANGED <<row, issued, storeUp, outagesLeft, pool, lock, procVars, gone, opsLeft>>

CorruptRow(l) ==
    /\ Corruption
    /\ row[l].present
    /\ row' = [row EXCEPT ![l].cred = 0]
    /\ UNCHANGED <<issued, snap, copy, storeUp, outagesLeft, pool, lock, procVars, gone, opsLeft>>

-----------------------------------------------------------------------------
\* The steps that wait for the lock, and the steps that wait for nothing.
LockStep(p) ==
    \/ \E r \in todo[p] : NextAccount(p, r) \/ SkipAccount(p, r)
    \/ AbortCheck(p) \/ SetupLock(p) \/ EnableLock(p)

FreeStep(p) ==
    \/ ReadFallback(p) \/ EndCheck(p) \/ Recover(p)
    \/ SyncDelete(p) \/ SyncAdd(p) \/ SyncAddFails(p)
    \/ DisableStatus(p) \/ DisableDrop(p) \/ DisableDropFails(p) \/ DisableUndo(p)
    \/ EnableSet(p) \/ EnableStatus(p) \/ EnableUndo(p)
    \/ DeleteRow(p)
    \/ (\E r \in todo[p] : RestoreRow(p, r)) \/ RestoreFails(p) \/ RestoreCheck(p)

Request(p, l) ==
    \/ SetupUpsert(p, l, TRUE) \/ SetupUpsert(p, l, FALSE)
    \/ DisableRow(p, l) \/ EnableRead(p, l) \/ DeleteDrop(p, l)

Next ==
    \/ \E p \in Procs : \/ StartCheck(p) \/ RestoreStart(p)
                        \/ LockStep(p) \/ FreeStep(p)
                        \/ \E l \in Labels : Request(p, l)
    \/ StoreFails \/ StoreReturns \/ BackupRun
    \/ \E l \in Labels : CorruptRow(l)

Spec == Init /\ [][Next]_vars

(* A started task runs on until it awaits (WF), asyncio.Lock wakes its     *)
(* waiters first in first out (SF), the monitor's loop checks for ever and *)
(* outages end.                                                            *)
FairSpec ==
    /\ Spec
    /\ \A p \in Procs : WF_vars(FreeStep(p)) /\ SF_vars(LockStep(p))
    /\ WF_vars(\E p \in Procs : StartCheck(p))
    /\ WF_vars(StoreReturns)

-----------------------------------------------------------------------------
(* session_monitor.py 244-246: once a disable or a delete has completed,   *)
(* with nothing in flight that may bring the account back, no session      *)
(* check that read the accounts earlier puts it into the pool again, until *)
(* somebody sets it up, enables it or restores it, or the primary is       *)
(* unreadable or empty and the snapshot takes over.                        *)
GoneStaysOut == \A l \in Labels : gone[l] => pool[l] = 0

(* Every request and every check comes to an end: operation_lock is not    *)
(* re-entrant, and nobody waits for it while holding it.                   *)
RequestsFinish == \A p \in Procs : pc[p] # "idle" ~> pc[p] = "idle"

(* A credential synced by an overlapping check does not last: when the     *)
(* operator stops and the store stays up, an enabled account is in the end *)
(* served with the store's credential or, while a check replaces it, with  *)
(* none, and it is served again and again.                                 *)
Wanted(l) == row[l].enabled /\ row[l].cred # 0
PoolConverges ==
    /\ <>[](\A l \in Labels : Wanted(l) => pool[l] \in {0, row[l].cred})
    /\ \A l \in Labels : []<>(Wanted(l) => pool[l] = row[l].cred)

-----------------------------------------------------------------------------
Quiet == storeUp /\ \A p \in Procs : pc[p] = "idle"

(* backup-restore.md 79-81: a primary that holds accounts decides, "even   *)
(* all disabled", and no snapshot undoes that: with nothing in flight and  *)
(* the primary up, the pool serves no account the store has switched off.  *)
DisabledIsNotServed ==
    Quiet => \A l \in Labels : pool[l] # 0 /\ row[l].present => row[l].enabled
=============================================================================
