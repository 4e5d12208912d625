-------------------------- MODULE AccountPoolProofs --------------------------
(***************************************************************************)
(* Proofs about the account pool, for any labels, tasks, operations and    *)
(* outages, with or without pool faults and damaged credentials: the lock  *)
(* excludes, and what was taken out of service stays out.                  *)
(***************************************************************************)
EXTENDS AccountPool, TLAPS

-----------------------------------------------------------------------------
(* The inductive invariant.                                                *)

\* operation_lock is held by the task that is inside it.
LockIsHeld == \A p \in Procs : lock = p <=> pc[p] \in Locked

\* Each operation is at a point of its own code.
OpsMatch ==
    \A p \in Procs :
        /\ pc[p] \in {"loop", "fallback", "recover"} => op[p] = "check"
        /\ pc[p] \in {"drop_old", "add"} => op[p] \in {"check", "setup", "enable"}
        /\ pc[p] = "s_wait" => op[p] = "setup"
        /\ pc[p] \in {"e_wait", "e_undo", "e_set", "e_status"} => op[p] = "enable"
        /\ pc[p] \in {"d_status", "d_drop", "d_undo"} => op[p] = "disable"

\* A delete that holds the lock has emptied its place in the pool.
DeletedIsOut == \A p \in Procs : pc[p] = "x_row" => pool[lab[p]] = 0

\* q is on its way to bring l into service.
Returning(q, l) ==
    \/ op[q] \in {"setup", "enable"} /\ lab[q] = l /\ pc[q] # "idle"
    \/ pc[q] = "fallback"
    \/ pc[q] = "r_rows" /\ \E r \in todo[q] : r.label = l
    \/ op[q] = "check" /\ source[q] = "snapshot" /\ pc[q] # "idle"
    \/ pc[q] \in {"recover", "drop_old", "add"} /\ lab[q] = l

\* A label that is gone is neither in the pool nor enabled, and nothing
\* brings it back.
GoneMeans ==
    \A l \in Labels : gone[l] =>
        /\ pool[l] = 0 /\ ~row[l].enabled
        /\ \A q \in Procs : ~Returning(q, l)

IInv == TypeOK /\ LockIsHeld /\ OpsMatch /\ DeletedIsOut /\ GoneMeans

-----------------------------------------------------------------------------
(* Rows and records.                                                       *)

LEMMA RowsAreTyped ==
    /\ NoRow \in Rows
    /\ \A en \in BOOLEAN, c \in Creds : Row(en, c) \in Rows
    /\ \A r \in Rows : r.present \in BOOLEAN /\ r.enabled \in BOOLEAN /\ r.cred \in Creds
PROOF
<1>1. 0 \in Creds
    BY AccountPoolAssumption DEF Creds
<1>2. NoRow \in Rows
    BY DEF Rows
<1>3. ASSUME NEW en \in BOOLEAN, NEW c \in Creds
      PROVE  Row(en, c) \in Rows
    BY DEF Rows, Row
<1>4. ASSUME NEW r \in Rows
      PROVE  r.present \in BOOLEAN /\ r.enabled \in BOOLEAN /\ r.cred \in Creds
  <2>1. CASE r = NoRow
    BY <1>1, <2>1 DEF NoRow
  <2>2. CASE r # NoRow
    BY <2>2 DEF Rows
  <2>3. QED
    BY <2>1, <2>2
<1>5. QED
    BY <1>2, <1>3, <1>4

\* What the store hands out are records.
LEMMA RecordsAreTyped ==
    ASSUME NEW rows \in [Labels -> Rows]
    PROVE  /\ {Record(rows, l) : l \in Accounts(rows)} \in SUBSET Records
           /\ EnabledRecords(rows) \in SUBSET Records
PROOF
<1>1. \A l \in Labels : Record(rows, l) \in Records
    BY RowsAreTyped DEF Record, Records
<1>2. QED
    BY <1>1 DEF Accounts, EnabledRecords

\* Switching an account on or off leaves a row, or none.
LEMMA SwitchedRow ==
    ASSUME NEW r \in Rows, NEW en \in BOOLEAN
    PROVE  [r EXCEPT !.enabled = en /\ r.present] \in Rows
PROOF
<1>1. CASE r = NoRow
  <2>1. [r EXCEPT !.enabled = en /\ r.present] = [r EXCEPT !.enabled = FALSE]
    BY <1>1 DEF NoRow
  <2>2. [NoRow EXCEPT !.enabled = FALSE] = NoRow
    <3>1. NoRow \in [present : BOOLEAN, enabled : BOOLEAN, cred : {0}]
        BY DEF NoRow
    <3>2. QED
        BY <3>1 DEF NoRow
  <2>3. QED
    BY <1>1, <2>1, <2>2 DEF Rows
<1>2. CASE r # NoRow
    BY <1>2 DEF Rows
<1>3. QED
    BY <1>1, <1>2

LEMMA SwitchedRows ==
    ASSUME row \in [Labels -> Rows], NEW l \in Labels, NEW en \in BOOLEAN, SetEnabled(l, en)
    PROVE  row' \in [Labels -> Rows]
PROOF
<1>1. row' = [row EXCEPT ![l] = [row[l] EXCEPT !.enabled = en /\ row[l].present]]
    BY DEF SetEnabled
<1>2. QED
    BY <1>1, SwitchedRow

-----------------------------------------------------------------------------
(* What a step does to each part of the invariant.                         *)

\* What a disable or a delete notes as gone is gone: whoever may bring it
\* back is counted, and nobody else is inside the lock.
LEMMA NotedGone ==
    ASSUME IInv, NEW p \in Procs, pc[p] \in Locked, End(p), NoteGone(p, lab[p]),
           UNCHANGED <<lab, todo, source>>, pool'[lab[p]] = 0,
           \A k \in Labels \ {lab[p]} : pool'[k] = pool[k] /\ row'[k] = row[k]
    PROVE  GoneMeans'
PROOF
<1> SUFFICES ASSUME NEW k \in Labels, gone'[k]
             PROVE  /\ pool'[k] = 0 /\ ~row'[k].enabled
                    /\ \A q \in Procs : ~Returning(q, k)'
    BY DEF GoneMeans
<1>1. ~Returning(p, k)'
    BY DEF End, Goto, Returning, IInv, TypeOK
<1>2. \A q \in Procs \ {p} : pc[q] \notin Locked /\ pc'[q] = pc[q] /\ op'[q] = op[q]
    BY DEF IInv, TypeOK, LockIsHeld, End, Goto
<1>3. CASE k = lab[p]
  <2>1. ~row'[k].enabled /\ ~MayReturn(p, k)
    BY <1>3 DEF NoteGone, IInv, TypeOK
  <2>2. \A q \in Procs \ {p} : ~Returning(q, k)'
    BY <1>2, <2>1 DEF MayReturn, Returning, Locked
  <2>3. QED
    BY <1>1, <1>3, <2>1, <2>2
<1>4. CASE k # lab[p]
  <2>1. gone[k]
    BY <1>4 DEF NoteGone, IInv, TypeOK
  <2>2. \A q \in Procs \ {p} : ~Returning(q, k)'
    BY <1>2, <2>1 DEF IInv, GoneMeans, Returning
  <2>3. QED
    BY <1>1, <1>4, <2>1, <2>2 DEF IInv, GoneMeans
<1>5. QED
    BY <1>3, <1>4

LEMMA TypeOKStep == IInv /\ [Next]_vars => TypeOK'
PROOF
<1> SUFFICES ASSUME IInv, [Next]_vars PROVE TypeOK'
    OBVIOUS
<1> USE AccountPoolAssumption
<1>1. CASE UNCHANGED vars
    BY <1>1 DEF IInv, TypeOK, vars, procVars, storeVars
<1>2. ASSUME NEW p \in Procs, StartCheck(p)
     PROVE  TypeOK'
  <2>1. /\ pc' \in [Procs -> PCs] /\ op' \in [Procs -> AllOps]
        /\ source' \in [Procs -> {"primary", "snapshot"}]
        /\ gone' \in [Labels -> BOOLEAN]
    <3>1. pc' \in [Procs -> PCs]
        BY <1>2 DEF IInv, TypeOK, StartCheck, ReadAccounts, Goto, PCs, Locked
    <3>2. op' \in [Procs -> AllOps]
        BY <1>2 DEF IInv, TypeOK, StartCheck, Begin, AllOps
    <3>3. source' \in [Procs -> {"primary", "snapshot"}]
        BY <1>2 DEF IInv, TypeOK, StartCheck, ReadAccounts
    <3>4. gone' \in [Labels -> BOOLEAN]
        BY <1>2 DEF IInv, TypeOK, StartCheck, ReadAccounts, NoteReturn
    <3>5. QED
        BY <3>1, <3>2, <3>3, <3>4
  <2>2. todo' \in [Procs -> SUBSET Records]
    BY <1>2, RecordsAreTyped
    DEF IInv, TypeOK, StartCheck, ReadAccounts
  <2>3. QED
    BY <1>2, <2>1, <2>2
    DEF IInv, TypeOK, StartCheck, storeVars
<1>3. ASSUME NEW p \in Procs, RestoreStart(p)
     PROVE  TypeOK'
  <2>1. /\ op' \in [Procs -> AllOps] /\ opsLeft' \in 0..MaxOps
        /\ pc' \in [Procs -> PCs] /\ gone' \in [Labels -> BOOLEAN]
    BY <1>3
    DEF IInv, TypeOK, RestoreStart, BeginOp, Begin, Goto, NoteReturn, AllOps,
        PCs, Locked
  <2>2. todo' \in [Procs -> SUBSET Records]
    BY <1>3, RecordsAreTyped
    DEF IInv, TypeOK, RestoreStart
  <2>3. QED
    BY <1>3, <2>1, <2>2
    DEF IInv, TypeOK, RestoreStart, storeVars
<1>4. ASSUME NEW p \in Procs, NEW r \in todo[p], NextAccount(p, r)
     PROVE  TypeOK'
  <2>1. /\ lock' \in Procs \cup {NoProc}
        /\ todo' \in [Procs -> SUBSET Records] /\ lab' \in [Procs -> Labels]
        /\ cred' \in [Procs -> Creds] /\ pc' \in [Procs -> PCs]
    BY <1>4
    DEF IInv, TypeOK, NextAccount, Acquire, Goto, MaySync, Records, Creds,
        Rows, NoRow, PCs, Locked
  <2>2. QED
    BY <1>4, <2>1
    DEF IInv, TypeOK, NextAccount, storeVars
<1>5. ASSUME NEW p \in Procs, NEW r \in todo[p], SkipAccount(p, r)
     PROVE  TypeOK'
  <2>1. todo' \in [Procs -> SUBSET Records]
    <3>1. todo[p] \ {r} \in SUBSET Records
        BY DEF IInv, TypeOK
    <3>2. QED
        BY <1>5, <3>1 DEF IInv, TypeOK, SkipAccount
  <2>2. QED
    BY <1>5, <2>1
    DEF IInv, TypeOK, SkipAccount, storeVars
<1>6. ASSUME NEW p \in Procs, AbortCheck(p)
     PROVE  TypeOK'
  <2>1. /\ todo' \in [Procs -> SUBSET Records] /\ pc' \in [Procs -> PCs]
        /\ op' \in [Procs -> AllOps]
        /\ source' \in [Procs -> {"primary", "snapshot"}]
    BY <1>6
    DEF IInv, TypeOK, AbortCheck, End, Goto, PCs, Locked, AllOps
  <2>2. QED
    BY <1>6, <2>1
    DEF IInv, TypeOK, AbortCheck, storeVars
<1>7. ASSUME NEW p \in Procs, SetupLock(p)
     PROVE  TypeOK'
  <2>1. /\ lock' \in Procs \cup {NoProc} /\ pc' \in [Procs -> PCs]
    BY <1>7
    DEF IInv, TypeOK, SetupLock, Acquire, Goto, PCs, Locked
  <2>2. QED
    BY <1>7, <2>1
    DEF IInv, TypeOK, SetupLock, storeVars
<1>8. ASSUME NEW p \in Procs, EnableLock(p)
     PROVE  TypeOK'
  <2>1. /\ lock' \in Procs \cup {NoProc} /\ pc' \in [Procs -> PCs]
    BY <1>8
    DEF IInv, TypeOK, EnableLock, Acquire, Goto, PCs, Locked
  <2>2. QED
    BY <1>8, <2>1
    DEF IInv, TypeOK, EnableLock, storeVars
<1>9. ASSUME NEW p \in Procs, ReadFallback(p)
     PROVE  TypeOK'
  <2>1. /\ pc' \in [Procs -> PCs]
        /\ source' \in [Procs -> {"primary", "snapshot"}]
    BY <1>9
    DEF IInv, TypeOK, ReadFallback, Goto, PCs, Locked
  <2>2. todo' \in [Procs -> SUBSET Records]
    BY <1>9, RecordsAreTyped
    DEF IInv, TypeOK, ReadFallback
  <2>3. QED
    BY <1>9, <2>1, <2>2
    DEF IInv, TypeOK, ReadFallback, storeVars
<1>10. ASSUME NEW p \in Procs, EndCheck(p)
     PROVE  TypeOK'
  <2>1. /\ pc' \in [Procs -> PCs] /\ op' \in [Procs -> AllOps]
        /\ source' \in [Procs -> {"primary", "snapshot"}]
    BY <1>10
    DEF IInv, TypeOK, EndCheck, End, Goto, PCs, Locked, AllOps
  <2>2. QED
    BY <1>10, <2>1
    DEF IInv, TypeOK, EndCheck, storeVars
<1>11. ASSUME NEW p \in Procs, Recover(p)
     PROVE  TypeOK'
  <2>1. /\ cred' \in [Procs -> Creds] /\ pc' \in [Procs -> PCs]
        /\ lock' \in Procs \cup {NoProc}
    BY <1>11
    DEF IInv, TypeOK, Recover, Goto, Release, Creds, Records, Rows, NoRow,
        PCs, Locked
  <2>2. QED
    BY <1>11, <2>1
    DEF IInv, TypeOK, Recover, storeVars
<1>12. ASSUME NEW p \in Procs, SyncDelete(p)
     PROVE  TypeOK'
  <2>1. /\ pool' \in [Labels -> Creds] /\ pc' \in [Procs -> PCs]
    BY <1>12
    DEF IInv, TypeOK, SyncDelete, Serve, Goto, Creds, PCs, Locked
  <2>2. QED
    BY <1>12, <2>1
    DEF IInv, TypeOK, SyncDelete, storeVars
<1>13. ASSUME NEW p \in Procs, SyncAdd(p)
     PROVE  TypeOK'
  <2>1. /\ pool' \in [Labels -> Creds] /\ cred' \in [Procs -> Creds]
        /\ pc' \in [Procs -> PCs] /\ op' \in [Procs -> AllOps]
        /\ lock' \in Procs \cup {NoProc}
    BY <1>13
    DEF IInv, TypeOK, SyncAdd, Serve, AfterSync, End, Goto, Release, Creds,
        Records, Rows, NoRow, PCs, Locked, AllOps
  <2>2. QED
    BY <1>13, <2>1
    DEF IInv, TypeOK, SyncAdd, storeVars
<1>14. ASSUME NEW p \in Procs, SyncAddFails(p)
     PROVE  TypeOK'
  <2>1. /\ cred' \in [Procs -> Creds] /\ pc' \in [Procs -> PCs]
        /\ op' \in [Procs -> AllOps] /\ lock' \in Procs \cup {NoProc}
    BY <1>14
    DEF IInv, TypeOK, SyncAddFails, AfterSync, End, Goto, Release, Creds,
        Records, Rows, NoRow, PCs, Locked, AllOps
  <2>2. QED
    BY <1>14, <2>1
    DEF IInv, TypeOK, SyncAddFails, storeVars
<1>15. ASSUME NEW p \in Procs, DisableStatus(p)
     PROVE  TypeOK'
  <2>1. /\ pc' \in [Procs -> PCs] /\ lock' \in Procs \cup {NoProc}
        /\ op' \in [Procs -> AllOps]
    BY <1>15
    DEF IInv, TypeOK, DisableStatus, End, Goto, Release, PCs, Locked, AllOps
  <2>2. QED
    BY <1>15, <2>1
    DEF IInv, TypeOK, DisableStatus, storeVars
<1>16. ASSUME NEW p \in Procs, DisableDrop(p)
     PROVE  TypeOK'
  <2>1. /\ pool' \in [Labels -> Creds] /\ pc' \in [Procs -> PCs]
        /\ op' \in [Procs -> AllOps] /\ lock' \in Procs \cup {NoProc}
        /\ gone' \in [Labels -> BOOLEAN]
    BY <1>16
    DEF IInv, TypeOK, DisableDrop, Serve, End, Goto, Release, NoteGone,
        MayReturn, Creds, PCs, Locked, AllOps
  <2>2. QED
    BY <1>16, <2>1
    DEF IInv, TypeOK, DisableDrop
<1>17. ASSUME NEW p \in Procs, DisableDropFails(p)
     PROVE  TypeOK'
  <2>1. pc' \in [Procs -> PCs]
    BY <1>17
    DEF IInv, TypeOK, DisableDropFails, Goto, PCs, Locked
  <2>2. QED
    BY <1>17, <2>1
    DEF IInv, TypeOK, DisableDropFails, storeVars
<1>18. ASSUME NEW p \in Procs, DisableUndo(p)
     PROVE  TypeOK'
  <2>1. /\ gone' \in [Labels -> BOOLEAN] /\ pc' \in [Procs -> PCs]
        /\ op' \in [Procs -> AllOps] /\ lock' \in Procs \cup {NoProc}
    <3>1. gone' \in [Labels -> BOOLEAN]
        BY <1>18 DEF IInv, TypeOK, DisableUndo, NoteReturn
    <3>2. pc' \in [Procs -> PCs]
        BY <1>18 DEF IInv, TypeOK, DisableUndo, End, Goto, PCs, Locked
    <3>3. op' \in [Procs -> AllOps]
        BY <1>18 DEF IInv, TypeOK, DisableUndo, End, AllOps
    <3>4. lock' \in Procs \cup {NoProc}
        BY <1>18 DEF DisableUndo, Release
    <3>5. QED
        BY <3>1, <3>2, <3>3, <3>4
  <2>2. row' \in [Labels -> Rows]
    BY <1>18, SwitchedRows
    DEF IInv, TypeOK, DisableUndo, NoteReturn, End, Goto, Release
  <2>3. QED
    BY <1>18, <2>1, <2>2
    DEF IInv, TypeOK, DisableUndo
<1>19. ASSUME NEW p \in Procs, EnableSet(p)
     PROVE  TypeOK'
  <2>1. /\ pc' \in [Procs -> PCs] /\ lock' \in Procs \cup {NoProc}
    BY <1>19
    DEF IInv, TypeOK, EnableSet, SetEnabled, Goto, Release, PCs, Locked
  <2>2. row' \in [Labels -> Rows]
    BY <1>19, SwitchedRows
    DEF IInv, TypeOK, EnableSet, Goto, Release
  <2>3. QED
    BY <1>19, <2>1, <2>2
    DEF IInv, TypeOK, EnableSet
<1>20. ASSUME NEW p \in Procs, EnableStatus(p)
     PROVE  TypeOK'
  <2>1. /\ pc' \in [Procs -> PCs] /\ op' \in [Procs -> AllOps]
        /\ lock' \in Procs \cup {NoProc}
    BY <1>20
    DEF IInv, TypeOK, EnableStatus, End, Goto, Release, PCs, Locked, AllOps
  <2>2. QED
    BY <1>20, <2>1
    DEF IInv, TypeOK, EnableStatus, storeVars
<1>21. ASSUME NEW p \in Procs, EnableUndo(p)
     PROVE  TypeOK'
  <2>1. /\ pc' \in [Procs -> PCs] /\ op' \in [Procs -> AllOps]
    BY <1>21
    DEF IInv, TypeOK, EnableUndo, SetEnabled, End, Goto, PCs, Locked, AllOps
  <2>2. row' \in [Labels -> Rows]
    BY <1>21, SwitchedRows
    DEF IInv, TypeOK, EnableUndo, End, Goto
  <2>3. QED
    BY <1>21, <2>1, <2>2
    DEF IInv, TypeOK, EnableUndo
<1>22. ASSUME NEW p \in Procs, DeleteRow(p)
     PROVE  TypeOK'
  <2>1. /\ row' \in [Labels -> Rows] /\ gone' \in [Labels -> BOOLEAN]
        /\ pc' \in [Procs -> PCs] /\ op' \in [Procs -> AllOps]
        /\ lock' \in Procs \cup {NoProc}
    BY <1>22
    DEF IInv, TypeOK, DeleteRow, NoteGone, MayReturn, End, Goto, Release,
        Rows, NoRow, Row, Creds, Records, PCs, Locked, AllOps
  <2>2. QED
    BY <1>22, <2>1
    DEF IInv, TypeOK, DeleteRow
<1>23. ASSUME NEW p \in Procs, NEW r \in todo[p], RestoreRow(p, r)
     PROVE  TypeOK'
  <2>1. todo' \in [Procs -> SUBSET Records]
    BY <1>23
    DEF IInv, TypeOK, RestoreRow
  <2>2. row' \in [Labels -> Rows]
    <3>1. r \in Records
        BY DEF IInv, TypeOK
    <3>2. r.label \in Labels /\ Row(r.enabled, r.cred) \in Rows
        BY <3>1, RowsAreTyped DEF Records
    <3>3. QED
        BY <1>23, <3>2 DEF IInv, TypeOK, RestoreRow
  <2>3. QED
    BY <1>23, <2>1, <2>2
    DEF IInv, TypeOK, RestoreRow
<1>24. ASSUME NEW p \in Procs, RestoreFails(p)
     PROVE  TypeOK'
  <2>1. /\ todo' \in [Procs -> SUBSET Records] /\ pc' \in [Procs -> PCs]
        /\ op' \in [Procs -> AllOps]
    BY <1>24
    DEF IInv, TypeOK, RestoreFails, End, Goto, PCs, Locked, AllOps
  <2>2. QED
    BY <1>24, <2>1
    DEF IInv, TypeOK, RestoreFails, storeVars
<1>25. ASSUME NEW p \in Procs, RestoreCheck(p)
     PROVE  TypeOK'
  <2>1. /\ pc' \in [Procs -> PCs]
        /\ source' \in [Procs -> {"primary", "snapshot"}]
        /\ gone' \in [Labels -> BOOLEAN] /\ op' \in [Procs -> AllOps]
    <3>1. pc' \in [Procs -> PCs]
        BY <1>25 DEF IInv, TypeOK, RestoreCheck, ReadAccounts, Goto, PCs, Locked
    <3>2. op' \in [Procs -> AllOps]
        BY <1>25 DEF IInv, TypeOK, RestoreCheck, AllOps
    <3>3. source' \in [Procs -> {"primary", "snapshot"}]
        BY <1>25 DEF IInv, TypeOK, RestoreCheck, ReadAccounts
    <3>4. gone' \in [Labels -> BOOLEAN]
        BY <1>25 DEF IInv, TypeOK, RestoreCheck, ReadAccounts, NoteReturn
    <3>5. QED
        BY <3>1, <3>2, <3>3, <3>4
  <2>2. todo' \in [Procs -> SUBSET Records]
    BY <1>25, RecordsAreTyped
    DEF IInv, TypeOK, RestoreCheck, ReadAccounts
  <2>3. QED
    BY <1>25, <2>1, <2>2
    DEF IInv, TypeOK, RestoreCheck, storeVars
<1>26. ASSUME NEW p \in Procs, NEW l \in Labels, NEW en \in BOOLEAN, SetupUpsert(p, l, en)
     PROVE  TypeOK'
  <2>1. /\ issued' \in [Labels -> Creds] /\ lab' \in [Procs -> Labels]
        /\ cred' \in [Procs -> Creds] /\ pc' \in [Procs -> PCs]
        /\ gone' \in [Labels -> BOOLEAN] /\ op' \in [Procs -> AllOps]
        /\ opsLeft' \in 0..MaxOps
    BY <1>26
    DEF IInv, TypeOK, SetupUpsert, BeginOp, Begin, Goto, NoteReturn, Creds,
        Records, Rows, NoRow, PCs, Locked, AllOps
  <2>2. row' \in [Labels -> Rows]
    <3>1. issued[l] \in Nat /\ issued[l] < MaxCred /\ issued[l] + 1 \in Creds
        BY <1>26 DEF IInv, TypeOK, SetupUpsert, Creds
    <3>2. Row(en, issued[l] + 1) \in Rows
        BY <3>1, RowsAreTyped
    <3>3. QED
        BY <1>26, <3>2 DEF IInv, TypeOK, SetupUpsert
  <2>3. QED
    BY <1>26, <2>1, <2>2
    DEF IInv, TypeOK, SetupUpsert
<1>27. ASSUME NEW p \in Procs, NEW l \in Labels, DisableRow(p, l)
     PROVE  TypeOK'
  <2>1. /\ op' \in [Procs -> AllOps] /\ opsLeft' \in 0..MaxOps
        /\ lock' \in Procs \cup {NoProc} /\ lab' \in [Procs -> Labels]
        /\ pc' \in [Procs -> PCs]
    BY <1>27
    DEF IInv, TypeOK, DisableRow, BeginOp, Begin, Acquire, SetEnabled, Goto,
        AllOps, Records, PCs, Locked
  <2>2. row' \in [Labels -> Rows]
    BY <1>27, SwitchedRows
    DEF IInv, TypeOK, DisableRow, BeginOp, Begin, Acquire, Goto
  <2>3. QED
    BY <1>27, <2>1, <2>2
    DEF IInv, TypeOK, DisableRow
<1>28. ASSUME NEW p \in Procs, NEW l \in Labels, EnableRead(p, l)
     PROVE  TypeOK'
  <2>1. /\ op' \in [Procs -> AllOps] /\ opsLeft' \in 0..MaxOps
        /\ lab' \in [Procs -> Labels] /\ pc' \in [Procs -> PCs]
        /\ gone' \in [Labels -> BOOLEAN]
    BY <1>28
    DEF IInv, TypeOK, EnableRead, BeginOp, Begin, Goto, NoteReturn, AllOps,
        Records, PCs, Locked
  <2>2. cred' \in [Procs -> Creds]
    BY <1>28, RowsAreTyped
    DEF IInv, TypeOK, EnableRead
  <2>3. QED
    BY <1>28, <2>1, <2>2
    DEF IInv, TypeOK, EnableRead, storeVars
<1>29. ASSUME NEW p \in Procs, NEW l \in Labels, DeleteDrop(p, l)
     PROVE  TypeOK'
  <2>1. /\ op' \in [Procs -> AllOps] /\ opsLeft' \in 0..MaxOps
        /\ lock' \in Procs \cup {NoProc} /\ pool' \in [Labels -> Creds]
        /\ lab' \in [Procs -> Labels] /\ pc' \in [Procs -> PCs]
    BY <1>29
    DEF IInv, TypeOK, DeleteDrop, BeginOp, Begin, Acquire, Serve, Goto,
        AllOps, Creds, Records, PCs, Locked
  <2>2. QED
    BY <1>29, <2>1
    DEF IInv, TypeOK, DeleteDrop, storeVars
<1>30. CASE StoreFails
  <2>1. outagesLeft' \in 0..MaxOutages
    BY <1>30
    DEF IInv, TypeOK, StoreFails
  <2>2. storeUp' \in BOOLEAN
    BY <1>30
    DEF IInv, TypeOK, StoreFails
  <2>3. QED
    BY <1>30, <2>1, <2>2
    DEF IInv, TypeOK, StoreFails, procVars
<1>31. CASE StoreReturns
  <2>1. storeUp' \in BOOLEAN
    BY <1>31
    DEF IInv, TypeOK, StoreReturns
  <2>2. QED
    BY <1>31, <2>1
    DEF IInv, TypeOK, StoreReturns, procVars
<1>32. CASE BackupRun
  <2>1. snap' \in [Labels -> Rows]
    BY <1>32
    DEF IInv, TypeOK, BackupRun
  <2>2. copy' \in [Labels -> Creds]
    BY <1>32, RowsAreTyped
    DEF IInv, TypeOK, BackupRun
  <2>3. QED
    BY <1>32, <2>1, <2>2
    DEF IInv, TypeOK, BackupRun, procVars
<1>33. ASSUME NEW l \in Labels, CorruptRow(l)
     PROVE  TypeOK'
  <2>1. row' \in [Labels -> Rows]
    <3>1. 0 \in Creds /\ row[l] \in Rows /\ row[l] # NoRow
        BY <1>33 DEF IInv, TypeOK, CorruptRow, Creds, NoRow
    <3>2. [row[l] EXCEPT !.cred = 0] \in Rows
        BY <3>1 DEF Rows
    <3>3. row' = [row EXCEPT ![l] = [row[l] EXCEPT !.cred = 0]]
        BY <1>33 DEF CorruptRow
    <3>4. QED
        BY <3>2, <3>3 DEF IInv, TypeOK
  <2>2. QED
    BY <1>33, <2>1
    DEF IInv, TypeOK, CorruptRow, procVars
<1>34. QED
    BY <1>1, <1>2, <1>3, <1>4, <1>5, <1>6, <1>7, <1>8, <1>9, <1>10, <1>11,
        <1>12, <1>13, <1>14, <1>15, <1>16, <1>17, <1>18, <1>19, <1>20, <1>21,
        <1>22, <1>23, <1>24, <1>25, <1>26, <1>27, <1>28, <1>29, <1>30, <1>31,
        <1>32, <1>33
    DEF Next, LockStep, FreeStep, Request

LEMMA LockIsHeldStep == IInv /\ [Next]_vars => LockIsHeld'
PROOF
<1> SUFFICES ASSUME IInv, [Next]_vars PROVE LockIsHeld'
    OBVIOUS
<1> USE AccountPoolAssumption
<1>1. CASE UNCHANGED <<lock, pc>>
    BY <1>1 DEF IInv, TypeOK, LockIsHeld, Locked
<1>2. ASSUME NEW p \in Procs, StartCheck(p)
     PROVE  LockIsHeld'
    BY <1>2
    DEF IInv, TypeOK, LockIsHeld, Locked, StartCheck, Begin, ReadAccounts,
        Goto, NoteReturn
<1>3. ASSUME NEW p \in Procs, RestoreStart(p)
     PROVE  LockIsHeld'
    BY <1>3
    DEF IInv, TypeOK, LockIsHeld, Locked, RestoreStart, BeginOp, Begin, Goto,
        NoteReturn
<1>4. ASSUME NEW p \in Procs, NEW r \in todo[p], NextAccount(p, r)
     PROVE  LockIsHeld'
    BY <1>4
    DEF IInv, TypeOK, LockIsHeld, Locked, NextAccount, Acquire, Goto, MaySync
<1>5. ASSUME NEW p \in Procs, AbortCheck(p)
     PROVE  LockIsHeld'
    BY <1>5
    DEF IInv, TypeOK, LockIsHeld, Locked, AbortCheck, End, Goto
<1>6. ASSUME NEW p \in Procs, SetupLock(p)
     PROVE  LockIsHeld'
    BY <1>6
    DEF IInv, TypeOK, LockIsHeld, Locked, SetupLock, Acquire, Goto
<1>7. ASSUME NEW p \in Procs, EnableLock(p)
     PROVE  LockIsHeld'
    BY <1>7
    DEF IInv, TypeOK, LockIsHeld, Locked, EnableLock, Acquire, Goto
<1>8. ASSUME NEW p \in Procs, ReadFallback(p)
     PROVE  LockIsHeld'
    BY <1>8
    DEF IInv, TypeOK, LockIsHeld, Locked, ReadFallback, Goto
<1>9. ASSUME NEW p \in Procs, EndCheck(p)
     PROVE  LockIsHeld'
    BY <1>9
    DEF IInv, TypeOK, LockIsHeld, Locked, EndCheck, End, Goto
<1>10. ASSUME NEW p \in Procs, Recover(p)
     PROVE  LockIsHeld'
    BY <1>10
    DEF IInv, TypeOK, LockIsHeld, Locked, Recover, Goto, Release
<1>11. ASSUME NEW p \in Procs, SyncDelete(p)
     PROVE  LockIsHeld'
    BY <1>11
    DEF IInv, TypeOK, LockIsHeld, Locked, SyncDelete, Serve, Goto
<1>12. ASSUME NEW p \in Procs, SyncAdd(p)
     PROVE  LockIsHeld'
    BY <1>12
    DEF IInv, TypeOK, LockIsHeld, Locked, SyncAdd, Serve, AfterSync, End,
        Goto, Release
<1>13. ASSUME NEW p \in Procs, SyncAddFails(p)
     PROVE  LockIsHeld'
    BY <1>13
    DEF IInv, TypeOK, LockIsHeld, Locked, SyncAddFails, AfterSync, End, Goto,
        Release
<1>14. ASSUME NEW p \in Procs, DisableStatus(p)
     PROVE  LockIsHeld'
    BY <1>14
    DEF IInv, TypeOK, LockIsHeld, Locked, DisableStatus, End, Goto, Release
<1>15. ASSUME NEW p \in Procs, DisableDrop(p)
     PROVE  LockIsHeld'
    BY <1>15
    DEF IInv, TypeOK, LockIsHeld, Locked, DisableDrop, Serve, End, Goto,
        Release, NoteGone, MayReturn
<1>16. ASSUME NEW p \in Procs, DisableDropFails(p)
     PROVE  LockIsHeld'
    BY <1>16
    DEF IInv, TypeOK, LockIsHeld, Locked, DisableDropFails, Goto
<1>17. ASSUME NEW p \in Procs, DisableUndo(p)
     PROVE  LockIsHeld'
    BY <1>17
    DEF IInv, TypeOK, LockIsHeld, Locked, DisableUndo, SetEnabled, NoteReturn,
        End, Goto, Release
<1>18. ASSUME NEW p \in Procs, EnableSet(p)
     PROVE  LockIsHeld'
    BY <1>18
    DEF IInv, TypeOK, LockIsHeld, Locked, EnableSet, SetEnabled, Goto, Release
<1>19. ASSUME NEW p \in Procs, EnableStatus(p)
     PROVE  LockIsHeld'
    BY <1>19
    DEF IInv, TypeOK, LockIsHeld, Locked, EnableStatus, End, Goto, Release
<1>20. ASSUME NEW p \in Procs, EnableUndo(p)
     PROVE  LockIsHeld'
    BY <1>20
    DEF IInv, TypeOK, LockIsHeld, Locked, EnableUndo, SetEnabled, End, Goto
<1>21. ASSUME NEW p \in Procs, DeleteRow(p)
     PROVE  LockIsHeld'
    BY <1>21
    DEF IInv, TypeOK, LockIsHeld, Locked, DeleteRow, NoteGone, MayReturn, End,
        Goto, Release
<1>22. ASSUME NEW p \in Procs, RestoreFails(p)
     PROVE  LockIsHeld'
    BY <1>22
    DEF IInv, TypeOK, LockIsHeld, Locked, RestoreFails, End, Goto
<1>23. ASSUME NEW p \in Procs, RestoreCheck(p)
     PROVE  LockIsHeld'
    BY <1>23
    DEF IInv, TypeOK, LockIsHeld, Locked, RestoreCheck, ReadAccounts, Goto,
        NoteReturn
<1>24. ASSUME NEW p \in Procs, NEW l \in Labels, NEW en \in BOOLEAN, SetupUpsert(p, l, en)
     PROVE  LockIsHeld'
    BY <1>24
    DEF IInv, TypeOK, LockIsHeld, Locked, SetupUpsert, BeginOp, Begin, Goto,
        NoteReturn
<1>25. ASSUME NEW p \in Procs, NEW l \in Labels, DisableRow(p, l)
     PROVE  LockIsHeld'
    BY <1>25
    DEF IInv, TypeOK, LockIsHeld, Locked, DisableRow, BeginOp, Begin, Acquire,
        SetEnabled, Goto
<1>26. ASSUME NEW p \in Procs, NEW l \in Labels, EnableRead(p, l)
     PROVE  LockIsHeld'
    BY <1>26
    DEF IInv, TypeOK, LockIsHeld, Locked, EnableRead, BeginOp, Begin, Goto,
        NoteReturn
<1>27. ASSUME NEW p \in Procs, NEW l \in Labels, DeleteDrop(p, l)
     PROVE  LockIsHeld'
    BY <1>27
    DEF IInv, TypeOK, LockIsHeld, Locked, DeleteDrop, BeginOp, Begin, Acquire,
        Serve, Goto
<1>28. QED
    BY <1>1, <1>2, <1>3, <1>4, <1>5, <1>6, <1>7, <1>8, <1>9, <1>10, <1>11,
        <1>12, <1>13, <1>14, <1>15, <1>16, <1>17, <1>18, <1>19, <1>20, <1>21,
        <1>22, <1>23, <1>24, <1>25, <1>26, <1>27
    DEF Next, LockStep, FreeStep, Request, vars, SkipAccount, RestoreRow,
        StoreFails, StoreReturns, BackupRun, CorruptRow, procVars, storeVars

LEMMA OpsMatchStep == IInv /\ [Next]_vars => OpsMatch'
PROOF
<1> SUFFICES ASSUME IInv, [Next]_vars PROVE OpsMatch'
    OBVIOUS
<1> USE AccountPoolAssumption
<1>1. CASE UNCHANGED <<pc, op>>
    BY <1>1 DEF IInv, TypeOK, OpsMatch
<1>2. ASSUME NEW p \in Procs, StartCheck(p)
     PROVE  OpsMatch'
    BY <1>2
    DEF IInv, TypeOK, OpsMatch, StartCheck, Begin, ReadAccounts, Goto,
        NoteReturn
<1>3. ASSUME NEW p \in Procs, RestoreStart(p)
     PROVE  OpsMatch'
    BY <1>3
    DEF IInv, TypeOK, OpsMatch, RestoreStart, BeginOp, Begin, Goto, NoteReturn
<1>4. ASSUME NEW p \in Procs, NEW r \in todo[p], NextAccount(p, r)
     PROVE  OpsMatch'
    BY <1>4
    DEF IInv, TypeOK, OpsMatch, NextAccount, Acquire, Goto, MaySync
<1>5. ASSUME NEW p \in Procs, AbortCheck(p)
     PROVE  OpsMatch'
    BY <1>5
    DEF IInv, TypeOK, OpsMatch, AbortCheck, End, Goto
<1>6. ASSUME NEW p \in Procs, SetupLock(p)
     PROVE  OpsMatch'
    BY <1>6
    DEF IInv, TypeOK, OpsMatch, SetupLock, Acquire, Goto
<1>7. ASSUME NEW p \in Procs, EnableLock(p)
     PROVE  OpsMatch'
    BY <1>7
    DEF IInv, TypeOK, OpsMatch, EnableLock, Acquire, Goto
<1>8. ASSUME NEW p \in Procs, ReadFallback(p)
     PROVE  OpsMatch'
    BY <1>8
    DEF IInv, TypeOK, OpsMatch, ReadFallback, Goto
<1>9. ASSUME NEW p \in Procs, EndCheck(p)
     PROVE  OpsMatch'
    BY <1>9
    DEF IInv, TypeOK, OpsMatch, EndCheck, End, Goto
<1>10. ASSUME NEW p \in Procs, Recover(p)
     PROVE  OpsMatch'
    BY <1>10
    DEF IInv, TypeOK, OpsMatch, Recover, Goto, Release
<1>11. ASSUME NEW p \in Procs, SyncDelete(p)
     PROVE  OpsMatch'
    BY <1>11
    DEF IInv, TypeOK, OpsMatch, SyncDelete, Serve, Goto
<1>12. ASSUME NEW p \in Procs, SyncAdd(p)
     PROVE  OpsMatch'
    BY <1>12
    DEF IInv, TypeOK, OpsMatch, SyncAdd, Serve, AfterSync, End, Goto, Release
<1>13. ASSUME NEW p \in Procs, SyncAddFails(p)
     PROVE  OpsMatch'
    BY <1>13
    DEF IInv, TypeOK, OpsMatch, SyncAddFails, AfterSync, End, Goto, Release
<1>14. ASSUME NEW p \in Procs, DisableStatus(p)
     PROVE  OpsMatch'
    BY <1>14
    DEF IInv, TypeOK, OpsMatch, DisableStatus, End, Goto, Release
<1>15. ASSUME NEW p \in Procs, DisableDrop(p)
     PROVE  OpsMatch'
    BY <1>15
    DEF IInv, TypeOK, OpsMatch, DisableDrop, Serve, End, Goto, Release,
        NoteGone, MayReturn
<1>16. ASSUME NEW p \in Procs, DisableDropFails(p)
     PROVE  OpsMatch'
    BY <1>16
    DEF IInv, TypeOK, OpsMatch, DisableDropFails, Goto
<1>17. ASSUME NEW p \in Procs, DisableUndo(p)
     PROVE  OpsMatch'
    BY <1>17
    DEF IInv, TypeOK, OpsMatch, DisableUndo, SetEnabled, NoteReturn, End,
        Goto, Release
<1>18. ASSUME NEW p \in Procs, EnableSet(p)
     PROVE  OpsMatch'
    BY <1>18
    DEF IInv, TypeOK, OpsMatch, EnableSet, SetEnabled, Goto, Release
<1>19. ASSUME NEW p \in Procs, EnableStatus(p)
     PROVE  OpsMatch'
    BY <1>19
    DEF IInv, TypeOK, OpsMatch, EnableStatus, End, Goto, Release
<1>20. ASSUME NEW p \in Procs, EnableUndo(p)
     PROVE  OpsMatch'
    BY <1>20
    DEF IInv, TypeOK, OpsMatch, EnableUndo, SetEnabled, End, Goto
<1>21. ASSUME NEW p \in Procs, DeleteRow(p)
     PROVE  OpsMatch'
    BY <1>21
    DEF IInv, TypeOK, OpsMatch, DeleteRow, NoteGone, MayReturn, End, Goto,
        Release
<1>22. ASSUME NEW p \in Procs, RestoreFails(p)
     PROVE  OpsMatch'
    BY <1>22
    DEF IInv, TypeOK, OpsMatch, RestoreFails, End, Goto
<1>23. ASSUME NEW p \in Procs, RestoreCheck(p)
     PROVE  OpsMatch'
    BY <1>23
    DEF IInv, TypeOK, OpsMatch, RestoreCheck, ReadAccounts, Goto, NoteReturn
<1>24. ASSUME NEW p \in Procs, NEW l \in Labels, NEW en \in BOOLEAN, SetupUpsert(p, l, en)
     PROVE  OpsMatch'
    BY <1>24
    DEF IInv, TypeOK, OpsMatch, SetupUpsert, BeginOp, Begin, Goto, NoteReturn
<1>25. ASSUME NEW p \in Procs, NEW l \in Labels, DisableRow(p, l)
     PROVE  OpsMatch'
    BY <1>25
    DEF IInv, TypeOK, OpsMatch, DisableRow, BeginOp, Begin, Acquire,
        SetEnabled, Goto
<1>26. ASSUME NEW p \in Procs, NEW l \in Labels, EnableRead(p, l)
     PROVE  OpsMatch'
    BY <1>26
    DEF IInv, TypeOK, OpsMatch, EnableRead, BeginOp, Begin, Goto, NoteReturn
<1>27. ASSUME NEW p \in Procs, NEW l \in Labels, DeleteDrop(p, l)
     PROVE  OpsMatch'
    BY <1>27
    DEF IInv, TypeOK, OpsMatch, DeleteDrop, BeginOp, Begin, Acquire, Serve,
        Goto
<1>28. QED
    BY <1>1, <1>2, <1>3, <1>4, <1>5, <1>6, <1>7, <1>8, <1>9, <1>10, <1>11,
        <1>12, <1>13, <1>14, <1>15, <1>16, <1>17, <1>18, <1>19, <1>20, <1>21,
        <1>22, <1>23, <1>24, <1>25, <1>26, <1>27
    DEF Next, LockStep, FreeStep, Request, vars, SkipAccount, RestoreRow,
        StoreFails, StoreReturns, BackupRun, CorruptRow, procVars, storeVars

LEMMA DeletedIsOutStep == IInv /\ [Next]_vars => DeletedIsOut'
PROOF
<1> SUFFICES ASSUME IInv, [Next]_vars PROVE DeletedIsOut'
    OBVIOUS
<1> USE AccountPoolAssumption
<1>1. CASE UNCHANGED <<pool, pc, lab>>
    BY <1>1 DEF IInv, TypeOK, LockIsHeld, Locked, DeletedIsOut
<1>2. ASSUME NEW p \in Procs, StartCheck(p)
     PROVE  DeletedIsOut'
    BY <1>2
    DEF IInv, TypeOK, LockIsHeld, Locked, DeletedIsOut, StartCheck, Begin,
        ReadAccounts, Goto, NoteReturn
<1>3. ASSUME NEW p \in Procs, RestoreStart(p)
     PROVE  DeletedIsOut'
    BY <1>3
    DEF IInv, TypeOK, LockIsHeld, Locked, DeletedIsOut, RestoreStart, BeginOp,
        Begin, Goto, NoteReturn
<1>4. ASSUME NEW p \in Procs, NEW r \in todo[p], NextAccount(p, r)
     PROVE  DeletedIsOut'
    BY <1>4
    DEF IInv, TypeOK, LockIsHeld, Locked, DeletedIsOut, NextAccount, Acquire,
        Goto, MaySync
<1>5. ASSUME NEW p \in Procs, AbortCheck(p)
     PROVE  DeletedIsOut'
    BY <1>5
    DEF IInv, TypeOK, LockIsHeld, Locked, DeletedIsOut, AbortCheck, End, Goto
<1>6. ASSUME NEW p \in Procs, SetupLock(p)
     PROVE  DeletedIsOut'
    BY <1>6
    DEF IInv, TypeOK, LockIsHeld, Locked, DeletedIsOut, SetupLock, Acquire,
        Goto
<1>7. ASSUME NEW p \in Procs, EnableLock(p)
     PROVE  DeletedIsOut'
    BY <1>7
    DEF IInv, TypeOK, LockIsHeld, Locked, DeletedIsOut, EnableLock, Acquire,
        Goto
<1>8. ASSUME NEW p \in Procs, ReadFallback(p)
     PROVE  DeletedIsOut'
    BY <1>8
    DEF IInv, TypeOK, LockIsHeld, Locked, DeletedIsOut, ReadFallback, Goto
<1>9. ASSUME NEW p \in Procs, EndCheck(p)
     PROVE  DeletedIsOut'
    BY <1>9
    DEF IInv, TypeOK, LockIsHeld, Locked, DeletedIsOut, EndCheck, End, Goto
<1>10. ASSUME NEW p \in Procs, Recover(p)
     PROVE  DeletedIsOut'
    BY <1>10
    DEF IInv, TypeOK, LockIsHeld, Locked, DeletedIsOut, Recover, Goto, Release
<1>11. ASSUME NEW p \in Procs, SyncDelete(p)
     PROVE  DeletedIsOut'
    BY <1>11
    DEF IInv, TypeOK, LockIsHeld, Locked, DeletedIsOut, SyncDelete, Serve,
        Goto
<1>12. ASSUME NEW p \in Procs, SyncAdd(p)
     PROVE  DeletedIsOut'
    BY <1>12
    DEF IInv, TypeOK, LockIsHeld, Locked, DeletedIsOut, SyncAdd, Serve,
        AfterSync, End, Goto, Release
<1>13. ASSUME NEW p \in Procs, SyncAddFails(p)
     PROVE  DeletedIsOut'
    BY <1>13
    DEF IInv, TypeOK, LockIsHeld, Locked, DeletedIsOut, SyncAddFails,
        AfterSync, End, Goto, Release
<1>14. ASSUME NEW p \in Procs, DisableStatus(p)
     PROVE  DeletedIsOut'
    BY <1>14
    DEF IInv, TypeOK, LockIsHeld, Locked, DeletedIsOut, DisableStatus, End,
        Goto, Release
<1>15. ASSUME NEW p \in Procs, DisableDrop(p)
     PROVE  DeletedIsOut'
    BY <1>15
    DEF IInv, TypeOK, LockIsHeld, Locked, DeletedIsOut, DisableDrop, Serve,
        End, Goto, Release, NoteGone, MayReturn
<1>16. ASSUME NEW p \in Procs, DisableDropFails(p)
     PROVE  DeletedIsOut'
    BY <1>16
    DEF IInv, TypeOK, LockIsHeld, Locked, DeletedIsOut, DisableDropFails, Goto
<1>17. ASSUME NEW p \in Procs, DisableUndo(p)
     PROVE  DeletedIsOut'
    BY <1>17
    DEF IInv, TypeOK, LockIsHeld, Locked, DeletedIsOut, DisableUndo,
        SetEnabled, NoteReturn, End, Goto, Release
<1>18. ASSUME NEW p \in Procs, EnableSet(p)
     PROVE  DeletedIsOut'
    BY <1>18
    DEF IInv, TypeOK, LockIsHeld, Locked, DeletedIsOut, EnableSet, SetEnabled,
        Goto, Release
<1>19. ASSUME NEW p \in Procs, EnableStatus(p)
     PROVE  DeletedIsOut'
    BY <1>19
    DEF IInv, TypeOK, LockIsHeld, Locked, DeletedIsOut, EnableStatus, End,
        Goto, Release
<1>20. ASSUME NEW p \in Procs, EnableUndo(p)
     PROVE  DeletedIsOut'
    BY <1>20
    DEF IInv, TypeOK, LockIsHeld, Locked, DeletedIsOut, EnableUndo,
        SetEnabled, End, Goto
<1>21. ASSUME NEW p \in Procs, DeleteRow(p)
     PROVE  DeletedIsOut'
    BY <1>21
    DEF IInv, TypeOK, LockIsHeld, Locked, DeletedIsOut, DeleteRow, NoteGone,
        MayReturn, End, Goto, Release
<1>22. ASSUME NEW p \in Procs, RestoreFails(p)
     PROVE  DeletedIsOut'
    BY <1>22
    DEF IInv, TypeOK, LockIsHeld, Locked, DeletedIsOut, RestoreFails, End,
        Goto
<1>23. ASSUME NEW p \in Procs, RestoreCheck(p)
     PROVE  DeletedIsOut'
    BY <1>23
    DEF IInv, TypeOK, LockIsHeld, Locked, DeletedIsOut, RestoreCheck,
        ReadAccounts, Goto, NoteReturn
<1>24. ASSUME NEW p \in Procs, NEW l \in Labels, NEW en \in BOOLEAN, SetupUpsert(p, l, en)
     PROVE  DeletedIsOut'
    BY <1>24
    DEF IInv, TypeOK, LockIsHeld, Locked, DeletedIsOut, SetupUpsert, BeginOp,
        Begin, Goto, NoteReturn
<1>25. ASSUME NEW p \in Procs, NEW l \in Labels, DisableRow(p, l)
     PROVE  DeletedIsOut'
    BY <1>25
    DEF IInv, TypeOK, LockIsHeld, Locked, DeletedIsOut, DisableRow, BeginOp,
        Begin, Acquire, SetEnabled, Goto
<1>26. ASSUME NEW p \in Procs, NEW l \in Labels, EnableRead(p, l)
     PROVE  DeletedIsOut'
    BY <1>26
    DEF IInv, TypeOK, LockIsHeld, Locked, DeletedIsOut, EnableRead, BeginOp,
        Begin, Goto, NoteReturn
<1>27. ASSUME NEW p \in Procs, NEW l \in Labels, DeleteDrop(p, l)
     PROVE  DeletedIsOut'
    BY <1>27
    DEF IInv, TypeOK, LockIsHeld, Locked, DeletedIsOut, DeleteDrop, BeginOp,
        Begin, Acquire, Serve, Goto
<1>28. QED
    BY <1>1, <1>2, <1>3, <1>4, <1>5, <1>6, <1>7, <1>8, <1>9, <1>10, <1>11,
        <1>12, <1>13, <1>14, <1>15, <1>16, <1>17, <1>18, <1>19, <1>20, <1>21,
        <1>22, <1>23, <1>24, <1>25, <1>26, <1>27
    DEF Next, LockStep, FreeStep, Request, vars, SkipAccount, RestoreRow,
        StoreFails, StoreReturns, BackupRun, CorruptRow, procVars, storeVars

LEMMA GoneMeansStep == IInv /\ [Next]_vars => GoneMeans'
PROOF
<1> SUFFICES ASSUME IInv, [Next]_vars PROVE GoneMeans'
    OBVIOUS
<1> USE AccountPoolAssumption
<1>1. CASE UNCHANGED <<row, pool, pc, op, lab, todo, source, gone>>
    BY <1>1 DEF IInv, TypeOK, OpsMatch, GoneMeans, Returning
<1>2. ASSUME NEW p \in Procs, StartCheck(p)
     PROVE  GoneMeans'
  <2> SUFFICES ASSUME NEW k \in Labels, gone'[k]
               PROVE  /\ pool'[k] = 0 /\ ~row'[k].enabled
                      /\ \A q \in Procs : ~Returning(q, k)'
    BY DEF GoneMeans
  <2>1. gone[k] /\ pc'[p] = "loop" /\ source'[p] = "primary"
    BY <1>2 DEF IInv, TypeOK, StartCheck, Begin, ReadAccounts, Goto, NoteReturn
  <2>2. ~Returning(p, k)'
    BY <1>2, <2>1 DEF IInv, TypeOK, OpsMatch, GoneMeans, Returning, StartCheck, Begin, ReadAccounts, Goto
  <2>3. \A q \in Procs \ {p} : ~Returning(q, k)'
    BY <1>2, <2>1 DEF IInv, TypeOK, GoneMeans, Returning, StartCheck, Begin, ReadAccounts, Goto
  <2>4. QED
    BY <1>2, <2>1, <2>2, <2>3 DEF IInv, TypeOK, GoneMeans, StartCheck, storeVars
<1>3. ASSUME NEW p \in Procs, RestoreStart(p)
     PROVE  GoneMeans'
  <2> SUFFICES ASSUME NEW k \in Labels, gone'[k]
               PROVE  /\ pool'[k] = 0 /\ ~row'[k].enabled
                      /\ \A q \in Procs : ~Returning(q, k)'
    BY DEF GoneMeans
  <2>1. gone[k] /\ k \notin Accounts(snap)
    BY <1>3 DEF IInv, TypeOK, RestoreStart, NoteReturn
  <2>2. ~Returning(p, k)'
    BY <1>3, <2>1 DEF IInv, TypeOK, OpsMatch, GoneMeans, Returning, RestoreStart, BeginOp,
        Begin, Goto, Record
  <2>3. \A q \in Procs \ {p} : ~Returning(q, k)'
    BY <1>3, <2>1 DEF IInv, TypeOK, GoneMeans, Returning, RestoreStart, BeginOp, Begin, Goto
  <2>4. QED
    BY <1>3, <2>1, <2>2, <2>3 DEF IInv, TypeOK, GoneMeans, RestoreStart, storeVars
<1>4. ASSUME NEW p \in Procs, NEW r \in todo[p], NextAccount(p, r)
     PROVE  GoneMeans'
    BY <1>4
    DEF IInv, TypeOK, OpsMatch, GoneMeans, Returning, NextAccount, Acquire,
        Goto, MaySync, storeVars
<1>5. ASSUME NEW p \in Procs, NEW r \in todo[p], SkipAccount(p, r)
     PROVE  GoneMeans'
    BY <1>5
    DEF IInv, TypeOK, OpsMatch, GoneMeans, Returning, SkipAccount, storeVars
<1>6. ASSUME NEW p \in Procs, AbortCheck(p)
     PROVE  GoneMeans'
    BY <1>6
    DEF IInv, TypeOK, OpsMatch, GoneMeans, Returning, AbortCheck, End, Goto,
        storeVars
<1>7. ASSUME NEW p \in Procs, SetupLock(p)
     PROVE  GoneMeans'
    BY <1>7
    DEF IInv, TypeOK, OpsMatch, GoneMeans, Returning, SetupLock, Acquire,
        Goto, storeVars
<1>8. ASSUME NEW p \in Procs, EnableLock(p)
     PROVE  GoneMeans'
    BY <1>8
    DEF IInv, TypeOK, OpsMatch, GoneMeans, Returning, EnableLock, Acquire,
        Goto, storeVars
<1>9. ASSUME NEW p \in Procs, ReadFallback(p)
     PROVE  GoneMeans'
    BY <1>9
    DEF IInv, TypeOK, OpsMatch, GoneMeans, Returning, ReadFallback, Goto,
        storeVars
<1>10. ASSUME NEW p \in Procs, EndCheck(p)
     PROVE  GoneMeans'
    BY <1>10
    DEF IInv, TypeOK, OpsMatch, GoneMeans, Returning, EndCheck, End, Goto,
        storeVars
<1>11. ASSUME NEW p \in Procs, Recover(p)
     PROVE  GoneMeans'
    BY <1>11
    DEF IInv, TypeOK, OpsMatch, GoneMeans, Returning, Recover, Goto, Release,
        storeVars
<1>12. ASSUME NEW p \in Procs, SyncDelete(p)
     PROVE  GoneMeans'
    BY <1>12
    DEF IInv, TypeOK, OpsMatch, GoneMeans, Returning, SyncDelete, Serve, Goto,
        storeVars
<1>13. ASSUME NEW p \in Procs, SyncAdd(p)
     PROVE  GoneMeans'
    BY <1>13
    DEF IInv, TypeOK, OpsMatch, GoneMeans, Returning, SyncAdd, Serve,
        AfterSync, End, Goto, Release, storeVars
<1>14. ASSUME NEW p \in Procs, SyncAddFails(p)
     PROVE  GoneMeans'
    BY <1>14
    DEF IInv, TypeOK, OpsMatch, GoneMeans, Returning, SyncAddFails, AfterSync,
        End, Goto, Release, storeVars
<1>15. ASSUME NEW p \in Procs, DisableStatus(p)
     PROVE  GoneMeans'
    BY <1>15
    DEF IInv, TypeOK, OpsMatch, GoneMeans, Returning, DisableStatus, End,
        Goto, Release, storeVars
<1>16. ASSUME NEW p \in Procs, DisableDrop(p)
     PROVE  GoneMeans'
  <2>1. pc[p] \in Locked
    BY <1>16 DEF DisableDrop, Locked
  <2>2. QED
    BY <1>16, <2>1, NotedGone DEF IInv, TypeOK, DisableDrop, Serve
<1>17. ASSUME NEW p \in Procs, DisableDropFails(p)
     PROVE  GoneMeans'
    BY <1>17
    DEF IInv, TypeOK, OpsMatch, GoneMeans, Returning, DisableDropFails, Goto,
        storeVars
<1>18. ASSUME NEW p \in Procs, DisableUndo(p)
     PROVE  GoneMeans'
  <2> SUFFICES ASSUME NEW k \in Labels, gone'[k]
               PROVE  /\ pool'[k] = 0 /\ ~row'[k].enabled
                      /\ \A q \in Procs : ~Returning(q, k)'
    BY DEF GoneMeans
  <2>1. gone[k] /\ (storeUp => k # lab[p])
    BY <1>18 DEF IInv, TypeOK, DisableUndo, NoteReturn
  <2>2. ~Returning(p, k)'
    BY <1>18, <2>1 DEF IInv, TypeOK, OpsMatch, GoneMeans, Returning, DisableUndo, End, Goto
  <2>3. \A q \in Procs \ {p} : ~Returning(q, k)'
    BY <1>18, <2>1 DEF IInv, TypeOK, GoneMeans, Returning, DisableUndo, End, Goto
  <2>4. QED
    BY <1>18, <2>1, <2>2, <2>3 DEF IInv, TypeOK, GoneMeans, DisableUndo, SetEnabled
<1>19. ASSUME NEW p \in Procs, EnableSet(p)
     PROVE  GoneMeans'
    BY <1>19
    DEF IInv, TypeOK, OpsMatch, GoneMeans, Returning, EnableSet, SetEnabled,
        Goto, Release
<1>20. ASSUME NEW p \in Procs, EnableStatus(p)
     PROVE  GoneMeans'
    BY <1>20
    DEF IInv, TypeOK, OpsMatch, GoneMeans, Returning, EnableStatus, End, Goto,
        Release, storeVars
<1>21. ASSUME NEW p \in Procs, EnableUndo(p)
     PROVE  GoneMeans'
    BY <1>21
    DEF IInv, TypeOK, OpsMatch, GoneMeans, Returning, EnableUndo, SetEnabled,
        End, Goto
<1>22. ASSUME NEW p \in Procs, DeleteRow(p)
     PROVE  GoneMeans'
  <2>1. pc[p] \in Locked
    BY <1>22 DEF DeleteRow, Locked
  <2>2. pool[lab[p]] = 0
    BY <1>22 DEF IInv, DeletedIsOut, DeleteRow
  <2>3. CASE storeUp
    BY <1>22, <2>1, <2>2, <2>3, NotedGone DEF IInv, TypeOK, DeleteRow
  <2>4. CASE ~storeUp
    BY <1>22, <2>4 DEF IInv, TypeOK, GoneMeans, Returning, DeleteRow, End, Goto
  <2>5. QED
    BY <2>3, <2>4
<1>23. ASSUME NEW p \in Procs, NEW r \in todo[p], RestoreRow(p, r)
     PROVE  GoneMeans'
    BY <1>23
    DEF IInv, TypeOK, OpsMatch, GoneMeans, Returning, RestoreRow
<1>24. ASSUME NEW p \in Procs, RestoreFails(p)
     PROVE  GoneMeans'
    BY <1>24
    DEF IInv, TypeOK, OpsMatch, GoneMeans, Returning, RestoreFails, End, Goto,
        storeVars
<1>25. ASSUME NEW p \in Procs, RestoreCheck(p)
     PROVE  GoneMeans'
  <2> SUFFICES ASSUME NEW k \in Labels, gone'[k]
               PROVE  /\ pool'[k] = 0 /\ ~row'[k].enabled
                      /\ \A q \in Procs : ~Returning(q, k)'
    BY DEF GoneMeans
  <2>1. gone[k] /\ pc'[p] = "loop" /\ source'[p] = "primary"
    BY <1>25 DEF IInv, TypeOK, RestoreCheck, ReadAccounts, Goto, NoteReturn
  <2>2. ~Returning(p, k)'
    BY <1>25, <2>1 DEF IInv, TypeOK, OpsMatch, GoneMeans, Returning, RestoreCheck, ReadAccounts, Goto
  <2>3. \A q \in Procs \ {p} : ~Returning(q, k)'
    BY <1>25, <2>1 DEF IInv, TypeOK, GoneMeans, Returning, RestoreCheck, ReadAccounts, Goto
  <2>4. QED
    BY <1>25, <2>1, <2>2, <2>3 DEF IInv, TypeOK, GoneMeans, RestoreCheck, storeVars
<1>26. ASSUME NEW p \in Procs, NEW l \in Labels, NEW en \in BOOLEAN, SetupUpsert(p, l, en)
     PROVE  GoneMeans'
  <2> SUFFICES ASSUME NEW k \in Labels, gone'[k]
               PROVE  /\ pool'[k] = 0 /\ ~row'[k].enabled
                      /\ \A q \in Procs : ~Returning(q, k)'
    BY DEF GoneMeans
  <2>1. gone[k] /\ k # l
    BY <1>26 DEF SetupUpsert, NoteReturn
  <2>2. /\ pool[k] = 0 /\ ~row[k].enabled
        /\ \A q \in Procs : ~Returning(q, k)
    BY <2>1 DEF IInv, GoneMeans
  <2>3. /\ pool' = pool /\ row'[k] = row[k]
        /\ todo' = todo /\ source' = source
    BY <1>26, <2>1 DEF SetupUpsert, IInv, TypeOK
  <2>4. /\ op' = [op EXCEPT ![p] = "setup"] /\ lab' = [lab EXCEPT ![p] = l]
        /\ pc' = [pc EXCEPT ![p] = IF en THEN "s_wait" ELSE "idle"]
    BY <1>26 DEF SetupUpsert, BeginOp, Begin, Goto
  <2>5. /\ op'[p] = "setup" /\ lab'[p] = l /\ pc'[p] \in {"s_wait", "idle"}
        /\ \A q \in Procs \ {p} : op'[q] = op[q] /\ lab'[q] = lab[q] /\ pc'[q] = pc[q]
    BY <2>4 DEF IInv, TypeOK
  <2>6. ~Returning(p, k)'
    BY <2>1, <2>5 DEF Returning
  <2>7. ASSUME NEW q \in Procs \ {p} PROVE ~Returning(q, k)'
    BY <2>2, <2>3, <2>5 DEF Returning
  <2>8. QED
    BY <2>2, <2>3, <2>6, <2>7
<1>27. ASSUME NEW p \in Procs, NEW l \in Labels, DisableRow(p, l)
     PROVE  GoneMeans'
  <2> SUFFICES ASSUME NEW k \in Labels, gone'[k]
               PROVE  /\ pool'[k] = 0 /\ ~row'[k].enabled
                      /\ \A q \in Procs : ~Returning(q, k)'
    BY DEF GoneMeans
  <2>1. gone[k]
    BY <1>27 DEF IInv, TypeOK, DisableRow
  <2>2. ~Returning(p, k)'
    BY <1>27, <2>1 DEF IInv, TypeOK, OpsMatch, GoneMeans, Returning, DisableRow,
        BeginOp, Begin, Goto
  <2>3. \A q \in Procs \ {p} : ~Returning(q, k)'
    BY <1>27, <2>1 DEF IInv, TypeOK, GoneMeans, Returning, DisableRow, BeginOp,
        Begin, Goto
  <2>4. pool'[k] = 0
    BY <1>27, <2>1 DEF IInv, GoneMeans, DisableRow
  <2>5. CASE k = l
    <3>1. row' = [row EXCEPT ![l] = [row[l] EXCEPT !.enabled = FALSE]]
        BY <1>27 DEF DisableRow, SetEnabled
    <3>2. row'[k] = [row[l] EXCEPT !.enabled = FALSE] /\ row[l] \in Rows
        BY <2>5, <3>1 DEF IInv, TypeOK
    <3>3. row[l] # NoRow
        BY <1>27 DEF DisableRow, NoRow
    <3>4. QED
        BY <2>2, <2>3, <2>4, <3>2, <3>3 DEF Rows
  <2>6. CASE k # l
    BY <1>27, <2>1, <2>2, <2>3, <2>4, <2>6
    DEF IInv, TypeOK, GoneMeans, DisableRow, SetEnabled
  <2>7. QED
    BY <2>5, <2>6
<1>28. ASSUME NEW p \in Procs, NEW l \in Labels, EnableRead(p, l)
     PROVE  GoneMeans'
  <2> SUFFICES ASSUME NEW k \in Labels, gone'[k]
               PROVE  /\ pool'[k] = 0 /\ ~row'[k].enabled
                      /\ \A q \in Procs : ~Returning(q, k)'
    BY DEF GoneMeans
  <2>1. gone[k] /\ k # l
    BY <1>28 DEF EnableRead, NoteReturn
  <2>2. /\ pool[k] = 0 /\ ~row[k].enabled
        /\ \A q \in Procs : ~Returning(q, k)
    BY <2>1 DEF IInv, GoneMeans
  <2>3. /\ pool' = pool /\ row'[k] = row[k]
        /\ todo' = todo /\ source' = source
    BY <1>28, <2>1 DEF EnableRead, IInv, TypeOK, storeVars
  <2>4. /\ op' = [op EXCEPT ![p] = "enable"] /\ lab' = [lab EXCEPT ![p] = l]
        /\ pc' = [pc EXCEPT ![p] = "e_wait"]
    BY <1>28 DEF EnableRead, BeginOp, Begin, Goto
  <2>5. /\ op'[p] = "enable" /\ lab'[p] = l /\ pc'[p] = "e_wait"
        /\ \A q \in Procs \ {p} : op'[q] = op[q] /\ lab'[q] = lab[q] /\ pc'[q] = pc[q]
    BY <2>4 DEF IInv, TypeOK
  <2>6. ~Returning(p, k)'
    BY <2>1, <2>5 DEF Returning
  <2>7. ASSUME NEW q \in Procs \ {p} PROVE ~Returning(q, k)'
    BY <2>2, <2>3, <2>5 DEF Returning
  <2>8. QED
    BY <2>2, <2>3, <2>6, <2>7
<1>29. ASSUME NEW p \in Procs, NEW l \in Labels, DeleteDrop(p, l)
     PROVE  GoneMeans'
    BY <1>29
    DEF IInv, TypeOK, OpsMatch, GoneMeans, Returning, DeleteDrop, BeginOp,
        Begin, Acquire, Serve, Goto, storeVars
<1>30. ASSUME NEW l \in Labels, CorruptRow(l)
     PROVE  GoneMeans'
    BY <1>30
    DEF IInv, TypeOK, OpsMatch, GoneMeans, Returning, CorruptRow, procVars
<1>31. QED
    BY <1>1, <1>2, <1>3, <1>4, <1>5, <1>6, <1>7, <1>8, <1>9, <1>10, <1>11,
        <1>12, <1>13, <1>14, <1>15, <1>16, <1>17, <1>18, <1>19, <1>20, <1>21,
        <1>22, <1>23, <1>24, <1>25, <1>26, <1>27, <1>28, <1>29, <1>30
    DEF Next, LockStep, FreeStep, Request, vars, StoreFails, StoreReturns,
        BackupRun, procVars, storeVars

-----------------------------------------------------------------------------
(* The theorems.                                                           *)

LEMMA InitInvariant == Init => IInv
PROOF
<1> SUFFICES ASSUME Init PROVE IInv
    OBVIOUS
<1> USE AccountPoolAssumption
<1>1. TypeOK
  <2>1. 0 \in Creds /\ 1 \in Creds /\ MaxOps \in 0..MaxOps /\ MaxOutages \in 0..MaxOutages
    BY DEF Creds
  <2>2. row \in [Labels -> Rows] /\ snap \in [Labels -> Rows]
    BY <2>1, RowsAreTyped DEF Init
  <2>3. copy \in [Labels -> Creds]
    BY <2>2, RowsAreTyped DEF Init
  <2>4. (CHOOSE l \in Labels : TRUE) \in Labels
    OBVIOUS
  <2>5. QED
    BY <2>1, <2>2, <2>3, <2>4 DEF Init, TypeOK, AllOps, PCs
<1>2. LockIsHeld /\ OpsMatch /\ DeletedIsOut
    BY DEF Init, LockIsHeld, OpsMatch, DeletedIsOut, Locked
<1>3. GoneMeans
    BY DEF Init, GoneMeans
<1>4. QED
    BY <1>1, <1>2, <1>3 DEF IInv

(* The invariant holds in every reachable state.                           *)
THEOREM Invariant == Spec => []IInv
PROOF
<1>1. Init => IInv
    BY InitInvariant
<1>2. IInv /\ [Next]_vars => IInv'
    BY TypeOKStep, LockIsHeldStep, OpsMatchStep, DeletedIsOutStep, GoneMeansStep
    DEF IInv
<1>3. QED
    BY <1>1, <1>2, PTL DEF Spec

(* Every row, pool entry and record is one the store, the pool file and    *)
(* the routes can hold.                                                    *)
THEOREM TypeCorrect == Spec => []TypeOK
PROOF
<1>1. IInv => TypeOK
    BY DEF IInv
<1>2. QED
    BY <1>1, Invariant, PTL

(* At most one task is inside operation_lock, and it is the one that holds *)
(* it.                                                                     *)
THEOREM LockExcludes == Spec => []LockIsHeld
PROOF
<1>1. IInv => LockIsHeld
    BY DEF IInv
<1>2. QED
    BY <1>1, Invariant, PTL

(* What was disabled or deleted stays out of the pool, whatever checks     *)
(* read the accounts before.                                               *)
THEOREM GoneAccountsStayOut == Spec => []GoneStaysOut
PROOF
<1>1. IInv => GoneStaysOut
    BY DEF IInv, GoneMeans, GoneStaysOut
<1>2. QED
    BY <1>1, Invariant, PTL
=============================================================================
