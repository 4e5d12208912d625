--------------------------- MODULE DatabaseProofs ---------------------------
(***************************************************************************)
(* Proofs about the two parts of db.py that are modelled in modules of     *)
(* their own.                                                              *)
(*                                                                         *)
(* Migrations, for any set of runners, any number of versions, statements  *)
(* and restarts, with or without faults.  What a runner believes about the *)
(* schema is recorded in ver and pos, and it stays true whatever other     *)
(* runners do, because DDL is only ever added.  Progress states that       *)
(* belief; it is what makes AppliedIsComplete inductive, since finalise    *)
(* relies on pos alone and not on the claim still being the runner's.      *)
(*                                                                         *)
(* SqlText, for texts of any length: the scanner, which looks ahead,       *)
(* agrees with a lexer that does not.  Positions is the induction that     *)
(* this takes.  Between two pieces the scanner is where the lexer is       *)
(* (Agrees), each piece tells code from the rest as the lexer does         *)
(* (Sound), and each turn of the loop yields such a piece (StepFollows).   *)
(* The statements: what begins in code is lexed as it was in its place     *)
(* (Shift), a statement begins in code (BeginsInCode) and ends outside any *)
(* literal or block comment (EndsClosed), so it stands alone.              *)
(* The placeholders: after each character of the text the driver has       *)
(* formatted what was put for it (TurnStep).                               *)
(***************************************************************************)
EXTENDS Migrations, SqlText, FiniteSetTheorems, FunctionTheorems, WellFoundedInduction, TLAPS

-----------------------------------------------------------------------------
(* Migrations.                                                             *)

\* Every version before ver[i] is complete and so are the statements before
\* pos[i] of ver[i] itself.
Progress ==
    \A i \in Inst : /\ \A w \in 1..(ver[i] - 1) : schema[w] = Stmts
                    /\ 1..(pos[i] - 1) \subseteq schema[ver[i]]

\* The inductive invariant.
IInv == /\ TypeOK
        /\ Progress
        /\ AppliedIsComplete
        /\ ReadyIsMigrated
        /\ VersionsInOrder

\* The three kinds of row are distinct, and nothing else is a row.
LEMMA RowKinds ==
    /\ NoRow \in Rows /\ Applied \in Rows /\ NoRow # Applied
    /\ NoRow.st = "absent" /\ Applied.st = "applied"
    /\ \A t \in Tokens : /\ Claimed(t) \in Rows
                         /\ Claimed(t) # Applied /\ Claimed(t) # NoRow
                         /\ Claimed(t).st = "claimed" /\ Claimed(t).owner = t
    /\ \A r \in Rows : r.st = "claimed" => r.owner \in Tokens /\ r = Claimed(r.owner)
  <1>1. NoRow.st = "absent" /\ Applied.st = "applied"
    BY DEF NoRow, Applied
  <1>2. ASSUME NEW t \in Tokens
        PROVE  Claimed(t).st = "claimed" /\ Claimed(t).owner = t /\ Claimed(t) \in Rows
    <2>1. Claimed(t).st = "claimed" /\ Claimed(t).owner = t
      BY DEF Claimed
    <2>2. Claimed(t) \in Rows
      BY Zenon DEF Rows
    <2>3. QED
      BY <2>1, <2>2
  <1>3. NoRow \in Rows /\ Applied \in Rows
    BY Zenon DEF Rows
  <1>4. ASSUME NEW r \in Rows, r.st = "claimed"
        PROVE  r.owner \in Tokens /\ r = Claimed(r.owner)
    <2>1. PICK t \in Tokens : r = Claimed(t)
      BY <1>1, <1>4 DEF Rows
    <2>2. QED
      BY <2>1, <1>2
  <1>5. QED
    BY <1>1, <1>2, <1>3, <1>4

\* A runner's token is a token.
LEMMA TokenType ==
    ASSUME TypeOK, NEW i \in Inst
    PROVE  Token(i) \in Tokens
  BY DEF TypeOK, Token, Tokens

\* StartVersion and Advance keep their variables in type.
LEMMA AdvanceType ==
    ASSUME TypeOK, NEW i \in Inst, Advance(i)
    PROVE  /\ pc' \in [Inst -> PCs]
           /\ ver' \in [Inst -> Versions]
           /\ pos' \in [Inst -> 1..(NStmts + 1)]
           /\ late' \in [Inst -> BOOLEAN]
  <1> USE MigrationsAssumption DEF MigrationsAssumption
  <1>1. CASE ver[i] = NVersions
    BY <1>1 DEF TypeOK, Advance, Goto, PCs, Idle
  <1>2. CASE ver[i] # NVersions
    <2>1. ver[i] + 1 \in Versions
      BY <1>2 DEF TypeOK, Versions
    <2>2. Goto(i, "claim") /\ StartVersion(i, ver[i] + 1)
      BY <1>2 DEF Advance
    <2>3. 1 \in 1..(NStmts + 1) /\ "claim" \in PCs
      BY DEF PCs, Claiming
    <2>4. QED
      BY <2>1, <2>2, <2>3 DEF TypeOK, Goto, StartVersion
  <1>3. QED
    BY <1>1, <1>2

\* Every step keeps the types.
LEMMA TypeStep == TypeOK /\ [Next]_vars => TypeOK'
  <1> SUFFICES ASSUME TypeOK, [Next]_vars PROVE TypeOK'
    OBVIOUS
  <1> USE MigrationsAssumption DEF MigrationsAssumption
  <1>1. ASSUME NEW i \in Inst, Boot(i) PROVE TypeOK'
    BY <1>1 DEF TypeOK, Boot, Goto, StartVersion, PCs, Idle, Claiming, Running, Versions
  <1>2. ASSUME NEW i \in Inst, InsertClaim(i) PROVE TypeOK'
    BY <1>2, RowKinds, TokenType
       DEF TypeOK, InsertClaim, Goto, GotoOrLost, PCs, Idle, Claiming, Running
  <1>3. ASSUME NEW i \in Inst,
               OwnClaim(i) \/ PollAgain(i) \/ GiveUpUnclaimed(i)
                 \/ TakenOver(i) \/ LostTakeOver(i)
        PROVE  TypeOK'
    BY <1>3 DEF TypeOK, OwnClaim, PollAgain, GiveUpUnclaimed, TakenOver, LostTakeOver,
                Goto, PCs, Idle, Claiming, Running
  <1>4. ASSUME NEW i \in Inst, SkipApplied(i) PROVE TypeOK'
    BY <1>4, AdvanceType DEF TypeOK, SkipApplied
  <1>5. ASSUME NEW i \in Inst, FindStale(i) PROVE TypeOK'
    <2>1. row[ver[i]].owner \in Tokens
      BY <1>5, RowKinds DEF TypeOK, FindStale
    <2>2. QED
      BY <1>5, <2>1 DEF TypeOK, FindStale, Goto, PCs, Idle, Claiming, Running
  <1>6. ASSUME NEW i \in Inst, TakeOver(i) PROVE TypeOK'
    BY <1>6, RowKinds, TokenType
       DEF TypeOK, TakeOver, Goto, GotoOrLost, PCs, Idle, Claiming, Running
  <1>7. ASSUME NEW i \in Inst, Execute(i) PROVE TypeOK'
    <2>1. pos[i] \in Stmts
      BY <1>7 DEF TypeOK, Execute, Stmts
    <2>2. pos[i] + 1 \in 1..(NStmts + 1) /\ ver[i] \in Versions
      BY <2>1 DEF TypeOK, Stmts
    <2>3. schema' \in [Versions -> SUBSET Stmts] /\ pos' \in [Inst -> 1..(NStmts + 1)]
      BY <1>7, <2>1, <2>2 DEF TypeOK, Execute
    <2>4. pc' \in [Inst -> PCs]
      BY <1>7 DEF TypeOK, Execute, Goto, GotoOrLost, PCs, Running
    <2>5. QED
      BY <1>7, <2>3, <2>4 DEF TypeOK, Execute
  <1>8. ASSUME NEW i \in Inst, Finalise(i) PROVE TypeOK'
    <2>1. row' \in [Versions -> Rows]
      BY <1>8, RowKinds DEF TypeOK, Finalise
    <2>2. CASE Advance(i)
      BY <1>8, <2>1, <2>2, AdvanceType DEF TypeOK, Finalise
    <2>3. CASE Goto(i, "release") /\ UNCHANGED <<ver, pos, late>>
      BY <1>8, <2>1, <2>3 DEF TypeOK, Finalise, Goto, PCs, Idle, Claiming, Running
    <2>4. QED
      BY <1>8, <2>2, <2>3 DEF Finalise
  <1>9. ASSUME NEW i \in Inst, Release(i) PROVE TypeOK'
    BY <1>9, RowKinds DEF TypeOK, Release, Goto, PCs, Idle, Claiming, Running
  <1>10. ASSUME NEW i \in Inst, StatementFails(i) \/ Crash(i) PROVE TypeOK'
    BY <1>10 DEF TypeOK, StatementFails, Crash, Goto, PCs, Idle, Claiming, Running
  <1>11. ASSUME NEW i \in Inst, DeadlinePasses(i) PROVE TypeOK'
    BY <1>11 DEF TypeOK, DeadlinePasses
  <1>12. CASE UNCHANGED vars
    BY <1>12 DEF TypeOK, vars
  <1>13. QED
    BY <1>1, <1>2, <1>3, <1>4, <1>5, <1>6, <1>7, <1>8, <1>9, <1>10, <1>11, <1>12
       DEF Next, Step

(* The state of every runner and of the table always has its type.         *)
THEOREM TypeCorrect == Spec => []TypeOK
  <1>1. Init => TypeOK
    BY MigrationsAssumption, RowKinds
       DEF MigrationsAssumption, Init, TypeOK, PCs, Idle, Versions, Tokens
  <1>2. QED
    BY <1>1, TypeStep, PTL DEF Spec

-----------------------------------------------------------------------------
\* A step that touches neither the schema, nor a runner's place in the list,
\* and settles no row and finishes no runner, keeps the invariant.
LEMMA QuietStep ==
    ASSUME IInv, TypeOK', UNCHANGED <<schema, ver, pos>>,
           \A v \in Versions : row'[v] = Applied => row[v] = Applied,
           \A j \in Inst : pc'[j] = "done" => pc[j] = "done"
    PROVE  IInv'
  BY DEF IInv, Progress, AppliedIsComplete, ReadyIsMigrated, VersionsInOrder

\* A runner that knows its version complete may move on or return.
LEMMA AdvanceStep ==
    ASSUME IInv, TypeOK', NEW i \in Inst, Advance(i), UNCHANGED schema,
           schema[ver[i]] = Stmts,
           \A v \in Versions : row'[v] = Applied => row[v] = Applied \/ v = ver[i]
    PROVE  IInv'
  <1> USE MigrationsAssumption DEF MigrationsAssumption
  <1>1. \A w \in 1..ver[i] : schema[w] = Stmts
    BY DEF IInv, TypeOK, Progress, Versions
  <1>2. AppliedIsComplete' /\ VersionsInOrder'
    BY DEF IInv, AppliedIsComplete, VersionsInOrder
  <1>3. CASE ver[i] = NVersions
    <2>1. Progress'
      BY <1>3 DEF IInv, Progress, Advance
    <2>2. ReadyIsMigrated'
      BY <1>1, <1>3 DEF IInv, TypeOK, ReadyIsMigrated, Advance, Goto, Versions
    <2>3. QED
      BY <1>2, <2>1, <2>2 DEF IInv
  <1>4. CASE ver[i] # NVersions
    <2>1. Goto(i, "claim") /\ StartVersion(i, ver[i] + 1)
      BY <1>4 DEF Advance
    <2>2. ASSUME NEW j \in Inst
          PROVE  /\ \A w \in 1..(ver'[j] - 1) : schema'[w] = Stmts
                 /\ 1..(pos'[j] - 1) \subseteq schema'[ver'[j]]
      <3>1. CASE j = i
        <4>1. ver'[j] - 1 = ver[i] /\ pos'[j] - 1 = 0
          BY <2>1, <3>1 DEF IInv, TypeOK, StartVersion, Versions
        <4>2. QED
          BY <4>1, <1>1
      <3>2. CASE j # i
        BY <2>1, <3>2 DEF IInv, TypeOK, Progress, StartVersion
      <3>3. QED
        BY <3>1, <3>2
    <2>3. ReadyIsMigrated'
      BY <2>1 DEF IInv, TypeOK, ReadyIsMigrated, Goto
    <2>4. QED
      BY <1>2, <2>2, <2>3 DEF IInv, Progress
  <1>5. QED
    BY <1>3, <1>4

\* The statement at pos[i] joins the schema; everybody's belief survives.
LEMMA ExecuteStep ==
    ASSUME IInv, TypeOK', NEW i \in Inst, Execute(i)
    PROVE  IInv'
  <1> USE MigrationsAssumption DEF MigrationsAssumption
  <1>1. /\ ver[i] \in Versions /\ pos[i] \in Stmts
        /\ schema'[ver[i]] = schema[ver[i]] \cup {pos[i]}
        /\ \A v \in Versions : v # ver[i] => schema'[v] = schema[v]
    BY DEF IInv, TypeOK, Execute, Stmts
  <1>2. \A v \in Versions : schema[v] = Stmts => schema'[v] = Stmts
    BY <1>1
  <1>3. AppliedIsComplete'
    BY <1>2 DEF IInv, AppliedIsComplete, Execute
  <1>4. ReadyIsMigrated'
    BY <1>2 DEF IInv, TypeOK, ReadyIsMigrated, Execute, GotoOrLost, Goto
  <1>5. VersionsInOrder'
    <2>1. \A w \in Versions : w < ver[i] => schema[w] = Stmts
      BY <1>1 DEF IInv, TypeOK, Progress, Versions
    <2>2. SUFFICES ASSUME NEW v \in Versions, NEW w \in Versions, w < v,
                          schema'[v] # {}
                   PROVE  schema'[w] = Stmts
      BY DEF VersionsInOrder
    <2>3. CASE v = ver[i]
      BY <2>1, <2>2, <2>3, <1>2
    <2>4. CASE v # ver[i]
      BY <2>2, <2>4, <1>1, <1>2 DEF IInv, VersionsInOrder
    <2>5. QED
      BY <2>3, <2>4
  <1>6. Progress'
    <2>1. SUFFICES ASSUME NEW j \in Inst
                   PROVE  /\ \A w \in 1..(ver'[j] - 1) : schema'[w] = Stmts
                          /\ 1..(pos'[j] - 1) \subseteq schema'[ver'[j]]
      BY DEF Progress
    <2>2. ver'[j] = ver[j] /\ ver[j] \in Versions
      BY DEF IInv, TypeOK, Execute
    <2>3. \A w \in 1..(ver[j] - 1) : w \in Versions /\ schema[w] = Stmts
      BY <2>2 DEF IInv, Progress, Versions
    <2>4. schema[ver[j]] \subseteq schema'[ver[j]]
      BY <1>1, <2>2
    <2>5. 1..(pos'[j] - 1) \subseteq schema'[ver[j]]
      <3>1. CASE j = i
        <4>1. pos'[j] - 1 = pos[i]
          BY <3>1 DEF IInv, TypeOK, Execute
        <4>2. 1..pos[i] \subseteq 1..(pos[i] - 1) \cup {pos[i]}
          BY <1>1 DEF Stmts
        <4>3. 1..(pos[i] - 1) \subseteq schema[ver[i]]
          BY DEF IInv, Progress
        <4>4. QED
          BY <3>1, <4>1, <4>2, <4>3, <1>1
      <3>2. CASE j # i
        BY <3>2, <2>4 DEF IInv, TypeOK, Progress, Execute
      <3>3. QED
        BY <3>1, <3>2
    <2>6. QED
      BY <2>2, <2>3, <2>5, <1>2
  <1>7. QED
    BY <1>3, <1>4, <1>5, <1>6 DEF IInv

\* Every step keeps the inductive invariant.
LEMMA InvariantStep == IInv /\ [Next]_vars => IInv'
  <1> SUFFICES ASSUME IInv, [Next]_vars PROVE IInv'
    OBVIOUS
  <1> USE MigrationsAssumption DEF MigrationsAssumption
  <1>0. TypeOK /\ TypeOK'
    BY TypeStep DEF IInv
  <1>1. ASSUME NEW i \in Inst, Boot(i) PROVE IInv'
    <2>1. \A j \in Inst : pc'[j] = "done" => pc[j] = "done"
      BY <1>0, <1>1 DEF TypeOK, Boot, Goto
    <2>2. ASSUME NEW j \in Inst
          PROVE  /\ \A w \in 1..(ver'[j] - 1) : schema'[w] = Stmts
                 /\ 1..(pos'[j] - 1) \subseteq schema'[ver'[j]]
      <3>1. CASE j = i
        <4>1. ver'[j] - 1 = 0 /\ pos'[j] - 1 = 0
          BY <1>0, <1>1, <3>1 DEF TypeOK, Boot, StartVersion
        <4>2. QED
          BY <4>1
      <3>2. CASE j # i
        BY <1>0, <1>1, <3>2 DEF IInv, TypeOK, Progress, Boot, StartVersion
      <3>3. QED
        BY <3>1, <3>2
    <2>3. QED
      BY <1>0, <1>1, <2>1, <2>2
         DEF IInv, Progress, AppliedIsComplete, ReadyIsMigrated, VersionsInOrder, Boot
  <1>2. ASSUME NEW i \in Inst, InsertClaim(i) \/ TakeOver(i) PROVE IInv'
    <2>1. \A v \in Versions : row'[v] = Applied => row[v] = Applied
      BY <1>0, <1>2, RowKinds, TokenType DEF TypeOK, InsertClaim, TakeOver
    <2>2. \A j \in Inst : pc'[j] = "done" => pc[j] = "done"
      BY <1>0, <1>2 DEF TypeOK, InsertClaim, TakeOver, GotoOrLost, Goto
    <2>3. UNCHANGED <<schema, ver, pos>>
      BY <1>2 DEF InsertClaim, TakeOver
    <2>4. QED
      BY <1>0, <2>1, <2>2, <2>3, QuietStep
  <1>3. ASSUME NEW i \in Inst,
               OwnClaim(i) \/ PollAgain(i) \/ FindStale(i) \/ GiveUpUnclaimed(i)
                 \/ TakenOver(i) \/ LostTakeOver(i) \/ StatementFails(i) \/ Crash(i)
                 \/ DeadlinePasses(i)
        PROVE  IInv'
    <2>1. UNCHANGED <<row, schema, ver, pos>>
      BY <1>3 DEF OwnClaim, PollAgain, FindStale, GiveUpUnclaimed, TakenOver,
                  LostTakeOver, StatementFails, Crash, DeadlinePasses
    <2>2. \A j \in Inst : pc'[j] = "done" => pc[j] = "done"
      BY <1>0, <1>3 DEF TypeOK, OwnClaim, PollAgain, FindStale, GiveUpUnclaimed, TakenOver,
                  LostTakeOver, StatementFails, Crash, DeadlinePasses, Goto
    <2>3. QED
      BY <1>0, <2>1, <2>2, QuietStep
  <1>4. ASSUME NEW i \in Inst, SkipApplied(i) PROVE IInv'
    <2>1. schema[ver[i]] = Stmts
      BY <1>0, <1>4 DEF IInv, TypeOK, AppliedIsComplete, SkipApplied
    <2>2. Advance(i) /\ UNCHANGED schema /\ UNCHANGED row
      BY <1>4 DEF SkipApplied
    <2>3. QED
      BY <1>0, <2>1, <2>2, AdvanceStep
  <1>5. ASSUME NEW i \in Inst, Execute(i) PROVE IInv'
    BY <1>0, <1>5, ExecuteStep
  <1>6. ASSUME NEW i \in Inst, Finalise(i) PROVE IInv'
    <2>1. schema[ver[i]] = Stmts
      <3>1. pos[i] - 1 = NStmts /\ ver[i] \in Versions
        BY <1>0, <1>6 DEF TypeOK, Finalise
      <3>2. Stmts \subseteq schema[ver[i]]
        BY <3>1 DEF IInv, Progress, Stmts
      <3>3. QED
        BY <1>0, <3>1, <3>2 DEF TypeOK
    <2>2. \A v \in Versions : row'[v] = Applied => row[v] = Applied \/ v = ver[i]
      BY <1>0, <1>6 DEF TypeOK, Finalise
    <2>3. UNCHANGED schema
      BY <1>6 DEF Finalise
    <2>4. CASE Advance(i)
      BY <1>0, <2>1, <2>2, <2>3, <2>4, AdvanceStep
    <2>5. CASE Goto(i, "release") /\ UNCHANGED <<ver, pos, late>>
      <3>1. \A j \in Inst : pc'[j] = "done" => pc[j] = "done"
        BY <1>0, <2>5 DEF TypeOK, Goto
      <3>2. AppliedIsComplete'
        BY <2>1, <2>2, <2>3 DEF IInv, AppliedIsComplete
      <3>3. QED
        BY <1>0, <2>3, <2>5, <3>1, <3>2
           DEF IInv, Progress, ReadyIsMigrated, VersionsInOrder
    <2>6. QED
      BY <1>6, <2>4, <2>5 DEF Finalise
  <1>7. ASSUME NEW i \in Inst, Release(i) PROVE IInv'
    <2>1. \A v \in Versions : row'[v] = Applied => row[v] = Applied
      BY <1>0, <1>7, RowKinds DEF TypeOK, Release
    <2>2. \A j \in Inst : pc'[j] = "done" => pc[j] = "done"
      BY <1>0, <1>7 DEF TypeOK, Release, Goto
    <2>3. UNCHANGED <<schema, ver, pos>>
      BY <1>7 DEF Release
    <2>4. QED
      BY <1>0, <2>1, <2>2, <2>3, QuietStep
  <1>8. CASE UNCHANGED vars
    BY <1>0, <1>8, QuietStep DEF vars
  <1>9. QED
    BY <1>1, <1>2, <1>3, <1>4, <1>5, <1>6, <1>7, <1>8 DEF Next, Step

(* The inductive invariant holds throughout.                               *)
THEOREM Invariant == Spec => []IInv
  <1>1. Init => IInv
    <2>1. SUFFICES ASSUME Init PROVE IInv
      OBVIOUS
    <2>2. TypeOK
      BY <2>1, MigrationsAssumption, RowKinds
         DEF MigrationsAssumption, Init, TypeOK, PCs, Idle, Versions, Tokens
    <2>3. \A i \in Inst : ver[i] = 1 /\ pos[i] = 1
      BY <2>1 DEF Init
    <2>4. Progress
      <3>1. 1..(1 - 1) = {}
        OBVIOUS
      <3>2. QED
        BY <2>3, <3>1 DEF Progress
    <2>5. AppliedIsComplete /\ ReadyIsMigrated /\ VersionsInOrder
      BY <2>1, RowKinds DEF Init, AppliedIsComplete, ReadyIsMigrated, VersionsInOrder
    <2>6. QED
      BY <2>2, <2>4, <2>5 DEF IInv
  <1>2. QED
    BY <1>1, InvariantStep, PTL DEF Spec

(* No crash, failed statement, take-over or release leaves a version       *)
(* recorded as applied while one of its statements has not run.            *)
THEOREM AppliedVersionsAreComplete == Spec => []AppliedIsComplete
  BY Invariant, PTL DEF IInv

(* When init_schema returns, every table of every version exists.          *)
THEOREM ReadyStoresAreMigrated == Spec => []ReadyIsMigrated
  BY Invariant, PTL DEF IInv

(* DDL reaches the database in version order, whoever runs it.             *)
THEOREM DDLRunsInOrder == Spec => []VersionsInOrder
  BY Invariant, PTL DEF IInv

(* An applied version stays applied.                                       *)
THEOREM AppliedVersionsStay == Spec => AppliedIsForever
  <1>1. TypeOK /\ [Next]_vars =>
          [\A v \in Versions : row[v] = Applied => row'[v] = Applied]_row
    <2>1. SUFFICES ASSUME TypeOK, [Next]_vars, NEW v \in Versions, row[v] = Applied
                   PROVE  row'[v] = Applied
      OBVIOUS
    <2>2. CASE UNCHANGED row
      BY <2>1, <2>2
    <2>3. ASSUME NEW i \in Inst, InsertClaim(i) \/ TakeOver(i) \/ Release(i)
          PROVE  row'[v] = Applied
      BY <2>1, <2>3, RowKinds, TokenType
         DEF TypeOK, InsertClaim, TakeOver, Release, Mine
    <2>4. ASSUME NEW i \in Inst, Finalise(i)
          PROVE  row'[v] = Applied
      BY <2>1, <2>4 DEF TypeOK, Finalise
    <2>5. CASE \E i \in Inst : Boot(i) \/ OwnClaim(i) \/ SkipApplied(i) \/ PollAgain(i)
                 \/ FindStale(i) \/ GiveUpUnclaimed(i) \/ TakenOver(i) \/ LostTakeOver(i)
                 \/ Execute(i) \/ DeadlinePasses(i) \/ StatementFails(i) \/ Crash(i)
      BY <2>1, <2>5 DEF Boot, OwnClaim, SkipApplied, PollAgain, FindStale,
           GiveUpUnclaimed, TakenOver, LostTakeOver, Execute, DeadlinePasses,
           StatementFails, Crash
    <2>6. QED
      BY <2>1, <2>2, <2>3, <2>4, <2>5 DEF Next, Step, vars
  <1>2. QED
    BY <1>1, TypeCorrect, PTL DEF Spec, AppliedIsForever

-----------------------------------------------------------------------------
(* The claim protocol implements the ledger.                               *)
THEOREM ClaimsImplementLedger == Spec => ImplementsLedger
  <1> USE MigrationsAssumption DEF MigrationsAssumption
  <1>1. Init => Ledger!LedgerInit
    BY RowKinds DEF Init, Ledger!LedgerInit, Ledger!Versions, Versions, AppliedVersions
  <1>2. IInv /\ [Next]_vars => [Ledger!LedgerNext]_(Ledger!lvars)
    <2>1. SUFFICES ASSUME IInv, [Next]_vars
                   PROVE  Ledger!LedgerNext \/ UNCHANGED <<schema, AppliedVersions>>
      BY DEF Ledger!lvars
    <2>2. TypeOK
      BY <2>1 DEF IInv
    <2>3. ASSUME NEW i \in Inst, Execute(i)
          PROVE  Ledger!LedgerNext
      <3>1. ver[i] \in Ledger!Versions /\ pos[i] \in Ledger!Stmts
        BY <2>2, <2>3 DEF TypeOK, Execute, Ledger!Versions, Ledger!Stmts, Versions, Stmts
      <3>2. \A w \in 1..(ver[i] - 1) : schema[w] = Ledger!Stmts
        BY <2>1 DEF IInv, Progress, Ledger!Stmts, Stmts
      <3>3. schema' = [schema EXCEPT ![ver[i]] = @ \cup {pos[i]}] /\ UNCHANGED AppliedVersions
        BY <2>3 DEF Execute, AppliedVersions
      <3>4. Ledger!RunStatement(ver[i], pos[i])
        BY <3>2, <3>3 DEF Ledger!RunStatement
      <3>5. QED
        BY <3>1, <3>4 DEF Ledger!LedgerNext
    <2>4. ASSUME NEW i \in Inst, Finalise(i)
          PROVE  Ledger!LedgerNext \/ UNCHANGED <<schema, AppliedVersions>>
      <3>1. CASE ~Mine(i)
        BY <2>4, <3>1 DEF Finalise, AppliedVersions
      <3>2. CASE Mine(i)
        <4>1. ver[i] \in Versions /\ schema[ver[i]] = Stmts
          <5>1. pos[i] - 1 = NStmts /\ ver[i] \in Versions
            BY <2>2, <2>4 DEF TypeOK, Finalise
          <5>2. Stmts \subseteq schema[ver[i]]
            BY <5>1, <2>1 DEF IInv, Progress, Stmts
          <5>3. QED
            BY <2>2, <5>1, <5>2 DEF TypeOK
        <4>2. row' = [row EXCEPT ![ver[i]] = Applied] /\ UNCHANGED schema
          BY <2>4, <3>2 DEF Finalise
        <4>3. AppliedVersions' = AppliedVersions \cup {ver[i]}
          BY <4>1, <4>2, <2>2 DEF AppliedVersions, TypeOK
        <4>4. Ledger!RecordApplied(ver[i])
          BY <4>1, <4>2, <4>3 DEF Ledger!RecordApplied, Ledger!Stmts, Stmts
        <4>5. QED
          BY <4>1, <4>4 DEF Ledger!LedgerNext, Ledger!Versions, Versions
      <3>3. QED
        BY <3>1, <3>2
    <2>5. ASSUME NEW i \in Inst, InsertClaim(i) \/ TakeOver(i) \/ Release(i)
          PROVE  UNCHANGED <<schema, AppliedVersions>>
      <3>1. \A v \in Versions : row'[v] = Applied <=> row[v] = Applied
        BY <2>2, <2>5, RowKinds, TokenType
           DEF TypeOK, InsertClaim, TakeOver, Release, Mine
      <3>2. AppliedVersions' = AppliedVersions
        BY <3>1 DEF AppliedVersions
      <3>3. QED
        BY <2>5, <3>2 DEF InsertClaim, TakeOver, Release
    <2>6. CASE \E i \in Inst : Boot(i) \/ OwnClaim(i) \/ SkipApplied(i) \/ PollAgain(i)
                 \/ FindStale(i) \/ GiveUpUnclaimed(i) \/ TakenOver(i) \/ LostTakeOver(i)
                 \/ DeadlinePasses(i) \/ StatementFails(i) \/ Crash(i)
      BY <2>6 DEF Boot, OwnClaim, SkipApplied, PollAgain, FindStale, AppliedVersions,
           GiveUpUnclaimed, TakenOver, LostTakeOver, DeadlinePasses, StatementFails, Crash
    <2>7. CASE UNCHANGED vars
      BY <2>7 DEF vars, AppliedVersions
    <2>8. QED
      BY <2>1, <2>3, <2>4, <2>5, <2>6, <2>7 DEF Next, Step
  <1>3. QED
    BY <1>1, <1>2, Invariant, PTL DEF Spec, ImplementsLedger, Ledger!LedgerSpec

-----------------------------------------------------------------------------
(* SqlText.  Induction over positions.                                     *)

\* A set of positions that begins at 0 and goes on at each of them has all.
LEMMA Positions ==
    ASSUME NEW n \in Nat, NEW T, 0 \in T,
           \A i \in 1..n : i - 1 \in T => i \in T
    PROVE  0..n \subseteq T
<1> DEFINE Missing == {i \in 0..n : i \notin T}
<1>1. SUFFICES ASSUME Missing # {} PROVE FALSE
    OBVIOUS
<1>2. Missing \in SUBSET Nat
    OBVIOUS
<1>3. PICK b \in Missing : \A y \in Missing : ~(<<y, b>> \in OpToRel(<, Nat))
    BY <1>1, <1>2, WFMin, NatLessThanWellFounded
<1>4. b \in 1..n
    <2>1. b \in 0..n /\ b \notin T
        BY <1>3
    <2>2. b # 0
        BY <2>1
    <2>3. QED
        BY <2>1, <2>2
<1> HIDE DEF Missing
<1>5. b - 1 \in 0..n /\ b - 1 < b /\ b - 1 \in Nat
    BY <1>4
<1>6. b - 1 \notin Missing
    <2>1. b \in Nat
        BY <1>4
    <2>2. <<b - 1, b>> \in OpToRel(<, Nat)
        BY <1>5, <2>1 DEF OpToRel
    <2>3. QED
        BY <1>3, <2>2
<1>7. QED
    BY <1>3, <1>4, <1>5, <1>6 DEF Missing

LEMMA SmallestMeans ==
    ASSUME NEW T \in SUBSET Nat, T # {}
    PROVE  Smallest(T) \in T /\ \A m \in T : Smallest(T) <= m
<1>1. PICK x \in T : \A y \in T : ~(<<y, x>> \in OpToRel(<, Nat))
    BY WFMin, NatLessThanWellFounded
<1>2. ASSUME NEW y \in T PROVE x <= y
    <2>1. ~(y < x)
        BY <1>1 DEF OpToRel
    <2>2. QED
        BY <2>1
<1>3. QED
    BY <1>2 DEF Smallest

\* g applies a step after the other, from a on.
Turns(n, A) == [1..n -> [A -> A]]
Trace(g, n, A, a, F) ==
    g \in [0..n -> A] /\ g[0] = a /\ \A i \in 1..n : g[i] = F[i][g[i - 1]]

\* There is such a function: what justifies the recursive definitions below.
LEMMA Iterates ==
    ASSUME NEW n \in Nat, NEW A, NEW a \in A, NEW F \in Turns(n, A)
    PROVE  \E g : Trace(g, n, A, a, F)
<1> DEFINE Upto(m, g) == g[0] = a /\ \A i \in 1..m : g[i] = F[i][g[i - 1]]
           T == {m \in 0..n : \E g \in [0..m -> A] : Upto(m, g)}
<1>1. 0 \in T
    <2>1. [i \in 0..0 |-> a] \in [0..0 -> A] /\ Upto(0, [i \in 0..0 |-> a])
        OBVIOUS
    <2>2. \E g \in [0..0 -> A] : Upto(0, g)
        <3> HIDE DEF Upto
        <3>1. QED
            BY <2>1, Zenon
    <2>3. QED
        BY <2>2
<1>2. ASSUME NEW m \in 1..n, m - 1 \in T PROVE m \in T
    <2>1. PICK g \in [0..(m - 1) -> A] : Upto(m - 1, g)
        BY <1>2
    <2> DEFINE h == [i \in 0..m |-> IF i = m THEN F[m][g[m - 1]] ELSE g[i]]
    <2>2. F[m] \in [A -> A] /\ g[m - 1] \in A
        BY DEF Turns
    <2>3. h \in [0..m -> A]
        <3>1. ASSUME NEW i \in 0..m PROVE h[i] \in A
            BY <2>2
        <3>2. QED
            BY <3>1
    <2>4. h[0] = a
        BY <2>1
    <2>5. ASSUME NEW i \in 1..m PROVE h[i] = F[i][h[i - 1]]
        <3>1. i - 1 \in 0..m /\ i - 1 # m /\ h[i - 1] = g[i - 1]
            OBVIOUS
        <3>2. CASE i = m
            BY <3>1, <3>2
        <3>3. CASE i # m
            <4>1. i \in 1..(m - 1) /\ h[i] = g[i]
                BY <3>3
            <4>2. QED
                BY <2>1, <3>1, <4>1
        <3>4. QED
            BY <3>2, <3>3
    <2>6. Upto(m, h)
        BY <2>4, <2>5
    <2> HIDE DEF h, Upto
    <2>7. \E f \in [0..m -> A] : Upto(m, f)
        BY <2>3, <2>6
    <2>8. QED
        BY <2>7
<1>3. 0..n \subseteq T
    BY <1>1, <1>2, Positions
<1>4. n \in T
    BY <1>3
<1>5. QED
    BY <1>4 DEF Trace

-----------------------------------------------------------------------------
(* The lexer.                                                              *)
ModeSet ==
    {<<"code">>, <<"dash">>, <<"slash">>, <<"line">>, <<"block">>, <<"star">>, <<"closed">>}
    \cup {<<"in", q>> : q \in Quotes} \cup {<<"seen", q>> : q \in Quotes}
    \cup {<<"escape", q>> : q \in Quotes}

LEMMA ModesAre ==
    /\ <<"code">> \in ModeSet /\ <<"dash">> \in ModeSet /\ <<"slash">> \in ModeSet
    /\ <<"line">> \in ModeSet /\ <<"block">> \in ModeSet /\ <<"star">> \in ModeSet
    /\ <<"closed">> \in ModeSet
    /\ \A q \in Quotes : /\ <<"in", q>> \in ModeSet /\ <<"seen", q>> \in ModeSet
                          /\ <<"escape", q>> \in ModeSet
BY Zenon DEF ModeSet

LEMMA AfterCodeMeans ==
    ASSUME NEW c \in Chars
    PROVE  /\ c \in Quotes => AfterCode(c) = <<"in", c>>
           /\ c = "-" => AfterCode(c) = <<"dash">>
           /\ c = "/" => AfterCode(c) = <<"slash">>
           /\ c \in Others \ {"-", "/"} => AfterCode(c) = <<"code">>
           /\ AfterCode(c) \in ModeSet
           /\ AfterCode(c)[1] \in {"in", "dash", "slash", "code"}
<1>1. /\ Quotes \cap {"-", "/"} = {} /\ "-" # "/"
      /\ \A d \in Others : d \notin Quotes
      /\ c \in Quotes => c # "-" /\ c # "/" /\ c \notin Others
    BY SqlTextAssumption DEF Others
<1>2. CASE c \in Quotes
    <2>1. AfterCode(c) = <<"in", c>>
        BY <1>1, <1>2 DEF AfterCode
    <2>2. <<"in", c>> \in ModeSet /\ <<"in", c>>[1] = "in"
        BY <1>2, ModesAre
    <2>3. QED
        BY <1>1, <1>2, <2>1, <2>2
<1>3. CASE c = "-"
    <2>1. AfterCode(c) = <<"dash">>
        BY <1>1, <1>3 DEF AfterCode
    <2>2. QED
        BY <1>1, <1>3, <2>1, ModesAre
<1>4. CASE c = "/"
    <2>1. AfterCode(c) = <<"slash">>
        BY <1>1, <1>4 DEF AfterCode
    <2>2. QED
        BY <1>1, <1>4, <2>1, ModesAre
<1>5. CASE c \in Others \ {"-", "/"}
    <2>1. AfterCode(c) = <<"code">>
        BY <1>1, <1>5 DEF AfterCode
    <2>2. QED
        BY <1>1, <1>5, <2>1, ModesAre
<1>6. QED
    BY <1>2, <1>3, <1>4, <1>5 DEF Chars

LEMMA AfterSeen ==
    ASSUME NEW c \in Chars, NEW esc \in BOOLEAN, NEW q \in Quotes
    PROVE  After(<<"seen", q>>, c, esc) = IF c = q THEN <<"in", q>> ELSE AfterCode(c)
BY DEF After

LEMMA AfterEscape ==
    ASSUME NEW c \in Chars, NEW esc \in BOOLEAN, NEW q \in Quotes
    PROVE  After(<<"escape", q>>, c, esc) = <<"in", q>>
BY DEF After

LEMMA AfterIn ==
    ASSUME NEW c \in Chars, NEW esc \in BOOLEAN, NEW q \in Quotes
    PROVE  After(<<"in", q>>, c, esc) =
              IF c = q THEN <<"seen", q>>
              ELSE IF esc /\ c = "\\" /\ q \in StringQuotes
                   THEN <<"escape", q>> ELSE <<"in", q>>
BY DEF After

LEMMA AfterMeans ==
    ASSUME NEW c \in Chars, NEW esc \in BOOLEAN
    PROVE  /\ After(<<"dash">>, c, esc) = (IF c = "-" THEN <<"line">> ELSE AfterCode(c))
           /\ After(<<"slash">>, c, esc) = (IF c = "*" THEN <<"block">> ELSE AfterCode(c))
           /\ After(<<"line">>, c, esc) = (IF c = "\n" THEN <<"code">> ELSE <<"line">>)
           /\ After(<<"block">>, c, esc) = (IF c = "*" THEN <<"star">> ELSE <<"block">>)
           /\ After(<<"star">>, c, esc) =
                 (IF c = "/" THEN <<"closed">>
                  ELSE IF c = "*" THEN <<"star">> ELSE <<"block">>)
           /\ After(<<"code">>, c, esc) = AfterCode(c)
           /\ After(<<"closed">>, c, esc) = AfterCode(c)
<1>1. /\ After(<<"dash">>, c, esc) = (IF c = "-" THEN <<"line">> ELSE AfterCode(c))
      /\ After(<<"slash">>, c, esc) = (IF c = "*" THEN <<"block">> ELSE AfterCode(c))
    BY DEF After
<1>2. /\ After(<<"line">>, c, esc) = (IF c = "\n" THEN <<"code">> ELSE <<"line">>)
      /\ After(<<"block">>, c, esc) = (IF c = "*" THEN <<"star">> ELSE <<"block">>)
    BY DEF After
<1>3. After(<<"star">>, c, esc) =
                 (IF c = "/" THEN <<"closed">>
                  ELSE IF c = "*" THEN <<"star">> ELSE <<"block">>)
    BY DEF After
<1>4. After(<<"code">>, c, esc) = AfterCode(c) /\ After(<<"closed">>, c, esc) = AfterCode(c)
    BY DEF After
<1>5. QED
    BY <1>1, <1>2, <1>3, <1>4

LEMMA AfterType ==
    ASSUME NEW m \in ModeSet, NEW c \in Chars, NEW esc \in BOOLEAN
    PROVE  After(m, c, esc) \in ModeSet
<1>1. CASE \E q \in Quotes : m = <<"in", q>> \/ m = <<"seen", q>> \/ m = <<"escape", q>>
    <2>1. PICK q \in Quotes : m = <<"in", q>> \/ m = <<"seen", q>> \/ m = <<"escape", q>>
        BY <1>1
    <2>2. <<"in", q>> \in ModeSet /\ <<"seen", q>> \in ModeSet /\ <<"escape", q>> \in ModeSet
        BY ModesAre
    <2>3. AfterCode(c) \in ModeSet
        BY AfterCodeMeans
    <2>4. CASE m = <<"in", q>>
        BY <2>2, <2>4, AfterIn
    <2>5. CASE m = <<"seen", q>>
        BY <2>2, <2>3, <2>5, AfterSeen
    <2>6. CASE m = <<"escape", q>>
        BY <2>2, <2>6, AfterEscape
    <2>7. QED
        BY <2>1, <2>4, <2>5, <2>6
<1>2. CASE m \in {<<"code">>, <<"dash">>, <<"slash">>, <<"line">>, <<"block">>,
                  <<"star">>, <<"closed">>}
    BY <1>2, AfterMeans, AfterCodeMeans, ModesAre
<1>3. QED
    BY <1>1, <1>2 DEF ModeSet

\* The modes are what the recursion says.
LEMMA ModesMeans ==
    ASSUME NEW s \in Seq(Chars), NEW esc \in BOOLEAN
    PROVE  /\ Modes(s, esc) \in [0..Len(s) -> ModeSet]
           /\ Modes(s, esc)[0] = <<"code">>
           /\ \A i \in 1..Len(s) : Modes(s, esc)[i] = After(Modes(s, esc)[i - 1], s[i], esc)
<1> DEFINE n == Len(s)
           F == [i \in 1..n |-> [x \in ModeSet |-> After(x, s[i], esc)]]
           G(g) == [i \in 0..n |->
                      IF i = 0 THEN <<"code">> ELSE After(g[i - 1], s[i], esc)]
           m == Modes(s, esc)
<1>1. n \in Nat /\ \A i \in 1..n : s[i] \in Chars
    OBVIOUS
<1>2. F \in [1..n -> [ModeSet -> ModeSet]]
    BY <1>1, AfterType
<1>3. <<"code">> \in ModeSet
    BY ModesAre
<1>4. PICK g \in [0..n -> ModeSet] :
          g[0] = <<"code">> /\ \A i \in 1..n : g[i] = F[i][g[i - 1]]
    <2>1. F \in Turns(n, ModeSet)
        BY <1>2 DEF Turns
    <2>2. \E g : Trace(g, n, ModeSet, <<"code">>, F)
        <3> HIDE DEF F, n
        <3>1. QED
            BY <1>1, <1>3, <2>1, Iterates
    <2>3. QED
        BY <2>2 DEF Trace
<1>5. ASSUME NEW i \in 1..n PROVE g[i] = After(g[i - 1], s[i], esc)
    <2>1. g[i - 1] \in ModeSet
        BY <1>1, <1>4
    <2>2. F[i] = [x \in ModeSet |-> After(x, s[i], esc)]
        OBVIOUS
    <2>3. F[i][g[i - 1]] = After(g[i - 1], s[i], esc)
        BY <2>1, <2>2
    <2>4. QED
        BY <1>4, <2>3
<1>6. g = G(g)
    <2>1. ASSUME NEW i \in 0..n PROVE g[i] = G(g)[i]
        <3>1. CASE i = 0
            BY <1>4, <3>1
        <3>2. CASE i # 0
            BY <1>1, <1>5, <3>2
        <3>3. QED
            BY <3>1, <3>2
    <2>2. g = [i \in 0..n |-> g[i]]
        BY <1>4
    <2>3. [i \in 0..n |-> g[i]] = [i \in 0..n |-> G(g)[i]]
        BY <2>1, Zenon
    <2>4. G(g) = [i \in 0..n |-> G(g)[i]]
        BY Zenon
    <2>5. QED
        BY <2>2, <2>3, <2>4, Zenon
<1>7. m = CHOOSE f : f = G(f)
    BY DEF Modes
<1> HIDE DEF m
<1>8. m = G(m)
    BY <1>6, <1>7
<1>9. /\ DOMAIN m = 0..n /\ m[0] = <<"code">>
      /\ \A i \in 1..n : m[i] = After(m[i - 1], s[i], esc)
    BY <1>1, <1>8
<1> DEFINE T == {i \in 0..n : m[i] \in ModeSet}
<1>10. 0..n \subseteq T
    <2>1. 0 \in T
        <3>1. 0 \in 0..n /\ m[0] \in ModeSet
            BY <1>1, <1>3, <1>9
        <3>2. QED
            BY <3>1
    <2>2. ASSUME NEW i \in 1..n, i - 1 \in T PROVE i \in T
        BY <1>1, <1>9, <2>2, AfterType
    <2>3. QED
        BY <1>1, <2>1, <2>2, Positions
<1>11. m \in [0..n -> ModeSet]
    BY <1>8, <1>10
<1>12. QED
    BY <1>9, <1>11 DEF m

LEMMA ModesStep ==
    ASSUME NEW s \in Seq(Chars), NEW esc \in BOOLEAN, NEW i \in 1..Len(s)
    PROVE  /\ Modes(s, esc)[i] = After(Modes(s, esc)[i - 1], s[i], esc)
           /\ Modes(s, esc)[i] \in ModeSet /\ Modes(s, esc)[i - 1] \in ModeSet
           /\ s[i] \in Chars
<1>1. i \in 0..Len(s) /\ i - 1 \in 0..Len(s)
    OBVIOUS
<1>2. QED
    BY <1>1, ModesMeans

LEMMA NotLexedCode ==
    ASSUME NEW s \in Seq(Chars), NEW esc \in BOOLEAN, NEW i \in 1..Len(s),
           Modes(s, esc)[i][1] \notin {"code", "dash", "slash"}
    PROVE  i \notin LexedCode(s, esc)
BY DEF LexedCode

-----------------------------------------------------------------------------
(* Where the scanner is, compared with the lexer.                          *)

\* Between two pieces: position i, in quote q.  A backslash that ends the
\* text escapes nothing.
Agrees(s, esc, i, q) ==
    IF q = NoQuote
    THEN /\ i <= Len(s) => Modes(s, esc)[i] = AfterCode(s[i])
         /\ Modes(s, esc)[i - 1][1] \notin {"in", "escape", "block", "star"}
    ELSE \/ Modes(s, esc)[i - 1] = <<"in", q>>
         \/ i = Len(s) + 1 /\ Modes(s, esc)[Len(s)] = <<"escape", q>>

\* A piece tells code from the rest as the lexer does, and leaves the
\* scanner where the lexer is.
Sound(s, esc, p) ==
    \/ p = Unterminated /\ ~Lexes(s, esc)
    \/ /\ p.first \in 1..(Len(s) + 1) /\ p.last \in (p.first - 1)..Len(s)
       /\ Agrees(s, esc, p.last + 1, p.quote)
       /\ \A j \in p.first..p.last :
              j \in LexedCode(s, esc) <=> p.code /\ j = p.first

SoundPieces(s, esc) ==
    {p \in [first : Nat, last : Nat, code : BOOLEAN, quote : Quotes \cup {NoQuote}] :
        Sound(s, esc, p)}

Follows(s, esc, i, p) ==
    /\ p \in SoundPieces(s, esc)
    /\ p # Unterminated => p.first = i /\ i <= p.last

LEMMA FollowsMeans ==
    ASSUME NEW s \in Seq(Chars), NEW esc \in BOOLEAN, NEW i \in 1..Len(s),
           NEW e \in i..Len(s), NEW code \in BOOLEAN, NEW q \in Quotes \cup {NoQuote},
           Agrees(s, esc, e + 1, q),
           \A j \in i..e : j \in LexedCode(s, esc) <=> code /\ j = i
    PROVE  Follows(s, esc, i, Piece(i, e, code, q))
<1> DEFINE p == Piece(i, e, code, q)
<1>1. /\ p.first = i /\ p.last = e /\ p.code = code /\ p.quote = q
      /\ p \in [first : Nat, last : Nat, code : BOOLEAN, quote : Quotes \cup {NoQuote}]
    BY DEF Piece
<1> HIDE DEF p
<1>2. Sound(s, esc, p)
    BY <1>1 DEF Sound
<1>3. QED
    BY <1>1, <1>2 DEF Follows, SoundPieces, p

LEMMA UnterminatedFollows ==
    ASSUME NEW s \in Seq(Chars), NEW esc \in BOOLEAN, NEW i \in Nat, ~Lexes(s, esc)
    PROVE  Follows(s, esc, i, Unterminated)
<1>1. Unterminated \in
          [first : Nat, last : Nat, code : BOOLEAN, quote : Quotes \cup {NoQuote}]
    BY DEF Unterminated, Piece
<1>2. QED
    BY <1>1 DEF Follows, SoundPieces, Sound

\* In a literal or a quoted name.
LEMMA QuotedFollows ==
    ASSUME NEW s \in Seq(Chars), NEW esc \in BOOLEAN, NEW i \in 1..Len(s),
           NEW q \in Quotes, Agrees(s, esc, i, q)
    PROVE  Follows(s, esc, i, Quoted(s, esc, i, q))
<1> DEFINE m == Modes(s, esc)
<1>1. q # NoQuote /\ q # "\\"
    BY SqlTextAssumption DEF Others
<1>2. m[i - 1] = <<"in", q>>
    BY <1>1 DEF Agrees
<1>3. m[i] = (IF s[i] = q THEN <<"seen", q>>
              ELSE IF esc /\ s[i] = "\\" /\ q \in StringQuotes
                   THEN <<"escape", q>> ELSE <<"in", q>>)
    <2>1. m[i] = After(m[i - 1], s[i], esc) /\ s[i] \in Chars
        BY ModesStep
    <2>2. After(<<"in", q>>, s[i], esc) =
              (IF s[i] = q THEN <<"seen", q>>
               ELSE IF esc /\ s[i] = "\\" /\ q \in StringQuotes
                    THEN <<"escape", q>> ELSE <<"in", q>>)
        BY <2>1, AfterIn
    <2>3. QED
        BY <1>2, <2>1, <2>2
<1>4. m[i][1] \in {"seen", "escape", "in"} /\ i \notin LexedCode(s, esc)
    <2>1. m[i][1] \in {"seen", "escape", "in"}
        BY <1>3
    <2>2. QED
        BY <2>1, NotLexedCode
<1>5. ASSUME i < Len(s)
      PROVE  m[i + 1] = After(m[i], s[i + 1], esc) /\ s[i + 1] \in Chars
    <2>1. i + 1 \in 1..Len(s) /\ (i + 1) - 1 = i
        BY <1>5
    <2>2. QED
        BY <2>1, ModesStep
<1>6. CASE Escapes(s, esc, i, q) \/ (s[i] = q /\ Has(s, i + 1, q))
    <2>1. i < Len(s) /\ m[i + 1] = <<"in", q>>
        <3>1. i < Len(s)
            BY <1>6 DEF Escapes, Has
        <3>2. m[i + 1] = After(m[i], s[i + 1], esc) /\ s[i + 1] \in Chars
            BY <1>5, <3>1
        <3>3. CASE Escapes(s, esc, i, q)
            <4>1. m[i] = <<"escape", q>>
                BY <1>1, <1>3, <3>3 DEF Escapes
            <4>2. After(<<"escape", q>>, s[i + 1], esc) = <<"in", q>>
                BY <3>2, AfterEscape
            <4>3. QED
                BY <3>1, <3>2, <4>1, <4>2
        <3>4. CASE s[i] = q /\ Has(s, i + 1, q)
            <4>1. m[i] = <<"seen", q>> /\ s[i + 1] = q
                BY <1>3, <3>4 DEF Has
            <4>2. After(<<"seen", q>>, s[i + 1], esc) =
                      (IF s[i + 1] = q THEN <<"in", q>> ELSE AfterCode(s[i + 1]))
                BY <3>2, AfterSeen
            <4>3. QED
                BY <3>1, <3>2, <4>1, <4>2
        <3>5. QED
            BY <1>6, <3>3, <3>4
    <2>2. i + 1 \in i..Len(s)
        BY <2>1
    <2>3. i + 1 \notin LexedCode(s, esc)
        BY <2>1, <2>2, NotLexedCode
    <2>4. Agrees(s, esc, (i + 1) + 1, q)
        BY <1>1, <2>1 DEF Agrees
    <2>5. \A j \in i..(i + 1) : j \in LexedCode(s, esc) <=> FALSE /\ j = i
        BY <1>4, <2>3
    <2>6. Follows(s, esc, i, Piece(i, i + 1, FALSE, q))
        BY <2>2, <2>4, <2>5, FollowsMeans
    <2>7. QED
        BY <1>6, <2>6 DEF Quoted
<1>7. CASE ~(Escapes(s, esc, i, q) \/ (s[i] = q /\ Has(s, i + 1, q)))
    <2> DEFINE r == IF s[i] = q THEN NoQuote ELSE q
    <2>1. Agrees(s, esc, i + 1, r)
        <3>1. CASE s[i] = q
            <4>1. m[i] = <<"seen", q>> /\ r = NoQuote
                BY <1>3, <3>1
            <4>2. ASSUME i + 1 <= Len(s) PROVE m[i + 1] = AfterCode(s[i + 1])
                <5>1. i < Len(s) /\ s[i + 1] # q
                    BY <1>7, <3>1, <4>2 DEF Has
                <5>2. m[i + 1] = After(m[i], s[i + 1], esc) /\ s[i + 1] \in Chars
                    BY <1>5, <5>1
                <5>3. After(<<"seen", q>>, s[i + 1], esc) =
                          (IF s[i + 1] = q THEN <<"in", q>> ELSE AfterCode(s[i + 1]))
                    BY <5>2, AfterSeen
                <5>4. QED
                    BY <4>1, <5>1, <5>2, <5>3
            <4>3. m[(i + 1) - 1] = <<"seen", q>>
                BY <4>1
            <4>4. QED
                BY <4>1, <4>2, <4>3 DEF Agrees
        <3>2. CASE s[i] # q
            <4>1. m[i] = <<"in", q>> \/ (i = Len(s) /\ m[i] = <<"escape", q>>)
                BY <1>3, <1>7, <3>2 DEF Escapes
            <4>2. QED
                BY <1>1, <3>2, <4>1 DEF Agrees
        <3>3. QED
            BY <3>1, <3>2
    <2>2. \A j \in i..i : j \in LexedCode(s, esc) <=> FALSE /\ j = i
        BY <1>4
    <2>3. i \in i..Len(s) /\ r \in Quotes \cup {NoQuote}
        OBVIOUS
    <2> HIDE DEF r
    <2>4. Follows(s, esc, i, Piece(i, i, FALSE, r))
        BY <2>1, <2>2, <2>3, FollowsMeans
    <2>5. QED
        BY <1>7, <2>4 DEF Quoted, r
<1>8. QED
    BY <1>6, <1>7

LEMMA CharsDiffer ==
    ASSUME NEW c \in Quotes
    PROVE  c \notin {"\\", "-", "/", "*", "\n"} /\ c # NoQuote
BY SqlTextAssumption DEF Others

\* What the lexer makes of the first character of a piece outside quotes.
LEMMA UnquotedMeans ==
    ASSUME NEW s \in Seq(Chars), NEW esc \in BOOLEAN, NEW i \in 1..Len(s),
           Agrees(s, esc, i, NoQuote)
    PROVE  /\ Modes(s, esc)[i] = AfterCode(s[i])
           /\ i < Len(s) => /\ Modes(s, esc)[i + 1] = After(AfterCode(s[i]), s[i + 1], esc)
                            /\ s[i + 1] \in Chars
<1>1. Modes(s, esc)[i] = AfterCode(s[i])
    BY DEF Agrees
<1>2. ASSUME i < Len(s)
      PROVE  /\ Modes(s, esc)[i + 1] = After(AfterCode(s[i]), s[i + 1], esc)
             /\ s[i + 1] \in Chars
    <2>1. i + 1 \in 1..Len(s) /\ (i + 1) - 1 = i
        BY <1>2
    <2>2. QED
        BY <1>1, <2>1, ModesStep
<1>3. QED
    BY <1>1, <1>2

LEMMA LineCommentFollows ==
    ASSUME NEW s \in Seq(Chars), NEW esc \in BOOLEAN, NEW i \in 1..Len(s),
           Agrees(s, esc, i, NoQuote), s[i] = "-", Has(s, i + 1, "-")
    PROVE  Follows(s, esc, i, LineComment(s, i))
<1> DEFINE m == Modes(s, esc)
           ends == {j \in i..Len(s) : s[j] = "\n"} \cup {Len(s) + 1}
           e == Smallest(ends)
<1>1. Len(s) \in Nat /\ i < Len(s) /\ s[i + 1] = "-" /\ i + 1 \in 1..Len(s)
    BY DEF Has
<1>2. m[i] = <<"dash">> /\ m[i + 1] = <<"line">>
    <2>1. m[i] = AfterCode("-") /\ m[i + 1] = After(AfterCode("-"), "-", esc)
          /\ "-" \in Chars
        BY <1>1, UnquotedMeans
    <2>2. AfterCode("-") = <<"dash">>
        BY <2>1, AfterCodeMeans
    <2>3. After(<<"dash">>, "-", esc) = <<"line">>
        BY <2>1, AfterMeans
    <2>4. QED
        BY <2>1, <2>2, <2>3
<1>3. e \in ends /\ \A j \in ends : e <= j
    <2>1. ends \in SUBSET Nat /\ ends # {}
        BY <1>1
    <2> HIDE DEF ends
    <2>2. QED
        BY <2>1, SmallestMeans
<1>4. e \in (i + 2)..(Len(s) + 1)
    BY <1>1, <1>3
<1>5. \A j \in i..Len(s) : j < e => s[j] # "\n"
    BY <1>3
<1>6. e <= Len(s) => s[e] = "\n"
    BY <1>3
<1> HIDE DEF ends, e
<1> DEFINE T == {k \in 0..(e - i - 2) : m[i + 1 + k] = <<"line">>}
<1>7. 0..(e - i - 2) \subseteq T
    <2>1. 0 \in T
        BY <1>1, <1>2, <1>4
    <2>2. ASSUME NEW k \in 1..(e - i - 2), k - 1 \in T PROVE k \in T
        <3> DEFINE j == i + 1 + k
        <3>1. j \in 1..Len(s) /\ j < e /\ j - 1 = i + 1 + (k - 1) /\ j \in i..Len(s)
            BY <1>1, <1>4
        <3>2. m[j - 1] = <<"line">>
            BY <2>2, <3>1
        <3> HIDE DEF j
        <3>3. m[j] = After(<<"line">>, s[j], esc) /\ s[j] \in Chars
            BY <3>1, <3>2, ModesStep
        <3>4. After(<<"line">>, s[j], esc) = <<"line">>
            BY <1>5, <3>1, <3>3, AfterMeans
        <3>5. QED
            BY <3>3, <3>4 DEF j
    <2>3. e - i - 2 \in Nat
        BY <1>1, <1>4
    <2> HIDE DEF T
    <2>4. QED
        BY <2>1, <2>2, <2>3, Positions
<1>8. \A j \in (i + 1)..(e - 1) : m[j] = <<"line">>
    <2>1. TAKE j \in (i + 1)..(e - 1)
    <2>2. j - i - 1 \in 0..(e - i - 2) /\ i + 1 + (j - i - 1) = j
        BY <1>1, <1>4
    <2>3. QED
        BY <1>7, <2>2
<1>9. Agrees(s, esc, (e - 1) + 1, NoQuote)
    <2>1. m[e - 1] = <<"line">> /\ (e - 1) + 1 = e
        BY <1>1, <1>4, <1>8
    <2>2. ASSUME e <= Len(s) PROVE m[e] = AfterCode(s[e])
        <3>1. e \in 1..Len(s) /\ s[e] = "\n"
            BY <1>1, <1>4, <1>6, <2>2
        <3>2. m[e] = After(<<"line">>, "\n", esc) /\ "\n" \in Chars
            BY <2>1, <3>1, ModesStep
        <3>3. After(<<"line">>, "\n", esc) = <<"code">>
            BY <3>2, AfterMeans
        <3>4. AfterCode("\n") = <<"code">>
            <4>1. "\n" \in Others \ {"-", "/"}
                BY DEF Others
            <4>2. QED
                BY <3>2, <4>1, AfterCodeMeans
        <3>5. QED
            BY <3>1, <3>2, <3>3, <3>4
    <2>3. QED
        BY <2>1, <2>2 DEF Agrees
<1>10. \A j \in i..(e - 1) : j \in LexedCode(s, esc) <=> FALSE /\ j = i
    <2>1. TAKE j \in i..(e - 1)
    <2>2. CASE j = i
        BY <1>1, <1>2, <2>2 DEF LexedCode
    <2>3. CASE j # i
        <3>1. j \in 1..Len(s) /\ m[j] = <<"line">>
            BY <1>1, <1>4, <1>8, <2>3
        <3>2. QED
            BY <3>1, NotLexedCode
    <2>4. QED
        BY <2>2, <2>3
<1>11. e - 1 \in i..Len(s)
    BY <1>1, <1>4
<1>12. Follows(s, esc, i, Piece(i, e - 1, FALSE, NoQuote))
    BY <1>9, <1>10, <1>11, FollowsMeans
<1>13. QED
    BY <1>12 DEF LineComment, e, ends

LEMMA BlockCommentFollows ==
    ASSUME NEW s \in Seq(Chars), NEW esc \in BOOLEAN, NEW i \in 1..Len(s),
           Agrees(s, esc, i, NoQuote), s[i] = "/", Has(s, i + 1, "*")
    PROVE  Follows(s, esc, i, BlockComment(s, i))
<1> DEFINE n == Len(s)
           m == Modes(s, esc)
           ends == {j \in (i + 3)..n : s[j - 1] = "*" /\ s[j] = "/"}
           Inside(j) == m[j] = IF s[j] = "*" THEN <<"star">> ELSE <<"block">>
<1>1. n \in Nat /\ i < n /\ s[i + 1] = "*" /\ i + 1 \in 1..n
    BY DEF Has
<1>2. m[i] = <<"slash">> /\ m[i + 1] = <<"block">>
    <2>1. m[i] = AfterCode("/") /\ m[i + 1] = After(AfterCode("/"), "*", esc)
          /\ "/" \in Chars /\ "*" \in Chars
        BY <1>1, UnquotedMeans
    <2>2. AfterCode("/") = <<"slash">>
        BY <2>1, AfterCodeMeans
    <2>3. After(<<"slash">>, "*", esc) = <<"block">>
        BY <2>1, AfterMeans
    <2>4. QED
        BY <2>1, <2>2, <2>3
<1>3. /\ i \notin LexedCode(s, esc)
      /\ i + 1 \notin LexedCode(s, esc)
    <2>1. i \notin LexedCode(s, esc)
        BY <1>1, <1>2 DEF LexedCode
    <2>2. QED
        BY <1>1, <1>2, <2>1, NotLexedCode
\* Inside the comment, up to b and not beyond its end.
<1>4. ASSUME NEW b \in (i + 1)..n, \A j \in ends : b < j
      PROVE  \A j \in (i + 2)..b : Inside(j)
    <2> DEFINE T == {k \in 0..(b - i - 1) : k = 0 \/ Inside(i + 1 + k)}
    <2>1. 0 \in T
        BY <1>1
    <2>2. ASSUME NEW k \in 1..(b - i - 1), k - 1 \in T PROVE k \in T
        <3> DEFINE j == i + 1 + k
        <3>1. j \in 1..n /\ j <= b /\ j - 1 = i + 1 + (k - 1) /\ j >= i + 2 /\ j \in Nat
            BY <1>1
        <3>2. m[j] = After(m[j - 1], s[j], esc) /\ s[j] \in Chars
            BY <3>1, ModesStep
        <3>3. CASE m[j - 1] = <<"block">>
            <4>1. After(<<"block">>, s[j], esc) =
                      (IF s[j] = "*" THEN <<"star">> ELSE <<"block">>)
                BY <3>2, AfterMeans
            <4>2. Inside(j)
                BY <3>2, <3>3, <4>1
            <4>3. QED
                BY <4>2
        <3>4. CASE m[j - 1] # <<"block">>
            <4>1. k # 1
                <5>1. k = 1 => j - 1 = i + 1
                    OBVIOUS
                <5>2. QED
                    BY <1>2, <3>4, <5>1
            <4>2. Inside(j - 1)
                <5>1. k - 1 # 0
                    BY <4>1
                <5>2. QED
                    BY <2>2, <3>1, <5>1
            <4>3. m[j - 1] = <<"star">> /\ s[j - 1] = "*"
                BY <3>4, <4>2
            <4>4. s[j] # "/"
                <5>1. j \in (i + 3)..n /\ ~(b < j)
                    BY <3>1, <4>1
                <5>2. QED
                    BY <1>4, <4>3, <5>1
            <4>5. After(<<"star">>, s[j], esc) =
                 (IF s[j] = "/" THEN <<"closed">>
                  ELSE IF s[j] = "*" THEN <<"star">> ELSE <<"block">>)
                BY <3>2, AfterMeans
            <4>6. Inside(j)
                BY <3>2, <4>3, <4>4, <4>5
            <4>7. QED
                BY <4>6
        <3>5. QED
            BY <3>3, <3>4
    <2>3. b - i - 1 \in Nat
        BY <1>1
    <2>4. 0..(b - i - 1) \subseteq T
        <3> HIDE DEF T
        <3>1. QED
            BY <2>1, <2>2, <2>3, Positions
    <2>5. TAKE j \in (i + 2)..b
    <2>6. j - i - 1 \in 0..(b - i - 1) /\ j - i - 1 # 0 /\ i + 1 + (j - i - 1) = j
        BY <1>1
    <2>7. QED
        BY <2>4, <2>6
<1>5. CASE ends = {}
    <2>1. \A j \in (i + 2)..n : Inside(j)
        <3>1. n \in (i + 1)..n
            BY <1>1
        <3>2. QED
            BY <1>4, <1>5, <3>1
    <2>2. m[n] = <<"block">> \/ m[n] = <<"star">>
        <3>1. CASE n = i + 1
            BY <1>2, <3>1
        <3>2. CASE n # i + 1
            <4>1. n \in (i + 2)..n
                BY <1>1, <3>2
            <4>2. QED
                BY <2>1, <4>1
        <3>3. QED
            BY <3>1, <3>2
    <2>3. ~Lexes(s, esc)
        BY <2>2 DEF Lexes
    <2>4. Follows(s, esc, i, Unterminated)
        BY <2>3, UnterminatedFollows
    <2>5. QED
        BY <1>5, <2>4 DEF BlockComment
<1>6. CASE ends # {}
    <2> DEFINE e == Smallest(ends)
    <2>1. e \in ends /\ \A j \in ends : e <= j
        <3>1. ends \in SUBSET Nat
            BY <1>1
        <3> HIDE DEF ends
        <3>2. QED
            BY <1>6, <3>1, SmallestMeans
    <2>2. e \in (i + 3)..n /\ s[e - 1] = "*" /\ s[e] = "/"
        BY <2>1
    <2> HIDE DEF e
    <2>3. \A j \in (i + 2)..(e - 1) : Inside(j)
        <3>1. e - 1 \in (i + 1)..n /\ \A j \in ends : e - 1 < j
            BY <1>1, <2>1, <2>2
        <3> HIDE DEF ends
        <3>2. QED
            BY <1>4, <3>1
    <2>4. m[e] = <<"closed">>
        <3>1. e \in 1..n /\ e - 1 \in (i + 2)..(e - 1)
            BY <1>1, <2>2
        <3>2. m[e - 1] = <<"star">>
            BY <2>2, <2>3, <3>1
        <3>3. m[e] = After(<<"star">>, "/", esc) /\ "/" \in Chars
            BY <2>2, <3>1, <3>2, ModesStep
        <3>4. After(<<"star">>, "/", esc) = <<"closed">>
            BY <3>3, AfterMeans
        <3>5. QED
            BY <3>3, <3>4
    <2>5. Agrees(s, esc, e + 1, NoQuote)
        <3>1. ASSUME e + 1 <= n PROVE m[e + 1] = AfterCode(s[e + 1])
            <4>1. e + 1 \in 1..n /\ (e + 1) - 1 = e
                BY <1>1, <2>2, <3>1
            <4>2. m[e + 1] = After(<<"closed">>, s[e + 1], esc) /\ s[e + 1] \in Chars
                BY <2>4, <4>1, ModesStep
            <4>3. QED
                BY <4>2, AfterMeans
        <3>2. (e + 1) - 1 = e
            BY <1>1, <2>2
        <3>3. QED
            BY <2>4, <3>1, <3>2 DEF Agrees
    <2>6. \A j \in i..e : j \in LexedCode(s, esc) <=> FALSE /\ j = i
        <3>1. TAKE j \in i..e
        <3>2. CASE j = i \/ j = i + 1
            BY <1>3, <3>2
        <3>3. CASE j # i /\ j # i + 1
            <4>1. j \in 1..n /\ (j = e \/ j \in (i + 2)..(e - 1))
                BY <1>1, <2>2, <3>3
            <4>2. m[j] = <<"closed">> \/ m[j] = <<"star">> \/ m[j] = <<"block">>
                BY <2>3, <2>4, <4>1
            <4>3. m[j][1] \notin {"code", "dash", "slash"}
                BY <4>2
            <4>4. QED
                BY <4>1, <4>3, NotLexedCode
        <3>4. QED
            BY <3>2, <3>3
    <2>7. e \in i..n
        BY <1>1, <2>2
    <2>8. Follows(s, esc, i, Piece(i, e, FALSE, NoQuote))
        BY <2>5, <2>6, <2>7, FollowsMeans
    <2>9. QED
        BY <1>6, <2>8 DEF BlockComment, e
<1>7. QED
    BY <1>5, <1>6

LEMMA UnquotedFollows ==
    ASSUME NEW s \in Seq(Chars), NEW esc \in BOOLEAN, NEW i \in 1..Len(s),
           Agrees(s, esc, i, NoQuote)
    PROVE  Follows(s, esc, i, Unquoted(s, i))
<1> DEFINE m == Modes(s, esc)
           c == s[i]
           line == c = "-" /\ Has(s, i + 1, "-")
           block == c = "/" /\ Has(s, i + 1, "*")
<1>1. c \in Chars /\ m[i] = AfterCode(c)
    BY ModesStep, UnquotedMeans
<1>2. CASE c \in Quotes
    <2>1. m[i] = <<"in", c>>
        BY <1>1, <1>2, AfterCodeMeans
    <2>2. i \notin LexedCode(s, esc)
        BY <2>1, NotLexedCode
    <2>3. Agrees(s, esc, i + 1, c)
        <3>1. c # NoQuote
            BY <1>2, CharsDiffer
        <3>2. QED
            BY <2>1, <3>1 DEF Agrees
    <2>4. \A j \in i..i : j \in LexedCode(s, esc) <=> FALSE /\ j = i
        BY <2>2
    <2>5. i \in i..Len(s) /\ c \in Quotes \cup {NoQuote}
        BY <1>2
    <2> HIDE DEF c
    <2>6. Follows(s, esc, i, Piece(i, i, FALSE, c))
        BY <2>3, <2>4, <2>5, FollowsMeans
    <2>7. Unquoted(s, i) = Piece(i, i, FALSE, c)
        <3>1. c # "-" /\ c # "/"
            BY <1>2, CharsDiffer
        <3>2. QED
            BY <1>2, <3>1 DEF Unquoted, c
    <2>8. QED
        BY <2>6, <2>7
<1>3. CASE line
    <2>1. c \notin Quotes
        BY <1>3, CharsDiffer
    <2>2. Unquoted(s, i) = LineComment(s, i)
        BY <1>3, <2>1 DEF Unquoted
    <2>3. QED
        BY <1>3, <2>2, LineCommentFollows
<1>4. CASE block
    <2>1. c \notin Quotes
        BY <1>4, CharsDiffer
    <2>2. Unquoted(s, i) = BlockComment(s, i)
        BY <1>4, <2>1 DEF Unquoted
    <2>3. QED
        BY <1>4, <2>2, BlockCommentFollows
<1>5. CASE c \notin Quotes /\ ~line /\ ~block
    <2>1. m[i] = (IF c = "-" THEN <<"dash">> ELSE IF c = "/" THEN <<"slash">> ELSE <<"code">>)
        <3>1. c \in Others
            BY <1>1, <1>5 DEF Chars
        <3>2. QED
            BY <1>1, <3>1, AfterCodeMeans
    <2>2. ASSUME i < Len(s)
          PROVE  /\ m[i + 1] = AfterCode(s[i + 1])
                 /\ AfterCode(s[i + 1])[1] \in {"in", "dash", "slash", "code"}
        <3> DEFINE d == s[i + 1]
        <3>1. d \in Chars /\ m[i + 1] = After(m[i], d, esc)
            BY <1>1, <2>2, UnquotedMeans
        <3>2. (c = "-" => d # "-") /\ (c = "/" => d # "*")
            BY <1>5, <2>2 DEF Has
        <3> HIDE DEF d
        <3>3. After(m[i], d, esc) = AfterCode(d)
            <4>1. CASE c = "-"
                BY <2>1, <3>1, <3>2, <4>1, AfterMeans
            <4>2. CASE c = "/"
                BY <2>1, <3>1, <3>2, <4>2, AfterMeans
            <4>3. CASE c # "-" /\ c # "/"
                BY <2>1, <3>1, <4>3, AfterMeans
            <4>4. QED
                BY <4>1, <4>2, <4>3
        <3>4. AfterCode(d)[1] \in {"in", "dash", "slash", "code"}
            BY <3>1, AfterCodeMeans
        <3>5. QED
            BY <3>1, <3>3, <3>4 DEF d
    <2>3. i \in LexedCode(s, esc)
        <3>1. i = Len(s) \/ (m[i + 1] # <<"line">> /\ m[i + 1] # <<"block">>)
            <4>1. i = Len(s) \/ i < Len(s)
                OBVIOUS
            <4>2. QED
                BY <2>2, <4>1
        <3>2. QED
            BY <2>1, <3>1 DEF LexedCode
    <2>4. Agrees(s, esc, i + 1, NoQuote)
        <3>1. m[i][1] \in {"dash", "slash", "code"}
            BY <2>1
        <3>2. i + 1 <= Len(s) => m[i + 1] = AfterCode(s[i + 1])
            BY <2>2
        <3>3. QED
            BY <3>1, <3>2 DEF Agrees
    <2>5. \A j \in i..i : j \in LexedCode(s, esc) <=> TRUE /\ j = i
        BY <2>3
    <2>6. i \in i..Len(s)
        OBVIOUS
    <2>7. Follows(s, esc, i, Piece(i, i, TRUE, NoQuote))
        BY <2>4, <2>5, <2>6, FollowsMeans
    <2>8. Unquoted(s, i) = Piece(i, i, TRUE, NoQuote)
        BY <1>5 DEF Unquoted
    <2>9. QED
        BY <2>7, <2>8
<1>6. QED
    BY <1>2, <1>3, <1>4, <1>5

-----------------------------------------------------------------------------
(* The turns of the scanner's loop.                                        *)
LEMMA PiecesAre ==
    ASSUME NEW s \in Seq(Chars), NEW esc \in BOOLEAN, NEW p \in SoundPieces(s, esc)
    PROVE  /\ p.first \in Nat /\ p.last \in 0..Len(s)
           /\ p.code \in BOOLEAN /\ p.quote \in Quotes \cup {NoQuote}
           /\ p # Unterminated =>
                 /\ p.first \in 1..(Len(s) + 1) /\ p.last \in (p.first - 1)..Len(s)
                 /\ Agrees(s, esc, p.last + 1, p.quote)
                 /\ \A j \in p.first..p.last :
                        j \in LexedCode(s, esc) <=> p.code /\ j = p.first
           /\ p = Unterminated => ~Lexes(s, esc)
<1>1. Len(s) \in Nat
    OBVIOUS
<1>2. Unterminated.last = 0 /\ Unterminated.first = 0
    BY DEF Unterminated, Piece
<1>3. /\ p \in [first : Nat, last : Nat, code : BOOLEAN, quote : Quotes \cup {NoQuote}]
      /\ Sound(s, esc, p)
    BY DEF SoundPieces
<1>4. QED
    BY <1>1, <1>2, <1>3 DEF Sound

\* What the generator yields after a sound piece is a sound piece that
\* begins where that one ended.
LEMMA StepFollows ==
    ASSUME NEW s \in Seq(Chars), NEW esc \in BOOLEAN,
           NEW p \in SoundPieces(s, esc), ~Ended(s, p)
    PROVE  Follows(s, esc, p.last + 1, AfterPiece(s, esc, p))
<1>1. p # Unterminated /\ ~(p.last = Len(s) /\ p.quote = NoQuote)
    BY DEF Ended
<1>2. /\ p.last \in 0..Len(s) /\ Agrees(s, esc, p.last + 1, p.quote)
      /\ p.quote \in Quotes \cup {NoQuote}
    BY <1>1, PiecesAre
<1>3. CASE p.last = Len(s)
    <2>1. p.quote # NoQuote
        BY <1>1, <1>3
    <2>2. \/ Modes(s, esc)[Len(s)] = <<"in", p.quote>>
          \/ Modes(s, esc)[Len(s)] = <<"escape", p.quote>>
        BY <1>2, <1>3, <2>1 DEF Agrees
    <2>3. ~Lexes(s, esc)
        BY <2>2 DEF Lexes
    <2>4. QED
        BY <1>2, <1>3, <2>3, UnterminatedFollows DEF AfterPiece
<1>4. CASE p.last # Len(s)
    <2>1. p.last + 1 \in 1..Len(s)
        BY <1>2, <1>4
    <2>2. CASE p.quote = NoQuote
        BY <1>2, <1>4, <2>1, <2>2, UnquotedFollows DEF AfterPiece
    <2>3. CASE p.quote \in Quotes
        <3>1. p.quote # NoQuote
            BY <2>3, CharsDiffer
        <3>2. QED
            BY <1>2, <1>4, <2>1, <2>3, <3>1, QuotedFollows DEF AfterPiece
    <2>4. QED
        BY <1>2, <2>2, <2>3
<1>5. QED
    BY <1>3, <1>4

LEMMA BeginningIsSound ==
    ASSUME NEW s \in Seq(Chars), NEW esc \in BOOLEAN
    PROVE  Beginning \in SoundPieces(s, esc) /\ Beginning # Unterminated /\ Beginning.last = 0
<1>1. /\ Beginning.first = 1 /\ Beginning.last = 0 /\ Beginning.quote = NoQuote
      /\ Beginning \in [first : Nat, last : Nat, code : BOOLEAN, quote : Quotes \cup {NoQuote}]
      /\ Beginning # Unterminated
    BY DEF Beginning, Piece, Unterminated
<1>2. Agrees(s, esc, 1, NoQuote)
    <2>1. Modes(s, esc)[0] = <<"code">>
        BY ModesMeans
    <2>2. ASSUME 1 <= Len(s) PROVE Modes(s, esc)[1] = AfterCode(s[1])
        <3>1. 1 \in 1..Len(s) /\ 1 - 1 = 0
            BY <2>2
        <3>2. Modes(s, esc)[1] = After(<<"code">>, s[1], esc) /\ s[1] \in Chars
            BY <2>1, <3>1, ModesStep
        <3>3. QED
            BY <3>2, AfterMeans
    <2>3. QED
        BY <2>1, <2>2 DEF Agrees
<1>3. Sound(s, esc, Beginning)
    <2>1. Len(s) \in Nat
        OBVIOUS
    <2>2. QED
        BY <1>1, <1>2, <2>1 DEF Sound
<1>4. QED
    BY <1>1, <1>3 DEF SoundPieces

LEMMA YieldsMeans ==
    ASSUME NEW s \in Seq(Chars), NEW esc \in BOOLEAN
    PROVE  /\ \A k \in 0..(Len(s) + 1) : Yields(s, esc)[k] \in SoundPieces(s, esc)
           /\ Yields(s, esc)[0] = Beginning
           /\ \A k \in 1..(Len(s) + 1) :
                  Yields(s, esc)[k] =
                      IF Ended(s, Yields(s, esc)[k - 1]) THEN Yields(s, esc)[k - 1]
                      ELSE AfterPiece(s, esc, Yields(s, esc)[k - 1])
<1> DEFINE n == Len(s) + 1
           A == SoundPieces(s, esc)
           Turn(p) == IF Ended(s, p) THEN p ELSE AfterPiece(s, esc, p)
           F == [k \in 1..n |-> [p \in A |-> Turn(p)]]
           G(y) == [k \in 0..n |-> IF k = 0 THEN Beginning ELSE Turn(y[k - 1])]
           y == Yields(s, esc)
<1>1. n \in Nat /\ Beginning \in A
    BY BeginningIsSound
<1>2. ASSUME NEW p \in A PROVE Turn(p) \in A
    BY StepFollows DEF Follows
<1>3. F \in Turns(n, A)
    BY <1>2 DEF Turns
<1>4. PICK g : Trace(g, n, A, Beginning, F)
    <2> HIDE DEF F, n, A
    <2>1. QED
        BY <1>1, <1>3, Iterates
<1>5. g \in [0..n -> A] /\ g[0] = Beginning /\ \A k \in 1..n : g[k] = F[k][g[k - 1]]
    BY <1>4 DEF Trace
<1>6. ASSUME NEW k \in 1..n PROVE g[k] = Turn(g[k - 1])
    <2>1. g[k - 1] \in A
        BY <1>1, <1>5
    <2>2. F[k] = [p \in A |-> Turn(p)]
        OBVIOUS
    <2> HIDE DEF F, Turn, A
    <2>3. F[k][g[k - 1]] = Turn(g[k - 1])
        BY <2>1, <2>2
    <2>4. QED
        BY <1>5, <2>3
<1>7. g = G(g)
    <2> HIDE DEF Turn
    <2>1. ASSUME NEW k \in 0..n PROVE g[k] = G(g)[k]
        <3>1. CASE k = 0
            BY <1>5, <3>1
        <3>2. CASE k # 0
            BY <1>1, <1>6, <3>2
        <3>3. QED
            BY <3>1, <3>2
    <2>2. g = [k \in 0..n |-> g[k]]
        BY <1>5
    <2>3. [k \in 0..n |-> g[k]] = [k \in 0..n |-> G(g)[k]]
        BY <2>1, Zenon
    <2>4. G(g) = [k \in 0..n |-> G(g)[k]]
        BY Zenon
    <2>5. QED
        BY <2>2, <2>3, <2>4, Zenon
<1>8. y = CHOOSE f : f = G(f)
    BY DEF Yields
<1> HIDE DEF y, Turn
<1>9. y = G(y)
    BY <1>7, <1>8
<1>10. y[0] = Beginning /\ \A k \in 1..n : y[k] = Turn(y[k - 1])
    BY <1>1, <1>9
<1> DEFINE T == {k \in 0..n : y[k] \in A}
<1>11. 0..n \subseteq T
    <2>1. 0 \in T
        BY <1>1, <1>10
    <2>2. ASSUME NEW k \in 1..n, k - 1 \in T PROVE k \in T
        BY <1>1, <1>2, <1>10, <2>2
    <2>3. QED
        BY <1>1, <2>1, <2>2, Positions
<1>12. QED
    BY <1>10, <1>11 DEF Turn, y

\* The generator ends: each turn takes a character, or is the last.  Its
\* pieces are those of the turns up to t.
TurnsMade(s, esc, t) ==
    /\ t \in 0..(Len(s) + 1) /\ Scan(s, esc) = [k \in 1..t |-> Yields(s, esc)[k]]
    /\ Ended(s, Yields(s, esc)[t])
    /\ \A k \in 1..t : ~Ended(s, Yields(s, esc)[k - 1])

LEMMA ScanMeans ==
    ASSUME NEW s \in Seq(Chars), NEW esc \in BOOLEAN
    PROVE  \E t : TurnsMade(s, esc, t)
<1> DEFINE n == Len(s) + 1
           y == Yields(s, esc)
           stops == {k \in 0..n : Ended(s, y[k])}
           t == Smallest(stops)
           T == {k \in 0..n : Ended(s, y[k]) \/ y[k].last >= k}
<1>1. n \in Nat
    OBVIOUS
<1>2. 0..n \subseteq T
    <2>1. 0 \in T
        BY <1>1, YieldsMeans, BeginningIsSound
    <2>2. ASSUME NEW k \in 1..n, k - 1 \in T PROVE k \in T
        <3> DEFINE p == y[k - 1]
        <3>1. k - 1 \in 0..n /\ p \in SoundPieces(s, esc)
            BY <1>1, YieldsMeans
        <3>2. y[k] = IF Ended(s, p) THEN p ELSE AfterPiece(s, esc, p)
            BY YieldsMeans
        <3>3. CASE Ended(s, p)
            BY <3>2, <3>3
        <3>4. CASE ~Ended(s, p)
            <4>1. Follows(s, esc, p.last + 1, y[k])
                BY <3>1, <3>2, <3>4, StepFollows
            <4>2. CASE y[k] = Unterminated
                BY <4>2 DEF Ended
            <4>3. CASE y[k] # Unterminated
                <5>1. p.last + 1 <= y[k].last
                    BY <4>1, <4>3 DEF Follows
                <5>2. p.last >= k - 1
                    BY <2>2, <3>4
                <5>3. p.last \in Nat /\ y[k].last \in Nat
                    <6>1. y[k] \in SoundPieces(s, esc)
                        BY <4>1 DEF Follows
                    <6>2. QED
                        BY <3>1, <6>1, PiecesAre
                <5>4. QED
                    BY <5>1, <5>2, <5>3
            <4>4. QED
                BY <4>2, <4>3
        <3>5. QED
            BY <3>3, <3>4
    <2> HIDE DEF T
    <2>3. QED
        BY <1>1, <2>1, <2>2, Positions
<1>3. n \in stops
    <2>1. n \in 0..n /\ y[n] \in SoundPieces(s, esc)
        BY <1>1, YieldsMeans
    <2>2. y[n].last \in 0..Len(s)
        BY <2>1, PiecesAre
    <2>3. Ended(s, y[n]) \/ y[n].last >= n
        BY <1>2, <2>1
    <2>4. QED
        BY <2>1, <2>2, <2>3
<1>4. t \in stops /\ \A k \in stops : t <= k
    <2>1. stops \in SUBSET Nat /\ stops # {}
        BY <1>1, <1>3
    <2> HIDE DEF stops
    <2>2. QED
        BY <2>1, SmallestMeans
<1>5. Scan(s, esc) = [k \in 1..t |-> y[k]]
    BY DEF Scan
<1> HIDE DEF t
<1>6. t \in 0..n /\ Ended(s, y[t])
    BY <1>4
<1>7. ASSUME NEW k \in 1..t PROVE ~Ended(s, y[k - 1])
    <2>1. k - 1 \in 0..n /\ ~(t <= k - 1)
        BY <1>1, <1>6
    <2>2. QED
        BY <1>4, <2>1
<1>8. TurnsMade(s, esc, t)
    BY <1>5, <1>6, <1>7 DEF TurnsMade
<1>9. QED
    BY <1>8

\* The piece of each turn.
LEMMA TurnMeans ==
    ASSUME NEW s \in Seq(Chars), NEW esc \in BOOLEAN, NEW t, TurnsMade(s, esc, t),
           NEW k \in 1..t
    PROVE  /\ Yields(s, esc)[k] \in SoundPieces(s, esc)
           /\ Yields(s, esc)[k - 1] \in SoundPieces(s, esc)
           /\ Yields(s, esc)[k - 1] # Unterminated
           /\ Yields(s, esc)[k] # Unterminated =>
                  /\ Yields(s, esc)[k].first = Yields(s, esc)[k - 1].last + 1
                  /\ Yields(s, esc)[k].first <= Yields(s, esc)[k].last
<1> DEFINE y == Yields(s, esc)
<1>1. k \in 1..(Len(s) + 1) /\ k - 1 \in 0..(Len(s) + 1) /\ k \in 0..(Len(s) + 1)
    BY DEF TurnsMade
<1>2. ~Ended(s, y[k - 1])
    BY DEF TurnsMade
<1>3. y[k] = AfterPiece(s, esc, y[k - 1])
    BY <1>1, <1>2, YieldsMeans
<1>4. y[k - 1] \in SoundPieces(s, esc)
    BY <1>1, YieldsMeans
<1>5. Follows(s, esc, y[k - 1].last + 1, y[k])
    BY <1>2, <1>3, <1>4, StepFollows
<1>6. y[k - 1] # Unterminated
    BY <1>2 DEF Ended
<1>7. QED
    BY <1>4, <1>5, <1>6 DEF Follows

LEMMA ScansMeans ==
    ASSUME NEW s \in Seq(Chars), NEW esc \in BOOLEAN, NEW t, TurnsMade(s, esc, t)
    PROVE  /\ Scans(s, esc) <=> Yields(s, esc)[t] # Unterminated
           /\ Scans(s, esc) <=> Lexes(s, esc)
           /\ Scans(s, esc) => \A k \in 1..t : Yields(s, esc)[k] # Unterminated
           /\ Scans(s, esc) => Yields(s, esc)[t].last = Len(s)
<1> DEFINE y == Yields(s, esc)
<1>1. /\ t \in 0..(Len(s) + 1) /\ Scan(s, esc) = [k \in 1..t |-> y[k]]
      /\ Ended(s, y[t]) /\ y[t] \in SoundPieces(s, esc)
    BY YieldsMeans DEF TurnsMade
<1>2. ToSet(Scan(s, esc)) = {y[k] : k \in 1..t}
    BY <1>1 DEF ToSet
<1>3. t = 0 => y[t] # Unterminated
    BY YieldsMeans, BeginningIsSound
<1>4. ASSUME NEW k \in 1..t, y[k] = Unterminated PROVE k = t
    <2>1. CASE k # t
        <3>1. k + 1 \in 1..t /\ (k + 1) - 1 = k
            BY <1>1, <2>1
        <3>2. QED
            BY <1>4, <3>1, TurnMeans
    <2>2. QED
        BY <2>1
<1>5. Scans(s, esc) <=> y[t] # Unterminated
    <2>1. Scans(s, esc) <=> \A k \in 1..t : y[k] # Unterminated
        BY <1>2 DEF Scans
    <2>2. t = 0 \/ t \in 1..t
        BY <1>1
    <2>3. QED
        BY <1>3, <1>4, <2>1, <2>2
<1>6. CASE y[t] = Unterminated
    BY <1>1, <1>5, <1>6, PiecesAre
<1>7. CASE y[t] # Unterminated
    <2>1. y[t].last = Len(s) /\ y[t].quote = NoQuote
        BY <1>1, <1>7 DEF Ended
    <2>2. Agrees(s, esc, Len(s) + 1, NoQuote)
        BY <1>1, <1>7, <2>1, PiecesAre
    <2>3. (Len(s) + 1) - 1 = Len(s)
        OBVIOUS
    <2>4. Lexes(s, esc)
        BY <2>2, <2>3 DEF Agrees, Lexes
    <2>5. \A k \in 1..t : y[k] # Unterminated
        BY <1>4, <1>7
    <2>6. QED
        BY <1>5, <1>7, <2>1, <2>4, <2>5
<1>8. QED
    BY <1>6, <1>7

\* What callers may look at.
LEMMA CodeMeans ==
    ASSUME NEW s \in Seq(Chars), NEW esc \in BOOLEAN, NEW t, TurnsMade(s, esc, t),
           Scans(s, esc)
    PROVE  Code(s, esc) = LexedCode(s, esc)
<1> DEFINE y == Yields(s, esc)
<1>1. t \in 0..(Len(s) + 1) /\ Scan(s, esc) = [k \in 1..t |-> y[k]]
    BY DEF TurnsMade
<1>2. Code(s, esc) = {p.first : p \in {x \in {y[k] : k \in 1..t} : x.code}}
    BY <1>1 DEF Code, ToSet
<1>3. ASSUME NEW k \in 1..t
      PROVE  /\ y[k].first \in 1..y[k].last /\ y[k].last \in 0..Len(s)
             /\ y[k - 1].last \in Nat /\ y[k].first = y[k - 1].last + 1
             /\ y[k].code \in BOOLEAN
             /\ \A j \in y[k].first..y[k].last :
                    j \in LexedCode(s, esc) <=> y[k].code /\ j = y[k].first
    <2>1. y[k] # Unterminated
        BY ScansMeans
    <2>2. /\ y[k] \in SoundPieces(s, esc) /\ y[k - 1] \in SoundPieces(s, esc)
          /\ y[k].first = y[k - 1].last + 1 /\ y[k].first <= y[k].last
        BY <2>1, TurnMeans
    <2>3. y[k - 1].last \in 0..Len(s)
        BY <2>2, PiecesAre
    <2>4. /\ y[k].first \in 1..(Len(s) + 1) /\ y[k].last \in 0..Len(s)
          /\ y[k].code \in BOOLEAN
          /\ \A j \in y[k].first..y[k].last :
                 j \in LexedCode(s, esc) <=> y[k].code /\ j = y[k].first
        BY <2>1, <2>2, PiecesAre
    <2>5. QED
        BY <2>2, <2>3, <2>4
<1>4. ASSUME NEW i \in Code(s, esc) PROVE i \in LexedCode(s, esc)
    <2>1. PICK k \in 1..t : y[k].code /\ i = y[k].first
        BY <1>2
    <2>2. i \in y[k].first..y[k].last
        BY <1>3, <2>1
    <2>3. QED
        BY <1>3, <2>1, <2>2
\* Every position up to the end of a piece lies in a piece.
<1> DEFINE Covered(i) == \E k \in 1..t : i \in y[k].first..y[k].last
           T == {k \in 0..t : \A i \in 1..y[k].last : Covered(i)}
<1>5. 0..t \subseteq T
    <2>1. 0 \in T
        <3>1. y[0].last = 0
            BY YieldsMeans, BeginningIsSound
        <3>2. QED
            BY <1>1, <3>1
    <2>2. ASSUME NEW k \in 1..t, k - 1 \in T PROVE k \in T
        <3>1. ASSUME NEW i \in 1..y[k].last PROVE Covered(i)
            <4>1. CASE i \in 1..y[k - 1].last
                BY <2>2, <4>1
            <4>2. CASE i \notin 1..y[k - 1].last
                <5>1. i \in y[k].first..y[k].last
                    BY <1>3, <4>2
                <5>2. QED
                    BY <5>1
            <4>3. QED
                BY <4>1, <4>2
        <3>2. QED
            BY <1>1, <3>1
    <2>3. t \in Nat
        BY <1>1
    <2> HIDE DEF T
    <2>4. QED
        BY <2>1, <2>2, <2>3, Positions
<1>6. ASSUME NEW i \in LexedCode(s, esc) PROVE i \in Code(s, esc)
    <2>1. i \in 1..Len(s)
        BY DEF LexedCode
    <2>2. y[t].last = Len(s)
        BY ScansMeans
    <2>3. t \in T
        BY <1>1, <1>5
    <2>4. PICK k \in 1..t : i \in y[k].first..y[k].last
        BY <2>1, <2>2, <2>3
    <2>5. y[k].code /\ i = y[k].first
        BY <1>3, <2>4
    <2>6. QED
        BY <1>2, <2>5
<1>7. QED
    BY <1>4, <1>6

LEMMA PiecesTile ==
    ASSUME NEW s \in Seq(Chars), NEW esc \in BOOLEAN, NEW t, TurnsMade(s, esc, t),
           Scans(s, esc)
    PROVE  Tiles(Scan(s, esc), s)
<1> DEFINE y == Yields(s, esc)
           pieces == Scan(s, esc)
<1>1. t \in Nat /\ pieces = [k \in 1..t |-> y[k]]
    BY DEF TurnsMade
<1> HIDE DEF pieces
<1>2. y[0].last = 0 /\ y[t].last = Len(s)
    BY YieldsMeans, BeginningIsSound, ScansMeans
<1>3. ASSUME NEW k \in DOMAIN pieces
      PROVE  /\ pieces[k].first = (IF k = 1 THEN 1 ELSE pieces[k - 1].last + 1)
             /\ pieces[k].first <= pieces[k].last
    <2>1. k \in 1..t /\ pieces[k] = y[k]
        BY <1>1
    <2>2. y[k].first = y[k - 1].last + 1 /\ y[k].first <= y[k].last
        BY <2>1, ScansMeans, TurnMeans
    <2>3. k # 1 => pieces[k - 1] = y[k - 1]
        BY <1>1, <2>1
    <2>4. k = 1 => y[k - 1].last = 0
        BY <1>2
    <2>5. QED
        BY <2>1, <2>2, <2>3, <2>4
<1>4. (IF pieces = <<>> THEN 0 ELSE Last(pieces).last) = Len(s)
    <2>1. CASE t = 0
        <3>1. pieces = <<>>
            BY <1>1, <2>1
        <3>2. QED
            BY <1>2, <2>1, <3>1
    <2>2. CASE t # 0
        <3>1. pieces # <<>> /\ Len(pieces) = t /\ pieces[t] = y[t]
            BY <1>1, <2>2
        <3>2. QED
            BY <1>2, <3>1 DEF Last
    <2>3. QED
        BY <2>1, <2>2
<1>5. QED
    BY <1>3, <1>4 DEF Tiles, pieces

-----------------------------------------------------------------------------
(* _scan_sql, db.py 89-143, on a text of any length and in either dialect: *)
(* it refuses exactly the texts in which a literal or a comment is not     *)
(* terminated, and otherwise yields all of the text in order, each         *)
(* character as the code that the lexer says it is, or is not.             *)
THEOREM ScannerMatchesLexer ==
    ASSUME NEW s \in Seq(Chars), NEW esc \in BOOLEAN
    PROVE  /\ Scans(s, esc) <=> Lexes(s, esc)
           /\ Scans(s, esc) =>
                 /\ Code(s, esc) = LexedCode(s, esc)
                 /\ Tiles(Scan(s, esc), s)
<1>1. PICK t : TurnsMade(s, esc, t)
    BY ScanMeans
<1>2. Scans(s, esc) <=> Lexes(s, esc)
    BY <1>1, ScansMeans
<1>3. ASSUME Scans(s, esc)
      PROVE  Code(s, esc) = LexedCode(s, esc) /\ Tiles(Scan(s, esc), s)
    BY <1>1, <1>3, CodeMeans, PiecesTile
<1>4. QED
    BY <1>2, <1>3

(* Texts are sequences of characters of the classes that _scan_sql tells   *)
(* apart, however they grow.                                               *)
LEMMA TextTypeCorrect == TextSpec => []TextTypeOK
<1>1. TextInit => TextTypeOK
    BY SqlTextAssumption DEF TextInit, TextTypeOK
<1>2. TextTypeOK /\ [TextNext]_text => TextTypeOK'
    BY SqlTextAssumption DEF TextNext, Append1, TextTypeOK
<1>3. QED
    BY <1>1, <1>2, PTL DEF TextSpec

(* The property that the run checks for short texts, whatever the bound on *)
(* their length: the scanner agrees with the lexer.                        *)
THEOREM ScansAsLexed == TextSpec => []ScanMatchesLexer
<1>1. TextTypeOK => ScanMatchesLexer
    <2>1. TextTypeOK => text \in Seq(Chars)
        BY DEF TextTypeOK
    <2>2. QED
        BY <2>1, ScannerMatchesLexer DEF ScanMatchesLexer
<1>2. QED
    BY <1>1, TextTypeCorrect, PTL

-----------------------------------------------------------------------------
(* The statements.                                                         *)
LEMMA GreatestMeans ==
    ASSUME NEW n \in Nat, NEW T \in SUBSET (0..n), T # {}
    PROVE  Greatest(T) \in T /\ \A m \in T : m <= Greatest(T)
<1> DEFINE U == {k \in Nat : \A t \in T : t <= k}
           k == Smallest(U)
<1>1. U \in SUBSET Nat /\ n \in U
    OBVIOUS
<1>2. k \in U /\ \A j \in U : k <= j
    <2> HIDE DEF U
    <2>1. QED
        BY <1>1, SmallestMeans
<1> HIDE DEF k
<1>3. k \in Nat /\ \A t \in T : t <= k /\ t \in Nat
    BY <1>2
<1>4. k \in T
    <2>1. SUFFICES ASSUME k \notin T PROVE FALSE
        OBVIOUS
    <2>2. \A t \in T : t <= k - 1
        BY <1>3, <2>1
    <2>3. PICK t \in T : TRUE
        OBVIOUS
    <2>4. k - 1 \in Nat
        BY <1>3, <2>2, <2>3
    <2>5. k - 1 \in U
        BY <2>2, <2>4
    <2>6. QED
        BY <1>2, <1>3, <2>5
<1>5. QED
    BY <1>3, <1>4 DEF Greatest

\* A literal or a block comment that is not over yet.
Open(mode) == mode[1] \in {"in", "escape", "block", "star"}

LEMMA OpenModes ==
    /\ Open(<<"block">>) /\ Open(<<"star">>) /\ ~Open(<<"code">>) /\ ~Open(<<"dash">>)
    /\ ~Open(<<"slash">>) /\ ~Open(<<"line">>) /\ ~Open(<<"closed">>)
    /\ \A q \in Quotes :
           /\ Open(<<"in", q>>) /\ Open(<<"escape", q>>) /\ ~Open(<<"seen", q>>)
           /\ <<"seen", q>> \notin {<<"code">>, <<"dash">>, <<"slash">>}
<1>1. /\ Open(<<"block">>) /\ Open(<<"star">>) /\ ~Open(<<"code">>) /\ ~Open(<<"dash">>)
      /\ ~Open(<<"slash">>) /\ ~Open(<<"line">>) /\ ~Open(<<"closed">>)
    BY DEF Open
<1>2. ASSUME NEW q \in Quotes
      PROVE  /\ Open(<<"in", q>>) /\ Open(<<"escape", q>>) /\ ~Open(<<"seen", q>>)
             /\ <<"seen", q>> \notin {<<"code">>, <<"dash">>, <<"slash">>}
    BY DEF Open
<1>3. QED
    BY <1>1, <1>2

LEMMA ModesDiffer ==
    /\ <<"code">> \notin {<<"dash">>, <<"slash">>, <<"line">>, <<"block">>}
    /\ <<"line">> \notin {<<"dash">>, <<"slash">>}
    /\ <<"closed">> \notin {<<"code">>, <<"dash">>, <<"slash">>}
OBVIOUS

\* What separates statements neither ends a literal or a block comment nor
\* begins any comment.
LEMMA Separators ==
    ASSUME NEW c \in {";", "\n"}, NEW m \in ModeSet, NEW esc \in BOOLEAN
    PROVE  /\ After(m, c, esc) \in ModeSet
           /\ After(m, c, esc) \notin {<<"dash">>, <<"slash">>}
           /\ m \in {<<"code">>, <<"dash">>, <<"slash">>} => After(m, c, esc) = <<"code">>
           /\ Open(m) => Open(After(m, c, esc))
<1>1. c \in Chars /\ c \in Others \ {"-", "/"} /\ c # "\\" /\ c # "*"
    BY DEF Chars, Others
<1>2. AfterCode(c) = <<"code">>
    BY <1>1, AfterCodeMeans
<1>3. \A q \in Quotes : c # q
    BY <1>1, SqlTextAssumption
<1>4. After(m, c, esc) \in ModeSet
    BY <1>1, AfterType
<1>5. CASE \E q \in Quotes : m = <<"in", q>> \/ m = <<"seen", q>> \/ m = <<"escape", q>>
    <2>1. PICK q \in Quotes : m = <<"in", q>> \/ m = <<"seen", q>> \/ m = <<"escape", q>>
        BY <1>5
    <2>2. CASE m = <<"in", q>>
        <3>1. After(m, c, esc) = <<"in", q>>
            BY <1>1, <1>3, <2>2, AfterIn
        <3>2. QED
            BY <1>4, <2>2, <3>1, OpenModes, ModesDiffer, Zenon
    <2>3. CASE m = <<"seen", q>>
        <3>1. After(m, c, esc) = <<"code">>
            BY <1>1, <1>2, <1>3, <2>3, AfterSeen
        <3>2. QED
            BY <1>4, <2>3, <3>1, OpenModes, ModesDiffer, Zenon
    <2>4. CASE m = <<"escape", q>>
        <3>1. After(m, c, esc) = <<"in", q>>
            BY <1>1, <2>4, AfterEscape
        <3>2. QED
            BY <1>4, <2>4, <3>1, OpenModes, ModesDiffer, Zenon
    <2>5. QED
        BY <2>1, <2>2, <2>3, <2>4
<1>6. CASE m \in {<<"code">>, <<"dash">>, <<"slash">>, <<"line">>, <<"block">>,
                  <<"star">>, <<"closed">>}
    <2>1. CASE m \in {<<"code">>, <<"dash">>, <<"slash">>, <<"closed">>}
        <3>1. After(m, c, esc) = <<"code">>
            BY <1>1, <1>2, <2>1, AfterMeans
        <3>2. QED
            BY <1>4, <2>1, <3>1, OpenModes, ModesDiffer, Zenon
    <2>2. CASE m = <<"line">>
        <3>1. After(m, c, esc) \in {<<"code">>, <<"line">>}
            BY <1>1, <2>2, AfterMeans
        <3>2. QED
            BY <1>4, <2>2, <3>1, OpenModes, ModesDiffer, Zenon
    <2>3. CASE m \in {<<"block">>, <<"star">>}
        <3>1. After(m, c, esc) = <<"block">>
            BY <1>1, <2>3, AfterMeans
        <3>2. QED
            BY <1>4, <2>3, <3>1, OpenModes, ModesDiffer, Zenon
    <2>4. QED
        BY <1>6, <2>1, <2>2, <2>3
<1>7. QED
    BY <1>5, <1>6 DEF ModeSet

\* A cut is code for the lexer, and so is what follows.
LEMMA CutsMean ==
    ASSUME NEW s \in Seq(Chars), NEW esc \in BOOLEAN, Scans(s, esc),
           NEW i \in Cuts(s, esc)
    PROVE  i \in 1..Len(s) /\ s[i] = ";" /\ Modes(s, esc)[i] = <<"code">>
<1>1. i \in LexedCode(s, esc) /\ s[i] = ";"
    BY ScannerMatchesLexer DEF Cuts
<1>2. i \in 1..Len(s)
    <2>1. i \in DOMAIN s
        BY <1>1, Zenon DEF LexedCode
    <2>2. QED
        BY <2>1
<1>3. \/ Modes(s, esc)[i] = <<"code">> \/ Modes(s, esc)[i] = <<"dash">>
      \/ Modes(s, esc)[i] = <<"slash">>
    BY <1>1, Zenon DEF LexedCode
<1>4. Modes(s, esc)[i] \notin {<<"dash">>, <<"slash">>}
    <2>1. /\ Modes(s, esc)[i - 1] \in ModeSet
          /\ Modes(s, esc)[i] = After(Modes(s, esc)[i - 1], ";", esc)
        BY <1>1, <1>2, ModesStep
    <2>2. QED
        BY <2>1, Separators
<1>5. QED
    BY <1>1, <1>2, <1>3, <1>4

\* The statement of the part that ends at e: from a to b.
Between(s, esc, e, a, b) ==
    /\ a \in 1..Len(s) /\ b \in a..Len(s) /\ e \in (b + 1)..(Len(s) + 1)
    /\ Split(s, esc)[e] = [at |-> a, text |-> SubSeq(s, a, b)]
    /\ e \in Cuts(s, esc) \/ e = Len(s) + 1
    /\ \A c \in Cuts(s, esc) : c < a \/ c >= e
    /\ \A i \in Inked(s, Cuts(s, esc), e) : i \in a..b

LEMMA SplitMeans ==
    ASSUME NEW s \in Seq(Chars), NEW esc \in BOOLEAN, Scans(s, esc),
           NEW e \in DOMAIN Split(s, esc)
    PROVE  \E a, b : Between(s, esc, e, a, b)
<1> DEFINE cuts == Cuts(s, esc)
           inked == Inked(s, cuts, e)
           a == Smallest(inked)
           b == Greatest(inked)
           n == Len(s)
<1>1. n \in Nat /\ DOMAIN s = 1..n
    OBVIOUS
<1>2. /\ e \in cuts \cup {n + 1} /\ inked # {}
      /\ Split(s, esc)[e] = Statement(s, inked)
    BY DEF Split
<1>3. \A c \in cuts : c \in 1..n
    BY CutsMean
<1>4. e \in 1..(n + 1)
    BY <1>1, <1>2, <1>3
<1>5. \A i \in inked : i \in 1..n /\ i < e /\ \A c \in cuts : c < i \/ c >= e
    BY <1>1 DEF Inked
<1>6. inked \in SUBSET Nat /\ inked \in SUBSET (0..n)
    BY <1>1, <1>5
<1>7. Split(s, esc)[e] = [at |-> a, text |-> SubSeq(s, a, b)]
    BY <1>2 DEF Statement
<1> HIDE DEF inked
<1>8. /\ a \in inked /\ \A i \in inked : a <= i
      /\ b \in inked /\ \A i \in inked : i <= b
    BY <1>1, <1>2, <1>6, SmallestMeans, GreatestMeans
<1> HIDE DEF a, b
<1>9. a \in 1..n /\ b \in a..n /\ e \in (b + 1)..(n + 1)
    BY <1>1, <1>4, <1>5, <1>8
<1>10. \A c \in cuts : c < a \/ c >= e
    BY <1>5, <1>8
<1>11. \A i \in inked : i \in a..b
    BY <1>5, <1>8, <1>9
<1>12. Between(s, esc, e, a, b)
    BY <1>2, <1>7, <1>9, <1>10, <1>11 DEF Between, inked
<1>13. QED
    BY <1>12

LEMMA BetweenMeans ==
    ASSUME NEW s \in Seq(Chars), NEW esc \in BOOLEAN, NEW e, NEW a, NEW b,
           Between(s, esc, e, a, b)
    PROVE  /\ Len(s) \in Nat /\ DOMAIN s = 1..Len(s)
           /\ a \in 1..Len(s) /\ b \in a..Len(s) /\ e \in (b + 1)..(Len(s) + 1)
           /\ e \in Cuts(s, esc) \/ e = Len(s) + 1
           /\ \A c \in Cuts(s, esc) : c < a \/ c >= e
           /\ \A i \in Inked(s, Cuts(s, esc), e) : i \in a..b
BY DEF Between

\* Before a statement there is nothing but whitespace since the last cut, or
\* since the beginning.
LEMMA BeginsInCode ==
    ASSUME NEW s \in Seq(Chars), NEW esc \in BOOLEAN, Scans(s, esc),
           NEW e, NEW a, NEW b, Between(s, esc, e, a, b)
    PROVE  Modes(s, esc)[a - 1] = <<"code">>
<1> DEFINE mode == Modes(s, esc)
           cuts == Cuts(s, esc)
           Over(j) == \A c \in cuts : c <= j \/ c >= e
           T == {j \in 0..(a - 1) : Over(j) => mode[j] = <<"code">>}
<1>1. /\ Len(s) \in Nat /\ a \in 1..Len(s) /\ b \in a..Len(s) /\ e \in (b + 1)..(Len(s) + 1)
      /\ \A c \in cuts : c < a \/ c >= e
      /\ \A i \in Inked(s, cuts, e) : i \in a..b
    BY DEF Between
<1>2. \A c \in cuts : c \in 1..Len(s) /\ mode[c] = <<"code">>
    BY CutsMean
<1>3. 0 \in T
    BY <1>1, ModesMeans
<1>4. ASSUME NEW j \in 1..(a - 1), j - 1 \in T PROVE j \in T
    <2>1. SUFFICES ASSUME Over(j) PROVE mode[j] = <<"code">>
        BY <1>1
    <2>2. CASE j \in cuts
        BY <1>2, <2>2
    <2>3. CASE j \notin cuts
        <3>1. \A c \in cuts : c <= j - 1 \/ c >= e
            BY <1>1, <1>2, <2>1, <2>3
        <3>2. mode[j - 1] = <<"code">>
            BY <1>4, <3>1
        <3>3. s[j] = "\n"
            <4>1. SUFFICES ASSUME s[j] # "\n" PROVE FALSE
                OBVIOUS
            <4>2. j \in DOMAIN s /\ j < e /\ j \notin a..b
                BY <1>1
            <4>3. \A c \in cuts : c < j \/ c >= e
                BY <1>1, <1>2, <3>1
            <4>4. j \in Inked(s, cuts, e)
                BY <4>1, <4>2, <4>3 DEF Inked
            <4>5. QED
                BY <1>1, <4>2, <4>4
        <3>4. j \in 1..Len(s)
            BY <1>1
        <3>5. mode[j] = After(<<"code">>, "\n", esc)
            BY <3>2, <3>3, <3>4, ModesStep
        <3>6. QED
            BY <3>5, Separators, ModesAre
    <2>4. QED
        BY <2>2, <2>3
<1> HIDE DEF T
<1>5. a - 1 \in T
    <2>1. a - 1 \in Nat
        BY <1>1
    <2>2. 0..(a - 1) \subseteq T
        BY <1>3, <1>4, <2>1, Positions
    <2>3. QED
        BY <2>1, <2>2
<1>6. Over(a - 1)
    BY <1>1, <1>2
<1>7. QED
    BY <1>5, <1>6 DEF T

\* u is what s has from a to b, and is lexed as it.
InPlace(u, s, esc, a, b) ==
    /\ u \in Seq(Chars) /\ Len(u) = (b - a) + 1
    /\ \A j \in 1..Len(u) : u[j] = s[(a + j) - 1]
    /\ \A j \in 0..Len(u) : Modes(u, esc)[j] = Modes(s, esc)[(a + j) - 1]

\* What begins in code is lexed as it was in its place.
LEMMA Shift ==
    ASSUME NEW s \in Seq(Chars), NEW esc \in BOOLEAN, NEW a \in 1..Len(s), NEW b \in a..Len(s),
           Modes(s, esc)[a - 1] = <<"code">>, NEW u, u = SubSeq(s, a, b)
    PROVE  InPlace(u, s, esc, a, b)
<1>1. /\ u \in Seq(Chars) /\ Len(u) = (b - a) + 1 /\ Len(u) \in Nat
      /\ \A j \in 1..Len(u) : u[j] = s[(a + j) - 1]
    OBVIOUS
<1> DEFINE n == Len(u)
           T == {j \in 0..n : Modes(u, esc)[j] = Modes(s, esc)[(a + j) - 1]}
<1>2. 0 \in T
    <2>1. Modes(u, esc)[0] = <<"code">>
        BY <1>1, ModesMeans
    <2>2. (a + 0) - 1 = a - 1 /\ 0 \in 0..n
        BY <1>1
    <2>3. QED
        BY <2>1, <2>2
<1>3. ASSUME NEW j \in 1..n, j - 1 \in T PROVE j \in T
    <2> DEFINE i == (a + j) - 1
    <2>1. i \in 1..Len(s) /\ i - 1 = (a + (j - 1)) - 1 /\ j \in 0..n /\ u[j] = s[i]
        BY <1>1
    <2>2. Modes(u, esc)[j - 1] = Modes(s, esc)[i - 1]
        BY <1>3, <2>1
    <2>3. Modes(u, esc)[j] = After(Modes(u, esc)[j - 1], u[j], esc)
        BY <1>1, ModesStep
    <2> HIDE DEF i
    <2>4. Modes(s, esc)[i] = After(Modes(s, esc)[i - 1], s[i], esc)
        BY <2>1, ModesStep
    <2>5. Modes(u, esc)[j] = Modes(s, esc)[i]
        BY <2>1, <2>2, <2>3, <2>4
    <2>6. QED
        BY <2>1, <2>5 DEF i
<1> HIDE DEF T
<1>4. 0..n \subseteq T
    BY <1>1, <1>2, <1>3, Positions
<1>5. \A j \in 0..n : Modes(u, esc)[j] = Modes(s, esc)[(a + j) - 1]
    BY <1>4 DEF T
<1>6. QED
    BY <1>1, <1>5, Zenon DEF InPlace

\* After a statement there is only whitespace up to its cut or the end.
LEMMA WhitespaceAfter ==
    ASSUME NEW s \in Seq(Chars), NEW esc \in BOOLEAN, Scans(s, esc),
           NEW e, NEW a, NEW b, Between(s, esc, e, a, b),
           NEW i \in (b + 1)..(e - 1)
    PROVE  i \in 1..Len(s) /\ s[i] = "\n"
<1> DEFINE cuts == Cuts(s, esc)
<1>1. /\ Len(s) \in Nat /\ a \in 1..Len(s) /\ b \in a..Len(s) /\ e \in (b + 1)..(Len(s) + 1)
      /\ \A c \in cuts : c < a \/ c >= e
      /\ \A j \in Inked(s, cuts, e) : j \in a..b
    BY DEF Between
<1>2. \A c \in cuts : c \in 1..Len(s)
    BY CutsMean
<1>3. i \in DOMAIN s /\ i < e /\ i \notin a..b /\ \A c \in cuts : c < i \/ c >= e
    BY <1>1, <1>2
<1>4. s[i] = "\n"
    BY <1>1, <1>3 DEF Inked
<1>5. QED
    BY <1>3, <1>4

\* So a statement is not in a literal or a block comment at its end.
LEMMA EndsClosed ==
    ASSUME NEW s \in Seq(Chars), NEW esc \in BOOLEAN, Scans(s, esc),
           NEW e, NEW a, NEW b, Between(s, esc, e, a, b)
    PROVE  ~Open(Modes(s, esc)[b])
<1> DEFINE mode == Modes(s, esc)
           T == {d \in 0..(e - 1 - b) : Open(mode[b + d])}
<1>1. /\ Len(s) \in Nat /\ a \in 1..Len(s) /\ b \in a..Len(s) /\ e \in (b + 1)..(Len(s) + 1)
      /\ e \in Cuts(s, esc) \/ e = Len(s) + 1
    BY DEF Between
<1>2. SUFFICES ASSUME Open(mode[b]) PROVE FALSE
    OBVIOUS
<1>3. e - 1 - b \in Nat
    BY <1>1
<1>4. 0 \in T
    BY <1>1, <1>2, <1>3
<1>5. ASSUME NEW d \in 1..(e - 1 - b), d - 1 \in T PROVE d \in T
    <2> DEFINE i == b + d
    <2>1. i \in (b + 1)..(e - 1) /\ i - 1 = b + (d - 1) /\ d \in 0..(e - 1 - b)
        BY <1>1
    <2>2. Open(mode[i - 1])
        BY <1>5, <2>1
    <2> HIDE DEF i
    <2>3. i \in 1..Len(s) /\ s[i] = "\n"
        BY <2>1, WhitespaceAfter
    <2>4. mode[i] = After(mode[i - 1], "\n", esc) /\ mode[i - 1] \in ModeSet
        BY <2>3, ModesStep
    <2>5. Open(mode[i])
        BY <2>2, <2>4, Separators
    <2>6. QED
        BY <2>1, <2>5 DEF i
<1> HIDE DEF T
<1>6. Open(mode[e - 1])
    <2>1. 0..(e - 1 - b) \subseteq T
        BY <1>3, <1>4, <1>5, Positions
    <2>2. e - 1 - b \in T
        BY <1>3, <2>1
    <2>3. b + (e - 1 - b) = e - 1
        BY <1>1
    <2>4. QED
        BY <2>2, <2>3 DEF T
<1>7. CASE e = Len(s) + 1
    <2>1. Lexes(s, esc)
        BY ScannerMatchesLexer
    <2>2. e - 1 = Len(s)
        BY <1>1, <1>7
    <2>3. QED
        BY <1>6, <2>1, <2>2 DEF Lexes, Open
<1>8. CASE e \in Cuts(s, esc)
    <2>1. e \in 1..Len(s) /\ s[e] = ";" /\ mode[e] = <<"code">>
        BY <1>8, CutsMean
    <2>2. mode[e] = After(mode[e - 1], ";", esc) /\ mode[e - 1] \in ModeSet
        BY <2>1, ModesStep
    <2>3. Open(mode[e])
        BY <1>6, <2>2, Separators
    <2>4. QED
        BY <2>1, <2>3, OpenModes
<1>9. QED
    BY <1>1, <1>7, <1>8

\* What follows a statement makes no comment of its last character.
LEMMA NoCommentBegins ==
    ASSUME NEW s \in Seq(Chars), NEW esc \in BOOLEAN, Scans(s, esc),
           NEW e, NEW a, NEW b, Between(s, esc, e, a, b), b < Len(s),
           Modes(s, esc)[b] \in {<<"dash">>, <<"slash">>}
    PROVE  Modes(s, esc)[b + 1] = <<"code">>
<1>1. /\ Len(s) \in Nat /\ a \in 1..Len(s) /\ b \in a..Len(s) /\ e \in (b + 1)..(Len(s) + 1)
      /\ e \in Cuts(s, esc) \/ e = Len(s) + 1
    BY DEF Between
<1>2. b + 1 \in 1..Len(s) /\ (b + 1) - 1 = b
    BY <1>1
<1>3. CASE e = b + 1
    <2>1. e \in Cuts(s, esc)
        BY <1>1, <1>3
    <2>2. QED
        BY <1>3, <2>1, CutsMean
<1>4. CASE e # b + 1
    <2>1. b + 1 \in (b + 1)..(e - 1)
        BY <1>1, <1>4
    <2>2. s[b + 1] = "\n"
        BY <2>1, WhitespaceAfter
    <2>3. /\ Modes(s, esc)[b + 1] = After(Modes(s, esc)[b], "\n", esc)
          /\ Modes(s, esc)[b] \in ModeSet
        BY <1>2, <2>2, ModesStep
    <2>4. QED
        BY <2>3, Separators
<1>5. QED
    BY <1>3, <1>4

LEMMA LexedCodeMeans ==
    ASSUME NEW s \in Seq(Chars), NEW esc \in BOOLEAN, NEW i \in 1..Len(s)
    PROVE  i \in LexedCode(s, esc) <=>
              \/ Modes(s, esc)[i] = <<"code">>
              \/ /\ Modes(s, esc)[i] = <<"dash">>
                 /\ i = Len(s) \/ Modes(s, esc)[i + 1] # <<"line">>
              \/ /\ Modes(s, esc)[i] = <<"slash">>
                 /\ i = Len(s) \/ Modes(s, esc)[i + 1] # <<"block">>
<1>1. i \in DOMAIN s
    OBVIOUS
<1>2. QED
    BY <1>1, Zenon DEF LexedCode

\* The lexer calls code in the statement what it calls code in its place.
LEMMA CodeInPlace ==
    ASSUME NEW s \in Seq(Chars), NEW esc \in BOOLEAN, Scans(s, esc),
           NEW e, NEW a, NEW b, Between(s, esc, e, a, b), NEW u, InPlace(u, s, esc, a, b),
           NEW j \in 1..Len(u)
    PROVE  j \in LexedCode(u, esc) <=> (a + j) - 1 \in LexedCode(s, esc)
<1> DEFINE i == (a + j) - 1
           M == Modes(s, esc)
           N == Modes(u, esc)
<1>1. Len(s) \in Nat /\ a \in 1..Len(s) /\ b \in a..Len(s)
    BY BetweenMeans
<1>2. /\ u \in Seq(Chars) /\ Len(u) = (b - a) + 1
      /\ \A k \in 0..Len(u) : N[k] = M[(a + k) - 1]
    BY Zenon DEF InPlace
<1> HIDE DEF M, N
<1>3. /\ j \in Nat /\ i \in 1..Len(s) /\ j \in 0..Len(u) /\ i <= b
      /\ j = Len(u) <=> i = b
    BY <1>1, <1>2
<1>4. N[j] = M[i]
    BY <1>2, <1>3
<1>5. j # Len(u) => i # Len(s) /\ N[j + 1] = M[i + 1]
    <2>1. SUFFICES ASSUME j # Len(u) PROVE i # Len(s) /\ N[j + 1] = M[i + 1]
        OBVIOUS
    <2>2. j + 1 \in 0..Len(u) /\ (a + (j + 1)) - 1 = i + 1 /\ i # Len(s)
        BY <1>1, <1>2, <1>3, <2>1
    <2>3. QED
        BY <1>2, <2>2
<1>6. j \in LexedCode(u, esc) <=>
            \/ N[j] = <<"code">>
            \/ N[j] = <<"dash">> /\ (j = Len(u) \/ N[j + 1] # <<"line">>)
            \/ N[j] = <<"slash">> /\ (j = Len(u) \/ N[j + 1] # <<"block">>)
    BY <1>2, LexedCodeMeans DEF N
<1>7. i \in LexedCode(s, esc) <=>
            \/ M[i] = <<"code">>
            \/ M[i] = <<"dash">> /\ (i = Len(s) \/ M[i + 1] # <<"line">>)
            \/ M[i] = <<"slash">> /\ (i = Len(s) \/ M[i + 1] # <<"block">>)
    BY <1>3, LexedCodeMeans DEF M
<1>8. ASSUME i = b, i # Len(s), M[i] \in {<<"dash">>, <<"slash">>}
      PROVE  M[i + 1] # <<"line">> /\ M[i + 1] # <<"block">>
    <2>1. b < Len(s)
        BY <1>1, <1>3, <1>8
    <2>2. M[b + 1] = <<"code">>
        BY <1>8, <2>1, NoCommentBegins DEF M
    <2>3. QED
        BY <1>8, <2>2, ModesDiffer
<1> HIDE DEF i
<1>9. j \in LexedCode(u, esc) <=> i \in LexedCode(s, esc)
    <2>1. CASE j = Len(u)
        <3>1. CASE i = Len(s)
            BY <1>4, <1>6, <1>7, <2>1, <3>1
        <3>2. CASE i # Len(s)
            BY <1>3, <1>4, <1>6, <1>7, <1>8, <2>1, <3>2
        <3>3. QED
            BY <3>1, <3>2
    <2>2. CASE j # Len(u)
        BY <1>4, <1>5, <1>6, <1>7, <2>2
    <2>3. QED
        BY <2>1, <2>2
<1>10. QED
    BY <1>9 DEF i

\* A statement scans, is not cut, and has its code where it had it.
LEMMA StatementAlone ==
    ASSUME NEW s \in Seq(Chars), NEW esc \in BOOLEAN, Scans(s, esc),
           NEW e, NEW a, NEW b, Between(s, esc, e, a, b), NEW u, InPlace(u, s, esc, a, b)
    PROVE  /\ u \in Seq(Chars) /\ Len(u) = (b - a) + 1
           /\ \A j \in 1..Len(u) : u[j] = s[(a + j) - 1]
           /\ Scans(u, esc) /\ Cuts(u, esc) = {}
           /\ Code(u, esc) = {j \in 1..Len(u) : (a + j) - 1 \in Code(s, esc)}
<1>1. /\ Len(s) \in Nat /\ a \in 1..Len(s) /\ b \in a..Len(s) /\ e \in (b + 1)..(Len(s) + 1)
      /\ \A c \in Cuts(s, esc) : c < a \/ c >= e
    BY BetweenMeans
<1>2. /\ u \in Seq(Chars) /\ Len(u) = (b - a) + 1
      /\ \A j \in 1..Len(u) : u[j] = s[(a + j) - 1]
      /\ \A j \in 0..Len(u) : Modes(u, esc)[j] = Modes(s, esc)[(a + j) - 1]
    BY Zenon DEF InPlace
<1>3. Scans(u, esc)
    <2>1. Modes(u, esc)[Len(u)] = Modes(s, esc)[b]
        <3>1. (a + Len(u)) - 1 = b /\ Len(u) \in 0..Len(u)
            BY <1>1, <1>2
        <3>2. QED
            BY <1>2, <3>1
    <2>2. ~Open(Modes(u, esc)[Len(u)])
        BY <2>1, EndsClosed
    <2>3. Lexes(u, esc)
        BY <2>2 DEF Lexes, Open
    <2>4. QED
        BY <1>2, <2>3, ScannerMatchesLexer
<1>4. /\ Code(u, esc) = LexedCode(u, esc) /\ Code(s, esc) = LexedCode(s, esc)
    BY <1>2, <1>3, ScannerMatchesLexer
<1>5. \A j \in Code(u, esc) : j \in 1..Len(u)
    <2>1. \A j \in LexedCode(u, esc) : j \in DOMAIN u
        BY Zenon DEF LexedCode
    <2>2. DOMAIN u = 1..Len(u)
        BY <1>2
    <2>3. QED
        BY <1>4, <2>1, <2>2
<1>6. ASSUME NEW j \in 1..Len(u)
      PROVE  j \in Code(u, esc) <=> (a + j) - 1 \in Code(s, esc)
    <2>1. j \in LexedCode(u, esc) <=> (a + j) - 1 \in LexedCode(s, esc)
        BY CodeInPlace
    <2>2. QED
        BY <1>4, <2>1, Zenon
<1>7. Code(u, esc) = {j \in 1..Len(u) : (a + j) - 1 \in Code(s, esc)}
    BY <1>5, <1>6
<1>8. Cuts(u, esc) = {}
    <2>1. SUFFICES ASSUME NEW j \in Cuts(u, esc) PROVE FALSE
        OBVIOUS
    <2>2. j \in Code(u, esc) /\ u[j] = ";"
        BY <2>1 DEF Cuts
    <2>3. j \in 1..Len(u) /\ (a + j) - 1 \in Code(s, esc) /\ s[(a + j) - 1] = ";"
        BY <1>2, <1>5, <1>6, <2>2
    <2>4. (a + j) - 1 \in Cuts(s, esc)
        BY <2>3 DEF Cuts
    <2>5. (a + j) - 1 < a \/ (a + j) - 1 >= e
        BY <1>1, <2>4
    <2>6. j \in 1..((b - a) + 1)
        BY <1>2, <2>3, Zenon
    <2>7. a \in Nat /\ b \in Nat /\ e \in Nat /\ b < e
        BY <1>1
    <2>8. QED
        BY <2>5, <2>6, <2>7
<1>9. QED
    BY <1>2, <1>3, <1>7, <1>8

\* Whatever is neither cut nor whitespace is in a statement.
LEMMA NothingLost ==
    ASSUME NEW s \in Seq(Chars), NEW esc \in BOOLEAN, Scans(s, esc),
           NEW i \in 1..Len(s), i \notin Cuts(s, esc), s[i] # "\n"
    PROVE  \E e \in DOMAIN Split(s, esc) :
              \A a, b : Between(s, esc, e, a, b) => i \in a..b
<1> DEFINE cuts == Cuts(s, esc)
           E == {c \in cuts \cup {Len(s) + 1} : c > i}
           e == Smallest(E)
<1>1. Len(s) \in Nat /\ \A c \in cuts : c \in 1..Len(s)
    <2>1. \A c \in cuts : c \in 1..Len(s)
        BY CutsMean
    <2>2. QED
        BY <2>1
<1>2. E \in SUBSET Nat /\ Len(s) + 1 \in E
    BY <1>1
<1>3. e \in E /\ \A c \in E : e <= c
    <2> HIDE DEF E
    <2>1. QED
        BY <1>2, SmallestMeans
<1> HIDE DEF e
<1>4. e \in cuts \cup {Len(s) + 1} /\ i < e
    BY <1>3
<1>5. \A c \in cuts : c < i \/ c >= e
    BY <1>1, <1>3
<1>6. i \in Inked(s, cuts, e)
    <2>1. i \in DOMAIN s
        OBVIOUS
    <2>2. QED
        BY <1>4, <1>5, <2>1 DEF Inked
<1>7. e \in DOMAIN Split(s, esc)
    BY <1>4, <1>6 DEF Split
<1>8. \A a, b : Between(s, esc, e, a, b) => i \in a..b
    BY <1>6 DEF Between
<1>9. QED
    BY <1>7, <1>8

\* The statement of the part that ends at e: u, from a to b.
Alone(s, esc, e, a, b, u) ==
    /\ Between(s, esc, e, a, b) /\ InPlace(u, s, esc, a, b)
    /\ Split(s, esc)[e] = [at |-> a, text |-> u]
    /\ Scans(u, esc) /\ Cuts(u, esc) = {}
    /\ Code(u, esc) = {j \in 1..Len(u) : (a + j) - 1 \in Code(s, esc)}

LEMMA StatementStandsAlone ==
    ASSUME NEW s \in Seq(Chars), NEW esc \in BOOLEAN, Scans(s, esc),
           NEW e \in DOMAIN Split(s, esc)
    PROVE  \E a, b, u : Alone(s, esc, e, a, b, u)
<1>1. PICK a, b : Between(s, esc, e, a, b)
    BY SplitMeans
<1> DEFINE u == SubSeq(s, a, b)
<1>2. Split(s, esc)[e] = [at |-> a, text |-> u]
    BY <1>1 DEF Between
<1>3. a \in 1..Len(s) /\ b \in a..Len(s)
    BY <1>1, BetweenMeans
<1>4. Modes(s, esc)[a - 1] = <<"code">>
    BY <1>1, BeginsInCode
<1> HIDE DEF u
<1>5. InPlace(u, s, esc, a, b)
    BY <1>3, <1>4, Shift DEF u
<1>6. /\ Scans(u, esc) /\ Cuts(u, esc) = {}
      /\ Code(u, esc) = {j \in 1..Len(u) : (a + j) - 1 \in Code(s, esc)}
    BY <1>1, <1>5, StatementAlone
<1>7. QED
    BY <1>1, <1>2, <1>5, <1>6, Zenon DEF Alone

LEMMA HoldsMeans ==
    ASSUME NEW s \in Seq(Chars), NEW esc \in BOOLEAN, NEW e, NEW a, NEW b,
           Between(s, esc, e, a, b), NEW u, InPlace(u, s, esc, a, b), NEW i \in a..b
    PROVE  (i - a) + 1 \in 1..Len(u) /\ (a + ((i - a) + 1)) - 1 = i
<1>1. a \in 1..Len(s) /\ b \in a..Len(s) /\ Len(s) \in Nat
    BY BetweenMeans
<1>2. Len(u) = (b - a) + 1
    BY Zenon DEF InPlace
<1>3. QED
    BY <1>1, <1>2

\* The placeholders of a text that is one statement are the statement's.
LEMMA SameCount ==
    ASSUME NEW s \in Seq(Chars), NEW esc \in BOOLEAN, Scans(s, esc),
           NEW e, NEW a, NEW b, Between(s, esc, e, a, b),
           NEW u, InPlace(u, s, esc, a, b),
           Code(u, esc) = {j \in 1..Len(u) : (a + j) - 1 \in Code(s, esc)},
           NEW c, \A i \in Code(s, esc) : s[i] = c => i \in a..b
    PROVE  CodeCount(u, esc, c) = CodeCount(s, esc, c)
<1> DEFINE R == {j \in Code(u, esc) : u[j] = c}
           Q == {i \in Code(s, esc) : s[i] = c}
           f == [j \in R |-> (a + j) - 1]
<1>1. /\ a \in 1..Len(s) /\ b \in a..Len(s) /\ Len(s) \in Nat
    BY BetweenMeans
<1>2. /\ u \in Seq(Chars) /\ Len(u) = (b - a) + 1
      /\ \A j \in 1..Len(u) : u[j] = s[(a + j) - 1]
    BY Zenon DEF InPlace
<1>3. \A j \in R : /\ j \in 1..Len(u) /\ u[j] = c
                   /\ (a + j) - 1 \in Code(s, esc)
    OBVIOUS
<1>4. \A j \in R : (a + j) - 1 \in Q
    BY <1>2, <1>3
<1>5. ASSUME NEW i \in Q PROVE \E j \in R : (a + j) - 1 = i
    <2>1. i \in a..b /\ s[i] = c /\ i \in Code(s, esc)
        OBVIOUS
    <2> DEFINE j == (i - a) + 1
    <2>2. j \in 1..Len(u) /\ (a + j) - 1 = i
        BY <2>1, HoldsMeans
    <2> HIDE DEF j
    <2>3. j \in R
        BY <1>2, <2>1, <2>2
    <2>4. QED
        BY <2>2, <2>3
<1>6. R \subseteq 1..Len(u)
    BY <1>3
<1> HIDE DEF R, Q
<1>7. IsFiniteSet(R)
    <2>1. Len(u) \in Int
        BY <1>1, <1>2
    <2>2. IsFiniteSet(1..Len(u))
        BY <2>1, FS_Interval
    <2>3. QED
        BY <1>6, <2>2, FS_Subset
<1>8. f \in [R -> Q]
    BY <1>4
<1>9. ASSUME NEW x \in R, NEW y \in R, f[x] = f[y] PROVE x = y
    <2>1. x \in Int /\ y \in Int /\ (a + x) - 1 = (a + y) - 1 /\ a \in Int
        BY <1>1, <1>6, <1>9
    <2>2. QED
        BY <2>1
<1>10. \A i \in Q : \E j \in R : f[j] = i
    BY <1>5
<1> HIDE DEF f
<1>11. f \in Bijection(R, Q)
    BY <1>8, <1>9, <1>10, Fun_IsBij
<1>12. Cardinality(Q) = Cardinality(R)
    <2>1. ExistsBijection(R, Q)
        BY <1>11, Fun_ExistsBij
    <2>2. QED
        BY <1>7, <2>1, FS_Bijection
<1>13. QED
    BY <1>12 DEF CodeCount, R, Q

-----------------------------------------------------------------------------
(* _split_statements, db.py 1065-1085, on a text of any length and in      *)
(* either dialect: each statement, sent by itself, is read as it was in    *)
(* the script.                                                             *)
THEOREM StatementsStandAlone ==
    ASSUME NEW s \in Seq(Chars), NEW esc \in BOOLEAN, Scans(s, esc),
           NEW e \in DOMAIN Split(s, esc)
    PROVE  StandsAlone(s, esc, Split(s, esc)[e])
<1>1. PICK a, b, u : Alone(s, esc, e, a, b, u)
    BY StatementStandsAlone
<1>2. u \in Seq(Chars)
    BY <1>1, Zenon DEF Alone, InPlace
<1>3. DOMAIN u = 1..Len(u)
    BY <1>2
<1> DEFINE st == [at |-> a, text |-> u]
<1>4. st.at = a /\ st.text = u
    OBVIOUS
<1> HIDE DEF st
<1>5. StandsAlone(s, esc, st)
    BY <1>1, <1>3, <1>4, Zenon DEF StandsAlone, Place, Alone
<1>6. QED
    BY <1>1, <1>5, Zenon DEF st, Alone

(* _split_statements: nothing of the script is lost between its            *)
(* statements, but the semicolons that separate them and whitespace.       *)
THEOREM NoTextIsLost ==
    ASSUME NEW s \in Seq(Chars), NEW esc \in BOOLEAN, Scans(s, esc)
    PROVE  NothingIsLost(s, esc)
<1>1. DOMAIN s = 1..Len(s)
    OBVIOUS
<1>2. ASSUME NEW i \in DOMAIN s \ Cuts(s, esc), s[i] # "\n"
      PROVE  \E e \in DOMAIN Split(s, esc) : Holds(Split(s, esc)[e], i)
    <2>1. i \in 1..Len(s) /\ i \notin Cuts(s, esc)
        BY <1>1
    <2>2. PICK e \in DOMAIN Split(s, esc) :
              \A a, b : Between(s, esc, e, a, b) => i \in a..b
        BY <1>2, <2>1, NothingLost
    <2>3. PICK a, b, u : Alone(s, esc, e, a, b, u)
        BY StatementStandsAlone
    <2>4. i \in a..b
        BY <2>2, <2>3, Zenon DEF Alone
    <2> DEFINE j == (i - a) + 1
               st == [at |-> a, text |-> u]
    <2>5. j \in 1..Len(u) /\ (a + j) - 1 = i
        BY <2>3, <2>4, HoldsMeans DEF Alone
    <2>6. u \in Seq(Chars)
        BY <2>3, Zenon DEF Alone, InPlace
    <2> HIDE DEF j
    <2>7. j \in DOMAIN u
        BY <2>5, <2>6
    <2>8. st.at = a /\ st.text = u
        OBVIOUS
    <2> HIDE DEF st
    <2>9. Holds(st, i)
        BY <2>5, <2>7, <2>8, Zenon DEF Holds, Place
    <2>10. QED
        BY <2>3, <2>9, Zenon DEF st, Alone
<1>3. QED
    BY <1>2, Zenon DEF NothingIsLost

(* _split_statements and its refusal: a script that is accepted with       *)
(* parameters is one statement, with all the placeholders.                 *)
THEOREM PlaceholdersAreKept ==
    ASSUME NEW s \in Seq(Chars), NEW esc \in BOOLEAN, Scans(s, esc),
           ~Refused(s, esc, 1), CodeCount(s, esc, "?") > 0
    PROVE  \E e \in DOMAIN Split(s, esc) :
              /\ DOMAIN Split(s, esc) = {e}
              /\ CodeCount(Split(s, esc)[e].text, esc, "?") = CodeCount(s, esc, "?")
<1> DEFINE D == DOMAIN Split(s, esc)
           Q == {i \in Code(s, esc) : s[i] = "?"}
<1>1. ~(Cardinality(D) > 1)
    BY DEF Refused
<1>2. PICK i \in Q : TRUE
    <2>1. Cardinality(Q) > 0
        BY DEF CodeCount
    <2>2. Cardinality({}) = 0
        BY FS_EmptySet
    <2> HIDE DEF Q
    <2>3. Q # {}
        <3>1. SUFFICES ASSUME Q = {} PROVE FALSE
            OBVIOUS
        <3>2. Cardinality(Q) = 0
            BY <2>2, <3>1, Zenon
        <3>3. QED
            BY <2>1, <3>2
    <2>4. QED
        BY <2>3
<1>3. ASSUME NEW k \in Code(s, esc), s[k] = "?"
      PROVE  k \in 1..Len(s) /\ k \notin Cuts(s, esc) /\ s[k] # "\n"
    <2>1. k \in LexedCode(s, esc)
        BY ScannerMatchesLexer
    <2>2. k \in DOMAIN s
        BY <2>1, Zenon DEF LexedCode
    <2>3. k \notin Cuts(s, esc)
        BY <1>3 DEF Cuts
    <2>4. QED
        BY <1>3, <2>2, <2>3
<1>4. ASSUME NEW k \in Code(s, esc), s[k] = "?"
      PROVE  \E e \in D : \A a, b : Between(s, esc, e, a, b) => k \in a..b
    <2>1. k \in 1..Len(s) /\ k \notin Cuts(s, esc) /\ s[k] # "\n"
        BY <1>3, <1>4
    <2>2. QED
        BY <2>1, NothingLost
<1>5. PICK e \in D : TRUE
    BY <1>2, <1>4
<1>6. D = {e}
    <2>1. \A x \in Cuts(s, esc) : x \in 1..Len(s)
        BY CutsMean
    <2>2. D \subseteq Cuts(s, esc) \cup {Len(s) + 1}
        BY DEF Split
    <2>3. Len(s) \in Nat
        OBVIOUS
    <2> HIDE DEF D
    <2>4. D \subseteq 1..(Len(s) + 1)
        BY <2>1, <2>2, <2>3
    <2>5. IsFiniteSet(1..(Len(s) + 1))
        BY <2>3, FS_Interval
    <2>6. IsFiniteSet(D)
        BY <2>4, <2>5, FS_Subset
    <2>7. Cardinality(D) \in Nat /\ Cardinality(D) # 0
        BY <1>5, <2>6, FS_CardinalityType, FS_EmptySet
    <2>8. Cardinality(D) = 1
        BY <1>1, <2>7
    <2>9. \E x : D = {x}
        BY <2>6, <2>8, FS_Singleton
    <2>10. QED
        BY <1>5, <2>9
<1>7. PICK a, b, u : Alone(s, esc, e, a, b, u)
    BY StatementStandsAlone
<1> HIDE DEF D
<1>8. \A k \in Code(s, esc) : s[k] = "?" => k \in a..b
    BY <1>4, <1>6, <1>7, Zenon DEF Alone
<1>9. CodeCount(u, esc, "?") = CodeCount(s, esc, "?")
    BY <1>7, <1>8, SameCount DEF Alone
<1>10. Split(s, esc)[e].text = u
    <2>1. Split(s, esc)[e] = [at |-> a, text |-> u]
        BY <1>7, Zenon DEF Alone
    <2>2. QED
        BY <2>1
<1>11. QED
    BY <1>5, <1>6, <1>9, <1>10, Zenon DEF D

(* The property that the run checks for short texts, whatever the bound on *)
(* their length.                                                           *)
THEOREM ScriptsStandAlone == TextSpec => []PiecesStandAlone
<1>1. TextTypeOK => PiecesStandAlone
    <2>1. SUFFICES ASSUME TextTypeOK, NEW esc \in BOOLEAN, Scans(text, esc)
                   PROVE  /\ \A e \in DOMAIN Split(text, esc) :
                                StandsAlone(text, esc, Split(text, esc)[e])
                          /\ NothingIsLost(text, esc)
                          /\ KeepsPlaceholders(text, esc)
        BY DEF PiecesStandAlone
    <2>2. text \in Seq(Chars)
        BY <2>1 DEF TextTypeOK
    <2>3. \A e \in DOMAIN Split(text, esc) : StandsAlone(text, esc, Split(text, esc)[e])
        BY <2>1, <2>2, StatementsStandAlone
    <2>4. NothingIsLost(text, esc)
        BY <2>1, <2>2, NoTextIsLost
    <2>5. KeepsPlaceholders(text, esc)
        BY <2>1, <2>2, PlaceholdersAreKept DEF KeepsPlaceholders
    <2>6. QED
        BY <2>3, <2>4, <2>5
<1>2. QED
    BY <1>1, TextTypeCorrect, PTL

-----------------------------------------------------------------------------
(* SqlText.  The placeholders.                                             *)

\* What Replace puts for a character, and how it goes on from each position.
Put(c, with, x) == IF x = c THEN with ELSE <<x>>
Replaces(g, s, c, with) ==
    /\ g \in [0..Len(s) -> Seq(Chars)] /\ g[0] = <<>>
    /\ \A i \in 1..Len(s) : g[i] = g[i - 1] \o Put(c, with, s[i])

LEMMA PutType ==
    ASSUME NEW c, NEW with \in Seq(Chars), NEW x \in Chars
    PROVE  Put(c, with, x) \in Seq(Chars)
BY DEF Put

LEMMA ReplaceMeans ==
    ASSUME NEW s \in Seq(Chars), NEW c, NEW with \in Seq(Chars)
    PROVE  \E g : Replaces(g, s, c, with) /\ Replace(s, c, with) = g[Len(s)]
<1> DEFINE n == Len(s)
           A == Seq(Chars)
           F == [i \in 1..n |-> [x \in A |-> x \o Put(c, with, s[i])]]
           G(g) == [i \in 0..n |->
                      IF i = 0 THEN <<>> ELSE g[i - 1] \o Put(c, with, s[i])]
           m == CHOOSE f : f = G(f)
<1>1. n \in Nat /\ <<>> \in A /\ \A i \in 1..n : s[i] \in Chars
    OBVIOUS
<1>2. \A i \in 1..n : Put(c, with, s[i]) \in A
    BY <1>1, PutType
<1>3. F \in Turns(n, A)
    BY <1>2 DEF Turns
<1>4. PICK g : Trace(g, n, A, <<>>, F)
    <2> HIDE DEF F, n, A
    <2>1. QED
        BY <1>1, <1>3, Iterates
<1>5. g \in [0..n -> A] /\ g[0] = <<>> /\ \A i \in 1..n : g[i] = F[i][g[i - 1]]
    BY <1>4 DEF Trace
<1>6. ASSUME NEW i \in 1..n PROVE g[i] = g[i - 1] \o Put(c, with, s[i])
    <2> HIDE DEF A, F, n
    <2>0. i - 1 \in 0..n
        BY <1>1
    <2>1. g[i - 1] \in A
        BY <1>5, <2>0, Zenon
    <2> USE DEF A, F, n
    <2>2. F[i] = [x \in A |-> x \o Put(c, with, s[i])]
        OBVIOUS
    <2> HIDE DEF F, A
    <2>3. F[i][g[i - 1]] = g[i - 1] \o Put(c, with, s[i])
        BY <2>1, <2>2
    <2>4. QED
        BY <1>5, <2>3
<1>7. g = G(g)
    <2> HIDE DEF A
    <2>1. ASSUME NEW i \in 0..n PROVE g[i] = G(g)[i]
        <3>1. CASE i = 0
            BY <1>5, <3>1
        <3>2. CASE i # 0
            <4>1. i \in 1..n
                BY <1>1, <3>2
            <4>2. G(g)[i] = g[i - 1] \o Put(c, with, s[i])
                BY <3>2, Zenon
            <4>3. QED
                BY <1>6, <4>1, <4>2
        <3>3. QED
            BY <3>1, <3>2
    <2>2. g = [i \in 0..n |-> g[i]]
        BY <1>5
    <2>3. [i \in 0..n |-> g[i]] = [i \in 0..n |-> G(g)[i]]
        BY <2>1, Zenon
    <2>4. G(g) = [i \in 0..n |-> G(g)[i]]
        BY Zenon
    <2>5. QED
        BY <2>2, <2>3, <2>4, Zenon
<1>8. Replace(s, c, with) = m[n]
    BY DEF Replace, Put
<1> HIDE DEF m
<1>9. m = G(m)
    BY <1>7 DEF m
<1>10. m[0] = <<>> /\ \A i \in 1..n : m[i] = m[i - 1] \o Put(c, with, s[i])
    BY <1>1, <1>9
<1> DEFINE T == {i \in 0..n : m[i] \in A}
<1>11. 0..n \subseteq T
    <2>1. 0 \in T
        <3>1. 0 \in 0..n /\ m[0] \in A
            BY <1>1, <1>10
        <3>2. QED
            BY <3>1
    <2>2. ASSUME NEW i \in 1..n, i - 1 \in T PROVE i \in T
        <3>1. m[i - 1] \in Seq(Chars) /\ Put(c, with, s[i]) \in Seq(Chars)
            BY <1>2, <2>2
        <3>2. m[i - 1] \o Put(c, with, s[i]) \in Seq(Chars)
            BY <3>1
        <3>3. m[i] = m[i - 1] \o Put(c, with, s[i])
            BY <1>10
        <3>4. i \in 0..n
            BY <1>1
        <3> HIDE DEF A, n
        <3>5. m[i] \in A
            BY <3>2, <3>3 DEF A
        <3>6. QED
            BY <3>4, <3>5
    <2> HIDE DEF T
    <2>3. QED
        BY <1>1, <2>1, <2>2, Positions
<1>12. m \in [0..n -> A]
    BY <1>9, <1>11
<1>13. Replaces(m, s, c, with)
    BY <1>10, <1>12 DEF Replaces
<1>14. QED
    BY <1>8, <1>13

AlikeUpTo(s, u, k) == k <= Len(u) /\ \A i \in 1..k : s[i] = u[i]

\* What is put for a beginning does not depend on what follows it.
LEMMA ReplacesAgree ==
    ASSUME NEW s \in Seq(Chars), NEW u \in Seq(Chars), NEW c, NEW with \in Seq(Chars),
           NEW g, Replaces(g, s, c, with), NEW h, Replaces(h, u, c, with),
           NEW k \in 0..Len(s), AlikeUpTo(s, u, k)
    PROVE  g[k] = h[k]
<1> DEFINE T == {i \in 0..k : g[i] = h[i]}
<1>1. 0 \in T
    BY DEF Replaces
<1>2. ASSUME NEW i \in 1..k, i - 1 \in T PROVE i \in T
    <2>1. i \in 1..Len(s) /\ i \in 1..Len(u) /\ s[i] = u[i] /\ g[i - 1] = h[i - 1]
        BY <1>2 DEF AlikeUpTo
    <2>2. g[i] = g[i - 1] \o Put(c, with, s[i]) /\ h[i] = h[i - 1] \o Put(c, with, u[i])
        BY <2>1 DEF Replaces
    <2>3. g[i] = h[i]
        BY <2>1, <2>2, Zenon
    <2>4. QED
        BY <2>3
<1>3. k \in Nat
    OBVIOUS
<1>4. k \in T
    <2> HIDE DEF T
    <2>1. 0..k \subseteq T
        BY <1>1, <1>2, <1>3, Positions
    <2>2. QED
        BY <1>3, <2>1
<1>5. QED
    BY <1>4

LEMMA ReplaceAppend ==
    ASSUME NEW s \in Seq(Chars), NEW x \in Chars, NEW c, NEW with \in Seq(Chars)
    PROVE  /\ Replace(s, c, with) \in Seq(Chars)
           /\ Replace(Append(s, x), c, with) = Replace(s, c, with) \o Put(c, with, x)
<1> DEFINE u == Append(s, x)
<1>1. /\ u \in Seq(Chars) /\ Len(u) = Len(s) + 1 /\ u[Len(s) + 1] = x
      /\ \A i \in 1..Len(s) : s[i] = u[i]
      /\ Len(s) \in Nat
    OBVIOUS
<1> HIDE DEF u
<1>2. PICK g : Replaces(g, s, c, with) /\ Replace(s, c, with) = g[Len(s)]
    BY ReplaceMeans
<1>3. PICK h : Replaces(h, u, c, with) /\ Replace(u, c, with) = h[Len(u)]
    BY <1>1, ReplaceMeans
<1>4. g[Len(s)] = h[Len(s)]
    <2>1. Len(s) \in 0..Len(s) /\ Len(s) <= Len(u)
        BY <1>1
    <2> DEFINE k == Len(s)
    <2>2. k \in 0..Len(s) /\ AlikeUpTo(s, u, k)
        BY <1>1, <2>1 DEF AlikeUpTo
    <2> HIDE DEF k
    <2>3. Replaces(g, s, c, with) /\ Replaces(h, u, c, with) /\ u \in Seq(Chars)
        BY <1>1, <1>2, <1>3
    <2>4. g[k] = h[k]
        BY <2>2, <2>3, ReplacesAgree
    <2>5. QED
        BY <2>4 DEF k
<1>5. h[Len(s) + 1] = h[Len(s)] \o Put(c, with, x)
    <2>1. Len(s) + 1 \in 1..Len(u) /\ (Len(s) + 1) - 1 = Len(s)
        BY <1>1
    <2>2. h[Len(s) + 1] = h[(Len(s) + 1) - 1] \o Put(c, with, u[Len(s) + 1])
        BY <1>3, <2>1 DEF Replaces
    <2>3. QED
        BY <1>1, <2>1, <2>2
<1>6. g[Len(s)] \in Seq(Chars)
    BY <1>1, <1>2 DEF Replaces
<1>7. QED
    BY <1>1, <1>2, <1>3, <1>4, <1>5, <1>6 DEF u

LEMMA ReplaceEmpty ==
    ASSUME NEW c, NEW with \in Seq(Chars)
    PROVE  Replace(<<>>, c, with) = <<>>
<1>1. <<>> \in Seq(Chars) /\ Len(<<>>) = 0
    OBVIOUS
<1>2. PICK g : Replaces(g, <<>>, c, with) /\ Replace(<<>>, c, with) = g[Len(<<>>)]
    BY <1>1, ReplaceMeans
<1>3. QED
    BY <1>1, <1>2 DEF Replaces

\* What MySQL gets for a character, and for each beginning of a text.
Prepared(c) ==
    IF c = "%" THEN <<"%", "%">> ELSE IF c = "?" THEN <<"%", "s">> ELSE <<c>>
Prepares(w, s) ==
    /\ w \in [0..Len(s) -> Seq(Chars)] /\ w[0] = <<>>
    /\ \A k \in 1..Len(s) : w[k] = w[k - 1] \o Prepared(s[k])
    /\ MysqlPrepare(s) = w[Len(s)]

\* A percent sign kept and its double, one after the other.
LEMMA TwiceAppended ==
    ASSUME NEW c \in Chars, NEW v \in Seq(Chars)
    PROVE  (v \o <<c>>) \o <<c>> = v \o <<c, c>>
    OBVIOUS

LEMMA PrepareMeans ==
    ASSUME NEW s \in Seq(Chars)
    PROVE  \E w : Prepares(w, s)
<1> DEFINE n == Len(s)
           double == <<"%", "%">>
           mark == <<"%", "s">>
<1>1. "%" \in Chars /\ "s" \in Chars /\ "%" # "?"
    BY DEF Chars, Others
<1>2. double \in Seq(Chars) /\ mark \in Seq(Chars)
    BY <1>1
<1>3. /\ n \in 0..n /\ 0 \in 0..n
      /\ \A k \in 1..n : k - 1 \in 0..n /\ k \in 0..n /\ s[k] \in Chars
    OBVIOUS
<1> HIDE DEF double, mark
<1>4. PICK g : Replaces(g, s, "%", double) /\ Replace(s, "%", double) = g[n]
    BY <1>2, ReplaceMeans
<1>5. g \in [0..n -> Seq(Chars)] /\ g[0] = <<>>
    BY <1>4, Zenon DEF Replaces
<1>6. \A i \in 1..n : g[i] = g[i - 1] \o Put("%", double, s[i])
    BY <1>4, Zenon DEF Replaces
<1> HIDE DEF n
<1>7. \A k \in 0..n : g[k] \in Seq(Chars)
    BY <1>5, Zenon
<1> DEFINE R(u) == Replace(u, "?", mark)
           w == [k \in 0..n |-> R(g[k])]
<1>8. \A u \in Seq(Chars) : R(u) \in Seq(Chars)
    BY <1>1, <1>2, ReplaceAppend
<1>9. \A u \in Seq(Chars), x \in Chars : R(Append(u, x)) = R(u) \o Put("?", mark, x)
    <2> SUFFICES ASSUME NEW u \in Seq(Chars), NEW x \in Chars
                 PROVE  R(Append(u, x)) = R(u) \o Put("?", mark, x)
        BY Zenon
    <2>1. QED
        BY <1>2, ReplaceAppend
<1>10. R(<<>>) = <<>>
    BY <1>2, ReplaceEmpty
<1> HIDE DEF R
<1>11. /\ w \in [0..n -> Seq(Chars)]
       /\ \A k \in 0..n : w[k] = R(g[k])
    BY <1>7, <1>8, Zenon
<1> HIDE DEF w
<1>12. w[0] = <<>>
    BY <1>3, <1>5, <1>10, <1>11, Zenon
<1>13. ASSUME NEW u \in Seq(Chars), NEW x \in Chars
       PROVE  R(u \o Put("%", double, x)) = R(u) \o Prepared(x)
    <2>1. R(u) \in Seq(Chars)
        BY <1>8
    <2>2. CASE x = "%"
        <3>1. Append(u, "%") \in Seq(Chars)
            BY <1>1
        <3>2. u \o Put("%", double, x) = Append(Append(u, "%"), "%")
            BY <1>1, <2>2 DEF Put, double
        <3>3. Put("?", mark, "%") = <<"%">>
            BY DEF Put
        <3>4. R(Append(u, "%")) = R(u) \o Put("?", mark, "%")
            BY <1>1, <1>9, Zenon
        <3>5. R(Append(Append(u, "%"), "%")) = R(Append(u, "%")) \o Put("?", mark, "%")
            BY <1>1, <1>9, <3>1, Zenon
        <3>6. R(Append(Append(u, "%"), "%")) = (R(u) \o <<"%">>) \o <<"%">>
            BY <3>3, <3>4, <3>5, Zenon
        <3>7. (R(u) \o <<"%">>) \o <<"%">> = R(u) \o <<"%", "%">>
            BY <1>1, <2>1, TwiceAppended, Zenon
        <3>8. Prepared(x) = <<"%", "%">>
            BY <2>2, Zenon DEF Prepared
        <3>9. QED
            BY <3>2, <3>6, <3>7, <3>8, Zenon
    <2>3. CASE x # "%"
        <3>1. u \o Put("%", double, x) = Append(u, x)
            BY <2>3 DEF Put
        <3>2. R(Append(u, x)) = R(u) \o Put("?", mark, x)
            BY <1>9, Zenon
        <3>3. Put("?", mark, x) = Prepared(x)
            BY <2>3, Zenon DEF Put, Prepared, mark
        <3>4. QED
            BY <3>1, <3>2, <3>3, Zenon
    <2>4. QED
        BY <2>2, <2>3
<1>14. ASSUME NEW k \in 1..n PROVE w[k] = w[k - 1] \o Prepared(s[k])
    <2>1. k - 1 \in 0..n /\ k \in 0..n /\ s[k] \in Chars
        BY <1>3, Zenon
    <2>2. g[k - 1] \in Seq(Chars) /\ g[k] = g[k - 1] \o Put("%", double, s[k])
        BY <1>6, <1>7, <2>1, Zenon
    <2>3. w[k] = R(g[k]) /\ w[k - 1] = R(g[k - 1])
        BY <1>11, <2>1, Zenon
    <2>4. QED
        BY <1>13, <2>1, <2>2, <2>3, Zenon
<1>15. MysqlPrepare(s) = w[n]
    BY <1>3, <1>4, <1>11, Zenon DEF MysqlPrepare, R, double, mark
<1>16. QED
    BY <1>11, <1>12, <1>14, <1>15, Zenon DEF Prepares, n

\* A text that goes on as the other.
Begins(a, b) == Len(a) <= Len(b) /\ \A i \in 1..Len(a) : a[i] = b[i]

LEMMA BeginsShorter ==
    ASSUME NEW a \in Seq(Chars), NEW c \in Seq(Chars), NEW b \in Seq(Chars),
           Begins(a \o c, b)
    PROVE  Begins(a, b)
<1>1. Len(a \o c) = Len(a) + Len(c) /\ Len(a) \in Nat /\ Len(c) \in Nat /\ Len(b) \in Nat
    OBVIOUS
<1>2. Len(a) <= Len(b)
    BY <1>1 DEF Begins
<1>3. ASSUME NEW i \in 1..Len(a) PROVE a[i] = b[i]
    <2>1. (a \o c)[i] = a[i]
        OBVIOUS
    <2>2. i \in 1..Len(a \o c)
        BY <1>1
    <2>3. QED
        BY <2>1, <2>2 DEF Begins
<1>4. QED
    BY <1>2, <1>3 DEF Begins

LEMMA PreparedType ==
    ASSUME NEW x \in Chars
    PROVE  /\ Prepared(x) \in Seq(Chars)
           /\ x = "%" => /\ Len(Prepared(x)) = 2
                         /\ Prepared(x)[1] = "%" /\ Prepared(x)[2] = "%"
           /\ x = "?" => /\ Len(Prepared(x)) = 2
                         /\ Prepared(x)[1] = "%" /\ Prepared(x)[2] = "s"
           /\ x \notin {"%", "?"} => Len(Prepared(x)) = 1 /\ Prepared(x)[1] = x
<1>1. "%" \in Chars /\ "s" \in Chars
    BY DEF Chars, Others
<1>2. CASE x = "%"
    BY <1>1, <1>2 DEF Prepared
<1>3. CASE x = "?"
    BY <1>1, <1>3 DEF Prepared
<1>4. CASE x \notin {"%", "?"}
    BY <1>4 DEF Prepared
<1>5. QED
    BY <1>2, <1>3, <1>4

\* What MySQL gets begins with what it gets for each beginning.
LEMMA PreparesBegin ==
    ASSUME NEW s \in Seq(Chars), NEW w, Prepares(w, s), NEW k \in 0..Len(s)
    PROVE  Begins(w[k], w[Len(s)])
<1> DEFINE n == Len(s)
           v == w[n]
           T == {d \in 0..n : Begins(w[n - d], v)}
<1>1. n \in Nat
    OBVIOUS
<1>2. /\ w \in [0..n -> Seq(Chars)]
      /\ \A j \in 1..n : w[j] = w[j - 1] \o Prepared(s[j])
    BY Zenon DEF Prepares
<1>3. 0 \in T
    BY <1>1, <1>2 DEF Begins
<1>4. ASSUME NEW d \in 1..n, d - 1 \in T PROVE d \in T
    <2> DEFINE j == n - (d - 1)
    <2>1. j \in 1..n /\ j - 1 = n - d /\ n - d \in 0..n /\ n \in 0..n
        BY <1>1
    <2>2. Begins(w[j], v)
        BY <1>4
    <2> HIDE DEF j
    <2>3. w[j] = w[j - 1] \o Prepared(s[j])
        BY <1>2, <2>1, Zenon
    <2>4. w[n - d] \in Seq(Chars) /\ w[n] \in Seq(Chars)
        BY <1>2, <2>1, Zenon
    <2>5. w[j - 1] \in Seq(Chars) /\ v \in Seq(Chars)
        BY <2>1, <2>4
    <2>6. Prepared(s[j]) \in Seq(Chars)
        BY <2>1, PreparedType
    <2>7. Begins(w[j - 1], v)
        BY <2>2, <2>3, <2>5, <2>6, BeginsShorter
    <2>8. QED
        BY <2>1, <2>7
<1> HIDE DEF T
<1>5. 0..n \subseteq T
    BY <1>1, <1>3, <1>4, Positions
<1>6. n - k \in T /\ n - (n - k) = k
    BY <1>1, <1>5
<1>7. QED
    BY <1>6 DEF T

\* What the driver finds where the part of position k begins.
LEMMA PartAt ==
    ASSUME NEW s \in Seq(Chars), NEW w, Prepares(w, s), NEW k \in 1..Len(s),
           NEW v, v = w[Len(s)], NEW at, at = Len(w[k - 1]) + 1
    PROVE  /\ s[k] \in Chars /\ v \in Seq(Chars) /\ at \in Nat \ {0} /\ at <= Len(v)
           /\ s[k] = "%" => /\ Len(w[k]) = at + 1 /\ at + 1 <= Len(v)
                            /\ v[at] = "%" /\ v[at + 1] = "%"
           /\ s[k] = "?" => /\ Len(w[k]) = at + 1 /\ at + 1 <= Len(v)
                            /\ v[at] = "%" /\ v[at + 1] = "s"
           /\ s[k] \notin {"%", "?"} => Len(w[k]) = at /\ v[at] = s[k]
<1> DEFINE a == w[k - 1]
           p == Prepared(s[k])
<1>1. k - 1 \in 0..Len(s) /\ Len(s) \in 0..Len(s)
    OBVIOUS
<1>2. a \in Seq(Chars) /\ v \in Seq(Chars) /\ w[k] = a \o p
    BY <1>1, Zenon DEF Prepares
<1>3. s[k] \in Chars
    OBVIOUS
<1>4. p \in Seq(Chars)
    BY <1>3, PreparedType
<1>5. Begins(w[k], v)
    BY PreparesBegin
<1> HIDE DEF a, p
<1>6. /\ Len(w[k]) = Len(a) + Len(p) /\ Len(a) \in Nat /\ Len(p) \in Nat
      /\ \A i \in 1..Len(p) : w[k][Len(a) + i] = p[i]
    BY <1>2, <1>4
<1>7. ASSUME NEW i \in 1..Len(p) PROVE Len(a) + i <= Len(v) /\ v[Len(a) + i] = p[i]
    <2>1. Len(a) + i \in 1..Len(w[k])
        BY <1>6
    <2>2. v \in Seq(Chars) /\ Len(v) \in Nat
        BY <1>2
    <2>3. QED
        BY <1>5, <1>6, <2>1, <2>2 DEF Begins
<1>8. at = Len(a) + 1 /\ at \in Nat \ {0}
    BY <1>6 DEF a
<1>9. /\ s[k] = "%" => Len(p) = 2 /\ p[1] = "%" /\ p[2] = "%"
      /\ s[k] = "?" => Len(p) = 2 /\ p[1] = "%" /\ p[2] = "s"
      /\ s[k] \notin {"%", "?"} => Len(p) = 1 /\ p[1] = s[k]
    BY <1>3, PreparedType DEF p
<1>10. Len(p) >= 1 => at <= Len(v) /\ v[at] = p[1]
    BY <1>6, <1>7, <1>8
<1>11. Len(p) = 2 => at + 1 <= Len(v) /\ v[at + 1] = p[2] /\ Len(w[k]) = at + 1
    <2>1. ASSUME Len(p) = 2 PROVE at + 1 <= Len(v) /\ v[at + 1] = p[2]
        <3>1. 2 \in 1..Len(p) /\ Len(a) + 2 = at + 1
            BY <1>6, <1>8, <2>1
        <3>2. Len(a) + 2 <= Len(v) /\ v[Len(a) + 2] = p[2]
            BY <1>7, <3>1
        <3>3. QED
            BY <3>1, <3>2
    <2>2. Len(p) = 2 => Len(w[k]) = at + 1
        BY <1>6, <1>8
    <2>3. QED
        BY <2>1, <2>2
<1>12. Len(p) = 1 => Len(w[k]) = at
    BY <1>6, <1>8
<1>13. QED
    BY <1>2, <1>3, <1>8, <1>9, <1>10, <1>11, <1>12

\* The placeholders up to a position, and how many they are.
Marks(s, k) == {j \in 1..k : s[j] = "?"}
Count(s, k) == Cardinality(Marks(s, k))

LEMMA CountStep ==
    ASSUME NEW s \in Seq(Chars)
    PROVE  /\ Count(s, 0) = 0
           /\ \A k \in 0..Len(s) : Count(s, k) \in Nat
           /\ \A k \in 1..Len(s) :
                  Count(s, k) = Count(s, k - 1) + (IF s[k] = "?" THEN 1 ELSE 0)
<1>1. ASSUME NEW k \in 0..Len(s) PROVE IsFiniteSet(Marks(s, k))
    <2>1. IsFiniteSet(1..k)
        BY FS_Interval
    <2>2. QED
        BY <2>1, FS_Subset DEF Marks
<1>2. \A k \in 0..Len(s) : Count(s, k) \in Nat
    BY <1>1, FS_CardinalityType DEF Count
<1>3. Count(s, 0) = 0
    <2>1. Marks(s, 0) = {}
        BY DEF Marks
    <2>2. QED
        BY <2>1, FS_EmptySet DEF Count
<1>4. ASSUME NEW k \in 1..Len(s)
      PROVE  Count(s, k) = Count(s, k - 1) + (IF s[k] = "?" THEN 1 ELSE 0)
    <2>1. k - 1 \in 0..Len(s) /\ k \notin Marks(s, k - 1)
        BY DEF Marks
    <2>2. CASE s[k] = "?"
        <3>1. Marks(s, k) = Marks(s, k - 1) \cup {k}
            BY <2>2 DEF Marks
        <3>2. Cardinality(Marks(s, k - 1) \cup {k}) = Cardinality(Marks(s, k - 1)) + 1
            BY <1>1, <2>1, FS_AddElement
        <3>3. QED
            BY <2>2, <3>1, <3>2 DEF Count
    <2>3. CASE s[k] # "?"
        <3>1. Marks(s, k) = Marks(s, k - 1)
            BY <2>3 DEF Marks
        <3>2. QED
            BY <1>2, <2>1, <2>3, <3>1 DEF Count
    <2>4. QED
        BY <2>2, <2>3
<1>5. QED
    BY <1>2, <1>3, <1>4

\* What the driver's statement is made of, and where it may be in its loop.
Symbols == Chars \cup {Argument(k) : k \in Nat} \cup {Bad}
Readings == [at : Nat \ {0}, next : Nat, out : Seq(Symbols)]

LEMMA SymbolsAre ==
    /\ \A c \in Chars : c \in Symbols
    /\ \A k \in Nat : Argument(k) \in Symbols
    /\ Bad \in Symbols
BY Zenon DEF Symbols

LEMMA ReadingType ==
    ASSUME NEW at \in Nat \ {0}, NEW next \in Nat, NEW out \in Seq(Symbols)
    PROVE  /\ Reading(at, next, out) \in Readings
           /\ Reading(at, next, out).at = at /\ Reading(at, next, out).next = next
           /\ Reading(at, next, out).out = out
BY DEF Reading, Readings

\* The turns of the driver, case by case.
LEMMA FormattedMeans ==
    ASSUME NEW v \in Seq(Chars), NEW at \in Nat \ {0}, NEW next \in Nat,
           NEW out \in Seq(Symbols), NEW t, t = Reading(at, next, out)
    PROVE  /\ at > Len(v) => Formatted(v, t) = t
           /\ at <= Len(v) /\ v[at] # "%" =>
                 Formatted(v, t) = Reading(at + 1, next, Append(out, v[at]))
           /\ at + 1 <= Len(v) /\ v[at] = "%" /\ v[at + 1] = "%" =>
                 Formatted(v, t) = Reading(at + 2, next, Append(out, "%"))
           /\ at + 1 <= Len(v) /\ v[at] = "%" /\ v[at + 1] = "s" =>
                 Formatted(v, t) = Reading(at + 2, next + 1, Append(out, Argument(next)))
           /\ Formatted(v, t) \in Readings
<1>1. t.at = at /\ t.next = next /\ t.out = out /\ t \in Readings
    BY ReadingType
<1>2. Len(v) \in Nat /\ \A i \in 1..Len(v) : v[i] \in Chars
    OBVIOUS
<1>3. "%" \in Chars /\ "%" # "s"
    BY DEF Chars, Others
<1> DEFINE f == Formatted(v, t)
           Twice == at + 1 <= Len(v) /\ v[at] = "%" /\ v[at + 1] = "%"
           Mark == at + 1 <= Len(v) /\ v[at] = "%" /\ v[at + 1] = "s"
<1>4. f = CASE at > Len(v) -> t
            [] at <= Len(v) /\ v[at] # "%" -> Reading(at + 1, next, Append(out, v[at]))
            [] Has(v, at, "%") /\ Has(v, at + 1, "%") ->
                  Reading(at + 2, next, Append(out, "%"))
            [] Has(v, at, "%") /\ Has(v, at + 1, "s") ->
                  Reading(at + 2, next + 1, Append(out, Argument(next)))
            [] OTHER -> Reading(Len(v) + 1, next, Append(out, Bad))
    BY <1>1 DEF Formatted
<1> HIDE DEF f
<1>5. CASE at > Len(v)
    <2>1. f = t
        BY <1>2, <1>4, <1>5 DEF Has
    <2>2. QED
        BY <1>1, <1>2, <1>5, <2>1 DEF f
<1>6. CASE at <= Len(v) /\ v[at] # "%"
    <2>1. f = Reading(at + 1, next, Append(out, v[at]))
        BY <1>2, <1>4, <1>6 DEF Has
    <2>2. v[at] \in Symbols
        BY <1>2, <1>6, SymbolsAre
    <2>3. f \in Readings
        <3>1. Append(out, v[at]) \in Seq(Symbols) /\ at + 1 \in Nat \ {0}
            BY <2>2
        <3>2. QED
            BY <2>1, <3>1, ReadingType
    <2>4. QED
        BY <1>2, <1>6, <2>1, <2>3 DEF f
<1>7. CASE Twice
    <2>1. f = Reading(at + 2, next, Append(out, "%"))
        BY <1>2, <1>4, <1>7, <1>3 DEF Has
    <2>2. f \in Readings
        <3>1. Append(out, "%") \in Seq(Symbols) /\ at + 2 \in Nat \ {0}
            BY <1>3, SymbolsAre
        <3>2. QED
            BY <2>1, <3>1, ReadingType
    <2>3. QED
        BY <1>2, <1>3, <1>7, <2>1, <2>2 DEF f
<1>8. CASE Mark
    <2>1. f = Reading(at + 2, next + 1, Append(out, Argument(next)))
        BY <1>2, <1>4, <1>8, <1>3 DEF Has
    <2>2. f \in Readings
        <3>1. /\ Append(out, Argument(next)) \in Seq(Symbols)
              /\ at + 2 \in Nat \ {0} /\ next + 1 \in Nat
            BY SymbolsAre
        <3>2. QED
            BY <2>1, <3>1, ReadingType
    <2>3. QED
        BY <1>2, <1>3, <1>8, <2>1, <2>2 DEF f
<1>9. CASE at <= Len(v) /\ v[at] = "%" /\ ~Twice /\ ~Mark
    <2>1. f = Reading(Len(v) + 1, next, Append(out, Bad))
        BY <1>2, <1>4, <1>9, <1>3 DEF Has
    <2>2. f \in Readings
        <3>1. Append(out, Bad) \in Seq(Symbols) /\ Len(v) + 1 \in Nat \ {0}
            BY <1>2, SymbolsAre
        <3>2. QED
            BY <2>1, <3>1, ReadingType
    <2>3. QED
        BY <1>2, <1>9, <2>2 DEF f
<1>10. QED
    BY <1>2, <1>5, <1>6, <1>7, <1>8, <1>9

\* The driver's loop is what the recursion says.
Interpolates(g, v) ==
    /\ g \in [0..Len(v) -> Readings] /\ g[0] = Reading(1, 1, <<>>)
    /\ \A i \in 1..Len(v) : g[i] = Formatted(v, g[i - 1])

LEMMA InterpolateMeans ==
    ASSUME NEW v \in Seq(Chars)
    PROVE  \E g : Interpolates(g, v) /\ Interpolate(v) = g[Len(v)].out
<1> DEFINE n == Len(v)
           a == Reading(1, 1, <<>>)
           F == [i \in 1..n |-> [x \in Readings |-> Formatted(v, x)]]
           G(g) == [i \in 0..n |-> IF i = 0 THEN a ELSE Formatted(v, g[i - 1])]
           m == CHOOSE f : f = G(f)
<1>1. n \in Nat /\ a \in Readings
    <2>1. 1 \in Nat \ {0} /\ 1 \in Nat /\ <<>> \in Seq(Symbols)
        OBVIOUS
    <2>2. a \in Readings
        BY <2>1, ReadingType
    <2>3. QED
        BY <2>2
<1>2. ASSUME NEW x \in Readings PROVE Formatted(v, x) \in Readings
    <2>1. x.at \in Nat \ {0} /\ x.next \in Nat /\ x.out \in Seq(Symbols)
          /\ x = Reading(x.at, x.next, x.out)
        BY DEF Readings, Reading
    <2>2. QED
        BY <2>1, FormattedMeans
<1>3. F \in Turns(n, Readings)
    BY <1>2 DEF Turns
<1>4. PICK g : Trace(g, n, Readings, a, F)
    <2> HIDE DEF F, n, a
    <2>1. QED
        BY <1>1, <1>3, Iterates
<1>5. /\ g \in [0..n -> Readings] /\ g[0] = a
      /\ \A i \in 1..n : g[i] = F[i][g[i - 1]]
    BY <1>4, Zenon DEF Trace
<1>6. ASSUME NEW i \in 1..n PROVE g[i] = Formatted(v, g[i - 1])
    <2>1. i - 1 \in 0..n
        BY <1>1
    <2>2. g[i - 1] \in Readings
        BY <1>5, <2>1, Zenon
    <2>3. F[i][g[i - 1]] = Formatted(v, g[i - 1])
        BY <2>2, Zenon
    <2>4. QED
        BY <1>5, <2>3, Zenon
<1>7. g = G(g)
    <2>1. ASSUME NEW i \in 0..n PROVE g[i] = G(g)[i]
        <3>1. CASE i = 0
            BY <1>5, <3>1, Zenon
        <3>2. CASE i # 0
            <4>1. i \in 1..n
                BY <1>1, <3>2
            <4>2. G(g)[i] = Formatted(v, g[i - 1])
                BY <3>2, Zenon
            <4>3. QED
                BY <1>6, <4>1, <4>2, Zenon
        <3>3. QED
            BY <3>1, <3>2
    <2>2. g = [i \in 0..n |-> g[i]]
        BY <1>5, Zenon
    <2>3. [i \in 0..n |-> g[i]] = [i \in 0..n |-> G(g)[i]]
        BY <2>1, Zenon
    <2>4. G(g) = [i \in 0..n |-> G(g)[i]]
        BY Zenon
    <2>5. QED
        BY <2>2, <2>3, <2>4, Zenon
<1>8. Interpolate(v) = m[n].out
    BY DEF Interpolate
<1> HIDE DEF m
<1>9. m = G(m)
    BY <1>7, Zenon DEF m
<1> HIDE DEF n, a
<1>10. m[0] = a /\ \A i \in 1..n : m[i] = Formatted(v, m[i - 1])
    <2>1. 0 \in 0..n /\ \A i \in 1..n : i \in 0..n /\ i # 0
        BY <1>1
    <2>2. QED
        BY <1>9, <2>1, Zenon
<1> DEFINE T == {i \in 0..n : m[i] \in Readings}
<1>11. 0..n \subseteq T
    <2>1. 0 \in T
        BY <1>1, <1>10
    <2>2. ASSUME NEW i \in 1..n, i - 1 \in T PROVE i \in T
        <3>1. i \in 0..n
            BY <1>1
        <3>2. m[i - 1] \in Readings
            BY <2>2
        <3>3. m[i] \in Readings
            BY <1>2, <1>10, <3>2, Zenon
        <3>4. QED
            BY <3>1, <3>3
    <2> HIDE DEF T
    <2>3. QED
        BY <1>1, <2>1, <2>2, Positions
<1>12. m \in [0..n -> Readings]
    <2>1. m = [i \in 0..n |-> m[i]]
        BY <1>9, Zenon
    <2>2. QED
        BY <1>11, <2>1, Zenon
<1>13. Interpolates(m, v)
    BY <1>10, <1>12, Zenon DEF Interpolates, n, a
<1>14. QED
    BY <1>8, <1>13 DEF n

\* What the driver has after the first k characters of the text.
Bound(s, k) ==
    [i \in 1..k |-> IF s[i] # "?" THEN s[i] ELSE Argument(Count(s, i))]
HasBound(s, w, k) == Reading(Len(w[k]) + 1, Count(s, k) + 1, Bound(s, k))

LEMMA BoundStep ==
    ASSUME NEW s \in Seq(Chars)
    PROVE  /\ Bound(s, 0) = <<>>
           /\ \A k \in 0..Len(s) : Bound(s, k) \in Seq(Symbols)
           /\ \A k \in 1..Len(s) :
                  Bound(s, k) = Append(Bound(s, k - 1),
                                       IF s[k] # "?" THEN s[k] ELSE Argument(Count(s, k)))
<1> DEFINE X(i) == IF s[i] # "?" THEN s[i] ELSE Argument(Count(s, i))
<1>1. ASSUME NEW i \in 1..Len(s) PROVE X(i) \in Symbols
    <2>1. s[i] \in Chars /\ Count(s, i) \in Nat
        BY CountStep
    <2>2. s[i] \in Symbols /\ Argument(Count(s, i)) \in Symbols
        BY <2>1, SymbolsAre
    <2>3. QED
        BY <2>2
<1> HIDE DEF X
<1>2. \A k \in 0..Len(s) : Bound(s, k) = [i \in 1..k |-> X(i)]
    BY Zenon DEF Bound, X
<1>3. \A k \in 0..Len(s) : Bound(s, k) \in Seq(Symbols) /\ Len(Bound(s, k)) = k
    BY <1>1, <1>2
<1>4. Bound(s, 0) = <<>>
    BY <1>2
<1>5. ASSUME NEW k \in 1..Len(s)
      PROVE  Bound(s, k) = Append(Bound(s, k - 1), X(k))
    <2>1. k \in 0..Len(s) /\ k - 1 \in 0..Len(s) /\ k \in Nat
        OBVIOUS
    <2>2. Bound(s, k) = [i \in 1..k |-> X(i)] /\ Bound(s, k - 1) = [i \in 1..(k - 1) |-> X(i)]
        BY <1>2, <2>1
    <2>3. QED
        BY <2>1, <2>2
<1>6. QED
    BY <1>3, <1>4, <1>5 DEF X

LEMMA TurnStep ==
    ASSUME NEW s \in Seq(Chars), NEW w, Prepares(w, s), NEW k \in 1..Len(s),
           NEW v, v = w[Len(s)]
    PROVE  Formatted(v, HasBound(s, w, k - 1)) = HasBound(s, w, k)
<1> DEFINE at == Len(w[k - 1]) + 1
           next == Count(s, k - 1) + 1
           out == Bound(s, k - 1)
           t == HasBound(s, w, k - 1)
           x == s[k]
<1>1. k - 1 \in 0..Len(s) /\ k \in 0..Len(s)
    OBVIOUS
<1>2. t = Reading(at, next, out)
    BY DEF HasBound
<1>3. next \in Nat /\ out \in Seq(Symbols) /\ Count(s, k - 1) \in Nat
    BY <1>1, CountStep, BoundStep
<1>4. Count(s, k) = Count(s, k - 1) + (IF x = "?" THEN 1 ELSE 0)
    BY CountStep
<1>5. Bound(s, k) = Append(out, IF x # "?" THEN x ELSE Argument(Count(s, k)))
    BY BoundStep
<1>6. /\ x \in Chars /\ v \in Seq(Chars) /\ at \in Nat \ {0} /\ at <= Len(v)
      /\ x = "%" => /\ Len(w[k]) = at + 1 /\ at + 1 <= Len(v)
                    /\ v[at] = "%" /\ v[at + 1] = "%"
      /\ x = "?" => /\ Len(w[k]) = at + 1 /\ at + 1 <= Len(v)
                    /\ v[at] = "%" /\ v[at + 1] = "s"
      /\ x \notin {"%", "?"} => Len(w[k]) = at /\ v[at] = x
    BY PartAt
<1>7. HasBound(s, w, k) = Reading(Len(w[k]) + 1, Count(s, k) + 1, Bound(s, k))
    BY DEF HasBound
<1> HIDE DEF at, next, out, t, x
<1>8. /\ at <= Len(v) /\ v[at] # "%" =>
            Formatted(v, t) = Reading(at + 1, next, Append(out, v[at]))
      /\ at + 1 <= Len(v) /\ v[at] = "%" /\ v[at + 1] = "%" =>
            Formatted(v, t) = Reading(at + 2, next, Append(out, "%"))
      /\ at + 1 <= Len(v) /\ v[at] = "%" /\ v[at + 1] = "s" =>
            Formatted(v, t) = Reading(at + 2, next + 1, Append(out, Argument(next)))
    BY <1>2, <1>3, <1>6, FormattedMeans
<1>9. CASE x = "%"
    <2>1. Formatted(v, t) = Reading(at + 2, next, Append(out, "%"))
        BY <1>6, <1>8, <1>9
    <2>2. Len(w[k]) + 1 = at + 2 /\ Count(s, k) + 1 = next
        BY <1>3, <1>4, <1>6, <1>9 DEF next
    <2>3. Bound(s, k) = Append(out, "%")
        BY <1>5, <1>9
    <2>4. QED
        BY <1>7, <2>1, <2>2, <2>3 DEF t
<1>10. CASE x = "?"
    <2>1. Formatted(v, t) = Reading(at + 2, next + 1, Append(out, Argument(next)))
        BY <1>6, <1>8, <1>10
    <2>2. Len(w[k]) + 1 = at + 2 /\ Count(s, k) = next
        BY <1>3, <1>4, <1>6, <1>10 DEF next
    <2>3. Bound(s, k) = Append(out, Argument(next))
        BY <1>5, <1>10, <2>2
    <2>4. QED
        BY <1>7, <2>1, <2>2, <2>3 DEF t
<1>11. CASE x \notin {"%", "?"}
    <2>1. Formatted(v, t) = Reading(at + 1, next, Append(out, x))
        BY <1>6, <1>8, <1>11
    <2>2. Len(w[k]) + 1 = at + 1 /\ Count(s, k) + 1 = next
        BY <1>3, <1>4, <1>6, <1>11 DEF next
    <2>3. Bound(s, k) = Append(out, x)
        BY <1>5, <1>11
    <2>4. QED
        BY <1>7, <2>1, <2>2, <2>3 DEF t
<1>12. QED
    BY <1>9, <1>10, <1>11 DEF t

\* There are at least as many turns as there are characters.
LEMMA PreparedGrows ==
    ASSUME NEW s \in Seq(Chars), NEW w, Prepares(w, s), NEW k \in 0..Len(s)
    PROVE  Len(w[k]) \in Nat /\ k <= Len(w[k]) /\ Len(w[k]) <= Len(w[Len(s)])
<1> DEFINE n == Len(s)
           T == {j \in 0..n : j <= Len(w[j])}
<1>1. n \in Nat /\ n \in 0..n
    OBVIOUS
<1>2. w \in [0..n -> Seq(Chars)] /\ w[0] = <<>>
    BY Zenon DEF Prepares
<1>3. ASSUME NEW j \in 0..n PROVE w[j] \in Seq(Chars) /\ Len(w[j]) \in Nat
    BY <1>2
<1>4. 0 \in T
    BY <1>1, <1>2
<1>5. ASSUME NEW j \in 1..n, j - 1 \in T PROVE j \in T
    <2>1. j - 1 \in 0..n /\ j \in 0..n /\ j - 1 <= Len(w[j - 1])
        BY <1>5
    <2>2. Len(w[j - 1]) + 1 <= Len(w[j])
        <3>1. PICK at : at = Len(w[j - 1]) + 1
            OBVIOUS
        <3>2. Len(w[j]) = at \/ Len(w[j]) = at + 1
            BY <3>1, PartAt
        <3>3. Len(w[j - 1]) \in Nat
            BY <1>3, <2>1
        <3>4. QED
            BY <3>1, <3>2, <3>3
    <2>3. Len(w[j - 1]) \in Nat /\ Len(w[j]) \in Nat
        BY <1>3, <2>1
    <2>4. QED
        BY <2>1, <2>2, <2>3
<1> HIDE DEF T
<1>6. k \in T
    BY <1>1, <1>4, <1>5, Positions
<1>7. Begins(w[k], w[n])
    BY PreparesBegin
<1>8. QED
    BY <1>3, <1>6, <1>7 DEF Begins, T

\* The driver puts the arguments where the placeholders were.
LEMMA DriverBinds ==
    ASSUME NEW s \in Seq(Chars)
    PROVE  Interpolate(MysqlPrepare(s)) = Bound(s, Len(s))
<1>1. PICK w : Prepares(w, s)
    BY PrepareMeans
<1> DEFINE n == Len(s)
           v == w[n]
           m == Len(v)
<1>2. n \in Nat /\ n \in 0..n
    OBVIOUS
<1>3. /\ w \in [0..n -> Seq(Chars)] /\ w[0] = <<>>
      /\ MysqlPrepare(s) = v
    BY <1>1, Zenon DEF Prepares
<1>4. v \in Seq(Chars) /\ m \in Nat
    BY <1>2, <1>3
<1>5. n <= m
    BY <1>1, <1>2, PreparedGrows
<1> HIDE DEF m, v
<1>6. PICK g : Interpolates(g, v) /\ Interpolate(v) = g[Len(v)].out
    BY <1>4, InterpolateMeans
<1>7. g[0] = Reading(1, 1, <<>>) /\ \A i \in 1..m : g[i] = Formatted(v, g[i - 1])
    BY <1>6, Zenon DEF Interpolates, m
<1> DEFINE Done(k) == HasBound(s, w, IF k <= n THEN k ELSE n)
           T == {k \in 0..m : g[k] = Done(k)}
<1>8. 0 \in T
    <2>1. Len(w[0]) = 0 /\ Count(s, 0) = 0 /\ Bound(s, 0) = <<>>
        BY <1>3, CountStep, BoundStep
    <2>2. HasBound(s, w, 0) = Reading(0 + 1, 0 + 1, <<>>)
        BY <2>1 DEF HasBound
    <2>3. Done(0) = HasBound(s, w, 0) /\ 0 \in 0..m
        BY <1>2, <1>4
    <2>4. QED
        BY <1>7, <2>2, <2>3
<1>9. ASSUME NEW k \in 1..m, k - 1 \in T PROVE k \in T
    <2>1. g[k] = Formatted(v, g[k - 1]) /\ g[k - 1] = Done(k - 1)
        BY <1>7, <1>9
    <2>2. CASE k <= n
        <3>1. k \in 1..n /\ Done(k - 1) = HasBound(s, w, k - 1) /\ Done(k) = HasBound(s, w, k)
            BY <1>2, <1>4, <2>2
        <3>2. Formatted(v, HasBound(s, w, k - 1)) = HasBound(s, w, k)
            BY <1>1, <3>1, TurnStep DEF v
        <3>3. QED
            BY <2>1, <3>1, <3>2
    <2>3. CASE k > n
        <3> DEFINE t == HasBound(s, w, n)
        <3>1. Done(k - 1) = t /\ Done(k) = t
            BY <1>2, <1>4, <2>3
        <3>2. t = Reading(m + 1, Count(s, n) + 1, Bound(s, n))
            BY DEF HasBound, m, v
        <3>3. Count(s, n) + 1 \in Nat /\ Bound(s, n) \in Seq(Symbols) /\ m + 1 \in Nat \ {0}
            BY <1>2, <1>4, CountStep, BoundStep
        <3> HIDE DEF t
        <3>4. m + 1 > Len(v) => Formatted(v, t) = t
            BY <1>4, <3>2, <3>3, FormattedMeans
        <3>5. m + 1 > Len(v)
            BY <1>4 DEF m
        <3>6. QED
            BY <2>1, <3>1, <3>4, <3>5
    <2>4. QED
        BY <1>2, <2>2, <2>3
<1> HIDE DEF T
<1>10. m \in T
    <2>1. 0..m \subseteq T
        BY <1>4, <1>8, <1>9, Positions
    <2>2. QED
        BY <1>4, <2>1
<1>11. g[m] = HasBound(s, w, n)
    <2>1. Done(m) = HasBound(s, w, n)
        BY <1>2, <1>4, <1>5
    <2>2. QED
        BY <1>10, <2>1 DEF T
<1>12. g[m].out = Bound(s, n)
    BY <1>11 DEF HasBound, Reading
<1>13. QED
    BY <1>3, <1>6, <1>12 DEF m

\* What Pg numbers a placeholder with.
LEMMA MarksAmong ==
    ASSUME NEW s \in Seq(Chars), NEW code, code \subseteq 1..Len(s),
           \A j \in 1..Len(s) : s[j] = "?" => j \in code,
           NEW i \in 1..Len(s)
    PROVE  {j \in code : j <= i /\ s[j] = "?"} = Marks(s, i)
<1>1. \A j \in code : j <= i <=> j \in 1..i
    OBVIOUS
<1>2. \A j \in 1..i : j \in 1..Len(s)
    OBVIOUS
<1>3. QED
    BY <1>1, <1>2, Zenon DEF Marks

LEMMA PgNumbers ==
    ASSUME NEW s \in Seq(Chars), Scans(s, FALSE),
           \A i \in DOMAIN s : s[i] = "?" => i \in Code(s, FALSE),
           NEW i \in DOMAIN s, s[i] = "?"
    PROVE  Pg(s)[i][2] = Count(s, i)
<1>1. Code(s, FALSE) \subseteq DOMAIN s
    BY ScannerMatchesLexer DEF LexedCode
<1>2. {j \in Code(s, FALSE) : j <= i /\ s[j] = "?"} = Marks(s, i)
    <2>1. DOMAIN s = 1..Len(s)
        OBVIOUS
    <2> DEFINE code == Code(s, FALSE)
    <2>2. /\ code \subseteq 1..Len(s) /\ i \in 1..Len(s)
          /\ \A j \in 1..Len(s) : s[j] = "?" => j \in code
        BY <1>1, <2>1, Zenon
    <2> HIDE DEF code
    <2>3. {j \in code : j <= i /\ s[j] = "?"} = Marks(s, i)
        BY <2>2, MarksAmong
    <2>4. QED
        BY <2>3, Zenon DEF code
<1>3. Pg(s)[i] = Numbered(Count(s, i))
    BY <1>2 DEF Pg, Count
<1>4. QED
    BY <1>3 DEF Numbered

-----------------------------------------------------------------------------
(* _pg and _mysql_prepare, db.py 1043-1063, on a text of any length whose  *)
(* every `?` is a placeholder: what MySQL is sent after the driver's       *)
(* formatting has the arguments where Postgres has their numbers, and      *)
(* every other character as it was.                                        *)
THEOREM RewritesAgree ==
    ASSUME NEW s \in Seq(Chars), Scans(s, FALSE),
           \A i \in DOMAIN s : s[i] = "?" => i \in Code(s, FALSE)
    PROVE  Interpolate(MysqlPrepare(s)) =
              [i \in DOMAIN s |->
                  IF s[i] # "?" THEN s[i] ELSE Argument(Pg(s)[i][2])]
<1>1. DOMAIN s = 1..Len(s)
    OBVIOUS
<1>2. ASSUME NEW i \in DOMAIN s
      PROVE  (IF s[i] # "?" THEN s[i] ELSE Argument(Pg(s)[i][2]))
                = IF s[i] # "?" THEN s[i] ELSE Argument(Count(s, i))
    BY PgNumbers
<1>3. QED
    BY <1>1, <1>2, DriverBinds, Zenon DEF Bound

(* The property that the run checks for short texts, whatever the bound on *)
(* their length.                                                           *)
THEOREM DriversAgree == TextSpec => []DriversBindAlike
<1>1. TextTypeOK => DriversBindAlike
    <2>1. TextTypeOK => text \in Seq(Chars)
        BY DEF TextTypeOK
    <2>2. QED
        BY <2>1, RewritesAgree DEF DriversBindAlike
<1>2. QED
    BY <1>1, TextTypeCorrect, PTL
=============================================================================
