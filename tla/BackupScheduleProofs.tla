------------------------ MODULE BackupScheduleProofs ------------------------
(***************************************************************************)
(* Proofs about the schedule of backups, for every interval, every period  *)
(* of the monitor, every bound on the time that work takes and every       *)
(* number of failures and restarts: what counts as the last backup is one, *)
(* and processes with both stores leave no longer gap between two backups  *)
(* than the schedule allows.                                               *)
(***************************************************************************)
EXTENDS BackupSchedule, TLAPS

-----------------------------------------------------------------------------
(* The inductive invariant.                                                *)

\* Whoever waits for a run of its own holds the run, the timer runs within
\* the bound of what it times, and setbacks are paid for.
TimersAreTrue ==
    /\ monitor = "sleep" => timer \in 0..Period
    /\ monitor \in {"check", "house"} => timer \in 0..MaxBusy
    /\ monitor = "house" => nowAge <= timer
    /\ monitor # "house" => nowAge = 0
    /\ monitor = "backup" <=> run.by = "schedule"
    /\ startup = "backup" <=> run.by = "startup"
    /\ setbacks + faultsLeft + bootsLeft <= MaxFaults + MaxBoots

\* A run that is past its write has made the newest backup itself.
RunWritten ==
    At("prune") \/ At("meta") => newest # Never /\ newest <= runTime

\* What the setbacks so far may have cost.
Cost(k) == k * (Pass + MaxRun)
Bound == Interval + MaxBusy + MaxRun + Cost(setbacks)

\* Exposure is part of the newest backup's age.
ExposedInPart ==
    /\ exposed = Never <=> newest = Never
    /\ newest # Never => exposed <= newest

\* How long the exposure may be at each point between two passes, and in a
\* process that lacks a store, where it does not grow.
KeepsUp ==
    ~blind /\ newest # Never =>
        /\ ~Equipped => exposed < Bound
        /\ Equipped =>
              /\ At("dump") \/ At("write") => exposed < Bound + Pass + runTime
              /\ ~Busy /\ monitor = "sleep" => exposed < Bound + Period - timer
              /\ ~Busy /\ monitor \in {"check", "house"} => exposed < Bound + Period + timer

IInv == TypeOK /\ TimersAreTrue /\ RunWritten /\ CursorIsBacked /\ ExposedInPart /\ KeepsUp

-----------------------------------------------------------------------------
(* Arithmetic.                                                             *)

\* Setbacks cost a pass and a run each.
LEMMA CostFacts ==
    /\ Pass + MaxRun \in Nat
    /\ \A k \in Nat : Cost(k) \in Nat /\ Cost(k + 1) = Cost(k) + Pass + MaxRun
PROOF
<1>1. Pass + MaxRun \in Nat
    BY BackupScheduleAssumption DEF Pass
<1>2. \A k, l \in Nat : k * l \in Nat /\ (k + 1) * l = k * l + l
    OBVIOUS
<1>3. \A k \in Nat : k + 1 \in Nat
    OBVIOUS
<1>4. QED
  <2> SUFFICES ASSUME NEW k \in Nat
               PROVE  Cost(k) \in Nat /\ Cost(k + 1) = Cost(k) + Pass + MaxRun
    BY <1>1
  <2>1. k * (Pass + MaxRun) \in Nat
    BY <1>1, <1>2
  <2>2. (k + 1) * (Pass + MaxRun) = k * (Pass + MaxRun) + (Pass + MaxRun)
    BY <1>1, <1>2
  <2>3. Pass \in Int /\ MaxRun \in Int
    BY BackupScheduleAssumption DEF Pass
  <2>4. QED
    BY <2>1, <2>2, <2>3 DEF Cost

\* No age that decides anything is cut off.
LEMMA OldestIsLate == Oldest \in Nat /\ Oldest > Interval + MaxBusy + MaxRun
PROOF
<1> USE BackupScheduleAssumption
<1> DEFINE n == MaxFaults + MaxBoots + 2
           l == Period + MaxBusy + MaxRun
<1>1. n \in Nat /\ n >= 2 /\ l \in Nat /\ l >= MaxBusy + MaxRun
    OBVIOUS
<1>2. \A i, j \in Nat : i * j \in Nat /\ (i >= 1 => i * j >= j)
    OBVIOUS
<1>3. n * l \in Nat /\ n * l >= l
    BY <1>1, <1>2
<1>4. Oldest = Interval + n * l + 1
    BY DEF Oldest
<1>5. QED
    BY <1>1, <1>3, <1>4

-----------------------------------------------------------------------------
(* What a step does to each part of the invariant.                         *)

LEMMA TypeOKStep == IInv /\ [Next]_vars => TypeOK'
PROOF
<1> SUFFICES ASSUME IInv, [Next]_vars PROVE TypeOK'
    OBVIOUS
<1> USE BackupScheduleAssumption DEF written, marks, tasks, budget
<1>1. CASE UNCHANGED vars
    BY <1>1 DEF IInv, TypeOK, TimersAreTrue, Ages, Runs, Sources, Steps,
        NoRun, At, Busy, vars
<1>2. CASE Dump
    BY <1>2, CostFacts, OldestIsLate
    DEF IInv, TypeOK, TimersAreTrue, Ages, Runs, Sources, Steps, NoRun, At,
        Busy, Dump
<1>3. CASE Write
  <2>1. run' \in Runs
    BY <1>3 DEF IInv, TypeOK, Runs, Sources, Steps, NoRun, Write, At, Busy
  <2>2. newest' \in Ages /\ exposed' \in Ages /\ setbacks' \in 0..(MaxFaults + MaxBoots)
    BY <1>3, OldestIsLate DEF Write, Ages
  <2>3. QED
    BY <1>3, <2>1, <2>2 DEF IInv, TypeOK, Write
<1>4. CASE Prune
    BY <1>4, CostFacts, OldestIsLate
    DEF IInv, TypeOK, TimersAreTrue, Ages, Runs, Sources, Steps, NoRun, At,
        Busy, Prune
<1>5. CASE SetMeta
    BY <1>5, CostFacts, OldestIsLate
    DEF IInv, TypeOK, TimersAreTrue, Ages, Runs, Sources, Steps, NoRun, At,
        Busy, SetMeta, Return
<1>6. CASE RunFails
    BY <1>6, CostFacts, OldestIsLate
    DEF IInv, TypeOK, TimersAreTrue, Ages, Runs, Sources, Steps, NoRun, At,
        Busy, RunFails, Fault, SetBack, Return
<1>7. CASE Wake
    BY <1>7, CostFacts, OldestIsLate
    DEF IInv, TypeOK, TimersAreTrue, Ages, Runs, Sources, Steps, NoRun, At,
        Busy, Wake
<1>8. CASE Checked
    BY <1>8, CostFacts, OldestIsLate
    DEF IInv, TypeOK, TimersAreTrue, Ages, Runs, Sources, Steps, NoRun, At,
        Busy, Checked
<1>9. CASE House
    BY <1>9, CostFacts, OldestIsLate
    DEF IInv, TypeOK, TimersAreTrue, Ages, Runs, Sources, Steps, NoRun, At,
        Busy, House, Manager, Equipped, Begin, Sleep, Due, Reference
<1>10. CASE StartupBackup
    BY <1>10, CostFacts, OldestIsLate
    DEF IInv, TypeOK, TimersAreTrue, Ages, Runs, Sources, Steps, NoRun, At,
        Busy, StartupBackup, Begin
<1>11. CASE TriggerBackup
    BY <1>11, CostFacts, OldestIsLate
    DEF IInv, TypeOK, TimersAreTrue, Ages, Runs, Sources, Steps, NoRun, At,
        Busy, TriggerBackup, Begin
<1>12. CASE Boot
    BY <1>12, CostFacts, OldestIsLate
    DEF IInv, TypeOK, TimersAreTrue, Ages, Runs, Sources, Steps, NoRun, At,
        Busy, Boot, Manager, Equipped, Stores, Fault, SetBack
<1>13. CASE Tick
    BY <1>13, CostFacts, OldestIsLate
    DEF IInv, TypeOK, TimersAreTrue, Ages, Runs, Sources, Steps, NoRun, At,
        Busy, Tick, Equipped, MayTick, Older
<1>14. CASE DumpFails
    BY <1>14, CostFacts, OldestIsLate
    DEF IInv, TypeOK, TimersAreTrue, Ages, Runs, Sources, Steps, NoRun, At,
        Busy, DumpFails, Return
<1>15. QED
    BY <1>1, <1>2, <1>3, <1>4, <1>5, <1>6, <1>7, <1>8, <1>9, <1>10, <1>11,
        <1>12, <1>13, <1>14 DEF Next, RunStep, MonitorStep

LEMMA TimersAreTrueStep == IInv /\ [Next]_vars => TimersAreTrue'
PROOF
<1> SUFFICES ASSUME IInv, [Next]_vars PROVE TimersAreTrue'
    OBVIOUS
<1> USE BackupScheduleAssumption DEF written, marks, tasks, budget
<1>1. CASE UNCHANGED vars
    BY <1>1 DEF IInv, TypeOK, TimersAreTrue, Runs, Sources, Steps, NoRun, At,
        Busy, vars
<1>2. CASE Dump
    BY <1>2
    DEF IInv, TypeOK, TimersAreTrue, Runs, Sources, Steps, NoRun, At, Busy,
        Dump
<1>3. CASE Write
    BY <1>3
    DEF IInv, TypeOK, TimersAreTrue, Runs, Sources, Steps, NoRun, At, Busy,
        Write
<1>4. CASE Prune
    BY <1>4
    DEF IInv, TypeOK, TimersAreTrue, Runs, Sources, Steps, NoRun, At, Busy,
        Prune
<1>5. CASE SetMeta
    BY <1>5
    DEF IInv, TypeOK, TimersAreTrue, Runs, Sources, Steps, NoRun, At, Busy,
        SetMeta, Return
<1>6. CASE RunFails
    BY <1>6
    DEF IInv, TypeOK, TimersAreTrue, Runs, Sources, Steps, NoRun, At, Busy,
        RunFails, Fault, SetBack, Return
<1>7. CASE Wake
    BY <1>7
    DEF IInv, TypeOK, TimersAreTrue, Runs, Sources, Steps, NoRun, At, Busy,
        Wake
<1>8. CASE Checked
    BY <1>8
    DEF IInv, TypeOK, TimersAreTrue, Runs, Sources, Steps, NoRun, At, Busy,
        Checked
<1>9. CASE House
    BY <1>9
    DEF IInv, TypeOK, TimersAreTrue, Runs, Sources, Steps, NoRun, At, Busy,
        House, Manager, Equipped, Begin, Sleep, Due, Reference
<1>10. CASE StartupBackup
    BY <1>10
    DEF IInv, TypeOK, TimersAreTrue, Runs, Sources, Steps, NoRun, At, Busy,
        StartupBackup, Begin
<1>11. CASE TriggerBackup
    BY <1>11
    DEF IInv, TypeOK, TimersAreTrue, Runs, Sources, Steps, NoRun, At, Busy,
        TriggerBackup, Begin
<1>12. CASE Boot
    BY <1>12
    DEF IInv, TypeOK, TimersAreTrue, Runs, Sources, Steps, NoRun, At, Busy,
        Boot, Manager, Equipped, Stores, Fault, SetBack
<1>13. CASE Tick
    BY <1>13
    DEF IInv, TypeOK, TimersAreTrue, Runs, Sources, Steps, NoRun, At, Busy,
        Tick, Equipped, MayTick, Older
<1>14. CASE DumpFails
    BY <1>14
    DEF IInv, TypeOK, TimersAreTrue, Runs, Sources, Steps, NoRun, At, Busy,
        DumpFails, Return
<1>15. QED
    BY <1>1, <1>2, <1>3, <1>4, <1>5, <1>6, <1>7, <1>8, <1>9, <1>10, <1>11,
        <1>12, <1>13, <1>14 DEF Next, RunStep, MonitorStep

LEMMA RunWrittenStep == IInv /\ [Next]_vars => RunWritten'
PROOF
<1> SUFFICES ASSUME IInv, [Next]_vars PROVE RunWritten'
    OBVIOUS
<1> USE BackupScheduleAssumption DEF written, marks, tasks, budget
<1>1. CASE UNCHANGED vars
    BY <1>1 DEF IInv, TypeOK, TimersAreTrue, RunWritten, Runs, NoRun, Ages,
        At, Busy, vars
<1>2. CASE Dump
    BY <1>2, OldestIsLate
    DEF IInv, TypeOK, TimersAreTrue, RunWritten, Runs, NoRun, Ages, At, Busy,
        Dump
<1>3. CASE Write
    BY <1>3, OldestIsLate
    DEF IInv, TypeOK, TimersAreTrue, RunWritten, Runs, NoRun, Ages, At, Busy,
        Write
<1>4. CASE Prune
    BY <1>4, OldestIsLate
    DEF IInv, TypeOK, TimersAreTrue, RunWritten, Runs, NoRun, Ages, At, Busy,
        Prune
<1>5. CASE SetMeta
    BY <1>5, OldestIsLate
    DEF IInv, TypeOK, TimersAreTrue, RunWritten, Runs, NoRun, Ages, At, Busy,
        SetMeta, Return
<1>6. CASE RunFails
    BY <1>6, OldestIsLate
    DEF IInv, TypeOK, TimersAreTrue, RunWritten, Runs, NoRun, Ages, At, Busy,
        RunFails, Fault, SetBack, Return
<1>7. CASE Wake
    BY <1>7, OldestIsLate
    DEF IInv, TypeOK, TimersAreTrue, RunWritten, Runs, NoRun, Ages, At, Busy,
        Wake
<1>8. CASE Checked
    BY <1>8, OldestIsLate
    DEF IInv, TypeOK, TimersAreTrue, RunWritten, Runs, NoRun, Ages, At, Busy,
        Checked
<1>9. CASE House
    BY <1>9, OldestIsLate
    DEF IInv, TypeOK, TimersAreTrue, RunWritten, Runs, NoRun, Ages, At, Busy,
        House, Manager, Equipped, Begin, Sleep, Due, Reference
<1>10. CASE StartupBackup
    BY <1>10, OldestIsLate
    DEF IInv, TypeOK, TimersAreTrue, RunWritten, Runs, NoRun, Ages, At, Busy,
        StartupBackup, Begin
<1>11. CASE TriggerBackup
    BY <1>11, OldestIsLate
    DEF IInv, TypeOK, TimersAreTrue, RunWritten, Runs, NoRun, Ages, At, Busy,
        TriggerBackup, Begin
<1>12. CASE Boot
    BY <1>12, OldestIsLate
    DEF IInv, TypeOK, TimersAreTrue, RunWritten, Runs, NoRun, Ages, At, Busy,
        Boot, Manager, Equipped, Stores, Fault, SetBack
<1>13. CASE Tick
    BY <1>13, OldestIsLate
    DEF IInv, TypeOK, TimersAreTrue, RunWritten, Runs, NoRun, Ages, At, Busy,
        Tick, Equipped, MayTick, Older
<1>14. CASE DumpFails
    BY <1>14, OldestIsLate
    DEF IInv, TypeOK, TimersAreTrue, RunWritten, Runs, NoRun, Ages, At, Busy,
        DumpFails, Return
<1>15. QED
    BY <1>1, <1>2, <1>3, <1>4, <1>5, <1>6, <1>7, <1>8, <1>9, <1>10, <1>11,
        <1>12, <1>13, <1>14 DEF Next, RunStep, MonitorStep

LEMMA CursorIsBackedStep == IInv /\ [Next]_vars => CursorIsBacked'
PROOF
<1> SUFFICES ASSUME IInv, [Next]_vars PROVE CursorIsBacked'
    OBVIOUS
<1> USE BackupScheduleAssumption DEF written, marks, tasks, budget
<1>1. CASE UNCHANGED vars
    BY <1>1 DEF IInv, TypeOK, TimersAreTrue, RunWritten, CursorIsBacked, Runs,
        NoRun, Ages, At, Busy, vars
<1>2. CASE Dump
    BY <1>2, OldestIsLate
    DEF IInv, TypeOK, TimersAreTrue, RunWritten, CursorIsBacked, Runs, NoRun,
        Ages, At, Busy, Dump
<1>3. CASE Write
    BY <1>3, OldestIsLate
    DEF IInv, TypeOK, TimersAreTrue, RunWritten, CursorIsBacked, Runs, NoRun,
        Ages, At, Busy, Write
<1>4. CASE Prune
    BY <1>4, OldestIsLate
    DEF IInv, TypeOK, TimersAreTrue, RunWritten, CursorIsBacked, Runs, NoRun,
        Ages, At, Busy, Prune
<1>5. CASE SetMeta
    BY <1>5, OldestIsLate
    DEF IInv, TypeOK, TimersAreTrue, RunWritten, CursorIsBacked, Runs, NoRun,
        Ages, At, Busy, SetMeta, Return
<1>6. CASE RunFails
    BY <1>6, OldestIsLate
    DEF IInv, TypeOK, TimersAreTrue, RunWritten, CursorIsBacked, Runs, NoRun,
        Ages, At, Busy, RunFails, Fault, SetBack, Return
<1>7. CASE Wake
    BY <1>7, OldestIsLate
    DEF IInv, TypeOK, TimersAreTrue, RunWritten, CursorIsBacked, Runs, NoRun,
        Ages, At, Busy, Wake
<1>8. CASE Checked
    BY <1>8, OldestIsLate
    DEF IInv, TypeOK, TimersAreTrue, RunWritten, CursorIsBacked, Runs, NoRun,
        Ages, At, Busy, Checked
<1>9. CASE House
    BY <1>9, OldestIsLate
    DEF IInv, TypeOK, TimersAreTrue, RunWritten, CursorIsBacked, Runs, NoRun,
        Ages, At, Busy, House, Manager, Equipped, Begin, Sleep, Due, Reference
<1>10. CASE StartupBackup
    BY <1>10, OldestIsLate
    DEF IInv, TypeOK, TimersAreTrue, RunWritten, CursorIsBacked, Runs, NoRun,
        Ages, At, Busy, StartupBackup, Begin
<1>11. CASE TriggerBackup
    BY <1>11, OldestIsLate
    DEF IInv, TypeOK, TimersAreTrue, RunWritten, CursorIsBacked, Runs, NoRun,
        Ages, At, Busy, TriggerBackup, Begin
<1>12. CASE Boot
    BY <1>12, OldestIsLate
    DEF IInv, TypeOK, TimersAreTrue, RunWritten, CursorIsBacked, Runs, NoRun,
        Ages, At, Busy, Boot, Manager, Equipped, Stores, Fault, SetBack
<1>13. CASE Tick
  <2>1. newest # Never =>
          /\ newest' # Never
          /\ newest' = newest + 1 \/ (newest' = newest /\ newest' = Oldest)
          /\ newest' \in 0..Oldest
    BY <1>13, OldestIsLate DEF IInv, TypeOK, Ages, Tick, Equipped, Older
  <2>2. lastAt' # Never => lastAt # Never /\ lastAt \in Nat
                           /\ (lastAt' = lastAt + 1 \/ lastAt' = Oldest)
    BY <1>13, OldestIsLate DEF IInv, TypeOK, Ages, Tick, Equipped, Older
  <2>3. cursor' # Never => cursor # Never /\ cursor \in Nat
                           /\ (cursor' = cursor + 1 \/ cursor' = Oldest)
    BY <1>13, OldestIsLate DEF IInv, TypeOK, Ages, Tick, Equipped, Older
  <2>4. newest # Never => newest \in Nat
    BY OldestIsLate DEF IInv, TypeOK, Ages
  <2>5. lastAt' # Never => newest' # Never /\ newest' <= lastAt' + MaxRun
    BY <2>1, <2>2, <2>4, OldestIsLate DEF IInv, CursorIsBacked
  <2>6. cursor' # Never => newest' # Never /\ newest' <= cursor' + MaxRun
    BY <2>1, <2>3, <2>4, OldestIsLate DEF IInv, CursorIsBacked
  <2>7. QED
    BY <2>5, <2>6 DEF CursorIsBacked
<1>14. CASE DumpFails
    BY <1>14, OldestIsLate
    DEF IInv, TypeOK, TimersAreTrue, RunWritten, CursorIsBacked, Runs, NoRun,
        Ages, At, Busy, DumpFails, Return
<1>15. QED
    BY <1>1, <1>2, <1>3, <1>4, <1>5, <1>6, <1>7, <1>8, <1>9, <1>10, <1>11,
        <1>12, <1>13, <1>14 DEF Next, RunStep, MonitorStep

LEMMA ExposedInPartStep == IInv /\ [Next]_vars => ExposedInPart'
PROOF
<1> SUFFICES ASSUME IInv, [Next]_vars PROVE ExposedInPart'
    OBVIOUS
<1> USE BackupScheduleAssumption DEF written, marks, tasks, budget
<1>1. CASE UNCHANGED vars
    BY <1>1 DEF IInv, TypeOK, TimersAreTrue, ExposedInPart, Runs, NoRun, Ages,
        At, Busy, vars
<1>2. CASE Dump
    BY <1>2, OldestIsLate
    DEF IInv, TypeOK, TimersAreTrue, ExposedInPart, Runs, NoRun, Ages, At, Busy,
        Dump
<1>3. CASE Write
    BY <1>3, OldestIsLate
    DEF IInv, TypeOK, TimersAreTrue, ExposedInPart, Runs, NoRun, Ages, At, Busy,
        Write
<1>4. CASE Prune
    BY <1>4, OldestIsLate
    DEF IInv, TypeOK, TimersAreTrue, ExposedInPart, Runs, NoRun, Ages, At, Busy,
        Prune
<1>5. CASE SetMeta
    BY <1>5, OldestIsLate
    DEF IInv, TypeOK, TimersAreTrue, ExposedInPart, Runs, NoRun, Ages, At, Busy,
        SetMeta, Return
<1>6. CASE RunFails
    BY <1>6, OldestIsLate
    DEF IInv, TypeOK, TimersAreTrue, ExposedInPart, Runs, NoRun, Ages, At, Busy,
        RunFails, Fault, SetBack, Return
<1>7. CASE Wake
    BY <1>7, OldestIsLate
    DEF IInv, TypeOK, TimersAreTrue, ExposedInPart, Runs, NoRun, Ages, At, Busy,
        Wake
<1>8. CASE Checked
    BY <1>8, OldestIsLate
    DEF IInv, TypeOK, TimersAreTrue, ExposedInPart, Runs, NoRun, Ages, At, Busy,
        Checked
<1>9. CASE House
    BY <1>9, OldestIsLate
    DEF IInv, TypeOK, TimersAreTrue, ExposedInPart, Runs, NoRun, Ages, At, Busy,
        House, Manager, Equipped, Begin, Sleep, Due, Reference
<1>10. CASE StartupBackup
    BY <1>10, OldestIsLate
    DEF IInv, TypeOK, TimersAreTrue, ExposedInPart, Runs, NoRun, Ages, At, Busy,
        StartupBackup, Begin
<1>11. CASE TriggerBackup
    BY <1>11, OldestIsLate
    DEF IInv, TypeOK, TimersAreTrue, ExposedInPart, Runs, NoRun, Ages, At, Busy,
        TriggerBackup, Begin
<1>12. CASE Boot
    BY <1>12, OldestIsLate
    DEF IInv, TypeOK, TimersAreTrue, ExposedInPart, Runs, NoRun, Ages, At, Busy,
        Boot, Manager, Equipped, Stores, Fault, SetBack
<1>13. CASE Tick
    BY <1>13, OldestIsLate
    DEF IInv, TypeOK, TimersAreTrue, ExposedInPart, Runs, NoRun, Ages, At, Busy,
        Tick, Equipped, MayTick, Older
<1>14. CASE DumpFails
    BY <1>14, OldestIsLate
    DEF IInv, TypeOK, TimersAreTrue, ExposedInPart, Runs, NoRun, Ages, At, Busy,
        DumpFails, Return
<1>15. QED
    BY <1>1, <1>2, <1>3, <1>4, <1>5, <1>6, <1>7, <1>8, <1>9, <1>10, <1>11,
        <1>12, <1>13, <1>14 DEF Next, RunStep, MonitorStep

LEMMA KeepsUpStep == IInv /\ [Next]_vars => KeepsUp'
PROOF
<1> SUFFICES ASSUME IInv, [Next]_vars PROVE KeepsUp'
    OBVIOUS
<1> USE BackupScheduleAssumption DEF written, marks, tasks, budget
<1>1. CASE UNCHANGED vars
    BY <1>1 DEF IInv, TypeOK, TimersAreTrue, RunWritten, CursorIsBacked, ExposedInPart,
        KeepsUp, Equipped, Bound, Pass, Runs, NoRun, Ages, At, Busy, vars
<1>2. CASE Dump
    BY <1>2, CostFacts, OldestIsLate
    DEF IInv, TypeOK, TimersAreTrue, RunWritten, CursorIsBacked, ExposedInPart,
        KeepsUp, Equipped, Bound, Pass, Runs, NoRun, Ages, At, Busy, Dump
<1>3. CASE Write
  <2>1. exposed' = 0 /\ Bound' \in Nat /\ Bound' > 0
    BY <1>3, CostFacts DEF Write, Bound
  <2>2. Busy' /\ ~At("dump")' /\ ~At("write")'
    BY <1>3 DEF IInv, TypeOK, Runs, Write, At, Busy, NoRun, Sources
  <2>3. QED
    BY <2>1, <2>2 DEF KeepsUp
<1>4. CASE Prune
    BY <1>4, CostFacts, OldestIsLate
    DEF IInv, TypeOK, TimersAreTrue, RunWritten, CursorIsBacked, ExposedInPart,
        KeepsUp, Equipped, Bound, Pass, Runs, NoRun, Ages, At, Busy, Prune
<1>5. CASE SetMeta
    BY <1>5, CostFacts, OldestIsLate
    DEF IInv, TypeOK, TimersAreTrue, RunWritten, CursorIsBacked, ExposedInPart,
        KeepsUp, Equipped, Bound, Pass, Runs, NoRun, Ages, At, Busy, SetMeta, Return
<1>6. CASE RunFails
  <2>1. setbacks \in Nat /\ setbacks' = setbacks + 1 /\ newest' = newest
        /\ exposed' = exposed /\ blind' = blind
    BY <1>6 DEF IInv, TypeOK, RunFails, SetBack
  <2>2. Bound' = Bound + Pass + MaxRun /\ Bound \in Nat /\ Pass \in Nat
        /\ Bound > MaxRun
    BY <2>1, CostFacts DEF Bound, Pass
  <2>3. ~blind /\ newest # Never => exposed \in Nat /\ exposed < Bound + Pass + MaxRun
    BY <2>2, OldestIsLate
    DEF IInv, TypeOK, TimersAreTrue, RunWritten, ExposedInPart, KeepsUp,
        Equipped, Pass, Runs, NoRun, Ages, At, Busy, Sources, Steps
  <2>4. ~Busy' /\ (monitor' = "sleep" => timer' \in 0..Period)
        /\ (monitor' \in {"check", "house"} => timer' \in Nat)
    BY <1>6 DEF IInv, TypeOK, TimersAreTrue, Busy, RunFails, Return
  <2>5. ~blind' /\ newest' # Never => exposed' < Bound'
    BY <2>1, <2>2, <2>3
  <2>6. QED
    BY <2>1, <2>2, <2>3, <2>4, <2>5 DEF KeepsUp, At
<1>7. CASE Wake
    BY <1>7, CostFacts, OldestIsLate
    DEF IInv, TypeOK, TimersAreTrue, RunWritten, CursorIsBacked, ExposedInPart,
        KeepsUp, Equipped, Bound, Pass, Runs, NoRun, Ages, At, Busy, Wake
<1>8. CASE Checked
    BY <1>8, CostFacts, OldestIsLate
    DEF IInv, TypeOK, TimersAreTrue, RunWritten, CursorIsBacked, ExposedInPart,
        KeepsUp, Equipped, Bound, Pass, Runs, NoRun, Ages, At, Busy, Checked
<1>9. CASE House
  <2> SUFFICES ASSUME ~blind', newest' # Never PROVE KeepsUp'
    BY DEF KeepsUp
  <2>1. newest \in Nat /\ exposed \in Nat /\ exposed <= newest /\ Bound' = Bound
        /\ Bound \in Nat /\ Pass = Period + MaxBusy /\ setbacks \in Nat
        /\ newest' = newest /\ exposed' = exposed /\ opened' = opened
    BY <1>9, CostFacts, OldestIsLate
    DEF House, IInv, TypeOK, ExposedInPart, Ages, Bound, Pass
  <2>2. ~blind
    BY <1>9 DEF House, IInv, TypeOK
  <2>3. CASE ~Equipped
    BY <2>1, <2>2, <2>3 DEF IInv, KeepsUp, Equipped
  <2>4. CASE Equipped /\ Due /\ ~Busy
    <3>1. monitor = "house" /\ monitor' = "backup" /\ Busy' /\ runTime' = 0
      BY <1>9, <2>4 DEF House, Manager, Equipped, Stores, Begin, Busy, NoRun
    <3>2. exposed < Bound + Period + timer /\ timer \in 0..MaxBusy
      BY <2>1, <2>2, <2>4, <3>1 DEF IInv, KeepsUp, TimersAreTrue
    <3>3. QED
      BY <2>1, <2>4, <3>1, <3>2 DEF KeepsUp, Equipped
  <2>5. CASE Equipped /\ ~(Due /\ ~Busy)
    <3>1. monitor = "house" /\ monitor' = "sleep" /\ timer' = Period /\ run' = run
          /\ runTime' = runTime
      BY <1>9, <2>5 DEF House, Sleep
    <3>2. CASE Busy
      BY <2>1, <2>2, <2>5, <3>1, <3>2 DEF IInv, KeepsUp, Equipped, Busy, At
    <3>3. CASE ~Busy /\ ~Due
      <4>1. lastAt # Never
        BY <1>9, <2>5, <3>3 DEF House
      <4>2. lastAt \in Nat /\ nowAge \in Nat /\ lastAt < Interval + nowAge /\ nowAge <= MaxBusy
        BY <3>1, <3>3, <4>1, OldestIsLate
        DEF Due, Reference, IInv, TypeOK, TimersAreTrue, Ages
      <4>3. newest < Interval + MaxBusy + MaxRun
        BY <2>1, <4>1, <4>2 DEF IInv, CursorIsBacked
      <4>4. Bound >= Interval + MaxBusy + MaxRun
        BY <2>1, CostFacts DEF Bound
      <4>5. exposed' < Bound' + Period - timer'
        BY <2>1, <3>1, <4>3, <4>4
      <4>6. QED
        BY <2>1, <2>5, <3>1, <3>3, <4>5 DEF KeepsUp, Equipped, Busy, At
    <3>4. QED
      BY <2>5, <3>2, <3>3
  <2>6. QED
    BY <2>3, <2>4, <2>5
<1>10. CASE StartupBackup
    BY <1>10, CostFacts, OldestIsLate
    DEF IInv, TypeOK, TimersAreTrue, RunWritten, CursorIsBacked, ExposedInPart,
        KeepsUp, Equipped, Bound, Pass, Runs, NoRun, Ages, At, Busy, StartupBackup, Begin
<1>11. CASE TriggerBackup
    BY <1>11, CostFacts, OldestIsLate
    DEF IInv, TypeOK, TimersAreTrue, RunWritten, CursorIsBacked, ExposedInPart,
        KeepsUp, Equipped, Bound, Pass, Runs, NoRun, Ages, At, Busy, TriggerBackup, Begin
<1>12. CASE Boot
  <2>1. setbacks \in Nat /\ setbacks' = setbacks + 1 /\ newest' = newest
        /\ exposed' = exposed /\ blind' = blind
    BY <1>12 DEF IInv, TypeOK, Boot, SetBack
  <2>2. Bound' = Bound + Pass + MaxRun /\ Bound \in Nat /\ Pass \in Nat
        /\ Bound > MaxRun
    BY <2>1, CostFacts DEF Bound, Pass
  <2>3. ~blind /\ newest # Never => exposed \in Nat /\ exposed < Bound + Pass + MaxRun
    BY <2>2, OldestIsLate
    DEF IInv, TypeOK, TimersAreTrue, RunWritten, ExposedInPart, KeepsUp,
        Equipped, Pass, Runs, NoRun, Ages, At, Busy, Sources, Steps
  <2>4. ~Busy' /\ (monitor' = "sleep" => timer' \in 0..Period)
        /\ (monitor' \in {"check", "house"} => timer' \in Nat)
    BY <1>12 DEF IInv, TypeOK, TimersAreTrue, Busy, Boot
  <2>5. ~blind' /\ newest' # Never => exposed' < Bound'
    BY <2>1, <2>2, <2>3
  <2>6. QED
    BY <2>1, <2>2, <2>3, <2>4, <2>5 DEF KeepsUp, At
<1>13. CASE Tick
  <2> SUFFICES ASSUME ~blind', newest' # Never PROVE KeepsUp'
    BY DEF KeepsUp
  <2>1. exposed \in Nat /\ Bound' = Bound /\ Bound \in Nat /\ ~blind /\ newest # Never
        /\ opened' = opened /\ run' = run /\ monitor' = monitor
    BY <1>13, CostFacts, OldestIsLate
    DEF Tick, IInv, TypeOK, ExposedInPart, Ages, Bound, Older
  <2>2. CASE ~Equipped
    <3>1. exposed' = exposed
      BY <1>13, <2>2 DEF Tick
    <3>2. QED
      BY <2>1, <2>2, <3>1 DEF IInv, KeepsUp, Equipped
  <2>3. CASE Equipped
    <3>1. exposed' \in Nat /\ exposed' <= exposed + 1
      BY <1>13, <2>1, <2>3, OldestIsLate DEF Tick, Older
    <3>2. At("dump") \/ At("write") => runTime' = runTime + 1 /\ runTime \in Nat
      BY <1>13 DEF Tick, At, Busy, IInv, TypeOK
    <3>3. monitor = "sleep" => timer' = timer - 1 /\ timer \in Nat
      BY <1>13 DEF Tick, IInv, TypeOK, TimersAreTrue
    <3>4. monitor \in {"check", "house"} => timer' = timer + 1 /\ timer \in Nat
      BY <1>13 DEF Tick, IInv, TypeOK, TimersAreTrue
    <3>5. Pass \in Nat
      BY DEF Pass
    <3>6. QED
      BY <2>1, <2>3, <3>1, <3>2, <3>3, <3>4, <3>5 DEF IInv, KeepsUp, Equipped, At, Busy
  <2>4. QED
    BY <2>2, <2>3
<1>14. CASE DumpFails
  <2>1. ~Equipped /\ ~Equipped' /\ Bound' = Bound
    BY <1>14 DEF DumpFails, Equipped, Stores, Bound
  <2>2. UNCHANGED <<blind, newest, exposed>>
    BY <1>14 DEF DumpFails
  <2>3. QED
    BY <2>1, <2>2 DEF IInv, KeepsUp
<1>15. QED
    BY <1>1, <1>2, <1>3, <1>4, <1>5, <1>6, <1>7, <1>8, <1>9, <1>10, <1>11,
        <1>12, <1>13, <1>14 DEF Next, RunStep, MonitorStep

-----------------------------------------------------------------------------
(* The theorems.                                                           *)

\* The first start of an installation.
LEMMA InitInvariant == Init => IInv
PROOF
<1> USE BackupScheduleAssumption
<1> SUFFICES ASSUME Init PROVE IInv
    OBVIOUS
<1>1. TypeOK
  <2>1. NoRun \in Runs /\ Never \in Ages
    BY DEF Runs, Ages
  <2>2. timer \in 0..Period /\ 0 \in 0..MaxRun /\ 0 \in 0..MaxBusy
        /\ 0 \in 0..(MaxFaults + MaxBoots) /\ MaxFaults \in 0..MaxFaults
        /\ MaxBoots \in 0..MaxBoots
    BY DEF Init
  <2>3. QED
    BY <2>1, <2>2 DEF Init, TypeOK
<1>2. TimersAreTrue
    BY DEF Init, TimersAreTrue, NoRun
<1>3. RunWritten /\ CursorIsBacked /\ ExposedInPart /\ KeepsUp
    BY DEF Init, RunWritten, CursorIsBacked, ExposedInPart, KeepsUp, Equipped, At, Busy
<1>4. QED
    BY <1>1, <1>2, <1>3 DEF IInv

(* The invariant holds in every reachable state.                           *)
THEOREM Invariant == Spec => []IInv
PROOF
<1>1. Init => IInv
    BY InitInvariant
<1>2. IInv /\ [Next]_vars => IInv'
    BY TypeOKStep, TimersAreTrueStep, RunWrittenStep, CursorIsBackedStep,
       ExposedInPartStep, KeepsUpStep
    DEF IInv
<1>3. QED
    BY <1>1, <1>2, PTL DEF Spec

(* Timers stay within their bounds and ages are ages.                      *)
THEOREM TypeCorrect == Spec => []TypeOK
PROOF
<1>1. IInv => TypeOK
    BY DEF IInv
<1>2. QED
    BY <1>1, Invariant, PTL

(* What is shown and kept as the last backup is a backup, through failures *)
(* and restarts.                                                           *)
THEOREM CursorIsAlwaysBacked == Spec => []CursorIsBacked
PROOF
<1>1. IInv => CursorIsBacked
    BY DEF IInv
<1>2. QED
    BY <1>1, Invariant, PTL

(* The time without a newer backup, not counting processes that came up    *)
(* without one of the stores, is never longer than the interval, a pass    *)
(* and a run, and a pass and a run more for each setback since.            *)
THEOREM BackupsStayFresh == Spec => []StaysFresh
PROOF
<1>1. IInv => StaysFresh
  <2> SUFFICES ASSUME IInv, ~blind, newest # Never
               PROVE  exposed < Interval + MaxBusy + MaxRun + (setbacks + 1) * (Pass + MaxRun)
    BY DEF StaysFresh
  <2>1. setbacks \in Nat
    BY BackupScheduleAssumption DEF IInv, TypeOK
  <2>2. (setbacks + 1) * (Pass + MaxRun) = Cost(setbacks) + Pass + MaxRun
    BY <2>1, CostFacts DEF Cost
  <2>3. exposed < Bound + Pass + MaxRun
    BY BackupScheduleAssumption, CostFacts, <2>1
    DEF IInv, TypeOK, TimersAreTrue, RunWritten, ExposedInPart, KeepsUp, Equipped, Bound, Pass, Ages, Runs,
        NoRun, At, Busy, Sources, Steps
  <2>4. QED
    <3>1. Pass \in Int /\ Cost(setbacks) \in Int /\ exposed \in Int
      BY <2>1, CostFacts, BackupScheduleAssumption DEF Pass, IInv, TypeOK, Ages
    <3>2. QED
      BY <2>2, <2>3, <3>1, BackupScheduleAssumption DEF Bound
<1>2. QED
    BY <1>1, Invariant, PTL
=============================================================================
