------------------------ MODULE BackupSnapshotsProofs ------------------------
(***************************************************************************)
(* Theorems about the versioned backups, for any number of tables, rows    *)
(* and timestamps and any retention.  One inductive invariant, Invariant,  *)
(* carries them all; what needs deletes or a clock that steps back to be   *)
(* ruled out says so in a part of its own.                                 *)
(***************************************************************************)
EXTENDS BackupSnapshots, WellFoundedInduction, TLAPS

-----------------------------------------------------------------------------
(* The inductive invariant.                                                *)

\* TypeOK, but for a bound on the rows: a row is added under the lock, and
\* what bounds their number is the dump of that run.
RunType == [pc : RunPCs, id : 0..MaxTime, todo : Counts, left : SUBSET Ids,
            at : 1..(NTables + 1)]
DelType == [pc : {"idle", "delete"}, id : 0..MaxTime, at : 1..(NTables + 1)]
ReadType ==
    [pc : {"idle", "fallback", "accounts", "others", "fell_back", "restored"},
     id : 0..MaxTime, sound : BOOLEAN, whole : BOOLEAN]
Typed ==
    /\ index \subseteq Ids
    /\ rows \in [Ids -> [Tables -> Nat]]
    /\ now \in Ids
    /\ last \in 0..MaxTime
    /\ run \in RunType /\ del \in DelType /\ read \in ReadType
    /\ want \in [Ids -> Counts]
    /\ done \subseteq Ids /\ removed \subseteq Ids /\ failed \subseteq Ids
    /\ pruned \in 0..MaxTime
    /\ crashes \in 0..MaxCrashes

\* A run works under the last timestamp drawn; a delete and a reader work
\* on a snapshot.
Named ==
    /\ run.pc # "idle" => run.id = last /\ last \in Ids
    /\ run.pc \in {"dump", "claim", "write"} => run.at = 1
    /\ del.pc # "idle" => Deletes /\ del.id \in Ids
    /\ read.pc # "idle" => read.id \in Ids

\* A snapshot under way is not settled, and stays listed until something
\* removes it, which is at it still, has ended or was cut short; a discard
\* is a removal.
Unsettled ==
    /\ run.pc \in {"write", "discard"} => run.id \notin done
    /\ run.pc = "discard" => run.id \in removed
    /\ run.pc = "write" => \/ run.id \in index /\ run.id \notin removed
                           \/ run.id \in removed /\ Deletes
    /\ run.pc = "write" /\ run.id \in index /\ run.id \in removed =>
           run.id \in failed \/ AtDelete(run.id)

\* A settled snapshot has no row too many, and all of them until something
\* begins to remove it.
Settled ==
    \A i \in done :
        /\ i \notin removed => Whole(i)
        /\ \A t \in Tables : rows[i][t] <= want[i][t]

\* What a reader saw of a settled snapshot was all there.
ReadsSettled ==
    read.pc # "idle" /\ read.sound =>
        /\ read.id \in done
        /\ read.id \notin removed => read.whole

\* The tables a removal under the lock has passed hold nothing any more.
Deleted ==
    /\ run.pc = "discard" => \A t \in Tables : t < run.at => rows[run.id][t] = 0
    /\ run.pc = "prune" /\ run.left # {} =>
           \A t \in Tables : t < run.at => rows[Min(run.left)][t] = 0

\* Before the cutoff there is only what the prune still has to delete.
PrunedSoFar ==
    run.pc = "prune" =>
        \A i \in Ids : i < pruned /\ i \notin run.left => i \notin index /\ ~HasRows(i)

\* Without a clock that steps back, the run's timestamp is a new one.
Used(i) == i \in done \/ HasRows(i)
OnlyTheRunAdds ==
    \A i \in Ids : Used(i)' => Used(i) \/ (i = run.id /\ run.pc = "write")
Fresh ==
    ~ClockSteps =>
        /\ \A i \in Ids : Used(i) => i <= last \/ i < now
        /\ run.pc \in {"dump", "claim"} => \A i \in Ids : Used(i) => i < run.id

\* Without deletes, rows have an index row.
Owned == ~Deletes => NoOrphans

\* Unless deletes leave rows behind for a clock that steps back to meet, the
\* rows of the snapshot under way and those still to come are the dump's,
\* or fewer once something removes it, and no snapshot has too many.
Written ==
    ~(Deletes /\ ClockSteps) =>
        /\ \A i \in Ids : \A t \in Tables : rows[i][t] <= MaxRows
        /\ run.pc = "write" => \A t \in Tables :
               /\ rows[run.id][t] + run.todo[t] <= want[run.id][t]
               /\ run.id \notin removed =>
                      rows[run.id][t] + run.todo[t] = want[run.id][t]

Listed == ~(Deletes /\ ClockSteps) => ListedIsWhole

Invariant ==
    /\ Typed /\ Named /\ Unsettled /\ Settled /\ ReadsSettled /\ Deleted
    /\ PrunedSoFar /\ PrunedIsGone /\ Fresh /\ Owned /\ Written /\ Listed

-----------------------------------------------------------------------------
(* Lemmas about the model's operators.                                     *)

\* The minimum of snapshots or of tables is one of them.
LEMMA MinIsIn ==
    ASSUME NEW T \in SUBSET Nat, T # {}
    PROVE  Min(T) \in T
<1>1. PICK x \in T : \A y \in T : ~(<<y, x>> \in OpToRel(<, Nat))
    BY WFMin, NatLessThanWellFounded
<1>2. ASSUME NEW y \in T PROVE x <= y
    <2>1. ~(y < x)
        BY <1>1 DEF OpToRel
    <2>2. QED
        BY <2>1
<1>3. QED
    BY <1>2 DEF Min

\* A snapshot has rows when some table of it does.
LEMMA RowsMeans ==
    ASSUME Typed, NEW i \in Ids
    PROVE  HasRows(i) <=> \E t \in Tables : rows[i][t] # 0
<1>1. rows[i] \in [Tables -> Nat] /\ Nothing \in [Tables -> Nat]
    BY DEF Typed, Nothing
<1>2. rows[i] = Nothing <=> \A t \in Tables : rows[i][t] = Nothing[t]
    BY <1>1
<1>3. QED
    BY <1>2 DEF HasRows, Nothing

\* Two snapshots' worth of rows are the same when every table is.
LEMMA WholeMeans ==
    ASSUME Typed, NEW i \in Ids
    PROVE  Whole(i) <=> i \in index /\ \A t \in Tables : rows[i][t] = want[i][t]
<1>1. rows[i] \in [Tables -> Nat] /\ want[i] \in [Tables -> 0..MaxRows]
    BY DEF Typed, Counts
<1>2. rows[i] = want[i] <=> \A t \in Tables : rows[i][t] = want[i][t]
    BY <1>1
<1>3. QED
    BY <1>2 DEF Whole

\* One statement of a removal takes rows of one table of one snapshot, or
\* its index row, and nothing else.
Removes(i, at) ==
    /\ i \in Ids /\ at \in 1..(NTables + 1)
    /\ rows' \in [Ids -> [Tables -> Nat]]
    /\ index' \subseteq index
    /\ \A j \in Ids : j # i => rows'[j] = rows[j] /\ (j \in index' <=> j \in index)
    /\ \A j \in Ids : \A t \in Tables : rows'[j][t] = rows[j][t] \/ rows'[j][t] = 0
    /\ at <= NTables => at \in Tables /\ index' = index /\ rows'[i][at] = 0
    /\ at > NTables => at = NTables + 1 /\ index' = index \ {i} /\ rows' = rows

LEMMA DeleteMeans ==
    ASSUME Typed, NEW i \in Ids, NEW at \in 1..(NTables + 1),
           DeleteStatement(i, at)
    PROVE  Removes(i, at)
<1> USE BackupAssumption DEF Removes
<1>1. CASE at <= NTables
    <2>1. at \in Tables /\ rows' = [rows EXCEPT ![i][at] = 0] /\ index' = index
        BY <1>1 DEF DeleteStatement, Tables
    <2>2. \A j \in Ids : rows[j] \in [Tables -> Nat]
        BY DEF Typed
    <2>3. rows' = [rows EXCEPT ![i] = [rows[i] EXCEPT ![at] = 0]]
        BY <2>1
    <2>4. [rows[i] EXCEPT ![at] = 0] \in [Tables -> Nat]
        BY <2>2
    <2>5. rows' \in [Ids -> [Tables -> Nat]]
        BY <2>3, <2>4 DEF Typed
    <2>6. \A j \in Ids : j # i => rows'[j] = rows[j]
        BY <2>3 DEF Typed
    <2>7. rows'[i] = [rows[i] EXCEPT ![at] = 0]
        BY <2>3 DEF Typed
    <2>8. rows'[i][at] = 0 /\ \A t \in Tables : t # at => rows'[i][t] = rows[i][t]
        BY <2>1, <2>2, <2>7
    <2>9. QED
        BY <1>1, <2>1, <2>5, <2>6, <2>8
<1>2. CASE at > NTables
    <2>1. index' = index \ {i} /\ rows' = rows
        BY <1>2 DEF DeleteStatement
    <2>2. QED
        BY <1>2, <2>1 DEF Typed
<1>3. QED
    BY <1>1, <1>2

\* What a removal does not add.
LEMMA RemovesKeeps ==
    ASSUME Typed, NEW i, NEW at, Removes(i, at)
    PROVE  \A j \in Ids : HasRows(j)' => HasRows(j)
<1>1. ASSUME NEW j \in Ids, HasRows(j)' PROVE HasRows(j)
    <2>1. PICK t \in Tables : rows'[j][t] # 0
        <3>1. rows'[j] \in [Tables -> Nat] /\ Nothing \in [Tables -> Nat]
            BY DEF Removes, Nothing
        <3>2. rows'[j] # Nothing
            BY <1>1 DEF HasRows, Nothing, Tables
        <3>3. QED
            BY <3>1, <3>2 DEF Nothing
    <2>2. rows[j][t] # 0
        BY <2>1 DEF Removes
    <2>3. QED
        BY <2>2, RowsMeans
<1>2. QED
    BY <1>1

\* A row that is written moves from those still to come to those there.
LEMMA WriteMeans ==
    ASSUME Typed, run.id \in Ids, WriteRow
    PROVE  /\ rows' \in [Ids -> [Tables -> Nat]]
           /\ run' \in RunType
           /\ run.pc = "write" /\ run'.pc = "write"
           /\ run'.id = run.id /\ run'.left = run.left /\ run'.at = run.at
           /\ \A j \in Ids : j # run.id => rows'[j] = rows[j]
           /\ \A t \in Tables :
                  /\ rows'[run.id][t] + run'.todo[t] = rows[run.id][t] + run.todo[t]
                  /\ rows'[run.id][t] >= rows[run.id][t]
<1> USE BackupAssumption
<1> DEFINE Pending == {u \in Tables : run.todo[u] > 0}
           t == Min(Pending)
<1>1. run.todo \in [Tables -> 0..MaxRows] /\ run.todo # Nothing
    BY DEF WriteRow, Typed, RunType, Counts
<1>2. Pending # {}
    <2>1. PICK u \in Tables : run.todo[u] # 0
        BY <1>1 DEF Nothing
    <2>2. run.todo[u] \in 0..MaxRows
        BY <1>1, <2>1
    <2>3. QED
        BY <2>1, <2>2
<1>3. t \in Pending
    BY <1>2, MinIsIn DEF Tables
<1>4. t \in Tables /\ run.todo[t] \in 1..MaxRows
    BY <1>1, <1>3
<1>5. /\ rows' = [rows EXCEPT ![run.id][t] = @ + 1]
      /\ run' = [run EXCEPT !.todo[t] = @ - 1]
    BY DEF WriteRow
<1>6. rows[run.id] \in [Tables -> Nat]
    BY DEF Typed
<1> HIDE DEF t
<1> DEFINE R == [rows[run.id] EXCEPT ![t] = @ + 1]
           D == [run.todo EXCEPT ![t] = @ - 1]
<1>7. rows' = [rows EXCEPT ![run.id] = R] /\ run' = [run EXCEPT !.todo = D]
    BY <1>5
<1>8. R \in [Tables -> Nat] /\ D \in Counts
    BY <1>1, <1>4, <1>6 DEF Counts
<1>9. \A u \in Tables : R[u] + D[u] = rows[run.id][u] + run.todo[u] /\ R[u] >= rows[run.id][u]
    BY <1>1, <1>4, <1>6
<1> HIDE DEF R, D
<1>10. rows' \in [Ids -> [Tables -> Nat]]
    BY <1>7, <1>8 DEF Typed
<1>11. rows'[run.id] = R /\ \A j \in Ids : j # run.id => rows'[j] = rows[j]
    BY <1>7 DEF Typed
<1>12. /\ run'.todo = D /\ run'.pc = run.pc /\ run'.id = run.id
       /\ run'.left = run.left /\ run'.at = run.at
       /\ run' \in RunType
    BY <1>7, <1>8 DEF Typed, RunType
<1>13. run.pc = "write"
    BY DEF WriteRow
<1>14. QED
    BY <1>9, <1>10, <1>11, <1>12, <1>13

\* What the prune is at is a snapshot.
LEMMA LeftIsIn ==
    ASSUME Typed, run.left # {}
    PROVE  Min(run.left) \in run.left /\ Min(run.left) \in Ids
<1>1. run.left \in SUBSET Ids /\ Ids \in SUBSET Nat
    BY BackupAssumption DEF Typed, RunType, Ids
<1>2. QED
    BY <1>1, MinIsIn

\* The three removals: a failed run's, the prune's and the operator's.
LEMMA DiscardRemoves ==
    ASSUME Invariant, Discard
    PROVE  /\ Removes(run.id, run.at)
           /\ run.pc = "discard"
           /\ run.at <= NTables =>
                  /\ run'.pc = run.pc /\ run'.id = run.id /\ run'.todo = run.todo
                  /\ run'.left = run.left /\ run'.at = run.at + 1
           /\ run.at > NTables => run' = NoRun
<1> USE BackupAssumption DEF Invariant
<1>1. run.pc = "discard" /\ DeleteStatement(run.id, run.at)
    BY DEF Discard
<1>2. run.id \in Ids /\ run.at \in 1..(NTables + 1)
    BY <1>1 DEF Typed, RunType, Named
<1>3. Removes(run.id, run.at)
    BY <1>1, <1>2, DeleteMeans
<1>4. QED
    BY <1>1, <1>2, <1>3 DEF Discard, Typed, RunType

LEMMA PruneRemoves ==
    ASSUME Invariant, PruneDelete
    PROVE  /\ Min(run.left) \in run.left /\ Removes(Min(run.left), run.at)
           /\ removed' = removed \cup {Min(run.left)}
           /\ run.pc = "prune" /\ run'.pc = "prune" /\ run'.id = run.id
           /\ run'.todo = run.todo
           /\ run.at <= NTables => run'.left = run.left /\ run'.at = run.at + 1
           /\ run.at > NTables => run'.left = run.left \ {Min(run.left)} /\ run'.at = 1
<1> USE BackupAssumption DEF Invariant
<1>1. run.pc = "prune" /\ run.left # {} /\ DeleteStatement(Min(run.left), run.at)
    BY DEF PruneDelete
<1>2. /\ Min(run.left) \in run.left /\ Min(run.left) \in Ids
      /\ run.at \in 1..(NTables + 1)
    BY <1>1, LeftIsIn DEF Typed, RunType
<1>3. Removes(Min(run.left), run.at)
    BY <1>1, <1>2, DeleteMeans
<1>4. QED
    BY <1>1, <1>2, <1>3 DEF PruneDelete, Typed, RunType

LEMMA OperatorRemoves ==
    ASSUME Invariant, Delete
    PROVE  /\ Deletes /\ Removes(del.id, del.at)
           /\ removed' = removed \cup {del.id}
<1> USE BackupAssumption DEF Invariant
<1>1. del.pc = "delete" /\ DeleteStatement(del.id, del.at)
    BY DEF Delete
<1>2. Deletes /\ del.id \in Ids /\ del.at \in 1..(NTables + 1)
    BY <1>1 DEF Typed, DelType, Named
<1>3. QED
    BY <1>1, <1>2, DeleteMeans DEF Delete

LEMMA NothingTyped == Nothing \in Counts /\ Nothing \in [Tables -> Nat]
BY BackupAssumption DEF Nothing, Counts

\* A run that has drawn its timestamp works on a snapshot.
LEMMA RunActive == Invariant /\ run.pc # "idle" => run.id \in Ids /\ run.id = last
BY DEF Invariant, Named

\* The newest snapshot is one of them.
LEMMA LatestIsIn ==
    ASSUME Typed, index # {}
    PROVE  Latest \in Ids
<1>1. index \subseteq 1..MaxTime
    BY DEF Typed, Ids
<1> DEFINE Down == {MaxTime - i : i \in index}
<1>2. Down \in SUBSET Nat /\ Down # {}
    <2>1. \A i \in index : i \in Int /\ i <= MaxTime /\ MaxTime - i \in Nat
        BY <1>1, BackupAssumption
    <2>2. QED
        BY <2>1
<1>3. PICK d \in Down : \A e \in Down : ~(<<e, d>> \in OpToRel(<, Nat))
    BY <1>2, WFMin, NatLessThanWellFounded
<1>4. PICK i \in index : d = MaxTime - i
    BY <1>3
<1>5. ASSUME NEW j \in index PROVE j <= i
    <2>1. MaxTime - j \in Down
        OBVIOUS
    <2>2. ~(MaxTime - j < MaxTime - i)
        BY <1>2, <1>3, <1>4, <2>1 DEF OpToRel
    <2>3. QED
        BY <1>1, <1>5, <2>2, BackupAssumption
<1>6. Max(index) \in index
    BY <1>4, <1>5 DEF Max
<1>7. QED
    BY <1>1, <1>6 DEF Latest, Ids

LEMMA TypedStep == Invariant /\ [Next]_vars => Typed'
<1> SUFFICES ASSUME Invariant, [Next]_vars PROVE Typed'
    OBVIOUS
<1> USE BackupAssumption DEF Invariant
<1>1. CASE UNCHANGED vars
    BY <1>1 DEF Typed, vars, storeVars, histVars
<1>2. CASE StartRun
    <2>1. last' \in 0..MaxTime
        BY <1>2
        DEF Typed, StartRun, NextSnapshotAt, Ids
    <2>2. run' \in RunType
        <3>1. NextSnapshotAt \in 0..MaxTime
            BY <1>2 DEF StartRun, NextSnapshotAt, Typed, Ids
        <3>2. run' = [pc |-> "dump", id |-> NextSnapshotAt, todo |-> Nothing,
                      left |-> {}, at |-> 1]
            BY <1>2 DEF StartRun, NoRun
        <3>3. QED
            BY <3>1, <3>2, NothingTyped DEF RunType, RunPCs
    <2>3. UNCHANGED <<index, rows, now, del, read, want, done, removed, failed, pruned, crashes>>
        BY <1>2 DEF StartRun, storeVars, histVars
    <2>4. QED
        BY <2>1, <2>2, <2>3 DEF Typed
<1>3. CASE Dump
    <2>1. run' \in RunType
        BY <1>3, NothingTyped
        DEF Typed, Dump, RunType, RunPCs
    <2>2. UNCHANGED <<index, rows, now, last, del, read, want, done, removed, failed, pruned, crashes>>
        BY <1>3 DEF Dump, storeVars, histVars
    <2>3. QED
        BY <2>1, <2>2 DEF Typed
<1>4. CASE RunFails
    <2>1. run' \in RunType
        BY <1>4, NothingTyped
        DEF Typed, RunFails, NoRun, RunType, RunPCs
    <2>2. UNCHANGED <<index, rows, now, last, del, read, want, done, removed, failed, pruned, crashes>>
        BY <1>4 DEF RunFails, storeVars, histVars
    <2>3. QED
        BY <2>1, <2>2 DEF Typed
<1>5. CASE Claim
    <2>1. index' \in SUBSET Ids
        BY <1>5, RunActive
        DEF Typed, Claim
    <2>2. want' \in [Ids -> Counts]
        BY <1>5, RunActive
        DEF Typed, Claim, RunType, Counts
    <2>3. run' \in RunType
        BY <1>5, NothingTyped
        DEF Typed, Claim, RunType, RunPCs
    <2>4. done' \in SUBSET Ids
        BY <1>5
        DEF Typed, Claim
    <2>5. removed' \in SUBSET Ids
        BY <1>5
        DEF Typed, Claim
    <2>6. failed' \in SUBSET Ids
        BY <1>5
        DEF Typed, Claim
    <2>7. read' \in ReadType
        BY <1>5
        DEF Typed, Claim, ReadType
    <2>8. UNCHANGED <<rows, now, last, del, pruned, crashes>>
        BY <1>5 DEF Claim
    <2>9. QED
        BY <2>1, <2>2, <2>3, <2>4, <2>5, <2>6, <2>7, <2>8 DEF Typed
<1>lost. CASE ClaimLost
    <2>1. index' \in SUBSET Ids
        BY <1>lost, RunActive
        DEF Typed, ClaimLost
    <2>2. want' \in [Ids -> Counts]
        BY <1>lost, RunActive
        DEF Typed, ClaimLost, RunType, Counts
    <2>3. run' \in RunType
        BY <1>lost, NothingTyped
        DEF Typed, ClaimLost, NoRun, RunType, RunPCs
    <2>4. done' \in SUBSET Ids
        BY <1>lost
        DEF Typed, ClaimLost
    <2>5. removed' \in SUBSET Ids
        BY <1>lost
        DEF Typed, ClaimLost
    <2>6. failed' \in SUBSET Ids
        BY <1>lost, RunActive
        DEF Typed, ClaimLost
    <2>7. read' \in ReadType
        BY <1>lost
        DEF Typed, ClaimLost, ReadType
    <2>8. UNCHANGED <<rows, now, last, del, pruned, crashes>>
        BY <1>lost DEF ClaimLost
    <2>9. QED
        BY <2>1, <2>2, <2>3, <2>4, <2>5, <2>6, <2>7, <2>8 DEF Typed
<1>6. CASE DuplicateClaim
    <2>1. run' \in RunType
        BY <1>6, NothingTyped
        DEF Typed, DuplicateClaim, NoRun, RunType, RunPCs
    <2>2. UNCHANGED <<index, rows, now, last, del, read, want, done, removed, failed, pruned, crashes>>
        BY <1>6 DEF DuplicateClaim, storeVars, histVars
    <2>3. QED
        BY <2>1, <2>2 DEF Typed
<1>7. CASE WriteRow
    <2>1. rows' \in [Ids -> [Tables -> Nat]]
        BY <1>7, RunActive, WriteMeans DEF WriteRow
    <2>2. run' \in RunType
        BY <1>7, RunActive, WriteMeans DEF WriteRow
    <2>3. UNCHANGED <<index, now, last, del, read, want, done, removed, failed, pruned, crashes>>
        BY <1>7 DEF WriteRow, histVars
    <2>4. QED
        BY <2>1, <2>2, <2>3 DEF Typed
<1>8. CASE WriteDone
    <2>1. run' \in RunType
        BY <1>8, NothingTyped
        DEF Typed, WriteDone, RunType, RunPCs
    <2>2. done' \in SUBSET Ids
        BY <1>8, RunActive
        DEF Typed, WriteDone
    <2>3. UNCHANGED <<index, rows, now, last, del, read, want, removed, failed, pruned, crashes>>
        BY <1>8 DEF WriteDone, storeVars
    <2>4. QED
        BY <2>1, <2>2, <2>3 DEF Typed
<1>9. CASE WriteFails
    <2>1. run' \in RunType
        BY <1>9, NothingTyped
        DEF Typed, WriteFails, RunType, RunPCs
    <2>2. removed' \in SUBSET Ids
        BY <1>9, RunActive
        DEF Typed, WriteFails
    <2>3. UNCHANGED <<index, rows, now, last, del, read, want, done, failed, pruned, crashes>>
        BY <1>9 DEF WriteFails, storeVars
    <2>4. QED
        BY <2>1, <2>2, <2>3 DEF Typed
<1>10. CASE Discard
    <2>1. index' \in SUBSET Ids
        BY <1>10, DiscardRemoves
        DEF Typed, Discard, Removes
    <2>2. rows' \in [Ids -> [Tables -> Nat]]
        BY <1>10, DiscardRemoves
        DEF Typed, Discard, Removes
    <2>3. run' \in RunType
        <3>1. CASE run.at > NTables
            BY <1>10, <3>1, DiscardRemoves, NothingTyped DEF NoRun, RunType, RunPCs
        <3>2. CASE run.at <= NTables
            <4>1. run.at + 1 \in 1..(NTables + 1)
                BY <3>2 DEF Typed, RunType
            <4>2. run' = [run EXCEPT !.at = run.at + 1]
                BY <1>10, <3>2 DEF Discard, Typed, RunType
            <4>3. QED
                BY <4>1, <4>2 DEF Typed, RunType
        <3>3. QED
            BY <3>1, <3>2 DEF Typed, RunType
    <2>4. UNCHANGED <<now, last, del, read, want, done, removed, failed, pruned, crashes>>
        BY <1>10 DEF Discard, histVars
    <2>5. QED
        BY <2>1, <2>2, <2>3, <2>4 DEF Typed
<1>11. CASE DiscardFails
    <2>1. run' \in RunType
        BY <1>11, NothingTyped
        DEF Typed, DiscardFails, NoRun, RunType, RunPCs
    <2>2. failed' \in SUBSET Ids
        BY <1>11, RunActive
        DEF Typed, DiscardFails
    <2>3. UNCHANGED <<index, rows, now, last, del, read, want, done, removed, pruned, crashes>>
        BY <1>11 DEF DiscardFails, storeVars
    <2>4. QED
        BY <2>1, <2>2, <2>3 DEF Typed
<1>12. CASE PruneFind
    <2>1. run' \in RunType
        <3>1. Expired(Cutoff) \in SUBSET Ids
            BY DEF Expired
        <3>2. run' = [pc |-> "prune", id |-> run.id, todo |-> run.todo,
                      left |-> Expired(Cutoff), at |-> 1]
            BY <1>12 DEF PruneFind, Typed, RunType
        <3>3. QED
            BY <3>2, <3>1 DEF Typed, RunType, RunPCs
    <2>2. pruned' \in 0..MaxTime
        BY <1>12
        DEF Typed, PruneFind, Ids, Cutoff
    <2>3. UNCHANGED <<index, rows, now, last, del, read, want, done, removed, failed, crashes>>
        BY <1>12 DEF PruneFind, storeVars, histVars
    <2>4. QED
        BY <2>1, <2>2, <2>3 DEF Typed
<1>13. CASE PruneDelete
    <2>1. index' \in SUBSET Ids
        BY <1>13, PruneRemoves
        DEF Typed, PruneDelete, Removes
    <2>2. rows' \in [Ids -> [Tables -> Nat]]
        BY <1>13, PruneRemoves
        DEF Typed, PruneDelete, Removes
    <2>3. removed' \in SUBSET Ids
        BY <1>13, PruneRemoves
        DEF Typed, PruneDelete, Removes
    <2>4. run' \in RunType
        <3>1. CASE run.at > NTables
            <4>1. run' = [run EXCEPT !.left = run.left \ {Min(run.left)}, !.at = 1]
                BY <1>13, <3>1 DEF PruneDelete
            <4>2. run' = [pc |-> run.pc, id |-> run.id, todo |-> run.todo,
                          left |-> run.left \ {Min(run.left)}, at |-> 1]
                BY <4>1 DEF Typed, RunType
            <4>3. QED
                BY <4>2 DEF Typed, RunType
        <3>2. CASE run.at <= NTables
            <4>1. run.at + 1 \in 1..(NTables + 1)
                BY <3>2 DEF Typed, RunType
            <4>2. run' = [run EXCEPT !.at = run.at + 1]
                BY <1>13, <3>2 DEF PruneDelete, Typed, RunType
            <4>3. QED
                BY <4>1, <4>2 DEF Typed, RunType
        <3>3. QED
            BY <3>1, <3>2 DEF Typed, RunType
    <2>5. UNCHANGED <<now, last, del, read, want, done, failed, pruned, crashes>>
        BY <1>13 DEF PruneDelete
    <2>6. QED
        BY <2>1, <2>2, <2>3, <2>4, <2>5 DEF Typed
<1>14. CASE PruneDone
    <2>1. run' \in RunType
        BY <1>14, NothingTyped
        DEF Typed, PruneDone, RunType, RunPCs
    <2>2. UNCHANGED <<index, rows, now, last, del, read, want, done, removed, failed, pruned, crashes>>
        BY <1>14 DEF PruneDone, storeVars, histVars
    <2>3. QED
        BY <2>1, <2>2 DEF Typed
<1>15. CASE PruneFails
    <2>1. run' \in RunType
        <3>1. run' = [pc |-> "report", id |-> run.id, todo |-> run.todo,
                      left |-> {}, at |-> 1]
            BY <1>15 DEF PruneFails, Typed, RunType
        <3>2. QED
            BY <3>1 DEF Typed, RunType, RunPCs
    <2>2. pruned' \in 0..MaxTime
        BY <1>15
        DEF Typed, PruneFails
    <2>3. failed' \in SUBSET Ids
        BY <1>15
        DEF Typed, PruneFails
    <2>4. UNCHANGED <<index, rows, now, last, del, read, want, done, removed, crashes>>
        BY <1>15 DEF PruneFails, storeVars
    <2>5. QED
        BY <2>1, <2>2, <2>3, <2>4 DEF Typed
<1>16. CASE Report
    <2>1. run' \in RunType
        BY <1>16, NothingTyped
        DEF Typed, Report, NoRun, RunType, RunPCs
    <2>2. pruned' \in 0..MaxTime
        BY <1>16
        DEF Typed, Report
    <2>3. UNCHANGED <<index, rows, now, last, del, read, want, done, removed, failed, crashes>>
        BY <1>16 DEF Report, storeVars, histVars
    <2>4. QED
        BY <2>1, <2>2, <2>3 DEF Typed
<1>17. ASSUME NEW i \in Ids, StartDelete(i)
     PROVE  Typed'
    <2>1. del' \in DelType
        BY <1>17
        DEF Typed, StartDelete, DelType, Ids
    <2>2. UNCHANGED <<index, rows, now, last, run, read, want, done, removed, failed, pruned, crashes>>
        BY <1>17 DEF StartDelete, storeVars, histVars
    <2>3. QED
        BY <2>1, <2>2 DEF Typed
<1>18. ASSUME NEW i \in Ids, StartRestore(i)
     PROVE  Typed'
    <2>1. read' \in ReadType
        BY <1>18
        DEF Typed, StartRestore, Reading, ReadType, Ids
    <2>2. UNCHANGED <<index, rows, now, last, run, del, want, done, removed, failed, pruned, crashes>>
        BY <1>18 DEF StartRestore, storeVars, histVars
    <2>3. QED
        BY <2>1, <2>2 DEF Typed
<1>19. CASE Delete
    <2>1. index' \in SUBSET Ids
        BY <1>19, OperatorRemoves
        DEF Typed, Delete, Removes
    <2>2. rows' \in [Ids -> [Tables -> Nat]]
        BY <1>19, OperatorRemoves
        DEF Typed, Delete, Removes
    <2>3. removed' \in SUBSET Ids
        BY <1>19, OperatorRemoves
        DEF Typed, Delete, Removes
    <2>4. del' \in DelType
        BY <1>19, OperatorRemoves
        DEF Typed, Delete, NoDelete, DelType, Removes
    <2>5. UNCHANGED <<now, last, run, read, want, done, failed, pruned, crashes>>
        BY <1>19 DEF Delete
    <2>6. QED
        BY <2>1, <2>2, <2>3, <2>4, <2>5 DEF Typed
<1>20. CASE DeleteFails
    <2>1. del' \in DelType
        BY <1>20
        DEF Typed, DeleteFails, NoDelete, DelType
    <2>2. failed' \in SUBSET Ids
        BY <1>20
        DEF Typed, DeleteFails, Named
    <2>3. UNCHANGED <<index, rows, now, last, run, read, want, done, removed, pruned, crashes>>
        BY <1>20 DEF DeleteFails, storeVars
    <2>4. QED
        BY <2>1, <2>2, <2>3 DEF Typed
<1>21. CASE StartFallback
    <2>1. read' \in ReadType
        BY <1>21, LatestIsIn
        DEF Typed, StartFallback, Reading, ReadType, Ids
    <2>2. UNCHANGED <<index, rows, now, last, run, del, want, done, removed, failed, pruned, crashes>>
        BY <1>21 DEF StartFallback, storeVars, histVars
    <2>3. QED
        BY <2>1, <2>2 DEF Typed
<1>22. CASE FallbackAccounts
    <2>1. read' \in ReadType
        BY <1>22
        DEF Typed, FallbackAccounts, ReadType
    <2>2. UNCHANGED <<index, rows, now, last, run, del, want, done, removed, failed, pruned, crashes>>
        BY <1>22 DEF FallbackAccounts, storeVars, histVars
    <2>3. QED
        BY <2>1, <2>2 DEF Typed
<1>23. CASE RestoreAccounts
    <2>1. read' \in ReadType
        BY <1>23
        DEF Typed, RestoreAccounts, ReadType
    <2>2. UNCHANGED <<index, rows, now, last, run, del, want, done, removed, failed, pruned, crashes>>
        BY <1>23 DEF RestoreAccounts, storeVars, histVars
    <2>3. QED
        BY <2>1, <2>2 DEF Typed
<1>24. CASE RestoreOthers
    <2>1. read' \in ReadType
        BY <1>24
        DEF Typed, RestoreOthers, ReadType
    <2>2. UNCHANGED <<index, rows, now, last, run, del, want, done, removed, failed, pruned, crashes>>
        BY <1>24 DEF RestoreOthers, storeVars, histVars
    <2>3. QED
        BY <2>1, <2>2 DEF Typed
<1>25. CASE EndRead
    <2>1. read' \in ReadType
        BY <1>25
        DEF Typed, EndRead, NoRead, ReadType
    <2>2. UNCHANGED <<index, rows, now, last, run, del, want, done, removed, failed, pruned, crashes>>
        BY <1>25 DEF EndRead, storeVars, histVars
    <2>3. QED
        BY <2>1, <2>2 DEF Typed
<1>26. CASE Tick
    <2>1. now' \in Ids
        BY <1>26
        DEF Typed, Tick, Ids
    <2>2. UNCHANGED <<index, rows, last, run, del, read, want, done, removed, failed, pruned, crashes>>
        BY <1>26 DEF Tick, storeVars, histVars
    <2>3. QED
        BY <2>1, <2>2 DEF Typed
<1>27. CASE Crash
    <2>1. now' \in Ids
        BY <1>27
        DEF Typed, Crash
    <2>2. last' \in 0..MaxTime
        BY <1>27
        DEF Typed, Crash
    <2>3. failed' \in SUBSET Ids
        BY <1>27, RunActive
        DEF Typed, Crash, Ids
    <2>4. run' \in RunType
        BY <1>27, NothingTyped
        DEF Typed, Crash, NoRun, RunType, RunPCs
    <2>5. del' \in DelType
        BY <1>27
        DEF Typed, Crash, NoDelete, DelType
    <2>6. read' \in ReadType
        BY <1>27
        DEF Typed, Crash, NoRead, ReadType
    <2>7. pruned' \in 0..MaxTime
        BY <1>27
        DEF Typed, Crash
    <2>8. crashes' \in 0..MaxCrashes
        BY <1>27
        DEF Typed, Crash
    <2>9. UNCHANGED <<index, rows, want, done, removed>>
        BY <1>27 DEF Crash, storeVars
    <2>10. QED
        BY <2>1, <2>2, <2>3, <2>4, <2>5, <2>6, <2>7, <2>8, <2>9 DEF Typed
<1>back. CASE StepBack
    <2>1. now' \in Ids
        BY <1>back
        DEF StepBack
    <2>2. UNCHANGED <<index, rows, last, run, del, read, want, done, removed, failed, pruned, crashes>>
        BY <1>back DEF StepBack, storeVars, histVars
    <2>3. QED
        BY <2>1, <2>2 DEF Typed
<1>28. QED
    BY <1>1, <1>2, <1>3, <1>4, <1>5, <1>6, <1>7, <1>8, <1>9, <1>10, <1>11,
        <1>12, <1>13, <1>14, <1>15, <1>16, <1>17, <1>18, <1>19, <1>20, <1>21,
        <1>22, <1>23, <1>24, <1>25, <1>26, <1>27, <1>lost, <1>back
    DEF Next

LEMMA NamedStep == Invariant /\ [Next]_vars => Named'
<1> SUFFICES ASSUME Invariant, [Next]_vars PROVE Named'
    OBVIOUS
<1> USE BackupAssumption DEF Invariant
<1>1. CASE UNCHANGED <<last, run, del, read>>
    BY <1>1 DEF Typed, RunType, DelType, ReadType, Named
<1>2. CASE StartRun
    BY <1>2
    DEF Typed, RunType, DelType, ReadType, Named, StartRun, NextSnapshotAt,
        NoRun, Ids, RunPCs
<1>3. CASE Dump
    BY <1>3
    DEF Typed, RunType, DelType, ReadType, Named, Dump
<1>4. CASE RunFails
    BY <1>4
    DEF Typed, RunType, DelType, ReadType, Named, RunFails, NoRun
<1>5. CASE Claim
    BY <1>5
    DEF Typed, RunType, DelType, ReadType, Named, Claim
<1>lost. CASE ClaimLost
    BY <1>lost
    DEF Typed, RunType, DelType, ReadType, Named, ClaimLost, NoRun
<1>6. CASE DuplicateClaim
    BY <1>6
    DEF Typed, RunType, DelType, ReadType, Named, DuplicateClaim, NoRun
<1>7. CASE WriteRow
    BY <1>7
    DEF Typed, RunType, DelType, ReadType, Named, WriteRow
<1>8. CASE WriteDone
    BY <1>8
    DEF Typed, RunType, DelType, ReadType, Named, WriteDone
<1>9. CASE WriteFails
    BY <1>9
    DEF Typed, RunType, DelType, ReadType, Named, WriteFails
<1>10. CASE Discard
    BY <1>10
    DEF Typed, RunType, DelType, ReadType, Named, Discard, NoRun
<1>11. CASE DiscardFails
    BY <1>11
    DEF Typed, RunType, DelType, ReadType, Named, DiscardFails, NoRun
<1>12. CASE PruneFind
    BY <1>12
    DEF Typed, RunType, DelType, ReadType, Named, PruneFind
<1>13. CASE PruneDelete
    BY <1>13
    DEF Typed, RunType, DelType, ReadType, Named, PruneDelete
<1>14. CASE PruneDone
    BY <1>14
    DEF Typed, RunType, DelType, ReadType, Named, PruneDone
<1>15. CASE PruneFails
    BY <1>15
    DEF Typed, RunType, DelType, ReadType, Named, PruneFails
<1>16. CASE Report
    BY <1>16
    DEF Typed, RunType, DelType, ReadType, Named, Report, NoRun
<1>17. ASSUME NEW i \in Ids, StartDelete(i)
     PROVE  Named'
    BY <1>17
    DEF Typed, RunType, DelType, ReadType, Named, StartDelete
<1>18. ASSUME NEW i \in Ids, StartRestore(i)
     PROVE  Named'
    BY <1>18
    DEF Typed, RunType, DelType, ReadType, Named, StartRestore, Reading
<1>19. CASE Delete
    BY <1>19
    DEF Typed, RunType, DelType, ReadType, Named, Delete, NoDelete
<1>20. CASE DeleteFails
    BY <1>20
    DEF Typed, RunType, DelType, ReadType, Named, DeleteFails, NoDelete
<1>21. CASE StartFallback
    BY <1>21, LatestIsIn
    DEF Typed, RunType, DelType, ReadType, Named, StartFallback, Reading
<1>22. CASE FallbackAccounts
    BY <1>22
    DEF Typed, RunType, DelType, ReadType, Named, FallbackAccounts
<1>23. CASE RestoreAccounts
    BY <1>23
    DEF Typed, RunType, DelType, ReadType, Named, RestoreAccounts
<1>24. CASE RestoreOthers
    BY <1>24
    DEF Typed, RunType, DelType, ReadType, Named, RestoreOthers
<1>25. CASE EndRead
    BY <1>25
    DEF Typed, RunType, DelType, ReadType, Named, EndRead, NoRead
<1>26. CASE Crash
    BY <1>26
    DEF Typed, RunType, DelType, ReadType, Named, Crash, NoRun, NoDelete,
        NoRead
<1>27. QED
    BY <1>1, <1>2, <1>3, <1>4, <1>5, <1>6, <1>7, <1>8, <1>9, <1>10, <1>11,
        <1>12, <1>13, <1>14, <1>15, <1>16, <1>17, <1>18, <1>19, <1>20, <1>21,
        <1>22, <1>23, <1>24, <1>25, <1>26, <1>lost
    DEF Next, vars, Tick, StepBack, storeVars, histVars

LEMMA UnsettledStep == Invariant /\ [Next]_vars => Unsettled'
<1> SUFFICES ASSUME Invariant, [Next]_vars PROVE Unsettled'
    OBVIOUS
<1> USE BackupAssumption DEF Invariant
<1>1. CASE UNCHANGED <<index, run, del, done, removed, failed>>
    BY <1>1 DEF Typed, RunType, Named, Unsettled, AtDelete
<1>2. CASE StartRun
    BY <1>2
    DEF Typed, RunType, Named, Unsettled, StartRun, NextSnapshotAt, NoRun,
        storeVars, histVars
<1>3. CASE Dump
    BY <1>3
    DEF Typed, RunType, Named, Unsettled, Dump, storeVars, histVars
<1>4. CASE RunFails
    BY <1>4
    DEF Typed, RunType, Named, Unsettled, RunFails, NoRun, storeVars, histVars
<1>5. CASE Claim
    BY <1>5
    DEF Typed, RunType, Named, Unsettled, AtDelete, Claim
<1>lost. CASE ClaimLost
    BY <1>lost
    DEF Typed, RunType, Named, Unsettled, ClaimLost, NoRun
<1>6. CASE DuplicateClaim
    BY <1>6
    DEF Typed, RunType, Named, Unsettled, DuplicateClaim, NoRun, storeVars,
        histVars
<1>7. CASE WriteRow
    BY <1>7, WriteMeans
    DEF Typed, RunType, Named, Unsettled, AtDelete, WriteRow, histVars
<1>8. CASE WriteDone
    BY <1>8
    DEF Typed, RunType, Named, Unsettled, WriteDone, storeVars
<1>9. CASE WriteFails
    BY <1>9
    DEF Typed, RunType, Named, Unsettled, WriteFails, storeVars
<1>10. CASE Discard
    BY <1>10, DiscardRemoves
    DEF Typed, RunType, Named, Unsettled, Discard, NoRun, histVars, Removes
<1>11. CASE DiscardFails
    BY <1>11
    DEF Typed, RunType, Named, Unsettled, DiscardFails, NoRun, storeVars
<1>12. CASE PruneFind
    BY <1>12
    DEF Typed, RunType, Named, Unsettled, PruneFind, storeVars, histVars
<1>13. CASE PruneDelete
    BY <1>13, PruneRemoves
    DEF Typed, RunType, Named, Unsettled, PruneDelete, Removes
<1>14. CASE PruneDone
    BY <1>14
    DEF Typed, RunType, Named, Unsettled, PruneDone, storeVars, histVars
<1>15. CASE PruneFails
    BY <1>15
    DEF Typed, RunType, Named, Unsettled, PruneFails, storeVars, histVars
<1>16. CASE Report
    BY <1>16
    DEF Typed, RunType, Named, Unsettled, Report, NoRun, storeVars, histVars
<1>17. CASE Delete
    BY <1>17, OperatorRemoves
    DEF Typed, RunType, Named, Unsettled, AtDelete, Delete, NoDelete, Removes
<1>start. ASSUME NEW i \in Ids, StartDelete(i)
     PROVE  Unsettled'
    BY <1>start
    DEF Typed, RunType, Named, Unsettled, AtDelete, StartDelete, storeVars,
        histVars
<1>stop. CASE DeleteFails
    BY <1>stop
    DEF Typed, RunType, Named, Unsettled, AtDelete, DeleteFails, NoDelete,
        storeVars
<1>18. CASE Crash
    BY <1>18
    DEF Typed, RunType, Named, Unsettled, Crash, NoRun, NoDelete, NoRead,
        storeVars
<1>19. QED
    BY <1>1, <1>2, <1>3, <1>4, <1>5, <1>6, <1>7, <1>8, <1>9, <1>10, <1>11,
        <1>12, <1>13, <1>14, <1>15, <1>16, <1>17, <1>18, <1>lost,
        <1>start, <1>stop
    DEF Next, vars, StartRestore, StartFallback,
        FallbackAccounts, RestoreAccounts, RestoreOthers, EndRead, Tick, StepBack,
        storeVars, histVars

LEMMA SettledStep == Invariant /\ [Next]_vars => Settled'
<1> SUFFICES ASSUME Invariant, [Next]_vars PROVE Settled'
    OBVIOUS
<1> USE BackupAssumption DEF Invariant
<1>1. CASE UNCHANGED <<index, rows, want, done, removed>>
    BY <1>1 DEF Typed, RunType, Named, Unsettled, Settled, Whole
<1>2. CASE Claim
    BY <1>2
    DEF Typed, RunType, Named, Unsettled, Settled, Whole, Claim
<1>lost. CASE ClaimLost
    BY <1>lost
    DEF Typed, RunType, Named, Unsettled, Settled, Whole, ClaimLost, NoRun
<1>3. CASE WriteRow
    BY <1>3, WriteMeans, SMTT(30)
    DEF Typed, RunType, Named, Unsettled, Settled, Whole, WriteRow, histVars
<1>4. CASE WriteDone
    BY <1>4
    DEF Typed, RunType, Named, Unsettled, Settled, Whole, WriteDone, storeVars
<1>5. CASE WriteFails
    BY <1>5
    DEF Typed, RunType, Named, Unsettled, Settled, Whole, WriteFails,
        storeVars
<1>6. CASE Discard
    BY <1>6, DiscardRemoves
    DEF Typed, RunType, Named, Unsettled, Settled, Whole, Discard, NoRun,
        histVars, Removes
<1>7. CASE PruneDelete
    <2> DEFINE x == Min(run.left)
    <2>1. /\ Removes(x, run.at) /\ removed' = removed \cup {x}
          /\ want' = want /\ done' = done
        BY <1>7, PruneRemoves DEF PruneDelete
    <2> HIDE DEF x
    <2>2. ASSUME NEW j \in done, j \notin removed' PROVE Whole(j)'
        BY <2>1, <2>2 DEF Removes, Settled, Whole, Typed
    <2>3. ASSUME NEW j \in done, NEW t \in Tables PROVE rows'[j][t] <= want'[j][t]
        <3>1. rows[j][t] <= want[j][t] /\ want[j][t] \in Nat /\ rows[j][t] \in Nat
            BY DEF Settled, Typed, Counts
        <3>2. QED
            BY <2>1, <3>1 DEF Removes, Typed
    <2>4. QED
        BY <2>1, <2>2, <2>3 DEF Settled
<1>8. CASE Delete
    <2> DEFINE x == del.id
    <2>1. /\ Removes(x, del.at) /\ removed' = removed \cup {x}
          /\ want' = want /\ done' = done
        BY <1>8, OperatorRemoves DEF Delete
    <2> HIDE DEF x
    <2>2. ASSUME NEW j \in done, j \notin removed' PROVE Whole(j)'
        BY <2>1, <2>2 DEF Removes, Settled, Whole, Typed
    <2>3. ASSUME NEW j \in done, NEW t \in Tables PROVE rows'[j][t] <= want'[j][t]
        <3>1. rows[j][t] <= want[j][t] /\ want[j][t] \in Nat /\ rows[j][t] \in Nat
            BY DEF Settled, Typed, Counts
        <3>2. QED
            BY <2>1, <3>1 DEF Removes, Typed
    <2>4. QED
        BY <2>1, <2>2, <2>3 DEF Settled
<1>9. QED
    BY <1>1, <1>2, <1>3, <1>4, <1>5, <1>6, <1>7, <1>8, <1>lost
    DEF Next, vars, StartRun, Dump, RunFails, DuplicateClaim, DiscardFails,
        PruneFind, PruneDone, PruneFails, Report, StartDelete, StartRestore,
        DeleteFails, StartFallback, FallbackAccounts, RestoreAccounts,
        RestoreOthers, EndRead, Tick, StepBack, Crash, storeVars, histVars

LEMMA ReadsSettledStep == Invariant /\ [Next]_vars => ReadsSettled'
<1> SUFFICES ASSUME Invariant, [Next]_vars PROVE ReadsSettled'
    OBVIOUS
<1> USE BackupAssumption DEF Invariant
<1>1. CASE UNCHANGED <<read, done, removed>>
    BY <1>1 DEF Typed, ReadType, Named, Settled, ReadsSettled, Whole
<1>2. CASE Claim
    BY <1>2
    DEF Typed, ReadType, Named, Settled, ReadsSettled, Whole, Claim
<1>lost. CASE ClaimLost
    BY <1>lost
    DEF Typed, ReadType, Named, Settled, ReadsSettled, Whole, ClaimLost, NoRun
<1>3. CASE WriteDone
    BY <1>3
    DEF Typed, ReadType, Named, Settled, ReadsSettled, Whole, WriteDone
<1>4. CASE WriteFails
    BY <1>4
    DEF Typed, ReadType, Named, Settled, ReadsSettled, Whole, WriteFails
<1>5. CASE PruneDelete
    BY <1>5, PruneRemoves
    DEF Typed, ReadType, Named, Settled, ReadsSettled, Whole, PruneDelete,
        Removes
<1>6. ASSUME NEW i \in Ids, StartRestore(i)
     PROVE  ReadsSettled'
    BY <1>6
    DEF Typed, ReadType, Named, Settled, ReadsSettled, Whole, StartRestore,
        Reading, histVars
<1>7. CASE Delete
    BY <1>7, OperatorRemoves
    DEF Typed, ReadType, Named, Settled, ReadsSettled, Whole, Delete,
        NoDelete, Removes
<1>8. CASE StartFallback
    BY <1>8
    DEF Typed, ReadType, Named, Settled, ReadsSettled, Whole, StartFallback,
        Reading, histVars
<1>9. CASE FallbackAccounts
    BY <1>9
    DEF Typed, ReadType, Named, Settled, ReadsSettled, Whole,
        FallbackAccounts, histVars
<1>10. CASE RestoreAccounts
    BY <1>10
    DEF Typed, ReadType, Named, Settled, ReadsSettled, Whole, RestoreAccounts,
        histVars
<1>11. CASE RestoreOthers
    BY <1>11
    DEF Typed, ReadType, Named, Settled, ReadsSettled, Whole, RestoreOthers,
        histVars
<1>12. CASE EndRead
    BY <1>12
    DEF Typed, ReadType, Named, Settled, ReadsSettled, Whole, EndRead, NoRead,
        histVars
<1>13. CASE Crash
    BY <1>13
    DEF Typed, ReadType, Named, Settled, ReadsSettled, Whole, Crash, NoRun,
        NoDelete, NoRead
<1>14. QED
    BY <1>1, <1>2, <1>3, <1>4, <1>5, <1>6, <1>7, <1>8, <1>9, <1>10, <1>11,
        <1>12, <1>13, <1>lost
    DEF Next, vars, StartRun, Dump, RunFails, DuplicateClaim, WriteRow,
        Discard, DiscardFails, PruneFind, PruneDone, PruneFails, Report,
        StartDelete, DeleteFails, Tick, StepBack, storeVars, histVars

LEMMA DeletedStep == Invariant /\ [Next]_vars => Deleted'
<1> SUFFICES ASSUME Invariant, [Next]_vars PROVE Deleted'
    OBVIOUS
<1> USE BackupAssumption DEF Invariant
<1>1. CASE UNCHANGED <<rows, run>>
    BY <1>1 DEF Typed, RunType, Named, Deleted
<1>2. CASE StartRun
    BY <1>2
    DEF Typed, RunType, Named, Deleted, StartRun, NextSnapshotAt, NoRun,
        storeVars
<1>3. CASE Dump
    BY <1>3
    DEF Typed, RunType, Named, Deleted, Dump, storeVars
<1>4. CASE RunFails
    BY <1>4
    DEF Typed, RunType, Named, Deleted, RunFails, NoRun, storeVars
<1>5. CASE Claim
    BY <1>5
    DEF Typed, RunType, Named, Deleted, Claim
<1>lost. CASE ClaimLost
    BY <1>lost
    DEF Typed, RunType, Named, Deleted, ClaimLost, NoRun
<1>6. CASE DuplicateClaim
    BY <1>6
    DEF Typed, RunType, Named, Deleted, DuplicateClaim, NoRun, storeVars
<1>7. CASE WriteRow
    BY <1>7, WriteMeans
    DEF Typed, RunType, Named, Deleted, WriteRow
<1>8. CASE WriteDone
    BY <1>8
    DEF Typed, RunType, Named, Deleted, WriteDone, storeVars
<1>9. CASE WriteFails
    <2>1. run.at = 1 /\ run'.pc = "discard" /\ run'.at = 1
        BY <1>9 DEF WriteFails, Named, Typed, RunType
    <2>2. QED
        BY <2>1 DEF Deleted, Tables
<1>10. CASE Discard
    <2>1. CASE run.at > NTables
        BY <2>1, <1>10, DiscardRemoves DEF Deleted, NoRun
    <2>2. CASE run.at <= NTables
        <3>1. /\ Removes(run.id, run.at) /\ run'.pc = "discard" /\ run.pc = "discard"
              /\ run'.id = run.id /\ run'.at = run.at + 1
            BY <2>2, <1>10, DiscardRemoves
        <3>2. ASSUME NEW t \in Tables, t < run'.at PROVE rows'[run.id][t] = 0
            <4>1. t < run.at \/ t = run.at
                BY <3>1, <3>2 DEF Removes, Tables
            <4>2. rows[run.id][t] = 0 \/ t = run.at
                BY <3>1, <4>1 DEF Deleted
            <4>3. QED
                BY <2>2, <3>1, <4>2 DEF Removes
        <3>3. QED
            BY <3>1, <3>2 DEF Deleted
    <2>3. QED
        BY <2>1, <2>2 DEF Typed, RunType
<1>11. CASE DiscardFails
    BY <1>11
    DEF Typed, RunType, Named, Deleted, DiscardFails, NoRun, storeVars
<1>12. CASE PruneFind
    <2>1. run'.pc = "prune" /\ run'.at = 1
        BY <1>12 DEF PruneFind, Typed, RunType
    <2>2. QED
        BY <2>1 DEF Deleted, Tables
<1>13. CASE PruneDelete
    <2>1. CASE run.at > NTables
        <3>1. run'.pc = "prune" /\ run'.at = 1
            BY <2>1, <1>13, PruneRemoves
        <3>2. QED
            BY <3>1 DEF Deleted, Tables
    <2>2. CASE run.at <= NTables
        <3>1. /\ Removes(Min(run.left), run.at) /\ run'.pc = "prune" /\ run.pc = "prune"
              /\ run.left # {} /\ run'.left = run.left /\ run'.at = run.at + 1
            BY <2>2, <1>13, PruneRemoves
        <3>2. ASSUME NEW t \in Tables, t < run'.at PROVE rows'[Min(run.left)][t] = 0
            <4>1. t < run.at \/ t = run.at
                BY <3>1, <3>2 DEF Removes, Tables
            <4>2. rows[Min(run.left)][t] = 0 \/ t = run.at
                BY <3>1, <4>1 DEF Deleted
            <4>3. QED
                BY <2>2, <3>1, <4>2 DEF Removes
        <3>3. QED
            BY <3>1, <3>2 DEF Deleted
    <2>3. QED
        BY <2>1, <2>2 DEF Typed, RunType
<1>14. CASE PruneDone
    BY <1>14
    DEF Typed, RunType, Named, Deleted, PruneDone, storeVars
<1>15. CASE PruneFails
    BY <1>15
    DEF Typed, RunType, Named, Deleted, PruneFails, storeVars
<1>16. CASE Report
    BY <1>16
    DEF Typed, RunType, Named, Deleted, Report, NoRun, storeVars
<1>17. CASE Delete
    <2>1. Removes(del.id, del.at) /\ run' = run
        BY <1>17, OperatorRemoves DEF Delete
    <2>2. \A j \in Ids : \A t \in Tables : rows[j][t] = 0 => rows'[j][t] = 0
        BY <2>1 DEF Removes
    <2>3. CASE run.pc = "discard"
        <3>1. run.id \in Ids
            BY <2>3, RunActive
        <3>2. QED
            BY <2>1, <2>2, <2>3, <3>1 DEF Deleted
    <2>4. CASE run.pc = "prune" /\ run.left # {}
        <3>1. Min(run.left) \in Ids
            BY <2>4, LeftIsIn
        <3>2. QED
            BY <2>1, <2>2, <2>4, <3>1 DEF Deleted
    <2>5. CASE run.pc # "discard" /\ ~(run.pc = "prune" /\ run.left # {})
        BY <2>1, <2>5 DEF Deleted
    <2>6. QED
        BY <2>3, <2>4, <2>5
<1>18. CASE Crash
    BY <1>18
    DEF Typed, RunType, Named, Deleted, Crash, NoRun, NoDelete, NoRead,
        storeVars
<1>19. QED
    BY <1>1, <1>2, <1>3, <1>4, <1>5, <1>6, <1>7, <1>8, <1>9, <1>10, <1>11,
        <1>12, <1>13, <1>14, <1>15, <1>16, <1>17, <1>18, <1>lost
    DEF Next, vars, StartDelete, StartRestore, DeleteFails, StartFallback,
        FallbackAccounts, RestoreAccounts, RestoreOthers, EndRead, Tick, StepBack,
        storeVars, histVars

\* A removal under the lock ends with a snapshot that has no rows.
LEMMA DeletedAll ==
    ASSUME Invariant, NEW i \in Ids,
           \A t \in Tables : t < NTables + 1 => rows[i][t] = 0
    PROVE  ~HasRows(i)
<1>1. \A t \in Tables : rows[i][t] = 0
    BY BackupAssumption DEF Tables
<1>2. QED
    BY <1>1, RowsMeans DEF Invariant

LEMMA DiscardedAll ==
    ASSUME Invariant, run.pc = "discard", run.at = NTables + 1
    PROVE  ~HasRows(run.id)
BY RunActive, DeletedAll DEF Invariant, Deleted

LEMMA PrunedAll ==
    ASSUME Invariant, run.pc = "prune", run.left # {}, run.at = NTables + 1
    PROVE  ~HasRows(Min(run.left))
BY LeftIsIn, DeletedAll DEF Invariant, Deleted

LEMMA PrunedSoFarStep == Invariant /\ [Next]_vars => PrunedSoFar'
<1> SUFFICES ASSUME Invariant, [Next]_vars PROVE PrunedSoFar'
    OBVIOUS
<1> USE BackupAssumption DEF Invariant
<1>1. CASE UNCHANGED <<index, rows, run, pruned>>
    BY <1>1 DEF Typed, RunType, Named, PrunedSoFar, HasRows
<1>2. CASE StartRun
    BY <1>2
    DEF Typed, RunType, Named, PrunedSoFar, HasRows, StartRun, NextSnapshotAt,
        NoRun, storeVars
<1>3. CASE Dump
    BY <1>3
    DEF Typed, RunType, Named, PrunedSoFar, HasRows, Dump, storeVars
<1>4. CASE RunFails
    BY <1>4
    DEF Typed, RunType, Named, PrunedSoFar, HasRows, RunFails, NoRun,
        storeVars
<1>5. CASE Claim
    BY <1>5
    DEF Typed, RunType, Named, PrunedSoFar, HasRows, Claim
<1>lost. CASE ClaimLost
    BY <1>lost
    DEF Typed, RunType, Named, PrunedSoFar, HasRows, ClaimLost, NoRun
<1>6. CASE DuplicateClaim
    BY <1>6
    DEF Typed, RunType, Named, PrunedSoFar, HasRows, DuplicateClaim, NoRun,
        storeVars
<1>7. CASE WriteRow
    BY <1>7, WriteMeans
    DEF Typed, RunType, Named, PrunedSoFar, HasRows, WriteRow
<1>8. CASE WriteDone
    BY <1>8
    DEF Typed, RunType, Named, PrunedSoFar, HasRows, WriteDone, storeVars
<1>9. CASE WriteFails
    BY <1>9
    DEF Typed, RunType, Named, PrunedSoFar, HasRows, WriteFails, storeVars
<1>10. CASE Discard
    BY <1>10, DiscardRemoves, RemovesKeeps
    DEF Typed, RunType, Named, PrunedSoFar, Discard, NoRun, Removes
<1>11. CASE DiscardFails
    BY <1>11
    DEF Typed, RunType, Named, PrunedSoFar, HasRows, DiscardFails, NoRun,
        storeVars
<1>12. CASE PruneFind
    <2>1. /\ run'.left = Expired(Cutoff) /\ pruned' = (IF Cutoff > 0 THEN Cutoff ELSE 0)
          /\ index' = index /\ rows' = rows
        BY <1>12 DEF PruneFind, Typed, RunType, storeVars
    <2>2. Cutoff \in Int
        BY DEF Cutoff, Typed, Ids
    <2>3. ASSUME NEW i \in Ids, i < pruned', i \notin run'.left
          PROVE  i \notin index' /\ ~HasRows(i)'
        <3>1. i < Cutoff
            BY <2>1, <2>2, <2>3 DEF Ids
        <3>2. QED
            BY <2>1, <2>3, <3>1 DEF Expired, HasRows, Nothing, Tables
    <2>4. QED
        BY <2>3 DEF PrunedSoFar
<1>13. CASE PruneDelete
    <2> DEFINE x == Min(run.left)
    <2>1. /\ x \in run.left /\ Removes(x, run.at) /\ pruned' = pruned
          /\ run.pc = "prune"
          /\ run.at <= NTables => run'.left = run.left
          /\ run.at > NTables => run'.left = run.left \ {x}
        BY <1>13, PruneRemoves DEF PruneDelete
    <2>2. \A j \in Ids : HasRows(j)' => HasRows(j)
        BY <2>1, RemovesKeeps
    <2> HIDE DEF x
    <2>3. CASE run.at <= NTables
        BY <2>1, <2>2, <2>3 DEF Removes, PrunedSoFar
    <2>4. CASE run.at > NTables
        <3>1. x \notin index' /\ run.at = NTables + 1
            BY <2>1, <2>4 DEF Removes
        <3>2. ~HasRows(x)
            BY <2>1, <3>1, PrunedAll DEF x
        <3>3. QED
            BY <2>1, <2>2, <2>4, <3>1, <3>2 DEF Removes, PrunedSoFar
    <2>5. QED
        BY <2>1, <2>3, <2>4 DEF Removes
<1>14. CASE PruneDone
    BY <1>14
    DEF Typed, RunType, Named, PrunedSoFar, HasRows, PruneDone, storeVars
<1>15. CASE PruneFails
    BY <1>15
    DEF Typed, RunType, Named, PrunedSoFar, HasRows, PruneFails, storeVars
<1>16. CASE Report
    BY <1>16
    DEF Typed, RunType, Named, PrunedSoFar, HasRows, Report, NoRun, storeVars
<1>17. CASE Delete
    BY <1>17, OperatorRemoves, RemovesKeeps
    DEF Typed, RunType, Named, PrunedSoFar, Delete, NoDelete, Removes
<1>18. CASE Crash
    BY <1>18
    DEF Typed, RunType, Named, PrunedSoFar, HasRows, Crash, NoRun, NoDelete,
        NoRead, storeVars
<1>19. QED
    BY <1>1, <1>2, <1>3, <1>4, <1>5, <1>6, <1>7, <1>8, <1>9, <1>10, <1>11,
        <1>12, <1>13, <1>14, <1>15, <1>16, <1>17, <1>18, <1>lost
    DEF Next, vars, StartDelete, StartRestore, DeleteFails, StartFallback,
        FallbackAccounts, RestoreAccounts, RestoreOthers, EndRead, Tick, StepBack,
        storeVars, histVars

LEMMA PrunedIsGoneStep == Invariant /\ [Next]_vars => PrunedIsGone'
<1> SUFFICES ASSUME Invariant, [Next]_vars PROVE PrunedIsGone'
    OBVIOUS
<1> USE BackupAssumption DEF Invariant
<1>1. CASE UNCHANGED <<index, rows, run, pruned>>
    BY <1>1 DEF Typed, RunType, PrunedSoFar, PrunedIsGone, HasRows
<1>2. CASE StartRun
    BY <1>2
    DEF Typed, RunType, PrunedSoFar, PrunedIsGone, HasRows, StartRun,
        NextSnapshotAt, NoRun, storeVars
<1>3. CASE Dump
    BY <1>3
    DEF Typed, RunType, PrunedSoFar, PrunedIsGone, HasRows, Dump, storeVars
<1>4. CASE RunFails
    BY <1>4
    DEF Typed, RunType, PrunedSoFar, PrunedIsGone, HasRows, RunFails, NoRun,
        storeVars
<1>5. CASE Claim
    BY <1>5
    DEF Typed, RunType, PrunedSoFar, PrunedIsGone, HasRows, Claim
<1>lost. CASE ClaimLost
    BY <1>lost
    DEF Typed, RunType, PrunedSoFar, PrunedIsGone, HasRows, ClaimLost, NoRun
<1>6. CASE DuplicateClaim
    BY <1>6
    DEF Typed, RunType, PrunedSoFar, PrunedIsGone, HasRows, DuplicateClaim,
        NoRun, storeVars
<1>7. CASE WriteRow
    BY <1>7, WriteMeans
    DEF Typed, RunType, PrunedSoFar, PrunedIsGone, HasRows, WriteRow
<1>8. CASE WriteDone
    BY <1>8
    DEF Typed, RunType, PrunedSoFar, PrunedIsGone, HasRows, WriteDone,
        storeVars
<1>9. CASE WriteFails
    BY <1>9
    DEF Typed, RunType, PrunedSoFar, PrunedIsGone, HasRows, WriteFails,
        storeVars
<1>10. CASE Discard
    BY <1>10, DiscardRemoves, RemovesKeeps
    DEF Typed, RunType, PrunedSoFar, PrunedIsGone, Discard, NoRun, Removes
<1>11. CASE DiscardFails
    BY <1>11
    DEF Typed, RunType, PrunedSoFar, PrunedIsGone, HasRows, DiscardFails,
        NoRun, storeVars
<1>12. CASE PruneFind
    BY <1>12
    DEF Typed, RunType, PrunedSoFar, PrunedIsGone, HasRows, PruneFind,
        storeVars
<1>13. CASE PruneDelete
    BY <1>13, PruneRemoves, RemovesKeeps
    DEF Typed, RunType, PrunedSoFar, PrunedIsGone, PruneDelete, Removes
<1>14. CASE PruneDone
    BY <1>14
    DEF Typed, RunType, PrunedSoFar, PrunedIsGone, HasRows, PruneDone,
        storeVars
<1>15. CASE PruneFails
    BY <1>15
    DEF Typed, RunType, PrunedSoFar, PrunedIsGone, HasRows, PruneFails,
        storeVars
<1>16. CASE Report
    BY <1>16
    DEF Typed, RunType, PrunedSoFar, PrunedIsGone, HasRows, Report, NoRun,
        storeVars
<1>17. CASE Delete
    BY <1>17, OperatorRemoves, RemovesKeeps
    DEF Typed, RunType, PrunedSoFar, PrunedIsGone, Delete, NoDelete, Removes
<1>18. CASE Crash
    BY <1>18
    DEF Typed, RunType, PrunedSoFar, PrunedIsGone, HasRows, Crash, NoRun,
        NoDelete, NoRead, storeVars
<1>19. QED
    BY <1>1, <1>2, <1>3, <1>4, <1>5, <1>6, <1>7, <1>8, <1>9, <1>10, <1>11,
        <1>12, <1>13, <1>14, <1>15, <1>16, <1>17, <1>18, <1>lost
    DEF Next, vars, StartDelete, StartRestore, DeleteFails, StartFallback,
        FallbackAccounts, RestoreAccounts, RestoreOthers, EndRead, Tick, StepBack,
        storeVars, histVars

LEMMA OnlyTheRunAddsStep == Invariant /\ [Next]_vars => OnlyTheRunAdds
<1> SUFFICES ASSUME Invariant, [Next]_vars PROVE OnlyTheRunAdds
    OBVIOUS
<1> USE BackupAssumption DEF Invariant
<1>1. CASE UNCHANGED <<rows, done>>
    <2>1. ASSUME NEW j \in Ids PROVE Used(j)' => Used(j)
        BY <1>1 DEF Used, HasRows, Nothing, Tables
    <2>2. QED
        BY <2>1 DEF OnlyTheRunAdds
<1>2. CASE Claim
    <2>1. rows' = rows /\ done' \subseteq done
        BY <1>2 DEF Claim
    <2>2. ASSUME NEW j \in Ids PROVE Used(j)' => Used(j)
        BY <2>1 DEF Used, HasRows, Nothing, Tables
    <2>3. QED
        BY <2>2 DEF OnlyTheRunAdds
<1>lost. CASE ClaimLost
    <2>1. rows' = rows /\ done' \subseteq done
        BY <1>lost DEF ClaimLost
    <2>2. ASSUME NEW j \in Ids PROVE Used(j)' => Used(j)
        BY <2>1 DEF Used, HasRows, Nothing, Tables
    <2>3. QED
        BY <2>2 DEF OnlyTheRunAdds
<1>3. CASE WriteRow
    <2>1. run.id \in Ids /\ run.pc = "write" /\ done' = done
        BY <1>3, RunActive DEF WriteRow, histVars
    <2>2. \A j \in Ids : j # run.id => rows'[j] = rows[j]
        BY <1>3, <2>1, WriteMeans
    <2>3. QED
        BY <2>1, <2>2 DEF OnlyTheRunAdds, Used, HasRows, Nothing, Tables
<1>4. CASE WriteDone
    BY <1>4
    DEF Typed, RunType, Named, OnlyTheRunAdds, Used, HasRows, WriteDone,
        storeVars
<1>5. CASE Discard
    <2>1. Removes(run.id, run.at) /\ done' = done
        BY <1>5, DiscardRemoves DEF Discard, histVars
    <2>2. \A j \in Ids : HasRows(j)' => HasRows(j)
        BY <2>1, RemovesKeeps
    <2>3. ASSUME NEW j \in Ids PROVE Used(j)' => Used(j)
        BY <2>1, <2>2 DEF Used
    <2>4. QED
        BY <2>3 DEF OnlyTheRunAdds
<1>6. CASE PruneDelete
    <2>1. Removes(Min(run.left), run.at) /\ done' = done
        BY <1>6, PruneRemoves DEF PruneDelete, histVars
    <2>2. \A j \in Ids : HasRows(j)' => HasRows(j)
        BY <2>1, RemovesKeeps
    <2>3. ASSUME NEW j \in Ids PROVE Used(j)' => Used(j)
        BY <2>1, <2>2 DEF Used
    <2>4. QED
        BY <2>3 DEF OnlyTheRunAdds
<1>7. CASE Delete
    <2>1. Removes(del.id, del.at) /\ done' = done
        BY <1>7, OperatorRemoves DEF Delete, histVars
    <2>2. \A j \in Ids : HasRows(j)' => HasRows(j)
        BY <2>1, RemovesKeeps
    <2>3. ASSUME NEW j \in Ids PROVE Used(j)' => Used(j)
        BY <2>1, <2>2 DEF Used
    <2>4. QED
        BY <2>3 DEF OnlyTheRunAdds
<1>8. QED
    BY <1>1, <1>2, <1>3, <1>4, <1>5, <1>6, <1>7, <1>lost
    DEF Next, vars, StartRun, Dump, RunFails, DuplicateClaim, WriteFails,
        DiscardFails, PruneFind, PruneDone, PruneFails, Report, StartDelete,
        StartRestore, DeleteFails, StartFallback, FallbackAccounts,
        RestoreAccounts, RestoreOthers, EndRead, Tick, StepBack, Crash, storeVars,
        histVars

LEMMA FreshStep == Invariant /\ [Next]_vars => Fresh'
<1> SUFFICES ASSUME Invariant, [Next]_vars PROVE Fresh'
    OBVIOUS
<1> USE BackupAssumption DEF Invariant
<1>1. CASE UNCHANGED <<rows, now, last, run, done>>
    BY <1>1 DEF Typed, RunType, Named, Fresh, OnlyTheRunAdds, Ids, Used,
        HasRows, Nothing, Tables
<1>2. CASE StartRun
    <2> SUFFICES ASSUME ~ClockSteps PROVE Fresh'
        BY DEF Fresh
    <2>1. /\ run.pc = "idle" /\ run'.pc = "dump" /\ run'.id = last'
          /\ last' = NextSnapshotAt /\ now' = now
        BY <1>2 DEF StartRun, NoRun
    <2>2. \A i \in Ids : Used(i)' => Used(i)
        BY <2>1, OnlyTheRunAddsStep DEF OnlyTheRunAdds
    <2>3. \A i \in Ids : Used(i) => i <= last \/ i < now
        BY DEF Fresh
    <2>4. last \in Nat /\ now \in Nat
        BY DEF Typed, Ids
    <2>5. /\ last' \in Nat /\ last < last'
          /\ \A i \in Ids : i < now => i < last'
        <3>1. CASE last # 0 /\ now <= last
            BY <2>1, <2>4, <3>1 DEF NextSnapshotAt, Ids
        <3>2. CASE ~(last # 0 /\ now <= last)
            <4>1. last' = now /\ last < now
                BY <2>1, <2>4, <3>2 DEF NextSnapshotAt, Typed, Ids
            <4>2. QED
                BY <2>4, <4>1
        <3>3. QED
            BY <3>1, <3>2
    <2>6. \A i \in Ids : Used(i)' => i < last'
        BY <2>2, <2>3, <2>4, <2>5 DEF Ids
    <2>7. \A i \in Ids : Used(i)' => i <= last'
        BY <2>5, <2>6 DEF Ids
    <2>8. QED
        BY <2>1, <2>6, <2>7 DEF Fresh
<1>3. CASE Dump
    BY <1>3, OnlyTheRunAddsStep
    DEF Typed, RunType, Named, Fresh, OnlyTheRunAdds, Ids, Dump, storeVars,
        histVars
<1>4. CASE RunFails
    BY <1>4, OnlyTheRunAddsStep
    DEF Typed, RunType, Named, Fresh, OnlyTheRunAdds, Ids, RunFails, NoRun,
        storeVars, histVars
<1>5. CASE Claim
    BY <1>5, OnlyTheRunAddsStep
    DEF Typed, RunType, Named, Fresh, OnlyTheRunAdds, Ids, Claim
<1>lost. CASE ClaimLost
    BY <1>lost, OnlyTheRunAddsStep
    DEF Typed, RunType, Named, Fresh, OnlyTheRunAdds, Ids, ClaimLost, NoRun
<1>6. CASE DuplicateClaim
    BY <1>6, OnlyTheRunAddsStep
    DEF Typed, RunType, Named, Fresh, OnlyTheRunAdds, Ids, DuplicateClaim,
        NoRun, storeVars, histVars
<1>7. CASE WriteRow
    <2>1. /\ run.pc = "write" /\ run'.pc = "write" /\ run.id = last
          /\ last' = last /\ now' = now
        BY <1>7, RunActive, WriteMeans DEF WriteRow
    <2>2. QED
        BY <2>1, OnlyTheRunAddsStep DEF Fresh, OnlyTheRunAdds, Typed
<1>8. CASE WriteDone
    BY <1>8, OnlyTheRunAddsStep, SMTT(30)
    DEF Typed, RunType, Named, Fresh, OnlyTheRunAdds, Ids, WriteDone,
        storeVars
<1>9. CASE WriteFails
    BY <1>9, OnlyTheRunAddsStep
    DEF Typed, RunType, Named, Fresh, OnlyTheRunAdds, Ids, WriteFails,
        storeVars
<1>10. CASE Discard
    BY <1>10, OnlyTheRunAddsStep
    DEF Typed, RunType, Named, Fresh, OnlyTheRunAdds, Ids, Discard, NoRun,
        histVars
<1>11. CASE DiscardFails
    BY <1>11, OnlyTheRunAddsStep
    DEF Typed, RunType, Named, Fresh, OnlyTheRunAdds, Ids, DiscardFails,
        NoRun, storeVars
<1>12. CASE PruneFind
    BY <1>12, OnlyTheRunAddsStep
    DEF Typed, RunType, Named, Fresh, OnlyTheRunAdds, Ids, PruneFind,
        storeVars, histVars
<1>13. CASE PruneDelete
    BY <1>13, OnlyTheRunAddsStep
    DEF Typed, RunType, Named, Fresh, OnlyTheRunAdds, Ids, PruneDelete
<1>14. CASE PruneDone
    BY <1>14, OnlyTheRunAddsStep
    DEF Typed, RunType, Named, Fresh, OnlyTheRunAdds, Ids, PruneDone,
        storeVars, histVars
<1>15. CASE PruneFails
    BY <1>15, OnlyTheRunAddsStep
    DEF Typed, RunType, Named, Fresh, OnlyTheRunAdds, Ids, PruneFails,
        storeVars, histVars
<1>16. CASE Report
    BY <1>16, OnlyTheRunAddsStep
    DEF Typed, RunType, Named, Fresh, OnlyTheRunAdds, Ids, Report, NoRun,
        storeVars, histVars
<1>17. CASE Delete
    BY <1>17, OnlyTheRunAddsStep, SMTT(30) DEF Fresh, OnlyTheRunAdds, Typed, Named, Ids, Delete
<1>18. CASE Tick
    BY <1>18, OnlyTheRunAddsStep
    DEF Typed, RunType, Named, Fresh, OnlyTheRunAdds, Ids, Tick, storeVars,
        histVars
<1>back. CASE StepBack
    BY <1>back DEF Fresh, StepBack
<1>19. CASE Crash
    BY <1>19, OnlyTheRunAddsStep, SMTT(30)
    DEF Typed, RunType, Named, Fresh, OnlyTheRunAdds, Ids, Crash, NoRun,
        NoDelete, NoRead, storeVars
<1>20. QED
    BY <1>1, <1>2, <1>3, <1>4, <1>5, <1>6, <1>7, <1>8, <1>9, <1>10, <1>11,
        <1>12, <1>13, <1>14, <1>15, <1>16, <1>17, <1>18, <1>19, <1>lost, <1>back
    DEF Next, vars, StartDelete, StartRestore, DeleteFails, StartFallback,
        FallbackAccounts, RestoreAccounts, RestoreOthers, EndRead, storeVars,
        histVars

LEMMA OwnedStep == Invariant /\ [Next]_vars => Owned'
<1> SUFFICES ASSUME Invariant, [Next]_vars PROVE Owned'
    OBVIOUS
<1> USE BackupAssumption DEF Invariant
<1>1. CASE UNCHANGED <<index, rows>>
    BY <1>1 DEF Typed, RunType, Named, Unsettled, Owned, NoOrphans, HasRows
<1>2. CASE Claim
    BY <1>2
    DEF Typed, RunType, Named, Unsettled, Owned, NoOrphans, HasRows, Claim
<1>lost. CASE ClaimLost
    BY <1>lost
    DEF Typed, RunType, Named, Unsettled, Owned, NoOrphans, HasRows, ClaimLost, NoRun
<1>3. CASE WriteRow
    BY <1>3, WriteMeans, SMTT(30)
    DEF Typed, RunType, Named, Unsettled, Owned, NoOrphans, HasRows, WriteRow
<1>4. CASE Discard
    <2>1. Removes(run.id, run.at) /\ run.pc = "discard"
        BY <1>4, DiscardRemoves
    <2>2. \A j \in Ids : HasRows(j)' => HasRows(j)
        BY <2>1, RemovesKeeps
    <2>3. run.at > NTables => ~HasRows(run.id)
        BY <2>1, DiscardedAll DEF Removes
    <2>4. QED
        BY <2>1, <2>2, <2>3 DEF Removes, Owned, NoOrphans, Typed, RunType
<1>5. CASE PruneDelete
    <2>1. Removes(Min(run.left), run.at) /\ run.pc = "prune" /\ run.left # {}
        BY <1>5, PruneRemoves
    <2>2. \A j \in Ids : HasRows(j)' => HasRows(j)
        BY <2>1, RemovesKeeps
    <2>3. run.at > NTables => ~HasRows(Min(run.left))
        BY <2>1, PrunedAll DEF Removes
    <2>4. QED
        BY <2>1, <2>2, <2>3 DEF Removes, Owned, NoOrphans, Typed, RunType
<1>6. CASE Delete
    BY <1>6, OperatorRemoves, RemovesKeeps
    DEF Typed, RunType, Named, Unsettled, Owned, NoOrphans, Delete, NoDelete,
        Removes
<1>7. QED
    BY <1>1, <1>2, <1>3, <1>4, <1>5, <1>6, <1>lost
    DEF Next, vars, StartRun, Dump, RunFails, DuplicateClaim, WriteDone,
        WriteFails, DiscardFails, PruneFind, PruneDone, PruneFails, Report,
        StartDelete, StartRestore, DeleteFails, StartFallback,
        FallbackAccounts, RestoreAccounts, RestoreOthers, EndRead, Tick, StepBack,
        Crash, storeVars, histVars

\* A claimed timestamp has no rows of an earlier snapshot.
LEMMA ClaimIsEmpty ==
    ASSUME Invariant, Claim, ~(Deletes /\ ClockSteps)
    PROVE  \A t \in Tables : rows[run.id][t] = 0
<1>1. run.pc = "claim" /\ run.id \notin index /\ run.id \in Ids
    BY RunActive DEF Claim
<1>2. ~HasRows(run.id)
    <2>1. CASE ~Deletes
        BY <1>1, <2>1 DEF Invariant, Owned, NoOrphans
    <2>2. CASE ~ClockSteps
        <3>1. Used(run.id) => run.id < run.id
            BY <1>1, <2>2 DEF Invariant, Fresh
        <3>2. QED
            BY <1>1, <3>1 DEF Used, Ids
    <2>3. QED
        BY <2>1, <2>2
<1>3. QED
    BY <1>1, <1>2, RowsMeans DEF Invariant

LEMMA WrittenStep == Invariant /\ [Next]_vars => Written'
<1> SUFFICES ASSUME Invariant, [Next]_vars PROVE Written'
    OBVIOUS
<1> USE BackupAssumption DEF Invariant
<1>1. CASE UNCHANGED <<index, rows, run, want, removed>>
    BY <1>1 DEF Typed, RunType, Named, Unsettled, Written
<1>2. CASE StartRun
    BY <1>2
    DEF Typed, RunType, Named, Unsettled, Written, StartRun, NextSnapshotAt,
        NoRun, storeVars, histVars
<1>3. CASE Dump
    BY <1>3
    DEF Typed, RunType, Named, Unsettled, Written, Dump, storeVars, histVars
<1>4. CASE RunFails
    BY <1>4
    DEF Typed, RunType, Named, Unsettled, Written, RunFails, NoRun, storeVars,
        histVars
<1>5. CASE Claim
    <2> SUFFICES ASSUME ~(Deletes /\ ClockSteps) PROVE Written'
        BY DEF Written
    <2>1. /\ run.id \in Ids /\ run'.id = run.id /\ run'.todo = run.todo
          /\ run.todo \in [Tables -> 0..MaxRows]
          /\ rows' = rows /\ want'[run.id] = run.todo
        BY <1>5, RunActive DEF Claim, Typed, RunType, Counts
    <2>2. \A t \in Tables : rows'[run.id][t] = 0
        BY <1>5, <2>1, ClaimIsEmpty
    <2>3. \A t \in Tables : rows'[run.id][t] + run'.todo[t] = want'[run.id][t]
        BY <2>1, <2>2
    <2>4. \A t \in Tables : rows'[run.id][t] + run'.todo[t] <= want'[run.id][t]
        BY <2>1, <2>2
    <2>5. QED
        BY <2>1, <2>3, <2>4 DEF Written
<1>lost. CASE ClaimLost
    BY <1>lost
    DEF Written, ClaimLost, NoRun
<1>6. CASE DuplicateClaim
    BY <1>6
    DEF Typed, RunType, Named, Unsettled, Written, DuplicateClaim, NoRun,
        storeVars, histVars
<1>7. CASE WriteRow
    <2> SUFFICES ASSUME ~(Deletes /\ ClockSteps) PROVE Written'
        BY DEF Written
    <2>1. run.id \in Ids /\ run.pc = "write" /\ want' = want /\ removed' = removed
        BY <1>7, RunActive DEF WriteRow, histVars
    <2>2. /\ rows' \in [Ids -> [Tables -> Nat]] /\ run' \in RunType /\ run'.id = run.id
          /\ \A j \in Ids : j # run.id => rows'[j] = rows[j]
          /\ \A t \in Tables :
                 rows'[run.id][t] + run'.todo[t] = rows[run.id][t] + run.todo[t]
        BY <1>7, <2>1, WriteMeans
    <2>3. \A t \in Tables :
              /\ rows'[run.id][t] + run'.todo[t] <= want[run.id][t]
              /\ run.id \notin removed =>
                     rows'[run.id][t] + run'.todo[t] = want[run.id][t]
        BY <2>1, <2>2 DEF Written
    <2>4. ASSUME NEW i \in Ids, NEW t \in Tables PROVE rows'[i][t] <= MaxRows
        <3>1. CASE i = run.id
            <4>1. /\ rows'[i][t] \in Nat /\ run'.todo[t] \in Nat
                  /\ want[i][t] \in 0..MaxRows
                BY <2>2 DEF Typed, RunType, Counts
            <4>2. rows'[i][t] + run'.todo[t] <= want[i][t]
                BY <2>3, <3>1
            <4>3. QED
                BY <4>1, <4>2, BackupAssumption
        <3>2. CASE i # run.id
            BY <2>2, <3>2 DEF Written
        <3>3. QED
            BY <3>1, <3>2
    <2>5. QED
        BY <2>1, <2>2, <2>3, <2>4 DEF Written
<1>8. CASE WriteDone
    BY <1>8
    DEF Typed, RunType, Named, Unsettled, Written, WriteDone, storeVars
<1>9. CASE WriteFails
    BY <1>9
    DEF Typed, RunType, Named, Unsettled, Written, WriteFails, storeVars
<1>10. CASE Discard
    BY <1>10, DiscardRemoves
    DEF Typed, RunType, Named, Unsettled, Written, Discard, NoRun, histVars,
        Removes
<1>11. CASE DiscardFails
    BY <1>11
    DEF Typed, RunType, Named, Unsettled, Written, DiscardFails, NoRun,
        storeVars
<1>12. CASE PruneFind
    BY <1>12
    DEF Typed, RunType, Named, Unsettled, Written, PruneFind, storeVars,
        histVars
<1>13. CASE PruneDelete
    BY <1>13, PruneRemoves
    DEF Typed, RunType, Named, Unsettled, Written, PruneDelete, Removes
<1>14. CASE PruneDone
    BY <1>14
    DEF Typed, RunType, Named, Unsettled, Written, PruneDone, storeVars,
        histVars
<1>15. CASE PruneFails
    BY <1>15
    DEF Typed, RunType, Named, Unsettled, Written, PruneFails, storeVars,
        histVars
<1>16. CASE Report
    BY <1>16
    DEF Typed, RunType, Named, Unsettled, Written, Report, NoRun, storeVars,
        histVars
<1>17. CASE Delete
    <2> SUFFICES ASSUME ~(Deletes /\ ClockSteps) PROVE Written'
        BY DEF Written
    <2>1. /\ Removes(del.id, del.at) /\ removed' = removed \cup {del.id}
          /\ run' = run /\ want' = want
        BY <1>17, OperatorRemoves DEF Delete
    <2>2. \A i \in Ids : \A t \in Tables :
              rows'[i][t] <= rows[i][t] /\ rows'[i][t] \in Nat /\ rows[i][t] \in Nat
        BY <2>1 DEF Removes, Typed
    <2>3. \A i \in Ids : \A t \in Tables : rows'[i][t] <= MaxRows
        BY <2>2, BackupAssumption DEF Written
    <2>4. ASSUME run.pc = "write", NEW t \in Tables
          PROVE  /\ rows'[run.id][t] + run.todo[t] <= want[run.id][t]
                 /\ run.id \notin removed' =>
                        rows'[run.id][t] + run.todo[t] = want[run.id][t]
        <3>1. /\ run.id \in Ids /\ run.todo[t] \in Nat
              /\ want[run.id][t] \in Nat
            BY <2>4, RunActive DEF Typed, RunType, Counts
        <3>2. /\ rows[run.id][t] + run.todo[t] <= want[run.id][t]
              /\ run.id \notin removed =>
                     rows[run.id][t] + run.todo[t] = want[run.id][t]
            BY <2>4 DEF Written
        <3>3. rows'[run.id][t] + run.todo[t] <= want[run.id][t]
            BY <2>2, <3>1, <3>2
        <3>4. ASSUME run.id \notin removed' PROVE rows'[run.id] = rows[run.id]
            BY <2>1, <3>1, <3>4 DEF Removes
        <3>5. QED
            BY <2>1, <3>2, <3>3, <3>4
    <2>5. QED
        BY <2>1, <2>3, <2>4 DEF Written
<1>18. CASE Crash
    BY <1>18
    DEF Typed, RunType, Named, Unsettled, Written, Crash, NoRun, NoDelete,
        NoRead, storeVars
<1>19. QED
    BY <1>1, <1>2, <1>3, <1>4, <1>5, <1>6, <1>7, <1>8, <1>9, <1>10, <1>11,
        <1>12, <1>13, <1>14, <1>15, <1>16, <1>17, <1>18, <1>lost
    DEF Next, vars, StartDelete, StartRestore, DeleteFails, StartFallback,
        FallbackAccounts, RestoreAccounts, RestoreOthers, EndRead, Tick, StepBack,
        storeVars, histVars

\* What excuses a listed snapshot from being whole.
Excused(j) == Whole(j) \/ j \in failed \/ AtRun(j) \/ AtPrune(j) \/ AtDelete(j)

\* A step that leaves a snapshot's rows, its run and its removals alone
\* leaves its excuse alone.
LEMMA ExcuseStays ==
    ASSUME NEW j, Excused(j), j \in index,
           j \in index', rows'[j] = rows[j], want'[j] = want[j],
           failed \subseteq failed',
           AtRun(j) => j \in failed' \/ AtRun(j)',
           AtPrune(j) => j \in failed' \/ AtPrune(j)',
           AtDelete(j) => j \in failed' \/ AtDelete(j)'
    PROVE  Excused(j)'
BY DEF Excused, Whole

LEMMA ListedStep == Invariant /\ [Next]_vars => Listed'
<1> SUFFICES ASSUME Invariant, [Next]_vars, ~(Deletes /\ ClockSteps),
                    NEW j \in Ids, j \in index'
             PROVE  Excused(j)'
    BY TypedStep DEF Listed, ListedIsWhole, Excused, Typed
<1> USE BackupAssumption
<1>0. Typed /\ Named /\ (j \in index => Excused(j))
    BY DEF Invariant, Listed, ListedIsWhole, Excused
<1>1. CASE UNCHANGED <<index, rows, run, del, want, failed>>
    BY <1>0, <1>1 DEF Excused, Whole, AtRun, AtPrune, AtDelete
<1>2. CASE StartRun \/ Dump \/ RunFails \/ DuplicateClaim \/ Report
    <2>1. /\ UNCHANGED <<index, rows, del, want, failed>>
          /\ ~AtRun(j) /\ ~AtPrune(j)
        BY <1>2 DEF StartRun, Dump, RunFails, DuplicateClaim, Report, AtRun,
                    AtPrune, storeVars, histVars
    <2>2. QED
        BY <1>0, <2>1, ExcuseStays DEF AtDelete
<1>3. CASE Claim \/ ClaimLost
    <2>1. /\ run.pc = "claim" /\ run.id \in Ids /\ index' = index \cup {run.id}
          /\ want' = [want EXCEPT ![run.id] = run.todo]
          /\ rows' = rows /\ del' = del
          /\ failed \ {run.id} \subseteq failed'
          /\ \/ run.id \in failed'
             \/ run'.id = run.id /\ run'.pc = "write"
        BY <1>0, <1>3, RunActive DEF Claim, ClaimLost, Typed, RunType
    <2>2. CASE j = run.id
        BY <2>1, <2>2 DEF Excused, AtRun
    <2>3. CASE j # run.id
        <3>1. j \in index /\ want'[j] = want[j] /\ (j \in failed => j \in failed')
            BY <1>0, <2>1, <2>3 DEF Typed
        <3>2. ~AtRun(j) /\ ~AtPrune(j) /\ (AtDelete(j) => AtDelete(j)')
            BY <2>1 DEF AtRun, AtPrune, AtDelete
        <3>3. QED
            BY <1>0, <2>1, <3>1, <3>2 DEF Excused, Whole
    <2>4. QED
        BY <2>2, <2>3
<1>4. CASE WriteRow
    <2>1. /\ run.pc = "write" /\ run.id \in Ids /\ UNCHANGED <<index, del, want, failed>>
          /\ run'.pc = "write" /\ run'.id = run.id
          /\ \A i \in Ids : i # run.id => rows'[i] = rows[i]
        BY <1>0, <1>4, RunActive, WriteMeans DEF WriteRow, histVars
    <2>2. CASE j = run.id
        BY <2>1, <2>2 DEF Excused, AtRun
    <2>3. CASE j # run.id
        <3>1. ~AtRun(j) /\ ~AtPrune(j)
            BY <2>1, <2>3 DEF AtRun, AtPrune
        <3>2. QED
            BY <1>0, <2>1, <2>3, <3>1, ExcuseStays DEF AtDelete
    <2>4. QED
        BY <2>2, <2>3
<1>5. CASE WriteDone
    <2>1. /\ run.pc = "write" /\ run.todo = Nothing /\ run.id \in Ids
          /\ UNCHANGED <<index, rows, del, want, failed>>
        BY <1>0, <1>5, RunActive DEF WriteDone, storeVars
    <2>2. ~AtPrune(j) /\ (AtDelete(j) => AtDelete(j)')
        BY <2>1 DEF AtPrune, AtDelete
    <2>3. CASE j = run.id /\ j \notin removed
        <3>1. \A t \in Tables : rows[j][t] + 0 = want[j][t]
            BY <2>1, <2>3 DEF Invariant, Written, Nothing
        <3>2. \A t \in Tables : rows[j][t] \in Nat
            BY <1>0 DEF Typed
        <3>3. \A t \in Tables : rows[j][t] = want[j][t]
            BY <3>1, <3>2
        <3>4. Whole(j)
            BY <1>0, <2>1, <3>3, WholeMeans
        <3>5. QED
            BY <2>1, <3>4 DEF Excused, Whole
    <2>4. CASE j = run.id /\ j \in removed
        <3>1. j \in failed \/ AtDelete(j)
            BY <2>1, <2>4 DEF Invariant, Unsettled
        <3>2. QED
            BY <2>1, <2>2, <3>1 DEF Excused
    <2>5. CASE j # run.id
        <3>1. ~AtRun(j)
            BY <2>5 DEF AtRun
        <3>2. QED
            BY <1>0, <2>1, <2>2, <3>1, ExcuseStays
    <2>6. QED
        BY <2>3, <2>4, <2>5
<1>6. CASE WriteFails
    <2>1. /\ UNCHANGED <<index, rows, del, want, failed>>
          /\ run.pc = "write" /\ run'.pc = "discard" /\ run'.id = run.id
        BY <1>0, <1>6 DEF WriteFails, storeVars, Typed, RunType
    <2>2. QED
        BY <1>0, <2>1, ExcuseStays DEF AtRun, AtPrune, AtDelete
<1>7. CASE Discard
    <2>1. /\ Removes(run.id, run.at) /\ run.pc = "discard"
          /\ UNCHANGED <<del, want, failed>>
          /\ run.at <= NTables => run'.pc = run.pc /\ run'.id = run.id
        BY <1>7, DiscardRemoves DEF Invariant, Discard, histVars
    <2>2. CASE j = run.id
        <3>1. run.at <= NTables
            BY <1>0, <2>1, <2>2 DEF Removes
        <3>2. QED
            BY <2>1, <2>2, <3>1 DEF Excused, AtRun
    <2>3. CASE j # run.id
        <3>1. j \in index /\ rows'[j] = rows[j] /\ ~AtRun(j) /\ ~AtPrune(j)
            BY <2>1, <2>3 DEF Removes, AtRun, AtPrune
        <3>2. QED
            BY <1>0, <2>1, <3>1, ExcuseStays DEF AtDelete
    <2>4. QED
        BY <2>2, <2>3
<1>8. CASE DiscardFails
    <2>1. /\ UNCHANGED <<index, rows, del, want>> /\ run.pc = "discard"
          /\ failed' = failed \cup {run.id}
        BY <1>8 DEF DiscardFails, storeVars
    <2>2. QED
        BY <1>0, <2>1, ExcuseStays DEF AtRun, AtPrune, AtDelete
<1>9. CASE PruneFind \/ PruneDone
    <2>1. UNCHANGED <<index, rows, del, want, failed>> /\ ~AtRun(j) /\ ~AtPrune(j)
        BY <1>9 DEF PruneFind, PruneDone, storeVars, histVars, AtRun, AtPrune
    <2>2. QED
        BY <1>0, <2>1, ExcuseStays DEF AtDelete
<1>10. CASE PruneDelete
    <2> DEFINE x == Min(run.left)
    <2>1. /\ Removes(x, run.at) /\ run.pc = "prune" /\ run'.pc = "prune"
          /\ x \in run.left
          /\ UNCHANGED <<del, want, failed>>
          /\ run.at <= NTables => run'.left = run.left
        BY <1>10, PruneRemoves DEF PruneDelete
    <2>2. CASE j = x
        <3>1. run.at <= NTables
            BY <1>0, <2>1, <2>2 DEF Removes
        <3>2. AtPrune(j)'
            BY <2>1, <2>2, <3>1 DEF AtPrune
        <3>3. QED
            BY <3>2 DEF Excused
    <2>3. CASE j # x
        <3>1. j \in index /\ rows'[j] = rows[j] /\ ~AtRun(j) /\ ~AtPrune(j)
            BY <2>1, <2>3 DEF Removes, AtRun, AtPrune
        <3>2. QED
            BY <1>0, <2>1, <3>1, ExcuseStays DEF AtDelete
    <2>4. QED
        BY <2>2, <2>3
<1>11. CASE PruneFails
    <2>1. /\ UNCHANGED <<index, rows, del, want>> /\ ~AtRun(j)
          /\ failed \subseteq failed' /\ (AtPrune(j) => j \in failed')
        BY <1>11 DEF PruneFails, storeVars, AtRun
    <2>2. QED
        BY <1>0, <2>1, ExcuseStays DEF AtDelete
<1>12. ASSUME NEW i \in Ids, StartDelete(i)
       PROVE  Excused(j)'
    <2>1. UNCHANGED <<index, rows, run, want, failed>> /\ ~AtDelete(j)
        BY <1>12 DEF StartDelete, storeVars, histVars, AtDelete
    <2>2. QED
        BY <1>0, <2>1, ExcuseStays DEF AtRun, AtPrune
<1>13. CASE Delete
    <2>1. /\ Removes(del.id, del.at) /\ del.pc = "delete"
          /\ UNCHANGED <<run, want, failed>>
          /\ del.at <= NTables => del'.pc = "delete" /\ del'.id = del.id
        BY <1>0, <1>13, OperatorRemoves DEF Delete, Typed, DelType
    <2>2. CASE j = del.id
        <3>1. del.at <= NTables
            BY <1>0, <2>1, <2>2 DEF Removes, Typed, DelType
        <3>2. QED
            BY <2>1, <2>2, <3>1 DEF Excused, AtDelete
    <2>3. CASE j # del.id
        <3>1. j \in index /\ rows'[j] = rows[j] /\ ~AtDelete(j)
            BY <2>1, <2>3 DEF Removes, AtDelete
        <3>2. QED
            BY <1>0, <2>1, <3>1, ExcuseStays DEF AtRun, AtPrune
    <2>4. QED
        BY <2>2, <2>3
<1>14. CASE DeleteFails
    <2>1. /\ UNCHANGED <<index, rows, run, want>>
          /\ failed' = failed \cup {del.id}
        BY <1>14 DEF DeleteFails, storeVars
    <2>2. QED
        BY <1>0, <2>1, ExcuseStays DEF AtRun, AtPrune, AtDelete
<1>15. CASE Crash
    <2>1. /\ UNCHANGED <<index, rows, want>>
          /\ failed' = failed \cup {i \in Ids : AtRun(i) \/ AtPrune(i) \/ AtDelete(i)}
        BY <1>15 DEF Crash, storeVars
    <2>2. QED
        BY <1>0, <2>1, ExcuseStays
<1>16. QED
    BY <1>1, <1>2, <1>3, <1>4, <1>5, <1>6, <1>7, <1>8, <1>9, <1>10, <1>11,
       <1>12, <1>13, <1>14, <1>15
    DEF Next, vars, StartRestore, StartFallback, FallbackAccounts,
        RestoreAccounts, RestoreOthers, EndRead, Tick, StepBack, storeVars,
        histVars

-----------------------------------------------------------------------------
(* The theorems.                                                           *)

LEMMA InitInvariant == Init => Invariant
<1> SUFFICES ASSUME Init PROVE Invariant
    OBVIOUS
<1> USE BackupAssumption DEF Init, NoRun, NoDelete, NoRead
<1>1. Typed
    <2>1. rows \in [Ids -> [Tables -> Nat]] /\ want \in [Ids -> Counts]
        BY NothingTyped
    <2>2. run \in RunType /\ del \in DelType /\ read \in ReadType
        BY NothingTyped DEF RunType, DelType, ReadType, RunPCs
    <2>3. /\ index \subseteq Ids /\ now \in Ids /\ last \in 0..MaxTime
          /\ pruned \in 0..MaxTime /\ crashes \in 0..MaxCrashes
        BY DEF Ids
    <2>4. done \subseteq Ids /\ removed \subseteq Ids /\ failed \subseteq Ids
        OBVIOUS
    <2>5. QED
        BY <2>1, <2>2, <2>3, <2>4 DEF Typed
<1>2. Named /\ Unsettled /\ Settled /\ ReadsSettled /\ Deleted
    BY DEF Named, Unsettled, Settled, ReadsSettled, Deleted
<1>3. PrunedSoFar /\ PrunedIsGone
    BY DEF PrunedSoFar, PrunedIsGone
<1>4. \A i \in Ids : ~HasRows(i) /\ i \notin index /\ ~Used(i)
    BY DEF HasRows, Used
<1>5. Fresh /\ Owned
    BY <1>4 DEF Fresh, Owned, NoOrphans
<1>6. Written /\ Listed
    BY DEF Written, Listed, ListedIsWhole, Nothing
<1>7. QED
    BY <1>1, <1>2, <1>3, <1>5, <1>6 DEF Invariant

\* The inductive invariant holds of every instance, whatever faults, deletes,
\* reads, crashes and clock steps it has.
THEOREM Inductive == Spec => []Invariant
<1>1. Init => Invariant
    BY InitInvariant
<1>2. Invariant /\ [Next]_vars => Invariant'
    BY TypedStep, NamedStep, UnsettledStep, SettledStep, ReadsSettledStep,
       DeletedStep, PrunedSoFarStep, PrunedIsGoneStep, FreshStep, OwnedStep,
       WrittenStep, ListedStep
    DEF Invariant
<1>3. QED
    BY <1>1, <1>2, PTL DEF Spec

\* TypeOK, and with it that no snapshot has more rows than a dump can have,
\* unless deletes leave rows behind for a clock that steps back to meet: the
\* rows of two snapshots of one timestamp then add up (_write_snapshot).
THEOREM TypeCorrect ==
    ASSUME ~(Deletes /\ ClockSteps)
    PROVE  Spec => []TypeOK
<1>1. Invariant => TypeOK
    <2> SUFFICES ASSUME Invariant PROVE TypeOK
        OBVIOUS
    <2>1. rows \in [Ids -> Counts]
        <3>1. ASSUME NEW i \in Ids PROVE rows[i] \in Counts
            <4>1. rows[i] \in [Tables -> Nat]
                BY DEF Invariant, Typed
            <4>2. \A t \in Tables : rows[i][t] <= MaxRows
                BY DEF Invariant, Written
            <4>3. \A t \in Tables : rows[i][t] \in 0..MaxRows
                BY <4>1, <4>2, BackupAssumption
            <4>4. QED
                BY <4>1, <4>3 DEF Counts
        <3>2. QED
            BY <3>1 DEF Invariant, Typed
    <2>2. QED
        BY <2>1 DEF Invariant, Typed, TypeOK, RunType, DelType, ReadType
<1>2. QED
    BY <1>1, Inductive, PTL

\* A listed snapshot that nobody is writing or deleting at this moment is
\* whole, unless its run or a removal of it was cut short by a failure or a
\* crash, under the same condition as TypeCorrect.
THEOREM ListedSnapshotsAreWhole ==
    ASSUME ~(Deletes /\ ClockSteps)
    PROVE  Spec => []ListedIsWhole
<1>1. Invariant => ListedIsWhole
    BY DEF Invariant, Listed
<1>2. QED
    BY <1>1, Inductive, PTL

\* Every run's discard and prune deletes the index row last, so neither a
\* failed statement nor a crash leaves rows of no snapshot.  An operator's
\* delete beside a run can: the run may still be writing what it deletes.
THEOREM NoRowsAreOrphaned ==
    ASSUME ~Deletes
    PROVE  Spec => []NoOrphans
<1>1. Invariant => NoOrphans
    BY DEF Invariant, Owned
<1>2. QED
    BY <1>1, Inductive, PTL

\* A fallback or a restore of a settled snapshot reads all of it, whatever
\* runs, crashes and clock steps come meanwhile, unless something begins to
\* remove it (latest_snapshot, snapshot_rows).
THEOREM SettledReadsAreWhole == Spec => []SettledReadsWhole
<1>1. Invariant => SettledReadsWhole
    BY DEF Invariant, ReadsSettled, SettledReadsWhole
<1>2. QED
    BY <1>1, Inductive, PTL

\* After a prune that did not fail nothing lies before its cutoff (_prune).
THEOREM PrunedSnapshotsAreGone == Spec => []PrunedIsGone
<1>1. Invariant => PrunedIsGone
    BY DEF Invariant
<1>2. QED
    BY <1>1, Inductive, PTL

\* A run, however it ends, leaves the earlier copies as they are.
THEOREM EarlierSnapshotsStay == Spec => EarlierCopiesStay
<1> DEFINE Stays(i) == Whole(i) /\ i \in done =>
                           \/ Whole(i)' \/ i = del.id
                           \/ run.pc = "prune" /\ i \in run.left
<1>1. Invariant /\ [Next]_vars => \A i \in Ids : Stays(i)
    <2> SUFFICES ASSUME Invariant, [Next]_vars, NEW i \in Ids, Whole(i), i \in done
                 PROVE  Whole(i)' \/ i = del.id \/ (run.pc = "prune" /\ i \in run.left)
        OBVIOUS
    <2>1. Typed /\ Unsettled /\ i \in index
        BY DEF Invariant, Whole
    <2>2. CASE UNCHANGED <<index, rows, want>>
        BY <2>2 DEF Whole
    <2>3. CASE Claim
        <3>1. run.id # i /\ run.id \in Ids
            BY <2>1, <2>3, RunActive DEF Claim
        <3>2. index \subseteq index' /\ rows' = rows /\ want'[i] = want[i]
            BY <2>1, <2>3, <3>1 DEF Claim, Typed
        <3>3. QED
            BY <3>2 DEF Whole
    <2>lost. CASE ClaimLost
        <3>1. run.id # i /\ run.id \in Ids
            BY <2>1, <2>lost, RunActive DEF ClaimLost
        <3>2. index \subseteq index' /\ rows' = rows /\ want'[i] = want[i]
            BY <2>1, <2>lost, <3>1 DEF ClaimLost, Typed
        <3>3. QED
            BY <3>2 DEF Whole
    <2>4. CASE WriteRow
        <3>1. run.id # i /\ run.id \in Ids /\ index' = index /\ want' = want
            BY <2>1, <2>4, RunActive DEF WriteRow, Unsettled, histVars
        <3>2. rows'[i] = rows[i]
            BY <2>1, <2>4, <3>1, WriteMeans
        <3>3. QED
            BY <3>1, <3>2 DEF Whole
    <2>5. CASE Discard
        <3>1. run.id # i /\ Removes(run.id, run.at) /\ want' = want
            BY <2>1, <2>5, DiscardRemoves DEF Unsettled, Discard, histVars
        <3>2. QED
            BY <2>1, <3>1 DEF Whole, Removes
    <2>6. CASE PruneDelete
        <3>1. /\ Min(run.left) \in run.left /\ Removes(Min(run.left), run.at)
              /\ run.pc = "prune" /\ want' = want
            BY <2>6, PruneRemoves DEF PruneDelete
        <3>2. QED
            BY <2>1, <3>1 DEF Whole, Removes
    <2>7. CASE Delete
        <3>1. Removes(del.id, del.at) /\ want' = want
            BY <2>7, OperatorRemoves DEF Delete
        <3>2. QED
            BY <2>1, <3>1 DEF Whole, Removes
    <2>8. QED
        BY <2>2, <2>3, <2>lost, <2>4, <2>5, <2>6, <2>7
        DEF Next, vars, StartRun, Dump, RunFails, DuplicateClaim, WriteDone,
            WriteFails, DiscardFails, PruneFind, PruneDone, PruneFails, Report,
            StartDelete, StartRestore, DeleteFails, StartFallback,
            FallbackAccounts, RestoreAccounts, RestoreOthers, EndRead, Tick, StepBack,
            Crash, storeVars, histVars
<1>2. QED
    BY <1>1, Inductive, PTL DEF Spec, EarlierCopiesStay

-----------------------------------------------------------------------------
(* The store of whole snapshots.                                           *)
Kept == {i \in done : Whole(i)}

\* A statement of a removal takes its snapshot out of the store or changes
\* nothing there: one that was not whole does not become so.
LEMMA RemovalStep ==
    ASSUME Invariant, NEW x, NEW at, Removes(x, at), done' = done, want' = want
    PROVE  Kept' = Kept \/ (x \in Kept /\ Kept' = Kept \ {x})
<1>1. \A j \in done : j # x => (Whole(j)' <=> Whole(j))
    BY DEF Removes, Whole, Invariant, Typed
<1>2. ASSUME x \in done, Whole(x)' PROVE Whole(x)
    <2>1. x \in index /\ x \in Ids /\ rows'[x] = want[x]
        BY <1>2 DEF Removes, Whole
    <2>2. ASSUME NEW t \in Tables PROVE rows[x][t] = want[x][t]
        <3>1. /\ rows[x][t] <= want[x][t]
              /\ rows[x][t] \in Nat /\ want[x][t] \in Nat
            BY <1>2, <2>1 DEF Invariant, Settled, Typed, Counts
        <3>2. want[x][t] = rows[x][t] \/ want[x][t] = 0
            BY <2>1 DEF Removes
        <3>3. QED
            BY <3>1, <3>2
    <2>3. QED
        BY <2>1, <2>2, WholeMeans DEF Invariant
<1>3. QED
    BY <1>1, <1>2 DEF Kept

LEMMA StoreStep ==
    ASSUME Invariant, [Next]_vars, ~ClockSteps
    PROVE  Store!Next \/ UNCHANGED <<Kept, done>>
<1>1. Typed /\ Unsettled /\ Fresh
    BY DEF Invariant
<1>2. ASSUME NEW x, NEW at, Removes(x, at), done' = done, want' = want
      PROVE  Store!Next \/ UNCHANGED <<Kept, done>>
    <2>1. x \in Ids /\ (Kept' = Kept \/ (x \in Kept /\ Kept' = Kept \ {x}))
        BY <1>2, RemovalStep DEF Removes
    <2>2. x \in Kept /\ Kept' = Kept \ {x} => Store!Remove(x)
        BY <1>2 DEF Store!Remove, Kept
    <2>3. QED
        BY <1>2, <2>1, <2>2 DEF Store!Next
<1>3. CASE UNCHANGED <<index, rows, want, done>>
    BY <1>3 DEF Kept, Whole
<1>4. CASE Claim
    <2>1. /\ run.id \in Ids /\ run.pc = "claim" /\ run.id \notin index
          /\ index' = index \cup {run.id} /\ rows' = rows
          /\ done' = done \ {run.id}
          /\ \A j \in Ids : j # run.id => want'[j] = want[j]
        BY <1>1, <1>4, RunActive DEF Claim, Typed
    <2>2. run.id \notin done
        BY <1>1, <2>1 DEF Fresh, Used, Ids
    <2>3. done' = done
        BY <2>1, <2>2
    <2>4. \A j \in done : Whole(j)' <=> Whole(j)
        BY <1>1, <2>1, <2>2 DEF Whole, Typed
    <2>5. QED
        BY <2>3, <2>4 DEF Kept
<1>lost. CASE ClaimLost
    <2>1. /\ run.id \in Ids /\ run.pc = "claim" /\ run.id \notin index
          /\ index' = index \cup {run.id} /\ rows' = rows
          /\ done' = done \ {run.id}
          /\ \A j \in Ids : j # run.id => want'[j] = want[j]
        BY <1>1, <1>lost, RunActive DEF ClaimLost, Typed
    <2>2. run.id \notin done
        BY <1>1, <2>1 DEF Fresh, Used, Ids
    <2>3. done' = done
        BY <2>1, <2>2
    <2>4. \A j \in done : Whole(j)' <=> Whole(j)
        BY <1>1, <2>1, <2>2 DEF Whole, Typed
    <2>5. QED
        BY <2>3, <2>4 DEF Kept
<1>5. CASE WriteRow
    <2>1. /\ run.id \in Ids /\ run.id \notin done
          /\ index' = index /\ want' = want /\ done' = done
        BY <1>1, <1>5, RunActive DEF WriteRow, Unsettled, histVars
    <2>2. \A j \in Ids : j # run.id => rows'[j] = rows[j]
        BY <1>1, <1>5, <2>1, WriteMeans
    <2>3. \A j \in done : Whole(j)' <=> Whole(j)
        BY <1>1, <2>1, <2>2 DEF Whole, Typed
    <2>4. QED
        BY <2>1, <2>3 DEF Kept
<1>6. CASE WriteDone
    <2>1. /\ run.id \in Ids /\ run.id \notin done
          /\ index' = index /\ rows' = rows /\ want' = want
          /\ done' = (IF Whole(run.id) THEN done \cup {run.id} ELSE done)
        BY <1>1, <1>6, RunActive DEF WriteDone, Unsettled, storeVars
    <2>2. \A j \in Ids : Whole(j)' <=> Whole(j)
        BY <2>1 DEF Whole
    <2>3. CASE Whole(run.id)
        <3>1. done' = done \cup {run.id} /\ Kept' = Kept \cup {run.id}
            BY <1>1, <2>1, <2>2, <2>3 DEF Kept, Typed
        <3>2. Store!Complete(run.id)
            BY <2>1, <3>1 DEF Store!Complete, Kept
        <3>3. QED
            BY <2>1, <3>2 DEF Store!Next
    <2>4. CASE ~Whole(run.id)
        BY <1>1, <2>1, <2>2, <2>4 DEF Kept, Typed
    <2>5. QED
        BY <2>3, <2>4
<1>7. CASE Discard
    BY <1>2, <1>7, DiscardRemoves DEF Discard, histVars
<1>8. CASE PruneDelete
    BY <1>2, <1>8, PruneRemoves DEF PruneDelete
<1>9. CASE Delete
    BY <1>2, <1>9, OperatorRemoves DEF Delete
<1>10. QED
    BY <1>3, <1>4, <1>5, <1>6, <1>7, <1>8, <1>9, <1>lost
    DEF Next, vars, StartRun, Dump, RunFails, DuplicateClaim, WriteFails,
        DiscardFails, PruneFind, PruneDone, PruneFails, Report, StartDelete,
        StartRestore, DeleteFails, StartFallback, FallbackAccounts,
        RestoreAccounts, RestoreOthers, EndRead, Tick, StepBack, Crash, storeVars, histVars

\* The snapshots are the store SnapshotStore describes: a run adds one whole
\* snapshot under a timestamp of its own or none, and a kept snapshot only
\* goes away as a whole.  A clock that steps back over a restart may draw a
\* timestamp a second time.
THEOREM SnapshotsImplementStore ==
    ASSUME ~ClockSteps
    PROVE  Spec => ImplementsStore
<1>1. Init => Store!Init
    BY DEF Init, Store!Init
<1>2. Invariant /\ [Next]_vars => [Store!Next]_<<Kept, done>>
    BY StoreStep
<1>3. QED
    BY <1>1, <1>2, Inductive, PTL DEF Spec, ImplementsStore, Store!Spec, Kept
=============================================================================
