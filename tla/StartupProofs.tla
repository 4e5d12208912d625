---------------------------- MODULE StartupProofs ----------------------------
(***************************************************************************)
(* Proofs about the life of a gateway process, for every retry policy,     *)
(* every set of installations and any number of outages and starts: the    *)
(* retries are bounded, an outcome is what the store is left in, and a     *)
(* shutdown closes no store under a task.                                  *)
(***************************************************************************)
EXTENDS Startup, TLAPS

-----------------------------------------------------------------------------
(* The inductive invariant.                                                *)

\* One pause before every attempt but the first, and but the one after the
\* CREATE DATABASE; at "sleep" the pause is taken and the attempt to come.
RetriesAreCounted ==
    /\ pc \in Connecting \ {"sleep"} =>
          slept = attempt - 1 \/ (tried /\ slept = attempt - 2)
    /\ pc = "sleep" =>
          /\ attempt < MaxAttempts
          /\ slept = attempt \/ (tried /\ slept = attempt - 1)
    /\ pc = "create" => tried /\ slept = attempt - 1

WaitsAreCapped == waited <= slept * Cap

\* What connect_and_init has to say of s is so.
Settled(s) ==
    IF kind[s] = "none" THEN migrated[s] = name[s] /\ pool[s] = conf.pooled
                        ELSE migrated[s] = "none" /\ ~pool[s]

\* The store in the works has no schema yet, and a pool only from the moment
\* it is connected until its failure is handled.
InTheWorks ==
    /\ pc \in Connecting \cup {"lost"} => migrated[which] = "none"
    /\ pc \in {"connect", "create", "sleep", "lost"} => ~pool[which]
    /\ pc = "schema" => pool[which] = conf.pooled
    /\ pc \in {"failed", "create", "sleep", "lost"} => kind[which] # "none"

\* The primary comes first.
BackupIsNext ==
    /\ pc = "ping" => which = "primary"
    /\ pc \in Connecting \cup {"lost", "ping"} /\ which = "primary" =>
          ~pool["backup"] /\ migrated["backup"] = "none"

StoresAreSettled == \A s \in Stores : Concluded(s) => Settled(s)

\* The lifespan is alone until the policy is attached.
AloneAtFirst ==
    pc \in Connecting \cup {"lost", "ping", "attach"} =>
        ~policy /\ monitor = "none" /\ backupTask = "none" /\ validation = "none"

\* db_ok is set by the ping of a good primary, the policy by db_ok.
PrimaryIsTrue ==
    /\ pc = "ping" => ~dbOk /\ kind["primary"] = "none"
    /\ pc \in Connecting \cup {"lost"} /\ which = "primary" => ~dbOk
    /\ pc \in Connecting \cup {"lost", "attach"} /\ dbOk => kind["primary"] = "none"
    /\ policy => dbOk /\ kind["primary"] = "none"

\* The manager waits for the outcome of the backup store, and follows it.
ManagerIsTrue ==
    /\ pc \in Connecting \cup {"lost", "ping"} => ~manager
    /\ Concluded("backup") => (manager <=> kind["backup"] = "none")

Outcomes ==
    InTheWorks /\ BackupIsNext /\ StoresAreSettled /\ AloneAtFirst /\ PrimaryIsTrue /\ ManagerIsTrue

\* A task that was cancelled only undoes, and one that was awaited is over.
TasksStop ==
    /\ pc \in {"stopMonitor", "closed"} => backupTask \in {"none", "done"}
    /\ pc = "closed" => monitor = "done"

IInv == TypeOK /\ RetriesAreCounted /\ WaitsAreCapped /\ Outcomes /\ TasksStop

-----------------------------------------------------------------------------
(* Attempts and delays.                                                    *)

LEMMA MaxAttemptsType == MaxAttempts \in 1..10
PROOF
    BY StartupAssumption DEF MaxAttempts

LEMMA PowersOfTwo == \A n \in 0..9 : 2^n \in Nat
PROOF
<1> SUFFICES ASSUME NEW n \in 0..9 PROVE 2^n \in Nat
    OBVIOUS
<1>1. n \in {0, 1, 2, 3, 4, 5, 6, 7, 8, 9}
    OBVIOUS
<1>2. 2^n \in {2^0, 2^1, 2^2, 2^3, 2^4, 2^5, 2^6, 2^7, 2^8, 2^9}
    BY <1>1, Zenon
<1>3. \A k \in {2^0, 2^1, 2^2, 2^3, 2^4, 2^5, 2^6, 2^7, 2^8, 2^9} : k \in Nat
    OBVIOUS
<1>4. QED
    BY <1>2, <1>3, Zenon

\* No delay is over the cap.
LEMMA DelaysAreCapped == \A n \in 1..10 : Delay(n) \in 0..Cap
PROOF
<1> SUFFICES ASSUME NEW n \in 1..10 PROVE Delay(n) \in 0..Cap
    OBVIOUS
<1> DEFINE m == 2^(n - 1)
<1>1. n - 1 \in 0..9
    OBVIOUS
<1>2. m \in Nat
    BY <1>1, PowersOfTwo
<1>3. \A i, j \in Nat : i * j \in Nat
    OBVIOUS
<1>4. Base * m \in Nat
    BY <1>2, <1>3, StartupAssumption
<1> HIDE DEF m
<1>5. Delay(n) = IF Base = 0 \/ Cap = 0 THEN 0 ELSE IF Base * m < Cap THEN Base * m ELSE Cap
    BY DEF Delay, m
<1>6. QED
    BY <1>4, <1>5, StartupAssumption

\* One more pause costs at most one more cap.
LEMMA OneMorePause ==
    ASSUME TypeOK, WaitsAreCapped, NEW d \in 0..Delay(attempt)
    PROVE  waited + d \in Nat /\ waited + d <= (slept + 1) * Cap
PROOF
<1> USE StartupAssumption, MaxAttemptsType
<1>1. Delay(attempt) \in 0..Cap
    BY DelaysAreCapped DEF TypeOK
<1>2. slept \in Nat /\ waited \in Nat /\ d \in Nat /\ d <= Cap
    BY <1>1 DEF TypeOK
<1>3. \A k, c \in Nat : k * c \in Nat /\ (k + 1) * c = k * c + c
    OBVIOUS
<1>4. slept * Cap \in Nat /\ (slept + 1) * Cap = slept * Cap + Cap
    BY <1>2, <1>3
<1>5. QED
    BY <1>2, <1>4 DEF WaitsAreCapped

\* A failure that is not the last pauses, once.
LEMMA BackOffMeans ==
    ASSUME TypeOK, WaitsAreCapped, BackOff
    PROVE  /\ waited' \in Nat /\ waited' <= slept' * Cap
           /\ \/ pc' = "lost" /\ slept' = slept
              \/ pc' = "sleep" /\ slept' = slept + 1 /\ attempt < MaxAttempts
PROOF
<1>1. CASE attempt >= MaxAttempts
    BY <1>1 DEF BackOff, TypeOK, WaitsAreCapped
<1>2. CASE ~(attempt >= MaxAttempts)
  <2>1. pc' = "sleep" /\ slept' = slept + 1
    BY <1>2 DEF BackOff
  <2>2. PICK d \in 0..Delay(attempt) : waited' = waited + d
    BY <1>2 DEF BackOff
  <2>3. attempt < MaxAttempts
    BY <1>2, MaxAttemptsType DEF TypeOK
  <2>4. QED
    BY <2>1, <2>2, <2>3, OneMorePause
<1>3. QED
    BY <1>1, <1>2

\* A failure ends connect_and_init, goes to CREATE DATABASE, or backs off.
LEMMA HandleFailureMeans ==
    ASSUME TypeOK, HandleFailure
    PROVE  /\ pc = "failed" /\ pool' = [pool EXCEPT ![which] = FALSE]
           /\ UNCHANGED <<envVars, which, attempt, kind, migrated, stateVars, taskVars>>
           /\ \/ pc' = "lost" /\ UNCHANGED <<tried, name, slept, waited>>
              \/ /\ pc' = "create" /\ ~tried /\ tried' = TRUE
                 /\ \E d \in Databases : name' = [name EXCEPT ![which] = d]
                 /\ UNCHANGED <<slept, waited>>
              \/ BackOff /\ UNCHANGED <<tried, name>>
PROOF
<1>1. CASE kind[which] = "unsupported_dsn"
    BY <1>1 DEF HandleFailure, CanBeCreated, BackOff
<1>2. CASE kind[which] # "unsupported_dsn" /\ CanBeCreated
    BY <1>2 DEF HandleFailure, CanBeCreated, TypeOK, Databases
<1>3. CASE kind[which] # "unsupported_dsn" /\ ~CanBeCreated
    BY <1>3 DEF HandleFailure, BackOff
<1>4. QED
    BY <1>1, <1>2, <1>3

-----------------------------------------------------------------------------
(* What a step does to each part of the invariant.                         *)

LEMMA TypeOKStep == IInv /\ [Next]_vars => TypeOK'
PROOF
<1> SUFFICES ASSUME IInv, [Next]_vars PROVE TypeOK'
    OBVIOUS
<1> USE StartupAssumption, MaxAttemptsType
<1>1. CASE UNCHANGED vars
    BY <1>1 DEF IInv, TypeOK, Connecting, Booting, Stopping, Stores, Kinds,
        Databases, Config, vars, envVars, retryVars, stateVars, taskVars
<1>2. ASSUME NEW s \in Stores, Flip(s)
     PROVE  TypeOK'
    BY <1>2
    DEF IInv, TypeOK, Connecting, Booting, Stopping, Stores, Kinds, Databases,
        Config, Flip, retryVars, stateVars, taskVars
<1>3. CASE Boot
  <2>1. 1 \in 1..MaxAttempts /\ 0 \in 0..(MaxAttempts - 1) /\ 0 \in Nat
        /\ boots' \in 0..MaxBoots
    BY <1>3 DEF IInv, TypeOK, Boot
  <2>2. QED
    BY <1>3, <2>1 DEF IInv, TypeOK, Connecting, Booting, Stopping, Stores, Kinds,
        Databases, Config, Boot, BeginConnect, Fresh
<1>4. CASE ConnectFails
    BY <1>4
    DEF IInv, TypeOK, Connecting, Booting, Stopping, Stores, Kinds, Databases,
        Config, ConnectFails, Fails, envVars, stateVars, taskVars
<1>5. CASE Connect
    BY <1>5
    DEF IInv, TypeOK, Connecting, Booting, Stopping, Stores, Kinds, Databases,
        Config, Connect, envVars, retryVars, stateVars, taskVars
<1>6. CASE SchemaFails
    BY <1>6
    DEF IInv, TypeOK, Connecting, Booting, Stopping, Stores, Kinds, Databases,
        Config, SchemaFails, Fails, envVars, stateVars, taskVars
<1>7. CASE Migrated
  <2>1. migrated' \in [Stores -> Databases \cup {"none"}] /\ kind' \in [Stores -> Kinds]
    BY <1>7 DEF IInv, TypeOK, Migrated, Stores, Kinds
  <2>2. pc' \in Booting /\ manager' \in BOOLEAN
    BY <1>7 DEF IInv, TypeOK, Migrated, Booting
  <2>3. QED
    BY <1>7, <2>1, <2>2 DEF IInv, TypeOK, Migrated, envVars, taskVars
<1>8. CASE HandleFailure
  <2>1. slept = attempt - 1 \/ slept = attempt - 2
    BY <1>8, HandleFailureMeans DEF IInv, RetriesAreCounted, Connecting
  <2>2. pool' \in [Stores -> BOOLEAN] /\ UNCHANGED <<envVars, stateVars, taskVars>>
        /\ UNCHANGED <<which, attempt, kind, migrated>>
    BY <1>8, HandleFailureMeans DEF IInv, TypeOK
  <2>3. name' \in [Stores -> Databases] /\ tried' \in BOOLEAN
    BY <1>8, HandleFailureMeans DEF IInv, TypeOK
  <2>4. slept' \in 0..(MaxAttempts - 1) /\ waited' \in Nat /\ pc' \in Booting
    <3>1. CASE pc' = "lost" /\ UNCHANGED <<tried, name, slept, waited>>
      BY <3>1 DEF IInv, TypeOK, Booting, Connecting
    <3>2. CASE pc' = "create" /\ ~tried /\ tried' = TRUE /\ UNCHANGED <<slept, waited>>
      BY <3>2 DEF IInv, TypeOK, Booting, Connecting
    <3>3. CASE BackOff /\ UNCHANGED <<tried, name>>
      BY <3>3, <2>1, BackOffMeans DEF IInv, TypeOK, Booting, Connecting
    <3>4. QED
      BY <1>8, <3>1, <3>2, <3>3, HandleFailureMeans DEF IInv
  <2>5. QED
    BY <2>2, <2>3, <2>4 DEF IInv, TypeOK, envVars, stateVars, taskVars
<1>9. CASE Created
    BY <1>9
    DEF IInv, TypeOK, Connecting, Booting, Stopping, Stores, Kinds, Databases,
        Config, Created, stateVars, taskVars
<1>10. CASE NotCreated
  <2>1. BackOff /\ slept = attempt - 1
    BY <1>10 DEF IInv, TypeOK, RetriesAreCounted, NotCreated
  <2>2. slept' \in 0..(MaxAttempts - 1) /\ waited' \in Nat /\ pc' \in Booting
    BY <2>1, BackOffMeans DEF IInv, TypeOK, Booting, Connecting
  <2>3. QED
    BY <1>10, <2>2 DEF IInv, TypeOK, NotCreated, envVars, stateVars, taskVars
<1>11. CASE Retry
  <2>1. attempt' \in 1..MaxAttempts
    BY <1>11 DEF IInv, TypeOK, RetriesAreCounted, Retry
  <2>2. QED
    BY <1>11, <2>1 DEF IInv, TypeOK, Booting, Connecting, Retry, envVars, stateVars, taskVars
<1>12. CASE Lost
  <2>1. pc' \in Booting /\ which' \in Stores /\ tried' \in BOOLEAN
    BY <1>12 DEF IInv, TypeOK, Booting, Connecting, Stores, Lost, NextStore, BeginConnect
  <2>2. attempt' \in 1..MaxAttempts /\ slept' \in 0..(MaxAttempts - 1) /\ waited' \in Nat
    BY <1>12 DEF IInv, TypeOK, Lost, NextStore, BeginConnect
  <2>3. QED
    BY <1>12, <2>1, <2>2 DEF IInv, TypeOK, Lost, Reachable, Stores, envVars, taskVars, stateVars
<1>13. CASE Ping
  <2>1. pc' \in Booting /\ which' \in Stores /\ tried' \in BOOLEAN
    BY <1>13 DEF IInv, TypeOK, Booting, Connecting, Stores, Ping, NextStore, BeginConnect
  <2>2. attempt' \in 1..MaxAttempts /\ slept' \in 0..(MaxAttempts - 1) /\ waited' \in Nat
    BY <1>13 DEF IInv, TypeOK, Ping, NextStore, BeginConnect
  <2>3. QED
    BY <1>13, <2>1, <2>2 DEF IInv, TypeOK, Ping, Reachable, Stores, envVars, taskVars
<1>14. CASE Attach
    BY <1>14
    DEF IInv, TypeOK, Connecting, Booting, Stopping, Stores, Kinds, Databases,
        Config, Attach, envVars, retryVars, taskVars
<1>15. CASE Restore
    BY <1>15
    DEF IInv, TypeOK, Connecting, Booting, Stopping, Stores, Kinds, Databases,
        Config, Restore, CheckOnce, Served, Reachable, envVars, retryVars
<1>16. CASE StartTasks
    BY <1>16
    DEF IInv, TypeOK, Connecting, Booting, Stopping, Stores, Kinds, Databases,
        Config, StartTasks, envVars, retryVars, stateVars
<1>17. CASE StopMonitor
    BY <1>17
    DEF IInv, TypeOK, Connecting, Booting, Stopping, Stores, Kinds, Databases,
        Config, StopMonitor, Cancelled, envVars, retryVars, stateVars
<1>18. CASE Close
    BY <1>18
    DEF IInv, TypeOK, Connecting, Booting, Stopping, Stores, Kinds, Databases,
        Config, Close, Fresh, envVars, retryVars, stateVars, taskVars
<1>19. CASE MonitorWakes
    BY <1>19
    DEF IInv, TypeOK, Connecting, Booting, Stopping, Stores, Kinds, Databases,
        Config, MonitorWakes, others, envVars, retryVars
<1>20. CASE MonitorChecks
    BY <1>20
    DEF IInv, TypeOK, Connecting, Booting, Stopping, Stores, Kinds, Databases,
        Config, MonitorChecks, CheckOnce, Served, Reachable, others, envVars,
        retryVars
<1>21. CASE MonitorBackupEnds
    BY <1>21
    DEF IInv, TypeOK, Connecting, Booting, Stopping, Stores, Kinds, Databases,
        Config, MonitorBackupEnds, others, envVars, retryVars
<1>22. CASE BackupTaskSteps
    BY <1>22
    DEF IInv, TypeOK, Connecting, Booting, Stopping, Stores, Kinds, Databases,
        Config, BackupTaskSteps, others, envVars, retryVars
<1>23. CASE ValidationEnds
    BY <1>23
    DEF IInv, TypeOK, Connecting, Booting, Stopping, Stores, Kinds, Databases,
        Config, ValidationEnds, CheckOnce, Served, Reachable, others, envVars,
        retryVars
<1>24. CASE Overview
    BY <1>24
    DEF IInv, TypeOK, Connecting, Booting, Stopping, Stores, Kinds, Databases,
        Config, Overview, Reachable, others, envVars, retryVars, taskVars
<1>25. CASE Shutdown
    BY <1>25
    DEF IInv, TypeOK, Connecting, Booting, Stopping, Stores, Kinds, Databases,
        Config, Shutdown, Cancelled, envVars, retryVars, stateVars
<1>26. CASE Exit
    BY <1>26
    DEF IInv, TypeOK, Connecting, Booting, Stopping, Stores, Kinds, Databases,
        Config, Exit, Fresh, envVars, retryVars
<1>27. QED
    BY <1>1, <1>2, <1>3, <1>4, <1>5, <1>6, <1>7, <1>8, <1>9, <1>10, <1>11,
        <1>12, <1>13, <1>14, <1>15, <1>16, <1>17, <1>18, <1>19, <1>20, <1>21,
        <1>22, <1>23, <1>24, <1>25, <1>26
    DEF Next, Lifespan, Background

LEMMA RetriesAreCountedStep == IInv /\ [Next]_vars => RetriesAreCounted'
PROOF
<1> SUFFICES ASSUME IInv, [Next]_vars PROVE RetriesAreCounted'
    OBVIOUS
<1> USE StartupAssumption, MaxAttemptsType
<1>1. CASE UNCHANGED <<pc, attempt, tried, slept>>
    BY <1>1 DEF IInv, TypeOK, RetriesAreCounted, Connecting
<1>2. CASE Boot
    BY <1>2
    DEF IInv, TypeOK, RetriesAreCounted, Connecting, Boot, BeginConnect, Fresh
<1>3. CASE ConnectFails
    BY <1>3
    DEF IInv, TypeOK, RetriesAreCounted, Connecting, ConnectFails, Fails
<1>4. CASE Connect
    BY <1>4
    DEF IInv, TypeOK, RetriesAreCounted, Connecting, Connect, retryVars
<1>5. CASE SchemaFails
    BY <1>5
    DEF IInv, TypeOK, RetriesAreCounted, Connecting, SchemaFails, Fails
<1>6. CASE Migrated
    BY <1>6
    DEF IInv, TypeOK, RetriesAreCounted, Connecting, Migrated
<1>7. CASE HandleFailure
  <2>1. pc = "failed" /\ attempt' = attempt
    BY <1>7, HandleFailureMeans DEF IInv
  <2>2. CASE pc' = "lost" /\ UNCHANGED <<tried, name, slept, waited>>
    BY <2>2, <2>1 DEF IInv, TypeOK, RetriesAreCounted, Connecting
  <2>3. CASE pc' = "create" /\ ~tried /\ tried' = TRUE /\ UNCHANGED <<slept, waited>>
    BY <2>3, <2>1 DEF IInv, TypeOK, RetriesAreCounted, Connecting
  <2>4. CASE BackOff /\ UNCHANGED <<tried, name>>
    BY <2>4, <2>1, BackOffMeans DEF IInv, TypeOK, RetriesAreCounted, Connecting
  <2>5. QED
    BY <1>7, <2>2, <2>3, <2>4, HandleFailureMeans DEF IInv
<1>8. CASE Created
    BY <1>8
    DEF IInv, TypeOK, RetriesAreCounted, Connecting, Created
<1>9. CASE NotCreated
  <2>1. BackOff /\ slept = attempt - 1 /\ tried /\ tried' = tried /\ attempt' = attempt
    BY <1>9 DEF IInv, RetriesAreCounted, NotCreated
  <2>2. QED
    BY <2>1, BackOffMeans DEF IInv, TypeOK, RetriesAreCounted, Connecting
<1>10. CASE Retry
    BY <1>10
    DEF IInv, TypeOK, RetriesAreCounted, Connecting, Retry
<1>11. CASE Lost
    BY <1>11
    DEF IInv, TypeOK, RetriesAreCounted, Connecting, Lost, NextStore,
        BeginConnect
<1>12. CASE Ping
    BY <1>12
    DEF IInv, TypeOK, RetriesAreCounted, Connecting, Ping, NextStore,
        BeginConnect, Reachable
<1>13. CASE Attach
    BY <1>13
    DEF IInv, TypeOK, RetriesAreCounted, Connecting, Attach, retryVars
<1>14. CASE Restore
    BY <1>14
    DEF IInv, TypeOK, RetriesAreCounted, Connecting, Restore, CheckOnce,
        Served, Reachable, retryVars
<1>15. CASE StartTasks
    BY <1>15
    DEF IInv, TypeOK, RetriesAreCounted, Connecting, StartTasks, retryVars
<1>16. CASE StopMonitor
    BY <1>16
    DEF IInv, TypeOK, RetriesAreCounted, Connecting, StopMonitor, Cancelled,
        retryVars
<1>17. CASE Close
    BY <1>17
    DEF IInv, TypeOK, RetriesAreCounted, Connecting, Close, Fresh, retryVars
<1>18. CASE Shutdown
    BY <1>18
    DEF IInv, TypeOK, RetriesAreCounted, Connecting, Shutdown, Cancelled,
        retryVars
<1>19. CASE Exit
    BY <1>19
    DEF IInv, TypeOK, RetriesAreCounted, Connecting, Exit, Fresh, retryVars
<1>20. QED
    BY <1>1, <1>2, <1>3, <1>4, <1>5, <1>6, <1>7, <1>8, <1>9, <1>10, <1>11,
        <1>12, <1>13, <1>14, <1>15, <1>16, <1>17, <1>18, <1>19
    DEF Next, Lifespan, Background, vars, Flip, MonitorWakes, others,
        MonitorChecks, CheckOnce, Served, Reachable, MonitorBackupEnds,
        BackupTaskSteps, ValidationEnds, Overview, envVars, retryVars,
        stateVars, taskVars

LEMMA WaitsAreCappedStep == IInv /\ [Next]_vars => WaitsAreCapped'
PROOF
<1> SUFFICES ASSUME IInv, [Next]_vars PROVE WaitsAreCapped'
    OBVIOUS
<1> USE StartupAssumption, MaxAttemptsType
<1>1. CASE UNCHANGED <<slept, waited>>
    BY <1>1 DEF IInv, TypeOK, WaitsAreCapped
<1>2. CASE Boot
    BY <1>2
    DEF IInv, TypeOK, WaitsAreCapped, Boot, BeginConnect, Fresh
<1>3. CASE HandleFailure
  <2>1. CASE pc' = "lost" /\ UNCHANGED <<tried, name, slept, waited>>
    BY <2>1 DEF IInv, WaitsAreCapped
  <2>2. CASE pc' = "create" /\ ~tried /\ tried' = TRUE /\ UNCHANGED <<slept, waited>>
    BY <2>2 DEF IInv, WaitsAreCapped
  <2>3. CASE BackOff /\ UNCHANGED <<tried, name>>
    BY <2>3, BackOffMeans DEF IInv, WaitsAreCapped
  <2>4. QED
    BY <1>3, <2>1, <2>2, <2>3, HandleFailureMeans DEF IInv
<1>4. CASE NotCreated
    BY <1>4, BackOffMeans DEF IInv, WaitsAreCapped, NotCreated
<1>5. CASE Lost
    BY <1>5
    DEF IInv, TypeOK, WaitsAreCapped, Lost, NextStore, BeginConnect
<1>6. CASE Ping
    BY <1>6
    DEF IInv, TypeOK, WaitsAreCapped, Ping, NextStore, BeginConnect, Reachable
<1>7. QED
    BY <1>1, <1>2, <1>3, <1>4, <1>5, <1>6
    DEF Next, Lifespan, Background, vars, Flip, ConnectFails, Fails, Connect,
        SchemaFails, Migrated, Created, Retry, Attach, Restore, CheckOnce,
        Served, Reachable, StartTasks, StopMonitor, Cancelled, Close, Fresh,
        MonitorWakes, others, MonitorChecks, MonitorBackupEnds,
        BackupTaskSteps, ValidationEnds, Overview, Shutdown, Exit, envVars,
        retryVars, stateVars, taskVars

LEMMA InTheWorksStep == IInv /\ [Next]_vars => InTheWorks'
PROOF
<1> SUFFICES ASSUME IInv, [Next]_vars PROVE InTheWorks'
    OBVIOUS
<1> USE StartupAssumption, MaxAttemptsType
<1>1. CASE UNCHANGED <<conf, pc, which, pool, kind, migrated>>
    BY <1>1 DEF IInv, TypeOK, Outcomes, InTheWorks, Stores, Connecting,
        BackupIsNext
<1>2. CASE Boot
    BY <1>2
    DEF IInv, TypeOK, Outcomes, InTheWorks, Stores, Connecting, BackupIsNext,
        Boot, BeginConnect, Fresh
<1>3. CASE ConnectFails
    BY <1>3
    DEF IInv, TypeOK, Outcomes, InTheWorks, Stores, Connecting, BackupIsNext,
        ConnectFails, Fails, envVars
<1>4. CASE Connect
    BY <1>4
    DEF IInv, TypeOK, Outcomes, InTheWorks, Stores, Connecting, BackupIsNext,
        Connect, envVars, retryVars
<1>5. CASE SchemaFails
    BY <1>5
    DEF IInv, TypeOK, Outcomes, InTheWorks, Stores, Connecting, BackupIsNext,
        SchemaFails, Fails, envVars
<1>6. CASE Migrated
    BY <1>6
    DEF IInv, TypeOK, Outcomes, InTheWorks, Stores, Connecting, BackupIsNext,
        Migrated, envVars
<1>7. CASE HandleFailure
    BY <1>7
    DEF IInv, TypeOK, Outcomes, InTheWorks, Stores, Connecting, BackupIsNext,
        HandleFailure, BackOff, CanBeCreated, envVars
<1>8. CASE Created
    BY <1>8
    DEF IInv, TypeOK, Outcomes, InTheWorks, Stores, Connecting, BackupIsNext,
        Created
<1>9. CASE NotCreated
    BY <1>9
    DEF IInv, TypeOK, Outcomes, InTheWorks, Stores, Connecting, BackupIsNext,
        NotCreated, BackOff, envVars
<1>10. CASE Retry
    BY <1>10
    DEF IInv, TypeOK, Outcomes, InTheWorks, Stores, Connecting, BackupIsNext,
        Retry, envVars
<1>11. CASE Lost
    BY <1>11
    DEF IInv, TypeOK, Outcomes, InTheWorks, Stores, Connecting, BackupIsNext,
        Lost, NextStore, BeginConnect, envVars
<1>12. CASE Ping
    BY <1>12
    DEF IInv, TypeOK, Outcomes, InTheWorks, Stores, Connecting, BackupIsNext,
        Ping, NextStore, BeginConnect, Reachable, envVars
<1>13. CASE Attach
    BY <1>13
    DEF IInv, TypeOK, Outcomes, InTheWorks, Stores, Connecting, BackupIsNext,
        Attach, envVars, retryVars
<1>14. CASE Restore
    BY <1>14
    DEF IInv, TypeOK, Outcomes, InTheWorks, Stores, Connecting, BackupIsNext,
        Restore, CheckOnce, Served, Reachable, envVars, retryVars
<1>15. CASE StartTasks
    BY <1>15
    DEF IInv, TypeOK, Outcomes, InTheWorks, Stores, Connecting, BackupIsNext,
        StartTasks, envVars, retryVars
<1>16. CASE StopMonitor
    BY <1>16
    DEF IInv, TypeOK, Outcomes, InTheWorks, Stores, Connecting, BackupIsNext,
        StopMonitor, Cancelled, envVars, retryVars
<1>17. CASE Close
    BY <1>17
    DEF IInv, TypeOK, Outcomes, InTheWorks, Stores, Connecting, BackupIsNext,
        Close, Fresh, envVars, retryVars
<1>18. CASE Shutdown
    BY <1>18
    DEF IInv, TypeOK, Outcomes, InTheWorks, Stores, Connecting, BackupIsNext,
        Shutdown, Cancelled, envVars, retryVars
<1>19. CASE Exit
    BY <1>19
    DEF IInv, TypeOK, Outcomes, InTheWorks, Stores, Connecting, BackupIsNext,
        Exit, Fresh, envVars, retryVars
<1>20. QED
    BY <1>1, <1>2, <1>3, <1>4, <1>5, <1>6, <1>7, <1>8, <1>9, <1>10, <1>11,
        <1>12, <1>13, <1>14, <1>15, <1>16, <1>17, <1>18, <1>19
    DEF Next, Lifespan, Background, vars, Flip, MonitorWakes, others,
        MonitorChecks, CheckOnce, Served, Reachable, MonitorBackupEnds,
        BackupTaskSteps, ValidationEnds, Overview, envVars, retryVars,
        stateVars, taskVars

LEMMA BackupIsNextStep == IInv /\ [Next]_vars => BackupIsNext'
PROOF
<1> SUFFICES ASSUME IInv, [Next]_vars PROVE BackupIsNext'
    OBVIOUS
<1> USE StartupAssumption, MaxAttemptsType
<1>1. CASE UNCHANGED <<pc, which, pool, migrated>>
    BY <1>1 DEF IInv, TypeOK, Outcomes, BackupIsNext, InTheWorks, Stores,
        Connecting
<1>2. CASE Boot
    BY <1>2
    DEF IInv, TypeOK, Outcomes, BackupIsNext, InTheWorks, Stores, Connecting,
        Boot, BeginConnect, Fresh
<1>3. CASE ConnectFails
    BY <1>3
    DEF IInv, TypeOK, Outcomes, BackupIsNext, InTheWorks, Stores, Connecting,
        ConnectFails, Fails
<1>4. CASE Connect
    BY <1>4
    DEF IInv, TypeOK, Outcomes, BackupIsNext, InTheWorks, Stores, Connecting,
        Connect, retryVars
<1>5. CASE SchemaFails
    BY <1>5
    DEF IInv, TypeOK, Outcomes, BackupIsNext, InTheWorks, Stores, Connecting,
        SchemaFails, Fails
<1>6. CASE Migrated
    BY <1>6
    DEF IInv, TypeOK, Outcomes, BackupIsNext, InTheWorks, Stores, Connecting,
        Migrated
<1>7. CASE HandleFailure
    BY <1>7
    DEF IInv, TypeOK, Outcomes, BackupIsNext, InTheWorks, Stores, Connecting,
        HandleFailure, BackOff, CanBeCreated
<1>8. CASE Created
    BY <1>8
    DEF IInv, TypeOK, Outcomes, BackupIsNext, InTheWorks, Stores, Connecting,
        Created
<1>9. CASE NotCreated
    BY <1>9
    DEF IInv, TypeOK, Outcomes, BackupIsNext, InTheWorks, Stores, Connecting,
        NotCreated, BackOff
<1>10. CASE Retry
    BY <1>10
    DEF IInv, TypeOK, Outcomes, BackupIsNext, InTheWorks, Stores, Connecting,
        Retry
<1>11. CASE Lost
    BY <1>11
    DEF IInv, TypeOK, Outcomes, BackupIsNext, InTheWorks, Stores, Connecting,
        Lost, NextStore, BeginConnect
<1>12. CASE Ping
    BY <1>12
    DEF IInv, TypeOK, Outcomes, BackupIsNext, InTheWorks, Stores, Connecting,
        Ping, NextStore, BeginConnect, Reachable
<1>13. CASE Attach
    BY <1>13
    DEF IInv, TypeOK, Outcomes, BackupIsNext, InTheWorks, Stores, Connecting,
        Attach, retryVars
<1>14. CASE Restore
    BY <1>14
    DEF IInv, TypeOK, Outcomes, BackupIsNext, InTheWorks, Stores, Connecting,
        Restore, CheckOnce, Served, Reachable, retryVars
<1>15. CASE StartTasks
    BY <1>15
    DEF IInv, TypeOK, Outcomes, BackupIsNext, InTheWorks, Stores, Connecting,
        StartTasks, retryVars
<1>16. CASE StopMonitor
    BY <1>16
    DEF IInv, TypeOK, Outcomes, BackupIsNext, InTheWorks, Stores, Connecting,
        StopMonitor, Cancelled, retryVars
<1>17. CASE Close
    BY <1>17
    DEF IInv, TypeOK, Outcomes, BackupIsNext, InTheWorks, Stores, Connecting,
        Close, Fresh, retryVars
<1>18. CASE Shutdown
    BY <1>18
    DEF IInv, TypeOK, Outcomes, BackupIsNext, InTheWorks, Stores, Connecting,
        Shutdown, Cancelled, retryVars
<1>19. CASE Exit
    BY <1>19
    DEF IInv, TypeOK, Outcomes, BackupIsNext, InTheWorks, Stores, Connecting,
        Exit, Fresh, retryVars
<1>20. QED
    BY <1>1, <1>2, <1>3, <1>4, <1>5, <1>6, <1>7, <1>8, <1>9, <1>10, <1>11,
        <1>12, <1>13, <1>14, <1>15, <1>16, <1>17, <1>18, <1>19
    DEF Next, Lifespan, Background, vars, Flip, MonitorWakes, others,
        MonitorChecks, CheckOnce, Served, Reachable, MonitorBackupEnds,
        BackupTaskSteps, ValidationEnds, Overview, envVars, retryVars,
        stateVars, taskVars

LEMMA StoresAreSettledStep == IInv /\ [Next]_vars => StoresAreSettled'
PROOF
<1> SUFFICES ASSUME IInv, [Next]_vars PROVE StoresAreSettled'
    OBVIOUS
<1> USE StartupAssumption, MaxAttemptsType
<1>1. CASE UNCHANGED <<conf, pc, which, name, pool, kind, migrated>>
    BY <1>1 DEF IInv, TypeOK, Outcomes, InTheWorks, BackupIsNext,
        StoresAreSettled, Settled, Concluded, Beyond, Stores, Connecting, Databases
<1>2. CASE Boot
    BY <1>2
    DEF IInv, TypeOK, Outcomes, InTheWorks, BackupIsNext, StoresAreSettled,
        Settled, Concluded, Beyond, Stores, Connecting, Databases, Boot, BeginConnect, Fresh
<1>3. CASE ConnectFails
    BY <1>3
    DEF IInv, TypeOK, Outcomes, InTheWorks, BackupIsNext, StoresAreSettled,
        Settled, Concluded, Beyond, Stores, Connecting, Databases, ConnectFails, Fails, envVars
<1>4. CASE Connect
    BY <1>4
    DEF IInv, TypeOK, Outcomes, InTheWorks, BackupIsNext, StoresAreSettled,
        Settled, Concluded, Beyond, Stores, Connecting, Databases, Connect, envVars, retryVars
<1>5. CASE SchemaFails
    BY <1>5
    DEF IInv, TypeOK, Outcomes, InTheWorks, BackupIsNext, StoresAreSettled,
        Settled, Concluded, Beyond, Stores, Connecting, Databases, SchemaFails, Fails, envVars
<1>6. CASE Migrated
    BY <1>6
    DEF IInv, TypeOK, Outcomes, InTheWorks, BackupIsNext, StoresAreSettled,
        Settled, Concluded, Beyond, Stores, Connecting, Databases, Migrated, envVars
<1>7. CASE HandleFailure
    BY <1>7
    DEF IInv, TypeOK, Outcomes, InTheWorks, BackupIsNext, StoresAreSettled,
        Settled, Concluded, Beyond, Stores, Connecting, Databases, HandleFailure, BackOff,
        CanBeCreated, envVars
<1>8. CASE Created
    BY <1>8
    DEF IInv, TypeOK, Outcomes, InTheWorks, BackupIsNext, StoresAreSettled,
        Settled, Concluded, Beyond, Stores, Connecting, Databases, Created
<1>9. CASE NotCreated
    BY <1>9
    DEF IInv, TypeOK, Outcomes, InTheWorks, BackupIsNext, StoresAreSettled,
        Settled, Concluded, Beyond, Stores, Connecting, Databases, NotCreated, BackOff, envVars
<1>10. CASE Retry
    BY <1>10
    DEF IInv, TypeOK, Outcomes, InTheWorks, BackupIsNext, StoresAreSettled,
        Settled, Concluded, Beyond, Stores, Connecting, Databases, Retry, envVars
<1>11. CASE Lost
    BY <1>11
    DEF IInv, TypeOK, Outcomes, InTheWorks, BackupIsNext, StoresAreSettled,
        Settled, Concluded, Beyond, Stores, Connecting, Databases, Lost, NextStore, BeginConnect,
        envVars
<1>12. CASE Ping
    BY <1>12
    DEF IInv, TypeOK, Outcomes, InTheWorks, BackupIsNext, StoresAreSettled,
        Settled, Concluded, Beyond, Stores, Connecting, Databases, Ping, NextStore, BeginConnect,
        Reachable, envVars
<1>13. CASE Attach
    BY <1>13
    DEF IInv, TypeOK, Outcomes, InTheWorks, BackupIsNext, StoresAreSettled,
        Settled, Concluded, Beyond, Stores, Connecting, Databases, Attach, envVars, retryVars
<1>14. CASE Restore
    BY <1>14
    DEF IInv, TypeOK, Outcomes, InTheWorks, BackupIsNext, StoresAreSettled,
        Settled, Concluded, Beyond, Stores, Connecting, Databases, Restore, CheckOnce, Served,
        Reachable, envVars, retryVars
<1>15. CASE StartTasks
    BY <1>15
    DEF IInv, TypeOK, Outcomes, InTheWorks, BackupIsNext, StoresAreSettled,
        Settled, Concluded, Beyond, Stores, Connecting, Databases, StartTasks, envVars, retryVars
<1>16. CASE StopMonitor
    BY <1>16
    DEF IInv, TypeOK, Outcomes, InTheWorks, BackupIsNext, StoresAreSettled,
        Settled, Concluded, Beyond, Stores, Connecting, Databases, StopMonitor, Cancelled,
        envVars, retryVars
<1>17. CASE Close
    BY <1>17
    DEF IInv, TypeOK, Outcomes, InTheWorks, BackupIsNext, StoresAreSettled,
        Settled, Concluded, Beyond, Stores, Connecting, Databases, Close, Fresh, envVars,
        retryVars
<1>18. CASE Shutdown
    BY <1>18
    DEF IInv, TypeOK, Outcomes, InTheWorks, BackupIsNext, StoresAreSettled,
        Settled, Concluded, Beyond, Stores, Connecting, Databases, Shutdown, Cancelled, envVars,
        retryVars
<1>19. CASE Exit
    BY <1>19
    DEF IInv, TypeOK, Outcomes, InTheWorks, BackupIsNext, StoresAreSettled,
        Settled, Concluded, Beyond, Stores, Connecting, Databases, Exit, Fresh, envVars,
        retryVars
<1>20. QED
    BY <1>1, <1>2, <1>3, <1>4, <1>5, <1>6, <1>7, <1>8, <1>9, <1>10, <1>11,
        <1>12, <1>13, <1>14, <1>15, <1>16, <1>17, <1>18, <1>19
    DEF Next, Lifespan, Background, vars, Flip, MonitorWakes, others,
        MonitorChecks, CheckOnce, Served, Reachable, MonitorBackupEnds,
        BackupTaskSteps, ValidationEnds, Overview, envVars, retryVars,
        stateVars, taskVars

LEMMA AloneAtFirstStep == IInv /\ [Next]_vars => AloneAtFirst'
PROOF
<1> SUFFICES ASSUME IInv, [Next]_vars PROVE AloneAtFirst'
    OBVIOUS
<1> USE DEF envVars, retryVars, stateVars, taskVars
<1>1. CASE UNCHANGED <<pc, policy, monitor, backupTask, validation>>
    BY <1>1 DEF IInv, TypeOK, Outcomes, AloneAtFirst, TasksStop, Connecting
<1>2. CASE Boot
    BY <1>2
    DEF IInv, TypeOK, Outcomes, AloneAtFirst, TasksStop, Connecting,
        Boot, BeginConnect, Fresh
<1>3. CASE ConnectFails
    BY <1>3
    DEF IInv, TypeOK, Outcomes, AloneAtFirst, TasksStop, Connecting,
        ConnectFails, Fails
<1>4. CASE Connect
    BY <1>4
    DEF IInv, TypeOK, Outcomes, AloneAtFirst, TasksStop, Connecting,
        Connect
<1>5. CASE SchemaFails
    BY <1>5
    DEF IInv, TypeOK, Outcomes, AloneAtFirst, TasksStop, Connecting,
        SchemaFails, Fails
<1>6. CASE Migrated
    BY <1>6
    DEF IInv, TypeOK, Outcomes, AloneAtFirst, TasksStop, Connecting,
        Migrated
<1>7. CASE HandleFailure
    BY <1>7
    DEF IInv, TypeOK, Outcomes, AloneAtFirst, TasksStop, Connecting,
        HandleFailure, BackOff, CanBeCreated
<1>8. CASE Created
    BY <1>8
    DEF IInv, TypeOK, Outcomes, AloneAtFirst, TasksStop, Connecting,
        Created
<1>9. CASE NotCreated
    BY <1>9
    DEF IInv, TypeOK, Outcomes, AloneAtFirst, TasksStop, Connecting,
        NotCreated, BackOff
<1>10. CASE Retry
    BY <1>10
    DEF IInv, TypeOK, Outcomes, AloneAtFirst, TasksStop, Connecting,
        Retry
<1>11. CASE Lost
    BY <1>11
    DEF IInv, TypeOK, Outcomes, AloneAtFirst, TasksStop, Connecting,
        Lost, NextStore, BeginConnect
<1>12. CASE Ping
    BY <1>12
    DEF IInv, TypeOK, Outcomes, AloneAtFirst, TasksStop, Connecting,
        Ping, NextStore, BeginConnect
<1>13. CASE Attach
    BY <1>13
    DEF IInv, TypeOK, Outcomes, AloneAtFirst, TasksStop, Connecting,
        Attach
<1>14. CASE Restore
    BY <1>14
    DEF IInv, TypeOK, Outcomes, AloneAtFirst, TasksStop, Connecting,
        Restore, CheckOnce
<1>15. CASE StartTasks
    BY <1>15
    DEF IInv, TypeOK, Outcomes, AloneAtFirst, TasksStop, Connecting,
        StartTasks
<1>16. CASE StopMonitor
    BY <1>16
    DEF IInv, TypeOK, Outcomes, AloneAtFirst, TasksStop, Connecting,
        StopMonitor, Cancelled
<1>17. CASE Close
    BY <1>17
    DEF IInv, TypeOK, Outcomes, AloneAtFirst, TasksStop, Connecting,
        Close
<1>18. CASE MonitorWakes
    BY <1>18
    DEF IInv, TypeOK, Outcomes, AloneAtFirst, TasksStop, Connecting,
        MonitorWakes, others
<1>19. CASE MonitorChecks
    BY <1>19
    DEF IInv, TypeOK, Outcomes, AloneAtFirst, TasksStop, Connecting,
        MonitorChecks, CheckOnce, others
<1>20. CASE MonitorBackupEnds
    BY <1>20
    DEF IInv, TypeOK, Outcomes, AloneAtFirst, TasksStop, Connecting,
        MonitorBackupEnds, others
<1>21. CASE BackupTaskSteps
    BY <1>21
    DEF IInv, TypeOK, Outcomes, AloneAtFirst, TasksStop, Connecting,
        BackupTaskSteps, others
<1>22. CASE ValidationEnds
    BY <1>22
    DEF IInv, TypeOK, Outcomes, AloneAtFirst, TasksStop, Connecting,
        ValidationEnds, CheckOnce, others
<1>23. CASE Overview
    BY <1>23
    DEF IInv, TypeOK, Outcomes, AloneAtFirst, TasksStop, Connecting,
        Overview, others
<1>24. CASE Shutdown
    BY <1>24
    DEF IInv, TypeOK, Outcomes, AloneAtFirst, TasksStop, Connecting,
        Shutdown, Cancelled
<1>25. CASE Exit
    BY <1>25
    DEF IInv, TypeOK, Outcomes, AloneAtFirst, TasksStop, Connecting,
        Exit
<1>26. QED
    BY <1>1, <1>2, <1>3, <1>4, <1>5, <1>6, <1>7, <1>8, <1>9, <1>10,
       <1>11, <1>12, <1>13, <1>14, <1>15, <1>16, <1>17, <1>18, <1>19,
       <1>20, <1>21, <1>22, <1>23, <1>24, <1>25 DEF Next, Lifespan,
       Background, vars, Flip

LEMMA PrimaryIsTrueStep == IInv /\ [Next]_vars => PrimaryIsTrue'
PROOF
<1> SUFFICES ASSUME IInv, [Next]_vars PROVE PrimaryIsTrue'
    OBVIOUS
<1> USE DEF envVars, retryVars, stateVars, taskVars
<1>1. CASE UNCHANGED <<pc, which, kind, dbOk, policy>>
    BY <1>1 DEF IInv, TypeOK, Outcomes, InTheWorks, BackupIsNext, AloneAtFirst, PrimaryIsTrue, Connecting, Stores
<1>2. CASE Boot
    BY <1>2
    DEF IInv, TypeOK, Outcomes, InTheWorks, BackupIsNext,
        AloneAtFirst, PrimaryIsTrue, Connecting, Stores, Boot,
        BeginConnect, Fresh
<1>3. CASE ConnectFails
    BY <1>3
    DEF IInv, TypeOK, Outcomes, InTheWorks, BackupIsNext,
        AloneAtFirst, PrimaryIsTrue, Connecting, Stores, ConnectFails,
        Fails
<1>4. CASE Connect
    BY <1>4
    DEF IInv, TypeOK, Outcomes, InTheWorks, BackupIsNext,
        AloneAtFirst, PrimaryIsTrue, Connecting, Stores, Connect
<1>5. CASE SchemaFails
    BY <1>5
    DEF IInv, TypeOK, Outcomes, InTheWorks, BackupIsNext,
        AloneAtFirst, PrimaryIsTrue, Connecting, Stores, SchemaFails,
        Fails
<1>6. CASE Migrated
    BY <1>6
    DEF IInv, TypeOK, Outcomes, InTheWorks, BackupIsNext,
        AloneAtFirst, PrimaryIsTrue, Connecting, Stores, Migrated
<1>7. CASE HandleFailure
    BY <1>7
    DEF IInv, TypeOK, Outcomes, InTheWorks, BackupIsNext,
        AloneAtFirst, PrimaryIsTrue, Connecting, Stores, HandleFailure,
        BackOff, CanBeCreated
<1>8. CASE Created
    BY <1>8
    DEF IInv, TypeOK, Outcomes, InTheWorks, BackupIsNext,
        AloneAtFirst, PrimaryIsTrue, Connecting, Stores, Created
<1>9. CASE NotCreated
    BY <1>9
    DEF IInv, TypeOK, Outcomes, InTheWorks, BackupIsNext,
        AloneAtFirst, PrimaryIsTrue, Connecting, Stores, NotCreated,
        BackOff
<1>10. CASE Retry
    BY <1>10
    DEF IInv, TypeOK, Outcomes, InTheWorks, BackupIsNext,
        AloneAtFirst, PrimaryIsTrue, Connecting, Stores, Retry
<1>11. CASE Lost
    BY <1>11
    DEF IInv, TypeOK, Outcomes, InTheWorks, BackupIsNext,
        AloneAtFirst, PrimaryIsTrue, Connecting, Stores, Lost, NextStore,
        BeginConnect
<1>12. CASE Ping
    BY <1>12
    DEF IInv, TypeOK, Outcomes, InTheWorks, BackupIsNext,
        AloneAtFirst, PrimaryIsTrue, Connecting, Stores, Ping, NextStore,
        BeginConnect
<1>13. CASE Attach
    BY <1>13
    DEF IInv, TypeOK, Outcomes, InTheWorks, BackupIsNext,
        AloneAtFirst, PrimaryIsTrue, Connecting, Stores, Attach
<1>14. CASE Restore
    BY <1>14
    DEF IInv, TypeOK, Outcomes, InTheWorks, BackupIsNext,
        AloneAtFirst, PrimaryIsTrue, Connecting, Stores, Restore,
        CheckOnce
<1>15. CASE StartTasks
    BY <1>15
    DEF IInv, TypeOK, Outcomes, InTheWorks, BackupIsNext,
        AloneAtFirst, PrimaryIsTrue, Connecting, Stores, StartTasks
<1>16. CASE StopMonitor
    BY <1>16
    DEF IInv, TypeOK, Outcomes, InTheWorks, BackupIsNext,
        AloneAtFirst, PrimaryIsTrue, Connecting, Stores, StopMonitor,
        Cancelled
<1>17. CASE Close
    BY <1>17
    DEF IInv, TypeOK, Outcomes, InTheWorks, BackupIsNext,
        AloneAtFirst, PrimaryIsTrue, Connecting, Stores, Close
<1>18. CASE MonitorWakes
    BY <1>18
    DEF IInv, TypeOK, Outcomes, InTheWorks, BackupIsNext,
        AloneAtFirst, PrimaryIsTrue, Connecting, Stores, MonitorWakes,
        others
<1>19. CASE MonitorChecks
    BY <1>19
    DEF IInv, TypeOK, Outcomes, InTheWorks, BackupIsNext,
        AloneAtFirst, PrimaryIsTrue, Connecting, Stores, MonitorChecks,
        CheckOnce, others
<1>20. CASE MonitorBackupEnds
    BY <1>20
    DEF IInv, TypeOK, Outcomes, InTheWorks, BackupIsNext,
        AloneAtFirst, PrimaryIsTrue, Connecting, Stores,
        MonitorBackupEnds, others
<1>21. CASE BackupTaskSteps
    BY <1>21
    DEF IInv, TypeOK, Outcomes, InTheWorks, BackupIsNext,
        AloneAtFirst, PrimaryIsTrue, Connecting, Stores, BackupTaskSteps,
        others
<1>22. CASE ValidationEnds
    BY <1>22
    DEF IInv, TypeOK, Outcomes, InTheWorks, BackupIsNext,
        AloneAtFirst, PrimaryIsTrue, Connecting, Stores, ValidationEnds,
        CheckOnce, others
<1>23. CASE Overview
    BY <1>23
    DEF IInv, TypeOK, Outcomes, InTheWorks, BackupIsNext,
        AloneAtFirst, PrimaryIsTrue, Connecting, Stores, Overview, others
<1>24. CASE Shutdown
    BY <1>24
    DEF IInv, TypeOK, Outcomes, InTheWorks, BackupIsNext,
        AloneAtFirst, PrimaryIsTrue, Connecting, Stores, Shutdown,
        Cancelled
<1>25. CASE Exit
    BY <1>25
    DEF IInv, TypeOK, Outcomes, InTheWorks, BackupIsNext,
        AloneAtFirst, PrimaryIsTrue, Connecting, Stores, Exit
<1>26. QED
    BY <1>1, <1>2, <1>3, <1>4, <1>5, <1>6, <1>7, <1>8, <1>9, <1>10,
       <1>11, <1>12, <1>13, <1>14, <1>15, <1>16, <1>17, <1>18, <1>19,
       <1>20, <1>21, <1>22, <1>23, <1>24, <1>25 DEF Next, Lifespan,
       Background, vars, Flip

LEMMA ManagerIsTrueStep == IInv /\ [Next]_vars => ManagerIsTrue'
PROOF
<1> SUFFICES ASSUME IInv, [Next]_vars PROVE ManagerIsTrue'
    OBVIOUS
<1> USE DEF envVars, retryVars, stateVars, taskVars
<1>1. CASE UNCHANGED <<conf, pc, which, kind, manager>>
    BY <1>1 DEF IInv, TypeOK, Outcomes, InTheWorks, BackupIsNext, ManagerIsTrue, Concluded, Beyond, Connecting, Stores
<1>2. CASE Boot
    BY <1>2
    DEF IInv, TypeOK, Outcomes, InTheWorks, BackupIsNext,
        ManagerIsTrue, Concluded, Beyond, Connecting, Stores, Boot,
        BeginConnect, Fresh
<1>3. CASE ConnectFails
    BY <1>3
    DEF IInv, TypeOK, Outcomes, InTheWorks, BackupIsNext,
        ManagerIsTrue, Concluded, Beyond, Connecting, Stores,
        ConnectFails, Fails
<1>4. CASE Connect
    BY <1>4
    DEF IInv, TypeOK, Outcomes, InTheWorks, BackupIsNext,
        ManagerIsTrue, Concluded, Beyond, Connecting, Stores, Connect
<1>5. CASE SchemaFails
    BY <1>5
    DEF IInv, TypeOK, Outcomes, InTheWorks, BackupIsNext,
        ManagerIsTrue, Concluded, Beyond, Connecting, Stores, SchemaFails,
        Fails
<1>6. CASE Migrated
    BY <1>6
    DEF IInv, TypeOK, Outcomes, InTheWorks, BackupIsNext,
        ManagerIsTrue, Concluded, Beyond, Connecting, Stores, Migrated
<1>7. CASE HandleFailure
    BY <1>7
    DEF IInv, TypeOK, Outcomes, InTheWorks, BackupIsNext,
        ManagerIsTrue, Concluded, Beyond, Connecting, Stores,
        HandleFailure, BackOff, CanBeCreated
<1>8. CASE Created
    BY <1>8
    DEF IInv, TypeOK, Outcomes, InTheWorks, BackupIsNext,
        ManagerIsTrue, Concluded, Beyond, Connecting, Stores, Created
<1>9. CASE NotCreated
    BY <1>9
    DEF IInv, TypeOK, Outcomes, InTheWorks, BackupIsNext,
        ManagerIsTrue, Concluded, Beyond, Connecting, Stores, NotCreated,
        BackOff
<1>10. CASE Retry
    BY <1>10
    DEF IInv, TypeOK, Outcomes, InTheWorks, BackupIsNext,
        ManagerIsTrue, Concluded, Beyond, Connecting, Stores, Retry
<1>11. CASE Lost
    BY <1>11
    DEF IInv, TypeOK, Outcomes, InTheWorks, BackupIsNext,
        ManagerIsTrue, Concluded, Beyond, Connecting, Stores, Lost,
        NextStore, BeginConnect
<1>12. CASE Ping
    BY <1>12
    DEF IInv, TypeOK, Outcomes, InTheWorks, BackupIsNext,
        ManagerIsTrue, Concluded, Beyond, Connecting, Stores, Ping,
        NextStore, BeginConnect
<1>13. CASE Attach
    BY <1>13
    DEF IInv, TypeOK, Outcomes, InTheWorks, BackupIsNext,
        ManagerIsTrue, Concluded, Beyond, Connecting, Stores, Attach
<1>14. CASE Restore
    BY <1>14
    DEF IInv, TypeOK, Outcomes, InTheWorks, BackupIsNext,
        ManagerIsTrue, Concluded, Beyond, Connecting, Stores, Restore,
        CheckOnce
<1>15. CASE StartTasks
    BY <1>15
    DEF IInv, TypeOK, Outcomes, InTheWorks, BackupIsNext,
        ManagerIsTrue, Concluded, Beyond, Connecting, Stores, StartTasks
<1>16. CASE StopMonitor
    BY <1>16
    DEF IInv, TypeOK, Outcomes, InTheWorks, BackupIsNext,
        ManagerIsTrue, Concluded, Beyond, Connecting, Stores, StopMonitor,
        Cancelled
<1>17. CASE Close
    BY <1>17
    DEF IInv, TypeOK, Outcomes, InTheWorks, BackupIsNext,
        ManagerIsTrue, Concluded, Beyond, Connecting, Stores, Close
<1>18. CASE MonitorWakes
    BY <1>18
    DEF IInv, TypeOK, Outcomes, InTheWorks, BackupIsNext,
        ManagerIsTrue, Concluded, Beyond, Connecting, Stores,
        MonitorWakes, others
<1>19. CASE MonitorChecks
    BY <1>19
    DEF IInv, TypeOK, Outcomes, InTheWorks, BackupIsNext,
        ManagerIsTrue, Concluded, Beyond, Connecting, Stores,
        MonitorChecks, CheckOnce, others
<1>20. CASE MonitorBackupEnds
    BY <1>20
    DEF IInv, TypeOK, Outcomes, InTheWorks, BackupIsNext,
        ManagerIsTrue, Concluded, Beyond, Connecting, Stores,
        MonitorBackupEnds, others
<1>21. CASE BackupTaskSteps
    BY <1>21
    DEF IInv, TypeOK, Outcomes, InTheWorks, BackupIsNext,
        ManagerIsTrue, Concluded, Beyond, Connecting, Stores,
        BackupTaskSteps, others
<1>22. CASE ValidationEnds
    BY <1>22
    DEF IInv, TypeOK, Outcomes, InTheWorks, BackupIsNext,
        ManagerIsTrue, Concluded, Beyond, Connecting, Stores,
        ValidationEnds, CheckOnce, others
<1>23. CASE Overview
    BY <1>23
    DEF IInv, TypeOK, Outcomes, InTheWorks, BackupIsNext,
        ManagerIsTrue, Concluded, Beyond, Connecting, Stores, Overview,
        others
<1>24. CASE Shutdown
    BY <1>24
    DEF IInv, TypeOK, Outcomes, InTheWorks, BackupIsNext,
        ManagerIsTrue, Concluded, Beyond, Connecting, Stores, Shutdown,
        Cancelled
<1>25. CASE Exit
    BY <1>25
    DEF IInv, TypeOK, Outcomes, InTheWorks, BackupIsNext,
        ManagerIsTrue, Concluded, Beyond, Connecting, Stores, Exit
<1>26. QED
    BY <1>1, <1>2, <1>3, <1>4, <1>5, <1>6, <1>7, <1>8, <1>9, <1>10,
       <1>11, <1>12, <1>13, <1>14, <1>15, <1>16, <1>17, <1>18, <1>19,
       <1>20, <1>21, <1>22, <1>23, <1>24, <1>25 DEF Next, Lifespan,
       Background, vars, Flip

LEMMA TasksStopStep == IInv /\ [Next]_vars => TasksStop'
PROOF
<1> SUFFICES ASSUME IInv, [Next]_vars PROVE TasksStop'
    OBVIOUS
<1> USE StartupAssumption, MaxAttemptsType
<1>1. CASE UNCHANGED <<pc, monitor, backupTask>>
    BY <1>1 DEF IInv, TypeOK, TasksStop, Booting, Stopping, Connecting
<1>2. CASE Boot
    BY <1>2
    DEF IInv, TypeOK, TasksStop, Booting, Stopping, Connecting, Boot,
        BeginConnect, Fresh
<1>3. CASE ConnectFails
    BY <1>3
    DEF IInv, TypeOK, TasksStop, Booting, Stopping, Connecting, ConnectFails,
        Fails, taskVars
<1>4. CASE Connect
    BY <1>4
    DEF IInv, TypeOK, TasksStop, Booting, Stopping, Connecting, Connect,
        taskVars
<1>5. CASE SchemaFails
    BY <1>5
    DEF IInv, TypeOK, TasksStop, Booting, Stopping, Connecting, SchemaFails,
        Fails, taskVars
<1>6. CASE Migrated
    BY <1>6
    DEF IInv, TypeOK, TasksStop, Booting, Stopping, Connecting, Migrated,
        taskVars
<1>7. CASE HandleFailure
    BY <1>7
    DEF IInv, TypeOK, TasksStop, Booting, Stopping, Connecting, HandleFailure,
        BackOff, CanBeCreated, taskVars
<1>8. CASE Created
    BY <1>8
    DEF IInv, TypeOK, TasksStop, Booting, Stopping, Connecting, Created,
        taskVars
<1>9. CASE NotCreated
    BY <1>9
    DEF IInv, TypeOK, TasksStop, Booting, Stopping, Connecting, NotCreated,
        BackOff, taskVars
<1>10. CASE Retry
    BY <1>10
    DEF IInv, TypeOK, TasksStop, Booting, Stopping, Connecting, Retry,
        taskVars
<1>11. CASE Lost
    BY <1>11
    DEF IInv, TypeOK, TasksStop, Booting, Stopping, Connecting, Lost,
        NextStore, BeginConnect, taskVars
<1>12. CASE Ping
    BY <1>12
    DEF IInv, TypeOK, TasksStop, Booting, Stopping, Connecting, Ping,
        NextStore, BeginConnect, Reachable, taskVars
<1>13. CASE Attach
    BY <1>13
    DEF IInv, TypeOK, TasksStop, Booting, Stopping, Connecting, Attach,
        taskVars
<1>14. CASE Restore
    BY <1>14
    DEF IInv, TypeOK, TasksStop, Booting, Stopping, Connecting, Restore,
        CheckOnce, Served, Reachable
<1>15. CASE StartTasks
    BY <1>15
    DEF IInv, TypeOK, TasksStop, Booting, Stopping, Connecting, StartTasks
<1>16. CASE StopMonitor
    BY <1>16
    DEF IInv, TypeOK, TasksStop, Booting, Stopping, Connecting, StopMonitor,
        Cancelled
<1>17. CASE Close
    BY <1>17
    DEF IInv, TypeOK, TasksStop, Booting, Stopping, Connecting, Close, Fresh,
        taskVars
<1>18. CASE MonitorWakes
    BY <1>18
    DEF IInv, TypeOK, TasksStop, Booting, Stopping, Connecting, MonitorWakes,
        others
<1>19. CASE MonitorChecks
    BY <1>19
    DEF IInv, TypeOK, TasksStop, Booting, Stopping, Connecting, MonitorChecks,
        CheckOnce, Served, Reachable, others
<1>20. CASE MonitorBackupEnds
    BY <1>20
    DEF IInv, TypeOK, TasksStop, Booting, Stopping, Connecting,
        MonitorBackupEnds, others
<1>21. CASE BackupTaskSteps
    BY <1>21
    DEF IInv, TypeOK, TasksStop, Booting, Stopping, Connecting,
        BackupTaskSteps, others
<1>22. CASE Shutdown
    BY <1>22
    DEF IInv, TypeOK, TasksStop, Booting, Stopping, Connecting, Shutdown,
        Cancelled
<1>23. CASE Exit
    BY <1>23
    DEF IInv, TypeOK, TasksStop, Booting, Stopping, Connecting, Exit, Fresh
<1>24. QED
    BY <1>1, <1>2, <1>3, <1>4, <1>5, <1>6, <1>7, <1>8, <1>9, <1>10, <1>11,
        <1>12, <1>13, <1>14, <1>15, <1>16, <1>17, <1>18, <1>19, <1>20, <1>21,
        <1>22, <1>23
    DEF Next, Lifespan, Background, vars, Flip, ValidationEnds, CheckOnce,
        Served, Reachable, others, Overview, envVars, retryVars, stateVars,
        taskVars

-----------------------------------------------------------------------------
(* The theorems.                                                           *)

LEMMA InitInvariant == Init => IInv
PROOF
<1> SUFFICES ASSUME Init PROVE IInv
    OBVIOUS
<1> USE StartupAssumption, MaxAttemptsType
<1>1. TypeOK
  <2>1. 0 \in 0..MaxFlips /\ 0 \in 0..MaxBoots /\ 1 \in 1..MaxAttempts
        /\ 0 \in 0..(MaxAttempts - 1)
    OBVIOUS
  <2>2. dbs \in [Stores -> SUBSET Databases] /\ conf \in Config
    BY DEF Init, Databases
  <2>3. QED
    BY <2>1, <2>2 DEF Init, TypeOK, Stores, Kinds, Databases, Fresh
<1>2. RetriesAreCounted /\ TasksStop
    BY DEF Init, RetriesAreCounted, TasksStop, Connecting
<1>3. WaitsAreCapped
    BY DEF Init, WaitsAreCapped
<1>4. Outcomes
    BY DEF Init, Outcomes, InTheWorks, BackupIsNext, StoresAreSettled, Concluded, Beyond,
        AloneAtFirst, PrimaryIsTrue, ManagerIsTrue, Connecting
<1>5. QED
    BY <1>1, <1>2, <1>3, <1>4 DEF IInv

(* The invariant holds in every reachable state.                           *)
THEOREM Invariant == Spec => []IInv
PROOF
<1>1. Init => IInv
    BY InitInvariant
<1>2. IInv /\ [Next]_vars => IInv'
    BY TypeOKStep, RetriesAreCountedStep, WaitsAreCappedStep, InTheWorksStep,
       BackupIsNextStep, StoresAreSettledStep, AloneAtFirstStep,
       PrimaryIsTrueStep, ManagerIsTrueStep, TasksStopStep DEF IInv, Outcomes
<1>3. QED
    BY <1>1, <1>2, PTL DEF Spec

(* Attempts stay within the policy's, and every task is at a point of its  *)
(* code.                                                                   *)
THEOREM TypeCorrect == Spec => []TypeOK
PROOF
<1>1. IInv => TypeOK
    BY DEF IInv
<1>2. QED
    BY <1>1, Invariant, PTL

(* Whatever the servers do, connect_and_init pauses once for every attempt *)
(* but the first and the one after CREATE DATABASE, for at most the cap.   *)
THEOREM RetriesStayBounded == Spec => []RetriesAreBounded
PROOF
<1>1. IInv => RetriesAreBounded
    BY StartupAssumption, MaxAttemptsType
    DEF IInv, TypeOK, RetriesAreCounted, WaitsAreCapped, RetriesAreBounded
<1>2. QED
    BY <1>1, Invariant, PTL

(* A configured store reported as good has the pool and the schema of the  *)
(* database its DSN now names, one reported as failed has neither; the     *)
(* backup manager follows the backup store's outcome, and a tool policy is *)
(* only over a good primary.                                               *)
THEOREM OutcomesAreTrue == Spec => []OutcomeIsTrue
PROOF
<1>1. IInv => OutcomeIsTrue
    BY DEF IInv, Outcomes, InTheWorks, StoresAreSettled, PrimaryIsTrue, ManagerIsTrue,
        Settled, OutcomeIsTrue
<1>2. QED
    BY <1>1, Invariant, PTL

(* A shutdown closes no store under the startup backup or the monitor.     *)
THEOREM ShutdownIsOrderly == Spec => []StoresOutliveTasks
PROOF
<1>1. IInv => StoresOutliveTasks
    BY DEF IInv, TasksStop, StoresOutliveTasks, Working
<1>2. QED
    BY <1>1, Invariant, PTL
=============================================================================
