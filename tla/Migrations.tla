----------------------------- MODULE Migrations -----------------------------
(***************************************************************************)
(* The migration runner of app/db.py on an engine whose statements commit  *)
(* one by one (Postgres, CockroachDB, MySQL).  Several runners of          *)
(* init_schema share the table schema_migrations; the row of a version is  *)
(* first a claim (a unique token, applied_at NULL) and then, once its DDL  *)
(* ran, the record that the version is applied.                            *)
(*                                                                         *)
(* Every awaited SQL statement is one action, so runners interleave        *)
(* between any two of them.  Statements can fail, with or without having   *)
(* taken effect on the server; a process can be killed anywhere; a runner  *)
(* that failed or was restarted runs init_schema again with new tokens.    *)
(***************************************************************************)
EXTENDS Integers

CONSTANTS
    Inst,            \* concurrent runners of init_schema (gateway processes)
    NVersions,       \* migrations, in order (7 in the code)
    NStmts,          \* DDL statements of each migration
    MaxRuns,         \* bound: how often one runner starts init_schema
    Faults,          \* TRUE: statements may fail and processes may be killed
    OwnersAreFast    \* TRUE: a waiter's deadline only passes on the claim of
                     \* a runner that is gone (no DDL takes 60 s)

ASSUME MigrationsAssumption ==
    /\ NVersions \in Nat \ {0}
    /\ NStmts \in Nat \ {0}
    /\ MaxRuns \in Nat
    /\ Faults \in BOOLEAN
    /\ OwnersAreFast \in BOOLEAN

VARIABLES
    row,      \* row[v]: the row of version v in schema_migrations
    schema,   \* schema[v]: the DDL statements of v the database has run
    pc,       \* pc[i]: where runner i is in _apply_migrations
    ver,      \* ver[i]: the version runner i works on
    pos,      \* pos[i]: the next DDL statement runner i will run
    late,     \* late[i]: i has waited _MIGRATION_CLAIM_WAIT_SECONDS for ver[i]
    seen,     \* seen[i]: the stale token i read before take_over
    run       \* run[i]: how often i started, part of its claim tokens

vars == <<row, schema, pc, ver, pos, late, seen, run>>

Versions == 1..NVersions
Stmts == 1..NStmts
Tokens == Inst \X (0..MaxRuns)

NoRow == [st |-> "absent"]
Applied == [st |-> "applied"]
Claimed(t) == [st |-> "claimed", owner |-> t]
Rows == {NoRow, Applied} \cup {Claimed(t) : t \in Tokens}

\* _claim_marker: a token no other run of init_schema ever uses.
Token(i) == <<i, run[i]>>
Mine(i) == row[ver[i]] = Claimed(Token(i))

Idle == {"off", "failed", "done"}
Claiming == {"claim", "read", "takeover", "reread"}
Running == {"ddl"}
PCs == Idle \cup Claiming \cup Running \cup {"release"}

\* Every row of schema_migrations is free, claimed by one runner's start or
\* settled, and every runner is at a point of _apply_migrations.
TypeOK ==
    /\ row \in [Versions -> Rows]
    /\ schema \in [Versions -> SUBSET Stmts]
    /\ pc \in [Inst -> PCs]
    /\ ver \in [Inst -> Versions]
    /\ pos \in [Inst -> 1..(NStmts + 1)]
    /\ late \in [Inst -> BOOLEAN]
    /\ seen \in [Inst -> Tokens]
    /\ run \in [Inst -> 0..MaxRuns]

Init ==
    /\ row = [v \in Versions |-> NoRow]
    /\ schema = [v \in Versions |-> {}]
    /\ pc = [i \in Inst |-> "off"]
    /\ ver = [i \in Inst |-> 1]
    /\ pos = [i \in Inst |-> 1]
    /\ late = [i \in Inst |-> FALSE]
    /\ seen = [i \in Inst |-> <<i, 0>>]
    /\ run = [i \in Inst |-> 0]

Goto(i, there) == pc' = [pc EXCEPT ![i] = there]

\* The statement took effect; its reply arrives, or the connection is lost
\* and the exception takes the runner to `handler`.
GotoOrLost(i, there, handler) ==
    Goto(i, there) \/ (Faults /\ Goto(i, handler))

\* The loop of _apply_migrations moves to the next version, or returns.
StartVersion(i, v) ==
    /\ ver' = [ver EXCEPT ![i] = v]
    /\ pos' = [pos EXCEPT ![i] = 1]
    /\ late' = [late EXCEPT ![i] = FALSE]

Advance(i) ==
    IF ver[i] = NVersions
    THEN Goto(i, "done") /\ UNCHANGED <<ver, pos, late>>
    ELSE Goto(i, "claim") /\ StartVersion(i, ver[i] + 1)

-----------------------------------------------------------------------------
(* A boot, a restart, or the next attempt of connect_and_init.             *)
Boot(i) ==
    /\ pc[i] \in Idle
    /\ run[i] < MaxRuns
    /\ run' = [run EXCEPT ![i] = @ + 1]
    /\ Goto(i, "claim")
    /\ StartVersion(i, 1)
    /\ UNCHANGED <<row, schema, seen>>

\* Seeded fault: the deadline is computed inside the polling loop.
InsertClaimResettingDeadline(i) ==
    /\ pc[i] = "claim"
    /\ row' = IF row[ver[i]] = NoRow
              THEN [row EXCEPT ![ver[i]] = Claimed(Token(i))] ELSE row
    /\ late' = [late EXCEPT ![i] = FALSE]
    /\ GotoOrLost(i, "read", "failed")
    /\ UNCHANGED <<schema, ver, pos, seen, run>>

(* insert_claim: INSERT ... ON CONFLICT DO NOTHING.                        *)
InsertClaim(i) ==
    /\ pc[i] = "claim"
    /\ row' = IF row[ver[i]] = NoRow
              THEN [row EXCEPT ![ver[i]] = Claimed(Token(i))] ELSE row
    /\ GotoOrLost(i, "read", "failed")
    /\ UNCHANGED <<schema, ver, pos, late, seen, run>>

(* read_claim and everything _claim_version decides from it without        *)
(* awaiting: own it, skip an applied version, poll again, take a claim     *)
(* over after the deadline, or give up.                                    *)
OwnClaim(i) ==
    /\ pc[i] = "read"
    /\ Mine(i)
    /\ Goto(i, "ddl")
    /\ UNCHANGED <<row, schema, ver, pos, late, seen, run>>

\* Seeded fault: any foreign claim is taken for an applied version.
SkipForeign(i) ==
    /\ pc[i] = "read"
    /\ ~Mine(i) /\ row[ver[i]] # NoRow
    /\ Advance(i)
    /\ UNCHANGED <<row, schema, seen, run>>

SkipApplied(i) ==
    /\ pc[i] = "read"
    /\ row[ver[i]] = Applied
    /\ Advance(i)
    /\ UNCHANGED <<row, schema, seen, run>>

PollAgain(i) ==
    /\ pc[i] = "read"
    /\ ~Mine(i) /\ row[ver[i]] # Applied
    /\ ~late[i]
    /\ Goto(i, "claim")
    /\ UNCHANGED <<row, schema, ver, pos, late, seen, run>>

FindStale(i) ==
    /\ pc[i] = "read"
    /\ late[i]
    /\ row[ver[i]].st = "claimed"
    /\ ~Mine(i)
    /\ seen' = [seen EXCEPT ![i] = row[ver[i]].owner]
    /\ Goto(i, "takeover")
    /\ UNCHANGED <<row, schema, ver, pos, late, run>>

GiveUpUnclaimed(i) ==
    /\ pc[i] = "read"
    /\ late[i]
    /\ row[ver[i]] = NoRow
    /\ Goto(i, "failed")
    /\ UNCHANGED <<row, schema, ver, pos, late, seen, run>>

\* Seeded fault: take_over without its WHERE clause on the stale token.
TakeOverBlindly(i) ==
    /\ pc[i] = "takeover"
    /\ row' = [row EXCEPT ![ver[i]] = Claimed(Token(i))]
    /\ GotoOrLost(i, "reread", "failed")
    /\ UNCHANGED <<schema, ver, pos, late, seen, run>>

(* take_over: compare-and-swap of the token that was read.                 *)
TakeOver(i) ==
    /\ pc[i] = "takeover"
    /\ row' = IF row[ver[i]] = Claimed(seen[i])
              THEN [row EXCEPT ![ver[i]] = Claimed(Token(i))] ELSE row
    /\ GotoOrLost(i, "reread", "failed")
    /\ UNCHANGED <<schema, ver, pos, late, seen, run>>

(* The second read_claim: the swap decides, anything else is an error.     *)
TakenOver(i) ==
    /\ pc[i] = "reread"
    /\ Mine(i)
    /\ Goto(i, "ddl")
    /\ UNCHANGED <<row, schema, ver, pos, late, seen, run>>

LostTakeOver(i) ==
    /\ pc[i] = "reread"
    /\ ~Mine(i)
    /\ Goto(i, "failed")
    /\ UNCHANGED <<row, schema, ver, pos, late, seen, run>>

(* io.execute of the next DDL statement, committed on its own.             *)
Execute(i) ==
    /\ pc[i] = "ddl"
    /\ pos[i] <= NStmts
    /\ schema' = [schema EXCEPT ![ver[i]] = @ \cup {pos[i]}]
    /\ pos' = [pos EXCEPT ![i] = @ + 1]
    /\ GotoOrLost(i, "ddl", "release")
    /\ UNCHANGED <<row, ver, late, seen, run>>

\* Seeded fault: the runner settles its claim before the DDL ran.
FinaliseEarly(i) ==
    /\ pc[i] = "ddl"
    /\ \/ Mine(i) /\ row' = [row EXCEPT ![ver[i]] = Applied]
       \/ ~Mine(i) /\ UNCHANGED row
    /\ Advance(i)
    /\ UNCHANGED <<schema, seen, run>>

(* finalise: the claim becomes the record, if it is still this runner's.   *)
Finalise(i) ==
    /\ pc[i] = "ddl"
    /\ pos[i] = NStmts + 1
    /\ row' = IF Mine(i) THEN [row EXCEPT ![ver[i]] = Applied] ELSE row
    /\ \/ Advance(i)
       \/ /\ Faults
          /\ Goto(i, "release")
          /\ UNCHANGED <<ver, pos, late>>
    /\ UNCHANGED <<schema, seen, run>>

(* release after a failed statement: deletes the claim row if it is still  *)
(* this runner's; the DELETE itself may fail, which is only logged.        *)
Release(i) ==
    /\ pc[i] = "release"
    /\ \/ row' = IF Mine(i) THEN [row EXCEPT ![ver[i]] = NoRow] ELSE row
       \/ UNCHANGED row
    /\ Goto(i, "failed")
    /\ UNCHANGED <<schema, ver, pos, late, seen, run>>

(* A statement raises before it took effect.  Only the DDL and finalise    *)
(* are inside the try block that releases the claim.                       *)
StatementFails(i) ==
    /\ Faults
    /\ \/ pc[i] \in Claiming /\ Goto(i, "failed")
       \/ pc[i] \in Running /\ Goto(i, "release")
    /\ UNCHANGED <<row, schema, ver, pos, late, seen, run>>

(* The process is killed: nothing is released.                             *)
Crash(i) ==
    /\ Faults
    /\ pc[i] \notin Idle
    /\ Goto(i, "off")
    /\ UNCHANGED <<row, schema, ver, pos, late, seen, run>>

\* The row is claimed, and the runner that claimed it is gone.
ClaimAbandoned(v) ==
    /\ row[v].st = "claimed"
    /\ \A j \in Inst : row[v] = Claimed(Token(j)) => pc[j] \in Idle

(* time.monotonic() reaches the waiter's deadline.                         *)
DeadlinePasses(i) ==
    /\ pc[i] \in {"claim", "read"}
    /\ ~late[i]
    /\ OwnersAreFast => ClaimAbandoned(ver[i])
    /\ late' = [late EXCEPT ![i] = TRUE]
    /\ UNCHANGED <<row, schema, pc, ver, pos, seen, run>>

Step(i) ==
    \/ InsertClaim(i) \/ OwnClaim(i) \/ SkipApplied(i) \/ PollAgain(i)
    \/ FindStale(i) \/ GiveUpUnclaimed(i)
    \/ TakeOver(i) \/ TakenOver(i) \/ LostTakeOver(i)
    \/ Execute(i) \/ Finalise(i) \/ Release(i)

Next == \E i \in Inst : \/ Boot(i) \/ Step(i) \/ DeadlinePasses(i)
                        \/ StatementFails(i) \/ Crash(i)

Spec == Init /\ [][Next]_vars

(* A runner that can take its next step takes it (one event loop, no step  *)
(* waits on another runner), and the clock reaches every deadline.         *)
FairSpec == Spec /\ \A i \in Inst : WF_vars(Step(i)) /\ WF_vars(DeadlinePasses(i))

-----------------------------------------------------------------------------
(* db.py 58-61: a version counts as applied only once it was settled, and  *)
(* "a crash or a failing statement can never leave a half-applied version  *)
(* behind": whatever was taken over, released or killed in between, an     *)
(* applied version has had every one of its statements run.                *)
AppliedIsComplete ==
    \A v \in Versions : row[v] = Applied => schema[v] = Stmts

(* init_schema returned: the store of this runner is usable, every table   *)
(* of every version exists, even if other runners did the work, if its own *)
(* claims were taken over meanwhile or its finalise changed no row.        *)
ReadyIsMigrated ==
    \A i \in Inst : pc[i] = "done" => \A v \in Versions : schema[v] = Stmts

(* No statement of a version reaches the database before every earlier     *)
(* version is complete (later DDL may refer to earlier tables).            *)
VersionsInOrder ==
    \A v, w \in Versions : w < v /\ schema[v] # {} => schema[w] = Stmts

(* finalise, release and take_over name the token they act on, so a        *)
(* settled version is never claimed, released or run through again.        *)
AppliedIsForever ==
    [][\A v \in Versions : row[v] = Applied => row'[v] = Applied]_row

(* A runner does not poll forever on a claim its owner abandoned: it gets  *)
(* through the list, raises, or is killed.                                 *)
InitSchemaReturns ==
    \A i \in Inst : pc[i] = "claim" ~> pc[i] \in Idle

(* The header: "only the owner runs the statements", and a claim is taken  *)
(* over when its owner died.  Under OwnersAreFast no live runner ever holds*)
(* a claim for the whole wait, so two runners in the DDL of one version    *)
(* would contradict it.                                                    *)
OneRunnerPerVersion ==
    \A i, j \in Inst :
        pc[i] = "ddl" /\ pc[j] = "ddl" /\ ver[i] = ver[j] => i = j

(* The claim protocol implements the ledger: dropping claims, runners and  *)
(* failures, every step is a ledger step or changes nothing.               *)
AppliedVersions == {v \in Versions : row[v] = Applied}
Ledger == INSTANCE MigrationLedger WITH applied <- AppliedVersions
ImplementsLedger == Ledger!LedgerSpec
=============================================================================
