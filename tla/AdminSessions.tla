--------------------------- MODULE AdminSessions ---------------------------
(***************************************************************************)
(* The dashboard's admin sessions (admin_sessions.py) as its login, logout *)
(* and session routes (routes_admin.py) and the monitor's housekeeping use *)
(* them, in several gateway instances that may share a Redis.              *)
(*                                                                         *)
(* A session is in Redis, or in the memory of the instance that issued it  *)
(* when that has no Redis or its SET was not answered.  Every failure of a *)
(* Redis request is swallowed.  A SET or DEL that was not answered may     *)
(* have been executed or not, and a SET may still be on its way when the   *)
(* client has given up waiting (socket_timeout).                           *)
(*                                                                         *)
(* validate() changes nothing but an expired local record, so it is the    *)
(* operator Accepts, which the properties ask in every state, and the      *)
(* action DropExpired.  Session ids and tokens are model values: hashes    *)
(* and fingerprints are taken to be injective.                             *)
(***************************************************************************)
EXTENDS Naturals, FiniteSets

CONSTANTS
    Instances,   \* gateway processes
    Requests,    \* tasks that serve login, logout and revoke-all requests
    Sids,        \* session ids, each drawn at most once
    Tokens,      \* values ADMIN_TOKEN may have
    TTL,         \* SESSION_TTL_HOURS, in ticks
    None,        \* no record, no token, no session
    MaxWait,     \* bound: ticks a SET may take, its timeout being far below TTL
    MaxFaults,   \* bound: Redis requests that are not answered
    MaxBoots     \* bound: restarts of instances

Record == [fp : Tokens, left : 0..TTL]
Places == {"pending", "redis", "fallback", "late", "memory"}
Issue == [token : Tokens, home : Instances, place : Places]

ASSUME AdminSessionsAssumption ==
    /\ Tokens # {} /\ Instances # {} /\ Sids # {}
    /\ None \notin Tokens \cup Sids \cup Instances \cup Record \cup Issue
    /\ TTL \in Nat \ {0}
    /\ MaxWait \in 0..TTL /\ MaxFaults \in Nat /\ MaxBoots \in Nat

VARIABLES
    token,       \* token[i]: the ADMIN_TOKEN i was started with
    shared,      \* shared[i]: i reached Redis when it started
    local,       \* local[i][s]: the _Session of s in i's memory
    redis,       \* redis[s]: the key of s in Redis
    late,        \* SETs still on their way after the client gave up
    pc, at, sid, keys,   \* of each request: step, instance, session, scan
    begun,       \* history: the sessions there were when a revoke-all began
    issued,      \* history: the token, instance and place s was issued with
    age, wait,   \* history: ticks since s's login began; those in the login
    touched,     \* history: sessions somebody began to revoke
    out,         \* history: sessions whose revocation was carried out
    faultsLeft, bootsLeft

vars == <<token, shared, local, redis, late, pc, at, sid, keys, begun, issued, age, wait,
          touched, out, faultsLeft, bootsLeft>>
stores == <<local, redis, late>>
reqs == <<pc, at, sid, keys, begun>>
config == <<token, shared, bootsLeft>>
hist == <<issued, age, wait, touched, out>>

NoRecords == [s \in Sids |-> None]
PCs == {"idle", "set", "del", "scan", "delete"}

\* A Redis key is gone when its time is up, a local record may stay behind.
TypeOK ==
    /\ token \in [Instances -> Tokens] /\ shared \in [Instances -> BOOLEAN]
    /\ local \in [Instances -> [Sids -> Record \cup {None}]]
    /\ redis \in [Sids -> [fp : Tokens, left : 1..TTL] \cup {None}]
    /\ late \subseteq Sids \X Tokens
    /\ pc \in [Requests -> PCs] /\ at \in [Requests -> Instances \cup {None}]
    /\ sid \in [Requests -> Sids \cup {None}]
    /\ keys \in [Requests -> SUBSET Sids] /\ begun \in [Requests -> SUBSET Sids]
    /\ issued \in [Sids -> Issue \cup {None}]
    /\ age \in [Sids -> 0..(TTL + MaxWait)] /\ wait \in [Sids -> 0..MaxWait]
    /\ touched \subseteq Sids /\ out \subseteq Sids
    /\ faultsLeft \in 0..MaxFaults /\ bootsLeft \in 0..MaxBoots

Init ==
    /\ \E t \in Tokens : token = [i \in Instances |-> t]
    /\ shared \in [Instances -> BOOLEAN]
    /\ local = [i \in Instances |-> NoRecords] /\ redis = NoRecords /\ late = {}
    /\ pc = [r \in Requests |-> "idle"]
    /\ at = [r \in Requests |-> None]
    /\ sid = [r \in Requests |-> None]
    /\ keys = [r \in Requests |-> {}] /\ begun = [r \in Requests |-> {}]
    /\ issued = NoRecords
    /\ age = [s \in Sids |-> 0] /\ wait = [s \in Sids |-> 0]
    /\ touched = {} /\ out = {}
    /\ faultsLeft = MaxFaults /\ bootsLeft = MaxBoots

\* s's login has answered: a browser knows s.
Known(s) == issued[s] # None /\ issued[s].place # "pending"

OnItsWay(s) == \E m \in late : m[1] = s

\* A request of r on i, about s or about all (None), comes to a Redis step.
Go(r, i, step, s) ==
    /\ pc' = [pc EXCEPT ![r] = step]
    /\ at' = [at EXCEPT ![r] = i]
    /\ sid' = [sid EXCEPT ![r] = s]

\* The request is answered; what it kept in local variables is gone.
Answer(r) ==
    /\ Go(r, None, "idle", None)
    /\ keys' = [keys EXCEPT ![r] = {}]
    /\ begun' = [begun EXCEPT ![r] = {}]

Fault == faultsLeft > 0 /\ faultsLeft' = faultsLeft - 1

-----------------------------------------------------------------------------
(* validate: Redis decides if it answers and knows the session, otherwise  *)
(* the memory of the instance does.                                        *)

\* Seeded fault: what Redis does not know does not exist.
AcceptsRedisOnly(i, s, answers) ==
    IF shared[i] /\ answers
    THEN redis[s] # None /\ redis[s].fp = token[i]
    ELSE local[i][s] # None /\ local[i][s].left > 0 /\ local[i][s].fp = token[i]

\* Seeded fault: a local record is taken without looking at its age.
AcceptsExpired(i, s, answers) ==
    IF shared[i] /\ answers /\ redis[s] # None
    THEN redis[s].fp = token[i]
    ELSE local[i][s] # None /\ local[i][s].fp = token[i]

\* Seeded fault: any record in Redis will do.
AcceptsAnyToken(i, s, answers) ==
    IF shared[i] /\ answers /\ redis[s] # None
    THEN TRUE
    ELSE local[i][s] # None /\ local[i][s].left > 0 /\ local[i][s].fp = token[i]

\* `answers` says whether Redis answers the GET.
Accepts(i, s, answers) ==
    IF shared[i] /\ answers /\ redis[s] # None
    THEN redis[s].fp = token[i]
    ELSE local[i][s] # None /\ local[i][s].left > 0 /\ local[i][s].fp = token[i]

\* A check that comes to an expired local record removes it.
DropExpired(i, s) ==
    /\ local[i][s] # None /\ local[i][s].left = 0
    /\ local' = [local EXCEPT ![i][s] = None]
    /\ UNCHANGED <<redis, late, reqs, config, hist, faultsLeft>>

\* prune_local, from the monitor's housekeeping.
Prune(i) ==
    /\ \E s \in Sids : local[i][s] # None /\ local[i][s].left = 0
    /\ local' = [local EXCEPT ![i] =
                    [s \in Sids |-> IF @[s] # None /\ @[s].left > 0 THEN @[s] ELSE None]]
    /\ UNCHANGED <<redis, late, reqs, config, hist, faultsLeft>>

-----------------------------------------------------------------------------
(* create, from POST /api/login with the instance's own token.             *)
Keep(i, s) ==
    local' = [local EXCEPT ![i][s] = [fp |-> issued[s].token, left |-> TTL - age[s]]]

Issued(s, place) ==
    /\ issued' = [issued EXCEPT ![s].place = place]
    /\ wait' = [wait EXCEPT ![s] = age[s]]

Login(r, i, s) ==
    /\ pc[r] = "idle" /\ shared[i]
    /\ issued[s] = None
    /\ issued' = [issued EXCEPT ![s] = [token |-> token[i], home |-> i, place |-> "pending"]]
    /\ Go(r, i, "set", s)
    /\ UNCHANGED <<stores, keys, begun, config, age, wait, touched, out, faultsLeft>>

LoginInMemory(i, s) ==
    /\ ~shared[i]
    /\ issued[s] = None
    /\ issued' = [issued EXCEPT ![s] = [token |-> token[i], home |-> i, place |-> "memory"]]
    /\ local' = [local EXCEPT ![i][s] = [fp |-> token[i], left |-> TTL]]
    /\ UNCHANGED <<redis, late, reqs, config, age, wait, touched, out, faultsLeft>>

Put(s, fp) == redis' = [redis EXCEPT ![s] = [fp |-> fp, left |-> TTL]]

SetAnswered(r) ==
    /\ pc[r] = "set"
    /\ Put(sid[r], issued[sid[r]].token)
    /\ Issued(sid[r], "redis")
    /\ Answer(r)
    /\ UNCHANGED <<local, late, config, age, touched, out, faultsLeft>>

\* Not executed, executed, or still to be executed: the record is kept here.
SetFails(r) ==
    LET s == sid[r] IN
    /\ pc[r] = "set"
    /\ Fault
    /\ Keep(at[r], s)
    /\ \/ UNCHANGED <<redis, late>> /\ Issued(s, "fallback")
       \/ Put(s, issued[s].token) /\ UNCHANGED late /\ Issued(s, "fallback")
       \/ late' = late \cup {<<s, issued[s].token>>} /\ UNCHANGED redis /\ Issued(s, "late")
    /\ Answer(r)
    /\ UNCHANGED <<config, age, touched, out>>

LateSet(m) ==
    /\ Put(m[1], m[2])
    /\ late' = late \ {m}
    /\ UNCHANGED <<local, reqs, config, hist, faultsLeft>>

-----------------------------------------------------------------------------
(* revoke and revoke_all, from POST /api/logout and DELETE /api/sessions.  *)

\* An instance that carries out a revocation can reach s: s went into the
\* Redis they share, or s is in its own memory and its SET, if there was one,
\* is not still on its way.
Reaches(i, s) ==
    CASE issued[s].place = "redis" -> shared[i]
      [] issued[s].place \in {"fallback", "late"} ->
            shared[i] /\ issued[s].home = i /\ ~OnItsWay(s)
      [] issued[s].place = "memory" -> issued[s].home = i
      [] OTHER -> FALSE

CarriedOut(i, S) == out' = out \cup {s \in S : Reaches(i, s)}

ForgetLocal(i, S) == local' = [local EXCEPT ![i] = [s \in Sids |-> IF s \in S THEN None ELSE @[s]]]
ForgetRedis(S) == redis' = [s \in Sids |-> IF s \in S THEN None ELSE redis[s]]

Logout(r, i, s) ==
    /\ pc[r] = "idle" /\ shared[i]
    /\ Known(s)
    /\ touched' = touched \cup {s}
    /\ Go(r, i, "del", s)
    /\ UNCHANGED <<stores, keys, begun, config, issued, age, wait, out, faultsLeft>>

LogoutInMemory(i, s) ==
    /\ ~shared[i]
    /\ Known(s)
    /\ touched' = touched \cup {s}
    /\ ForgetLocal(i, {s})
    /\ CarriedOut(i, {s})
    /\ UNCHANGED <<redis, late, reqs, config, issued, age, wait, faultsLeft>>

DelAnswered(r) ==
    /\ pc[r] = "del"
    /\ ForgetRedis({sid[r]})
    /\ ForgetLocal(at[r], {sid[r]})
    /\ CarriedOut(at[r], {sid[r]})
    /\ Answer(r)
    /\ UNCHANGED <<late, config, issued, age, wait, touched, faultsLeft>>

DelFails(r) ==
    /\ pc[r] = "del"
    /\ Fault
    /\ ForgetRedis({sid[r]}) \/ UNCHANGED redis
    /\ ForgetLocal(at[r], {sid[r]})
    /\ Answer(r)
    /\ UNCHANGED <<late, config, issued, age, wait, touched, out>>

RevokeAll(r, i) ==
    /\ pc[r] = "idle" /\ shared[i]
    /\ begun' = [begun EXCEPT ![r] = {s \in Sids : Known(s) /\ ~OnItsWay(s)}]
    /\ touched' = touched \cup {s \in Sids : Known(s)}
    /\ Go(r, i, "scan", None)
    /\ UNCHANGED <<stores, keys, config, issued, age, wait, out, faultsLeft>>

RevokeAllInMemory(i) ==
    /\ ~shared[i]
    /\ \E s \in Sids : local[i][s] # None
    /\ touched' = touched \cup {s \in Sids : Known(s)}
    /\ ForgetLocal(i, Sids)
    /\ CarriedOut(i, {s \in Sids : Known(s)})
    /\ UNCHANGED <<redis, late, reqs, config, issued, age, wait, faultsLeft>>

\* The local records go last, with the answer.  What was issued since the
\* request began may go as well.
ClearLocal(i, found) ==
    /\ ForgetLocal(i, Sids)
    /\ touched' = touched \cup found \cup {s \in Sids : local[i][s] # None}

\* Seeded fault: memory is only cleared when there is no Redis.
ScanKeepingLocal(r) ==
    LET found == {s \in Sids : redis[s] # None} IN
    /\ pc[r] = "scan"
    /\ IF found = {}
       THEN Answer(r) /\ CarriedOut(at[r], begun[r]) /\ UNCHANGED <<local, touched>>
       ELSE /\ pc' = [pc EXCEPT ![r] = "delete"]
            /\ keys' = [keys EXCEPT ![r] = found]
            /\ UNCHANGED <<at, sid, begun, local, touched, out>>
    /\ UNCHANGED <<redis, late, config, issued, age, wait, faultsLeft>>

Scan(r) ==
    LET found == {s \in Sids : redis[s] # None} IN
    /\ pc[r] = "scan"
    /\ IF found = {}
       THEN Answer(r) /\ ClearLocal(at[r], {}) /\ CarriedOut(at[r], begun[r])
       ELSE /\ pc' = [pc EXCEPT ![r] = "delete"]
            /\ keys' = [keys EXCEPT ![r] = found]
            /\ UNCHANGED <<at, sid, begun, local, touched, out>>
    /\ UNCHANGED <<redis, late, config, issued, age, wait, faultsLeft>>

DeleteAnswered(r) ==
    /\ pc[r] = "delete"
    /\ ForgetRedis(keys[r])
    /\ ClearLocal(at[r], keys[r])
    /\ CarriedOut(at[r], begun[r])
    /\ Answer(r)
    /\ UNCHANGED <<late, config, issued, age, wait, faultsLeft>>

RevokeAllFails(r) ==
    /\ pc[r] \in {"scan", "delete"}
    /\ Fault
    /\ ForgetRedis(keys[r]) \/ UNCHANGED redis
    /\ ClearLocal(at[r], keys[r])
    /\ Answer(r)
    /\ UNCHANGED <<late, config, issued, age, wait, out>>

-----------------------------------------------------------------------------
\* An instance is restarted, perhaps with another ADMIN_TOKEN; whether it
\* uses Redis is decided by a ping.  Its requests die, a SET perhaps executed.
Boot(i, t, ping) ==
    LET dying == {r \in Requests : pc[r] # "idle" /\ at[r] = i} IN
    /\ bootsLeft > 0 /\ bootsLeft' = bootsLeft - 1
    /\ token' = [token EXCEPT ![i] = t]
    /\ shared' = [shared EXCEPT ![i] = ping]
    /\ local' = [local EXCEPT ![i] = NoRecords]
    /\ pc' = [r \in Requests |-> IF r \in dying THEN "idle" ELSE pc[r]]
    /\ at' = [r \in Requests |-> IF r \in dying THEN None ELSE at[r]]
    /\ sid' = [r \in Requests |-> IF r \in dying THEN None ELSE sid[r]]
    /\ keys' = [r \in Requests |-> IF r \in dying THEN {} ELSE keys[r]]
    /\ begun' = [r \in Requests |-> IF r \in dying THEN {} ELSE begun[r]]
    /\ late' \in {late, late \cup {<<sid[r], issued[sid[r]].token>> :
                                       r \in {q \in dying : pc[q] = "set"}}}
    /\ UNCHANGED <<redis, hist, faultsLeft>>

Tick ==
    /\ \A r \in Requests : pc[r] = "set" => age[sid[r]] < MaxWait
    /\ redis' = [s \in Sids |-> IF redis[s] # None /\ redis[s].left > 1
                                THEN [redis[s] EXCEPT !.left = @ - 1] ELSE None]
    /\ local' = [i \in Instances |-> [s \in Sids |->
                    IF local[i][s] # None /\ local[i][s].left > 0
                    THEN [local[i][s] EXCEPT !.left = @ - 1] ELSE local[i][s]]]
    /\ age' = [s \in Sids |-> IF issued[s] # None /\ age[s] < TTL + MaxWait
                              THEN age[s] + 1 ELSE age[s]]
    /\ UNCHANGED <<late, reqs, config, issued, wait, touched, out, faultsLeft>>

-----------------------------------------------------------------------------
RedisStep(r) ==
    \/ SetAnswered(r) \/ SetFails(r)
    \/ DelAnswered(r) \/ DelFails(r)
    \/ Scan(r) \/ DeleteAnswered(r) \/ RevokeAllFails(r)

Next ==
    \/ \E r \in Requests, i \in Instances :
          \/ \E s \in Sids : Login(r, i, s) \/ Logout(r, i, s)
          \/ RevokeAll(r, i)
    \/ \E r \in Requests : RedisStep(r)
    \/ \E i \in Instances :
          \/ \E s \in Sids : LoginInMemory(i, s) \/ LogoutInMemory(i, s) \/ DropExpired(i, s)
          \/ RevokeAllInMemory(i) \/ Prune(i)
          \/ \E t \in Tokens, ping \in BOOLEAN : Boot(i, t, ping)
    \/ \E m \in late : LateSet(m)
    \/ Tick

Spec == Init /\ [][Next]_vars

-----------------------------------------------------------------------------
(* docs/token-rotation.md 116-119, admin_sessions.py 103-112, 152-164: a   *)
(* session whose revocation was carried out by an instance that could      *)
(* reach it is accepted by no instance again, whatever Redis does and      *)
(* whoever is restarted.  (A revocation whose Redis request failed gets    *)
(* the same answer and may have no effect.)                                *)
LoggedOutStaysOut ==
    \A s \in out, i \in Instances, answers \in BOOLEAN : ~Accepts(i, s, answers)

(* docs/token-rotation.md 53-58: a session is worth nothing with an        *)
(* instance that runs with another token than it was issued under, also    *)
(* while a rotation has reached some instances only.                       *)
TokenBinds ==
    \A s \in Sids, i \in Instances, answers \in BOOLEAN :
        Accepts(i, s, answers) => issued[s].token = token[i]

(* docs/token-rotation.md 60-61: no session is accepted longer than the    *)
(* time to live after its login was answered.  (A SET that reaches Redis   *)
(* after its client gave up begins a time to live of its own.)             *)
TTLBounds ==
    \A s \in Sids, i \in Instances, answers \in BOOLEAN :
        /\ Known(s) /\ issued[s].place # "late"
        /\ Accepts(i, s, answers)
        => age[s] - wait[s] < TTL

\* What an answered login may expect of i: a session in Redis is good with
\* every instance that shares it and has its token, one in memory with its own.
Due(i, s) ==
    /\ Known(s) /\ s \notin touched
    /\ age[s] < TTL
    /\ issued[s].token = token[i]
    /\ \/ issued[s].place = "redis" /\ shared[i]
       \/ issued[s].place # "redis" /\ issued[s].home = i /\ local[i][s] # None

(* admin_sessions.py 63-78, 80-101: an answered login is honoured while    *)
(* Redis answers, also if Redis did not at the login.                      *)
LoginIsHonoured == \A s \in Sids, i \in Instances : Due(i, s) => Accepts(i, s, TRUE)
=============================================================================
