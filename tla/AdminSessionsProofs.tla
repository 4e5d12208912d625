------------------------- MODULE AdminSessionsProofs -------------------------
(***************************************************************************)
(* Proofs about AdminSessions, for any number of instances, requests and   *)
(* sessions, any time to live, any number of faults and of restarts.       *)
(*                                                                         *)
(* The argument: where a session may be is decided by how its login ended  *)
(* (issued[s].place).  One that went into Redis is in no memory, one whose *)
(* SET was not answered is in the memory of the instance that issued it,   *)
(* and until the login is answered nobody else knows it.  So an instance   *)
(* that reaches a session can remove every record of it, and no record     *)
(* comes back, because only its own login and a late SET make one.         *)
(***************************************************************************)
EXTENDS AdminSessions, TLAPS

\* A request in progress is served by an instance; a logout is about a known
\* session.
Requested ==
    \A r \in Requests :
        /\ pc[r] # "idle" => at[r] \in Instances
        /\ pc[r] \in {"set", "del"} => sid[r] \in Sids
        /\ pc[r] = "del" => Known(sid[r]) /\ sid[r] \in touched

\* A login that waits for its SET is the only one of its session, which is in
\* no store yet.
Setting ==
    \A r \in Requests : pc[r] = "set" =>
        /\ issued[sid[r]] # None
        /\ issued[sid[r]].place = "pending" /\ issued[sid[r]].home = at[r]
        /\ age[sid[r]] <= MaxWait
        /\ ~OnItsWay(sid[r]) /\ redis[sid[r]] = None
        /\ \A q \in Requests : pc[q] = "set" /\ sid[q] = sid[r] => q = r

Unissued == \A s \in Sids : issued[s] = None => age[s] = 0 /\ wait[s] = 0

\* What the records are of.
InRedis ==
    \A s \in Sids : redis[s] # None =>
        /\ issued[s] # None
        /\ issued[s].place # "memory" /\ issued[s].token = redis[s].fp

InMemory ==
    \A i \in Instances, s \in Sids : local[i][s] # None =>
        /\ issued[s] # None
        /\ issued[s].place \in {"fallback", "late", "memory"}
        /\ issued[s].home = i /\ issued[s].token = local[i][s].fp

Underway ==
    \A m \in late :
        /\ issued[m[1]] # None
        /\ issued[m[1]].place \in {"late", "pending"} /\ issued[m[1]].token = m[2]

\* What a revoke-all has found includes what it promised to remove.
Revoking ==
    \A r \in Requests : \A s \in begun[r] :
        /\ Known(s) /\ ~OnItsWay(s)
        /\ pc[r] = "delete" /\ redis[s] # None => s \in keys[r]

Gone ==
    \A s \in out :
        /\ Known(s) /\ ~OnItsWay(s)
        /\ redis[s] = None
        /\ \A i \in Instances : local[i][s] = None

\* No record outlives the time to live, counted from the answer of the login.
Timed ==
    \A s \in Sids :
        /\ redis[s] # None /\ Known(s) /\ issued[s].place # "late"
              => redis[s].left + age[s] <= TTL + wait[s]
        /\ \A i \in Instances :
              local[i][s] # None /\ local[i][s].left > 0 => local[i][s].left + age[s] <= TTL

\* No record is cut short but by a revocation.
Kept ==
    \A s \in Sids : age[s] < TTL =>
        /\ Known(s) /\ issued[s].place = "redis" /\ s \notin touched
              => redis[s] # None /\ redis[s].left + age[s] >= TTL
        /\ \A i \in Instances :
              local[i][s] # None => local[i][s].left + age[s] >= TTL

\* The inductive invariant.
IInv == /\ TypeOK /\ Requested /\ Setting /\ Unissued
        /\ InRedis /\ InMemory /\ Underway
        /\ Revoking /\ Gone /\ Timed /\ Kept

-----------------------------------------------------------------------------
(* What the larger actions amount to.                                      *)

\* The answer to a login settles where its session is.
LEMMA IssuedMeans ==
    ASSUME TypeOK, NEW s \in Sids, issued[s] # None, NEW place \in Places, Issued(s, place)
    PROVE  /\ issued' \in [Sids -> Issue \cup {None}]
           /\ issued'[s] # None /\ issued'[s].place = place
           /\ issued'[s].token = issued[s].token /\ issued'[s].home = issued[s].home
           /\ issued[s].token \in Tokens
           /\ \A t \in Sids \ {s} : issued'[t] = issued[t] /\ wait'[t] = wait[t]
           /\ wait'[s] = age[s]
<1>1. issued[s] \in Issue
  BY DEF TypeOK
<1>2. [issued[s] EXCEPT !.place = place] \in Issue
  BY <1>1 DEF Issue
<1> QED
  BY <1>1, <1>2, AdminSessionsAssumption DEF TypeOK, Issued, Issue

\* The same for the request that serves the login.
LEMMA SetMeans ==
    ASSUME TypeOK, Requested, Setting, NEW r \in Requests, pc[r] = "set",
           NEW place \in Places, Issued(sid[r], place)
    PROVE  /\ sid[r] \in Sids /\ at[r] \in Instances
           /\ issued' \in [Sids -> Issue \cup {None}]
           /\ issued'[sid[r]] # None /\ issued'[sid[r]].place = place
           /\ issued'[sid[r]].token = issued[sid[r]].token
           /\ issued'[sid[r]].home = issued[sid[r]].home
           /\ issued[sid[r]].token \in Tokens /\ issued[sid[r]].home = at[r]
           /\ issued[sid[r]] # None
           /\ age[sid[r]] \in 0..MaxWait
           /\ \A t \in Sids \ {sid[r]} : issued'[t] = issued[t] /\ wait'[t] = wait[t]
           /\ wait'[sid[r]] = age[sid[r]]
           /\ wait' \in [Sids -> 0..MaxWait]
<1>1. /\ sid[r] \in Sids /\ at[r] \in Instances /\ issued[sid[r]] # None
      /\ issued[sid[r]].home = at[r] /\ age[sid[r]] <= MaxWait
  BY DEF Requested, Setting
<1>2. age[sid[r]] \in 0..MaxWait
  BY <1>1, AdminSessionsAssumption DEF TypeOK
<1>3. wait' \in [Sids -> 0..MaxWait]
  BY <1>2 DEF TypeOK, Issued
<1> QED
  BY <1>1, <1>2, <1>3, IssuedMeans

LEMMA ScanMeans ==
    ASSUME NEW r \in Requests, Scan(r)
    PROVE  \/ /\ \A s \in Sids : redis[s] = None
              /\ Answer(r) /\ ClearLocal(at[r], {}) /\ CarriedOut(at[r], begun[r])
           \/ /\ pc' = [pc EXCEPT ![r] = "delete"]
              /\ keys' = [keys EXCEPT ![r] = {s \in Sids : redis[s] # None}]
              /\ UNCHANGED <<at, sid, begun, local, touched, out>>
BY DEF Scan

\* An instance that reaches a session finds every record of it.
LEMMA ReachesMeans ==
    ASSUME InMemory, Underway, InRedis, TypeOK,
           NEW i \in Instances, NEW s \in Sids, Known(s), Reaches(i, s)
    PROVE  /\ ~OnItsWay(s)
           /\ \A j \in Instances \ {i} : local[j][s] = None
           /\ ~shared[i] => redis[s] = None
BY DEF InMemory, Underway, InRedis, Reaches, Known, OnItsWay

\* Time takes one tick from every record.
LEMMA TickMeans ==
    ASSUME TypeOK, Tick
    PROVE  /\ redis' \in [Sids -> [fp : Tokens, left : 1..TTL] \cup {None}]
           /\ local' \in [Instances -> [Sids -> Record \cup {None}]]
           /\ \A s \in Sids :
                 /\ redis[s] = None => redis'[s] = None
                 /\ redis'[s] # None => redis[s] # None /\ redis'[s].fp = redis[s].fp
                                        /\ redis'[s].left = redis[s].left - 1
                 /\ redis[s] # None /\ redis[s].left > 1 => redis'[s] # None
                 /\ age'[s] \in 0..(TTL + MaxWait)
                 /\ age'[s] \in {age[s], age[s] + 1} /\ (issued[s] = None => age'[s] = age[s])
                 /\ age'[s] = age[s] => issued[s] = None \/ age[s] = TTL + MaxWait
           /\ \A i \in Instances, s \in Sids :
                 /\ local[i][s] = None <=> local'[i][s] = None
                 /\ local[i][s] # None => /\ local'[i][s].fp = local[i][s].fp
                                          /\ local'[i][s].left = IF local[i][s].left > 0
                                               THEN local[i][s].left - 1 ELSE 0
<1> USE AdminSessionsAssumption
<1>1. ASSUME NEW s \in Sids, redis[s] # None, redis[s].left > 1
      PROVE  /\ [redis[s] EXCEPT !.left = @ - 1] \in [fp : Tokens, left : 1..TTL]
             /\ [redis[s] EXCEPT !.left = @ - 1] # None
             /\ [redis[s] EXCEPT !.left = @ - 1].fp = redis[s].fp
             /\ [redis[s] EXCEPT !.left = @ - 1].left = redis[s].left - 1
  <2>1. redis[s] \in [fp : Tokens, left : 1..TTL]
    BY <1>1 DEF TypeOK
  <2>2. [redis[s] EXCEPT !.left = @ - 1] \in [fp : Tokens, left : 1..TTL]
    BY <1>1, <2>1
  <2>3. [fp : Tokens, left : 1..TTL] \subseteq Record
    BY DEF Record
  <2> QED
    BY <2>1, <2>2, <2>3
<1>2. ASSUME NEW i \in Instances, NEW s \in Sids, local[i][s] # None
      PROVE  /\ local[i][s] \in Record /\ local[i][s].left \in 0..TTL
             /\ local[i][s].left > 0 =>
                   /\ [local[i][s] EXCEPT !.left = @ - 1] \in Record
                   /\ [local[i][s] EXCEPT !.left = @ - 1] # None
                   /\ [local[i][s] EXCEPT !.left = @ - 1].fp = local[i][s].fp
                   /\ [local[i][s] EXCEPT !.left = @ - 1].left = local[i][s].left - 1
  <2>1. local[i][s] \in Record
    BY <1>2 DEF TypeOK
  <2>2. local[i][s].left > 0 => [local[i][s] EXCEPT !.left = @ - 1] \in Record
    BY <2>1 DEF Record
  <2> QED
    BY <2>1, <2>2 DEF Record
<1>3. /\ redis' \in [Sids -> [fp : Tokens, left : 1..TTL] \cup {None}]
      /\ \A s \in Sids :
            /\ redis[s] = None => redis'[s] = None
            /\ redis'[s] # None => redis[s] # None /\ redis'[s].fp = redis[s].fp
                                   /\ redis'[s].left = redis[s].left - 1
            /\ redis[s] # None /\ redis[s].left > 1 => redis'[s] # None
  BY <1>1 DEF TypeOK, Tick
<1>4. /\ local' \in [Instances -> [Sids -> Record \cup {None}]]
      /\ \A i \in Instances, s \in Sids :
            /\ local[i][s] = None <=> local'[i][s] = None
            /\ local[i][s] # None => /\ local'[i][s].fp = local[i][s].fp
                                     /\ local'[i][s].left = IF local[i][s].left > 0
                                          THEN local[i][s].left - 1 ELSE 0
  <2>1. \A i \in Instances, s \in Sids :
           local'[i][s] = IF local[i][s] # None /\ local[i][s].left > 0
                          THEN [local[i][s] EXCEPT !.left = @ - 1] ELSE local[i][s]
    BY DEF TypeOK, Tick
  <2>2. ASSUME NEW i \in Instances, NEW s \in Sids
        PROVE  /\ local'[i][s] \in Record \cup {None}
               /\ local[i][s] = None <=> local'[i][s] = None
               /\ local[i][s] # None => /\ local'[i][s].fp = local[i][s].fp
                                        /\ local'[i][s].left = IF local[i][s].left > 0
                                             THEN local[i][s].left - 1 ELSE 0
    <3>1. CASE local[i][s] = None
      BY <2>1, <3>1
    <3>2. CASE local[i][s] # None /\ local[i][s].left > 0
      <4> DEFINE younger == [local[i][s] EXCEPT !.left = @ - 1]
      <4>1. /\ younger \in Record /\ younger # None
            /\ younger.fp = local[i][s].fp /\ younger.left = local[i][s].left - 1
        BY <1>2, <3>2
      <4>2. local'[i][s] = younger
        BY <2>1, <3>2
      <4> HIDE DEF younger
      <4> QED
        BY <3>2, <4>1, <4>2
    <3>3. CASE local[i][s] # None /\ ~(local[i][s].left > 0)
      <4>1. local[i][s] \in Record /\ local[i][s].left \in 0..TTL
        <5>1. local[i][s] \in Record
          BY <3>3 DEF TypeOK
        <5> QED
          BY <5>1 DEF Record
      <4>2. local[i][s].left = 0
        BY <3>3, <4>1
      <4>3. local'[i][s] = local[i][s]
        BY <2>1, <3>3
      <4> QED
        BY <3>3, <4>1, <4>2, <4>3
    <3> QED
      BY <3>1, <3>2, <3>3
  <2>3. local' = [i \in Instances |-> [s \in Sids |-> local'[i][s]]]
    BY <2>1 DEF Tick
  <2> QED
    BY <2>2, <2>3
<1>5. \A s \in Sids :
            /\ age'[s] \in 0..(TTL + MaxWait)
            /\ age'[s] \in {age[s], age[s] + 1} /\ (issued[s] = None => age'[s] = age[s])
            /\ age'[s] = age[s] => issued[s] = None \/ age[s] = TTL + MaxWait
  <2>1. \A s \in Sids : /\ age[s] \in 0..(TTL + MaxWait)
                        /\ age'[s] = IF issued[s] # None /\ age[s] < TTL + MaxWait
                                     THEN age[s] + 1 ELSE age[s]
    BY DEF TypeOK, Tick
  <2> QED
    BY <2>1
<1> QED
  BY <1>3, <1>4, <1>5

-----------------------------------------------------------------------------
\* Types.
LEMMA TypeOKStep ==
    ASSUME TypeOK, Requested, Setting, Unissued, [Next]_vars
    PROVE  TypeOK'
<1> USE AdminSessionsAssumption
<1>1. ASSUME NEW r \in Requests, NEW i \in Instances, NEW s \in Sids, Login(r, i, s)
      PROVE  TypeOK'
  BY <1>1 DEF TypeOK, Requested, Setting, Unissued, Login, Go, stores, config,
      Known, OnItsWay, Record, Issue, Places, PCs
<1>2. ASSUME NEW r \in Requests, NEW i \in Instances, NEW s \in Sids, Logout(r, i, s)
      PROVE  TypeOK'
  BY <1>2 DEF TypeOK, Requested, Setting, Unissued, Logout, Go, stores,
      config, Known, OnItsWay, Record, Issue, Places, PCs
<1>3. ASSUME NEW r \in Requests, NEW i \in Instances, RevokeAll(r, i)
      PROVE  TypeOK'
  BY <1>3 DEF TypeOK, Requested, Setting, Unissued, RevokeAll, Go, stores,
      config, Known, OnItsWay, Record, Issue, Places, PCs
<1>4. ASSUME NEW r \in Requests, SetAnswered(r)
      PROVE  TypeOK'
  <2>1. pc[r] = "set" /\ Issued(sid[r], "redis") /\ "redis" \in Places
    BY <1>4 DEF SetAnswered, Places
  <2>2. /\ issued' \in [Sids -> Issue \cup {None}] /\ wait' \in [Sids -> 0..MaxWait]
        /\ sid[r] \in Sids /\ issued[sid[r]].token \in Tokens
    BY <2>1, SetMeans
  <2>3. [fp |-> issued[sid[r]].token, left |-> TTL] \in [fp : Tokens, left : 1..TTL]
    BY <2>2
  <2>4. redis' \in [Sids -> [fp : Tokens, left : 1..TTL] \cup {None}]
    BY <1>4, <2>3 DEF TypeOK, SetAnswered, Put
  <2>5. /\ pc' \in [Requests -> PCs] /\ at' \in [Requests -> Instances \cup {None}]
        /\ sid' \in [Requests -> Sids \cup {None}]
        /\ keys' \in [Requests -> SUBSET Sids] /\ begun' \in [Requests -> SUBSET Sids]
    BY <1>4 DEF TypeOK, SetAnswered, Answer, Go, PCs
  <2> QED
    BY <1>4, <2>2, <2>4, <2>5 DEF TypeOK, SetAnswered, config
<1>5. ASSUME NEW r \in Requests, SetFails(r)
      PROVE  TypeOK'
  <2>1. PICK place \in {"fallback", "late"} :
          pc[r] = "set" /\ Issued(sid[r], place) /\ place \in Places
    BY <1>5 DEF SetFails, Places
  <2>2. /\ issued' \in [Sids -> Issue \cup {None}] /\ wait' \in [Sids -> 0..MaxWait]
        /\ sid[r] \in Sids /\ at[r] \in Instances /\ issued[sid[r]].token \in Tokens
        /\ age[sid[r]] \in 0..MaxWait
    BY <2>1, SetMeans
  <2>3. /\ [fp |-> issued[sid[r]].token, left |-> TTL] \in [fp : Tokens, left : 1..TTL]
        /\ [fp |-> issued[sid[r]].token, left |-> TTL - age[sid[r]]] \in Record
    BY <2>2 DEF Record
  <2>4. /\ redis' \in [Sids -> [fp : Tokens, left : 1..TTL] \cup {None}]
        /\ late' \subseteq Sids \X Tokens
    BY <1>5, <2>2, <2>3 DEF TypeOK, SetFails, Put
  <2>5. local' \in [Instances -> [Sids -> Record \cup {None}]]
    BY <1>5, <2>2, <2>3 DEF TypeOK, SetFails, Keep
  <2>6. /\ pc' \in [Requests -> PCs] /\ at' \in [Requests -> Instances \cup {None}]
        /\ sid' \in [Requests -> Sids \cup {None}]
        /\ keys' \in [Requests -> SUBSET Sids] /\ begun' \in [Requests -> SUBSET Sids]
    BY <1>5 DEF TypeOK, SetFails, Answer, Go, PCs
  <2>7. faultsLeft' \in 0..MaxFaults
    BY <1>5 DEF TypeOK, SetFails, Fault
  <2> QED
    BY <1>5, <2>2, <2>4, <2>5, <2>6, <2>7 DEF TypeOK, SetFails, config
<1>6. ASSUME NEW r \in Requests, DelAnswered(r)
      PROVE  TypeOK'
  BY <1>6 DEF TypeOK, Requested, Setting, Unissued, DelAnswered, ForgetRedis,
      ForgetLocal, CarriedOut, Reaches, Answer, Go, config, Known, OnItsWay,
      Record, Issue, Places, PCs
<1>7. ASSUME NEW r \in Requests, DelFails(r)
      PROVE  TypeOK'
  BY <1>7 DEF TypeOK, Requested, Setting, Unissued, DelFails, ForgetRedis,
      ForgetLocal, Answer, Go, Fault, config, Known, OnItsWay, Record, Issue,
      Places, PCs
<1>8. ASSUME NEW r \in Requests, Scan(r)
      PROVE  TypeOK'
  <2>1. CASE /\ pc' = [pc EXCEPT ![r] = "delete"]
             /\ keys' = [keys EXCEPT ![r] = {s \in Sids : redis[s] # None}]
             /\ UNCHANGED <<at, sid, begun, local, touched, out>>
    <3>1. UNCHANGED <<redis, late, config, issued, age, wait, faultsLeft>>
      BY <1>8 DEF Scan
    <3> QED
      BY <2>1, <3>1 DEF TypeOK, PCs, config
  <2>2. CASE Answer(r) /\ ClearLocal(at[r], {}) /\ CarriedOut(at[r], begun[r])
    <3>1. /\ pc' \in [Requests -> PCs] /\ at' \in [Requests -> Instances \cup {None}]
          /\ sid' \in [Requests -> Sids \cup {None}]
          /\ keys' \in [Requests -> SUBSET Sids] /\ begun' \in [Requests -> SUBSET Sids]
      BY <2>2 DEF TypeOK, Answer, Go, PCs
    <3>2. /\ local' \in [Instances -> [Sids -> Record \cup {None}]]
          /\ touched' \subseteq Sids /\ out' \subseteq Sids
      BY <2>2 DEF TypeOK, ClearLocal, ForgetLocal, CarriedOut
    <3> QED
      BY <1>8, <3>1, <3>2 DEF TypeOK, Scan, config
  <2> QED
    BY <1>8, <2>1, <2>2, ScanMeans
<1>9. ASSUME NEW r \in Requests, DeleteAnswered(r)
      PROVE  TypeOK'
  BY <1>9 DEF TypeOK, Requested, Setting, Unissued, DeleteAnswered,
      ForgetRedis, ClearLocal, ForgetLocal, CarriedOut, Reaches, Answer, Go,
      config, Known, OnItsWay, Record, Issue, Places, PCs
<1>10. ASSUME NEW r \in Requests, RevokeAllFails(r)
      PROVE  TypeOK'
  BY <1>10 DEF TypeOK, Requested, Setting, Unissued, RevokeAllFails,
      ForgetRedis, ClearLocal, ForgetLocal, Answer, Go, Fault, config, Known,
      OnItsWay, Record, Issue, Places, PCs
<1>11. ASSUME NEW i \in Instances, NEW s \in Sids, LoginInMemory(i, s)
      PROVE  TypeOK'
  BY <1>11 DEF TypeOK, Requested, Setting, Unissued, LoginInMemory, reqs,
      config, Known, OnItsWay, Record, Issue, Places, PCs
<1>12. ASSUME NEW i \in Instances, NEW s \in Sids, LogoutInMemory(i, s)
      PROVE  TypeOK'
  BY <1>12 DEF TypeOK, Requested, Setting, Unissued, LogoutInMemory,
      ForgetLocal, CarriedOut, Reaches, reqs, config, Known, OnItsWay, Record,
      Issue, Places, PCs
<1>13. ASSUME NEW i \in Instances, NEW s \in Sids, DropExpired(i, s)
      PROVE  TypeOK'
  BY <1>13 DEF TypeOK, Requested, Setting, Unissued, DropExpired, reqs,
      config, hist, Known, OnItsWay, Record, Issue, Places, PCs
<1>14. ASSUME NEW i \in Instances, RevokeAllInMemory(i)
      PROVE  TypeOK'
  BY <1>14 DEF TypeOK, Requested, Setting, Unissued, RevokeAllInMemory,
      ForgetLocal, CarriedOut, Reaches, reqs, config, Known, OnItsWay, Record,
      Issue, Places, PCs
<1>15. ASSUME NEW i \in Instances, Prune(i)
      PROVE  TypeOK'
  BY <1>15 DEF TypeOK, Requested, Setting, Unissued, Prune, reqs, config,
      hist, Known, OnItsWay, Record, Issue, Places, PCs
<1>16. ASSUME NEW i \in Instances, NEW t \in Tokens, NEW ping \in BOOLEAN, Boot(i, t, ping)
      PROVE  TypeOK'
  BY <1>16 DEF TypeOK, Requested, Setting, Unissued, Boot, NoRecords, hist,
      Known, OnItsWay, Record, Issue, Places, PCs
<1>17. ASSUME NEW m \in late, LateSet(m)
      PROVE  TypeOK'
  BY <1>17 DEF TypeOK, Requested, Setting, Unissued, LateSet, Put, reqs,
      config, hist, Known, OnItsWay, Record, Issue, Places, PCs
<1>18. CASE Tick
  <2>1. \A s \in Sids : age'[s] \in 0..(TTL + MaxWait)
    BY <1>18, TickMeans
  <2>2. age' \in [Sids -> 0..(TTL + MaxWait)]
    BY <1>18, <2>1 DEF Tick
  <2> QED
    BY <1>18, <2>2, TickMeans DEF TypeOK, Tick, reqs, config
<1>19. CASE UNCHANGED vars
  BY <1>19 DEF TypeOK, vars
<1> QED
  BY <1>1, <1>2, <1>3, <1>4, <1>5, <1>6, <1>7, <1>8, <1>9, <1>10, <1>11,
      <1>12, <1>13, <1>14, <1>15, <1>16, <1>17, <1>18,
      <1>19 DEF Next, RedisStep

\* Requests.
LEMMA RequestedStep ==
    ASSUME TypeOK, Requested, Setting, [Next]_vars
    PROVE  Requested'
<1> USE AdminSessionsAssumption
<1>1. ASSUME NEW r \in Requests, NEW i \in Instances, NEW s \in Sids, Login(r, i, s)
      PROVE  Requested'
  BY <1>1 DEF TypeOK, Requested, Setting, Login, Go, stores, config, Known,
      OnItsWay
<1>2. ASSUME NEW r \in Requests, NEW i \in Instances, NEW s \in Sids, Logout(r, i, s)
      PROVE  Requested'
  BY <1>2 DEF TypeOK, Requested, Setting, Logout, Go, stores, config, Known,
      OnItsWay
<1>3. ASSUME NEW r \in Requests, NEW i \in Instances, RevokeAll(r, i)
      PROVE  Requested'
  BY <1>3 DEF TypeOK, Requested, Setting, RevokeAll, Go, stores, config,
      Known, OnItsWay
<1>4. ASSUME NEW r \in Requests, SetAnswered(r)
      PROVE  Requested'
  BY <1>4 DEF TypeOK, Requested, Setting, SetAnswered, Put, Issued, Answer,
      Go, config, Known, OnItsWay
<1>5. ASSUME NEW r \in Requests, SetFails(r)
      PROVE  Requested'
  BY <1>5 DEF TypeOK, Requested, Setting, SetFails, Put, Issued, Answer, Go,
      Keep, Fault, config, Known, OnItsWay
<1>6. ASSUME NEW r \in Requests, DelAnswered(r)
      PROVE  Requested'
  BY <1>6 DEF TypeOK, Requested, Setting, DelAnswered, ForgetRedis,
      ForgetLocal, CarriedOut, Reaches, Answer, Go, config, Known, OnItsWay
<1>7. ASSUME NEW r \in Requests, DelFails(r)
      PROVE  Requested'
  BY <1>7 DEF TypeOK, Requested, Setting, DelFails, ForgetRedis, ForgetLocal,
      Answer, Go, Fault, config, Known, OnItsWay
<1>8. ASSUME NEW r \in Requests, Scan(r)
      PROVE  Requested'
  BY <1>8, SMTT(30) DEF TypeOK, Requested, Setting, Scan, ClearLocal, ForgetLocal,
      CarriedOut, Reaches, Answer, Go, config, Known, OnItsWay
<1>9. ASSUME NEW r \in Requests, DeleteAnswered(r)
      PROVE  Requested'
  BY <1>9 DEF TypeOK, Requested, Setting, DeleteAnswered, ForgetRedis,
      ClearLocal, ForgetLocal, CarriedOut, Reaches, Answer, Go, config, Known,
      OnItsWay
<1>10. ASSUME NEW r \in Requests, RevokeAllFails(r)
      PROVE  Requested'
  BY <1>10 DEF TypeOK, Requested, Setting, RevokeAllFails, ForgetRedis,
      ClearLocal, ForgetLocal, Answer, Go, Fault, config, Known, OnItsWay
<1>11. ASSUME NEW i \in Instances, NEW s \in Sids, LoginInMemory(i, s)
      PROVE  Requested'
  BY <1>11 DEF TypeOK, Requested, Setting, LoginInMemory, reqs, config, Known,
      OnItsWay
<1>12. ASSUME NEW i \in Instances, NEW s \in Sids, LogoutInMemory(i, s)
      PROVE  Requested'
  BY <1>12 DEF TypeOK, Requested, Setting, LogoutInMemory, ForgetLocal,
      CarriedOut, Reaches, reqs, config, Known, OnItsWay
<1>13. ASSUME NEW i \in Instances, RevokeAllInMemory(i)
      PROVE  Requested'
  BY <1>13 DEF TypeOK, Requested, Setting, RevokeAllInMemory, ForgetLocal,
      CarriedOut, Reaches, reqs, config, Known, OnItsWay
<1>14. ASSUME NEW i \in Instances, NEW t \in Tokens, NEW ping \in BOOLEAN, Boot(i, t, ping)
      PROVE  Requested'
  BY <1>14 DEF TypeOK, Requested, Setting, Boot, NoRecords, hist, Known,
      OnItsWay
<1>15. CASE UNCHANGED <<pc, at, sid, touched, issued>>
  BY <1>15 DEF Requested, Known
<1> QED
  BY <1>1, <1>2, <1>3, <1>4, <1>5, <1>6, <1>7, <1>8, <1>9, <1>10, <1>11,
      <1>12, <1>13, <1>14, <1>15
  DEF Next, RedisStep, vars, DropExpired, Prune, LateSet, Tick, reqs, config,
      hist

\* Logins that wait for Redis.
LEMMA SettingStep ==
    ASSUME TypeOK, Requested, Setting, Unissued, Underway, InRedis,
        [Next]_vars
    PROVE  Setting'
<1> USE AdminSessionsAssumption
<1>1. ASSUME NEW r \in Requests, NEW i \in Instances, NEW s \in Sids, Login(r, i, s)
      PROVE  Setting'
  <2>1. /\ issued[s] = None
        /\ issued' = [issued EXCEPT ![s] =
                        [token |-> token[i], home |-> i, place |-> "pending"]]
        /\ pc' = [pc EXCEPT ![r] = "set"] /\ sid' = [sid EXCEPT ![r] = s]
        /\ at' = [at EXCEPT ![r] = i] /\ UNCHANGED <<redis, late, age>>
    BY <1>1 DEF Login, Go, stores
  <2>2. /\ ~OnItsWay(s) /\ redis[s] = None /\ age[s] = 0
        /\ \A q \in Requests : pc[q] = "set" => sid[q] \in Sids \ {s}
    BY <2>1 DEF Underway, InRedis, Unissued, OnItsWay, Setting, Requested
  <2>3. [token |-> token[i], home |-> i, place |-> "pending"] \in Issue
    BY DEF TypeOK, Issue, Places
  <2> QED
    BY <2>1, <2>2, <2>3 DEF TypeOK, Setting, OnItsWay
<1>2. ASSUME NEW r \in Requests, NEW i \in Instances, NEW s \in Sids, Logout(r, i, s)
      PROVE  Setting'
  BY <1>2 DEF TypeOK, Requested, Setting, Unissued, Underway, InRedis, Logout,
      Go, stores, config, Known, OnItsWay
<1>3. ASSUME NEW r \in Requests, NEW i \in Instances, RevokeAll(r, i)
      PROVE  Setting'
  BY <1>3 DEF TypeOK, Requested, Setting, Unissued, Underway, InRedis,
      RevokeAll, Go, stores, config, Known, OnItsWay
<1>4. ASSUME NEW r \in Requests, SetAnswered(r)
      PROVE  Setting'
  BY <1>4 DEF TypeOK, Requested, Setting, Unissued, Underway, InRedis,
      SetAnswered, Put, Issued, Answer, Go, config, Known, OnItsWay
<1>5. ASSUME NEW r \in Requests, SetFails(r)
      PROVE  Setting'
  BY <1>5 DEF TypeOK, Requested, Setting, Unissued, Underway, InRedis,
      SetFails, Put, Issued, Answer, Go, Keep, Fault, config, Known, OnItsWay
<1>6. ASSUME NEW r \in Requests, DelAnswered(r)
      PROVE  Setting'
  BY <1>6 DEF TypeOK, Requested, Setting, Unissued, Underway, InRedis,
      DelAnswered, ForgetRedis, ForgetLocal, CarriedOut, Reaches, Answer, Go,
      config, Known, OnItsWay
<1>7. ASSUME NEW r \in Requests, DelFails(r)
      PROVE  Setting'
  BY <1>7 DEF TypeOK, Requested, Setting, Unissued, Underway, InRedis,
      DelFails, ForgetRedis, ForgetLocal, Answer, Go, Fault, config, Known,
      OnItsWay
<1>8. ASSUME NEW r \in Requests, Scan(r)
      PROVE  Setting'
  <2>1. \A q \in Requests : pc'[q] = "set" =>
           pc[q] = "set" /\ sid'[q] = sid[q] /\ at'[q] = at[q]
    BY <1>8, ScanMeans DEF TypeOK, Answer, Go
  <2>2. UNCHANGED <<redis, late, issued, age>>
    BY <1>8 DEF Scan
  <2> QED
    BY <2>1, <2>2 DEF Setting, OnItsWay
<1>9. ASSUME NEW r \in Requests, DeleteAnswered(r)
      PROVE  Setting'
  BY <1>9 DEF TypeOK, Requested, Setting, Unissued, Underway, InRedis,
      DeleteAnswered, ForgetRedis, ClearLocal, ForgetLocal, CarriedOut,
      Reaches, Answer, Go, config, Known, OnItsWay
<1>10. ASSUME NEW r \in Requests, RevokeAllFails(r)
      PROVE  Setting'
  BY <1>10 DEF TypeOK, Requested, Setting, Unissued, Underway, InRedis,
      RevokeAllFails, ForgetRedis, ClearLocal, ForgetLocal, Answer, Go, Fault,
      config, Known, OnItsWay
<1>11. ASSUME NEW i \in Instances, NEW s \in Sids, LoginInMemory(i, s)
      PROVE  Setting'
  BY <1>11 DEF TypeOK, Requested, Setting, Unissued, Underway, InRedis,
      LoginInMemory, reqs, config, Known, OnItsWay
<1>12. ASSUME NEW i \in Instances, NEW t \in Tokens, NEW ping \in BOOLEAN, Boot(i, t, ping)
      PROVE  Setting'
  BY <1>12 DEF TypeOK, Requested, Setting, Unissued, Underway, InRedis, Boot,
      NoRecords, hist, Known, OnItsWay
<1>13. ASSUME NEW m \in late, LateSet(m)
      PROVE  Setting'
  BY <1>13 DEF TypeOK, Requested, Setting, Unissued, Underway, InRedis,
      LateSet, Put, reqs, config, hist, Known, OnItsWay
<1>14. CASE Tick
  BY <1>14 DEF TypeOK, Requested, Setting, Unissued, Underway, InRedis, Tick,
      reqs, config, Known, OnItsWay
<1>15. CASE UNCHANGED <<pc, at, sid, issued, age, late, redis>>
  BY <1>15 DEF Setting, OnItsWay
<1> QED
  BY <1>1, <1>2, <1>3, <1>4, <1>5, <1>6, <1>7, <1>8, <1>9, <1>10, <1>11,
      <1>12, <1>13, <1>14, <1>15
  DEF Next, RedisStep, vars, LogoutInMemory, DropExpired, RevokeAllInMemory,
      Prune, reqs, config, hist

\* Sessions that have no login yet.
LEMMA UnissuedStep ==
    ASSUME TypeOK, Requested, Setting, Unissued, [Next]_vars
    PROVE  Unissued'
<1> USE AdminSessionsAssumption
<1>1. ASSUME NEW r \in Requests, NEW i \in Instances, NEW s \in Sids, Login(r, i, s)
      PROVE  Unissued'
  BY <1>1 DEF TypeOK, Requested, Setting, Unissued, Login, Go, stores, config,
      Known, OnItsWay
<1>2. ASSUME NEW r \in Requests, SetAnswered(r)
      PROVE  Unissued'
  <2>1. pc[r] = "set" /\ Issued(sid[r], "redis") /\ "redis" \in Places
    BY <1>2 DEF SetAnswered, Places
  <2>2. /\ issued'[sid[r]] # None
        /\ \A t \in Sids \ {sid[r]} : issued'[t] = issued[t] /\ wait'[t] = wait[t]
    BY <2>1, SetMeans
  <2> QED
    BY <1>2, <2>2 DEF Unissued, SetAnswered
<1>3. ASSUME NEW r \in Requests, SetFails(r)
      PROVE  Unissued'
  <2>1. PICK place \in {"fallback", "late"} :
          pc[r] = "set" /\ Issued(sid[r], place) /\ place \in Places
    BY <1>3 DEF SetFails, Places
  <2>2. /\ issued'[sid[r]] # None
        /\ \A t \in Sids \ {sid[r]} : issued'[t] = issued[t] /\ wait'[t] = wait[t]
    BY <2>1, SetMeans
  <2> QED
    BY <1>3, <2>2 DEF Unissued, SetFails
<1>4. ASSUME NEW i \in Instances, NEW s \in Sids, LoginInMemory(i, s)
      PROVE  Unissued'
  BY <1>4 DEF TypeOK, Requested, Setting, Unissued, LoginInMemory, reqs,
      config, Known, OnItsWay
<1>5. CASE Tick
  BY <1>5 DEF TypeOK, Requested, Setting, Unissued, Tick, reqs, config, Known,
      OnItsWay
<1>6. CASE UNCHANGED <<issued, age, wait>>
  BY <1>6 DEF Unissued
<1> QED
  BY <1>1, <1>2, <1>3, <1>4, <1>5, <1>6
  DEF Next, RedisStep, vars, Logout, RevokeAll, DelAnswered, DelFails, Scan,
      DeleteAnswered, RevokeAllFails, LogoutInMemory, DropExpired,
      RevokeAllInMemory, Prune, Boot, LateSet, stores, reqs, config, hist

\* Records in Redis.
LEMMA InRedisStep ==
    ASSUME TypeOK, Requested, Setting, InRedis, Underway, [Next]_vars
    PROVE  InRedis'
<1> USE AdminSessionsAssumption
<1>1. ASSUME NEW r \in Requests, NEW i \in Instances, NEW s \in Sids, Login(r, i, s)
      PROVE  InRedis'
  BY <1>1 DEF TypeOK, Requested, Setting, InRedis, Underway, Login, Go,
      stores, config, Known, OnItsWay
<1>2. ASSUME NEW r \in Requests, SetAnswered(r)
      PROVE  InRedis'
  <2>1. pc[r] = "set" /\ Issued(sid[r], "redis") /\ "redis" \in Places
    BY <1>2 DEF SetAnswered, Places
  <2>2. /\ sid[r] \in Sids /\ issued'[sid[r]] # None /\ issued'[sid[r]].place # "memory"
        /\ issued'[sid[r]].token = issued[sid[r]].token
        /\ \A t \in Sids \ {sid[r]} : issued'[t] = issued[t]
    BY <2>1, SetMeans
  <2> QED
    BY <1>2, <2>2 DEF TypeOK, InRedis, SetAnswered, Put
<1>3. ASSUME NEW r \in Requests, SetFails(r)
      PROVE  InRedis'
  <2>1. PICK place \in {"fallback", "late"} :
          pc[r] = "set" /\ Issued(sid[r], place) /\ place \in Places
    BY <1>3 DEF SetFails, Places
  <2>2. /\ sid[r] \in Sids /\ issued'[sid[r]] # None /\ issued'[sid[r]].place # "memory"
        /\ issued'[sid[r]].token = issued[sid[r]].token
        /\ \A t \in Sids \ {sid[r]} : issued'[t] = issued[t]
    BY <2>1, SetMeans
  <2>3. UNCHANGED redis \/ Put(sid[r], issued[sid[r]].token)
    BY <1>3 DEF SetFails
  <2> QED
    BY <2>2, <2>3 DEF TypeOK, InRedis, Put
<1>4. ASSUME NEW r \in Requests, DelAnswered(r)
      PROVE  InRedis'
  BY <1>4 DEF TypeOK, Requested, Setting, InRedis, Underway, DelAnswered,
      ForgetRedis, ForgetLocal, CarriedOut, Reaches, Answer, Go, config,
      Known, OnItsWay
<1>5. ASSUME NEW r \in Requests, DelFails(r)
      PROVE  InRedis'
  BY <1>5 DEF TypeOK, Requested, Setting, InRedis, Underway, DelFails,
      ForgetRedis, ForgetLocal, Answer, Go, Fault, config, Known, OnItsWay
<1>6. ASSUME NEW r \in Requests, DeleteAnswered(r)
      PROVE  InRedis'
  BY <1>6 DEF TypeOK, Requested, Setting, InRedis, Underway, DeleteAnswered,
      ForgetRedis, ClearLocal, ForgetLocal, CarriedOut, Reaches, Answer, Go,
      config, Known, OnItsWay
<1>7. ASSUME NEW r \in Requests, RevokeAllFails(r)
      PROVE  InRedis'
  BY <1>7 DEF TypeOK, Requested, Setting, InRedis, Underway, RevokeAllFails,
      ForgetRedis, ClearLocal, ForgetLocal, Answer, Go, Fault, config, Known,
      OnItsWay
<1>8. ASSUME NEW i \in Instances, NEW s \in Sids, LoginInMemory(i, s)
      PROVE  InRedis'
  BY <1>8 DEF TypeOK, Requested, Setting, InRedis, Underway, LoginInMemory,
      reqs, config, Known, OnItsWay
<1>9. ASSUME NEW m \in late, LateSet(m)
      PROVE  InRedis'
  BY <1>9, SMTT(30) DEF TypeOK, Requested, Setting, InRedis, Underway, LateSet, Put,
      reqs, config, hist, Known, OnItsWay
<1>10. CASE Tick
  BY <1>10 DEF TypeOK, Requested, Setting, InRedis, Underway, Tick, reqs,
      config, Known, OnItsWay
<1>11. CASE UNCHANGED <<redis, issued>>
  BY <1>11 DEF InRedis
<1> QED
  BY <1>1, <1>2, <1>3, <1>4, <1>5, <1>6, <1>7, <1>8, <1>9, <1>10, <1>11
  DEF Next, RedisStep, vars, Logout, RevokeAll, Scan, LogoutInMemory,
      DropExpired, RevokeAllInMemory, Prune, Boot, stores, reqs, config, hist

\* Records in memory.
LEMMA InMemoryStep ==
    ASSUME TypeOK, Requested, Setting, InMemory, [Next]_vars
    PROVE  InMemory'
<1> USE AdminSessionsAssumption
<1>1. ASSUME NEW r \in Requests, NEW i \in Instances, NEW s \in Sids, Login(r, i, s)
      PROVE  InMemory'
  BY <1>1 DEF TypeOK, Requested, Setting, InMemory, Login, Go, stores, config,
      Known, OnItsWay
<1>2. ASSUME NEW r \in Requests, SetAnswered(r)
      PROVE  InMemory'
  BY <1>2 DEF TypeOK, Requested, Setting, InMemory, SetAnswered, Put, Issued,
      Answer, Go, config, Known, OnItsWay
<1>3. ASSUME NEW r \in Requests, SetFails(r)
      PROVE  InMemory'
  <2>1. PICK place \in {"fallback", "late"} :
          pc[r] = "set" /\ Issued(sid[r], place) /\ place \in Places
    BY <1>3 DEF SetFails, Places
  <2>2. /\ sid[r] \in Sids /\ at[r] \in Instances
        /\ issued'[sid[r]] # None /\ issued'[sid[r]].place = place
        /\ issued'[sid[r]].home = at[r]
        /\ issued'[sid[r]].token = issued[sid[r]].token
        /\ \A t \in Sids \ {sid[r]} : issued'[t] = issued[t]
    BY <2>1, SetMeans
  <2>3. \A i \in Instances : local[i][sid[r]] = None
    BY <2>1, <2>2 DEF InMemory, Setting
  <2> QED
    BY <1>3, <2>2, <2>3 DEF TypeOK, InMemory, SetFails, Keep
<1>4. ASSUME NEW r \in Requests, DelAnswered(r)
      PROVE  InMemory'
  BY <1>4 DEF TypeOK, Requested, Setting, InMemory, DelAnswered, ForgetRedis,
      ForgetLocal, CarriedOut, Reaches, Answer, Go, config, Known, OnItsWay
<1>5. ASSUME NEW r \in Requests, DelFails(r)
      PROVE  InMemory'
  BY <1>5 DEF TypeOK, Requested, Setting, InMemory, DelFails, ForgetRedis,
      ForgetLocal, Answer, Go, Fault, config, Known, OnItsWay
<1>6. ASSUME NEW r \in Requests, Scan(r)
      PROVE  InMemory'
  <2>1. UNCHANGED local \/ ForgetLocal(at[r], Sids)
    BY <1>6, ScanMeans DEF ClearLocal
  <2>2. issued' = issued
    BY <1>6 DEF Scan
  <2>3. \A i \in Instances, s \in Sids : local'[i][s] \in {local[i][s], None}
    BY <2>1 DEF TypeOK, ForgetLocal
  <2> QED
    BY <2>2, <2>3 DEF InMemory
<1>7. ASSUME NEW r \in Requests, DeleteAnswered(r)
      PROVE  InMemory'
  BY <1>7 DEF TypeOK, Requested, Setting, InMemory, DeleteAnswered,
      ForgetRedis, ClearLocal, ForgetLocal, CarriedOut, Reaches, Answer, Go,
      config, Known, OnItsWay
<1>8. ASSUME NEW r \in Requests, RevokeAllFails(r)
      PROVE  InMemory'
  BY <1>8 DEF TypeOK, Requested, Setting, InMemory, RevokeAllFails,
      ForgetRedis, ClearLocal, ForgetLocal, Answer, Go, Fault, config, Known,
      OnItsWay
<1>9. ASSUME NEW i \in Instances, NEW s \in Sids, LoginInMemory(i, s)
      PROVE  InMemory'
  <2>1. /\ issued[s] = None
        /\ issued' = [issued EXCEPT ![s] = [token |-> token[i], home |-> i, place |-> "memory"]]
        /\ local' = [local EXCEPT ![i][s] = [fp |-> token[i], left |-> TTL]]
    BY <1>9 DEF LoginInMemory
  <2>2. [token |-> token[i], home |-> i, place |-> "memory"] \in Issue
    BY DEF TypeOK, Issue, Places
  <2>3. \A j \in Instances : local[j][s] = None
    BY <2>1 DEF InMemory
  <2> QED
    BY <2>1, <2>2, <2>3 DEF TypeOK, InMemory
<1>10. ASSUME NEW i \in Instances, NEW s \in Sids, LogoutInMemory(i, s)
      PROVE  InMemory'
  BY <1>10 DEF TypeOK, Requested, Setting, InMemory, LogoutInMemory,
      ForgetLocal, CarriedOut, Reaches, reqs, config, Known, OnItsWay
<1>11. ASSUME NEW i \in Instances, NEW s \in Sids, DropExpired(i, s)
      PROVE  InMemory'
  BY <1>11 DEF TypeOK, Requested, Setting, InMemory, DropExpired, reqs,
      config, hist, Known, OnItsWay
<1>12. ASSUME NEW i \in Instances, RevokeAllInMemory(i)
      PROVE  InMemory'
  BY <1>12 DEF TypeOK, Requested, Setting, InMemory, RevokeAllInMemory,
      ForgetLocal, CarriedOut, Reaches, reqs, config, Known, OnItsWay
<1>13. ASSUME NEW i \in Instances, Prune(i)
      PROVE  InMemory'
  BY <1>13 DEF TypeOK, Requested, Setting, InMemory, Prune, reqs, config,
      hist, Known, OnItsWay
<1>14. ASSUME NEW i \in Instances, NEW t \in Tokens, NEW ping \in BOOLEAN, Boot(i, t, ping)
      PROVE  InMemory'
  BY <1>14 DEF TypeOK, Requested, Setting, InMemory, Boot, NoRecords, hist,
      Known, OnItsWay
<1>15. CASE Tick
  BY <1>15 DEF TypeOK, Requested, Setting, InMemory, Tick, reqs, config,
      Known, OnItsWay
<1>16. CASE UNCHANGED <<local, issued>>
  BY <1>16 DEF InMemory
<1> QED
  BY <1>1, <1>2, <1>3, <1>4, <1>5, <1>6, <1>7, <1>8, <1>9, <1>10, <1>11,
      <1>12, <1>13, <1>14, <1>15, <1>16
  DEF Next, RedisStep, vars, Logout, RevokeAll, LateSet, stores, reqs, config,
      hist

\* SETs on their way.
LEMMA UnderwayStep ==
    ASSUME TypeOK, Requested, Setting, Underway, [Next]_vars
    PROVE  Underway'
<1> USE AdminSessionsAssumption
<1>1. ASSUME NEW r \in Requests, NEW i \in Instances, NEW s \in Sids, Login(r, i, s)
      PROVE  Underway'
  BY <1>1 DEF TypeOK, Requested, Setting, Underway, Login, Go, stores, config,
      Known, OnItsWay
<1>2. ASSUME NEW r \in Requests, SetAnswered(r)
      PROVE  Underway'
  BY <1>2 DEF TypeOK, Requested, Setting, Underway, SetAnswered, Put, Issued,
      Answer, Go, config, Known, OnItsWay
<1>3. ASSUME NEW r \in Requests, SetFails(r)
      PROVE  Underway'
  <2>1. PICK place \in {"fallback", "late"} :
          /\ pc[r] = "set" /\ Issued(sid[r], place) /\ place \in Places
          /\ \/ UNCHANGED late
             \/ late' = late \cup {<<sid[r], issued[sid[r]].token>>} /\ place = "late"
    BY <1>3 DEF SetFails, Places
  <2>2. /\ issued'[sid[r]] # None /\ issued'[sid[r]].place = place
        /\ issued'[sid[r]].token = issued[sid[r]].token
        /\ \A t \in Sids \ {sid[r]} : issued'[t] = issued[t]
    BY <2>1, SetMeans
  <2>3. \A m \in late : m[1] \in Sids \ {sid[r]}
    BY <2>1 DEF TypeOK, Setting, OnItsWay
  <2>4. \A m \in late : /\ issued'[m[1]] # None /\ issued'[m[1]].token = m[2]
                        /\ issued'[m[1]].place \in {"late", "pending"}
    BY <2>2, <2>3 DEF Underway
  <2>5. CASE UNCHANGED late
    BY <2>4, <2>5 DEF Underway
  <2>6. CASE late' = late \cup {<<sid[r], issued[sid[r]].token>>} /\ place = "late"
    BY <2>2, <2>4, <2>6 DEF Underway
  <2> QED
    BY <2>1, <2>5, <2>6
<1>4. ASSUME NEW i \in Instances, NEW s \in Sids, LoginInMemory(i, s)
      PROVE  Underway'
  BY <1>4 DEF TypeOK, Requested, Setting, Underway, LoginInMemory, reqs,
      config, Known, OnItsWay
<1>5. ASSUME NEW i \in Instances, NEW t \in Tokens, NEW ping \in BOOLEAN, Boot(i, t, ping)
      PROVE  Underway'
  BY <1>5 DEF TypeOK, Requested, Setting, Underway, Boot, NoRecords, hist,
      Known, OnItsWay
<1>6. ASSUME NEW m \in late, LateSet(m)
      PROVE  Underway'
  BY <1>6 DEF TypeOK, Requested, Setting, Underway, LateSet, Put, reqs,
      config, hist, Known, OnItsWay
<1>7. CASE UNCHANGED <<late, issued>>
  BY <1>7 DEF Underway
<1> QED
  BY <1>1, <1>2, <1>3, <1>4, <1>5, <1>6, <1>7
  DEF Next, RedisStep, vars, Logout, RevokeAll, DelAnswered, DelFails, Scan,
      DeleteAnswered, RevokeAllFails, LogoutInMemory, DropExpired,
      RevokeAllInMemory, Prune, Tick, stores, reqs, config, hist

\* Revoke-alls under way.
LEMMA RevokingStep ==
    ASSUME TypeOK, Requested, Setting, Underway, Revoking, [Next]_vars
    PROVE  Revoking'
<1> USE AdminSessionsAssumption
<1>1. ASSUME NEW r \in Requests, NEW i \in Instances, NEW s \in Sids, Login(r, i, s)
      PROVE  Revoking'
  BY <1>1 DEF TypeOK, Requested, Setting, Underway, Revoking, Login, Go,
      stores, config, Known, OnItsWay
<1>2. ASSUME NEW r \in Requests, NEW i \in Instances, NEW s \in Sids, Logout(r, i, s)
      PROVE  Revoking'
  BY <1>2 DEF TypeOK, Requested, Setting, Underway, Revoking, Logout, Go,
      stores, config, Known, OnItsWay
<1>3. ASSUME NEW r \in Requests, NEW i \in Instances, RevokeAll(r, i)
      PROVE  Revoking'
  BY <1>3 DEF TypeOK, Requested, Setting, Underway, Revoking, RevokeAll, Go,
      stores, config, Known, OnItsWay
<1>4. ASSUME NEW r \in Requests, SetAnswered(r)
      PROVE  Revoking'
  BY <1>4 DEF TypeOK, Requested, Setting, Underway, Revoking, SetAnswered,
      Put, Issued, Answer, Go, config, Known, OnItsWay
<1>5. ASSUME NEW r \in Requests, SetFails(r)
      PROVE  Revoking'
  BY <1>5 DEF TypeOK, Requested, Setting, Underway, Revoking, SetFails, Put,
      Issued, Answer, Go, Keep, Fault, config, Known, OnItsWay
<1>6. ASSUME NEW r \in Requests, DelAnswered(r)
      PROVE  Revoking'
  BY <1>6 DEF TypeOK, Requested, Setting, Underway, Revoking, DelAnswered,
      ForgetRedis, ForgetLocal, CarriedOut, Reaches, Answer, Go, config,
      Known, OnItsWay
<1>7. ASSUME NEW r \in Requests, DelFails(r)
      PROVE  Revoking'
  BY <1>7 DEF TypeOK, Requested, Setting, Underway, Revoking, DelFails,
      ForgetRedis, ForgetLocal, Answer, Go, Fault, config, Known, OnItsWay
<1>8. ASSUME NEW r \in Requests, Scan(r)
      PROVE  Revoking'
  <2>1. \/ begun' = [begun EXCEPT ![r] = {}] /\ pc' = [pc EXCEPT ![r] = "idle"]
           /\ keys' = [keys EXCEPT ![r] = {}]
        \/ /\ UNCHANGED begun /\ pc' = [pc EXCEPT ![r] = "delete"]
           /\ keys' = [keys EXCEPT ![r] = {s \in Sids : redis[s] # None}]
    BY <1>8, ScanMeans DEF Answer, Go
  <2>2. UNCHANGED <<issued, late, redis>>
    BY <1>8 DEF Scan
  <2>3. ASSUME NEW q \in Requests, NEW s \in begun'[q]
        PROVE  /\ s \in Sids /\ s \in begun[q]
               /\ pc'[q] = "delete" /\ redis[s] # None => s \in keys'[q]
    BY <2>1, <2>3 DEF TypeOK, Revoking
  <2> QED
    BY <2>2, <2>3 DEF Revoking, Known, OnItsWay
<1>9. ASSUME NEW r \in Requests, DeleteAnswered(r)
      PROVE  Revoking'
  BY <1>9 DEF TypeOK, Requested, Setting, Underway, Revoking, DeleteAnswered,
      ForgetRedis, ClearLocal, ForgetLocal, CarriedOut, Reaches, Answer, Go,
      config, Known, OnItsWay
<1>10. ASSUME NEW r \in Requests, RevokeAllFails(r)
      PROVE  Revoking'
  BY <1>10 DEF TypeOK, Requested, Setting, Underway, Revoking, RevokeAllFails,
      ForgetRedis, ClearLocal, ForgetLocal, Answer, Go, Fault, config, Known,
      OnItsWay
<1>11. ASSUME NEW i \in Instances, NEW s \in Sids, LoginInMemory(i, s)
      PROVE  Revoking'
  BY <1>11 DEF TypeOK, Requested, Setting, Underway, Revoking, LoginInMemory,
      reqs, config, Known, OnItsWay
<1>12. ASSUME NEW i \in Instances, NEW t \in Tokens, NEW ping \in BOOLEAN, Boot(i, t, ping)
      PROVE  Revoking'
  BY <1>12 DEF TypeOK, Requested, Setting, Underway, Revoking, Boot,
      NoRecords, hist, Known, OnItsWay
<1>13. ASSUME NEW m \in late, LateSet(m)
      PROVE  Revoking'
  BY <1>13 DEF TypeOK, Requested, Setting, Underway, Revoking, LateSet, Put,
      reqs, config, hist, Known, OnItsWay
<1>14. CASE Tick
  BY <1>14 DEF TypeOK, Requested, Setting, Underway, Revoking, Tick, reqs,
      config, Known, OnItsWay
<1>15. CASE UNCHANGED <<pc, keys, begun, issued, late, redis>>
  BY <1>15 DEF Revoking, Known, OnItsWay
<1> QED
  BY <1>1, <1>2, <1>3, <1>4, <1>5, <1>6, <1>7, <1>8, <1>9, <1>10, <1>11,
      <1>12, <1>13, <1>14, <1>15
  DEF Next, RedisStep, vars, LogoutInMemory, DropExpired, RevokeAllInMemory,
      Prune, reqs, config, hist

\* Revoked sessions: each record is found, and none comes back.
LEMMA GoneStep ==
    ASSUME TypeOK, Requested, Setting, InRedis, InMemory, Underway, Revoking,
        Gone, [Next]_vars
    PROVE  Gone'
<1> USE AdminSessionsAssumption
<1>1. ASSUME NEW r \in Requests, NEW i \in Instances, NEW s \in Sids, Login(r, i, s)
      PROVE  Gone'
  BY <1>1 DEF TypeOK, Requested, Setting, InRedis, InMemory, Underway,
      Revoking, Gone, Login, Go, stores, config, Known, OnItsWay
<1>2. ASSUME NEW r \in Requests, SetAnswered(r)
      PROVE  Gone'
  BY <1>2 DEF TypeOK, Requested, Setting, InRedis, InMemory, Underway,
      Revoking, Gone, SetAnswered, Put, Issued, Answer, Go, config, Known,
      OnItsWay
<1>3. ASSUME NEW r \in Requests, SetFails(r)
      PROVE  Gone'
  BY <1>3 DEF TypeOK, Requested, Setting, InRedis, InMemory, Underway,
      Revoking, Gone, SetFails, Put, Issued, Answer, Go, Keep, Fault, config,
      Known, OnItsWay
<1>4. ASSUME NEW r \in Requests, DelAnswered(r)
      PROVE  Gone'
  <2>1. sid[r] \in Sids /\ at[r] \in Instances /\ Known(sid[r])
    BY <1>4 DEF Requested, DelAnswered
  <2>2. Reaches(at[r], sid[r]) =>
           /\ ~OnItsWay(sid[r])
           /\ \A j \in Instances \ {at[r]} : local[j][sid[r]] = None
    BY <2>1, ReachesMeans
  <2> QED
    BY <1>4, <2>1, <2>2
    DEF TypeOK, Gone, DelAnswered, ForgetRedis, ForgetLocal, CarriedOut, Known, OnItsWay
<1>5. ASSUME NEW r \in Requests, DelFails(r)
      PROVE  Gone'
  BY <1>5 DEF TypeOK, Requested, Setting, InRedis, InMemory, Underway,
      Revoking, Gone, DelFails, ForgetRedis, ForgetLocal, Answer, Go, Fault,
      config, Known, OnItsWay
<1>6. ASSUME NEW r \in Requests, Scan(r)
      PROVE  Gone'
  <2>1. CASE UNCHANGED <<local, out>>
    BY <1>6, <2>1 DEF Gone, Scan, Known, OnItsWay
  <2>2. CASE /\ \A s \in Sids : redis[s] = None
             /\ ClearLocal(at[r], {}) /\ CarriedOut(at[r], begun[r])
    <3>1. at[r] \in Instances /\ begun[r] \subseteq Sids
      BY <1>6 DEF TypeOK, Requested, Scan
    <3>2. \A s \in begun[r] : Known(s) /\ ~OnItsWay(s)
      BY DEF Revoking
    <3>3. \A s \in begun[r] : Reaches(at[r], s) =>
             \A j \in Instances \ {at[r]} : local[j][s] = None
      BY <3>1, <3>2, ReachesMeans
    <3> QED
      BY <1>6, <2>2, <3>1, <3>2, <3>3
      DEF TypeOK, Gone, Scan, ClearLocal, ForgetLocal, CarriedOut, Known, OnItsWay
  <2> QED
    BY <1>6, <2>1, <2>2, ScanMeans
<1>7. ASSUME NEW r \in Requests, DeleteAnswered(r)
      PROVE  Gone'
  BY <1>7 DEF TypeOK, Requested, Setting, InRedis, InMemory, Underway,
      Revoking, Gone, DeleteAnswered, ForgetRedis, ClearLocal, ForgetLocal,
      CarriedOut, Reaches, Answer, Go, config, Known, OnItsWay
<1>8. ASSUME NEW r \in Requests, RevokeAllFails(r)
      PROVE  Gone'
  BY <1>8 DEF TypeOK, Requested, Setting, InRedis, InMemory, Underway,
      Revoking, Gone, RevokeAllFails, ForgetRedis, ClearLocal, ForgetLocal,
      Answer, Go, Fault, config, Known, OnItsWay
<1>9. ASSUME NEW i \in Instances, NEW s \in Sids, LoginInMemory(i, s)
      PROVE  Gone'
  BY <1>9 DEF TypeOK, Requested, Setting, InRedis, InMemory, Underway,
      Revoking, Gone, LoginInMemory, reqs, config, Known, OnItsWay
<1>10. ASSUME NEW i \in Instances, NEW s \in Sids, LogoutInMemory(i, s)
      PROVE  Gone'
  BY <1>10 DEF TypeOK, Requested, Setting, InRedis, InMemory, Underway,
      Revoking, Gone, LogoutInMemory, ForgetLocal, CarriedOut, Reaches, reqs,
      config, Known, OnItsWay
<1>11. ASSUME NEW i \in Instances, NEW s \in Sids, DropExpired(i, s)
      PROVE  Gone'
  BY <1>11 DEF TypeOK, Requested, Setting, InRedis, InMemory, Underway,
      Revoking, Gone, DropExpired, reqs, config, hist, Known, OnItsWay
<1>12. ASSUME NEW i \in Instances, RevokeAllInMemory(i)
      PROVE  Gone'
  BY <1>12 DEF TypeOK, Requested, Setting, InRedis, InMemory, Underway,
      Revoking, Gone, RevokeAllInMemory, ForgetLocal, CarriedOut, Reaches,
      reqs, config, Known, OnItsWay
<1>13. ASSUME NEW i \in Instances, Prune(i)
      PROVE  Gone'
  BY <1>13 DEF TypeOK, Requested, Setting, InRedis, InMemory, Underway,
      Revoking, Gone, Prune, reqs, config, hist, Known, OnItsWay
<1>14. ASSUME NEW i \in Instances, NEW t \in Tokens, NEW ping \in BOOLEAN, Boot(i, t, ping)
      PROVE  Gone'
  BY <1>14 DEF TypeOK, Requested, Setting, InRedis, InMemory, Underway,
      Revoking, Gone, Boot, NoRecords, hist, Known, OnItsWay
<1>15. ASSUME NEW m \in late, LateSet(m)
      PROVE  Gone'
  BY <1>15 DEF TypeOK, Requested, Setting, InRedis, InMemory, Underway,
      Revoking, Gone, LateSet, Put, reqs, config, hist, Known, OnItsWay
<1>16. CASE Tick
  BY <1>16 DEF TypeOK, Requested, Setting, InRedis, InMemory, Underway,
      Revoking, Gone, Tick, reqs, config, Known, OnItsWay
<1>17. CASE UNCHANGED <<out, issued, late, redis, local>>
  BY <1>17 DEF Gone, Known, OnItsWay
<1> QED
  BY <1>1, <1>2, <1>3, <1>4, <1>5, <1>6, <1>7, <1>8, <1>9, <1>10, <1>11,
      <1>12, <1>13, <1>14, <1>15, <1>16, <1>17
  DEF Next, RedisStep, vars, Logout, RevokeAll, stores, config

\* The time to live.
LEMMA TimedStep ==
    ASSUME TypeOK, Requested, Setting, Unissued, InRedis, InMemory, Underway,
        Timed, [Next]_vars
    PROVE  Timed'
<1> USE AdminSessionsAssumption
<1>1. ASSUME NEW r \in Requests, NEW i \in Instances, NEW s \in Sids, Login(r, i, s)
      PROVE  Timed'
  BY <1>1 DEF TypeOK, Requested, Setting, Unissued, InRedis, InMemory,
      Underway, Timed, Login, Go, stores, config, Known, OnItsWay
<1>2. ASSUME NEW r \in Requests, SetAnswered(r)
      PROVE  Timed'
  BY <1>2 DEF TypeOK, Requested, Setting, Unissued, InRedis, InMemory,
      Underway, Timed, SetAnswered, Put, Issued, Answer, Go, config, Known,
      OnItsWay
<1>3. ASSUME NEW r \in Requests, SetFails(r)
      PROVE  Timed'
  BY <1>3, SMTT(30) DEF TypeOK, Requested, Setting, Unissued, InRedis, InMemory,
      Underway, Timed, SetFails, Put, Issued, Answer, Go, Keep, Fault, config,
      Known, OnItsWay
<1>4. ASSUME NEW r \in Requests, DelAnswered(r)
      PROVE  Timed'
  BY <1>4 DEF TypeOK, Requested, Setting, Unissued, InRedis, InMemory,
      Underway, Timed, DelAnswered, ForgetRedis, ForgetLocal, CarriedOut,
      Reaches, Answer, Go, config, Known, OnItsWay
<1>5. ASSUME NEW r \in Requests, DelFails(r)
      PROVE  Timed'
  BY <1>5 DEF TypeOK, Requested, Setting, Unissued, InRedis, InMemory,
      Underway, Timed, DelFails, ForgetRedis, ForgetLocal, Answer, Go, Fault,
      config, Known, OnItsWay
<1>6. ASSUME NEW r \in Requests, Scan(r)
      PROVE  Timed'
  <2>1. UNCHANGED local \/ ForgetLocal(at[r], Sids)
    BY <1>6, ScanMeans DEF ClearLocal
  <2> QED
    BY <1>6, <2>1 DEF TypeOK, Timed, Scan, ForgetLocal, Known
<1>7. ASSUME NEW r \in Requests, DeleteAnswered(r)
      PROVE  Timed'
  BY <1>7 DEF TypeOK, Requested, Setting, Unissued, InRedis, InMemory,
      Underway, Timed, DeleteAnswered, ForgetRedis, ClearLocal, ForgetLocal,
      CarriedOut, Reaches, Answer, Go, config, Known, OnItsWay
<1>8. ASSUME NEW r \in Requests, RevokeAllFails(r)
      PROVE  Timed'
  BY <1>8 DEF TypeOK, Requested, Setting, Unissued, InRedis, InMemory,
      Underway, Timed, RevokeAllFails, ForgetRedis, ClearLocal, ForgetLocal,
      Answer, Go, Fault, config, Known, OnItsWay
<1>9. ASSUME NEW i \in Instances, NEW s \in Sids, LoginInMemory(i, s)
      PROVE  Timed'
  BY <1>9 DEF TypeOK, Requested, Setting, Unissued, InRedis, InMemory,
      Underway, Timed, LoginInMemory, reqs, config, Known, OnItsWay
<1>10. ASSUME NEW i \in Instances, NEW s \in Sids, LogoutInMemory(i, s)
      PROVE  Timed'
  BY <1>10 DEF TypeOK, Requested, Setting, Unissued, InRedis, InMemory,
      Underway, Timed, LogoutInMemory, ForgetLocal, CarriedOut, Reaches, reqs,
      config, Known, OnItsWay
<1>11. ASSUME NEW i \in Instances, NEW s \in Sids, DropExpired(i, s)
      PROVE  Timed'
  BY <1>11 DEF TypeOK, Requested, Setting, Unissued, InRedis, InMemory,
      Underway, Timed, DropExpired, reqs, config, hist, Known, OnItsWay
<1>12. ASSUME NEW i \in Instances, RevokeAllInMemory(i)
      PROVE  Timed'
  BY <1>12 DEF TypeOK, Requested, Setting, Unissued, InRedis, InMemory,
      Underway, Timed, RevokeAllInMemory, ForgetLocal, CarriedOut, Reaches,
      reqs, config, Known, OnItsWay
<1>13. ASSUME NEW i \in Instances, Prune(i)
      PROVE  Timed'
  BY <1>13 DEF TypeOK, Requested, Setting, Unissued, InRedis, InMemory,
      Underway, Timed, Prune, reqs, config, hist, Known, OnItsWay
<1>14. ASSUME NEW i \in Instances, NEW t \in Tokens, NEW ping \in BOOLEAN, Boot(i, t, ping)
      PROVE  Timed'
  BY <1>14 DEF TypeOK, Requested, Setting, Unissued, InRedis, InMemory,
      Underway, Timed, Boot, NoRecords, hist, Known, OnItsWay
<1>15. ASSUME NEW m \in late, LateSet(m)
      PROVE  Timed'
  BY <1>15 DEF TypeOK, Requested, Setting, Unissued, InRedis, InMemory,
      Underway, Timed, LateSet, Put, reqs, config, hist, Known, OnItsWay
<1>16. CASE Tick
  <2> SUFFICES ASSUME NEW s \in Sids
               PROVE  /\ redis'[s] # None /\ Known(s)' /\ issued'[s].place # "late"
                            => redis'[s].left + age'[s] <= TTL + wait'[s]
                      /\ \A i \in Instances :
                            local'[i][s] # None /\ local'[i][s].left > 0
                               => local'[i][s].left + age'[s] <= TTL
    BY DEF Timed
  <2>1. issued' = issued /\ wait' = wait
    BY <1>16 DEF Tick
  <2>2. age[s] \in Nat /\ wait[s] \in Nat /\ age'[s] \in {age[s], age[s] + 1}
    BY <1>16, TickMeans DEF TypeOK
  <2>3. ASSUME redis'[s] # None, Known(s), issued[s].place # "late"
        PROVE  redis'[s].left + age'[s] <= TTL + wait[s]
    <3>1. redis[s] # None /\ redis[s].left \in Nat /\ redis'[s].left = redis[s].left - 1
      BY <1>16, <2>3, TickMeans DEF TypeOK
    <3>2. redis[s].left + age[s] <= TTL + wait[s]
      BY <2>3, <3>1 DEF Timed
    <3> QED
      BY <2>2, <3>1, <3>2
  <2>4. ASSUME NEW i \in Instances, local'[i][s] # None, local'[i][s].left > 0
        PROVE  local'[i][s].left + age'[s] <= TTL
    <3>1. /\ local[i][s] # None /\ local[i][s].left \in 0..TTL
          /\ local'[i][s].left = IF local[i][s].left > 0 THEN local[i][s].left - 1 ELSE 0
      BY <1>16, <2>4, TickMeans DEF TypeOK, Record
    <3>2. local[i][s].left > 0 /\ local[i][s].left + age[s] <= TTL
      BY <2>4, <3>1 DEF Timed
    <3> QED
      BY <2>2, <3>1, <3>2
  <2> QED
    BY <2>1, <2>3, <2>4 DEF Known
<1>17. CASE UNCHANGED <<redis, local, issued, age, wait>>
  BY <1>17 DEF Timed, Known
<1> QED
  BY <1>1, <1>2, <1>3, <1>4, <1>5, <1>6, <1>7, <1>8, <1>9, <1>10, <1>11,
      <1>12, <1>13, <1>14, <1>15, <1>16, <1>17
  DEF Next, RedisStep, vars, Logout, RevokeAll, stores, config

\* Records that are kept.
LEMMA KeptStep ==
    ASSUME TypeOK, Requested, Setting, Unissued, InRedis, InMemory, Kept,
        [Next]_vars
    PROVE  Kept'
<1> USE AdminSessionsAssumption
<1>1. ASSUME NEW r \in Requests, NEW i \in Instances, NEW s \in Sids, Login(r, i, s)
      PROVE  Kept'
  BY <1>1 DEF TypeOK, Requested, Setting, Unissued, InRedis, InMemory, Kept,
      Login, Go, stores, config, Known, OnItsWay
<1>2. ASSUME NEW r \in Requests, NEW i \in Instances, NEW s \in Sids, Logout(r, i, s)
      PROVE  Kept'
  BY <1>2 DEF TypeOK, Requested, Setting, Unissued, InRedis, InMemory, Kept,
      Logout, Go, stores, config, Known, OnItsWay
<1>3. ASSUME NEW r \in Requests, NEW i \in Instances, RevokeAll(r, i)
      PROVE  Kept'
  BY <1>3 DEF TypeOK, Requested, Setting, Unissued, InRedis, InMemory, Kept,
      RevokeAll, Go, stores, config, Known, OnItsWay
<1>4. ASSUME NEW r \in Requests, SetAnswered(r)
      PROVE  Kept'
  <2>1. pc[r] = "set" /\ Issued(sid[r], "redis") /\ "redis" \in Places
    BY <1>4 DEF SetAnswered, Places
  <2>2. /\ sid[r] \in Sids /\ age[sid[r]] \in 0..MaxWait
        /\ issued[sid[r]].token \in Tokens
        /\ \A t \in Sids \ {sid[r]} : issued'[t] = issued[t]
    BY <2>1, SetMeans
  <2>3. [fp |-> issued[sid[r]].token, left |-> TTL] \in Record
    BY <2>2 DEF Record
  <2>4. redis' = [redis EXCEPT ![sid[r]] = [fp |-> issued[sid[r]].token, left |-> TTL]]
        /\ UNCHANGED <<local, age, touched>>
    BY <1>4 DEF SetAnswered, Put
  <2> QED
    BY <2>2, <2>3, <2>4 DEF TypeOK, Kept, Known
<1>5. ASSUME NEW r \in Requests, SetFails(r)
      PROVE  Kept'
  <2>1. PICK place \in {"fallback", "late"} :
          pc[r] = "set" /\ Issued(sid[r], place) /\ place \in Places
    BY <1>5 DEF SetFails, Places
  <2>2. /\ sid[r] \in Sids /\ at[r] \in Instances /\ age[sid[r]] \in 0..MaxWait
        /\ issued'[sid[r]].place # "redis"
        /\ \A t \in Sids \ {sid[r]} : issued'[t] = issued[t]
    BY <2>1, SetMeans
  <2>3. /\ \A t \in Sids \ {sid[r]} : redis'[t] = redis[t]
        /\ UNCHANGED <<age, touched>>
    BY <1>5 DEF TypeOK, SetFails, Put
  <2>4. local' = [local EXCEPT ![at[r]][sid[r]] =
                     [fp |-> issued[sid[r]].token, left |-> TTL - age[sid[r]]]]
    BY <1>5 DEF SetFails, Keep
  <2> QED
    BY <2>2, <2>3, <2>4 DEF TypeOK, Kept, Known
<1>6. ASSUME NEW r \in Requests, DelAnswered(r)
      PROVE  Kept'
  BY <1>6 DEF TypeOK, Requested, Setting, Unissued, InRedis, InMemory, Kept,
      DelAnswered, ForgetRedis, ForgetLocal, CarriedOut, Reaches, Answer, Go,
      config, Known, OnItsWay
<1>7. ASSUME NEW r \in Requests, DelFails(r)
      PROVE  Kept'
  BY <1>7 DEF TypeOK, Requested, Setting, Unissued, InRedis, InMemory, Kept,
      DelFails, ForgetRedis, ForgetLocal, Answer, Go, Fault, config, Known,
      OnItsWay
<1>8. ASSUME NEW r \in Requests, Scan(r)
      PROVE  Kept'
  BY <1>8, SMTT(30) DEF TypeOK, Requested, Setting, Unissued, InRedis, InMemory, Kept,
      Scan, ClearLocal, ForgetLocal, CarriedOut, Reaches, Answer, Go, config,
      Known, OnItsWay
<1>9. ASSUME NEW r \in Requests, DeleteAnswered(r)
      PROVE  Kept'
  BY <1>9 DEF TypeOK, Requested, Setting, Unissued, InRedis, InMemory, Kept,
      DeleteAnswered, ForgetRedis, ClearLocal, ForgetLocal, CarriedOut,
      Reaches, Answer, Go, config, Known, OnItsWay
<1>10. ASSUME NEW r \in Requests, RevokeAllFails(r)
      PROVE  Kept'
  BY <1>10 DEF TypeOK, Requested, Setting, Unissued, InRedis, InMemory, Kept,
      RevokeAllFails, ForgetRedis, ClearLocal, ForgetLocal, Answer, Go, Fault,
      config, Known, OnItsWay
<1>11. ASSUME NEW i \in Instances, NEW s \in Sids, LoginInMemory(i, s)
      PROVE  Kept'
  BY <1>11 DEF TypeOK, Requested, Setting, Unissued, InRedis, InMemory, Kept,
      LoginInMemory, reqs, config, Known, OnItsWay
<1>12. ASSUME NEW i \in Instances, NEW s \in Sids, LogoutInMemory(i, s)
      PROVE  Kept'
  BY <1>12 DEF TypeOK, Requested, Setting, Unissued, InRedis, InMemory, Kept,
      LogoutInMemory, ForgetLocal, CarriedOut, Reaches, reqs, config, Known,
      OnItsWay
<1>13. ASSUME NEW i \in Instances, NEW s \in Sids, DropExpired(i, s)
      PROVE  Kept'
  BY <1>13 DEF TypeOK, Requested, Setting, Unissued, InRedis, InMemory, Kept,
      DropExpired, reqs, config, hist, Known, OnItsWay
<1>14. ASSUME NEW i \in Instances, RevokeAllInMemory(i)
      PROVE  Kept'
  BY <1>14 DEF TypeOK, Requested, Setting, Unissued, InRedis, InMemory, Kept,
      RevokeAllInMemory, ForgetLocal, CarriedOut, Reaches, reqs, config,
      Known, OnItsWay
<1>15. ASSUME NEW i \in Instances, Prune(i)
      PROVE  Kept'
  BY <1>15 DEF TypeOK, Requested, Setting, Unissued, InRedis, InMemory, Kept,
      Prune, reqs, config, hist, Known, OnItsWay
<1>16. ASSUME NEW i \in Instances, NEW t \in Tokens, NEW ping \in BOOLEAN, Boot(i, t, ping)
      PROVE  Kept'
  BY <1>16 DEF TypeOK, Requested, Setting, Unissued, InRedis, InMemory, Kept,
      Boot, NoRecords, hist, Known, OnItsWay
<1>17. ASSUME NEW m \in late, LateSet(m)
      PROVE  Kept'
  <2>1. /\ m \in Sids \X Tokens
        /\ redis' = [redis EXCEPT ![m[1]] = [fp |-> m[2], left |-> TTL]]
        /\ UNCHANGED <<local, issued, age, touched>>
    BY <1>17 DEF TypeOK, LateSet, Put, hist
  <2>2. m[1] \in Sids /\ [fp |-> m[2], left |-> TTL] \in Record
    BY <2>1 DEF Record
  <2> QED
    BY <2>1, <2>2 DEF TypeOK, Kept, Known
<1>18. CASE Tick
  <2> SUFFICES ASSUME NEW s \in Sids, age'[s] < TTL
               PROVE  /\ Known(s)' /\ issued'[s].place = "redis" /\ s \notin touched'
                            => redis'[s] # None /\ redis'[s].left + age'[s] >= TTL
                      /\ \A i \in Instances :
                            local'[i][s] # None => local'[i][s].left + age'[s] >= TTL
    BY DEF Kept
  <2>1. issued' = issued /\ touched' = touched
    BY <1>18 DEF Tick
  <2>2. /\ age[s] \in Nat /\ age'[s] \in {age[s], age[s] + 1} /\ age[s] < TTL
        /\ issued[s] # None => age'[s] = age[s] + 1
    BY <1>18, TickMeans DEF TypeOK
  <2>3. ASSUME Known(s), issued[s].place = "redis", s \notin touched
        PROVE  redis'[s] # None /\ redis'[s].left + age'[s] >= TTL
    <3>1. redis[s] # None /\ redis[s].left + age[s] >= TTL /\ redis[s].left \in 1..TTL
      BY <2>2, <2>3 DEF Kept, TypeOK
    <3>2. redis[s].left > 1
      BY <2>2, <2>3, <3>1 DEF Known
    <3> QED
      BY <1>18, <2>2, <2>3, <3>1, <3>2, TickMeans DEF Known
  <2>4. ASSUME NEW i \in Instances, local'[i][s] # None
        PROVE  local'[i][s].left + age'[s] >= TTL
    <3>1. /\ local[i][s] # None /\ local[i][s].left \in 0..TTL
          /\ local'[i][s].left = IF local[i][s].left > 0 THEN local[i][s].left - 1 ELSE 0
      BY <1>18, <2>4, TickMeans DEF TypeOK, Record
    <3>2. issued[s] # None /\ local[i][s].left + age[s] >= TTL
      BY <2>2, <3>1 DEF Kept, InMemory
    <3> QED
      BY <2>2, <3>1, <3>2
  <2> QED
    BY <2>1, <2>3, <2>4 DEF Known
<1>19. CASE UNCHANGED vars
  BY <1>19 DEF Kept, vars, Known
<1> QED
  BY <1>1, <1>2, <1>3, <1>4, <1>5, <1>6, <1>7, <1>8, <1>9, <1>10, <1>11,
      <1>12, <1>13, <1>14, <1>15, <1>16, <1>17, <1>18,
      <1>19 DEF Next, RedisStep

-----------------------------------------------------------------------------
LEMMA InitInvariant == Init => IInv
<1> SUFFICES ASSUME Init PROVE IInv
  OBVIOUS
<1> USE AdminSessionsAssumption
<1>1. TypeOK
  BY DEF Init, TypeOK, NoRecords, PCs
<1>2. Requested /\ Setting /\ Unissued /\ InRedis /\ InMemory /\ Underway
  BY DEF Init, NoRecords, Requested, Setting, Unissued, InRedis, InMemory, Underway
<1>3. Revoking /\ Gone /\ Timed /\ Kept
  BY DEF Init, NoRecords, Revoking, Gone, Timed, Kept, Known
<1> QED
  BY <1>1, <1>2, <1>3 DEF IInv

LEMMA StepInvariant == IInv /\ [Next]_vars => IInv'
<1> SUFFICES ASSUME IInv, [Next]_vars PROVE IInv'
  OBVIOUS
<1>1. TypeOK' /\ Requested' /\ Setting' /\ Unissued'
  BY TypeOKStep, RequestedStep, SettingStep, UnissuedStep DEF IInv
<1>2. InRedis' /\ InMemory' /\ Underway'
  BY InRedisStep, InMemoryStep, UnderwayStep DEF IInv
<1>3. Revoking' /\ Gone' /\ Timed' /\ Kept'
  BY RevokingStep, GoneStep, TimedStep, KeptStep DEF IInv
<1> QED
  BY <1>1, <1>2, <1>3 DEF IInv

(* The invariant the others rest on: where the records of a session can    *)
(* be, and how old (admin_sessions.py 63-164).                             *)
THEOREM Invariant == Spec => []IInv
BY InitInvariant, StepInvariant, PTL DEF Spec

(* Every field keeps its type: no record outlives TTL ticks in a store.    *)
THEOREM TypeCorrect == Spec => []TypeOK
<1>1. IInv => TypeOK
  BY DEF IInv
<1> QED
  BY <1>1, Invariant, PTL

(* A session whose revocation was carried out is accepted by no instance   *)
(* again, through faults, late SETs and restarts (docs/token-rotation.md   *)
(* 116-119).                                                               *)
THEOREM RevokedSessionsStayOut == Spec => []LoggedOutStaysOut
<1>1. IInv => LoggedOutStaysOut
  <2> SUFFICES ASSUME IInv, NEW s \in out, NEW i \in Instances, NEW answers \in BOOLEAN
               PROVE  ~Accepts(i, s, answers)
    BY DEF LoggedOutStaysOut
  <2> QED
    BY DEF IInv, Gone, Accepts
<1> QED
  BY <1>1, Invariant, PTL

(* A session is worth nothing with another ADMIN_TOKEN than it was issued  *)
(* under (docs/token-rotation.md 53-58).                                   *)
THEOREM SessionsAreBoundToTheToken == Spec => []TokenBinds
<1>1. IInv => TokenBinds
  BY DEF IInv, InRedis, InMemory, TokenBinds, Accepts
<1> QED
  BY <1>1, Invariant, PTL

(* No session is accepted longer than the time to live after its login was *)
(* answered (docs/token-rotation.md 60-61).                                *)
THEOREM SessionsExpire == Spec => []TTLBounds
<1>1. IInv => TTLBounds
  <2> SUFFICES ASSUME IInv, NEW s \in Sids, NEW i \in Instances, NEW answers \in BOOLEAN,
                      Known(s), issued[s].place # "late", Accepts(i, s, answers)
               PROVE  age[s] - wait[s] < TTL
    BY DEF TTLBounds
  <2>1. age[s] \in Nat /\ wait[s] \in Nat /\ TTL \in Nat
    BY AdminSessionsAssumption DEF IInv, TypeOK
  <2>2. CASE redis[s] # None
    <3>1. redis[s].left \in 1..TTL /\ redis[s].left + age[s] <= TTL + wait[s]
      BY <2>2 DEF IInv, TypeOK, Timed
    <3> QED
      BY <2>1, <3>1
  <2>3. CASE local[i][s] # None /\ local[i][s].left > 0
    <3>1. local[i][s].left \in 0..TTL /\ local[i][s].left + age[s] <= TTL
      BY <2>3 DEF IInv, TypeOK, Record, Timed
    <3> QED
      BY <2>1, <2>3, <3>1
  <2> QED
    BY <2>2, <2>3 DEF Accepts
<1> QED
  BY <1>1, Invariant, PTL

(* An answered login is honoured while Redis answers, also if Redis did    *)
(* not at the login (admin_sessions.py 63-101).                            *)
THEOREM LoginsAreHonoured == Spec => []LoginIsHonoured
<1>1. IInv => LoginIsHonoured
  <2> SUFFICES ASSUME IInv, NEW s \in Sids, NEW i \in Instances, Due(i, s)
               PROVE  Accepts(i, s, TRUE)
    BY DEF LoginIsHonoured
  <2>1. age[s] \in Nat /\ TTL \in Nat /\ age[s] < TTL
    BY AdminSessionsAssumption DEF IInv, TypeOK, Due
  <2>2. redis[s] # None => redis[s].fp = token[i]
    BY DEF IInv, InRedis, Due
  <2>3. CASE issued[s].place = "redis" /\ shared[i]
    <3>1. redis[s] # None
      BY <2>1, <2>3 DEF IInv, Kept, Due
    <3> QED
      BY <2>2, <2>3, <3>1 DEF Accepts
  <2>4. CASE issued[s].place # "redis" /\ issued[s].home = i /\ local[i][s] # None
    <3>1. /\ local[i][s].left + age[s] >= TTL /\ local[i][s].left \in 0..TTL
          /\ local[i][s].fp = token[i]
      BY <2>1, <2>4 DEF IInv, TypeOK, Record, Kept, InMemory, Due
    <3> QED
      BY <2>1, <2>2, <2>4, <3>1 DEF Accepts
  <2> QED
    BY <2>3, <2>4 DEF Due
<1> QED
  BY <1>1, Invariant, PTL
=============================================================================
