---------------------------- MODULE RateLimiter ----------------------------
(***************************************************************************)
(* The in-memory rate limiter (rate_limit.py) of the gateway's middleware: *)
(* one bucket of admission times for each caller key, emptied of old times *)
(* when the key comes back, and a sweep that forgets idle keys when there  *)
(* are too many of them.  allow() awaits nothing but a lock that is never  *)
(* contended, so one call of it is one action.                             *)
(***************************************************************************)
EXTENDS Integers, Sequences, FiniteSets

CONSTANTS
    Keys,        \* caller keys: a prefix and a client address
    Configured,  \* the per_minute the limiter is built with
    Window,      \* the window, in ticks
    Second,      \* ticks of a second
    MaxKeys,     \* the sweep runs beyond this many buckets
    MaxTime      \* bound: the clock stops here

ASSUME RateLimiterAssumption ==
    /\ Keys # {}
    /\ Configured \in Int
    /\ Window \in Nat \ {0} /\ Second \in Nat \ {0}
    /\ MaxKeys \in Nat /\ MaxTime \in Nat

PerMinute == IF Configured < 1 THEN 1 ELSE Configured

VARIABLES
    now,       \* time.monotonic()
    hits,      \* _hits: the buckets there are, each a queue of times
    served,    \* history: when each key was admitted
    answer,    \* history: the last call's key and its result
    comeback   \* history: the time the last refusal told each key to come
               \* back at, 0 once it has been admitted

vars == <<now, hits, served, answer, comeback>>

Bucket(k) == IF k \in DOMAIN hits THEN hits[k] ELSE <<>>

\* A bucket that is kept holds at least one hit and never more than the limit.
TypeOK ==
    /\ now \in 0..MaxTime
    /\ DOMAIN hits \subseteq Keys
    /\ \A k \in DOMAIN hits : hits[k] \in Seq(0..MaxTime) /\ Len(hits[k]) \in 1..PerMinute
    /\ served \in [Keys -> Seq(0..MaxTime)]
    /\ answer \in Keys \X BOOLEAN
    /\ comeback \in [Keys -> Nat]

Init ==
    /\ now = 0
    /\ hits = [k \in {} |-> <<>>]
    /\ served = [k \in Keys |-> <<>>]
    /\ answer \in Keys \X BOOLEAN
    /\ comeback = [k \in Keys |-> 0]

-----------------------------------------------------------------------------
\* Seeded fault: a time is old a tick late.
IsOldLate(t) == now - t > Window + 1

IsOld(t) == now - t > Window

\* popleft() until the head is young: how many times go.
Popped(b) ==
    CHOOSE n \in 0..Len(b) :
        /\ \A i \in 1..n : IsOld(b[i])
        /\ n < Len(b) => ~IsOld(b[n + 1])

Young(k) == SubSeq(Bucket(k), Popped(Bucket(k)) + 1, Len(Bucket(k)))

With(k, b) == [j \in DOMAIN hits \cup {k} |-> IF j = k THEN b ELSE hits[j]]

\* Seeded fault: the sweep looks at a bucket's oldest time.
IsIdleByHead(b) == b = <<>> \/ now - b[1] > 1

IsIdle(b) == b = <<>> \/ now - b[Len(b)] >= Window

\* The sweep, after an admission only.
Swept(h) ==
    IF Cardinality(DOMAIN h) > MaxKeys
    THEN [k \in {j \in DOMAIN h : ~IsIdle(h[j])} |-> h[k]]
    ELSE h

\* Retry-After: the whole seconds of the wait, and one more.
Wait(b) == Window - (now - b[1])

\* Seeded fault: the header rounds down.
RetryAfterDown(b) == Second * (Wait(b) \div Second)

RetryAfter(b) == Second * ((Wait(b) \div Second) + 1)

Refuse(k) ==
    /\ Len(Young(k)) >= PerMinute
    /\ hits' = With(k, Young(k))
    /\ answer' = <<k, FALSE>>
    /\ comeback' = [comeback EXCEPT ![k] = now + RetryAfter(Young(k))]
    /\ UNCHANGED <<now, served>>

\* Seeded fault: one more is let in than the limit.
AdmitOneMore(k) ==
    /\ Len(Young(k)) <= PerMinute
    /\ hits' = Swept(With(k, Append(Young(k), now)))
    /\ served' = [served EXCEPT ![k] = Append(@, now)]
    /\ answer' = <<k, TRUE>>
    /\ comeback' = [comeback EXCEPT ![k] = 0]
    /\ UNCHANGED now

Admit(k) ==
    /\ Len(Young(k)) < PerMinute
    /\ hits' = Swept(With(k, Append(Young(k), now)))
    /\ served' = [served EXCEPT ![k] = Append(@, now)]
    /\ answer' = <<k, TRUE>>
    /\ comeback' = [comeback EXCEPT ![k] = 0]
    /\ UNCHANGED now

Tick ==
    /\ now < MaxTime
    /\ now' = now + 1
    /\ UNCHANGED <<hits, served, answer, comeback>>

Next == Tick \/ \E k \in Keys : Admit(k) \/ Refuse(k)

Spec == Init /\ [][Next]_vars

-----------------------------------------------------------------------------
(* Between an admission and the one PerMinute admissions later there is at *)
(* least a whole window, whatever the sweep has forgotten in between: a    *)
(* key never gets more than its budget out of the limiter.                 *)
WindowHolds ==
    \A k \in Keys : \A i \in DOMAIN served[k] :
        i + PerMinute <= Len(served[k])
            => served[k][i + PerMinute] - served[k][i] >= Window

(* A caller that was refused and comes back when Retry-After told it to is *)
(* not refused again, unless its key has been admitted in between: a later *)
(* refusal that moves the time comes before the time.                      *)
RetryAfterIsKept ==
    [][\A k \in Keys :
          comeback[k] # 0 /\ comeback'[k] \notin {0, comeback[k]}
              => now < comeback[k]]_vars

(* The limiter with its buckets, pops and sweep decides as one that        *)
(* remembers every admission would: it refuses nobody who is inside the    *)
(* budget and admits nobody who is beyond it.                              *)
Exact == INSTANCE SlidingWindow WITH Limit <- PerMinute
ImplementsWindow == Exact!Spec
=============================================================================
