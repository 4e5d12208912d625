------------------------- MODULE RateLimiterProofs -------------------------
(***************************************************************************)
(* Machine-checked facts about RateLimiter, for every set of keys, every   *)
(* limit, window and sweep threshold.                                      *)
(*                                                                         *)
(* The argument: a bucket is always what is left of the key's admissions   *)
(* when a first part of them is cut off, and whatever was cut off, by a    *)
(* pop or by the sweep, is at least a window old.  So a bucket with room   *)
(* says that the admission PerMinute places back has been cut off.         *)
(***************************************************************************)
EXTENDS RateLimiter, TLAPS, WellFoundedInduction

\* The first n admissions of k are at least a window old and the bucket of
\* k holds the others.
CutAt(k, n) ==
    /\ n \in 0..Len(served[k])
    /\ \A j \in 1..n : now - served[k][j] >= Window
    /\ Len(Bucket(k)) = Len(served[k]) - n
    /\ \A j \in 1..(Len(served[k]) - n) : Bucket(k)[j] = served[k][n + j]

\* Times are recorded in order and none lies ahead.
Ordered ==
    \A k \in Keys : /\ \A i \in DOMAIN served[k] : served[k][i] <= now
                    /\ \A i, j \in DOMAIN served[k] : i <= j => served[k][i] <= served[k][j]

\* A key that has been refused and still has a full bucket has been told a
\* time at which the head of its bucket is old.
Advised ==
    \A k \in Keys :
        comeback[k] # 0 /\ Len(Bucket(k)) >= PerMinute
            => Bucket(k)[1] + Window < comeback[k]

\* The inductive invariant.
IInv ==
    /\ TypeOK
    /\ Ordered
    /\ \A k \in Keys : \E n \in Nat : CutAt(k, n)
    /\ WindowHolds
    /\ Advised

Times == 0..MaxTime

LEMMA PerMinuteType == PerMinute \in Nat \ {0}
  BY RateLimiterAssumption DEF RateLimiterAssumption, PerMinute

LEMMA BucketType ==
    ASSUME TypeOK, NEW k \in Keys
    PROVE  Bucket(k) \in Seq(Times) /\ Len(Bucket(k)) \in 0..PerMinute
  <1>1. CASE k \in DOMAIN hits
    <2>1. Bucket(k) = hits[k]
      BY <1>1 DEF Bucket
    <2>2. QED
      BY <1>1, <2>1, PerMinuteType DEF TypeOK, Times
  <1>2. CASE k \notin DOMAIN hits
    <2>1. Bucket(k) = <<>>
      BY <1>2 DEF Bucket
    <2>2. QED
      BY <2>1, PerMinuteType
  <1>3. QED
    BY <1>1, <1>2

\* A nonempty set of naturals has a least element.
LEMMA LeastNatural ==
    ASSUME NEW T \in SUBSET Nat, T # {}
    PROVE  \E x \in T : \A y \in T : x <= y
  <1>1. PICK x \in T : \A y \in T : ~(<<y, x>> \in OpToRel(<, Nat))
    BY WFMin, NatLessThanWellFounded
  <1>2. ASSUME NEW y \in T PROVE x <= y
    <2>1. ~(y < x)
      BY <1>1 DEF OpToRel
    <2>2. QED
      BY <2>1
  <1>3. QED
    BY <1>2

\* The pop loop stops, and it stops where its condition says.
LEMMA PoppedFacts ==
    ASSUME TypeOK, NEW b \in Seq(Times)
    PROVE  /\ Popped(b) \in 0..Len(b)
           /\ \A i \in 1..Popped(b) : IsOld(b[i])
           /\ Popped(b) < Len(b) => ~IsOld(b[Popped(b) + 1])
  <1> DEFINE Stops == {n \in 0..Len(b) : n < Len(b) => ~IsOld(b[n + 1])}
  <1>1. Stops \in SUBSET Nat /\ Len(b) \in Stops
    OBVIOUS
  <1>2. PICK n \in Stops : \A m \in Stops : n <= m
    BY <1>1, LeastNatural
  <1>3. ASSUME NEW i \in 1..n PROVE IsOld(b[i])
    <2>1. i - 1 \in 0..Len(b) /\ i - 1 < Len(b) /\ ~(n <= i - 1) /\ (i - 1) + 1 = i
      BY <1>2
    <2>2. i - 1 \notin Stops
      BY <1>2, <2>1
    <2>3. QED
      BY <2>1, <2>2
  <1>4. n \in 0..Len(b) /\ (n < Len(b) => ~IsOld(b[n + 1]))
    BY <1>2
  <1> HIDE DEF Stops
  <1>5. QED
    BY <1>3, <1>4 DEF Popped

\* What is left of a bucket after the pops: still the last admissions, still
\* after a cut of old ones.
LEMMA YoungFacts ==
    ASSUME TypeOK, Ordered, NEW k \in Keys, NEW n \in Nat, CutAt(k, n)
    PROVE  LET p == Popped(Bucket(k))
           IN  /\ p \in 0..Len(Bucket(k))
               /\ Young(k) \in Seq(Times)
               /\ Len(Young(k)) = Len(Bucket(k)) - p
               /\ \A j \in 1..Len(Young(k)) : Young(k)[j] = Bucket(k)[p + j]
               /\ Len(Young(k)) > 0 => ~IsOld(Young(k)[1])
               /\ n + p \in 0..Len(served[k])
               /\ Len(Young(k)) = Len(served[k]) - (n + p)
               /\ \A j \in 1..(n + p) : now - served[k][j] >= Window
               /\ \A j \in 1..Len(Young(k)) : Young(k)[j] = served[k][n + p + j]
  <1> DEFINE p == Popped(Bucket(k))
             b == Bucket(k)
  <1>1. b \in Seq(Times) /\ p \in 0..Len(b)
        /\ (\A i \in 1..p : IsOld(b[i])) /\ (p < Len(b) => ~IsOld(b[p + 1]))
    BY BucketType, PoppedFacts
  <1>2. Young(k) = SubSeq(b, p + 1, Len(b))
    BY DEF Young
  <1>3. served[k] \in Seq(Times)
    BY DEF TypeOK, Times
  <1> HIDE DEF b, p
  <1>4. /\ Young(k) \in Seq(Times)
        /\ Len(Young(k)) = Len(b) - p
        /\ \A j \in 1..Len(Young(k)) : Young(k)[j] = b[p + j]
    BY <1>1, <1>2
  <1>5. /\ n \in 0..Len(served[k]) /\ Len(b) = Len(served[k]) - n
        /\ \A j \in 1..n : now - served[k][j] >= Window
        /\ \A j \in 1..(Len(served[k]) - n) : b[j] = served[k][n + j]
    BY DEF CutAt, b
  <1>6. Len(Young(k)) > 0 => ~IsOld(Young(k)[1])
    <2>1. SUFFICES ASSUME Len(Young(k)) > 0 PROVE ~IsOld(Young(k)[1])
      OBVIOUS
    <2>2. Young(k)[1] = b[p + 1] /\ p < Len(b)
      BY <1>1, <1>4, <2>1
    <2>3. QED
      BY <1>1, <2>2
  <1>7. n + p \in 0..Len(served[k]) /\ Len(Young(k)) = Len(served[k]) - (n + p)
    BY <1>1, <1>3, <1>4, <1>5
  <1>8. ASSUME NEW j \in 1..(n + p) PROVE now - served[k][j] >= Window
    <2>1. CASE j <= n
      BY <1>5, <2>1
    <2>2. CASE j > n
      <3>1. j - n \in 1..p /\ j - n \in 1..(Len(served[k]) - n) /\ n + (j - n) = j
        BY <1>1, <1>3, <1>5, <2>2
      <3>2. IsOld(served[k][j])
        BY <1>1, <1>5, <3>1
      <3>3. j \in 1..Len(served[k])
        BY <1>3, <1>7
      <3>4. served[k][j] \in Times
        BY <1>3, <3>3
      <3>5. now \in Times
        BY DEF TypeOK, Times
      <3>6. QED
        BY <3>2, <3>4, <3>5, RateLimiterAssumption DEF IsOld, Times, RateLimiterAssumption
    <2>3. QED
      BY <2>1, <2>2, <1>1, <1>5
  <1>9. ASSUME NEW j \in 1..Len(Young(k)) PROVE Young(k)[j] = served[k][n + p + j]
    <2>1. p + j \in 1..(Len(served[k]) - n) /\ n + (p + j) = n + p + j
      BY <1>1, <1>3, <1>4, <1>5
    <2>2. QED
      BY <1>4, <1>5, <2>1
  <1>10. QED
    BY <1>1, <1>4, <1>6, <1>7, <1>8, <1>9 DEF p, b

\* Rounding down to whole units and adding one goes beyond.
LEMMA WholeUnitsAbove ==
    ASSUME NEW w \in Nat, NEW u \in Nat \ {0}
    PROVE  u * ((w \div u) + 1) \in Nat \ {0} /\ u * ((w \div u) + 1) > w
  OBVIOUS

\* The seconds a caller is told to wait are longer than the wait.
LEMMA RetryAfterExceedsWait ==
    ASSUME TypeOK, NEW b, b[1] \in Times, ~IsOld(b[1])
    PROVE  /\ RetryAfter(b) \in Nat \ {0}
           /\ RetryAfter(b) > Wait(b)
  <1>1. Wait(b) \in Nat
    BY RateLimiterAssumption DEF RateLimiterAssumption, TypeOK, IsOld, Wait, Times
  <1>2. Second \in Nat \ {0}
    BY RateLimiterAssumption DEF RateLimiterAssumption
  <1>3. QED
    BY <1>1, <1>2, WholeUnitsAbove DEF RetryAfter

\* The sweep drops idle buckets and touches no other.
LEMMA SweptFacts ==
    ASSUME NEW h
    PROVE  /\ DOMAIN Swept(h) \subseteq DOMAIN h
           /\ \A j \in DOMAIN Swept(h) : Swept(h)[j] = h[j]
           /\ \A j \in DOMAIN h \ DOMAIN Swept(h) : IsIdle(h[j])
  <1>1. CASE Cardinality(DOMAIN h) > MaxKeys
    <2>1. Swept(h) = [k \in {j \in DOMAIN h : ~IsIdle(h[j])} |-> h[k]]
      BY <1>1 DEF Swept
    <2>2. QED
      BY <2>1
  <1>2. CASE ~(Cardinality(DOMAIN h) > MaxKeys)
    BY <1>2 DEF Swept
  <1>3. QED
    BY <1>1, <1>2

\* An admission: the bucket it leaves, and the other buckets.
LEMMA AdmitFacts ==
    ASSUME TypeOK, NEW k \in Keys, Admit(k), Young(k) \in Seq(Times)
    PROVE  LET b == Append(Young(k), now)
           IN  /\ b \in Seq(Times) /\ Len(b) = Len(Young(k)) + 1 /\ b[Len(b)] = now
               /\ k \in DOMAIN hits' /\ hits'[k] = b
               /\ DOMAIN hits' \subseteq DOMAIN hits \cup {k}
               /\ \A j \in DOMAIN hits' : j # k => hits'[j] = hits[j]
               /\ \A j \in DOMAIN hits \ DOMAIN hits' : j # k /\ IsIdle(hits[j])
  <1> DEFINE b == Append(Young(k), now)
             h == With(k, b)
  <1>1. hits' = Swept(h)
    BY DEF Admit
  <1>2. now \in Times
    BY DEF TypeOK, Times
  <1>3. b \in Seq(Times) /\ Len(b) = Len(Young(k)) + 1 /\ b[Len(b)] = now /\ b # <<>>
    BY <1>2
  <1> HIDE DEF b
  <1>4. DOMAIN h = DOMAIN hits \cup {k} /\ h[k] = b
        /\ \A j \in DOMAIN hits : j # k => h[j] = hits[j]
    BY DEF With
  <1> HIDE DEF h
  <1>5. ~IsIdle(b)
    <2>1. ~(now - b[Len(b)] >= Window)
      BY <1>2, <1>3, RateLimiterAssumption DEF RateLimiterAssumption, Times
    <2>2. QED
      BY <1>3, <2>1 DEF IsIdle
  <1>6. k \in DOMAIN hits'
    BY <1>1, <1>4, <1>5, SweptFacts
  <1>7. QED
    BY <1>1, <1>3, <1>4, <1>5, <1>6, SweptFacts DEF b

\* Every step keeps the types.
LEMMA TypeStep == IInv /\ [Next]_vars => TypeOK'
  <1> SUFFICES ASSUME IInv, [Next]_vars PROVE TypeOK'
    OBVIOUS
  <1>1. TypeOK /\ Ordered
    BY DEF IInv
  <1>2. ASSUME NEW k \in Keys, Admit(k) PROVE TypeOK'
    <2>1. PICK n \in Nat : CutAt(k, n)
      BY DEF IInv
    <2>2. Young(k) \in Seq(Times)
      BY <1>1, <2>1, YoungFacts
    <2>3. Len(Young(k)) + 1 \in 1..PerMinute
      BY <1>2, <2>2, PerMinuteType DEF Admit
    <2>4. DOMAIN hits' \subseteq Keys
          /\ \A j \in DOMAIN hits' : hits'[j] \in Seq(0..MaxTime) /\ Len(hits'[j]) \in 1..PerMinute
      <3>1. ASSUME NEW j \in DOMAIN hits'
            PROVE  hits'[j] \in Seq(Times) /\ Len(hits'[j]) \in 1..PerMinute
        <4>1. CASE j = k
          BY <1>1, <1>2, <2>2, <2>3, <4>1, AdmitFacts
        <4>2. CASE j # k
          <5>1. j \in DOMAIN hits /\ hits'[j] = hits[j]
            BY <1>1, <1>2, <2>2, <4>2, AdmitFacts
          <5>2. QED
            BY <1>1, <5>1 DEF TypeOK, Times
        <4>3. QED
          BY <4>1, <4>2
      <3>2. DOMAIN hits' \subseteq Keys
        BY <1>1, <1>2, <2>2, AdmitFacts DEF TypeOK
      <3>3. QED
        BY <3>1, <3>2 DEF Times
    <2>5. served' \in [Keys -> Seq(0..MaxTime)]
      BY <1>1, <1>2 DEF TypeOK, Admit
    <2>6. QED
      BY <1>1, <1>2, <2>4, <2>5 DEF TypeOK, Admit
  <1>3. ASSUME NEW k \in Keys, Refuse(k) PROVE TypeOK'
    <2>1. PICK n \in Nat : CutAt(k, n)
      BY DEF IInv
    <2>2. Young(k) \in Seq(Times) /\ Len(Young(k)) = PerMinute
          /\ Young(k)[1] \in Times /\ ~IsOld(Young(k)[1])
      <3>1. Young(k) \in Seq(Times) /\ Len(Young(k)) <= Len(Bucket(k))
            /\ (Len(Young(k)) > 0 => ~IsOld(Young(k)[1]))
        BY <1>1, <2>1, YoungFacts, BucketType
      <3>2. Len(Young(k)) = PerMinute
        BY <1>1, <1>3, <3>1, BucketType, PerMinuteType DEF Refuse
      <3>3. QED
        BY <3>1, <3>2, PerMinuteType
    <2>3. RetryAfter(Young(k)) \in Nat
      BY <1>1, <2>2, RetryAfterExceedsWait
    <2>4. hits' = With(k, Young(k))
      BY <1>3 DEF Refuse
    <2>5. DOMAIN hits' \subseteq Keys
          /\ \A j \in DOMAIN hits' : hits'[j] \in Seq(0..MaxTime) /\ Len(hits'[j]) \in 1..PerMinute
      <3>1. DOMAIN hits' = DOMAIN hits \cup {k} /\ hits'[k] = Young(k)
            /\ \A j \in DOMAIN hits : j # k => hits'[j] = hits[j]
        BY <2>4 DEF With
      <3>2. ASSUME NEW j \in DOMAIN hits'
            PROVE  j \in Keys /\ hits'[j] \in Seq(0..MaxTime) /\ Len(hits'[j]) \in 1..PerMinute
        BY <1>1, <2>2, <3>1, <3>2, PerMinuteType DEF TypeOK, Times
      <3>3. QED
        BY <3>2
    <2>6. comeback' \in [Keys -> Nat]
      BY <1>1, <1>3, <2>3 DEF TypeOK, Refuse
    <2>7. QED
      BY <1>1, <1>3, <2>5, <2>6 DEF TypeOK, Refuse
  <1>4. CASE Tick
    BY <1>1, <1>4, RateLimiterAssumption DEF TypeOK, Tick, RateLimiterAssumption
  <1>5. CASE UNCHANGED vars
    BY <1>1, <1>5 DEF TypeOK, vars
  <1>6. QED
    BY <1>2, <1>3, <1>4, <1>5 DEF Next

\* A bucket that a step leaves alone, of a key whose admissions it leaves
\* alone, is still what is left after the same cut.
LEMMA CutKept ==
    ASSUME TypeOK, TypeOK', NEW k \in Keys, NEW n \in Nat, CutAt(k, n),
           Bucket(k)' = Bucket(k), served'[k] = served[k], now' >= now
    PROVE  CutAt(k, n)'
  <1>1. served[k] \in Seq(Times) /\ n \in 0..Len(served[k]) /\ now \in Times /\ now' \in Times
    BY DEF TypeOK, CutAt, Times
  <1>2. ASSUME NEW j \in 1..n PROVE now' - served[k][j] >= Window
    <2>1. now - served[k][j] >= Window /\ served[k][j] \in Times
      BY <1>1 DEF CutAt
    <2>2. QED
      BY <1>1, <2>1, RateLimiterAssumption, SMTT(30) DEF RateLimiterAssumption, Times
  <1>3. QED
    BY <1>1, <1>2 DEF CutAt

\* The step that handles a request of k leaves every bucket cut.
LEMMA CutStep ==
    ASSUME IInv, TypeOK', [Next]_vars, NEW k \in Keys
    PROVE  \E n \in Nat : CutAt(k, n)'
  <1>1. TypeOK /\ Ordered
    BY DEF IInv
  <1>2. PICK n \in Nat : CutAt(k, n)
    BY DEF IInv
  <1>3. served[k] \in Seq(Times) /\ n \in 0..Len(served[k]) /\ now \in Times
    BY <1>1, <1>2 DEF TypeOK, CutAt, Times
  <1>4. PICK p \in Nat :
        /\ n + p \in 0..Len(served[k])
        /\ Young(k) \in Seq(Times) /\ Len(Young(k)) = Len(served[k]) - (n + p)
        /\ \A j \in 1..(n + p) : now - served[k][j] >= Window
        /\ \A j \in 1..Len(Young(k)) : Young(k)[j] = served[k][n + p + j]
    <2> DEFINE q == Popped(Bucket(k))
    <2>1. /\ q \in 0..Len(Bucket(k)) /\ n + q \in 0..Len(served[k])
          /\ Young(k) \in Seq(Times) /\ Len(Young(k)) = Len(served[k]) - (n + q)
          /\ \A j \in 1..(n + q) : now - served[k][j] >= Window
          /\ \A j \in 1..Len(Young(k)) : Young(k)[j] = served[k][n + q + j]
      BY <1>1, <1>2, YoungFacts
    <2>2. q \in Nat
      BY <1>1, <2>1, BucketType
    <2> HIDE DEF q
    <2>3. QED
      BY <2>1, <2>2
  <1>5. CASE Admit(k)
    <2>1. Bucket(k)' = Append(Young(k), now) /\ served'[k] = Append(served[k], now)
          /\ now' = now
      <3>1. k \in DOMAIN hits' /\ hits'[k] = Append(Young(k), now)
        BY <1>1, <1>4, <1>5, AdmitFacts
      <3>2. served'[k] = Append(served[k], now) /\ now' = now
        BY <1>1, <1>5 DEF Admit, TypeOK
      <3>3. QED
        BY <3>1, <3>2 DEF Bucket
    <2>2. /\ Len(served'[k]) = Len(served[k]) + 1 /\ Len(Bucket(k)') = Len(Young(k)) + 1
          /\ Len(served'[k]) - (n + p) = Len(Young(k)) + 1
          /\ n + p \in 0..Len(served'[k])
      BY <1>3, <1>4, <2>1
    <2>3. \A j \in 1..(n + p) : now' - served'[k][j] >= Window
      BY <1>3, <1>4, <2>1
    <2>4. ASSUME NEW j \in 1..(Len(served'[k]) - (n + p))
          PROVE  Bucket(k)'[j] = served'[k][n + p + j]
      <3>1. CASE j = Len(Young(k)) + 1
        <4>1. n + p + j = Len(served[k]) + 1
          BY <1>3, <1>4, <3>1
        <4>2. Bucket(k)'[j] = now
          BY <1>3, <1>4, <2>1, <3>1
        <4>3. served'[k][n + p + j] = now
          BY <1>3, <2>1, <4>1
        <4>4. QED
          BY <4>2, <4>3
      <3>2. CASE j # Len(Young(k)) + 1
        <4>1. j \in 1..Len(Young(k)) /\ n + p + j \in 1..Len(served[k])
          <5>1. j \in 1..(Len(Young(k)) + 1) /\ Len(Young(k)) \in Nat
            BY <1>4, <2>2
          <5>2. j \in 1..Len(Young(k))
            BY <3>2, <5>1
          <5>3. QED
            BY <1>3, <1>4, <5>2
        <4>2. Bucket(k)'[j] = Young(k)[j] /\ served'[k][n + p + j] = served[k][n + p + j]
          BY <1>3, <1>4, <2>1, <4>1
        <4>3. QED
          BY <1>4, <4>1, <4>2
      <3>3. QED
        BY <3>1, <3>2
    <2>5. CutAt(k, n + p)'
      BY <2>2, <2>3, <2>4 DEF CutAt
    <2>6. QED
      BY <1>4, <2>5
  <1>6. CASE Refuse(k)
    <2>1. Bucket(k)' = Young(k) /\ served' = served /\ now' = now
      BY <1>6 DEF Refuse, Bucket, With
    <2>2. CutAt(k, n + p)'
      BY <1>3, <1>4, <2>1 DEF CutAt
    <2>3. QED
      BY <1>4, <2>2
  <1>7. ASSUME NEW j \in Keys, j # k, Admit(j)
        PROVE  \E m \in Nat : CutAt(k, m)'
    <2>1. PICK m \in Nat : CutAt(j, m)
      BY DEF IInv
    <2>2. Young(j) \in Seq(Times)
      BY <1>1, <2>1, YoungFacts
    <2>3. served'[k] = served[k] /\ now' = now
      BY <1>1, <1>7 DEF Admit, TypeOK
    <2>4. CASE k \in DOMAIN hits' \/ k \notin DOMAIN hits
      <3>1. Bucket(k)' = Bucket(k)
        BY <1>1, <1>7, <2>2, <2>4, AdmitFacts DEF Bucket
      <3>2. QED
        BY <1>1, <1>2, <1>3, <2>3, <3>1, CutKept DEF Times
    <2>5. CASE k \in DOMAIN hits /\ k \notin DOMAIN hits'
      <3>1. IsIdle(hits[k])
        BY <1>1, <1>7, <2>2, <2>5, AdmitFacts
      <3>2. hits[k] = Bucket(k) /\ hits[k] \in Seq(Times) /\ Len(hits[k]) \in 1..PerMinute
        BY <1>1, <2>5 DEF TypeOK, Bucket, Times
      <3>3. now - hits[k][Len(hits[k])] >= Window
        BY <3>1, <3>2, PerMinuteType DEF IsIdle
      <3>4. hits[k][Len(hits[k])] = served[k][Len(served[k])] /\ Len(served[k]) >= 1
        BY <1>2, <1>3, <3>2, PerMinuteType DEF CutAt
      <3>5. ASSUME NEW i \in 1..Len(served[k]) PROVE now - served[k][i] >= Window
        <4>1. served[k][i] <= served[k][Len(served[k])]
          BY <1>1, <1>3, <3>4 DEF Ordered
        <4>2. served[k][i] \in Times /\ served[k][Len(served[k])] \in Times
          BY <1>3, <3>4
        <4>3. QED
          BY <1>3, <3>3, <3>4, <4>1, <4>2, RateLimiterAssumption, SMTT(30)
             DEF RateLimiterAssumption, Times
      <3>6. Bucket(k)' = <<>>
        BY <2>5 DEF Bucket
      <3>7. CutAt(k, Len(served[k]))'
        BY <1>3, <2>3, <3>5, <3>6 DEF CutAt
      <3>8. QED
        BY <1>3, <3>7
    <2>6. QED
      BY <2>4, <2>5
  <1>8. ASSUME NEW j \in Keys, j # k, Refuse(j)
        PROVE  \E m \in Nat : CutAt(k, m)'
    <2>1. Bucket(k)' = Bucket(k) /\ served' = served /\ now' = now
      BY <1>8 DEF Refuse, Bucket, With
    <2>2. QED
      BY <1>1, <1>2, <1>3, <2>1, CutKept DEF Times
  <1>9. CASE Tick \/ UNCHANGED vars
    <2>1. hits' = hits /\ served' = served /\ now' >= now
      BY <1>3, <1>9 DEF Tick, vars, Times
    <2>2. QED
      BY <1>1, <1>2, <2>1, CutKept DEF Bucket
  <1>10. QED
    BY <1>5, <1>6, <1>7, <1>8, <1>9 DEF Next

\* An admission is recorded at the present time, after all the others.
LEMMA OrderedStep == IInv /\ TypeOK' /\ [Next]_vars => Ordered'
  <1> SUFFICES ASSUME IInv, TypeOK', [Next]_vars, NEW k \in Keys
               PROVE  /\ \A i \in DOMAIN served'[k] : served'[k][i] <= now'
                      /\ \A i, j \in DOMAIN served'[k] :
                            i <= j => served'[k][i] <= served'[k][j]
    BY DEF Ordered
  <1>1. TypeOK /\ Ordered
    BY DEF IInv
  <1>2. served[k] \in Seq(Times) /\ now \in Times /\ now' \in Times
        /\ \A i \in DOMAIN served[k] : served[k][i] \in Times /\ served[k][i] <= now
    <2>1. served[k] \in Seq(Times) /\ now \in Times /\ now' \in Times
      BY <1>1 DEF TypeOK, Times
    <2>2. \A i \in DOMAIN served[k] : served[k][i] <= now
      BY <1>1 DEF Ordered
    <2>3. QED
      BY <2>1, <2>2
  <1>3. CASE Admit(k)
    <2>1. served'[k] = Append(served[k], now) /\ now' = now
      BY <1>1, <1>3 DEF Admit, TypeOK
    <2>2. /\ DOMAIN served'[k] = 1..(Len(served[k]) + 1)
          /\ served'[k][Len(served[k]) + 1] = now
          /\ \A i \in 1..Len(served[k]) : served'[k][i] = served[k][i]
      BY <1>2, <2>1
    <2>3. ASSUME NEW i \in DOMAIN served'[k] PROVE served'[k][i] <= now
      BY <1>2, <2>2 DEF Times
    <2>4. ASSUME NEW i \in DOMAIN served'[k], NEW j \in DOMAIN served'[k], i <= j
          PROVE  served'[k][i] <= served'[k][j]
      <3>1. CASE j = Len(served[k]) + 1
        BY <2>2, <2>3, <3>1
      <3>2. CASE j # Len(served[k]) + 1
        <4>1. i \in 1..Len(served[k]) /\ j \in 1..Len(served[k])
          BY <1>2, <2>2, <2>4, <3>2
        <4>2. QED
          BY <1>1, <1>2, <2>2, <2>4, <4>1 DEF Ordered
      <3>3. QED
        BY <3>1, <3>2
    <2>5. QED
      BY <2>1, <2>3, <2>4
  <1>4. CASE ~Admit(k)
    <2>1. served'[k] = served[k]
      BY <1>1, <1>4 DEF Next, Admit, Refuse, Tick, vars, TypeOK
    <2>2. now' = now \/ now' = now + 1
      BY DEF Next, Admit, Refuse, Tick, vars
    <2>3. now' >= now
      BY <1>2, <2>2 DEF Times
    <2>4. QED
      BY <1>1, <1>2, <2>1, <2>3 DEF Ordered, Times
  <1>5. QED
    BY <1>3, <1>4

\* The admission PerMinute places before a new one has been cut off.
LEMMA WindowStep == IInv /\ TypeOK' /\ [Next]_vars => WindowHolds'
  <1> SUFFICES ASSUME IInv, TypeOK', [Next]_vars,
                      NEW k \in Keys, NEW i \in DOMAIN served'[k],
                      i + PerMinute <= Len(served'[k])
               PROVE  served'[k][i + PerMinute] - served'[k][i] >= Window
    BY DEF WindowHolds
  <1>1. TypeOK /\ Ordered /\ WindowHolds
    BY DEF IInv
  <1>2. served[k] \in Seq(Times) /\ now \in Times /\ PerMinute \in Nat \ {0}
    BY <1>1, PerMinuteType DEF TypeOK, Times
  <1>3. CASE Admit(k)
    <2>1. served'[k] = Append(served[k], now)
      BY <1>1, <1>3 DEF Admit, TypeOK
    <2>2. /\ i \in 1..(Len(served[k]) + 1) /\ Len(served'[k]) = Len(served[k]) + 1
          /\ served'[k][Len(served[k]) + 1] = now
          /\ \A j \in 1..Len(served[k]) : served'[k][j] = served[k][j]
      BY <1>2, <2>1
    <2>3. CASE i + PerMinute = Len(served[k]) + 1
      <3>1. PICK n \in Nat : CutAt(k, n)
        BY DEF IInv
      <3>2. PICK m \in 0..Len(served[k]) :
                /\ Len(Young(k)) = Len(served[k]) - m
                /\ \A j \in 1..m : now - served[k][j] >= Window
        <4> DEFINE m == n + Popped(Bucket(k))
        <4>1. /\ m \in 0..Len(served[k]) /\ Len(Young(k)) = Len(served[k]) - m
              /\ \A j \in 1..m : now - served[k][j] >= Window
          BY <1>1, <3>1, YoungFacts
        <4> HIDE DEF m
        <4>2. QED
          BY <4>1
      <3>3. Len(Young(k)) < PerMinute
        BY <1>3 DEF Admit
      <3>4. i \in 1..m /\ i \in 1..Len(served[k])
        BY <1>2, <2>2, <2>3, <3>2, <3>3
      <3>5. QED
        BY <2>2, <2>3, <3>2, <3>4
    <2>4. CASE i + PerMinute # Len(served[k]) + 1
      <3>1. i \in 1..Len(served[k]) /\ i + PerMinute \in 1..Len(served[k])
        BY <1>2, <2>2, <2>4
      <3>2. QED
        BY <1>1, <1>2, <2>2, <3>1, SMTT(30) DEF WindowHolds
    <2>5. QED
      BY <2>3, <2>4
  <1>4. CASE ~Admit(k)
    <2>1. served'[k] = served[k]
      BY <1>1, <1>4 DEF Next, Admit, Refuse, Tick, vars, TypeOK
    <2>2. QED
      BY <1>1, <1>2, <2>1 DEF WindowHolds
  <1>5. QED
    BY <1>3, <1>4

\* A full bucket keeps the head it had when its key was last refused.
LEMMA AdvisedStep == IInv /\ TypeOK' /\ [Next]_vars => Advised'
  <1> SUFFICES ASSUME IInv, TypeOK', [Next]_vars, NEW k \in Keys,
                      comeback'[k] # 0, Len(Bucket(k)') >= PerMinute
               PROVE  Bucket(k)'[1] + Window < comeback'[k]
    BY DEF Advised
  <1>1. TypeOK /\ Ordered /\ Advised
    BY DEF IInv
  <1>2. PerMinute \in Nat \ {0} /\ now \in Times /\ comeback \in [Keys -> Nat]
    BY <1>1, PerMinuteType DEF TypeOK, Times
  <1>3. ASSUME NEW j \in Keys PROVE Young(j) \in Seq(Times)
               /\ (Len(Young(j)) > 0 => ~IsOld(Young(j)[1]))
    <2>1. PICK n \in Nat : CutAt(j, n)
      BY DEF IInv
    <2>2. QED
      BY <1>1, <2>1, YoungFacts
  <1>4. CASE Admit(k)
    <2>1. comeback'[k] = 0
      BY <1>2, <1>4 DEF Admit
    <2>2. QED
      BY <2>1
  <1>5. CASE Refuse(k)
    <2>1. Bucket(k)' = Young(k) /\ comeback'[k] = now + RetryAfter(Young(k))
      BY <1>2, <1>5 DEF Refuse, Bucket, With
    <2>2. Young(k)[1] \in Times /\ ~IsOld(Young(k)[1])
      BY <1>2, <1>3, <1>5 DEF Refuse
    <2>3. RetryAfter(Young(k)) \in Nat /\ RetryAfter(Young(k)) > Window - (now - Young(k)[1])
      BY <1>1, <2>2, RetryAfterExceedsWait DEF Wait
    <2>4. QED
      BY <1>2, <2>1, <2>2, <2>3, RateLimiterAssumption DEF RateLimiterAssumption, Times
  <1>6. ASSUME NEW j \in Keys, j # k, Admit(j)
        PROVE  Bucket(k)'[1] + Window < comeback'[k]
    <2>1. comeback'[k] = comeback[k]
      BY <1>2, <1>6 DEF Admit
    <2>2. k \in DOMAIN hits'
      BY <1>2 DEF Bucket
    <2>3. Bucket(k)' = Bucket(k)
      BY <1>1, <1>3, <1>6, <2>2, AdmitFacts DEF Bucket
    <2>4. QED
      BY <1>1, <2>1, <2>3 DEF Advised
  <1>7. ASSUME NEW j \in Keys, j # k, Refuse(j)
        PROVE  Bucket(k)'[1] + Window < comeback'[k]
    <2>1. comeback'[k] = comeback[k] /\ Bucket(k)' = Bucket(k)
      BY <1>2, <1>7 DEF Refuse, Bucket, With
    <2>2. QED
      BY <1>1, <2>1 DEF Advised
  <1>8. CASE Tick \/ UNCHANGED vars
    <2>1. comeback' = comeback /\ hits' = hits
      BY <1>8 DEF Tick, vars
    <2>2. QED
      BY <1>1, <2>1 DEF Advised, Bucket
  <1>9. QED
    BY <1>4, <1>5, <1>6, <1>7, <1>8 DEF Next

LEMMA InitIInv == Init => IInv
  <1> SUFFICES ASSUME Init PROVE IInv
    OBVIOUS
  <1>1. TypeOK
    BY RateLimiterAssumption DEF Init, TypeOK, RateLimiterAssumption
  <1>2. \A k \in Keys : served[k] = <<>> /\ Bucket(k) = <<>> /\ comeback[k] = 0
    BY DEF Init, Bucket
  <1>3. Ordered /\ WindowHolds /\ Advised
    BY <1>2 DEF Ordered, WindowHolds, Advised
  <1>4. ASSUME NEW k \in Keys PROVE CutAt(k, 0)
    BY <1>2 DEF CutAt
  <1>5. QED
    BY <1>1, <1>3, <1>4 DEF IInv

LEMMA Step == IInv /\ [Next]_vars => IInv'
  <1> SUFFICES ASSUME IInv, [Next]_vars PROVE IInv'
    OBVIOUS
  <1>1. TypeOK'
    BY TypeStep
  <1>2. ASSUME NEW k \in Keys PROVE \E n \in Nat : CutAt(k, n)'
    BY <1>1, CutStep
  <1>3. Ordered' /\ WindowHolds' /\ Advised'
    BY <1>1, OrderedStep, WindowStep, AdvisedStep
  <1>4. QED
    BY <1>1, <1>2, <1>3 DEF IInv

LEMMA Invariant == Spec => []IInv
  BY InitIInv, Step, PTL DEF Spec

\* Every reachable state is well typed and no bucket exceeds the limit.
THEOREM TypeCorrect == Spec => []TypeOK
  <1>1. IInv => TypeOK
    BY DEF IInv
  <1>2. QED
    BY <1>1, Invariant, PTL

\* A key gets at most PerMinute admissions within a window, with any number
\* of other keys and of sweeps (RateLimiter.allow).
THEOREM BudgetHolds == Spec => []WindowHolds
  <1>1. IInv => WindowHolds
    BY DEF IInv
  <1>2. QED
    BY <1>1, Invariant, PTL

\* The Retry-After header of a refusal is long enough (middleware.py).
THEOREM RetryAfterSuffices == Spec => RetryAfterIsKept
  <1> DEFINE Kept == \A k \in Keys :
                 comeback[k] # 0 /\ comeback'[k] \notin {0, comeback[k]}
                     => now < comeback[k]
  <1>1. IInv /\ [Next]_vars => [Kept]_vars
    <2> SUFFICES ASSUME IInv, [Next]_vars, NEW k \in Keys,
                        comeback[k] # 0, comeback'[k] \notin {0, comeback[k]}
                 PROVE  now < comeback[k]
      OBVIOUS
    <2>1. TypeOK /\ Ordered /\ Advised /\ PerMinute \in Nat \ {0}
      BY PerMinuteType DEF IInv
    <2>2. PICK n \in Nat : CutAt(k, n)
      BY DEF IInv
    <2>3. Refuse(k)
      <3>1. comeback \in [Keys -> Nat]
        BY <2>1 DEF TypeOK
      <3>2. QED
        BY <3>1 DEF Next, Admit, Refuse, Tick, vars
    <2> DEFINE p == Popped(Bucket(k))
    <2>4. /\ p \in 0..Len(Bucket(k)) /\ Len(Young(k)) = Len(Bucket(k)) - p
          /\ \A j \in 1..Len(Young(k)) : Young(k)[j] = Bucket(k)[p + j]
          /\ Len(Young(k)) > 0 => ~IsOld(Young(k)[1])
          /\ Young(k) \in Seq(Times)
      BY <2>1, <2>2, YoungFacts
    <2>5. Len(Bucket(k)) \in 0..PerMinute /\ Len(Young(k)) >= PerMinute
      BY <2>1, <2>3, BucketType DEF Refuse
    <2> HIDE DEF p
    <2>6. p = 0 /\ Len(Bucket(k)) >= PerMinute
      BY <2>1, <2>4, <2>5
    <2>7. Bucket(k)[1] = Young(k)[1] /\ Young(k)[1] \in Times /\ ~IsOld(Young(k)[1])
      BY <2>1, <2>4, <2>5, <2>6
    <2>8. Bucket(k)[1] + Window < comeback[k]
      BY <2>1, <2>6 DEF Advised
    <2>9. QED
      BY <2>1, <2>7, <2>8, RateLimiterAssumption
         DEF RateLimiterAssumption, TypeOK, IsOld, Times
  <1>2. QED
    BY <1>1, Invariant, PTL DEF Spec, RetryAfterIsKept

\* The limiter decides as one that remembers every admission: its buckets,
\* pops and sweep implement SlidingWindow.
THEOREM LimiterImplementsWindow == Spec => ImplementsWindow
  <1>1. Init => Exact!Init
    BY DEF Init, Exact!Init
  <1>2. IInv /\ [Next]_vars => [Exact!Next]_(Exact!vars)
    <2> SUFFICES ASSUME IInv, [Next]_vars
                 PROVE  Exact!Next \/ UNCHANGED Exact!vars
      OBVIOUS
    <2>1. TypeOK /\ Ordered /\ PerMinute \in Nat \ {0} /\ now \in Times
      BY PerMinuteType DEF IInv, TypeOK, Times
    <2>2. ASSUME NEW k \in Keys
          PROVE  \E m \in 0..Len(served[k]) :
                    /\ Young(k) \in Seq(Times)
                    /\ Len(Young(k)) = Len(served[k]) - m
                    /\ \A j \in 1..m : now - served[k][j] >= Window
                    /\ \A j \in 1..Len(Young(k)) : Young(k)[j] = served[k][m + j]
                    /\ Len(Young(k)) > 0 => ~IsOld(Young(k)[1])
      <3>1. PICK n \in Nat : CutAt(k, n)
        BY DEF IInv
      <3> DEFINE m == n + Popped(Bucket(k))
      <3>2. /\ m \in 0..Len(served[k])
            /\ Young(k) \in Seq(Times)
            /\ Len(Young(k)) = Len(served[k]) - m
            /\ \A j \in 1..m : now - served[k][j] >= Window
            /\ \A j \in 1..Len(Young(k)) : Young(k)[j] = served[k][m + j]
            /\ Len(Young(k)) > 0 => ~IsOld(Young(k)[1])
        BY <2>1, <3>1, YoungFacts
      <3> HIDE DEF m
      <3>3. QED
        BY <3>2
    <2>3. ASSUME NEW k \in Keys, Admit(k)
          PROVE  Exact!Admit(k)
      <3>1. PICK m \in 0..Len(served[k]) :
                /\ Young(k) \in Seq(Times)
                /\ Len(Young(k)) = Len(served[k]) - m
                /\ \A j \in 1..m : now - served[k][j] >= Window
        BY <2>2
      <3>2. served[k] \in Seq(Times)
        BY <2>1 DEF TypeOK, Times
      <3>3. Len(served[k]) - m < PerMinute
        BY <2>3, <3>1 DEF Admit
      <3>4. ASSUME Len(served[k]) >= PerMinute
            PROVE  now - served[k][Len(served[k]) + 1 - PerMinute] >= Window
        <4>1. Len(served[k]) + 1 - PerMinute \in 1..m
          BY <2>1, <3>1, <3>2, <3>3, <3>4
        <4>2. QED
          BY <3>1, <4>1
      <3>5. QED
        BY <2>3, <3>4 DEF Admit, Exact!Admit, Exact!Spent, Exact!Span
    <2>4. ASSUME NEW k \in Keys, Refuse(k)
          PROVE  Exact!Refuse(k)
      <3>1. PICK m \in 0..Len(served[k]) :
                /\ Young(k) \in Seq(Times)
                /\ Len(Young(k)) = Len(served[k]) - m
                /\ \A j \in 1..Len(Young(k)) : Young(k)[j] = served[k][m + j]
                /\ Len(Young(k)) > 0 => ~IsOld(Young(k)[1])
        BY <2>2
      <3>2. served[k] \in Seq(Times) /\ Len(Young(k)) >= PerMinute
        BY <2>1, <2>4 DEF TypeOK, Times, Refuse
      <3>3. ~IsOld(served[k][m + 1]) /\ m + 1 \in 1..Len(served[k])
        BY <2>1, <3>1, <3>2
      <3>4. Len(served[k]) >= PerMinute /\ Len(served[k]) + 1 - PerMinute \in 1..Len(served[k])
            /\ m + 1 <= Len(served[k]) + 1 - PerMinute
        BY <2>1, <3>1, <3>2
      <3>5. now - served[k][Len(served[k]) + 1 - PerMinute] <= Window
        <4> DEFINE i == Len(served[k]) + 1 - PerMinute
        <4>1. served[k][m + 1] <= served[k][i]
          BY <2>1, <3>2, <3>3, <3>4 DEF Ordered
        <4>2. served[k][i] \in Times /\ served[k][m + 1] \in Times
          BY <3>2, <3>3, <3>4
        <4> HIDE DEF i
        <4>3. now - served[k][i] <= Window
          BY <2>1, <3>3, <4>1, <4>2, RateLimiterAssumption
             DEF RateLimiterAssumption, IsOld, Times
        <4>4. QED
          BY <4>3 DEF i
      <3>6. QED
        BY <2>4, <3>4, <3>5 DEF Refuse, Exact!Refuse, Exact!Spent, Exact!Span
    <2>5. CASE Tick
      <3>1. now' > now /\ served' = served /\ answer' = answer
        BY <2>1, <2>5 DEF Tick, Times
      <3>2. QED
        BY <3>1 DEF Exact!Next, Exact!Pass
    <2>6. CASE UNCHANGED vars
      BY <2>6 DEF vars, Exact!vars
    <2>7. QED
      BY <2>3, <2>4, <2>5, <2>6 DEF Next, Exact!Next
  <1>3. QED
    BY <1>1, <1>2, Invariant, PTL DEF Spec, ImplementsWindow, Exact!Spec
=============================================================================
