-------------------------- MODULE MiddlewareProofs --------------------------
(***************************************************************************)
(* Proofs about the tool call middleware, in two parts.                    *)
(*                                                                         *)
(* ToolCalls, for every set of calls, toggles, callers and tools, every    *)
(* cap and every gap: the slots are exact and within the cap, and a tool   *)
(* that was switched off is not reached.                                   *)
(*                                                                         *)
(* Enrichment, for any calls, accounts, texts, times and tolerance: the    *)
(* representations of a result agree; if the account does not change       *)
(* between the two requests, an id that was added is the call's own; and   *)
(* the id of a lone tweet is found.                                        *)
(***************************************************************************)
EXTENDS ToolCalls, Enrichment, FiniteSetTheorems, TLAPS

-----------------------------------------------------------------------------
(* The inductive invariant.                                                *)

\* The lock is held by the task that waits for its list of flags.
LockIsHeld ==
    /\ \A c \in Calls : pc[c] = "load" <=> flagLock = c
    /\ \A x \in Toggles : tpc[x] = "load" <=> flagLock = x

\* An answer that is on its way differs from the store only in tools that
\* some toggle has written since and will refresh with the lock, and in tools
\* that were restored since, about which nothing is promised.
AnswersAreCurrent ==
    \A z \in Tasks, t \in Tools :
        flagLock = z /\ got[z][t] # stored[t] =>
            \/ \E y \in Toggles : tpc[y] = "lock" /\ ttool[y] = t
            \/ ~off[t] /\ (z \in Toggles /\ ttool[z] = t => z \in undone)

\* A tool that is off for good is so in the store and in the cache, and no
\* toggle of it is under way.
OffMeans ==
    \A t \in Tools : off[t] =>
        /\ ~stored[t] /\ ~flags[t]
        /\ \A y \in Toggles : tpc[y] \in {"write", "lock", "load"} => ttool[y] # t

\* A call that is barred has not passed the decision.
BarredMeans ==
    \A c \in barred : off[Tool(c)] /\ pc[c] \in CallPCs \ ({"idle", "admit"} \cup Held)

IInv ==
    TypeOK /\ SlotsAreExact /\ LockIsHeld /\ AnswersAreCurrent /\ OffMeans /\ BarredMeans

-----------------------------------------------------------------------------
(* Counting the calls of a pair.                                           *)

\* A finite set of calls gains or loses one element.
LEMMA InPairIsFinite ==
    ASSUME TypeOK, NEW k \in Pairs
    PROVE  IsFiniteSet(InPair(k)) /\ Cardinality(InPair(k)) \in Nat
PROOF
    BY ToolCallsAssumption, FS_Subset, FS_CardinalityType DEF InPair

\* A call comes into flight.
LEMMA InPairGains ==
    ASSUME TypeOK, NEW c \in Calls, pc[c] \notin Held, pc' = [pc EXCEPT ![c] = "gap"],
           pair' = pair
    PROVE  \A k \in Pairs : Cardinality(InPair(k))' =
               IF k = pair[c] THEN Cardinality(InPair(k)) + 1 ELSE Cardinality(InPair(k))
PROOF
<1> SUFFICES ASSUME NEW k \in Pairs
             PROVE  Cardinality(InPair(k))' =
               IF k = pair[c] THEN Cardinality(InPair(k)) + 1 ELSE Cardinality(InPair(k))
    OBVIOUS
<1>1. CASE k = pair[c]
  <2>1. InPair(k)' = InPair(k) \cup {c} /\ c \notin InPair(k)
    BY <1>1 DEF InPair, TypeOK, Held
  <2>2. QED
    BY <1>1, <2>1, InPairIsFinite, FS_AddElement
<1>2. CASE k # pair[c]
  <2>1. InPair(k)' = InPair(k)
    BY <1>2 DEF InPair, TypeOK, Held
  <2>2. QED
    BY <1>2, <2>1
<1>3. QED
    BY <1>1, <1>2

\* A call that was in flight ends.
LEMMA InPairLoses ==
    ASSUME TypeOK, NEW c \in Calls, pc[c] \in Held, pc' = [pc EXCEPT ![c] = "idle"],
           pair' = pair
    PROVE  \A k \in Pairs : Cardinality(InPair(k))' =
               IF k = pair[c] THEN Cardinality(InPair(k)) - 1 ELSE Cardinality(InPair(k))
PROOF
<1> SUFFICES ASSUME NEW k \in Pairs
             PROVE  Cardinality(InPair(k))' =
               IF k = pair[c] THEN Cardinality(InPair(k)) - 1 ELSE Cardinality(InPair(k))
    OBVIOUS
<1>1. CASE k = pair[c]
  <2>1. InPair(k)' = InPair(k) \ {c} /\ c \in InPair(k)
    <3>1. \A d \in Calls : pc'[d] = IF d = c THEN "idle" ELSE pc[d]
      BY DEF TypeOK
    <3>2. QED
      BY <1>1, <3>1 DEF InPair, Held
  <2>2. QED
    BY <1>1, <2>1, InPairIsFinite, FS_RemoveElement
<1>2. CASE k # pair[c]
  <2>1. InPair(k)' = InPair(k)
    BY <1>2 DEF InPair, TypeOK, Held
  <2>2. QED
    BY <1>2, <2>1
<1>3. QED
    BY <1>1, <1>2

\* Where the calls in flight stay the same, so do their numbers.
LEMMA InPairStays ==
    ASSUME TypeOK,
           \A d \in Calls : /\ pc'[d] \in Held <=> pc[d] \in Held
                            /\ pc[d] \in Held => pair'[d] = pair[d]
    PROVE  \A k \in Pairs : Cardinality(InPair(k))' = Cardinality(InPair(k))
PROOF
<1>1. \A k \in Pairs : InPair(k)' = InPair(k)
    BY DEF InPair
<1>2. QED
    BY <1>1

\* A call in flight has a slot of its pair.
LEMMA HeldCounts ==
    ASSUME TypeOK, SlotsAreExact, NEW c \in Calls, pc[c] \in Held
    PROVE  pair[c] \in Pairs /\ inFlight[pair[c]] \in Nat \ {0}
PROOF
<1>1. pair[c] \in Pairs /\ c \in InPair(pair[c])
    BY DEF TypeOK, InPair
<1>2. InPair(pair[c]) # {}
    BY <1>1
<1>3. QED
    BY <1>1, <1>2, InPairIsFinite, FS_EmptySet DEF SlotsAreExact

-----------------------------------------------------------------------------
(* What a step does to each part of the invariant.                         *)

\* What the stores and the delays are set to.
LEMMA AllOnIsFlags == AllOn \in Flags
PROOF
    BY DEF AllOn, Flags

LEMMA DelaysAreBounded == \A k \in Pairs : Delay(k) \subseteq Delays
PROOF
    BY ToolCallsAssumption DEF Delay, Delays

LEMMA TypeOKStep == IInv /\ [Next]_vars => TypeOK'
PROOF
<1> SUFFICES ASSUME IInv, [Next]_vars PROVE TypeOK'
    OBVIOUS
<1> USE ToolCallsAssumption
<1>1. CASE UNCHANGED <<stored, flags, loaded, fresh, flagLock, got, inFlight,
                       pc, pair, delay, tpc, ttool, tset, off, barred, undone>>
    BY <1>1 DEF IInv, TypeOK, Flags, AllOn, Tasks, CallPCs, Held, Delays,
        Pairs
<1>2. ASSUME NEW c \in Calls, NEW k \in Pairs, NEW tester \in BOOLEAN, BeginCall(c, k, tester)
     PROVE  TypeOK'
    BY <1>2 DEF IInv, TypeOK, Flags, AllOn, Tasks, CallPCs, Held, Delays,
        Pairs, BeginCall, Goto, flagVars, paceVars, toggleVars
<1>3. ASSUME NEW c \in Calls, TesterCheck(c)
     PROVE  TypeOK'
    BY <1>3 DEF IInv, TypeOK, Flags, AllOn, Tasks, CallPCs, Held, Delays,
        Pairs, TesterCheck, EndRefused, Goto, flagVars, paceVars, toggleVars,
        histVars
<1>4. ASSUME NEW c \in Calls, CheckFresh(c)
     PROVE  TypeOK'
    BY <1>4 DEF IInv, TypeOK, Flags, AllOn, Tasks, CallPCs, Held, Delays,
        Pairs, CheckFresh, Goto, flagVars, paceVars, toggleVars, histVars
<1>5. ASSUME NEW c \in Calls, LockAndRead(c)
     PROVE  TypeOK'
  <2>1. CASE fresh
    BY <1>5, <2>1, AllOnIsFlags DEF IInv, TypeOK, Tasks, CallPCs, LockAndRead, Goto,
        paceVars, toggleVars, histVars
  <2>2. CASE ~fresh
    BY <1>5, <2>2, AllOnIsFlags DEF IInv, TypeOK, Tasks, CallPCs, LockAndRead, Goto,
        TakeFlagLock, ReadFlags, paceVars, toggleVars, histVars
  <2>3. QED
    BY <1>5, <2>1, <2>2 DEF LockAndRead
<1>6. ASSUME NEW c \in Calls, Load(c)
     PROVE  TypeOK'
  <2>1. CASE UseFlags(c)
    BY <1>6, <2>1, AllOnIsFlags DEF IInv, TypeOK, Tasks, CallPCs, Load, Goto,
        UseFlags, DropAnswer, paceVars, toggleVars, histVars
  <2>2. CASE RefreshFails(c)
    BY <1>6, <2>2, AllOnIsFlags DEF IInv, TypeOK, Tasks, CallPCs, Load, Goto,
        RefreshFails, DropAnswer, paceVars, toggleVars, histVars
  <2>3. QED
    BY <1>6, <2>1, <2>2 DEF Load
<1>7. ASSUME NEW c \in Calls, CancelInRefresh(c)
     PROVE  TypeOK'
    BY <1>7 DEF IInv, TypeOK, Flags, AllOn, Tasks, CallPCs, Held, Delays,
        Pairs, CancelInRefresh, EndRefused, Goto, DropAnswer, paceVars,
        toggleVars
<1>8. ASSUME NEW c \in Calls, Decide(c)
     PROVE  TypeOK'
    BY <1>8 DEF IInv, TypeOK, CallPCs, Decide, EndRefused, Goto, flagVars,
        paceVars, toggleVars, histVars
<1>9. ASSUME NEW c \in Calls, Admit(c)
     PROVE  TypeOK'
  <2>1. CASE HasRoom(pair[c])
    <3>1. \A d \in Delay(pair[c]) : d \in Delays
      BY DelaysAreBounded DEF IInv, TypeOK
    <3>2. delay' \in [Calls -> Delays] /\ inFlight' \in [Pairs -> Nat]
      BY <1>9, <2>1, <3>1 DEF IInv, TypeOK, Admit
    <3>3. QED
      BY <1>9, <2>1, <3>2 DEF IInv, TypeOK, Admit, Goto, CallPCs, Held, flagVars,
          toggleVars, histVars
  <2>2. CASE ~HasRoom(pair[c])
    BY <1>9, <2>2 DEF IInv, TypeOK, Admit, EndRefused, Goto, CallPCs, flagVars, toggleVars
  <2>3. QED
    BY <2>1, <2>2
<1>10. ASSUME NEW c \in Calls, Start(c)
     PROVE  TypeOK'
    BY <1>10 DEF IInv, TypeOK, Flags, AllOn, Tasks, CallPCs, Held, Delays,
        Pairs, Start, Goto, flagVars, paceVars, toggleVars, histVars
<1>11. ASSUME NEW c \in Calls, Finish(c)
     PROVE  TypeOK'
  <2>1. pc[c] \in Held
    BY <1>11 DEF Finish, Held
  <2>2. inFlight' \in [Pairs -> Nat]
    BY <1>11, <2>1, HeldCounts DEF IInv, Finish, Release, TypeOK
  <2>3. QED
    BY <1>11, <2>2 DEF IInv, TypeOK, Delays, CallPCs, Finish, EndRefused, Goto, flagVars,
        toggleVars, Held
<1>12. ASSUME NEW c \in Calls, CancelInGap(c)
     PROVE  TypeOK'
  <2>1. pc[c] \in Held
    BY <1>12 DEF CancelInGap, Held
  <2>2. inFlight' \in [Pairs -> Nat]
    BY <1>12, <2>1, HeldCounts DEF IInv, CancelInGap, Release, TypeOK
  <2>3. QED
    BY <1>12, <2>2 DEF IInv, TypeOK, Delays, CallPCs, CancelInGap, EndRefused, Goto, flagVars,
        toggleVars, Held
<1>13. ASSUME NEW x \in Toggles, NEW t \in Tools, NEW on \in BOOLEAN, BeginToggle(x, t, on)
     PROVE  TypeOK'
    BY <1>13 DEF IInv, TypeOK, Flags, AllOn, Tasks, CallPCs, Held, Delays,
        Pairs, BeginToggle, Unsettle, TGoto, flagVars, paceVars
<1>14. ASSUME NEW x \in Toggles, WriteFlag(x)
     PROVE  TypeOK'
    BY <1>14 DEF IInv, TypeOK, Flags, AllOn, Tasks, CallPCs, Held, Delays,
        Pairs, WriteFlag, TGoto, paceVars, histVars
<1>15. ASSUME NEW x \in Toggles, WriteFails(x)
     PROVE  TypeOK'
    BY <1>15 DEF IInv, TypeOK, Flags, AllOn, Tasks, CallPCs, Held, Delays,
        Pairs, WriteFails, EndToggle, TGoto, flagVars, paceVars, histVars
<1>16. ASSUME NEW x \in Toggles, Answer(x)
     PROVE  TypeOK'
    BY <1>16 DEF IInv, TypeOK, Flags, AllOn, Tasks, CallPCs, Held, Delays,
        Pairs, Answer, EndToggle, TGoto, flagVars, paceVars, histVars
<1>17. ASSUME NEW x \in Toggles, ForcedRefresh(x)
     PROVE  TypeOK'
    BY <1>17 DEF IInv, TypeOK, Flags, AllOn, Tasks, CallPCs, Held, Delays,
        Pairs, ForcedRefresh, TGoto, TakeFlagLock, ReadFlags, paceVars,
        histVars
<1>18. ASSUME NEW x \in Toggles, ToggleLoad(x)
     PROVE  TypeOK'
  <2>1. CASE UseFlags(x) /\ Promise(x)
    BY <1>18, <2>1, AllOnIsFlags DEF IInv, TypeOK, Tasks, CallPCs, ToggleLoad, TGoto,
        UseFlags, Promise, Flags, DropAnswer, paceVars
  <2>2. CASE RefreshFails(x) /\ UNCHANGED histVars
    BY <1>18, <2>2, AllOnIsFlags DEF IInv, TypeOK, Tasks, CallPCs, ToggleLoad, TGoto,
        RefreshFails, DropAnswer, paceVars, histVars
  <2>3. QED
    BY <1>18, <2>1, <2>2 DEF ToggleLoad
<1>19. ASSUME TTLExpires
     PROVE  TypeOK'
    BY <1>19 DEF IInv, TypeOK, Flags, AllOn, Tasks, CallPCs, Held, Delays,
        Pairs, TTLExpires, paceVars, toggleVars, histVars
<1>20. ASSUME Tick
     PROVE  TypeOK'
    BY <1>20 DEF IInv, TypeOK, Flags, AllOn, Tasks, CallPCs, Held, Delays,
        Pairs, Tick, flagVars, toggleVars, histVars
<1>21. ASSUME NEW t \in Tools, NEW on \in BOOLEAN, RestoreFlag(t, on)
     PROVE  TypeOK'
    BY <1>21 DEF IInv, TypeOK, Flags, Tasks, CallPCs, RestoreFlag, Unsettle,
        paceVars, toggleVars
<1>22. QED
    BY <1>1, <1>2, <1>3, <1>4, <1>5, <1>6, <1>7, <1>8, <1>9, <1>10, <1>11,
        <1>12, <1>13, <1>14, <1>15, <1>16, <1>17, <1>18, <1>19, <1>20, <1>21
    DEF Next, CallStep, ToggleStep, vars, flagVars, paceVars, toggleVars,
        histVars

LEMMA SlotsAreExactStep == IInv /\ [Next]_vars => SlotsAreExact'
PROOF
<1> SUFFICES ASSUME IInv, [Next]_vars PROVE SlotsAreExact'
    OBVIOUS
<1> USE ToolCallsAssumption
<1>1. CASE UNCHANGED <<inFlight, pc, pair>>
    BY <1>1 DEF IInv, SlotsAreExact, InPair
<1>2. ASSUME NEW c \in Calls, NEW k \in Pairs, NEW tester \in BOOLEAN, BeginCall(c, k, tester)
     PROVE  SlotsAreExact'
  <2>1. \A d \in Calls : /\ pc'[d] \in Held <=> pc[d] \in Held
                         /\ pc[d] \in Held => pair'[d] = pair[d]
    BY <1>2 DEF IInv, TypeOK, Held, BeginCall, Goto
  <2>2. inFlight' = inFlight
    BY <1>2 DEF BeginCall, paceVars
  <2>3. QED
    BY <2>1, <2>2, InPairStays DEF IInv, SlotsAreExact
<1>3. ASSUME NEW c \in Calls, TesterCheck(c)
     PROVE  SlotsAreExact'
  <2>1. \A d \in Calls : /\ pc'[d] \in Held <=> pc[d] \in Held
                         /\ pc[d] \in Held => pair'[d] = pair[d]
    BY <1>3 DEF IInv, TypeOK, Held, TesterCheck, Goto, EndRefused
  <2>2. inFlight' = inFlight
    BY <1>3 DEF TesterCheck, paceVars
  <2>3. QED
    BY <2>1, <2>2, InPairStays DEF IInv, SlotsAreExact
<1>4. ASSUME NEW c \in Calls, CheckFresh(c)
     PROVE  SlotsAreExact'
  <2>1. \A d \in Calls : /\ pc'[d] \in Held <=> pc[d] \in Held
                         /\ pc[d] \in Held => pair'[d] = pair[d]
    BY <1>4 DEF IInv, TypeOK, Held, CheckFresh, Goto
  <2>2. inFlight' = inFlight
    BY <1>4 DEF CheckFresh, paceVars
  <2>3. QED
    BY <2>1, <2>2, InPairStays DEF IInv, SlotsAreExact
<1>5. ASSUME NEW c \in Calls, LockAndRead(c)
     PROVE  SlotsAreExact'
  <2>1. \A d \in Calls : /\ pc'[d] \in Held <=> pc[d] \in Held
                         /\ pc[d] \in Held => pair'[d] = pair[d]
    BY <1>5 DEF IInv, TypeOK, Held, LockAndRead, Goto
  <2>2. inFlight' = inFlight
    BY <1>5 DEF LockAndRead, paceVars
  <2>3. QED
    BY <2>1, <2>2, InPairStays DEF IInv, SlotsAreExact
<1>6. ASSUME NEW c \in Calls, Load(c)
     PROVE  SlotsAreExact'
  <2>1. \A d \in Calls : /\ pc'[d] \in Held <=> pc[d] \in Held
                         /\ pc[d] \in Held => pair'[d] = pair[d]
    BY <1>6 DEF IInv, TypeOK, Held, Load, Goto
  <2>2. inFlight' = inFlight
    BY <1>6 DEF Load, paceVars
  <2>3. QED
    BY <2>1, <2>2, InPairStays DEF IInv, SlotsAreExact
<1>7. ASSUME NEW c \in Calls, CancelInRefresh(c)
     PROVE  SlotsAreExact'
  <2>1. \A d \in Calls : /\ pc'[d] \in Held <=> pc[d] \in Held
                         /\ pc[d] \in Held => pair'[d] = pair[d]
    BY <1>7 DEF IInv, TypeOK, Held, CancelInRefresh, Goto, EndRefused
  <2>2. inFlight' = inFlight
    BY <1>7 DEF CancelInRefresh, paceVars
  <2>3. QED
    BY <2>1, <2>2, InPairStays DEF IInv, SlotsAreExact
<1>8. ASSUME NEW c \in Calls, Decide(c)
     PROVE  SlotsAreExact'
  <2>1. \A d \in Calls : /\ pc'[d] \in Held <=> pc[d] \in Held
                         /\ pc[d] \in Held => pair'[d] = pair[d]
    BY <1>8 DEF IInv, TypeOK, Held, Decide, Goto, EndRefused
  <2>2. inFlight' = inFlight
    BY <1>8 DEF Decide, paceVars
  <2>3. QED
    BY <2>1, <2>2, InPairStays DEF IInv, SlotsAreExact
<1>9. ASSUME NEW c \in Calls, Admit(c)
     PROVE  SlotsAreExact'
  <2>1. CASE HasRoom(pair[c])
    <3>1. pc[c] \notin Held /\ pc' = [pc EXCEPT ![c] = "gap"] /\ pair' = pair
          /\ inFlight' = [inFlight EXCEPT ![pair[c]] = @ + 1]
      BY <1>9, <2>1 DEF Admit, Goto, Held
    <3>2. \A k \in Pairs : Cardinality(InPair(k))' =
              IF k = pair[c] THEN Cardinality(InPair(k)) + 1 ELSE Cardinality(InPair(k))
      BY <3>1, InPairGains DEF IInv
    <3>3. inFlight \in [Pairs -> Nat] /\ inFlight[pair[c]] < Cap
      BY <2>1 DEF IInv, TypeOK, HasRoom
    <3>4. QED
      BY <3>1, <3>2, <3>3 DEF IInv, SlotsAreExact
  <2>2. CASE ~HasRoom(pair[c])
    <3>1. \A d \in Calls : /\ pc'[d] \in Held <=> pc[d] \in Held
                           /\ pc[d] \in Held => pair'[d] = pair[d]
      BY <1>9, <2>2 DEF IInv, TypeOK, Held, Admit, EndRefused, Goto
    <3>2. inFlight' = inFlight
      BY <1>9, <2>2 DEF Admit
    <3>3. QED
      BY <3>1, <3>2, InPairStays DEF IInv, SlotsAreExact
  <2>3. QED
    BY <2>1, <2>2
<1>10. ASSUME NEW c \in Calls, Start(c)
     PROVE  SlotsAreExact'
  <2>1. \A d \in Calls : /\ pc'[d] \in Held <=> pc[d] \in Held
                         /\ pc[d] \in Held => pair'[d] = pair[d]
    BY <1>10 DEF IInv, TypeOK, Held, Start, Goto, paceVars
  <2>2. inFlight' = inFlight
    BY <1>10 DEF Start, paceVars
  <2>3. QED
    BY <2>1, <2>2, InPairStays DEF IInv, SlotsAreExact
<1>11. ASSUME NEW c \in Calls, Finish(c)
     PROVE  SlotsAreExact'
  <2>1. pc[c] \in Held /\ pc' = [pc EXCEPT ![c] = "idle"] /\ pair' = pair
        /\ inFlight' = [inFlight EXCEPT ![pair[c]] = @ - 1]
    BY <1>11 DEF Finish, Release, EndRefused, Goto, Held
  <2>2. \A k \in Pairs : Cardinality(InPair(k))' =
            IF k = pair[c] THEN Cardinality(InPair(k)) - 1 ELSE Cardinality(InPair(k))
    BY <2>1, InPairLoses DEF IInv
  <2>3. pair[c] \in Pairs /\ inFlight[pair[c]] \in Nat \ {0}
    BY <2>1, HeldCounts DEF IInv
  <2>4. inFlight \in [Pairs -> Nat]
    BY DEF IInv, TypeOK
  <2>5. QED
    BY <2>1, <2>2, <2>3, <2>4 DEF IInv, SlotsAreExact
<1>12. ASSUME NEW c \in Calls, CancelInGap(c)
     PROVE  SlotsAreExact'
  <2>1. pc[c] \in Held /\ pc' = [pc EXCEPT ![c] = "idle"] /\ pair' = pair
        /\ inFlight' = [inFlight EXCEPT ![pair[c]] = @ - 1]
    BY <1>12 DEF CancelInGap, Release, EndRefused, Goto, Held
  <2>2. \A k \in Pairs : Cardinality(InPair(k))' =
            IF k = pair[c] THEN Cardinality(InPair(k)) - 1 ELSE Cardinality(InPair(k))
    BY <2>1, InPairLoses DEF IInv
  <2>3. pair[c] \in Pairs /\ inFlight[pair[c]] \in Nat \ {0}
    BY <2>1, HeldCounts DEF IInv
  <2>4. inFlight \in [Pairs -> Nat]
    BY DEF IInv, TypeOK
  <2>5. QED
    BY <2>1, <2>2, <2>3, <2>4 DEF IInv, SlotsAreExact
<1>13. QED
    BY <1>1, <1>2, <1>3, <1>4, <1>5, <1>6, <1>7, <1>8, <1>9, <1>10, <1>11,
        <1>12
    DEF Next, CallStep, ToggleStep, vars, BeginToggle, TGoto, WriteFlag,
        WriteFails, EndToggle, Answer, ForcedRefresh, TakeFlagLock, ReadFlags,
        ToggleLoad, UseFlags, RefreshFails, DropAnswer, Promise, TTLExpires,
        Tick, RestoreFlag, flagVars, paceVars, toggleVars, histVars

LEMMA LockIsHeldStep == IInv /\ [Next]_vars => LockIsHeld'
PROOF
<1> SUFFICES ASSUME IInv, [Next]_vars PROVE LockIsHeld'
    OBVIOUS
<1> USE ToolCallsAssumption
<1>1. CASE UNCHANGED <<flagLock, pc, tpc>>
    BY <1>1 DEF IInv, LockIsHeld, TypeOK, Tasks
<1>2. ASSUME NEW c \in Calls, NEW k \in Pairs, NEW tester \in BOOLEAN, BeginCall(c, k, tester)
     PROVE  LockIsHeld'
    BY <1>2 DEF IInv, LockIsHeld, TypeOK, Tasks, BeginCall, Goto, flagVars,
        toggleVars
<1>3. ASSUME NEW c \in Calls, TesterCheck(c)
     PROVE  LockIsHeld'
    BY <1>3 DEF IInv, LockIsHeld, TypeOK, Tasks, TesterCheck, EndRefused,
        Goto, flagVars, toggleVars
<1>4. ASSUME NEW c \in Calls, CheckFresh(c)
     PROVE  LockIsHeld'
    BY <1>4 DEF IInv, LockIsHeld, TypeOK, Tasks, CheckFresh, Goto, flagVars,
        toggleVars
<1>5. ASSUME NEW c \in Calls, LockAndRead(c)
     PROVE  LockIsHeld'
    BY <1>5 DEF IInv, LockIsHeld, TypeOK, Tasks, LockAndRead, Goto,
        TakeFlagLock, ReadFlags, toggleVars
<1>6. ASSUME NEW c \in Calls, Load(c)
     PROVE  LockIsHeld'
    BY <1>6 DEF IInv, LockIsHeld, TypeOK, Tasks, Load, Goto, UseFlags,
        RefreshFails, DropAnswer, toggleVars
<1>7. ASSUME NEW c \in Calls, CancelInRefresh(c)
     PROVE  LockIsHeld'
    BY <1>7 DEF IInv, LockIsHeld, TypeOK, Tasks, CancelInRefresh, EndRefused,
        Goto, DropAnswer, toggleVars
<1>8. ASSUME NEW c \in Calls, Decide(c)
     PROVE  LockIsHeld'
    BY <1>8 DEF IInv, LockIsHeld, TypeOK, Tasks, Decide, EndRefused, Goto,
        flagVars, toggleVars
<1>9. ASSUME NEW c \in Calls, Admit(c)
     PROVE  LockIsHeld'
    BY <1>9 DEF IInv, LockIsHeld, TypeOK, Tasks, Admit, EndRefused, Goto,
        HasRoom, Delay, flagVars, toggleVars
<1>10. ASSUME NEW c \in Calls, Start(c)
     PROVE  LockIsHeld'
    BY <1>10 DEF IInv, LockIsHeld, TypeOK, Tasks, Start, Goto, flagVars,
        toggleVars
<1>11. ASSUME NEW c \in Calls, Finish(c)
     PROVE  LockIsHeld'
    BY <1>11 DEF IInv, LockIsHeld, TypeOK, Tasks, Finish, EndRefused, Goto,
        Release, flagVars, toggleVars
<1>12. ASSUME NEW c \in Calls, CancelInGap(c)
     PROVE  LockIsHeld'
    BY <1>12 DEF IInv, LockIsHeld, TypeOK, Tasks, CancelInGap, EndRefused,
        Goto, Release, flagVars, toggleVars
<1>13. ASSUME NEW x \in Toggles, NEW t \in Tools, NEW on \in BOOLEAN, BeginToggle(x, t, on)
     PROVE  LockIsHeld'
    BY <1>13 DEF IInv, LockIsHeld, TypeOK, Tasks, BeginToggle, TGoto, flagVars
<1>14. ASSUME NEW x \in Toggles, WriteFlag(x)
     PROVE  LockIsHeld'
    BY <1>14 DEF IInv, LockIsHeld, TypeOK, Tasks, WriteFlag, TGoto
<1>15. ASSUME NEW x \in Toggles, WriteFails(x)
     PROVE  LockIsHeld'
    BY <1>15 DEF IInv, LockIsHeld, TypeOK, Tasks, WriteFails, EndToggle,
        TGoto, flagVars
<1>16. ASSUME NEW x \in Toggles, Answer(x)
     PROVE  LockIsHeld'
    BY <1>16 DEF IInv, LockIsHeld, TypeOK, Tasks, Answer, EndToggle, TGoto,
        flagVars
<1>17. ASSUME NEW x \in Toggles, ForcedRefresh(x)
     PROVE  LockIsHeld'
    BY <1>17 DEF IInv, LockIsHeld, TypeOK, Tasks, ForcedRefresh, TGoto,
        TakeFlagLock, ReadFlags
<1>18. ASSUME NEW x \in Toggles, ToggleLoad(x)
     PROVE  LockIsHeld'
    BY <1>18 DEF IInv, LockIsHeld, TypeOK, Tasks, ToggleLoad, TGoto, UseFlags,
        RefreshFails, DropAnswer, Promise
<1>19. QED
    BY <1>1, <1>2, <1>3, <1>4, <1>5, <1>6, <1>7, <1>8, <1>9, <1>10, <1>11,
        <1>12, <1>13, <1>14, <1>15, <1>16, <1>17, <1>18
    DEF Next, CallStep, ToggleStep, vars, TTLExpires, Tick, RestoreFlag,
        flagVars, paceVars, toggleVars, histVars

LEMMA AnswersAreCurrentStep == IInv /\ [Next]_vars => AnswersAreCurrent'
PROOF
<1> SUFFICES ASSUME IInv, [Next]_vars PROVE AnswersAreCurrent'
    OBVIOUS
<1> USE ToolCallsAssumption
<1>1. CASE UNCHANGED <<stored, flagLock, got, tpc, ttool, off, undone>>
    BY <1>1 DEF IInv, AnswersAreCurrent, TypeOK, Flags, Tasks, LockIsHeld
<1>2. ASSUME NEW c \in Calls, LockAndRead(c)
     PROVE  AnswersAreCurrent'
    BY <1>2 DEF IInv, AnswersAreCurrent, TypeOK, Flags, Tasks, LockIsHeld,
        LockAndRead, Goto, TakeFlagLock, ReadFlags, toggleVars, histVars
<1>3. ASSUME NEW c \in Calls, Load(c)
     PROVE  AnswersAreCurrent'
    BY <1>3 DEF IInv, AnswersAreCurrent, TypeOK, Flags, Tasks, LockIsHeld,
        Load, Goto, UseFlags, RefreshFails, DropAnswer, toggleVars, histVars
<1>4. ASSUME NEW c \in Calls, CancelInRefresh(c)
     PROVE  AnswersAreCurrent'
    BY <1>4 DEF IInv, AnswersAreCurrent, TypeOK, Flags, Tasks, LockIsHeld,
        CancelInRefresh, EndRefused, Goto, DropAnswer, toggleVars
<1>5. ASSUME NEW x \in Toggles, NEW t \in Tools, NEW on \in BOOLEAN, BeginToggle(x, t, on)
     PROVE  AnswersAreCurrent'
    BY <1>5 DEF IInv, AnswersAreCurrent, TypeOK, Flags, Tasks, LockIsHeld,
        BeginToggle, Unsettle, TGoto, flagVars
<1>6. ASSUME NEW x \in Toggles, WriteFlag(x)
     PROVE  AnswersAreCurrent'
    BY <1>6 DEF IInv, AnswersAreCurrent, TypeOK, Flags, Tasks, LockIsHeld,
        WriteFlag, TGoto, histVars
<1>7. ASSUME NEW x \in Toggles, WriteFails(x)
     PROVE  AnswersAreCurrent'
    BY <1>7 DEF IInv, AnswersAreCurrent, TypeOK, Flags, Tasks, LockIsHeld,
        WriteFails, EndToggle, TGoto, flagVars
<1>8. ASSUME NEW x \in Toggles, Answer(x)
     PROVE  AnswersAreCurrent'
    BY <1>8 DEF IInv, AnswersAreCurrent, TypeOK, Flags, Tasks, LockIsHeld,
        Answer, EndToggle, TGoto, flagVars
<1>9. ASSUME NEW x \in Toggles, ForcedRefresh(x)
     PROVE  AnswersAreCurrent'
    BY <1>9 DEF IInv, AnswersAreCurrent, TypeOK, Flags, Tasks, LockIsHeld,
        ForcedRefresh, TGoto, TakeFlagLock, ReadFlags, histVars
<1>10. ASSUME NEW x \in Toggles, ToggleLoad(x)
     PROVE  AnswersAreCurrent'
    BY <1>10 DEF IInv, AnswersAreCurrent, TypeOK, Flags, Tasks, LockIsHeld,
        ToggleLoad, TGoto, UseFlags, RefreshFails, DropAnswer, Promise, histVars
<1>11. ASSUME NEW c \in Calls, NEW k \in Pairs, NEW tester \in BOOLEAN, BeginCall(c, k, tester)
     PROVE  AnswersAreCurrent'
    BY <1>1, <1>11 DEF BeginCall, flagVars, toggleVars
<1>12. ASSUME NEW t \in Tools, NEW on \in BOOLEAN, RestoreFlag(t, on)
     PROVE  AnswersAreCurrent'
  <2>1. SUFFICES ASSUME NEW z \in Tasks, NEW u \in Tools, flagLock = z, got[z][u] # stored'[u]
                 PROVE  \/ \E y \in Toggles : tpc[y] = "lock" /\ ttool[y] = u
                        \/ ~off'[u] /\ (z \in Toggles /\ ttool[z] = u => z \in undone')
    BY <1>12 DEF AnswersAreCurrent, RestoreFlag, toggleVars
  <2>2. CASE u = t
    BY <1>12, <2>1, <2>2 DEF IInv, TypeOK, Flags, LockIsHeld, RestoreFlag, Unsettle
  <2>3. CASE u # t
    BY <1>12, <2>1, <2>3 DEF IInv, TypeOK, Flags, AnswersAreCurrent, RestoreFlag, Unsettle
  <2>4. QED
    BY <2>2, <2>3
<1>13. QED
    BY <1>1, <1>2, <1>3, <1>4, <1>5, <1>6, <1>7, <1>8, <1>9, <1>10, <1>11, <1>12
    DEF Next, CallStep, ToggleStep, vars, Goto, TesterCheck,
        EndRefused, CheckFresh, Decide, Admit, HasRoom, Delay, Start, Finish,
        Release, CancelInGap, TTLExpires, Tick, flagVars, paceVars,
        toggleVars, histVars

LEMMA OffMeansStep == IInv /\ [Next]_vars => OffMeans'
PROOF
<1> SUFFICES ASSUME IInv, [Next]_vars PROVE OffMeans'
    OBVIOUS
<1> USE ToolCallsAssumption
<1>1. CASE UNCHANGED <<stored, flags, tpc, ttool, off>>
    BY <1>1 DEF IInv, OffMeans, TypeOK, Flags, Tasks, LockIsHeld,
        AnswersAreCurrent, AllOn
<1>2. ASSUME NEW c \in Calls, Load(c)
     PROVE  OffMeans'
    BY <1>2 DEF IInv, OffMeans, TypeOK, Flags, Tasks, LockIsHeld,
        AnswersAreCurrent, AllOn, Load, Goto, UseFlags, RefreshFails,
        DropAnswer, toggleVars, histVars
<1>3. ASSUME NEW x \in Toggles, NEW t \in Tools, NEW on \in BOOLEAN, BeginToggle(x, t, on)
     PROVE  OffMeans'
    BY <1>3 DEF IInv, OffMeans, TypeOK, Flags, Tasks, LockIsHeld,
        AnswersAreCurrent, AllOn, BeginToggle, Unsettle, TGoto, flagVars
<1>4. ASSUME NEW x \in Toggles, WriteFlag(x)
     PROVE  OffMeans'
    BY <1>4 DEF IInv, OffMeans, TypeOK, Flags, Tasks, LockIsHeld,
        AnswersAreCurrent, AllOn, WriteFlag, TGoto, histVars
<1>5. ASSUME NEW x \in Toggles, WriteFails(x)
     PROVE  OffMeans'
    BY <1>5 DEF IInv, OffMeans, TypeOK, Flags, Tasks, LockIsHeld,
        AnswersAreCurrent, AllOn, WriteFails, EndToggle, TGoto, flagVars,
        histVars
<1>6. ASSUME NEW x \in Toggles, Answer(x)
     PROVE  OffMeans'
    BY <1>6 DEF IInv, OffMeans, TypeOK, Flags, Tasks, LockIsHeld,
        AnswersAreCurrent, AllOn, Answer, EndToggle, TGoto, flagVars, histVars
<1>7. ASSUME NEW x \in Toggles, ForcedRefresh(x)
     PROVE  OffMeans'
    BY <1>7 DEF IInv, OffMeans, TypeOK, Flags, Tasks, LockIsHeld,
        AnswersAreCurrent, AllOn, ForcedRefresh, TGoto, TakeFlagLock,
        ReadFlags, histVars
<1>8. ASSUME NEW x \in Toggles, ToggleLoad(x)
     PROVE  OffMeans'
  <2>1. CASE UseFlags(x) /\ Promise(x)
    <3>1. flagLock = x /\ x \in Tasks
      BY <1>8 DEF ToggleLoad, IInv, LockIsHeld, Tasks
    <3>2. \A t \in Tools : /\ \A y \in Toggles : tpc[y] = "lock" => ttool[y] # t
                           /\ off[t] \/ (ttool[x] = t /\ x \notin undone)
                           => got[x][t] = stored[t]
      BY <3>1 DEF IInv, AnswersAreCurrent
    <3>3. tpc' = [tpc EXCEPT ![x] = "answer"] /\ ttool' = ttool /\ tpc[x] = "load"
          /\ flags' = got[x] /\ stored' = stored
      BY <1>8, <2>1 DEF ToggleLoad, TGoto, UseFlags
    <3>4. \A t \in Tools : off'[t] => ~stored[t] /\ ~got[x][t]
                                   /\ \A y \in Toggles \ {x} : tpc[y] \in {"write", "lock", "load"} => ttool[y] # t
      <4>1. SUFFICES ASSUME NEW t \in Tools, off'[t]
                     PROVE  ~stored[t] /\ ~got[x][t]
                            /\ \A y \in Toggles \ {x} : tpc[y] \in {"write", "lock", "load"} => ttool[y] # t
        OBVIOUS
      <4>2. ~stored[t] /\ \A y \in Toggles \ {x} : tpc[y] \in {"write", "lock", "load"} => ttool[y] # t
        BY <2>1, <4>1, <3>3 DEF IInv, TypeOK, Flags, OffMeans, Promise
      <4>3. \A y \in Toggles : tpc[y] = "lock" => ttool[y] # t
        BY <4>2, <3>3
      <4>4. off[t] \/ (ttool[x] = t /\ x \notin undone)
        BY <2>1, <4>1 DEF IInv, TypeOK, Flags, Promise
      <4>5. QED
        BY <4>2, <4>3, <4>4, <3>2
    <3>5. QED
      BY <3>3, <3>4 DEF IInv, TypeOK, OffMeans
  <2>2. CASE RefreshFails(x) /\ UNCHANGED histVars
    BY <1>8, <2>2 DEF IInv, OffMeans, TypeOK, ToggleLoad, TGoto, RefreshFails, histVars
  <2>3. QED
    BY <1>8, <2>1, <2>2 DEF ToggleLoad
<1>9. ASSUME NEW t \in Tools, NEW on \in BOOLEAN, RestoreFlag(t, on)
     PROVE  OffMeans'
    BY <1>9 DEF IInv, OffMeans, TypeOK, Flags, RestoreFlag, Unsettle, toggleVars
<1>10. QED
    BY <1>1, <1>2, <1>3, <1>4, <1>5, <1>6, <1>7, <1>8, <1>9
    DEF Next, CallStep, ToggleStep, vars, BeginCall, Goto, TesterCheck,
        EndRefused, CheckFresh, LockAndRead, TakeFlagLock, ReadFlags,
        CancelInRefresh, DropAnswer, Decide, Admit, HasRoom, Delay, Start,
        Finish, Release, CancelInGap, TTLExpires, Tick, flagVars, paceVars,
        toggleVars, histVars

LEMMA BarredMeansStep == IInv /\ [Next]_vars => BarredMeans'
PROOF
<1> SUFFICES ASSUME IInv, [Next]_vars PROVE BarredMeans'
    OBVIOUS
<1> USE ToolCallsAssumption
<1>1. CASE UNCHANGED <<pc, pair, off, barred>>
    BY <1>1 DEF IInv, BarredMeans, OffMeans, TypeOK, Flags, Tool, CallPCs,
        Held, Pairs
<1>2. ASSUME NEW c \in Calls, NEW k \in Pairs, NEW tester \in BOOLEAN, BeginCall(c, k, tester)
     PROVE  BarredMeans'
    BY <1>2 DEF IInv, BarredMeans, OffMeans, TypeOK, Flags, Tool, CallPCs,
        Held, Pairs, BeginCall, Goto
<1>3. ASSUME NEW c \in Calls, TesterCheck(c)
     PROVE  BarredMeans'
    BY <1>3 DEF IInv, BarredMeans, OffMeans, TypeOK, Flags, Tool, CallPCs,
        Held, Pairs, TesterCheck, EndRefused, Goto, histVars
<1>4. ASSUME NEW c \in Calls, CheckFresh(c)
     PROVE  BarredMeans'
    BY <1>4 DEF IInv, BarredMeans, TypeOK, Tool, CallPCs, Held, CheckFresh, Goto, histVars
<1>5. ASSUME NEW c \in Calls, LockAndRead(c)
     PROVE  BarredMeans'
    BY <1>5 DEF IInv, BarredMeans, TypeOK, Tool, CallPCs, Held, LockAndRead, Goto, histVars
<1>6. ASSUME NEW c \in Calls, Load(c)
     PROVE  BarredMeans'
    BY <1>6 DEF IInv, BarredMeans, OffMeans, TypeOK, Flags, Tool, CallPCs,
        Held, Pairs, Load, Goto, UseFlags, RefreshFails, DropAnswer, histVars
<1>7. ASSUME NEW c \in Calls, CancelInRefresh(c)
     PROVE  BarredMeans'
    BY <1>7 DEF IInv, BarredMeans, OffMeans, TypeOK, Flags, Tool, CallPCs,
        Held, Pairs, CancelInRefresh, EndRefused, Goto, DropAnswer
<1>8. ASSUME NEW c \in Calls, Decide(c)
     PROVE  BarredMeans'
  <2>1. CASE loaded /\ flags[Tool(c)]
    <3>1. c \notin barred
      BY <2>1 DEF IInv, OffMeans, BarredMeans, TypeOK, Tool, Pairs
    <3>2. QED
      BY <1>8, <2>1, <3>1 DEF IInv, BarredMeans, TypeOK, Decide, Goto, Tool, histVars
  <2>2. CASE ~(loaded /\ flags[Tool(c)])
    BY <1>8, <2>2 DEF IInv, BarredMeans, TypeOK, Decide, EndRefused, Goto, Tool
  <2>3. QED
    BY <2>1, <2>2
<1>9. ASSUME NEW c \in Calls, Admit(c)
     PROVE  BarredMeans'
  <2>1. c \notin barred
    BY <1>9 DEF IInv, BarredMeans, Admit
  <2>2. (barred' = barred \/ barred' = barred \ {c}) /\ off' = off /\ pair' = pair
        /\ \E there : pc' = [pc EXCEPT ![c] = there]
    BY <1>9 DEF Admit, EndRefused, Goto, histVars
  <2>3. \A d \in barred : off[Tool(d)] /\ pc[d] \in CallPCs \ ({"idle", "admit"} \cup Held)
    BY DEF IInv, BarredMeans
  <2>4. \A d \in barred : pc'[d] = pc[d] /\ Tool(d)' = Tool(d)
    BY <2>1, <2>2, \A d \in barred : d \in Calls DEF IInv, TypeOK, Tool
  <2>5. QED
    BY <2>2, <2>3, <2>4 DEF BarredMeans
<1>10. ASSUME NEW c \in Calls, Start(c)
     PROVE  BarredMeans'
    BY <1>10 DEF IInv, BarredMeans, TypeOK, Tool, CallPCs, Held, Start, Goto, histVars
<1>11. ASSUME NEW c \in Calls, Finish(c)
     PROVE  BarredMeans'
    BY <1>11 DEF IInv, BarredMeans, OffMeans, TypeOK, Flags, Tool, CallPCs,
        Held, Pairs, Finish, EndRefused, Goto, Release
<1>12. ASSUME NEW c \in Calls, CancelInGap(c)
     PROVE  BarredMeans'
    BY <1>12 DEF IInv, BarredMeans, OffMeans, TypeOK, Flags, Tool, CallPCs,
        Held, Pairs, CancelInGap, EndRefused, Goto, Release
<1>13. ASSUME NEW x \in Toggles, NEW t \in Tools, NEW on \in BOOLEAN, BeginToggle(x, t, on)
     PROVE  BarredMeans'
    BY <1>13 DEF IInv, BarredMeans, OffMeans, TypeOK, Flags, Tool, CallPCs,
        Held, Pairs, BeginToggle, Unsettle, TGoto
<1>14. ASSUME NEW x \in Toggles, ToggleLoad(x)
     PROVE  BarredMeans'
    BY <1>14 DEF IInv, BarredMeans, OffMeans, TypeOK, Flags, Tool, CallPCs,
        Held, Pairs, ToggleLoad, TGoto, UseFlags, RefreshFails, DropAnswer,
        Promise, histVars
<1>15. ASSUME NEW t \in Tools, NEW on \in BOOLEAN, RestoreFlag(t, on)
     PROVE  BarredMeans'
    BY <1>15 DEF IInv, BarredMeans, TypeOK, Flags, Tool, Pairs, RestoreFlag, Unsettle
<1>16. QED
    BY <1>1, <1>2, <1>3, <1>4, <1>5, <1>6, <1>7, <1>8, <1>9, <1>10, <1>11,
        <1>12, <1>13, <1>14, <1>15
    DEF Next, CallStep, ToggleStep, vars, WriteFlag, TGoto, WriteFails,
        EndToggle, Answer, ForcedRefresh, TakeFlagLock, ReadFlags, TTLExpires,
        Tick, flagVars, paceVars, toggleVars, histVars

-----------------------------------------------------------------------------
(* The theorems.                                                           *)

LEMMA InitInvariant == Init => IInv
PROOF
<1> SUFFICES ASSUME Init PROVE IInv
    OBVIOUS
<1> USE ToolCallsAssumption DEF Init
<1>1. Pairs # {}
  <2>1. PICK a \in Callers, t \in Tools : TRUE
    OBVIOUS
  <2>2. <<a, t>> \in Pairs
    BY DEF Pairs
  <2>3. QED
    BY <2>2
<1>2. TypeOK
  <2>1. (CHOOSE p \in Pairs : TRUE) \in Pairs /\ (CHOOSE t \in Tools : TRUE) \in Tools
    BY <1>1
  <2>2. 0 \in Delays
    BY DEF Delays
  <2>3. QED
    BY <2>1, <2>2, AllOnIsFlags DEF TypeOK, Flags, Tasks, CallPCs
<1>3. SlotsAreExact
  <2>1. \A p \in Pairs : InPair(p) = {} /\ inFlight[p] = 0
    BY DEF InPair, Held
  <2>2. Cardinality({}) = 0
    BY FS_EmptySet
  <2>3. \A p \in Pairs : inFlight[p] = Cardinality(InPair(p)) /\ inFlight[p] = 0
    BY <2>1, <2>2
  <2>4. QED
    BY <2>3 DEF SlotsAreExact
<1>4. LockIsHeld
    BY DEF LockIsHeld, Tasks
<1>5. AnswersAreCurrent /\ OffMeans /\ BarredMeans
    BY DEF AnswersAreCurrent, OffMeans, BarredMeans, Tasks
<1>6. QED
    BY <1>2, <1>3, <1>4, <1>5 DEF IInv

(* The invariant holds in every reachable state.                           *)
THEOREM Invariant == Spec => []IInv
PROOF
<1>1. Init => IInv
    BY InitInvariant
<1>2. IInv /\ [Next]_vars => IInv'
    BY TypeOKStep, SlotsAreExactStep, LockIsHeldStep, AnswersAreCurrentStep, OffMeansStep,
       BarredMeansStep DEF IInv
<1>3. QED
    BY <1>1, <1>2, PTL DEF Spec

(* Counters never go below zero, and everything else keeps its type.       *)
THEOREM TypeCorrect == Spec => []TypeOK
PROOF
<1>1. IInv => TypeOK
    BY DEF IInv
<1>2. QED
    BY <1>1, Invariant, PTL

(* A pair's counter is the number of its calls in flight, at most the cap, *)
(* through refusals, exceptions and cancellations.                         *)
THEOREM SlotsAreAlwaysExact == Spec => []SlotsAreExact
PROOF
<1>1. IInv => SlotsAreExact
    BY DEF IInv
<1>2. QED
    BY <1>1, Invariant, PTL

(* Once a toggle's forced refresh has switched a tool off, no call that    *)
(* begins then reaches it.                                                 *)
THEOREM SwitchedOffIsImmediate == Spec => []OffIsImmediate
PROOF
<1>1. IInv => OffIsImmediate
    BY DEF IInv, BarredMeans, OffIsImmediate, Held, CallPCs
<1>2. QED
    BY <1>1, Invariant, PTL

-----------------------------------------------------------------------------
(* Enrichment: what holds of a call until it is answered.                  *)

\* A call that is not answered has nothing in its result.
Untouched == \A c \in Posts, v \in Views : stage[c] # "done" => result[c][v] = None

\* A call that looks for its tweet has it on the list, as it asked for it,
\* unless somebody has touched it.
OnTheList == \A c \in Posts \ touched : stage[c] = "list" => listed[c] = asked[c]

LEMMA EntryFields ==
    ASSUME NEW e \in Entry
    PROVE  e.account \in Accounts /\ e.text \in Texts /\ e.at \in Times
BY DEF Entry

\* Whole seconds lose at most one half second.
LEMMA RoundingIsSmall ==
    ASSUME NEW n \in Nat
    PROVE  2 * (n \div 2) \in Int /\ n - 2 * (n \div 2) \in {0, 1}
BY SMT

LEMMA EnrichTypeInit == EnrichInit => EnrichTypeOK
<1> SUFFICES ASSUME EnrichInit PROVE EnrichTypeOK
  OBVIOUS
<1>1. /\ stage \in [Posts -> {"idle", "create", "list", "done"}]
      /\ \A c \in Posts : asked[c] # None <=> stage[c] \in {"create", "list"}
  BY DEF EnrichInit
<1>2. /\ listed \in [Ids -> Entry \cup {None}] /\ asked \in [Posts -> Entry \cup {None}]
      /\ clock \in [Posts -> Clocks]
      /\ holds \in [Posts -> SUBSET Views] /\ stiff \in [Posts -> SUBSET Views]
  BY DEF EnrichInit, Clocks
<1>3. /\ result \in [Posts -> [Views -> Ids \cup {None}]]
      /\ \A c \in Posts, v \in Views : result[c][v] = None
  BY DEF EnrichInit
<1>4. touched = {}
  BY DEF EnrichInit
<1> QED
  BY <1>1, <1>2, <1>3, <1>4 DEF EnrichTypeOK

LEMMA EnrichTypeStep == EnrichTypeOK /\ Untouched /\ [EnrichNext]_evars => EnrichTypeOK'
<1> SUFFICES ASSUME EnrichTypeOK, Untouched, [EnrichNext]_evars PROVE EnrichTypeOK'
  OBVIOUS
<1> USE EnrichmentAssumption
<1>1. ASSUME NEW c \in Posts, NEW e \in Entry, Call(c, e) PROVE EnrichTypeOK'
  <2>1. e # None
    OBVIOUS
  <2> QED
    BY <1>1, <2>1 DEF EnrichTypeOK, Call, Enter
<1>2. ASSUME NEW c \in Posts, Created(c) PROVE EnrichTypeOK'
  <2>1. asked[c] \in Entry /\ c \in Ids
    BY <1>2 DEF EnrichTypeOK, Created, Ids
  <2>2. PICK H \in SUBSET Views \ {{}} : \E S \in SUBSET H :
            holds' = [holds EXCEPT ![c] = H] /\ stiff' = [stiff EXCEPT ![c] = S]
    BY <1>2 DEF Created
  <2>3. PICK k \in Clocks : clock' = [clock EXCEPT ![c] = k]
    BY <1>2 DEF Created
  <2>4. /\ listed' \in [Ids -> Entry \cup {None}] /\ clock' \in [Posts -> Clocks]
        /\ holds' \in [Posts -> SUBSET Views] /\ stiff' \in [Posts -> SUBSET Views]
    BY <1>2, <2>1, <2>2, <2>3 DEF EnrichTypeOK, Created
  <2>5. \A d \in Posts, v \in Views : result'[d][v] # None => v \in holds'[d]
    BY <1>2, <2>2 DEF EnrichTypeOK, Untouched, Created
  <2> QED
    BY <1>2, <2>1, <2>4, <2>5 DEF EnrichTypeOK, Created, Enter
<1>3. ASSUME NEW c \in Posts, CallFails(c) PROVE EnrichTypeOK'
  <2>1. asked[c] \in Entry /\ c \in Ids
    BY <1>3 DEF EnrichTypeOK, CallFails, Ids
  <2>2. listed' \in [Ids -> Entry \cup {None}]
    BY <1>3, <2>1 DEF EnrichTypeOK, CallFails
  <2> QED
    BY <1>3, <2>2 DEF EnrichTypeOK, CallFails, AnswerPost, Enter, Clocks
<1>4. ASSUME NEW c \in Posts, Enrich(c) PROVE EnrichTypeOK'
  <2>1. /\ result' \in [Posts -> [Views -> Ids \cup {None}]]
        /\ \A d \in Posts, v \in Views : result'[d][v] # None => v \in holds[d]
    <3>1. ASSUME NEW id \in Ids, Rewrite(c, id)
          PROVE  /\ result' \in [Posts -> [Views -> Ids \cup {None}]]
                 /\ \A d \in Posts, v \in Views : result'[d][v] # None => v \in holds[d]
      BY <3>1 DEF EnrichTypeOK, Rewrite
    <3>2. \A a : Recovered(a, c) \subseteq Ids
      BY DEF Recovered, Candidates, Listing
    <3>3. UNCHANGED result \/ \E id \in Ids : Rewrite(c, id)
      BY <1>4, <3>2 DEF Enrich
    <3> QED
      BY <3>1, <3>3 DEF EnrichTypeOK
  <2> QED
    BY <1>4, <2>1 DEF EnrichTypeOK, Enrich, AnswerPost, Enter, Clocks
<1>5. ASSUME NEW c \in Posts, LeaveAlone(c) PROVE EnrichTypeOK'
  BY <1>5 DEF EnrichTypeOK, LeaveAlone, AnswerPost, Enter, Clocks
<1>6. ASSUME NEW id \in Ids, NEW e \in Entry, Schedule(id, e) PROVE EnrichTypeOK'
  BY <1>6 DEF EnrichTypeOK, Schedule, Touch
<1>7. ASSUME NEW id \in Ids, Remove(id) PROVE EnrichTypeOK'
  BY <1>7 DEF EnrichTypeOK, Remove, Touch
<1>8. CASE UNCHANGED evars
  BY <1>8 DEF EnrichTypeOK, evars
<1> QED
  BY <1>1, <1>2, <1>3, <1>4, <1>5, <1>6, <1>7, <1>8 DEF EnrichNext

LEMMA UntouchedStep == EnrichTypeOK /\ Untouched /\ [EnrichNext]_evars => Untouched'
<1> SUFFICES ASSUME EnrichTypeOK, Untouched, [EnrichNext]_evars PROVE Untouched'
  OBVIOUS
<1>1. ASSUME NEW c \in Posts, NEW e \in Entry, Call(c, e) PROVE Untouched'
  BY <1>1 DEF EnrichTypeOK, Untouched, Call, Enter
<1>2. ASSUME NEW c \in Posts, Created(c) PROVE Untouched'
  BY <1>2 DEF EnrichTypeOK, Untouched, Created, Enter
<1>3. ASSUME NEW c \in Posts, CallFails(c) PROVE Untouched'
  BY <1>3 DEF EnrichTypeOK, Untouched, CallFails, AnswerPost, Enter
<1>4. ASSUME NEW c \in Posts, Enrich(c) PROVE Untouched'
  <2>1. \A d \in Posts \ {c}, v \in Views : result'[d][v] = result[d][v]
    BY <1>4 DEF EnrichTypeOK, Enrich, Rewrite
  <2> QED
    BY <1>4, <2>1 DEF EnrichTypeOK, Untouched, Enrich, AnswerPost, Enter
<1>5. ASSUME NEW c \in Posts, LeaveAlone(c) PROVE Untouched'
  BY <1>5 DEF EnrichTypeOK, Untouched, LeaveAlone, AnswerPost, Enter
<1>6. ASSUME NEW id \in Ids, (\E e \in Entry : Schedule(id, e)) \/ Remove(id)
      PROVE  Untouched'
  BY <1>6 DEF Untouched, Schedule, Remove
<1>7. CASE UNCHANGED evars
  BY <1>7 DEF Untouched, evars
<1> QED
  BY <1>1, <1>2, <1>3, <1>4, <1>5, <1>6, <1>7 DEF EnrichNext

(* Every field keeps its type, and ids are where a representation is       *)
(* (tool_middleware.py 240-275).                                           *)
THEOREM EnrichmentTypeCorrect == EnrichSpec => []EnrichTypeOK
<1>1. EnrichInit => Untouched
  BY DEF EnrichInit, Untouched
<1> QED
  BY <1>1, EnrichTypeInit, EnrichTypeStep, UntouchedStep, PTL DEF EnrichSpec

-----------------------------------------------------------------------------
LEMMA ViewsStep == EnrichTypeOK /\ Untouched /\ ViewsAgree /\ [EnrichNext]_evars => ViewsAgree'
<1> SUFFICES ASSUME EnrichTypeOK, Untouched, ViewsAgree, [EnrichNext]_evars PROVE ViewsAgree'
  OBVIOUS
<1>1. ASSUME NEW c \in Posts, NEW e \in Entry, Call(c, e) PROVE ViewsAgree'
  BY <1>1 DEF ViewsAgree, Call
<1>2. ASSUME NEW c \in Posts, Created(c) PROVE ViewsAgree'
  <2>1. \A d \in Posts : holds'[d] \subseteq Views /\ (d # c => holds'[d] = holds[d])
    BY <1>2 DEF EnrichTypeOK, Created
  <2>2. \A v \in Views : result[c][v] = None
    BY <1>2 DEF Untouched, Created
  <2>3. result' = result
    BY <1>2 DEF Created
  <2> SUFFICES ASSUME NEW d \in Posts, NEW v \in holds'[d], NEW w \in holds'[d]
               PROVE  result[d][v] = result[d][w]
    BY <2>3 DEF ViewsAgree
  <2>4. CASE d = c
    BY <2>1, <2>2, <2>4
  <2>5. CASE d # c
    BY <2>1, <2>5 DEF ViewsAgree
  <2> QED
    BY <2>4, <2>5
<1>3. ASSUME NEW c \in Posts, \/ CallFails(c) \/ LeaveAlone(c) PROVE ViewsAgree'
  BY <1>3 DEF ViewsAgree, CallFails, LeaveAlone, AnswerPost
<1>4. ASSUME NEW c \in Posts, Enrich(c) PROVE ViewsAgree'
  <2>1. holds' = holds
    BY <1>4 DEF Enrich, AnswerPost
  <2>2. CASE UNCHANGED result
    BY <2>1, <2>2 DEF ViewsAgree
  <2>3. ASSUME NEW id, Rewrite(c, id) PROVE ViewsAgree'
    BY <2>1, <2>3 DEF EnrichTypeOK, ViewsAgree, Rewrite
  <2> QED
    BY <1>4, <2>2, <2>3 DEF Enrich
<1>5. ASSUME NEW id \in Ids, (\E e \in Entry : Schedule(id, e)) \/ Remove(id)
      PROVE  ViewsAgree'
  BY <1>5 DEF ViewsAgree, Schedule, Remove
<1>6. CASE UNCHANGED evars
  BY <1>6 DEF ViewsAgree, evars
<1> QED
  BY <1>1, <1>2, <1>3, <1>4, <1>5, <1>6 DEF EnrichNext

(* No client sees the id in one representation and not in the other, with  *)
(* whichever of them refusing a write (tool_middleware.py 240-275).        *)
THEOREM RepresentationsAgree == EnrichSpec => []ViewsAgree
<1>1. EnrichInit => Untouched /\ ViewsAgree
  BY DEF EnrichInit, Untouched, ViewsAgree
<1> QED
  BY <1>1, EnrichTypeInit, EnrichTypeStep, UntouchedStep, ViewsStep, PTL DEF EnrichSpec

-----------------------------------------------------------------------------
LEMMA ListStep == EnrichTypeOK /\ OnTheList /\ [EnrichNext]_evars => OnTheList'
<1> SUFFICES ASSUME EnrichTypeOK, OnTheList, [EnrichNext]_evars PROVE OnTheList'
  OBVIOUS
<1> USE EnrichmentAssumption DEF Ids
<1>1. ASSUME NEW c \in Posts, NEW e \in Entry, Call(c, e) PROVE OnTheList'
  BY <1>1 DEF EnrichTypeOK, OnTheList, Call, Enter
<1>2. ASSUME NEW c \in Posts, Created(c) PROVE OnTheList'
  BY <1>2 DEF EnrichTypeOK, OnTheList, Created, Enter
<1>3. ASSUME NEW c \in Posts, CallFails(c) PROVE OnTheList'
  BY <1>3 DEF EnrichTypeOK, OnTheList, CallFails, AnswerPost, Enter
<1>4. ASSUME NEW c \in Posts, \/ Enrich(c) \/ LeaveAlone(c) PROVE OnTheList'
  <2>1. listed' = listed /\ touched' = touched \ {c} /\ stage'[c] = "done"
        /\ \A d \in Posts \ {c} : stage'[d] = stage[d] /\ asked'[d] = asked[d]
    BY <1>4 DEF EnrichTypeOK, Enrich, LeaveAlone, AnswerPost, Enter
  <2> QED
    BY <2>1 DEF OnTheList
<1>5. ASSUME NEW id \in Ids, (\E e \in Entry : Schedule(id, e)) \/ Remove(id)
      PROVE  OnTheList'
  BY <1>5 DEF EnrichTypeOK, OnTheList, Schedule, Remove, Touch
<1>6. CASE UNCHANGED evars
  BY <1>6 DEF OnTheList, evars
<1> QED
  BY <1>1, <1>2, <1>3, <1>4, <1>5, <1>6 DEF EnrichNext

\* With its own account's list, a call's candidates include its own tweet.
LEMMA OwnIsCandidate ==
    ASSUME EnrichTypeOK, OnTheList, NEW c \in Posts \ touched, stage[c] = "list"
    PROVE  c \in Candidates(asked[c].account, c)
<1>1. asked[c] \in Entry /\ listed[c] = asked[c] /\ c \in Ids
  BY DEF EnrichTypeOK, OnTheList, Ids
<1>2. asked[c] # None /\ asked[c].at \in Nat
  BY <1>1, EntryFields, EnrichmentAssumption DEF EnrichTypeOK
<1>3. Distance(asked[c].at, Expected(c)) <= Tolerance
  BY <1>2, RoundingIsSmall, EnrichmentAssumption DEF Distance, Expected
<1> QED
  BY <1>1, <1>2, <1>3 DEF Candidates, Listing, Matches

LEMMA OwnStep ==
    ASSUME Rotates = FALSE, EnrichTypeOK, Untouched, OnTheList, [EnrichNext]_evars,
           NEW c \in Posts \ touched, NEW v \in Views, result'[c][v] # result[c][v]
    PROVE  result'[c][v] = c
<1>1. ASSUME NEW d \in Posts, Enrich(d) PROVE result'[c][v] = c
  <2>1. c = d
    BY <1>1 DEF EnrichTypeOK, Enrich, Rewrite
  <2>2. stage[c] = "list" /\ ListedAccounts(c) = {asked[c].account}
    BY <1>1, <2>1 DEF Enrich, ListedAccounts
  <2>3. \A id \in Recovered(asked[c].account, c) : id = c
    BY <2>2, OwnIsCandidate DEF Recovered
  <2>4. Rewrite(c, c)
    BY <1>1, <2>1, <2>2, <2>3 DEF Enrich
  <2>5. result[c][v] = None
    BY <2>2 DEF Untouched
  <2> QED
    BY <2>4, <2>5 DEF EnrichTypeOK, Rewrite
<1>2. ASSUME NEW d \in Posts, \/ \E e \in Entry : Call(d, e)
                              \/ Created(d) \/ CallFails(d) \/ LeaveAlone(d)
      PROVE  FALSE
  BY <1>2 DEF Call, Created, CallFails, LeaveAlone
<1>3. ASSUME NEW id \in Ids, (\E e \in Entry : Schedule(id, e)) \/ Remove(id)
      PROVE  FALSE
  BY <1>3 DEF Schedule, Remove
<1>4. CASE UNCHANGED evars
  BY <1>4 DEF evars
<1> QED
  BY <1>1, <1>2, <1>3, <1>4 DEF EnrichNext

(* With an account that does not change between the two requests, an id    *)
(* that is added to a result is that of the tweet the call created, for    *)
(* any number of twins and of calls at once (tool_middleware.py 129-130),  *)
(* unless that tweet itself was edited, deleted or sent in between.        *)
THEOREM RecoveredIdsAreOwn ==
    ASSUME Rotates = FALSE
    PROVE  EnrichSpec => RecoveredIsOwn
<1>1. EnrichInit => Untouched /\ OnTheList
  BY DEF EnrichInit, Untouched, OnTheList
<1>2. EnrichTypeOK /\ Untouched /\ OnTheList /\ [EnrichNext]_evars =>
          [\A c \in Posts \ touched, v \in Views :
               result'[c][v] # result[c][v] => result'[c][v] = c]_evars
  BY OwnStep
<1> QED
  BY <1>1, <1>2, EnrichTypeInit, EnrichTypeStep, UntouchedStep, ListStep, PTL
  DEF EnrichSpec, RecoveredIsOwn

(* As long as nobody else's tweet has the text and nobody has edited the   *)
(* call's own, the listing of its account yields its id, with rounded      *)
(* times too                                                               *)
(* (tool_middleware.py 136-142, 314-319).                                  *)
THEOREM LoneTweetsAreFound == EnrichSpec => []LoneTweetIsFound
<1>1. EnrichInit => Untouched /\ OnTheList
  BY DEF EnrichInit, Untouched, OnTheList
<1>2. EnrichTypeOK /\ OnTheList => LoneTweetIsFound
  <2> SUFFICES ASSUME EnrichTypeOK, OnTheList, NEW c \in Posts \ touched, stage[c] = "list",
                      \A id \in Ids \ {c} :
                          listed[id] = None \/ listed[id].text # asked[c].text
               PROVE  Recovered(asked[c].account, c) = {c}
    BY DEF LoneTweetIsFound
  <2> DEFINE a == asked[c].account
  <2>1. c \in Candidates(a, c)
    BY OwnIsCandidate
  <2>2. Candidates(a, c) \subseteq {c}
    BY DEF Candidates, Listing, Matches
  <2>3. Candidates(a, c) = {c}
    BY <2>1, <2>2
  <2> QED
    BY <2>3 DEF Recovered
<1> QED
  BY <1>1, <1>2, EnrichTypeInit, EnrichTypeStep, UntouchedStep, ListStep, PTL
  DEF EnrichSpec
=============================================================================
