----------------------------- MODULE ToolCalls -----------------------------
(***************************************************************************)
(* The middleware every MCP tool call goes through (tool_middleware.py):   *)
(* the cached on/off flags of the tools, refreshed from the store when     *)
(* they are older than their TTL or when an admin toggles one, and the     *)
(* pacing of identical calls, that is of calls with the same caller and    *)
(* tool.  The admin's toggle and tool tester (routes_admin.py) take part,  *)
(* and a restored snapshot, which writes flags and refreshes none.         *)
(*                                                                         *)
(* A call and a toggle are asyncio tasks: an action runs from one await to *)
(* the next.  _pacing_lock is never held across an await, so entering it   *)
(* is never a wait; _flag_lock is held while the flags are read.  Blocked  *)
(* names, file_path arguments and the enrichment of results change none of *)
(* this state and are not modelled here.                                   *)
(***************************************************************************)
EXTENDS Integers, FiniteSets

CONSTANTS
    Calls,        \* tasks that run tool calls, one call after the other
    Toggles,      \* tasks that run admin toggles
    Callers,      \* caller fingerprints, "anonymous" among them
    Tools,        \* tool names
    Nobody,       \* _flag_lock is free
    Cap,          \* max_concurrent_identical
    Gap, Jitter,  \* min_gap_seconds and gap_jitter_seconds, in ticks
    StoreFaults   \* TRUE: reading or writing the flags may fail

ASSUME ToolCallsAssumption ==
    /\ IsFiniteSet(Calls) /\ Calls \cap Toggles = {}
    /\ Nobody \notin Calls \cup Toggles
    /\ Callers # {} /\ Tools # {}
    /\ Cap \in Nat \ {0} /\ Gap \in Nat /\ Jitter \in Nat
    /\ StoreFaults \in BOOLEAN

Pairs == Callers \X Tools
Tasks == Calls \cup Toggles
Delays == 0..(Gap + Jitter)

VARIABLES
    stored,       \* stored[t]: t's row in tool_flags (TRUE without one)
    flags,        \* _flags[t], TRUE for a tool that is not in it
    loaded,       \* _flags_loaded: some refresh has succeeded
    fresh,        \* _flags_loaded_at is less than the TTL ago
    flagLock,     \* the holder of _flag_lock
    got,          \* got[x]: what x's list_tool_flags has read, AllOn outside it
    inFlight,     \* _pairs[k].in_flight, 0 when the entry is deleted
    pc, pair,     \* of each call: where it is, and its caller and tool
    delay,        \* ticks a call still has to sleep
    tpc, ttool, tset,  \* of each toggle: where it is, its tool, its setting
    off,          \* history: t was switched off, the toggle's refresh is done,
                  \* and nobody has begun to switch it or restored it since
    barred,       \* history: the calls that began while their tool was off
    undone        \* history: the toggles whose tool was restored under way

vars == <<stored, flags, loaded, fresh, flagLock, got, inFlight, pc, pair, delay,
          tpc, ttool, tset, off, barred, undone>>
flagVars == <<stored, flags, loaded, fresh, flagLock, got>>
paceVars == <<inFlight, delay>>
toggleVars == <<tpc, ttool, tset>>
histVars == <<off, barred, undone>>

Flags == [Tools -> BOOLEAN]
AllOn == [t \in Tools |-> TRUE]
Held == {"gap", "run"}
CallPCs == {"idle", "tester", "policy", "lock", "load", "decide", "admit"} \cup Held

\* Slot counters never go below zero or above the cap, and the flag lock is
\* nobody's or a task's.
TypeOK ==
    /\ stored \in Flags /\ flags \in Flags
    /\ loaded \in BOOLEAN /\ fresh \in BOOLEAN
    /\ flagLock \in Tasks \cup {Nobody}
    /\ got \in [Tasks -> Flags]
    /\ inFlight \in [Pairs -> Nat]
    /\ pc \in [Calls -> CallPCs]
    /\ pair \in [Calls -> Pairs]
    /\ delay \in [Calls -> Delays]
    /\ tpc \in [Toggles -> {"idle", "write", "lock", "load", "answer"}]
    /\ ttool \in [Toggles -> Tools]
    /\ tset \in [Toggles -> BOOLEAN]
    /\ off \in Flags
    /\ barred \subseteq Calls
    /\ undone \subseteq Toggles

\* The flags are loaded at start-up; a failure there leaves them unloaded.
Init ==
    /\ stored \in Flags
    /\ loaded \in {TRUE, ~StoreFaults}
    /\ flags = IF loaded THEN stored ELSE AllOn
    /\ fresh = TRUE
    /\ flagLock = Nobody
    /\ got = [x \in Tasks |-> AllOn]
    /\ inFlight = [k \in Pairs |-> 0]
    /\ pc = [c \in Calls |-> "idle"]
    /\ pair = [c \in Calls |-> CHOOSE k \in Pairs : TRUE]
    /\ delay = [c \in Calls |-> 0]
    /\ tpc = [x \in Toggles |-> "idle"]
    /\ ttool = [x \in Toggles |-> CHOOSE t \in Tools : TRUE]
    /\ tset = [x \in Toggles |-> TRUE]
    /\ off = [t \in Tools |-> FALSE]
    /\ barred = {}
    /\ undone = {}

Goto(c, there) == pc' = [pc EXCEPT ![c] = there]
TGoto(x, there) == tpc' = [tpc EXCEPT ![x] = there]
Tool(c) == pair[c][2]

-----------------------------------------------------------------------------
(* _refresh_flags, for a task x that has come to the lock.                 *)
TakeFlagLock(x) == flagLock = Nobody /\ flagLock' = x

\* The read has reached the store; its answer is used only after the await.
ReadFlags(x) == got' = [got EXCEPT ![x] = stored]

DropAnswer(x) == got' = [got EXCEPT ![x] = AllOn]

UseFlags(x) ==
    /\ flags' = got[x]
    /\ loaded' = TRUE
    /\ fresh' = TRUE
    /\ flagLock' = Nobody
    /\ DropAnswer(x)
    /\ UNCHANGED stored

\* Seeded fault: the lock is not released on the way out of a failure.
RefreshFailsLocked(x) ==
    /\ StoreFaults
    /\ fresh' = TRUE
    /\ DropAnswer(x)
    /\ UNCHANGED <<stored, flags, loaded, flagLock>>

\* The old flags stay, and count as fresh until the TTL runs out again.
RefreshFails(x) ==
    /\ StoreFaults
    /\ fresh' = TRUE
    /\ flagLock' = Nobody
    /\ DropAnswer(x)
    /\ UNCHANGED <<stored, flags, loaded>>

TTLExpires ==
    /\ fresh
    /\ fresh' = FALSE
    /\ UNCHANGED <<stored, flags, loaded, flagLock, got, paceVars, pc, pair, toggleVars, histVars>>

-----------------------------------------------------------------------------
(* on_call_tool up to the decision; the admin's tester reads the store's   *)
(* own flag first and goes through the middleware as well.                 *)
BeginCall(c, k, tester) ==
    /\ pc[c] = "idle"
    /\ pair' = [pair EXCEPT ![c] = k]
    /\ barred' = IF off[k[2]] THEN barred \cup {c} ELSE barred
    /\ Goto(c, IF tester THEN "tester" ELSE "policy")
    /\ UNCHANGED <<flagVars, paceVars, toggleVars, off, undone>>

\* A call that ends before it was admitted: refused, or never allowed.
EndRefused(c) == Goto(c, "idle") /\ barred' = barred \ {c} /\ UNCHANGED <<off, undone>>

TesterCheck(c) ==
    /\ pc[c] = "tester"
    /\ \/ stored[Tool(c)] /\ Goto(c, "policy") /\ UNCHANGED histVars
       \/ ~stored[Tool(c)] /\ EndRefused(c)
       \/ StoreFaults /\ EndRefused(c)
    /\ UNCHANGED <<flagVars, paceVars, pair, toggleVars>>

\* Fresh flags are used as they are, otherwise the call goes for the lock.
CheckFresh(c) ==
    /\ pc[c] = "policy"
    /\ Goto(c, IF fresh THEN "decide" ELSE "lock")
    /\ UNCHANGED <<flagVars, paceVars, pair, toggleVars, histVars>>

\* With the lock it looks again: someone may have refreshed meanwhile.
LockAndRead(c) ==
    /\ pc[c] = "lock"
    /\ flagLock = Nobody
    /\ IF fresh THEN Goto(c, "decide") /\ UNCHANGED <<flagLock, got>>
                ELSE Goto(c, "load") /\ TakeFlagLock(c) /\ ReadFlags(c)
    /\ UNCHANGED <<stored, flags, loaded, fresh, paceVars, pair, toggleVars, histVars>>

Load(c) ==
    /\ pc[c] = "load"
    /\ UseFlags(c) \/ RefreshFails(c)
    /\ Goto(c, "decide")
    /\ UNCHANGED <<paceVars, pair, toggleVars, histVars>>

\* The client gives up while its call waits for the flags: the lock is given
\* back, and neither the flags nor their age change.
CancelInRefresh(c) ==
    /\ pc[c] \in {"lock", "load"}
    /\ flagLock' = IF pc[c] = "load" THEN Nobody ELSE flagLock
    /\ DropAnswer(c)
    /\ EndRefused(c)
    /\ UNCHANGED <<stored, flags, loaded, fresh, paceVars, pair, toggleVars>>

Decide(c) ==
    /\ pc[c] = "decide"
    /\ IF loaded /\ flags[Tool(c)] THEN Goto(c, "admit") /\ UNCHANGED histVars
                                   ELSE EndRefused(c)
    /\ UNCHANGED <<flagVars, paceVars, pair, toggleVars>>

-----------------------------------------------------------------------------
(* Pacing: _admit, _wait_for_gap, the call, _release.                      *)

\* Seeded fault: one call more than the cap.
HasRoomForOneMore(k) == inFlight[k] <= Cap
HasRoom(k) == inFlight[k] < Cap

\* The first call of a pair sleeps 0, an overlapping one the gap with jitter.
Delay(k) == IF inFlight[k] = 0 THEN {0} ELSE Gap..(Gap + Jitter)

Admit(c) ==
    /\ pc[c] = "admit"
    /\ IF HasRoom(pair[c])
       THEN /\ inFlight' = [inFlight EXCEPT ![pair[c]] = @ + 1]
            /\ \E d \in Delay(pair[c]) : delay' = [delay EXCEPT ![c] = d]
            /\ Goto(c, "gap")
            /\ UNCHANGED histVars
       ELSE EndRefused(c) /\ UNCHANGED <<inFlight, delay>>
    /\ UNCHANGED <<flagVars, pair, toggleVars>>

Start(c) ==
    /\ pc[c] = "gap"
    /\ delay[c] = 0
    /\ Goto(c, "run")
    /\ UNCHANGED <<flagVars, paceVars, pair, toggleVars, histVars>>

\* Seeded fault: the slot is not given back.
ReleaseNothing(c) == UNCHANGED inFlight
Release(c) == inFlight' = [inFlight EXCEPT ![pair[c]] = @ - 1]

\* The call returns, raises or is cancelled: the slot goes back either way.
Finish(c) ==
    /\ pc[c] = "run"
    /\ Release(c)
    /\ EndRefused(c)
    /\ UNCHANGED <<flagVars, delay, pair, toggleVars>>

\* The client gives up during the gap.
CancelInGap(c) ==
    /\ pc[c] = "gap"
    /\ Release(c)
    /\ delay' = [delay EXCEPT ![c] = 0]
    /\ EndRefused(c)
    /\ UNCHANGED <<flagVars, pair, toggleVars>>

\* Sleeps end on time.
Tick ==
    /\ \A c \in Calls : pc[c] = "gap" => delay[c] > 0
    /\ delay' = [c \in Calls |-> IF delay[c] > 0 THEN delay[c] - 1 ELSE 0]
    /\ UNCHANGED <<flagVars, inFlight, pc, pair, toggleVars, histVars>>

-----------------------------------------------------------------------------
(* toggle_tool: write the flag, force a refresh, answer.  A refresh that   *)
(* fails is only logged.                                                   *)
Unsettle(t) ==
    /\ off' = [off EXCEPT ![t] = FALSE]
    /\ barred' = {c \in barred : Tool(c) # t}

BeginToggle(x, t, on) ==
    /\ tpc[x] = "idle"
    /\ ttool' = [ttool EXCEPT ![x] = t]
    /\ tset' = [tset EXCEPT ![x] = on]
    /\ TGoto(x, "write")
    /\ Unsettle(t)
    /\ UNCHANGED <<flagVars, paceVars, pc, pair, undone>>

\* set_tool_flag
WriteFlag(x) ==
    /\ tpc[x] = "write"
    /\ stored' = [stored EXCEPT ![ttool[x]] = tset[x]]
    /\ TGoto(x, "lock")
    /\ UNCHANGED <<flags, loaded, fresh, flagLock, got, paceVars, pc, pair, ttool, tset, histVars>>

EndToggle(x) ==
    /\ TGoto(x, "idle")
    /\ tset' = [tset EXCEPT ![x] = TRUE]
    /\ undone' = undone \ {x}
    /\ UNCHANGED <<flagVars, paceVars, pc, pair, ttool, off, barred>>

\* The admin gets a 503 and no promise.
WriteFails(x) ==
    /\ StoreFaults
    /\ tpc[x] = "write"
    /\ EndToggle(x)

\* The refresh has gone through: the tool is off for every call from now on,
\* unless another toggle is about to change it or a restore has changed it.
Promise(x) ==
    /\ off' = [off EXCEPT ![ttool[x]] =
                  /\ ~tset[x] /\ ~stored[ttool[x]] /\ x \notin undone
                  /\ \A y \in Toggles \ {x} : tpc[y] # "idle" => ttool[y] # ttool[x]]
    /\ UNCHANGED <<barred, undone>>

\* Seeded fault: a refresh that trusts fresh flags.
UnforcedRefresh(x) ==
    /\ tpc[x] = "lock"
    /\ flagLock = Nobody
    /\ IF fresh THEN TGoto(x, "answer") /\ Promise(x) /\ UNCHANGED <<flagLock, got>>
                ELSE TGoto(x, "load") /\ TakeFlagLock(x) /\ ReadFlags(x) /\ UNCHANGED histVars
    /\ UNCHANGED <<stored, flags, loaded, fresh, paceVars, pc, pair, ttool, tset>>

ForcedRefresh(x) ==
    /\ tpc[x] = "lock"
    /\ TakeFlagLock(x)
    /\ ReadFlags(x)
    /\ TGoto(x, "load")
    /\ UNCHANGED <<stored, flags, loaded, fresh, paceVars, pc, pair, ttool, tset, histVars>>

ToggleLoad(x) ==
    /\ tpc[x] = "load"
    /\ \/ UseFlags(x) /\ Promise(x)
       \/ RefreshFails(x) /\ UNCHANGED histVars
    /\ TGoto(x, "answer")
    /\ UNCHANGED <<paceVars, pc, pair, ttool, tset>>

Answer(x) ==
    /\ tpc[x] = "answer"
    /\ EndToggle(x)

\* restore_snapshot writes the snapshot's flag of a tool and forces no
\* refresh, so that it promises nothing and takes back what was promised.
RestoreFlag(t, on) ==
    /\ stored' = [stored EXCEPT ![t] = on]
    /\ undone' = undone \cup {x \in Toggles : tpc[x] # "idle" /\ ttool[x] = t}
    /\ Unsettle(t)
    /\ UNCHANGED <<flags, loaded, fresh, flagLock, got, paceVars, pc, pair, toggleVars>>

-----------------------------------------------------------------------------
CallStep(c) ==
    \/ TesterCheck(c) \/ CheckFresh(c) \/ Load(c) \/ Decide(c) \/ Admit(c)
    \/ Start(c) \/ Finish(c)

ToggleStep(x) == WriteFlag(x) \/ ToggleLoad(x) \/ Answer(x)

Next ==
    \/ \E c \in Calls : \/ \E k \in Pairs, tester \in BOOLEAN : BeginCall(c, k, tester)
                        \/ CallStep(c) \/ LockAndRead(c)
                        \/ CancelInRefresh(c) \/ CancelInGap(c)
    \/ \E x \in Toggles : \/ \E t \in Tools, on \in BOOLEAN : BeginToggle(x, t, on)
                          \/ ToggleStep(x) \/ ForcedRefresh(x) \/ WriteFails(x)
    \/ \E t \in Tools, on \in BOOLEAN : RestoreFlag(t, on)
    \/ TTLExpires \/ Tick

Spec == Init /\ [][Next]_vars

(* The event loop runs what can run (WF), asyncio.Lock lets its waiters in *)
(* first in first out (SF), time passes and upstream calls come back.      *)
FairSpec ==
    /\ Spec
    /\ \A c \in Calls : WF_vars(CallStep(c)) /\ SF_vars(LockAndRead(c))
    /\ \A x \in Toggles : WF_vars(ToggleStep(x)) /\ SF_vars(ForcedRefresh(x))
    /\ WF_vars(Tick)

-----------------------------------------------------------------------------
InPair(k) == {c \in Calls : pc[c] \in Held /\ pair[c] = k}

(* tool_middleware.py 472-480: whatever becomes of the calls, a pair's     *)
(* counter is the number of its calls in flight, so that none is refused   *)
(* for a call that is over and an idle pair leaves no entry; and however   *)
(* calls overlap, at most Cap identical ones are in flight.                *)
SlotsAreExact ==
    \A k \in Pairs : inFlight[k] = Cardinality(InPair(k)) /\ inFlight[k] <= Cap

(* README.md 369, "toggle individual tools on or off with immediate        *)
(* effect": once a toggle's forced refresh has succeeded, a call that      *)
(* begins then does not reach the tool, whatever older reads of the flags  *)
(* and failing refreshes were under way, until someone toggles the tool or *)
(* restores its flag.  (After a forced refresh that fails the admin gets   *)
(* the same answer and calls go on for a TTL.)                             *)
OffIsImmediate == \A c \in barred : pc[c] \notin Held

(* Every call and every toggle comes to an end, refreshes or not.          *)
CallsFinish ==
    /\ \A c \in Calls : pc[c] # "idle" ~> pc[c] = "idle"
    /\ \A x \in Toggles : tpc[x] # "idle" ~> tpc[x] = "idle"
=============================================================================
