----------------------------- MODULE Enrichment -----------------------------
(***************************************************************************)
(* The recovery of a scheduled tweet's id (tool_middleware.py): X creates  *)
(* the tweet but the tool does not return its id, so after the call the    *)
(* gateway lists the scheduled tweets and, if exactly one entry has the    *)
(* text and the time of the call, adds its id to the result.  Several      *)
(* calls, and people who schedule, edit and delete tweets elsewhere, work  *)
(* on the same list.                                                       *)
(*                                                                         *)
(* A text is a model value; X is taken to list it as it was given.  Times  *)
(* are in half seconds: the listing is exact, schedule_tweet reports whole *)
(* seconds.  A result has some representations, the text block and the     *)
(* structured envelope, any of which may refuse to be written.             *)
(***************************************************************************)
EXTENDS Integers, FiniteSets

CONSTANTS
    Posts,       \* schedule_tweet calls; also the ids of what they create
    Others,      \* ids of tweets scheduled elsewhere
    Views,       \* the representations a result may have
    Accounts,    \* accounts of the pool
    Texts,       \* tweet texts
    Times,       \* execution times, in half seconds
    Tolerance,   \* _EXECUTE_AT_TOLERANCE_MS, in half seconds
    Rotates,     \* TRUE: the writer may use another account for the listing
    None         \* no entry, no representation, no id

Entry == [account : Accounts, text : Texts, at : Times]

ASSUME EnrichmentAssumption ==
    /\ Posts \cap Others = {} /\ None \notin Posts \cup Others \cup Entry
    /\ Accounts # {} /\ Texts # {} /\ Times # {} /\ Times \subseteq Nat
    /\ Tolerance \in Nat \ {0}
    /\ Rotates \in BOOLEAN

Ids == Posts \cup Others
\* What tells the time: the seconds of the payload or the argument, or an ISO
\* string in the arguments, or nothing that can be read.
Clocks == {"seconds", "iso", "nothing"}

VARIABLES
    listed,      \* listed[id]: the entry on X, or None
    stage,          \* of each call: "idle", "create", "list", "done"
    asked,       \* the entry each call in progress asked for, or None
    clock,       \* what each call's time can be read from
    holds,       \* the representations each result has
    stiff,       \* those of them that refuse a write
    result,      \* result[c][v]: the id in representation v, or None
    touched      \* history: calls, not answered yet, whose own tweet was edited,
                 \* deleted or sent

evars == <<listed, stage, asked, clock, holds, stiff, result, touched>>

\* A result holds ids only where it has a representation.
EnrichTypeOK ==
    /\ listed \in [Ids -> Entry \cup {None}]
    /\ stage \in [Posts -> {"idle", "create", "list", "done"}]
    /\ asked \in [Posts -> Entry \cup {None}]
    /\ \A c \in Posts : asked[c] # None <=> stage[c] \in {"create", "list"}
    /\ clock \in [Posts -> Clocks]
    /\ holds \in [Posts -> SUBSET Views] /\ stiff \in [Posts -> SUBSET Views]
    /\ result \in [Posts -> [Views -> Ids \cup {None}]]
    /\ \A c \in Posts, v \in Views : result[c][v] # None => v \in holds[c]
    /\ \A c \in touched : c \in Posts /\ stage[c] = "list"

EnrichInit ==
    /\ listed \in [Ids -> Entry \cup {None}] /\ \A c \in Posts : listed[c] = None
    /\ stage = [c \in Posts |-> "idle"]
    /\ asked = [c \in Posts |-> None]
    /\ clock = [c \in Posts |-> "nothing"]
    /\ holds = [c \in Posts |-> {}] /\ stiff = [c \in Posts |-> {}]
    /\ result = [c \in Posts |-> [v \in Views |-> None]]
    /\ touched = {}

Enter(c, there) == stage' = [stage EXCEPT ![c] = there]

\* The call is answered: only its result is left of it.
AnswerPost(c) ==
    /\ Enter(c, "done")
    /\ asked' = [asked EXCEPT ![c] = None]
    /\ clock' = [clock EXCEPT ![c] = "nothing"]
    /\ stiff' = [stiff EXCEPT ![c] = {}]
    /\ touched' = touched \ {c}
    /\ UNCHANGED holds

-----------------------------------------------------------------------------
(* on_call_tool: the call itself, then enrich_result after its slot has    *)
(* been given back.                                                        *)
Call(c, e) ==
    /\ stage[c] = "idle"
    /\ asked' = [asked EXCEPT ![c] = e]
    /\ Enter(c, "create")
    /\ UNCHANGED <<listed, clock, holds, stiff, result, touched>>

\* X has the tweet, and the result says "scheduled" in some representation.
Created(c) ==
    /\ stage[c] = "create"
    /\ listed' = [listed EXCEPT ![c] = asked[c]]
    /\ \E k \in Clocks : clock' = [clock EXCEPT ![c] = k]
    /\ \E H \in SUBSET Views \ {{}} : \E S \in SUBSET H :
          holds' = [holds EXCEPT ![c] = H] /\ stiff' = [stiff EXCEPT ![c] = S]
    /\ Enter(c, "list")
    /\ UNCHANGED <<asked, result, touched>>

\* The call raises or returns an error; X may have the tweet all the same.
CallFails(c) ==
    /\ stage[c] = "create"
    /\ \/ UNCHANGED listed
       \/ listed' = [listed EXCEPT ![c] = asked[c]]
    /\ AnswerPost(c)
    /\ UNCHANGED result

-----------------------------------------------------------------------------
(* _enrich_schedule_tweet                                                  *)

\* _expected_execute_at_ms
Expected(c) == IF clock[c] = "seconds" THEN 2 * (asked[c].at \div 2) ELSE asked[c].at

Distance(a, b) == IF a < b THEN b - a ELSE a - b

\* Seeded fault: seconds are compared without any tolerance.
MatchesExactly(e, c) == e.text = asked[c].text /\ e.at = Expected(c)

\* _entry_matches
Matches(e, c) ==
    /\ e.text = asked[c].text
    /\ Distance(e.at, Expected(c)) <= Tolerance

\* The account whose scheduled tweets the writer lists.
Listing(a) == {id \in Ids : listed[id] # None /\ listed[id].account = a}

Candidates(a, c) == {id \in Listing(a) : Matches(listed[id], c)}

ListedAccounts(c) == IF Rotates THEN Accounts ELSE {asked[c].account}

\* Seeded fault: the newest or first of several matches is taken.
FirstMatch(a, c) == Candidates(a, c)

\* The ids that may be added: the only candidate, if there is exactly one.
Recovered(a, c) == {id \in Candidates(a, c) : Candidates(a, c) = {id}}

\* Seeded fault: what was written before a refused write is left written.
RewriteWithoutRestore(c, id) ==
    result' = [result EXCEPT ![c] =
        [v \in Views |-> IF v \in holds[c] \ stiff[c] THEN id ELSE None]]

\* _rewrite_payload: every representation, or none if one refuses.
Rewrite(c, id) ==
    result' = [result EXCEPT ![c] =
        [v \in Views |-> IF v \in holds[c] /\ stiff[c] = {} THEN id ELSE None]]

\* The listing has answered, within its time.
Enrich(c) ==
    /\ stage[c] = "list"
    /\ clock[c] # "nothing"
    /\ \E a \in ListedAccounts(c) :
          \/ \E id \in Recovered(a, c) : Rewrite(c, id)
          \/ Recovered(a, c) = {} /\ UNCHANGED result
    /\ AnswerPost(c)
    /\ UNCHANGED listed

\* Nothing to match on, or the listing fails, times out, or cannot be read.
LeaveAlone(c) ==
    /\ stage[c] = "list"
    /\ AnswerPost(c)
    /\ UNCHANGED <<listed, result>>

-----------------------------------------------------------------------------
(* Everybody else, who sees on the list what a call has just created.      *)
Touch(id) ==
    touched' = IF id \in Posts /\ stage[id] = "list" THEN touched \cup {id} ELSE touched

\* Scheduled or edited by somebody.
Schedule(id, e) ==
    /\ id \in Others \/ listed[id] # None
    /\ listed' = [listed EXCEPT ![id] = e]
    /\ Touch(id)
    /\ UNCHANGED <<stage, asked, clock, holds, stiff, result>>

\* Deleted, or sent.
Remove(id) ==
    /\ listed[id] # None
    /\ listed' = [listed EXCEPT ![id] = None]
    /\ Touch(id)
    /\ UNCHANGED <<stage, asked, clock, holds, stiff, result>>

EnrichNext ==
    \/ \E c \in Posts : \/ \E e \in Entry : Call(c, e)
                        \/ Created(c) \/ CallFails(c) \/ Enrich(c) \/ LeaveAlone(c)
    \/ \E id \in Ids : \/ \E e \in Entry : Schedule(id, e)
                       \/ Remove(id)

EnrichSpec == EnrichInit /\ [][EnrichNext]_evars

-----------------------------------------------------------------------------
(* tool_middleware.py 129-130, "never guess": with one account, or one     *)
(* that does not change between the two requests, an id that was added is  *)
(* that of the tweet the call created, whatever twins others or earlier,   *)
(* failed or concurrent calls have put on the list and whenever those were *)
(* edited or deleted.  Not if the call's own tweet was edited, deleted or  *)
(* sent before the listing: its only twin is taken for it then.            *)
RecoveredIsOwn ==
    [][\A c \in Posts \ touched, v \in Views :
          result'[c][v] # result[c][v] => result'[c][v] = c]_evars

(* tool_middleware.py 240-245: no client sees the id in the text and not   *)
(* in the structured content, or the other way round.                      *)
ViewsAgree ==
    \A c \in Posts : \A v, w \in holds[c] : result[c][v] = result[c][w]

(* tool_middleware.py 136-142, 314-319: a lone tweet's id is not missed    *)
(* for the rounding of its time: while only one entry has the text, and    *)
(* nobody has edited it, a listing that answers finds it.                  *)
LoneTweetIsFound ==
    \A c \in Posts \ touched :
        /\ stage[c] = "list"
        /\ \A id \in Ids \ {c} : listed[id] = None \/ listed[id].text # asked[c].text
        => Recovered(asked[c].account, c) = {c}
=============================================================================
