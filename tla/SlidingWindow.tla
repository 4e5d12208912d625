--------------------------- MODULE SlidingWindow ---------------------------
(***************************************************************************)
(* What a sliding-window limit promises, with nothing forgotten: a key is  *)
(* admitted only while it has had fewer than Limit admissions in the       *)
(* window, and refused only when it has had Limit of them.  An admission   *)
(* exactly Window old may be counted or not.                               *)
(***************************************************************************)
EXTENDS Integers, Sequences

CONSTANTS Keys, Limit, Window

VARIABLES
    now,      \* the monotonic clock
    served,   \* served[k]: when k was admitted, oldest first
    answer    \* the key of the last request and whether it was admitted

vars == <<now, served, answer>>

\* How long ago the last Limit admissions of k began: they are all of its
\* admissions in the window that count.
Spent(k) == Len(served[k]) >= Limit
Span(k) == now - served[k][Len(served[k]) + 1 - Limit]

Init ==
    /\ now \in Nat
    /\ served = [k \in Keys |-> <<>>]
    /\ answer \in Keys \X BOOLEAN

Admit(k) ==
    /\ Spent(k) => Span(k) >= Window
    /\ served' = [served EXCEPT ![k] = Append(@, now)]
    /\ answer' = <<k, TRUE>>
    /\ UNCHANGED now

Refuse(k) ==
    /\ Spent(k) /\ Span(k) <= Window
    /\ answer' = <<k, FALSE>>
    /\ UNCHANGED <<now, served>>

Pass == now' > now /\ UNCHANGED <<served, answer>>

Next == Pass \/ \E k \in Keys : Admit(k) \/ Refuse(k)

Spec == Init /\ [][Next]_vars
=============================================================================
