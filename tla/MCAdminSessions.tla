-------------------------- MODULE MCAdminSessions --------------------------
(* Instances of AdminSessions for TLC.                                     *)
EXTENDS AdminSessions, TLC

CONSTANTS i1, i2, r1, r2, s1, s2, old, new

TwoInstances == {i1, i2}
TwoRequests == {r1, r2}
TwoSids == {s1, s2}
TwoTokens == {old, new}

Alike == Permutations(TwoInstances) \cup Permutations(TwoRequests)
             \cup Permutations(TwoSids) \cup Permutations(TwoTokens)
=============================================================================
