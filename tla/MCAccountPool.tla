--------------------------- MODULE MCAccountPool ---------------------------
(* Instances of AccountPool for TLC.                                       *)
EXTENDS AccountPool, TLC

CONSTANTS a1, monitor, admin, admin2

OneLabel == {a1}
TwoTasks == {monitor, admin}
ThreeTasks == TwoTasks \cup {admin2}

\* The operations that a run lets the tasks begin.
EveryOp == AllOps
CheckOps == {"check"}

\* Tasks differ only by name.
Tasks == Permutations(ThreeTasks)
=============================================================================
