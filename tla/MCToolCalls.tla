---------------------------- MODULE MCToolCalls ----------------------------
(* Instances of ToolCalls for TLC.                                         *)
EXTENDS ToolCalls

CONSTANTS c1, c2, c3, x1, caller, search

ThreeCalls == {c1, c2, c3}
OneToggle == {x1}
OneCaller == {caller}
OneTool == {search}
=============================================================================
