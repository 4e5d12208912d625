----------------------------- MODULE MCSqlText -----------------------------
(* Instances of SqlText for TLC.                                           *)
EXTENDS SqlText

OneString == {"'"}
OneName == {"backtick"}
=============================================================================
