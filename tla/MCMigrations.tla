---------------------------- MODULE MCMigrations ----------------------------
(* Small instances of Migrations for TLC.                                  *)
EXTENDS Migrations, TLC

CONSTANTS i1, i2, i3
TwoRunners == {i1, i2}
ThreeRunners == {i1, i2, i3}
=============================================================================
