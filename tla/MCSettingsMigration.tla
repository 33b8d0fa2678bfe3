------------------------- MODULE MCSettingsMigration -------------------------
(* One or two settings in each of the three namespaces.                      *)
EXTENDS SettingsMigration

CONSTANTS k1, v1, v2

OneKey == {k1}
TwoVals == {v1, v2}
=============================================================================
