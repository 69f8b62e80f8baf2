--------------------------- MODULE MCConfigReload ---------------------------
(* Instances of ConfigReload for TLC: three contents the editor may save,    *)
(* one of which turns the scoring streams off and one of which is disabled.  *)
EXTENDS ConfigReload

CONSTANTS v1, v2, v3

AllVersions == {v1, v2, v3}
ScoringVersions == {v1, v3}
EnabledVersions == {v1, v2}
=============================================================================
