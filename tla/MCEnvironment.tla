---------------------------- MODULE MCEnvironment ----------------------------
(* Two environments, two data sources, one of them of the system.          *)
EXTENDS Environment

CONSTANTS e1, e2

MCEnvs == {e1, e2}
MCDsns == 1 .. 2
MCSystemDsns == {2}
MCFaultSets == {{"change"}, {"dm_fails"}, {"version_fails", "odd_version"}, {"settings"}}
=============================================================================
