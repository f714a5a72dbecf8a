---------------------------- MODULE MCConfigureGpu -----------------------------
(* Invocations with the default backup directory, or with one each. *)
EXTENDS ConfigureGpu

CONSTANTS r1, r2, r3, default, other

MCRuns == {r1, r2, r3}
MCDirs == {default}
MCTwoDirs == {default, other}
================================================================================
