--------------------------- MODULE MCInstallServices ---------------------------
(* Three crews: invocations of the manager with losses of power; an installation in
   the middle of them; three installations and a transition. *)
EXTENDS InstallServices

CONSTANTS w1, w2, w3, w4, i1, i2, i3

MCWrites == {w1, w2, w3, w4}
MCPrepares == {w1, w2}
MCConfigs == {"first", "second"}
MCInstallers == {i1, i2, i3}
MCSource == [i \in MCInstallers |-> IF i = i1 THEN "first" ELSE "second"]
MCCrews == {[processes |-> {w1, w2, w3, w4}, losses |-> 1],
            [processes |-> {w1, w3, i1, i2}, losses |-> 0],
            [processes |-> {i1, i2, i3}, losses |-> 0]}
================================================================================
