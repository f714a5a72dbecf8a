----------------------------- MODULE MCAttachVnics -----------------------------
(* Two guests; overlapping invocations and reruns of attach-vnics.py. *)
EXTENDS AttachVnics

CONSTANTS vm1, vm2, r1, r2

MCGuestNames == <<vm1, vm2>>
MCRuns == {r1, r2}
MCNics == {0, 1}

(* The other half is these with the two NICs exchanged. *)
MCNicChoices == {nic \in [MCRuns -> MCNics] : nic[r1] = 0}
================================================================================
