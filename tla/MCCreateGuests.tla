---------------------------- MODULE MCCreateGuests -----------------------------
(* Two guests; three invocations that overlap or rerun one another. *)
EXTENDS CreateGuests

CONSTANTS vm1, vm2, r1, r2, r3

MCGuestNames == <<vm1, vm2>>
MCRuns == {r1, r2, r3}

(* The invocations are interchangeable. *)
RunSymmetry == Permutations(MCRuns)
================================================================================
