------------------------------- MODULE MCHostBoot ------------------------------
(* A guest, a run of the helper by hand, two boots. *)
EXTENDS HostBoot

CONSTANTS g1, byHand

MCGuests == {g1}
MCRuns == MCGuests \union {byHand}
MCFor == [r \in MCRuns |-> IF r = byHand THEN g1 ELSE r]
================================================================================
