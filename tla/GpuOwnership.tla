----------------------------- MODULE GpuOwnership ------------------------------
(***************************************************************************)
(* What the lifecycle controller promises, without commands or failures:   *)
(* each guest's GPUs belong to the host, to the guest, or are on the way,  *)
(* and a durable record announces a handover before any GPU changes hands. *)
(* The record may run ahead of the hardware and never lags behind it.      *)
(***************************************************************************)
CONSTANT Vms

VARIABLES
    owner,      \* owner[v]: "host", "moving" or "guest"
    record      \* "host", "moving" or "guest": what the record allows

ownVars == <<owner, record>>

(* Init: nothing was handed over. *)
Init ==
    /\ owner = [v \in Vms |-> "host"]
    /\ record = "host"

(* Announce that GPUs are going to move, in either direction. *)
Announce ==
    /\ record' = "moving"
    /\ UNCHANGED owner

(* Settle: all GPUs are where the new record says. *)
SettleOnHost ==
    /\ record = "moving"
    /\ \A v \in Vms : owner[v] = "host"
    /\ record' = "host"
    /\ UNCHANGED owner

SettleOnGuests ==
    /\ record = "moving"
    /\ \A v \in Vms : owner[v] = "moving"
    /\ record' = "guest"
    /\ UNCHANGED owner

(* The GPUs of a guest change drivers: only under an announcement. *)
Move(v) ==
    /\ record = "moving"
    /\ owner[v] # "guest"
    /\ \E o \in {"host", "moving"} : owner' = [owner EXCEPT ![v] = o]
    /\ UNCHANGED record

(* A guest takes GPUs that are on the way; never those of the host. *)
Take(v) ==
    /\ record # "host"
    /\ owner[v] = "moving"
    /\ owner' = [owner EXCEPT ![v] = "guest"]
    /\ UNCHANGED record

(* A guest lets go of them: they do not return to the host by that. *)
Release(v) ==
    /\ owner[v] = "guest"
    /\ owner' = [owner EXCEPT ![v] = "moving"]
    /\ UNCHANGED record

(* The hardware forgets, the record does not. *)
Crash ==
    /\ owner' = [v \in Vms |-> "host"]
    /\ UNCHANGED record

Next ==
    \/ Announce \/ SettleOnHost \/ SettleOnGuests \/ Crash
    \/ \E v \in Vms : Move(v) \/ Take(v) \/ Release(v)

Spec == Init /\ [][Next]_ownVars
================================================================================
