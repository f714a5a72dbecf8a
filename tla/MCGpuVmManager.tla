---------------------------- MODULE MCGpuVmManager -----------------------------
(* Small hosts for model checking the lifecycle. *)
EXTENDS LifecycleProperties, TLC

CONSTANTS v1, v2, g1, g2, dcgm

(* Two guests with one GPU each: a guest that runs beside one in transition. *)
MCVms == {v1, v2}
MCGpus == {g1, g2}
MCGpusOf == (v1 :> {g1}) @@ (v2 :> {g2})

(* One guest with one GPU, or with two: a guest whose GPUs are half moved. *)
OneVm == {v1}
OneGpu == {g1}
OneGpusOf == v1 :> {g1}
TwoGpus == {g1, g2}
OneTwoGpusOf == v1 :> {g1, g2}

MCClients == {dcgm}
NoClients == {}
================================================================================
