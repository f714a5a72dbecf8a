-------------------------- MODULE LifecycleProperties --------------------------
(***************************************************************************)
(* What the lifecycle of module GpuVmManager must not do to the host, what *)
(* it must get done, and the ownership protocol it implements.             *)
(***************************************************************************)
EXTENDS GpuVmManager

GpuWrites == {"start.power", "start.override", "start.unbind", "start.probe",
              "restore.unbind", "restore.override", "restore.probe", "restore.power"}

--------------------------------------------------------------------------------
(* Safety. *)

(* A guest that runs with its GPUs keeps them: no unbind, on time or late,  *)
(* of this transition or of an abandoned one, takes effect under it.        *)
GuestGpusStayVfio == \A v \in Vms : dom[v] = "gpu" => Assigned(v)

(* While a guest runs with its GPUs the fabric is quiet: Fabric Manager     *)
(* is down and no route is set, whatever start job was still on its way     *)
(* (the fabric audit of start(), restart() and verify_running()).           *)
FabricQuiet == (\E v \in Vms : dom[v] = "gpu") => FM \notin up /\ ~routes

(* The manager is at a sysfs write to a GPU only when no domain runs and no *)
(* launch is on its way, even one of an earlier invocation that gave up     *)
(* waiting for it (no_guest_owners).                                        *)
RebindOnlyWhenReleased == pc \in GpuWrites => Released(Vms)

(* Nor does it write while the process recorded by an uncertain transition  *)
(* is still at work on the host (no_uncertain_process).                     *)
RebindAfterRecordedProcess ==
    pc \in GpuWrites =>
        ~\E o \in inflight : o.pid = marker /\ o.alive /\ o.cmd # ReadCommand

(* A guest is launched by start() and restart() only after the previous     *)
(* instance is off and no other launch of it is on its way: an interrupted  *)
(* restart does not act on a target that came up after all.                 *)
LaunchOnlyWhenReleased ==
    /\ pc = "start.launch" => Released({cur})
    /\ pc = "restart.launch" => Released({call.guest})

(* A sysfs write outlives its invocation only under a phase that announces  *)
(* it: prepared, stopped and running leave no write behind that could move  *)
(* a GPU later.                                                             *)
LateWritesAreAnnounced ==
    \A o \in inflight : o.cmd \in GpuCommands => saved.phase \in Rebinding

(* A start claims the host only from the baseline, with nothing of an       *)
(* earlier transition still in flight on a GPU or a guest.                  *)
ClaimsOnlyResolved ==
    pc = "start.claim" =>
        /\ saved.phase \in {"prepared", "stopped"}
        /\ \A o \in inflight : o.cmd \notin GpuCommands \union VmCommands

(* No GPU is unbound, and no Fabric Manager stopped by a restore, under a   *)
(* running host application (no_gpu_apps, no_holders).                      *)
AppsKeepTheirGpus ==
    apps => pc \notin {"start.unbind", "restore.unbind", "restore.stopfm"}

(* The record "stopped" (and "prepared") is true: drivers, overrides, power *)
(* policy, domain definitions and Fabric Manager config are the baseline,   *)
(* also after a reboot and whatever lands late.                             *)
StoppedIsBaseline ==
    saved.phase \in {"prepared", "stopped"} =>
        /\ \A g \in Gpus : driver[g] = "nvidia" /\ override[g] = "" /\ power[g] = "saved"
        /\ \A v \in Vms : defn[v] = "cpu" /\ dom[v] # "gpu"
        /\ cfgMode = "mode0"

(* The record "running" of this boot, and "restarting", stays true of the   *)
(* hardware until the next transition claims the host.                      *)
RunningIsAssigned ==
    saved.phase \in {"running", "restarting"} /\ saved.bootId = boot =>
        /\ \A g \in Gpus : driver[g] = "vfio-pci"
        /\ \A v \in Vms : defn[v] = "gpu" /\ dom[v] # "cpu"
        /\ cfgMode = "mode1" /\ FM \notin up

(* Drivers change only under a phase that announced it beforehand, except   *)
(* when a reboot resets them.                                               *)
RebindIsAnnounced ==
    [][driver' # driver => saved.phase \in Rebinding \/ boot' # boot]_vars

--------------------------------------------------------------------------------
(* What the repository's texts say and the code does not do. *)

(* "Uncertain prior command PID ... still exists; no new mutations": the    *)
(* manager does not ask a guest to power off while the recorded process of  *)
(* a state-changing command exists.                                         *)
NoNewMutations ==
    pc = "shutdown.ask" =>
        ~\E o \in inflight : o.pid = marker /\ o.alive /\ o.cmd # ReadCommand

(* The same of GPU writes and of every process that was ever recorded, not  *)
(* only of the one the file names last.                                     *)
RebindAfterEveryRecordedProcess ==
    pc \in GpuWrites =>
        ~\E o \in inflight : o.marked /\ o.alive /\ o.cmd # ReadCommand

--------------------------------------------------------------------------------
(* Liveness. *)

(* The process runs when it can, an operation ends one way or the other, a  *)
(* guest asked to power off does so and a host application ends eventually. *)
Fairness ==
    /\ WF_vars(ManagerStep)
    /\ WF_vars(\E o \in inflight : (LandLate(o) \/ DropLate(o)) /\ UNCHANGED <<files, local, calm>>)
    /\ \A v \in Vms : WF_vars(v \in asked /\ GuestPowersOff(v) /\ UNCHANGED <<files, local, calm>>)
    /\ WF_vars(AppExits /\ UNCHANGED <<files, local, calm>>)
    /\ WF_vars(sysStopping /\ HostReboots)

(* The operator answers an interrupted transition with stop, as the message *)
(* of start() asks, and repeats it until it succeeds.                       *)
OperatorRetriesStop ==
    WF_vars(calm /\ saved.phase # "stopped" /\ \E restoreGuests \in BOOLEAN : Stop(restoreGuests))

FairSpec == Spec /\ Fairness /\ OperatorRetriesStop

(* Every invocation ends: no command or guest can hold manager.lock forever. *)
InvocationEnds == (pc # "idle") ~> (pc = "idle")

(* Whatever was interrupted, once accidents cease a retried stop brings the  *)
(* host back to the baseline.                                                *)
Recovers == calm ~> (saved.phase = "stopped")

--------------------------------------------------------------------------------
(* The lifecycle implements the ownership protocol. *)

OwnerOf(v) ==
    IF dom[v] = "gpu" THEN "guest"
    ELSE IF \A g \in GpusOf[v] : driver[g] = "nvidia" THEN "host" ELSE "moving"

RecordOf ==
    IF saved.phase \in Rebinding THEN "moving"
    ELSE IF saved.phase \in {"starting-guests", "running", "restarting"} THEN "guest" ELSE "host"

Ownership == INSTANCE GpuOwnership WITH owner <- [v \in Vms |-> OwnerOf(v)], record <- RecordOf

(* Every step of the manager, the host and an accident is a step of the      *)
(* ownership protocol or leaves it alone.                                    *)
ImplementsOwnership == Ownership!Spec
================================================================================
