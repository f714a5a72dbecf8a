----------------------------- MODULE GpuVmManager ------------------------------
(***************************************************************************)
(* files/host/gpu-vm-manager.py: the lifecycle of the GPU guests.  One     *)
(* invocation at a time holds manager.lock and runs prepare, start, stop   *)
(* or restart; pc names the function and the statement it has reached.     *)
(* Every command it runs is one action, because everything else on the     *)
(* host, and a crash, can come between two of them.                        *)
(*                                                                         *)
(* The order in which a loop visits guests, GPUs or units is left open.    *)
(***************************************************************************)
EXTENDS GpuHost

CONSTANT FaultsEnd  \* TRUE: from some point on nothing fails by accident

ASSUME ManagerAssumption == FaultsEnd \in BOOLEAN

VARIABLES
    saved,          \* manifest.json; phase "none" when it does not exist
    marker,         \* uncertain-command.json: the process it names, or Nil
    lost,           \* commands lost sight of so far; numbers their processes
    pc,             \* statement the invocation has reached, or "idle"
    call,           \* its arguments, and restore_configuration's shutting_down
    todo,           \* loop elements not yet done
    cur,            \* loop element in hand
    seen,           \* the driver restore_configuration read for it
    calm            \* no more accidents

files == <<saved, marker, lost>>
local == <<pc, call, todo, cur, seen>>
vars  == <<hostVars, files, local, calm>>

Interrupted == {"starting", "binding-gpus", "starting-guests", "stopping", "normalizing-new-boot"}
Phases == {"none", "prepared", "running", "restarting", "stopped"} \union Interrupted

(* Phases that announce that GPUs are being bound to another driver. *)
Rebinding == {"binding-gpus", "stopping", "normalizing-new-boot"}

Labels ==
    {"idle", "start", "start.newboot", "start.phase", "start.claim", "start.clients",
     "start.stopfm", "start.mode1", "start.startfm", "start.partitions", "start.quietfm",
     "start.audit", "start.binding", "start.device", "start.power", "start.override",
     "start.unbind", "start.probe", "start.bound", "start.launching", "start.define",
     "start.launch", "start.confirm", "restart", "restart.resume", "restart.claim",
     "restart.launch", "verify", "commit", "stop", "shutdown", "shutdown.ask",
     "shutdown.wait", "shutdown.owners", "owners", "restore", "restore.quiesce",
     "restore.stopfm", "restore.device", "restore.unbind", "restore.override",
     "restore.probe", "restore.bound", "restore.power", "restore.config",
     "restore.define", "restore.units", "restore.identities", "restore.guests",
     "restore.done"}

NoCall == [cmd |-> "none", guest |-> Nil, restoreGuests |-> FALSE, shuttingDown |-> FALSE]

FilesTypeOK ==
    /\ saved \in [phase: Phases, guest: Vms \union {Nil}, bootId: 0..MaxBoot,
                  vmWasRunning: SUBSET Vms, services: SUBSET Units]
    /\ marker \in 1..MaxUncertain \union {Nil}
    /\ lost \in 0..MaxUncertain
    /\ calm \in BOOLEAN

LocalTypeOK ==
    /\ pc \in Labels
    /\ call \in [cmd: {"none", "start", "stop", "restart"}, guest: Vms \union {Nil},
                 restoreGuests: BOOLEAN, shuttingDown: BOOLEAN]
    /\ todo \subseteq Vms \union Gpus \union Units
    /\ cur \in Vms \union Gpus \union Units \union {Nil}
    /\ seen \in {"nvidia", "vfio-pci", "none"}

TypeOK == HostTypeOK /\ FilesTypeOK /\ LocalTypeOK

Init ==
    /\ HostInit
    /\ saved = [phase |-> "none", guest |-> Nil, bootId |-> 0, vmWasRunning |-> {}, services |-> {}]
    /\ marker = Nil
    /\ lost = 0
    /\ pc = "idle"
    /\ call = NoCall
    /\ todo = {}
    /\ cur = Nil
    /\ seen = "none"
    /\ calm = FALSE

--------------------------------------------------------------------------------
(* Control flow. *)

Goto(l) == pc' = l /\ UNCHANGED <<call, todo, cur, seen>>

Loop(l, elements) ==
    pc' = l /\ todo' = elements /\ cur' = Nil /\ UNCHANGED <<call, seen>>

(* The element in hand is done: back to the head of the loop. *)
Again(l) == Loop(l, todo \ {cur})

(* The process ends: by returning, by an uncaught exception, or killed. *)
Exit == pc' = "idle" /\ call' = NoCall /\ todo' = {} /\ cur' = Nil /\ seen' = "none"

(* A statement that reads the host and goes on or fails a require(). *)
Check(here, condition, Proceed) ==
    /\ pc = here
    /\ \/ condition /\ Proceed
       \/ ~condition /\ Exit
    /\ UNCHANGED <<hostVars, files, calm>>

(* checkpoint(): a durable, atomic replacement of the manifest. *)
Checkpoint(phase, guest) ==
    /\ saved' = [saved EXCEPT !.phase = phase, !.guest = guest, !.bootId = boot]
    /\ UNCHANGED <<marker, lost, hostVars, calm>>

(* Mutant: numbers the process one too far. *)
RecordNext(pid) == marker' = pid + 1

(***************************************************************************)
(* uncertain_command() and the ways run() can lose a command: a timeout or *)
(* a signal records the process; a signal before the try block is entered, *)
(* or SIGKILL, records nothing.  A process that dies at the kill leaves a  *)
(* libvirt or systemd operation behind, but no sysfs write.                *)
(***************************************************************************)
Record(pid) == marker' = IF saved.phase # "none" THEN pid ELSE marker

Lose(c, x) ==
    /\ ~calm
    /\ lost < MaxUncertain
    /\ lost' = lost + 1
    /\ \E alive, marked \in BOOLEAN :
          /\ c \in GpuCommands \/ ~marked => alive
          /\ inflight' = inflight \union
                {[pid |-> lost + 1, cmd |-> c, on |-> x, alive |-> alive, marked |-> marked]}
          /\ IF marked THEN Record(lost + 1) ELSE UNCHANGED marker
    /\ UNCHANGED <<saved, calm, pciVars, domVars, unitVars, cfgMode, apps, boot, sysStopping>>

Succeed(c, x) ==
    /\ Settled(x) /\ Possible(c, x)
    /\ Effect(c, x)
    /\ UNCHANGED <<files, calm, cfgMode, apps, boot, sysStopping, inflight>>

Fail(c, x) ==
    /\ calm => ~(Settled(x) /\ Possible(c, x))
    /\ UNCHANGED <<hostVars, files, calm>>

(* run(), write_sysfs(): the command succeeds, fails, or is lost. *)
Run(c, x, Proceed) ==
    \/ Succeed(c, x) /\ Proceed
    \/ Fail(c, x) /\ Exit
    \/ Lose(c, x) /\ Exit

(* Mutant: the check is forgotten. *)
NoUncertainProcessUnchecked == TRUE

(* no_uncertain_process(): looks only at the one recorded process. *)
NoUncertainProcess == ~\E o \in inflight : o.pid = marker /\ o.alive

(* Mutant: trusts domstate and does not look for QEMU processes. *)
NoGuestOwnersByState(vs) == NoUncertainProcess /\ \A v \in vs : dom[v] = "off"

(* no_guest_owners() *)
NoGuestOwners(vs) == NoUncertainProcess /\ Released(vs)

(* pci(bdf, 'nvidia') for every GPU, and gpu_identities(): nvidia-smi lists  *)
(* exactly the GPUs bound to its driver.                                     *)
OnHost == \A g \in Gpus : driver[g] = "nvidia"

(* audit() *)
Audit == ~routes

(* no_gpu_apps() *)
NoGpuApps == ~apps

(* no_holders() of the NVIDIA device nodes: every unit opens them. *)
NoHolders == up \intersect Units = {} /\ ~apps

(* verify_partitions(): a running Fabric Manager answers, none is active. *)
VerifyPartitions == FM \in up

(* domain_checks(initial=True): no definition of a guest has a PCI device. *)
DomainChecksInitial == \A v \in Vms : defn[v] = "cpu" /\ dom[v] # "gpu"

(* verify_running() *)
VerifyRunning(allowStopped) ==
    /\ cfgMode = "mode1"
    /\ up \intersect Units = {}
    /\ \A v \in Vms : /\ dom[v] = "gpu" \/ (v \in allowStopped /\ dom[v] = "off")
                      /\ defn[v] = "gpu"
    /\ \A g \in Gpus : driver[g] = "vfio-pci"
    /\ Audit

--------------------------------------------------------------------------------
(* prepare() *)

(* Takes nothing from the host; its only lasting effect is the manifest.    *)
Prepare ==
    /\ pc = "idle" /\ ~calm
    /\ saved.phase = "none"
    /\ DomainChecksInitial
    /\ cfgMode = "mode0" /\ FM \in up
    /\ OnHost /\ NoGpuApps
    /\ \A g \in Gpus : override[g] = ""
    /\ saved' = [phase |-> "prepared", guest |-> Nil, bootId |-> boot,
                 vmWasRunning |-> {v \in Vms : dom[v] # "off"}, services |-> up]
    /\ UNCHANGED <<hostVars, marker, lost, local, calm>>

--------------------------------------------------------------------------------
(* start() *)

Start ==
    /\ pc = "idle" /\ ~calm
    /\ saved.phase # "none"
    /\ pc' = "start"
    /\ call' = [NoCall EXCEPT !.cmd = "start"]
    /\ UNCHANGED <<hostVars, files, todo, cur, seen, calm>>

StartChecks ==
    Check("start", NoUncertainProcess,
          \/ /\ saved.bootId = boot /\ saved.phase = "running"
             /\ Exit                                \* verify_running() or raise
          \/ saved.bootId # boot /\ Goto("start.newboot")
          \/ saved.bootId = boot /\ saved.phase # "running" /\ Goto("start.phase"))

(* A fresh boot left every GPU with NVIDIA and no owner alive. *)
StartNormalizes ==
    /\ pc = "start.newboot"
    /\ \/ /\ NoGuestOwners(Vms) /\ OnHost
          /\ Checkpoint("normalizing-new-boot", Nil)
          /\ Goto("restore")
       \/ /\ ~(NoGuestOwners(Vms) /\ OnHost)
          /\ Exit
          /\ UNCHANGED <<hostVars, files, calm>>

(* Mutant: starts from whatever phase was interrupted. *)
StartPhaseAny == Check("start.phase", OnHost /\ NoGpuApps, Goto("start.claim"))

StartPhase ==
    Check("start.phase", saved.phase \in {"prepared", "stopped"} /\ OnHost /\ NoGpuApps,
          Goto("start.claim"))

StartClaims ==
    /\ pc = "start.claim"
    /\ Checkpoint("starting", Nil)
    /\ Loop("shutdown", Vms)

StopClientServices ==
    /\ pc = "start.clients"
    /\ \/ \E u \in todo :
             \/ /\ u \in up
                /\ Run("stop-unit", u, Loop("start.clients", todo \ {u}))
             \/ /\ u \notin up
                /\ Loop("start.clients", todo \ {u})
                /\ UNCHANGED <<hostVars, files, calm>>
       \/ /\ todo = {}
          /\ Goto("start.stopfm")
          /\ UNCHANGED <<hostVars, files, calm>>

StartStopsFm == pc = "start.stopfm" /\ Run("stop-unit", FM, Goto("start.mode1"))

(* Both config writes replace the file in place; a kill can tear them. *)
WriteConfig(text, Proceed) ==
    /\ \/ cfgMode' = text /\ Proceed
       \/ ~calm /\ cfgMode' = "torn" /\ Exit
    /\ UNCHANGED <<pciVars, domVars, unitVars, apps, boot, sysStopping, inflight, files, calm>>

StartWritesMode1 == pc = "start.mode1" /\ WriteConfig("mode1", Goto("start.startfm"))

StartStartsFm == pc = "start.startfm" /\ Run("start-unit", FM, Goto("start.partitions"))

(* Mutant: Fabric Manager is neither stopped nor audited again. *)
StartPartitionsOnly == Check("start.partitions", VerifyPartitions /\ Audit, Goto("start.binding"))

(* verify_partitions() and audit() *)
StartPartitions == Check("start.partitions", VerifyPartitions /\ Audit, Goto("start.quietfm"))

StartQuietsFm == pc = "start.quietfm" /\ Run("stop-unit", FM, Goto("start.audit"))

(* Mutant: no_holders() is dropped. *)
StartAuditFabricOnly == Check("start.audit", FM \notin up /\ Audit, Goto("start.binding"))

(* active(FM), audit() and no_holders() of the NVIDIA device nodes *)
StartAudit ==
    Check("start.audit", FM \notin up /\ Audit /\ NoHolders, Goto("start.binding"))

(* Mutant: the phase is written after the GPUs were bound. *)
StartBindingUnannounced ==
    /\ pc = "start.binding"
    /\ Loop("start.device", Gpus)
    /\ UNCHANGED <<hostVars, files, calm>>

StartBinding ==
    /\ pc = "start.binding"
    /\ Checkpoint("binding-gpus", Nil)
    /\ Loop("start.device", Gpus)

StartDevice ==
    /\ pc = "start.device"
    /\ \/ \E g \in todo :
             \/ driver[g] = "nvidia" /\ pc' = "start.power" /\ cur' = g /\ UNCHANGED <<call, todo, seen>>
             \/ driver[g] # "nvidia" /\ Exit
       \/ todo = {} /\ Goto("start.launching")
    /\ UNCHANGED <<hostVars, files, calm>>

StartPower    == pc = "start.power"    /\ Run("power-on", cur, Goto("start.override"))
StartOverride == pc = "start.override" /\ Run("override-vfio", cur, Goto("start.unbind"))
StartUnbind   == pc = "start.unbind"   /\ Run("unbind", cur, Goto("start.probe"))
StartProbe    == pc = "start.probe"    /\ Run("probe", cur, Goto("start.bound"))
StartBound    == Check("start.bound", driver[cur] = "vfio-pci", Again("start.device"))

(* Mutant: the guests are launched under the binding phase. *)
StartLaunchingUnannounced ==
    /\ pc = "start.launching"
    /\ Loop("start.define", Vms)
    /\ UNCHANGED <<hostVars, files, calm>>

StartLaunching ==
    /\ pc = "start.launching"
    /\ Checkpoint("starting-guests", Nil)
    /\ Loop("start.define", Vms)

StartDefine ==
    /\ pc = "start.define"
    /\ \/ \E v \in todo :
             Run("define-gpu", v, pc' = "start.launch" /\ cur' = v /\ UNCHANGED <<call, todo, seen>>)
       \/ /\ todo = {}
          /\ Goto("verify")
          /\ UNCHANGED <<hostVars, files, calm>>

StartLaunch  == pc = "start.launch" /\ Run("start", cur, Goto("start.confirm"))
StartConfirm == Check("start.confirm", dom[cur] # "off" /\ Audit, Again("start.define"))

(* The end of start() and of restart(): verify_running(), checkpoint. *)
Verify == Check("verify", VerifyRunning({}), Goto("commit"))

Commit ==
    /\ pc = "commit"
    /\ Checkpoint("running", Nil)
    /\ Exit

--------------------------------------------------------------------------------
(* restart() *)

Restart(v) ==
    /\ pc = "idle" /\ ~calm
    /\ saved.phase # "none"
    /\ pc' = "restart"
    /\ call' = [NoCall EXCEPT !.cmd = "restart", !.guest = v]
    /\ UNCHANGED <<hostVars, files, todo, cur, seen, calm>>

Resuming == saved.phase = "restarting"

RestartChecks ==
    Check("restart",
          /\ saved.bootId = boot
          /\ saved.phase = "running" \/ (Resuming /\ saved.guest = call.guest)
          /\ NoUncertainProcess
          /\ VerifyRunning({call.guest})
          /\ \A other \in Vms \ {call.guest} : ~Starting(other),
          Goto(IF Resuming THEN "restart.resume" ELSE "restart.claim"))

(* Mutant: the target of an interrupted restart is launched as it is found. *)
RestartResumesAny == Check("restart.resume", TRUE, Goto("restart.launch"))

(* Only a target observed shut off is resumed. *)
RestartResumes ==
    Check("restart.resume", NoGuestOwners({call.guest}), Goto("owners"))

RestartClaims ==
    /\ pc = "restart.claim"
    /\ Checkpoint("restarting", call.guest)
    /\ Loop("shutdown", {call.guest})

RestartLaunches ==
    /\ pc = "restart.launch"
    /\ \/ Audit /\ Run("start", call.guest, Goto("verify"))
       \/ ~Audit /\ Exit /\ UNCHANGED <<hostVars, files, calm>>

--------------------------------------------------------------------------------
(* stop() *)

Stop(restoreGuests) ==
    /\ pc = "idle"
    /\ saved.phase # "none"
    /\ pc' = "stop"
    /\ call' = [NoCall EXCEPT !.cmd = "stop", !.restoreGuests = restoreGuests]
    /\ UNCHANGED <<hostVars, files, todo, cur, seen, calm>>

(* Mutant: the phase is left as it was until the restore is done. *)
StopClaimsLate ==
    /\ pc = "stop"
    /\ Loop("shutdown", Vms)
    /\ UNCHANGED <<hostVars, files, calm>>

(* Mutant: restores without shutting the guests down. *)
StopClaimsAtOnce ==
    /\ pc = "stop"
    /\ Checkpoint("stopping", Nil)
    /\ Goto("restore")

(* The phase is overwritten, and guests are asked to power off, before      *)
(* no_uncertain_process() is consulted.                                     *)
StopClaims ==
    /\ pc = "stop"
    /\ Checkpoint("stopping", Nil)
    /\ Loop("shutdown", Vms)

--------------------------------------------------------------------------------
(* shutdown() for each guest of todo, then no_guest_owners() for all of them *)

(* domain_state(name) == 'running' is read here; the request comes later. *)
ShutdownNext ==
    /\ pc = "shutdown"
    /\ \/ \E v \in todo : /\ pc' = IF dom[v] # "off" THEN "shutdown.ask" ELSE "shutdown.wait"
                          /\ cur' = v
                          /\ UNCHANGED <<call, todo, seen>>
       \/ todo = {} /\ Goto("owners")
    /\ UNCHANGED <<hostVars, files, calm>>

ShutdownAsks == pc = "shutdown.ask" /\ Run("shutdown", cur, Goto("shutdown.wait"))

(* Mutant: waits without a deadline. *)
ShutdownWaitsForever ==
    /\ pc = "shutdown.wait"
    /\ dom[cur] = "off" /\ Goto("shutdown.owners")
    /\ UNCHANGED <<hostVars, files, calm>>

ShutdownWaits ==
    /\ pc = "shutdown.wait"
    /\ \/ dom[cur] = "off" /\ Goto("shutdown.owners")
       \/ dom[cur] # "off" /\ (calm => cur \notin asked) /\ Exit    \* the deadline has passed
    /\ UNCHANGED <<hostVars, files, calm>>

ShutdownOwners == Check("shutdown.owners", NoGuestOwners({cur}), Again("shutdown"))

AfterOwners ==
    \/ call.cmd = "start" /\ Loop("start.clients", Clients)
    \/ call.cmd = "stop" /\ Goto("restore")
    \/ call.cmd = "restart" /\ Goto("restart.launch")

Owners ==
    Check("owners", NoGuestOwners(IF call.cmd = "restart" THEN {call.guest} ELSE Vms), AfterOwners)

--------------------------------------------------------------------------------
(* restore_configuration() *)

Restore ==
    /\ pc = "restore"
    /\ pc' = "restore.quiesce"
    /\ call' = [call EXCEPT !.shuttingDown = sysStopping,
                            !.restoreGuests = IF sysStopping THEN FALSE ELSE @]
    /\ UNCHANGED <<hostVars, files, todo, cur, seen, calm>>

RestoreQuiesce ==
    \/ /\ call.shuttingDown
       /\ Check("restore.quiesce", up \intersect Units = {}, Loop("restore.device", Gpus))
    \/ /\ ~call.shuttingDown
       /\ Check("restore.quiesce", (\E g \in Gpus : driver[g] = "nvidia") => NoGpuApps,
                Goto("restore.stopfm"))

RestoreStopsFm == pc = "restore.stopfm" /\ Run("stop-unit", FM, Loop("restore.device", Gpus))

(* Mutant: a GPU that is back with NVIDIA is skipped. *)
RestoreDeviceMoved ==
    /\ pc = "restore.device"
    /\ \/ \E g \in todo :
             /\ driver[g] # "nvidia"
             /\ pc' = IF driver[g] = "vfio-pci" THEN "restore.unbind" ELSE "restore.override"
             /\ cur' = g
             /\ seen' = driver[g]
             /\ UNCHANGED <<call, todo>>
       \/ (\A g \in todo : driver[g] = "nvidia") /\ Goto("restore.config")
    /\ UNCHANGED <<hostVars, files, calm>>

(* The driver is read once, here; the writes below act on that reading. *)
RestoreDevice ==
    /\ pc = "restore.device"
    /\ \/ \E g \in todo :
             /\ pc' = IF driver[g] = "vfio-pci" THEN "restore.unbind" ELSE "restore.override"
             /\ cur' = g
             /\ seen' = driver[g]
             /\ UNCHANGED <<call, todo>>
       \/ todo = {} /\ Goto("restore.config")
    /\ UNCHANGED <<hostVars, files, calm>>

RestoreUnbind == pc = "restore.unbind" /\ Run("unbind", cur, Goto("restore.override"))

(* Mutant: only a GPU that came from vfio-pci is probed. *)
RestoreOverrideVfioOnly ==
    /\ pc = "restore.override"
    /\ Run("override-clear", cur, Goto(IF seen = "vfio-pci" THEN "restore.probe" ELSE "restore.bound"))

RestoreOverride ==
    /\ pc = "restore.override"
    /\ Run("override-clear", cur, Goto(IF seen = "nvidia" THEN "restore.bound" ELSE "restore.probe"))

RestoreProbe == pc = "restore.probe" /\ Run("probe", cur, Goto("restore.bound"))
RestoreBound == Check("restore.bound", driver[cur] = "nvidia", Goto("restore.power"))
RestorePower == pc = "restore.power" /\ Run("power-restore", cur, Again("restore.device"))

RestoreConfig == pc = "restore.config" /\ WriteConfig("mode0", Loop("restore.define", Vms))

RestoreDefine ==
    /\ pc = "restore.define"
    /\ \/ \E v \in todo : Run("define-cpu", v, Loop("restore.define", todo \ {v}))
       \/ /\ todo = {}
          /\ IF call.shuttingDown THEN Goto("restore.identities") ELSE Loop("restore.units", Units)
          /\ UNCHANGED <<hostVars, files, calm>>

RestoreUnits ==
    /\ pc = "restore.units"
    /\ \/ \E u \in todo :
             LET next == Loop("restore.units", todo \ {u})
             IN  \/ u \in saved.services /\ Run("start-unit", u, next)
                 \/ u \notin saved.services /\ u \in up /\ Run("stop-unit", u, next)
                 \/ /\ u \notin saved.services /\ u \notin up
                    /\ next
                    /\ UNCHANGED <<hostVars, files, calm>>
       \/ /\ todo = {}
          /\ Goto("restore.identities")
          /\ UNCHANGED <<hostVars, files, calm>>

(* gpu_identities(): nvidia-smi lists all GPUs. *)
RestoreIdentities ==
    Check("restore.identities", OnHost,
          Loop("restore.guests", IF call.restoreGuests THEN saved.vmWasRunning ELSE {}))

RestoreGuests ==
    /\ pc = "restore.guests"
    /\ \/ \E v \in todo : Run("start", v, Loop("restore.guests", todo \ {v}))
       \/ /\ todo = {}
          /\ Goto("restore.done")
          /\ UNCHANGED <<hostVars, files, calm>>

RestoreDone ==
    /\ pc = "restore.done"
    /\ Checkpoint("stopped", Nil)
    /\ IF call.cmd = "start" THEN Goto("start.phase") ELSE Exit

--------------------------------------------------------------------------------
(* Accidents, and what the rest of the host does. *)

(* A failed require() on something not modelled, a nonzero exit of a        *)
(* read-only command, a signal between commands, or SIGKILL.                *)
Abandon ==
    /\ pc # "idle" /\ ~calm
    /\ Exit
    /\ UNCHANGED <<hostVars, files, calm>>

(***************************************************************************)
(* A read-only command times out: in an inspection, in the host_scope() of *)
(* another invocation, which runs before manager.lock is taken, or in this *)
(* invocation, which then ends.  The record replaces whatever was there.   *)
(***************************************************************************)
ReadTimesOut ==
    /\ ~calm
    /\ saved.phase # "none"
    /\ lost < MaxUncertain
    /\ lost' = lost + 1
    /\ Record(lost + 1)
    /\ \/ UNCHANGED inflight
       \/ inflight' = inflight \union
             {[pid |-> lost + 1, cmd |-> ReadCommand, on |-> Nil, alive |-> TRUE, marked |-> TRUE]}
    /\ \/ UNCHANGED local
       \/ pc # "idle" /\ Exit
    /\ UNCHANGED <<saved, pciVars, domVars, unitVars, cfgMode, apps, boot, sysStopping, calm>>

(* Operators start GPU work on the host only while the manager does not own *)
(* the devices; they do not wait for an invocation to finish.               *)
AppStarts ==
    /\ ~calm /\ ~apps
    /\ saved.phase \in {"none", "prepared", "stopped"}
    /\ \E g \in Gpus : driver[g] = "nvidia"
    /\ apps' = TRUE
    /\ UNCHANGED <<pciVars, domVars, unitVars, cfgMode, boot, sysStopping, inflight, files, local, calm>>

HostReboots ==
    /\ Reboot
    /\ calm => sysStopping
    /\ Exit
    /\ UNCHANGED <<files, calm>>

Accidents ==
    \/ Abandon
    \/ ReadTimesOut
    \/ AppStarts
    \/ ~calm /\ BeginHostShutdown /\ UNCHANGED <<files, local, calm>>
    \/ HostReboots

HostStep ==
    /\ \/ \E o \in inflight : LandLate(o) \/ DropLate(o)
       \/ \E v \in Vms : (calm => v \in asked) /\ GuestPowersOff(v)
       \/ \E u \in Units : UnitComesUp(u) \/ UnitGoesDown(u)
       \/ AppExits
    /\ UNCHANGED <<files, local, calm>>

(* The accidents come to an end. *)
FaultsStop ==
    /\ FaultsEnd /\ ~calm
    /\ saved.phase # "none"
    /\ calm' = TRUE
    /\ UNCHANGED <<hostVars, files, local>>

Invoke ==
    \/ Prepare
    \/ Start
    \/ \E v \in Vms : Restart(v)
    \/ \E restoreGuests \in BOOLEAN : Stop(restoreGuests)

StartStep ==
    \/ StartChecks \/ StartNormalizes \/ StartPhase \/ StartClaims
    \/ StopClientServices \/ StartStopsFm \/ StartWritesMode1 \/ StartStartsFm
    \/ StartPartitions \/ StartQuietsFm \/ StartAudit
    \/ StartBinding \/ StartDevice \/ StartPower \/ StartOverride \/ StartUnbind
    \/ StartProbe \/ StartBound
    \/ StartLaunching \/ StartDefine \/ StartLaunch \/ StartConfirm
    \/ Verify \/ Commit

RestartStep == RestartChecks \/ RestartResumes \/ RestartClaims \/ RestartLaunches

ShutdownStep == StopClaims \/ ShutdownNext \/ ShutdownAsks \/ ShutdownWaits \/ ShutdownOwners \/ Owners

RestoreStep ==
    \/ Restore \/ RestoreQuiesce \/ RestoreStopsFm
    \/ RestoreDevice \/ RestoreUnbind \/ RestoreOverride \/ RestoreProbe \/ RestoreBound \/ RestorePower
    \/ RestoreConfig \/ RestoreDefine \/ RestoreUnits \/ RestoreIdentities \/ RestoreGuests
    \/ RestoreDone

ManagerStep == StartStep \/ RestartStep \/ ShutdownStep \/ RestoreStep

Next == Invoke \/ ManagerStep \/ Accidents \/ HostStep \/ FaultsStop

Spec == Init /\ [][Next]_vars
================================================================================
