-------------------------------- MODULE GpuHost --------------------------------
(***************************************************************************)
(* The host that gpu-vm-manager.py drives: the PCI driver of every GPU,    *)
(* the two libvirt domains, the systemd units that use the GPUs, the       *)
(* NVSwitch routes, and the operations the manager has launched and lost   *)
(* sight of.  None of this is code under src/: it is the kernel, libvirt   *)
(* and systemd as the manager uses them through sysfs writes, virsh and    *)
(* systemctl.  The manager itself is module GpuVmManager.                  *)
(*                                                                         *)
(* An operation has one target (a GPU, a domain or a unit) and the host    *)
(* performs operations on one target one at a time: the kernel holds the   *)
(* device lock, libvirt the domain's job, systemd the unit's job.  An      *)
(* operation the manager lost sight of stays in "inflight" until it takes  *)
(* effect late or is dropped.                                              *)
(***************************************************************************)
EXTENDS Naturals

CONSTANTS
    Vms,            \* the guests of deployment.json
    Gpus,           \* the PCI addresses of their GPUs
    GpusOf,         \* EXPECTED: the GPUs assigned to each guest
    Clients,        \* CLIENT_SERVICES: units that open GPUs on the host
    FM,             \* nvidia-fabricmanager.service
    Nil,            \* no guest, no loop element, no process
    MaxBoot,        \* bound: number of reboots
    MaxUncertain    \* bound: number of commands the manager loses sight of

Units == Clients \union {FM}

ASSUME HostAssumption ==
    /\ GpusOf \in [Vms -> SUBSET Gpus]
    /\ Nil \notin Vms \union Gpus \union Units
    /\ MaxBoot \in Nat
    /\ MaxUncertain \in Nat

(* config.py: every guest has GPUs, and no GPU is given to two guests. *)
ASSUME GpusAssumption ==
    \A v \in Vms : /\ GpusOf[v] # {}
                   /\ \A w \in Vms \ {v} : GpusOf[v] \intersect GpusOf[w] = {}

VARIABLES
    driver,         \* driver[g]: what the GPU is bound to
    override,       \* driver_override[g]
    power,          \* power/control[g]: the recorded value, or "on"
    dom,            \* dom[v]: "off", or the definition its QEMU was launched with
    asked,          \* guests that were asked to power off
    defn,           \* defn[v]: the persistent definition
    up,             \* active units
    booting,        \* units with a boot-time start job still queued
    routes,         \* TRUE: the NVSwitches route between GPUs
    cfgMode,        \* FABRIC_MODE of the installed Fabric Manager config
    apps,           \* TRUE: a CUDA process is running on the host
    boot,           \* boot identity
    sysStopping,    \* systemctl is-system-running says "stopping"
    inflight        \* operations that outlived the manager's wait for them

pciVars  == <<driver, override, power>>
domVars  == <<dom, asked, defn>>
unitVars == <<up, booting, routes>>
hostVars == <<pciVars, domVars, unitVars, cfgMode, apps, boot, sysStopping, inflight>>

GpuCommands  == {"unbind", "override-vfio", "override-clear", "probe", "power-on", "power-restore"}
VmCommands   == {"shutdown", "define-cpu", "define-gpu", "start"}
UnitCommands == {"stop-unit", "start-unit"}
ReadCommand  == "read"

(***************************************************************************)
(* pid identifies the client process (PID, start ticks and boot together); *)
(* alive says whether that process still exists; marked whether it was     *)
(* ever written to uncertain-command.json.                                 *)
(***************************************************************************)
Operation(commands, targets) ==
    [pid: 1..MaxUncertain, cmd: commands, on: targets, alive: BOOLEAN, marked: BOOLEAN]

Operations == Operation(GpuCommands, Gpus) \union Operation(VmCommands, Vms)
              \union Operation(UnitCommands, Units) \union Operation({ReadCommand}, {Nil})

HostTypeOK ==
    /\ driver \in [Gpus -> {"nvidia", "vfio-pci", "none"}]
    /\ override \in [Gpus -> {"", "vfio-pci"}]
    /\ power \in [Gpus -> {"saved", "on"}]
    /\ dom \in [Vms -> {"off", "cpu", "gpu"}]
    /\ asked \subseteq Vms
    /\ defn \in [Vms -> {"cpu", "gpu"}]
    /\ up \subseteq Units
    /\ booting \subseteq Units
    /\ routes \in BOOLEAN
    /\ cfgMode \in {"mode0", "mode1", "torn"}
    /\ apps \in BOOLEAN
    /\ boot \in 0..MaxBoot
    /\ sysStopping \in BOOLEAN
    /\ inflight \subseteq Operations

HostInit ==
    /\ driver = [g \in Gpus |-> "nvidia"]
    /\ override = [g \in Gpus |-> ""]
    /\ power = [g \in Gpus |-> "saved"]
    /\ dom \in [Vms -> {"off", "cpu"}]
    /\ asked = {}
    /\ defn = [v \in Vms |-> "cpu"]
    /\ up \in SUBSET Units
    /\ booting \in SUBSET (Units \ up)
    /\ routes \in BOOLEAN /\ (routes <=> FM \in up)
    /\ cfgMode = "mode0"
    /\ apps = FALSE
    /\ boot = 0
    /\ sysStopping = FALSE
    /\ inflight = {}

--------------------------------------------------------------------------------
(* What the host knows about a target. *)

InFlight(cmd, x) == \E o \in inflight : o.cmd = cmd /\ o.on = x
Settled(x)       == \A o \in inflight : o.on # x
Assigned(v)      == \A g \in GpusOf[v] : driver[g] = "vfio-pci"

(* A launch in progress is visible: its QEMU process exists (no_guest_owners *)
(* scans /proc for it), or libvirt shows its job.                            *)
Starting(v) == InFlight("start", v)

(* Released(vs): no domain of vs runs or is being launched, and nobody holds *)
(* their VFIO groups.                                                        *)
Released(vs) == \A v \in vs : dom[v] = "off" /\ ~Starting(v)

--------------------------------------------------------------------------------
(* Possible(c, x): the host would carry out command c on x now. *)

Possible(c, x) ==
    /\ c = "unbind" => driver[x] # "none"
    /\ c = "shutdown" => dom[x] # "off"
    /\ c = "start" => dom[x] = "off" /\ (defn[x] = "gpu" => Assigned(x))
    /\ c = "start-unit" => ~sysStopping /\ (x = FM => cfgMode # "torn")

(* A device without a driver is bound by drivers_probe to the driver its    *)
(* override names; a bound device is left alone.                            *)
Probed(g) ==
    IF driver[g] # "none" THEN driver[g]
    ELSE IF override[g] = "vfio-pci" THEN "vfio-pci" ELSE "nvidia"

GpuEffect(c, g) ==
    \/ /\ c = "unbind"
       /\ driver' = [driver EXCEPT ![g] = "none"]
       /\ UNCHANGED <<override, power>>
    \/ /\ c = "probe"
       /\ driver' = [driver EXCEPT ![g] = Probed(g)]
       /\ UNCHANGED <<override, power>>
    \/ /\ c \in {"override-vfio", "override-clear"}
       /\ override' = [override EXCEPT ![g] = IF c = "override-vfio" THEN "vfio-pci" ELSE ""]
       /\ UNCHANGED <<driver, power>>
    \/ /\ c \in {"power-on", "power-restore"}
       /\ power' = [power EXCEPT ![g] = IF c = "power-on" THEN "on" ELSE "saved"]
       /\ UNCHANGED <<driver, override>>

(* virsh shutdown only delivers the request: the guest powers off later. *)
VmEffect(c, v) ==
    \/ /\ c = "shutdown"
       /\ asked' = asked \union {v}
       /\ UNCHANGED <<dom, defn>>
    \/ /\ c \in {"define-cpu", "define-gpu"}
       /\ defn' = [defn EXCEPT ![v] = IF c = "define-gpu" THEN "gpu" ELSE "cpu"]
       /\ UNCHANGED <<dom, asked>>
    \/ /\ c = "start"
       /\ dom' = [dom EXCEPT ![v] = defn[v]]
       /\ UNCHANGED <<asked, defn>>

(* Fabric Manager routes all GPUs in mode 0.  In mode 1 it should leave the *)
(* fabric without routes, which the manager audits and does not assume.     *)
Fabric(u) ==
    IF u = FM /\ u \notin up
    THEN routes' \in (IF cfgMode = "mode0" THEN {TRUE} ELSE BOOLEAN)
    ELSE routes' = routes

(* A stop job replaces a queued start job of the same unit. *)
UnitEffect(c, u) ==
    \/ /\ c = "start-unit"
       /\ up' = up \union {u}
       /\ booting' = booting \ {u}
       /\ Fabric(u)
    \/ /\ c = "stop-unit"
       /\ up' = up \ {u}
       /\ booting' = booting \ {u}
       /\ UNCHANGED routes

Effect(c, x) ==
    \/ c \in GpuCommands  /\ GpuEffect(c, x)  /\ UNCHANGED <<domVars, unitVars>>
    \/ c \in VmCommands   /\ VmEffect(c, x)   /\ UNCHANGED <<pciVars, unitVars>>
    \/ c \in UnitCommands /\ UnitEffect(c, x) /\ UNCHANGED <<pciVars, domVars>>

--------------------------------------------------------------------------------
(* What the host does by itself. *)

(* An operation the manager gave up on takes effect after all. *)
LandLate(o) ==
    /\ Possible(o.cmd, o.on)
    /\ Effect(o.cmd, o.on)
    /\ inflight' = inflight \ {o}
    /\ UNCHANGED <<cfgMode, apps, boot, sysStopping>>

(* ... or is abandoned without one. *)
DropLate(o) ==
    /\ inflight' = inflight \ {o}
    /\ UNCHANGED <<pciVars, domVars, unitVars, cfgMode, apps, boot, sysStopping>>

(* A guest powers off, asked to or not. *)
GuestPowersOff(v) ==
    /\ dom[v] # "off"
    /\ dom' = [dom EXCEPT ![v] = "off"]
    /\ asked' = asked \ {v}
    /\ UNCHANGED <<defn, pciVars, unitVars, cfgMode, apps, boot, sysStopping, inflight>>

(* A queued boot-time start job is carried out; Fabric Manager refuses a    *)
(* config it cannot parse.                                                  *)
UnitComesUp(u) ==
    /\ u \in booting
    /\ ~sysStopping
    /\ booting' = booting \ {u}
    /\ \/ Possible("start-unit", u) /\ up' = up \union {u} /\ Fabric(u)
       \/ ~Possible("start-unit", u) /\ UNCHANGED <<up, routes>>
    /\ UNCHANGED <<pciVars, domVars, cfgMode, apps, boot, sysStopping, inflight>>

UnitGoesDown(u) ==
    /\ sysStopping
    /\ u \in up
    /\ up' = up \ {u}
    /\ UNCHANGED <<booting, routes, pciVars, domVars, cfgMode, apps, boot, sysStopping, inflight>>

AppExits ==
    /\ apps
    /\ apps' = FALSE
    /\ UNCHANGED <<pciVars, domVars, unitVars, cfgMode, boot, sysStopping, inflight>>

BeginHostShutdown ==
    /\ ~sysStopping
    /\ boot < MaxBoot
    /\ sysStopping' = TRUE
    /\ booting' = {}
    /\ UNCHANGED <<up, routes, pciVars, domVars, cfgMode, apps, boot, inflight>>

(* A shutdown completes, or the host loses power: what the kernel holds is  *)
(* gone, the NVIDIA driver claims every GPU again, enabled units are queued *)
(* and no guest starts (autostart is disabled).                             *)
Reboot ==
    /\ boot < MaxBoot
    /\ boot' = boot + 1
    /\ driver' = [g \in Gpus |-> "nvidia"]
    /\ override' = [g \in Gpus |-> ""]
    /\ power' = [g \in Gpus |-> "saved"]
    /\ dom' = [v \in Vms |-> "off"]
    /\ asked' = {}
    /\ up' = {}
    /\ booting' = Units
    /\ routes' = FALSE
    /\ apps' = FALSE
    /\ sysStopping' = FALSE
    /\ inflight' = {}
    /\ UNCHANGED <<defn, cfgMode>>
================================================================================
