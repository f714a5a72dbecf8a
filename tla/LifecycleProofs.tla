---------------------------- MODULE LifecycleProofs ----------------------------
(***************************************************************************)
(* Proofs about the handovers of the GPUs, in two parts.                   *)
(*                                                                         *)
(* That the record "stopped" is true of the host and that the lifecycle    *)
(* implements GpuOwnership: both rest on what restore_configuration() has  *)
(* done by each of its statements, and on nothing being able to undo it    *)
(* later. A GPU that is back is settled, and a guest that is defined       *)
(* without devices has no other definition on its way.                     *)
(*                                                                         *)
(* That a start claims a host on which nothing is on its way, applications *)
(* keep the GPUs they use, the fabric is quiet under the guests, and what  *)
(* the record says of running guests is so: each rests on a check that was *)
(* made some commands earlier, and on nothing that is still on its way, or *)
(* is issued in between, undoing what the check found.                     *)
(***************************************************************************)
EXTENDS SafetyProofs

(******************************** the ownership ********************************)
(* The phases in which the GPUs belong to the host. *)
HostPhases == {"none", "prepared", "stopped", "starting"}

Back(g) == driver[g] = "nvidia" /\ override[g] = "" /\ power[g] = "saved"

(* No launch of v, on time or late, can give it devices. *)
Defined(v) == defn[v] = "cpu" /\ ~InFlight("define-gpu", v)
WithoutDevices == \A v \in Vms : Defined(v) /\ dom[v] # "gpu"

HostOwned == (\A g \in Gpus : Back(g)) /\ WithoutDevices
HostOwns == saved.phase \in HostPhases => HostOwned
ConfigKept == saved.phase \in {"none", "prepared", "stopped"} => cfgMode = "mode0"

(* start() between no_guest_owners() and the phase that announces rebinding. *)
ClaimLabels == {"start.clients", "start.stopfm", "start.mode1", "start.startfm",
                "start.partitions", "start.quietfm", "start.audit", "start.binding"}
ClaimPhase == pc \in ClaimLabels => saved.phase = "starting"

RestoreLoop == {"restore.device", "restore.unbind", "restore.override", "restore.probe",
                "restore.bound", "restore.power"}
DefinedTail == {"restore.units", "restore.identities", "restore.guests", "restore.done"}

(* How far restore_configuration() has come. *)
Restored ==
    /\ pc \in RestoreLoop \ {"restore.device"} => cur \in todo
    /\ pc \in RestoreLoop => \A g \in Gpus \ todo : Back(g)
    /\ pc \in {"restore.probe", "restore.bound", "restore.power"} => GpuSettled(cur) /\ override[cur] = ""
    /\ pc = "restore.power" => driver[cur] = "nvidia"
    /\ pc \in RestoreTail => \A g \in Gpus : Back(g)
    /\ pc = "restore.define" => \A v \in Vms \ todo : Defined(v)
    /\ pc \in RestoreTail \ {"restore.config"} => cfgMode = "mode0"
    /\ pc \in DefinedTail => WithoutDevices

StartLoop == {"start.device", "start.power", "start.override", "start.unbind", "start.probe",
              "start.bound"}

(* How far start() has come with the GPUs. *)
Bound ==
    /\ pc \in StartLoop \ {"start.device"} => cur \in todo
    /\ pc \in StartLoop => \A g \in Gpus \ todo : driver[g] = "vfio-pci"
    /\ pc = "start.launching" => \A g \in Gpus : driver[g] = "vfio-pci"

OInv == IInv /\ HostOwns /\ ConfigKept /\ ClaimPhase /\ Restored /\ Bound
--------------------------------------------------------------------------------
(* What one command can do to what this invariant speaks of. *)

SameGpu(g) == driver'[g] = driver[g] /\ override'[g] = override[g] /\ power'[g] = power[g]
KeepsGpus == \A g \in Gpus : SameGpu(g)
KeepsGuests ==
    /\ \A v \in Vms : Defined(v) => Defined(v)'
    /\ \A v \in Vms : Defined(v) /\ dom[v] # "gpu" => dom'[v] # "gpu"

Still == UNCHANGED <<pciVars, dom, defn, inflight>>

LEMMA StillKeeps == Still => KeepsGpus /\ KeepsGuests
BY DEF Still, pciVars, KeepsGpus, SameGpu, KeepsGuests, Defined, InFlight

LEMMA SameGpuBack == \A g : SameGpu(g) /\ Back(g) => Back(g)'
BY DEF SameGpu, Back

LEMMA EffectKeepsGpu ==
    ASSUME HostTypeOK, NEW c, NEW x, Fits(c, x), Effect(c, x), NEW g \in Gpus,
           c \in GpuCommands => x # g
    PROVE  SameGpu(g)
BY DEF Effect, GpuEffect, pciVars, SameGpu, HostTypeOK, Fits, GpuCommands, VmCommands, UnitCommands

LEMMA EffectKeepsGuest ==
    ASSUME HostTypeOK, NEW c, NEW x, Fits(c, x), Effect(c, x), NEW v \in Vms, Defined(v),
           c = "define-gpu" => x # v
    PROVE  defn'[v] = "cpu" /\ (dom[v] # "gpu" => dom'[v] # "gpu")
<1>1. CASE c \notin VmCommands
  BY <1>1 DEF Effect, domVars, Defined
<1>2. CASE c = "shutdown"
  BY <1>2 DEF Effect, VmEffect, GpuCommands, UnitCommands, Defined
<1>3. CASE c \in {"define-cpu", "define-gpu"}
  BY <1>3 DEF Effect, VmEffect, GpuCommands, UnitCommands, Defined, HostTypeOK
<1>4. CASE c = "start"
  <2>1. dom' = [dom EXCEPT ![x] = defn[x]] /\ defn' = defn
    BY <1>4 DEF Effect, VmEffect, GpuCommands, UnitCommands
  <2>2. dom'[v] = dom[v] \/ dom'[v] = defn[v]
    BY <2>1 DEF HostTypeOK
  <2>3. QED BY <2>1, <2>2 DEF Defined
<1>5. QED BY <1>1, <1>2, <1>3, <1>4 DEF VmCommands

(* A command that writes to no GPU leaves them alone, and only define-gpu gives *)
(* a guest devices.                                                             *)
LEMMA TriedKeepsGpus2 ==
    ASSUME HostTypeOK, NEW c, NEW x, Fits(c, x), Tried(c, x), NEW g \in Gpus,
           c \in GpuCommands => x # g
    PROVE  SameGpu(g)
BY EffectKeepsGpu DEF Tried, Succeed, Fail, Lose, hostVars, pciVars, SameGpu

LEMMA TriedKeepsGuests ==
    ASSUME HostTypeOK, NEW c, NEW x, Fits(c, x), Tried(c, x), c # "define-gpu"
    PROVE  KeepsGuests
<1>1. ASSUME NEW v \in Vms, Defined(v) PROVE ~InFlight("define-gpu", v)'
  BY <1>1, TriedInflight DEF Defined, InFlight
<1>2. ASSUME NEW v \in Vms, Defined(v) PROVE defn'[v] = "cpu" /\ (dom[v] # "gpu" => dom'[v] # "gpu")
  BY <1>2, EffectKeepsGuest DEF Tried, Succeed, Fail, Lose, hostVars, domVars, Defined
<1>3. QED BY <1>1, <1>2 DEF KeepsGuests, Defined

LEMMA TriedConfig ==
    ASSUME NEW c, NEW x, Tried(c, x)
    PROVE  cfgMode' = cfgMode
BY DEF Tried, Succeed, Fail, Lose, hostVars
--------------------------------------------------------------------------------
(* What the rest of the host does, and accidents, undo none of it. *)

LEMMA IdleRestored == pc' = "idle" => Restored' /\ Bound' /\ ClaimPhase'
BY DEF Restored, Bound, ClaimPhase, ClaimLabels, StartLoop, RestoreLoop, RestoreTail, DefinedTail

GentleStep ==
    /\ saved'.phase = saved.phase
    /\ cfgMode' = cfgMode
    /\ KeepsGuests
    /\ \A g \in Gpus : GpuSettled(g) => GpuSettled(g)' /\ (Back(g) => Back(g)')
    /\ \/ UNCHANGED local /\ \A g \in Gpus : GpuSettled(g) => SameGpu(g)
       \/ pc' = "idle"

LEMMA GentleKeeps == OInv /\ GentleStep => HostOwns' /\ ConfigKept' /\ ClaimPhase' /\ Restored' /\ Bound'
<1> SUFFICES ASSUME OInv, GentleStep
             PROVE  HostOwns' /\ ConfigKept' /\ ClaimPhase' /\ Restored' /\ Bound'
  OBVIOUS
<1>0. IInv /\ HostOwns /\ ConfigKept /\ ClaimPhase /\ Restored /\ Bound
  BY DEF OInv
<1>1. ConfigKept'
  BY <1>0 DEF GentleStep, ConfigKept
<1>2. WithoutDevices => WithoutDevices'
  BY DEF GentleStep, KeepsGuests, WithoutDevices
<1>3. HostOwns'
  <2>1. saved.phase \in HostPhases => \A g \in Gpus : GpuSettled(g)
    BY <1>0, AnnouncedSettled DEF IInv, HostPhases, Rebinding
  <2>2. QED BY <1>0, <1>2, <2>1 DEF GentleStep, HostOwns, HostOwned
<1>4. CASE pc' = "idle"
  BY <1>1, <1>3, <1>4, IdleRestored
<1>5. CASE UNCHANGED local /\ \A g \in Gpus : GpuSettled(g) => SameGpu(g)
  <2>0. pc' = pc /\ todo' = todo /\ cur' = cur
    BY <1>5 DEF local
  <2>1. ClaimPhase'
    BY <1>0, <2>0 DEF GentleStep, ClaimPhase
  <2>2. GpusSettled /\ LoopsTyped
    BY <1>0 DEF IInv, Typed, LocalTyped
  <2>3. Bound'
    BY <1>0, <1>5, <2>0, <2>2 DEF Bound, GpusSettled, StartLoop, GpuLoops, GpuBody, SameGpu
  <2>4. pc \in {"restore.probe", "restore.bound", "restore.power"} => cur \in Gpus
    BY <2>2 DEF LoopsTyped, Fit, GpuBody
  <2>5. pc \in RestoreLoop => \A g \in Gpus \ todo : Back(g)'
    <3>1. pc \in RestoreLoop => \A g \in Gpus \ todo : GpuSettled(g) /\ Back(g)
      BY <1>0, <2>2 DEF GpusSettled, Restored, RestoreLoop, GpuLoops, GpuBody
    <3>2. QED BY <3>1 DEF GentleStep
  <2>6. pc \in RestoreTail => \A g \in Gpus : Back(g)'
    <3>1. pc \in RestoreTail => \A g \in Gpus : GpuSettled(g) /\ Back(g)
      BY <1>0, <2>2 DEF GpusSettled, Restored
    <3>2. QED BY <3>1 DEF GentleStep
  <2>7. ASSUME NEW g \in Gpus, g = cur, pc \in {"restore.probe", "restore.bound", "restore.power"}
        PROVE  /\ GpuSettled(g)' /\ override'[g] = ""
               /\ pc = "restore.power" => driver'[g] = "nvidia"
    <3>1. GpuSettled(g) /\ override[g] = "" /\ (pc = "restore.power" => driver[g] = "nvidia")
      BY <1>0, <2>7 DEF Restored
    <3>2. GpuSettled(g)' /\ SameGpu(g)
      BY <1>5, <3>1 DEF GentleStep
    <3>3. QED BY <3>1, <3>2 DEF SameGpu
  <2>8. pc = "restore.define" => \A v \in Vms \ todo : Defined(v)'
    BY <1>0 DEF Restored, GentleStep, KeepsGuests
  <2>9. Restored'
    <3>1. pc \in {"restore.probe", "restore.bound", "restore.power"} => GpuSettled(cur)' /\ override'[cur'] = ""
      BY <2>0, <2>4, <2>7
    <3>2. pc = "restore.power" => driver'[cur'] = "nvidia"
      BY <2>0, <2>4, <2>7
    <3>3. QED
      BY <1>0, <1>2, <2>0, <2>5, <2>6, <2>8, <3>1, <3>2 DEF GentleStep, Restored
  <2>10. QED BY <1>1, <1>3, <2>1, <2>3, <2>9
<1>6. QED BY <1>4, <1>5 DEF GentleStep

LEMMA LandLateGentle ==
    ASSUME HostTypeOK, NEW o \in inflight, LandLate(o)
    PROVE  /\ KeepsGuests
           /\ \A g \in Gpus : GpuSettled(g) => SameGpu(g)
           /\ inflight' \subseteq inflight /\ cfgMode' = cfgMode
<1>1. Effect(o.cmd, o.on) /\ inflight' \subseteq inflight /\ cfgMode' = cfgMode
  BY DEF LandLate
<1>2. o.cmd \in GpuCommands \union VmCommands \union UnitCommands
  BY <1>1 DEF Effect
<1>3. Fits(o.cmd, o.on)
  BY <1>2 DEF HostTypeOK, Operations, Operation, Fits, GpuCommands, VmCommands, UnitCommands, ReadCommand
<1>4. \A g \in Gpus : GpuSettled(g) => SameGpu(g)
  BY <1>1, <1>3, EffectKeepsGpu DEF GpuSettled
<1>5. ASSUME NEW v \in Vms, Defined(v) PROVE Defined(v)' /\ (dom[v] # "gpu" => dom'[v] # "gpu")
  <2>1. o.cmd = "define-gpu" => o.on # v
    BY <1>5 DEF Defined, InFlight
  <2>2. defn'[v] = "cpu" /\ (dom[v] # "gpu" => dom'[v] # "gpu")
    BY <1>1, <1>3, <1>5, <2>1, EffectKeepsGuest
  <2>3. ~InFlight("define-gpu", v)'
    BY <1>1, <1>5 DEF Defined, InFlight
  <2>4. QED BY <2>2, <2>3 DEF Defined
<1>6. QED BY <1>1, <1>4, <1>5 DEF KeepsGuests

LEMMA AGentleStep ==
    ASSUME saved' = saved, cfgMode' = cfgMode, UNCHANGED local \/ pc' = "idle", KeepsGuests,
           \A g \in Gpus : GpuSettled(g) => SameGpu(g),
           \A g \in Gpus : GpuSettled(g) => GpuSettled(g)'
    PROVE  GentleStep
BY SameGpuBack DEF GentleStep

LEMMA HostGentle == OInv /\ HostStep => GentleStep
<1> SUFFICES ASSUME OInv, HostStep PROVE GentleStep
  OBVIOUS
<1>0. HostTypeOK /\ saved' = saved /\ UNCHANGED local
  BY DEF OInv, IInv, Typed, FilesTyped, HostStep, files
<1>1. \A g \in Gpus : GpuSettled(g) => GpuSettled(g)'
  BY HostHarmless DEF OInv, HarmlessStep
<1>2. ASSUME NEW o \in inflight, LandLate(o) PROVE GentleStep
  BY <1>0, <1>1, <1>2, LandLateGentle, AGentleStep
<1>3. ASSUME NEW o \in inflight, DropLate(o) PROVE GentleStep
  <2>1. KeepsGuests /\ KeepsGpus /\ cfgMode' = cfgMode
    BY <1>3 DEF DropLate, KeepsGuests, KeepsGpus, SameGpu, Defined, InFlight, pciVars, domVars
  <2>2. QED BY <1>0, <1>1, <2>1, AGentleStep DEF KeepsGpus
<1>4. ASSUME NEW v \in Vms, GuestPowersOff(v) PROVE GentleStep
  <2>1. /\ UNCHANGED pciVars /\ defn' = defn /\ inflight' = inflight /\ cfgMode' = cfgMode
        /\ dom' = [dom EXCEPT ![v] = "off"]
    BY <1>4 DEF GuestPowersOff
  <2>2. \A w \in Vms : dom'[w] = "off" \/ dom'[w] = dom[w]
    BY <1>0, <2>1 DEF HostTypeOK
  <2>3. KeepsGuests /\ KeepsGpus
    BY <2>1, <2>2 DEF KeepsGuests, KeepsGpus, SameGpu, Defined, InFlight, pciVars
  <2>4. QED BY <1>0, <1>1, <2>1, <2>3, AGentleStep DEF KeepsGpus
<1>5. ASSUME \/ \E u \in Units : UnitComesUp(u) \/ UnitGoesDown(u)
             \/ AppExits
      PROVE  GentleStep
  <2>1. Still /\ cfgMode' = cfgMode
    BY <1>5 DEF UnitComesUp, UnitGoesDown, AppExits, Still, pciVars, domVars
  <2>2. QED BY <1>0, <1>1, <2>1, StillKeeps, AGentleStep DEF KeepsGpus
<1>6. QED BY <1>2, <1>3, <1>4, <1>5 DEF HostStep

LEMMA AccidentsGentle == OInv /\ Accidents => GentleStep
<1> SUFFICES ASSUME OInv, Accidents PROVE GentleStep
  OBVIOUS
<1>1. \A g \in Gpus : GpuSettled(g) => GpuSettled(g)'
  BY AccidentsHarmless DEF OInv, HarmlessStep
<1>2. ASSUME Still, cfgMode' = cfgMode, saved' = saved, UNCHANGED local \/ pc' = "idle" PROVE GentleStep
  BY <1>1, <1>2, StillKeeps, AGentleStep DEF KeepsGpus
<1>3. CASE Abandon
  BY <1>2, <1>3 DEF Abandon, Exit, files, hostVars, domVars, Still
<1>4. CASE ReadTimesOut
  <2>1. UNCHANGED pciVars /\ dom' = dom /\ defn' = defn /\ saved' = saved /\ cfgMode' = cfgMode
    BY <1>4 DEF ReadTimesOut, domVars
  <2>2. \A o \in inflight' : o \in inflight \/ o.cmd = ReadCommand
    BY <1>4 DEF ReadTimesOut
  <2>3. KeepsGuests /\ KeepsGpus
    BY <2>1, <2>2 DEF KeepsGuests, KeepsGpus, SameGpu, Defined, InFlight, ReadCommand, pciVars
  <2>4. UNCHANGED local \/ pc' = "idle"
    BY <1>4 DEF ReadTimesOut, Exit
  <2>5. QED BY <1>1, <2>1, <2>3, <2>4, AGentleStep DEF KeepsGpus
<1>5. CASE AppStarts
  BY <1>2, <1>5 DEF AppStarts, files, domVars, Still
<1>6. CASE BeginHostShutdown /\ UNCHANGED <<files, local, calm>>
  BY <1>2, <1>6 DEF BeginHostShutdown, files, domVars, Still
<1>7. CASE HostReboots
  <2>1. /\ saved' = saved /\ pc' = "idle" /\ inflight' = {} /\ defn' = defn /\ cfgMode' = cfgMode
        /\ dom' = [v \in Vms |-> "off"] /\ driver' = [g \in Gpus |-> "nvidia"]
        /\ override' = [g \in Gpus |-> ""] /\ power' = [g \in Gpus |-> "saved"]
    BY <1>7 DEF HostReboots, Reboot, Exit, files
  <2>2. \A g \in Gpus : Back(g)'
    BY <2>1 DEF Back
  <2>3. KeepsGuests
    BY <2>1 DEF KeepsGuests, Defined, InFlight
  <2>4. QED BY <1>1, <2>1, <2>2, <2>3 DEF GentleStep
<1>8. QED BY <1>3, <1>4, <1>5, <1>6, <1>7 DEF Accidents

--------------------------------------------------------------------------------
(* The host keeps what is its own while the phase says so. *)

OwnStep ==
    \/ saved'.phase \notin HostPhases
    \/ /\ saved'.phase = saved.phase \/ (saved.phase \in HostPhases /\ saved'.phase = "starting")
       /\ KeepsGpus /\ KeepsGuests
       /\ cfgMode' = cfgMode \/ saved'.phase = "starting"
    \/ HostOwned /\ cfgMode = "mode0" /\ Still /\ cfgMode' = cfgMode

LEMMA OwnStepKeeps == HostOwns /\ ConfigKept /\ OwnStep => HostOwns' /\ ConfigKept'
<1> SUFFICES ASSUME HostOwns, ConfigKept, OwnStep PROVE HostOwns' /\ ConfigKept'
  OBVIOUS
<1>1. ASSUME HostOwned, KeepsGpus, KeepsGuests PROVE HostOwned'
  BY <1>1, SameGpuBack DEF HostOwned, KeepsGpus, KeepsGuests, WithoutDevices
<1>2. CASE saved'.phase \notin HostPhases
  BY <1>2 DEF HostOwns, ConfigKept, HostPhases
<1>3. CASE HostOwned /\ cfgMode = "mode0" /\ Still /\ cfgMode' = cfgMode
  BY <1>1, <1>3, StillKeeps DEF HostOwns, ConfigKept
<1>4. CASE /\ saved'.phase = saved.phase \/ (saved.phase \in HostPhases /\ saved'.phase = "starting")
           /\ KeepsGpus /\ KeepsGuests
           /\ cfgMode' = cfgMode \/ saved'.phase = "starting"
  <2>1. HostOwns'
    BY <1>1, <1>4 DEF HostOwns
  <2>2. ConfigKept'
    BY <1>4 DEF ConfigKept
  <2>3. QED BY <2>1, <2>2
<1>5. QED BY <1>2, <1>3, <1>4 DEF OwnStep

LEMMA QuietOwn == UNCHANGED <<hostVars, saved>> => OwnStep
BY StillKeeps DEF OwnStep, hostVars, domVars, Still

LEMMA CommandOwn ==
    ASSUME HostTypeOK, NEW c, NEW x, Fits(c, x), Tried(c, x),
           saved.phase \notin HostPhases \/ c \notin GpuCommands \union {"define-gpu"}
    PROVE  OwnStep
<1>1. saved' = saved /\ cfgMode' = cfgMode
  BY TriedKeepsPhase, TriedConfig
<1>2. CASE saved.phase \notin HostPhases
  BY <1>1, <1>2 DEF OwnStep
<1>3. CASE c \notin GpuCommands \union {"define-gpu"}
  <2>1. KeepsGpus /\ KeepsGuests
    BY <1>3, TriedKeepsGpus2, TriedKeepsGuests DEF KeepsGpus
  <2>2. QED BY <1>1, <2>1 DEF OwnStep
<1>4. QED BY <1>2, <1>3

LEMMA CheckpointOwn ==
    ASSUME saved \in SavedType, NEW phase, NEW guest, Checkpoint(phase, guest),
           \/ phase \notin HostPhases
           \/ phase = "starting" /\ saved.phase \in HostPhases
           \/ HostOwned /\ cfgMode = "mode0"
    PROVE  OwnStep
<1>1. saved'.phase = phase
  BY CheckpointPhase
<1>2. Still /\ cfgMode' = cfgMode
  BY DEF Checkpoint, hostVars, domVars, Still
<1>3. QED BY <1>1, <1>2, StillKeeps DEF OwnStep

(* start() touches neither GPUs nor definitions before it announces it. *)
LEMMA StartOwns == IInv /\ ClaimPhase /\ StartStep => OwnStep
<1> SUFFICES ASSUME IInv, ClaimPhase, StartStep PROVE OwnStep
  OBVIOUS
<1>0. LoopsTyped /\ HostTypeOK /\ saved \in SavedType /\ PhaseKnown
  BY DEF IInv, Typed, FilesTyped, FilesTypeOK, LocalTyped, SavedType
<1> USE <1>0 DEF PhaseKnown, HostPhases, LoopsTyped, Fit, GpuBody, GpuLoops, VmBody, VmLoops, UnitLoops,
                 BindingLabels, LaunchingLabels
<1>1. CASE StartChecks \/ StartPhase \/ StartPartitions \/ StartAudit \/ StartBound \/ StartConfirm \/ Verify
  BY <1>1, QuietOwn DEF StartChecks, StartPhase, StartPartitions, StartAudit, StartBound, StartConfirm, Verify, Check, files
<1>2. CASE StartNormalizes \/ StartClaims
  BY <1>2, QuietOwn, CheckpointOwn DEF StartNormalizes, StartClaims, files
<1>3. CASE StartBinding \/ StartLaunching \/ Commit
  BY <1>3, CheckpointOwn DEF StartBinding, StartLaunching, Commit
<1>4. CASE StopClientServices
  BY <1>4, QuietOwn, CommandOwn, CommandsFit DEF StopClientServices, Run, Tried, GpuCommands, files
<1>5. CASE StartStopsFm \/ StartStartsFm \/ StartQuietsFm
  BY <1>5, CommandOwn, CommandsFit DEF StartStopsFm, StartStartsFm, StartQuietsFm, Run, Tried, GpuCommands
<1>6. CASE StartWritesMode1
  <2>1. saved.phase = "starting" /\ saved' = saved /\ Still
    BY <1>6 DEF ClaimPhase, ClaimLabels, StartWritesMode1, WriteConfig, files, domVars, Still
  <2>2. QED BY <2>1, StillKeeps DEF OwnStep
<1>7. CASE StartDevice
  BY <1>7, QuietOwn DEF StartDevice, files
<1>8. CASE StartPower \/ StartOverride \/ StartUnbind \/ StartProbe
  BY <1>8, CommandOwn, CommandsFit DEF StartPower, StartOverride, StartUnbind, StartProbe, Run, Tried
<1>9. CASE StartDefine \/ StartLaunch
  BY <1>9, QuietOwn, CommandOwn, CommandsFit DEF StartDefine, StartLaunch, Run, Tried, files
<1>10. QED
  BY <1>1, <1>2, <1>3, <1>4, <1>5, <1>6, <1>7, <1>8, <1>9 DEF StartStep

(* restart(), stop() and shutdown() never do. *)
LEMMA RestartOwns == IInv /\ RestartStep => OwnStep
<1> SUFFICES ASSUME IInv, RestartStep PROVE OwnStep
  OBVIOUS
<1>0. LoopsTyped /\ HostTypeOK /\ saved \in SavedType
  BY DEF IInv, Typed, FilesTyped, FilesTypeOK, LocalTyped, SavedType
<1>1. CASE RestartChecks \/ RestartResumes
  BY <1>1, QuietOwn DEF RestartChecks, RestartResumes, Check, files
<1>2. CASE RestartClaims
  BY <1>0, <1>2, CheckpointOwn DEF RestartClaims, HostPhases
<1>3. CASE RestartLaunches
  BY <1>0, <1>3, QuietOwn, CommandOwn, CommandsFit
     DEF RestartLaunches, LoopsTyped, RestartLabels, Run, Tried, GpuCommands, files
<1>4. QED
  BY <1>1, <1>2, <1>3 DEF RestartStep

LEMMA ShutdownOwns == IInv /\ ShutdownStep => OwnStep
<1> SUFFICES ASSUME IInv, ShutdownStep PROVE OwnStep
  OBVIOUS
<1>0. LoopsTyped /\ HostTypeOK /\ saved \in SavedType
  BY DEF IInv, Typed, FilesTyped, FilesTypeOK, LocalTyped, SavedType
<1>1. CASE StopClaims
  BY <1>0, <1>1, CheckpointOwn DEF StopClaims, HostPhases
<1>2. CASE ShutdownNext \/ ShutdownWaits \/ ShutdownOwners \/ Owners
  BY <1>2, QuietOwn DEF ShutdownNext, ShutdownWaits, ShutdownOwners, Owners, Check, files
<1>3. CASE ShutdownAsks
  BY <1>0, <1>3, CommandOwn, CommandsFit DEF ShutdownAsks, LoopsTyped, Fit, VmBody, Run, Tried, GpuCommands
<1>4. QED
  BY <1>1, <1>2, <1>3 DEF ShutdownStep

(* restore_configuration() leaves its phase when all is back. *)
LEMMA RestoreOwns == IInv /\ Restored /\ RestoreStep => OwnStep
<1> SUFFICES ASSUME IInv, Restored, RestoreStep PROVE OwnStep
  OBVIOUS
<1>0. LoopsTyped /\ HostTypeOK /\ saved \in SavedType /\ PhaseKnown
  BY DEF IInv, Typed, FilesTyped, FilesTypeOK, LocalTyped, SavedType
<1>1. CASE RestoreDone
  <2>1. HostOwned /\ cfgMode = "mode0"
    BY <1>1 DEF RestoreDone, Restored, RestoreTail, DefinedTail, HostOwned
  <2>2. QED BY <1>0, <1>1, <2>1, CheckpointOwn DEF RestoreDone
<1>2. CASE ~RestoreDone
  <2>1. saved' = saved
    BY <1>2, TriedKeepsPhase
       DEF RestoreStep, Restore, RestoreQuiesce, RestoreStopsFm, RestoreDevice, RestoreUnbind, RestoreOverride,
           RestoreProbe, RestoreBound, RestorePower, RestoreConfig, RestoreDefine, RestoreUnits,
           RestoreIdentities, RestoreGuests, Check, Run, Tried, WriteConfig, files
  <2>2. pc \in RestoreLabels
    BY <1>2
       DEF RestoreStep, Restore, RestoreQuiesce, RestoreStopsFm, RestoreDevice, RestoreUnbind, RestoreOverride,
           RestoreProbe, RestoreBound, RestorePower, RestoreConfig, RestoreDefine, RestoreUnits,
           RestoreIdentities, RestoreGuests, Check, RestoreLabels, RestoreTail
  <2>3. QED BY <1>0, <2>1, <2>2 DEF PhaseKnown, OwnStep, HostPhases
<1>3. QED BY <1>1, <1>2
--------------------------------------------------------------------------------
(* The manager's steps keep what it has done so far. *)

LEMMA StartClaimPhase == IInv /\ ClaimPhase /\ StartStep => ClaimPhase'
<1> SUFFICES ASSUME IInv, ClaimPhase, StartStep PROVE ClaimPhase'
  OBVIOUS
<1>1. saved \in SavedType
  BY DEF IInv, Typed, FilesTyped, FilesTypeOK, SavedType
<1> USE DEF ClaimPhase, ClaimLabels, Exit, Goto, Loop, Again, files
<1>2. CASE StartChecks \/ StartPhase \/ StartPartitions \/ StartAudit \/ StartBound \/ StartConfirm \/ Verify
  BY <1>2 DEF StartChecks, StartPhase, StartPartitions, StartAudit, StartBound, StartConfirm, Verify, Check
<1>3. CASE StartNormalizes \/ StartClaims \/ StartBinding \/ StartLaunching \/ Commit
  BY <1>3 DEF StartNormalizes, StartClaims, StartBinding, StartLaunching, Commit
<1>4. CASE StopClientServices \/ StartStopsFm \/ StartStartsFm \/ StartQuietsFm
  BY <1>4, TriedKeepsPhase DEF StopClientServices, StartStopsFm, StartStartsFm, StartQuietsFm, Run, Tried
<1>5. CASE StartWritesMode1
  BY <1>5 DEF StartWritesMode1, WriteConfig
<1>6. CASE StartDevice \/ StartPower \/ StartOverride \/ StartUnbind \/ StartProbe \/ StartDefine \/ StartLaunch
  BY <1>6 DEF StartDevice, StartPower, StartOverride, StartUnbind, StartProbe, StartDefine, StartLaunch, Run
<1>7. QED
  BY <1>2, <1>3, <1>4, <1>5, <1>6 DEF StartStep

(* The other programs leave the labels of start() alone; shutdown() returns to it under *)
(* the phase it was called with.                                                        *)
LEMMA RestartElsewhere == RestartStep => ClaimPhase' /\ Bound' /\ Restored'
<1> SUFFICES ASSUME RestartStep PROVE ClaimPhase' /\ Bound' /\ Restored'
  OBVIOUS
<1>1. pc' \in {"idle", "restart.resume", "restart.claim", "owners", "shutdown", "verify"}
  BY DEF RestartStep, RestartChecks, RestartResumes, RestartClaims, RestartLaunches, Check, Run, Exit, Goto, Loop
<1>2. QED
  BY <1>1 DEF ClaimPhase, ClaimLabels, Bound, StartLoop, Restored, RestoreLoop, RestoreTail, DefinedTail

LEMMA ShutdownElsewhere == IInv /\ ShutdownStep => ClaimPhase' /\ Bound' /\ Restored'
<1> SUFFICES ASSUME IInv, ShutdownStep PROVE ClaimPhase' /\ Bound' /\ Restored'
  OBVIOUS
<1>1. \/ pc' \in ShutdownLabels \union {"idle", "restore", "restart.launch"}
      \/ pc' = "start.clients" /\ saved' = saved /\ pc = "owners" /\ call.cmd = "start"
  BY DEF ShutdownStep, StopClaims, ShutdownNext, ShutdownAsks, ShutdownWaits, ShutdownOwners, Owners, AfterOwners,
         Check, Run, Exit, Goto, Loop, Again, ShutdownLabels, files
<1>2. ClaimPhase'
  BY <1>1 DEF ClaimPhase, ClaimLabels, ShutdownLabels, IInv, PhaseKnown
<1>3. QED
  BY <1>1, <1>2 DEF ShutdownLabels, Bound, StartLoop, Restored, RestoreLoop, RestoreTail, DefinedTail

LEMMA StartNotRestored == StartStep => Restored'
<1> SUFFICES ASSUME StartStep PROVE Restored'
  OBVIOUS
<1>1. pc' \notin RestoreLoop \union RestoreTail
  BY DEF StartStep, StartChecks, StartNormalizes, StartPhase, StartClaims, StopClientServices, StartStopsFm,
         StartWritesMode1, StartStartsFm, StartPartitions, StartQuietsFm, StartAudit, StartBinding, StartDevice,
         StartPower, StartOverride, StartUnbind, StartProbe, StartBound, StartLaunching, StartDefine,
         StartLaunch, StartConfirm, Verify, Commit, Check, Run, WriteConfig, Exit, Goto, Loop, Again,
         RestoreLoop, RestoreTail
<1>2. QED
  BY <1>1 DEF Restored, RestoreLoop, RestoreTail, DefinedTail

LEMMA RestoreNotBound == RestoreStep => Bound' /\ ClaimPhase'
<1> SUFFICES ASSUME RestoreStep PROVE Bound' /\ ClaimPhase'
  OBVIOUS
<1>1. pc' \in RestoreLabels \union {"idle", "start.phase"}
  BY DEF RestoreStep, Restore, RestoreQuiesce, RestoreStopsFm, RestoreDevice, RestoreUnbind, RestoreOverride,
         RestoreProbe, RestoreBound, RestorePower, RestoreConfig, RestoreDefine, RestoreUnits,
         RestoreIdentities, RestoreGuests, RestoreDone, Check, Run, WriteConfig, Exit, Goto, Loop, Again,
         RestoreLabels, RestoreTail
<1>2. QED
  BY <1>1 DEF RestoreLabels, RestoreTail, Bound, StartLoop, ClaimPhase, ClaimLabels

(* A write to the GPU in hand leaves those that are done. *)
LEMMA InHandKeeps ==
    ASSUME IInv, NEW c \in GpuCommands, cur \in Gpus, cur \in todo, Tried(c, cur), NEW g \in Gpus \ todo
    PROVE  SameGpu(g)
<1>1. Fits(c, cur) /\ HostTypeOK /\ cur # g
  BY DEF Fits, IInv, Typed, FilesTyped
<1>2. QED BY <1>1, TriedKeepsGpus2

LEMMA StartBounds == IInv /\ Bound /\ StartStep => Bound'
<1> SUFFICES ASSUME IInv, Bound, StartStep PROVE Bound'
  OBVIOUS
<1>0. LoopsTyped
  BY DEF IInv, Typed, LocalTyped
<1>1. pc' = "idle" => Bound'
  BY IdleRestored
<1> USE DEF Exit, Goto, Loop, Again
<1>2. CASE StartBinding
  BY <1>2 DEF StartBinding, Bound, StartLoop
<1>3. CASE StartDevice
  BY <1>1, <1>3 DEF StartDevice, Bound, StartLoop, hostVars, pciVars
<1>4. ASSUME NEW c \in GpuCommands, NEW l, Run(c, cur, Goto(l)), pc \in {"start.power", "start.override", "start.unbind", "start.probe"},
             l \in {"start.override", "start.unbind", "start.probe", "start.bound"}
      PROVE  Bound'
  <2>1. CASE Succeed(c, cur) /\ Goto(l)
    <3>1. cur \in Gpus /\ cur \in todo /\ \A g \in Gpus \ todo : driver[g] = "vfio-pci"
      BY <1>0, <1>4 DEF LoopsTyped, Fit, GpuBody, Bound, StartLoop
    <3>2. \A g \in Gpus \ todo : SameGpu(g)
      BY <2>1, <3>1, InHandKeeps DEF Tried
    <3>3. pc' = l /\ todo' = todo /\ cur' = cur
      BY <2>1
    <3>4. QED BY <1>4, <3>1, <3>2, <3>3 DEF Bound, StartLoop, SameGpu
  <2>2. QED BY <1>1, <1>4, <2>1 DEF Run
<1>5. CASE StartPower \/ StartOverride \/ StartUnbind \/ StartProbe
  BY <1>4, <1>5 DEF StartPower, StartOverride, StartUnbind, StartProbe, GpuCommands
<1>6. CASE StartBound
  BY <1>1, <1>6 DEF StartBound, Check, Bound, StartLoop, hostVars, pciVars
<1>7. CASE ~(StartBinding \/ StartDevice \/ StartPower \/ StartOverride \/ StartUnbind \/ StartProbe \/ StartBound)
  <2>1. pc' \notin StartLoop \union {"start.launching"}
    BY <1>7 DEF StartStep, StartChecks, StartNormalizes, StartPhase, StartClaims, StopClientServices, StartStopsFm,
         StartWritesMode1, StartStartsFm, StartPartitions, StartQuietsFm, StartAudit,
         StartLaunching, StartDefine,
         StartLaunch, StartConfirm, Verify, Commit, Check, Run, WriteConfig, StartLoop
  <2>2. QED BY <2>1 DEF Bound, StartLoop
<1>8. QED BY <1>2, <1>3, <1>5, <1>6, <1>7

(* restore_configuration(), statement by statement. *)
LEMMA RestoreRestores == IInv /\ Restored /\ RestoreStep => Restored'
<1> SUFFICES ASSUME IInv, Restored, RestoreStep PROVE Restored'
  OBVIOUS
<1>0. LoopsTyped /\ HostTypeOK
  BY DEF IInv, Typed, FilesTyped, LocalTyped
<1>1. pc' = "idle" => Restored'
  BY IdleRestored
<1>2. ASSUME Still, cfgMode' = cfgMode, UNCHANGED <<todo, cur>>, pc' = pc PROVE Restored'
  BY <1>2 DEF Still, pciVars, Restored, Back, GpuSettled, Defined, InFlight, WithoutDevices
<1> USE DEF Exit, Goto, Loop, Again
<1>3. CASE Restore \/ RestoreDone
  BY <1>3 DEF Restore, RestoreDone, Restored, RestoreLoop, RestoreTail, DefinedTail
<1>4. CASE RestoreQuiesce
  BY <1>1, <1>4 DEF RestoreQuiesce, Check, Restored, RestoreLoop, RestoreTail, DefinedTail
<1>5. CASE RestoreStopsFm
  BY <1>1, <1>5 DEF RestoreStopsFm, Run, Restored, RestoreLoop, RestoreTail, DefinedTail
<1>6. CASE RestoreDevice
  <2>1. UNCHANGED pciVars /\ \A g \in Gpus \ todo : Back(g)
    BY <1>6 DEF RestoreDevice, hostVars, Restored, RestoreLoop
  <2>2. \A g \in Gpus \ todo : Back(g)'
    BY <2>1 DEF Back, pciVars
  <2>3. CASE cur' \in todo /\ todo' = todo /\ pc' \in {"restore.unbind", "restore.override"}
    BY <2>2, <2>3 DEF Restored, RestoreLoop, RestoreTail, DefinedTail
  <2>4. CASE todo = {} /\ pc' = "restore.config"
    BY <2>2, <2>4 DEF Restored, RestoreLoop, RestoreTail, DefinedTail
  <2>5. QED BY <1>6, <2>3, <2>4 DEF RestoreDevice
<1>7. ASSUME NEW c \in GpuCommands, Succeed(c, cur), pc \in RestoreLoop \ {"restore.device", "restore.bound"}
      PROVE  /\ cur \in Gpus /\ cur \in todo /\ \A o \in inflight' : o.on # cur
             /\ \A g \in Gpus \ todo : Back(g)'
  <2>1. cur \in Gpus /\ cur \in todo /\ \A g \in Gpus \ todo : Back(g)
    BY <1>0, <1>7 DEF LoopsTyped, Fit, GpuBody, Restored, RestoreLoop
  <2>2. \A g \in Gpus \ todo : Back(g)'
    BY <1>7, <2>1, InHandKeeps, SameGpuBack DEF Tried
  <2>3. \A o \in inflight' : o.on # cur
    BY <1>7 DEF Succeed, Settled
  <2>4. QED BY <2>1, <2>2, <2>3
<1>8. CASE RestoreUnbind
  <2>1. CASE Succeed("unbind", cur) /\ Goto("restore.override")
    <3>1. cur \in todo /\ \A g \in Gpus \ todo : Back(g)'
      BY <1>7, <1>8, <2>1 DEF RestoreUnbind, GpuCommands, RestoreLoop
    <3>2. QED BY <2>1, <3>1 DEF Restored, RestoreLoop, RestoreTail, DefinedTail
  <2>2. QED BY <1>1, <1>8, <2>1 DEF RestoreUnbind, Run
<1>9. CASE RestoreOverride
  <2>1. CASE Succeed("override-clear", cur) /\ pc' \in {"restore.probe", "restore.bound"} /\ UNCHANGED <<todo, cur>>
    <3>1. cur \in Gpus /\ cur \in todo /\ (\A o \in inflight' : o.on # cur) /\ \A g \in Gpus \ todo : Back(g)'
      BY <1>7, <1>9, <2>1 DEF RestoreOverride, GpuCommands, RestoreLoop
    <3>2. override' = [override EXCEPT ![cur] = ""]
      BY <2>1 DEF Succeed, Effect, GpuEffect, GpuCommands, VmCommands, UnitCommands
    <3>3. override'[cur] = ""
      BY <1>0, <3>1, <3>2 DEF HostTypeOK
    <3>4. QED BY <2>1, <3>1, <3>3 DEF Restored, RestoreLoop, RestoreTail, DefinedTail, GpuSettled
  <2>2. QED BY <1>1, <1>9, <2>1 DEF RestoreOverride, Run
<1>10. CASE RestoreProbe
  <2>1. CASE Succeed("probe", cur) /\ Goto("restore.bound")
    <3>1. cur \in Gpus /\ cur \in todo /\ (\A o \in inflight' : o.on # cur) /\ \A g \in Gpus \ todo : Back(g)'
      BY <1>7, <1>10, <2>1 DEF RestoreProbe, GpuCommands, RestoreLoop
    <3>2. override'[cur] = ""
      BY <1>10, <2>1 DEF RestoreProbe, Restored, Succeed, Effect, GpuEffect, GpuCommands, VmCommands, UnitCommands
    <3>3. QED BY <2>1, <3>1, <3>2 DEF Restored, RestoreLoop, RestoreTail, DefinedTail, GpuSettled
  <2>2. QED BY <1>1, <1>10, <2>1 DEF RestoreProbe, Run
<1>11. CASE RestoreBound
  <2>1. CASE driver[cur] = "nvidia" /\ Goto("restore.power")
    <3>1. UNCHANGED pciVars /\ inflight' = inflight
      BY <1>11 DEF RestoreBound, Check, hostVars
    <3>2. cur \in todo /\ GpuSettled(cur) /\ override[cur] = "" /\ \A g \in Gpus \ todo : Back(g)
      BY <1>11 DEF RestoreBound, Check, Restored, RestoreLoop
    <3>3. QED BY <2>1, <3>1, <3>2 DEF Restored, RestoreLoop, RestoreTail, DefinedTail, Back, GpuSettled, pciVars
  <2>2. QED BY <1>1, <1>11, <2>1 DEF RestoreBound, Check
<1>12. CASE RestorePower
  <2>1. CASE Succeed("power-restore", cur) /\ Again("restore.device")
    <3>1. cur \in Gpus /\ \A g \in Gpus \ todo : Back(g)'
      BY <1>7, <1>12, <2>1 DEF RestorePower, GpuCommands, RestoreLoop
    <3>2. power' = [power EXCEPT ![cur] = "saved"] /\ UNCHANGED <<driver, override>>
      BY <2>1 DEF Succeed, Effect, GpuEffect, GpuCommands, VmCommands, UnitCommands
    <3>3. driver[cur] = "nvidia" /\ override[cur] = ""
      BY <1>12 DEF RestorePower, Restored
    <3>4. driver'[cur] = "nvidia" /\ override'[cur] = "" /\ power'[cur] = "saved"
      BY <1>0, <3>1, <3>2, <3>3 DEF HostTypeOK
    <3>5. \A g \in Gpus \ (todo \ {cur}) : Back(g)'
      <4>1. ASSUME NEW g \in Gpus, g = cur PROVE Back(g)'
        BY <3>4, <4>1 DEF Back
      <4>2. QED BY <3>1, <4>1
    <3>6. pc' = "restore.device" /\ todo' = todo \ {cur}
      BY <2>1
    <3>7. QED BY <3>5, <3>6 DEF Restored, RestoreLoop, RestoreTail, DefinedTail
  <2>2. QED BY <1>1, <1>12, <2>1 DEF RestorePower, Run
<1>13. CASE RestoreConfig
  <2>1. CASE cfgMode' = "mode0" /\ Loop("restore.define", Vms)
    <3>1. UNCHANGED pciVars /\ \A g \in Gpus : Back(g)
      BY <1>13 DEF RestoreConfig, WriteConfig, Restored, RestoreTail
    <3>2. QED BY <2>1, <3>1 DEF Restored, RestoreLoop, RestoreTail, DefinedTail, Back, pciVars
  <2>2. QED BY <1>1, <1>13, <2>1 DEF RestoreConfig, WriteConfig
(* The tail: the GPUs stay back, the configuration is in place. *)
<1>14. ASSUME pc \in RestoreTail \ {"restore.config"}, KeepsGpus, cfgMode' = cfgMode
       PROVE  cfgMode' = "mode0" /\ \A g \in Gpus : Back(g)'
  BY <1>14, SameGpuBack DEF Restored, KeepsGpus
<1>15. ASSUME NEW c \in VmCommands \union UnitCommands, NEW x, Fits(c, x), Succeed(c, x)
       PROVE  KeepsGpus /\ cfgMode' = cfgMode /\ (c # "define-gpu" => KeepsGuests)
  <2>1. c \notin GpuCommands /\ Tried(c, x)
    BY <1>15 DEF VmCommands, UnitCommands, GpuCommands, Tried
  <2>2. QED BY <1>0, <1>15, <2>1, TriedKeepsGpus2, TriedKeepsGuests, TriedConfig DEF KeepsGpus
<1>16. CASE RestoreDefine
  <2>1. ASSUME NEW v \in todo, Succeed("define-cpu", v), Loop("restore.define", todo \ {v})
        PROVE  Restored'
    <3>1. v \in Vms /\ Fits("define-cpu", v)
      BY <1>0, <1>16, CommandsFit DEF RestoreDefine, LoopsTyped, Fit, VmLoops
    <3>2. KeepsGpus /\ cfgMode' = cfgMode /\ KeepsGuests
      BY <1>15, <2>1, <3>1 DEF VmCommands
    <3>3. Defined(v)'
      <4>1. defn' = [defn EXCEPT ![v] = "cpu"] /\ inflight' = inflight /\ Settled(v)
        BY <2>1 DEF Succeed, Effect, VmEffect, GpuCommands, UnitCommands
      <4>2. QED BY <1>0, <3>1, <4>1 DEF HostTypeOK, Defined, InFlight, Settled
    <3>4. \A w \in Vms \ (todo \ {v}) : Defined(w)'
      BY <1>16, <3>2, <3>3 DEF RestoreDefine, Restored, KeepsGuests
    <3>5. cfgMode' = "mode0" /\ \A g \in Gpus : Back(g)'
      BY <1>14, <1>16, <3>2 DEF RestoreDefine, RestoreTail
    <3>6. pc' = "restore.define" /\ todo' = todo \ {v}
      BY <2>1
    <3>7. QED BY <3>4, <3>5, <3>6 DEF Restored, RestoreLoop, RestoreTail, DefinedTail
  <2>2. CASE todo = {} /\ pc' \in {"restore.identities", "restore.units"} /\ UNCHANGED hostVars
    <3>1. KeepsGpus /\ cfgMode' = cfgMode /\ KeepsGuests
      BY <2>2, StillKeeps DEF hostVars, domVars, Still
    <3>2. cfgMode' = "mode0" /\ \A g \in Gpus : Back(g)'
      BY <1>14, <1>16, <3>1 DEF RestoreDefine, RestoreTail
    <3>3. WithoutDevices
      <4>1. Released(Vms)
        BY <1>16 DEF RestoreDefine, IInv, GuestsReleased, Window, RestoreLabels, RestoreTail
      <4>2. \A v \in Vms : Defined(v)
        BY <1>16, <2>2 DEF RestoreDefine, Restored
      <4>3. QED BY <4>1, <4>2 DEF Released, WithoutDevices
    <3>4. WithoutDevices'
      BY <3>1, <3>3 DEF KeepsGuests, WithoutDevices
    <3>5. QED BY <2>2, <3>2, <3>4 DEF Restored, RestoreLoop, RestoreTail, DefinedTail
  <2>3. QED BY <1>1, <1>16, <2>1, <2>2 DEF RestoreDefine, Run
<1>17. ASSUME pc \in DefinedTail, pc' \in DefinedTail, KeepsGpus, KeepsGuests, cfgMode' = cfgMode
       PROVE  Restored'
  <2>1. cfgMode' = "mode0" /\ \A g \in Gpus : Back(g)'
    BY <1>14, <1>17 DEF DefinedTail, RestoreTail
  <2>2. WithoutDevices'
    BY <1>17 DEF Restored, KeepsGuests, WithoutDevices
  <2>3. QED BY <1>17, <2>1, <2>2 DEF Restored, RestoreLoop, RestoreTail, DefinedTail
<1>18. ASSUME pc \in DefinedTail, pc' \in DefinedTail, UNCHANGED hostVars PROVE Restored'
  BY <1>17, <1>18, StillKeeps DEF hostVars, domVars, Still
<1>19. CASE RestoreUnits
  <2>1. todo \subseteq Units
    BY <1>0, <1>19 DEF RestoreUnits, LoopsTyped, Fit, UnitLoops
  <2>2. ASSUME NEW u \in todo, NEW c \in UnitCommands, Succeed(c, u), pc' = "restore.units" PROVE Restored'
    <3>1. KeepsGpus /\ cfgMode' = cfgMode /\ KeepsGuests
      BY <1>15, <2>1, <2>2, CommandsFit DEF UnitCommands
    <3>2. QED BY <1>17, <1>19, <2>2, <3>1 DEF RestoreUnits, DefinedTail
  <2>3. CASE pc' \in {"restore.units", "restore.identities"} /\ UNCHANGED hostVars
    BY <1>18, <1>19, <2>3 DEF RestoreUnits, DefinedTail
  <2>4. QED BY <1>1, <1>19, <2>2, <2>3 DEF RestoreUnits, Run, UnitCommands
<1>20. CASE RestoreIdentities
  BY <1>1, <1>18, <1>20 DEF RestoreIdentities, Check, DefinedTail
<1>21. CASE RestoreGuests
  <2>1. todo \subseteq Vms
    BY <1>0, <1>21 DEF RestoreGuests, LoopsTyped, Fit, VmLoops
  <2>2. ASSUME NEW v \in todo, Succeed("start", v), pc' = "restore.guests" PROVE Restored'
    <3>1. KeepsGpus /\ cfgMode' = cfgMode /\ KeepsGuests
      BY <1>15, <2>1, <2>2, CommandsFit DEF VmCommands
    <3>2. QED BY <1>17, <1>21, <2>2, <3>1 DEF RestoreGuests, DefinedTail
  <2>3. CASE pc' = "restore.done" /\ UNCHANGED hostVars
    BY <1>18, <1>21, <2>3 DEF RestoreGuests, DefinedTail
  <2>4. QED BY <1>1, <1>21, <2>2, <2>3 DEF RestoreGuests, Run
<1>22. QED
  BY <1>3, <1>4, <1>5, <1>6, <1>8, <1>9, <1>10, <1>11, <1>12, <1>13, <1>16, <1>19, <1>20, <1>21 DEF RestoreStep

--------------------------------------------------------------------------------
(* The invariant is inductive. *)

LEMMA ManagerOwnership ==
    OInv /\ ManagerStep => HostOwns' /\ ConfigKept' /\ ClaimPhase' /\ Restored' /\ Bound'
<1> SUFFICES ASSUME OInv, ManagerStep
             PROVE  HostOwns' /\ ConfigKept' /\ ClaimPhase' /\ Restored' /\ Bound'
  OBVIOUS
<1>0. IInv /\ HostOwns /\ ConfigKept /\ ClaimPhase /\ Restored /\ Bound
  BY DEF OInv
<1>1. CASE StartStep
  BY <1>0, <1>1, StartOwns, OwnStepKeeps, StartClaimPhase, StartNotRestored, StartBounds
<1>2. CASE RestartStep
  BY <1>0, <1>2, RestartOwns, OwnStepKeeps, RestartElsewhere
<1>3. CASE ShutdownStep
  BY <1>0, <1>3, ShutdownOwns, OwnStepKeeps, ShutdownElsewhere
<1>4. CASE RestoreStep
  BY <1>0, <1>4, RestoreOwns, OwnStepKeeps, RestoreRestores, RestoreNotBound
<1>5. QED BY <1>1, <1>2, <1>3, <1>4 DEF ManagerStep

(* prepare() records a host that is still its own. *)
LEMMA InvokeOwnership ==
    OInv /\ Invoke => HostOwns' /\ ConfigKept' /\ ClaimPhase' /\ Restored' /\ Bound'
<1> SUFFICES ASSUME OInv, Invoke
             PROVE  HostOwns' /\ ConfigKept' /\ ClaimPhase' /\ Restored' /\ Bound'
  OBVIOUS
<1>0. HostOwns /\ ConfigKept
  BY DEF OInv
<1>1. pc' \in {"idle", "start", "restart", "stop"} /\ UNCHANGED hostVars
  BY DEF Invoke, Prepare, Start, Restart, Stop, local, OInv
<1>2. OwnStep
  <2>1. CASE Prepare
    <3>1. HostOwned /\ cfgMode = "mode0"
      BY <1>0, <2>1 DEF Prepare, HostOwns, ConfigKept, HostPhases
    <3>2. QED BY <1>1, <3>1 DEF OwnStep, hostVars, domVars, Still
  <2>2. QED BY <2>1, <1>1, QuietOwn DEF Invoke, Start, Restart, Stop, files
<1>3. ClaimPhase' /\ Restored' /\ Bound'
  BY <1>1 DEF ClaimPhase, ClaimLabels, Restored, RestoreLoop, RestoreTail, DefinedTail, Bound, StartLoop
<1>4. QED BY <1>0, <1>2, <1>3, OwnStepKeeps

LEMMA OwnershipInductive == OInv /\ [Next]_vars => OInv'
<1> SUFFICES ASSUME OInv, [Next]_vars PROVE OInv'
  OBVIOUS
<1>1. IInv'
  BY InvariantInductive DEF OInv
<1>2. CASE FaultsStop \/ UNCHANGED vars
  <2>1. UNCHANGED <<hostVars, saved, local>>
    BY <1>2 DEF FaultsStop, vars, files
  <2>2. GentleStep
    <3>1. Still /\ cfgMode' = cfgMode
      BY <2>1 DEF hostVars, domVars, Still
    <3>2. \A g \in Gpus : GpuSettled(g) => GpuSettled(g)'
      BY <3>1 DEF Still, GpuSettled
    <3>3. QED BY <2>1, <3>1, <3>2, StillKeeps, AGentleStep DEF KeepsGpus
  <2>3. QED BY <1>1, <2>2, GentleKeeps DEF OInv
<1>3. QED
  BY <1>1, <1>2, InvokeOwnership, ManagerOwnership, HostGentle, AccidentsGentle, GentleKeeps DEF Next, OInv

LEMMA OwnershipInit == Init => OInv
<1> SUFFICES ASSUME Init PROVE OInv
  OBVIOUS
<1>1. pc = "idle" /\ cfgMode = "mode0" /\ HostOwned
  BY DEF Init, HostInit, HostOwned, Back, WithoutDevices, Defined, InFlight
<1>2. ClaimPhase /\ Restored /\ Bound
  BY <1>1 DEF ClaimPhase, ClaimLabels, Restored, RestoreLoop, RestoreTail, DefinedTail, Bound, StartLoop
<1>3. QED BY <1>1, <1>2, InvariantInit DEF OInv, HostOwns, ConfigKept

LEMMA OwnershipInvariant == Spec => []OInv
BY OwnershipInit, OwnershipInductive, PTL DEF Spec

--------------------------------------------------------------------------------
(* What follows. *)

(* The records "prepared" and "stopped" are true of the host, also after a  *)
(* reboot and whatever an abandoned command does late.                      *)
THEOREM StoppedIsTrue == Spec => []StoppedIsBaseline
<1>1. OInv => StoppedIsBaseline
  BY DEF OInv, HostOwns, ConfigKept, HostPhases, HostOwned, Back, WithoutDevices, Defined, StoppedIsBaseline
<1>2. QED BY <1>1, OwnershipInvariant, PTL

--------------------------------------------------------------------------------
(* The lifecycle implements the ownership protocol. *)

OwnersKept == \A v \in Vms : OwnerOf(v)' = OwnerOf(v)
OnlyOwner(w) == \A v \in Vms : v # w => OwnerOf(v)' = OwnerOf(v)
ProtocolStep == [Ownership!Next]_(Ownership!ownVars)

LEMMA StutterStep == OwnersKept /\ RecordOf' = RecordOf => ProtocolStep
BY DEF OwnersKept, ProtocolStep, Ownership!ownVars

LEMMA AnnounceStep == OwnersKept /\ RecordOf' = "moving" => ProtocolStep
BY DEF OwnersKept, ProtocolStep, Ownership!Next, Ownership!Announce

LEMMA HostSettles ==
    OwnersKept /\ RecordOf = "moving" /\ RecordOf' = "host" /\ (\A v \in Vms : OwnerOf(v) = "host") => ProtocolStep
BY DEF OwnersKept, ProtocolStep, Ownership!Next, Ownership!SettleOnHost

LEMMA GuestsSettle ==
    OwnersKept /\ RecordOf = "moving" /\ RecordOf' = "guest" /\ (\A v \in Vms : OwnerOf(v) = "moving") => ProtocolStep
BY DEF OwnersKept, ProtocolStep, Ownership!Next, Ownership!SettleOnGuests

LEMMA CrashStep == RecordOf' = RecordOf /\ (\A v \in Vms : OwnerOf(v)' = "host") => ProtocolStep
BY DEF ProtocolStep, Ownership!Next, Ownership!Crash

LEMMA OnlyOwnerExcept ==
    ASSUME NEW w \in Vms, OnlyOwner(w)
    PROVE  [v \in Vms |-> OwnerOf(v)]' = [[v \in Vms |-> OwnerOf(v)] EXCEPT ![w] = OwnerOf(w)']
BY DEF OnlyOwner

LEMMA MoveStep ==
    ASSUME NEW w \in Vms, OnlyOwner(w), RecordOf = "moving", RecordOf' = RecordOf,
           OwnerOf(w) # "guest", OwnerOf(w)' # "guest"
    PROVE  ProtocolStep
<1>1. OwnerOf(w)' \in {"host", "moving"}
  BY DEF OwnerOf
<1>2. Ownership!Move(w)
  BY <1>1, OnlyOwnerExcept DEF Ownership!Move
<1>3. QED BY <1>2 DEF ProtocolStep, Ownership!Next

LEMMA TakeStep ==
    ASSUME NEW w \in Vms, OnlyOwner(w), RecordOf # "host", RecordOf' = RecordOf,
           OwnerOf(w) = "moving", OwnerOf(w)' = "guest"
    PROVE  ProtocolStep
<1>1. Ownership!Take(w)
  BY OnlyOwnerExcept DEF Ownership!Take
<1>2. QED BY <1>1 DEF ProtocolStep, Ownership!Next

LEMMA ReleaseStep ==
    ASSUME NEW w \in Vms, OnlyOwner(w), RecordOf' = RecordOf,
           OwnerOf(w) = "guest", OwnerOf(w)' = "moving"
    PROVE  ProtocolStep
<1>1. Ownership!Release(w)
  BY OnlyOwnerExcept DEF Ownership!Release
<1>2. QED BY <1>1 DEF ProtocolStep, Ownership!Next

LEMMA SameOwners == UNCHANGED <<dom, driver>> => OwnersKept
BY DEF OwnersKept, OwnerOf

LEMMA SameRecord == saved'.phase = saved.phase => RecordOf' = RecordOf
BY DEF RecordOf

(* One command, or one that lands late, is one step of the protocol. *)
LEMMA EffectStep ==
    ASSUME IInv, HostOwns, NEW c, NEW x, Fits(c, x), Possible(c, x), Effect(c, x), saved' = saved,
           c \in GpuCommands => saved.phase \in Rebinding
    PROVE  ProtocolStep
<1>0. HostTypeOK /\ RecordOf' = RecordOf
  BY SameRecord DEF IInv, Typed, FilesTyped
<1>1. CASE c \in GpuCommands
  <2>1. dom' = dom /\ x \in Gpus
    BY <1>1 DEF Effect, domVars, Fits, GpuCommands, VmCommands, UnitCommands
  <2>2. \A g \in Gpus : g # x => driver'[g] = driver[g]
    BY <1>0, <1>1, <2>1, EffectKeepsGpu DEF SameGpu
  <2>3. \A v \in Vms : x \notin GpusOf[v] => OwnerOf(v)' = OwnerOf(v)
    BY <2>1, <2>2, HostAssumption DEF OwnerOf, HostAssumption
  <2>4. CASE \E w \in Vms : x \in GpusOf[w]
    <3>1. PICK w \in Vms : x \in GpusOf[w]
      BY <2>4
    <3>2. OnlyOwner(w)
      BY <2>3, <3>1, GpusAssumption DEF OnlyOwner, GpusAssumption
    <3>3. CASE dom[w] = "gpu"
      <4>1. OwnerOf(w)' = OwnerOf(w)
        BY <2>1, <3>3 DEF OwnerOf
      <4>2. QED BY <1>0, <3>2, <4>1, StutterStep DEF OnlyOwner, OwnersKept
    <3>4. CASE dom[w] # "gpu"
      <4>1. OwnerOf(w) # "guest" /\ OwnerOf(w)' # "guest"
        BY <2>1, <3>4 DEF OwnerOf
      <4>2. RecordOf = "moving"
        BY <1>1 DEF RecordOf
      <4>3. QED BY <1>0, <3>2, <4>1, <4>2, MoveStep
    <3>5. QED BY <3>3, <3>4
  <2>5. CASE \A w \in Vms : x \notin GpusOf[w]
    BY <1>0, <2>3, <2>5, StutterStep DEF OwnersKept
  <2>6. QED BY <2>4, <2>5
<1>2. CASE c = "start"
  <2>1. /\ x \in Vms /\ driver' = driver /\ dom' = [dom EXCEPT ![x] = defn[x]]
        /\ dom[x] = "off" /\ (defn[x] = "gpu" => Assigned(x))
    BY <1>2 DEF Effect, VmEffect, pciVars, Possible, Fits, GpuCommands, VmCommands, UnitCommands
  <2>2. OnlyOwner(x) /\ dom'[x] = defn[x]
    BY <1>0, <2>1 DEF OnlyOwner, OwnerOf, HostTypeOK
  <2>3. CASE defn[x] = "gpu"
    <3>1. OwnerOf(x)' = "guest"
      BY <2>2, <2>3 DEF OwnerOf
    <3>2. OwnerOf(x) = "moving"
      BY <2>1, <2>3, GpusAssumption DEF GpusAssumption, OwnerOf, Assigned
    <3>3. saved.phase \notin HostPhases
      BY <2>1, <2>3 DEF HostOwns, HostOwned, WithoutDevices, Defined
    <3>4. RecordOf # "host"
      BY <3>3 DEF IInv, Typed, FilesTyped, FilesTypeOK, HostPhases, RecordOf, Rebinding, Phases, Interrupted
    <3>5. QED BY <1>0, <2>1, <2>2, <3>1, <3>2, <3>4, TakeStep
  <2>4. CASE defn[x] # "gpu"
    <3>1. OwnerOf(x)' = OwnerOf(x)
      BY <2>1, <2>2, <2>4 DEF OwnerOf
    <3>2. QED BY <1>0, <2>2, <3>1, StutterStep DEF OnlyOwner, OwnersKept
  <2>5. QED BY <2>3, <2>4
<1>3. CASE c \in (VmCommands \union UnitCommands) \ {"start"}
  <2>1. UNCHANGED <<dom, driver>>
    BY <1>3 DEF Effect, VmEffect, domVars, pciVars, GpuCommands, VmCommands, UnitCommands
  <2>2. QED BY <1>0, <2>1, SameOwners, StutterStep
<1>4. QED BY <1>1, <1>2, <1>3 DEF Fits

(* The manager: commands, and the phases it writes. *)
PhaseStep ==
    \/ RecordOf' = RecordOf
    \/ RecordOf' = "moving"
    \/ RecordOf = "moving" /\ RecordOf' = "host" /\ \A v \in Vms : OwnerOf(v) = "host"
    \/ RecordOf = "moving" /\ RecordOf' = "guest" /\ \A v \in Vms : OwnerOf(v) = "moving"

LEMMA ManagerPhase == OInv /\ ManagerStep => PhaseStep
<1> SUFFICES ASSUME OInv, ManagerStep PROVE PhaseStep
  OBVIOUS
<1>0. saved \in SavedType /\ PhaseKnown /\ GuestsReleased /\ Bound /\ Restored
  BY DEF OInv, IInv, Typed, FilesTyped, FilesTypeOK, SavedType
<1>1. CASE saved'.phase = saved.phase
  BY <1>1, SameRecord DEF PhaseStep
<1>2. CASE StartNormalizes \/ StartBinding \/ StopClaims
  <2>1. saved'.phase = saved.phase \/ saved'.phase \in Rebinding
    BY <1>0, <1>2, CheckpointPhase DEF StartNormalizes, StartBinding, StopClaims, Rebinding, files
  <2>2. QED BY <1>1, <2>1 DEF RecordOf, PhaseStep
<1>3. CASE StartClaims \/ RestartClaims \/ Commit
  <2>1. \/ saved.phase \in {"prepared", "stopped"} /\ saved'.phase = "starting"
        \/ saved.phase \in {"running", "starting-guests", "restarting"} /\ saved'.phase \in {"restarting", "running"}
    BY <1>0, <1>3, CheckpointPhase DEF StartClaims, RestartClaims, Commit, PhaseKnown, LaunchingLabels
  <2>2. QED BY <2>1 DEF RecordOf, Rebinding, PhaseStep
<1>4. CASE StartLaunching
  <2>1. saved.phase = "binding-gpus" /\ saved'.phase = "starting-guests"
    BY <1>0, <1>4, CheckpointPhase DEF StartLaunching, PhaseKnown, BindingLabels
  <2>2. Released(Vms) /\ \A g \in Gpus : driver[g] = "vfio-pci"
    BY <1>0, <1>4 DEF StartLaunching, GuestsReleased, Window, BindingLabels, RestoreLabels, RestoreTail, Bound
  <2>3. ASSUME NEW v \in Vms PROVE OwnerOf(v) = "moving"
    <3>1. dom[v] # "gpu"
      BY <2>2 DEF Released
    <3>2. PICK g \in Gpus : g \in GpusOf[v]
      BY GpusAssumption, HostAssumption DEF GpusAssumption, HostAssumption
    <3>3. driver[g] # "nvidia"
      BY <2>2
    <3>4. QED BY <3>1, <3>2, <3>3 DEF OwnerOf
  <2>4. QED BY <2>1, <2>3 DEF RecordOf, Rebinding, PhaseStep
<1>5. CASE RestoreDone
  <2>1. saved.phase \in {"stopping", "normalizing-new-boot"} /\ saved'.phase = "stopped"
    BY <1>0, <1>5, CheckpointPhase DEF RestoreDone, PhaseKnown, RestoreLabels, RestoreTail
  <2>2. (\A g \in Gpus : Back(g)) /\ WithoutDevices
    BY <1>0, <1>5 DEF RestoreDone, Restored, RestoreTail, DefinedTail
  <2>3. \A v \in Vms : OwnerOf(v) = "host"
    BY <2>2, HostAssumption DEF HostAssumption, OwnerOf, Back, WithoutDevices
  <2>4. QED BY <2>1, <2>3 DEF RecordOf, Rebinding, PhaseStep
<1>6. CASE ~(\/ StartNormalizes \/ StartBinding \/ StopClaims \/ StartClaims \/ RestartClaims \/ Commit
             \/ StartLaunching \/ RestoreDone)
  <2>1. CASE StartStep
    BY <1>6, <2>1, TriedKeepsPhase
       DEF StartStep, StartChecks, StartPhase, StopClientServices, StartStopsFm, StartWritesMode1, StartStartsFm,
           StartPartitions, StartQuietsFm, StartAudit, StartDevice, StartPower, StartOverride, StartUnbind,
           StartProbe, StartBound, StartDefine, StartLaunch, StartConfirm, Verify, Check, Run, Tried, WriteConfig,
           files, PhaseStep, RecordOf
  <2>2. CASE RestartStep \/ ShutdownStep
    BY <1>6, <2>2, TriedKeepsPhase
       DEF RestartStep, RestartChecks, RestartResumes, RestartLaunches, ShutdownStep, ShutdownNext, ShutdownAsks,
           ShutdownWaits, ShutdownOwners, Owners, Check, Run, Tried, files, PhaseStep, RecordOf
  <2>3. CASE RestoreStep
    BY <1>6, <2>3, TriedKeepsPhase
       DEF RestoreStep, Restore, RestoreQuiesce, RestoreStopsFm, RestoreDevice, RestoreUnbind, RestoreOverride,
           RestoreProbe, RestoreBound, RestorePower, RestoreConfig, RestoreDefine, RestoreUnits,
           RestoreIdentities, RestoreGuests, Check, Run, Tried, WriteConfig, files, PhaseStep, RecordOf
  <2>4. QED BY <2>1, <2>2, <2>3 DEF ManagerStep
<1>7. QED BY <1>2, <1>3, <1>4, <1>5, <1>6

LEMMA ManagerProtocol == OInv /\ ManagerStep => ProtocolStep
<1> SUFFICES ASSUME OInv, ManagerStep PROVE ProtocolStep
  OBVIOUS
<1>1. CASE Untouched
  <2>1. OwnersKept
    BY <1>1, SameOwners DEF Untouched
  <2>2. QED BY <2>1, ManagerPhase, StutterStep, AnnounceStep, HostSettles, GuestsSettle DEF PhaseStep
<1>2. ASSUME NEW c, NEW x, SafeCommand(c, x) PROVE ProtocolStep
  <2>1. saved' = saved
    BY <1>2, TriedKeepsPhase DEF SafeCommand
  <2>2. CASE Succeed(c, x)
    BY <1>2, <2>1, <2>2, EffectStep DEF SafeCommand, Succeed, OInv
  <2>3. CASE Fail(c, x) \/ Lose(c, x)
    BY <2>1, <2>3, SameRecord, SameOwners, StutterStep DEF Fail, Lose, hostVars, pciVars, domVars
  <2>4. QED BY <1>2, <2>2, <2>3 DEF SafeCommand, Tried
<1>3. SafeStep
  BY StartSafe, RestartSafe, ShutdownSafe, RestoreSafe DEF ManagerStep, OInv, IInv
<1>4. QED BY <1>1, <1>2, <1>3 DEF SafeStep

LEMMA HostProtocol == OInv /\ HostStep => ProtocolStep
<1> SUFFICES ASSUME OInv, HostStep PROVE ProtocolStep
  OBVIOUS
<1>0. HostTypeOK /\ IInv /\ HostOwns /\ saved' = saved /\ RecordOf' = RecordOf
  BY SameRecord DEF OInv, IInv, Typed, FilesTyped, HostStep, files
<1>1. ASSUME NEW o \in inflight, LandLate(o) PROVE ProtocolStep
  <2>1. Effect(o.cmd, o.on) /\ Possible(o.cmd, o.on)
    BY <1>1 DEF LandLate
  <2>2. o.cmd \in GpuCommands \union VmCommands \union UnitCommands
    BY <2>1 DEF Effect
  <2>3. Fits(o.cmd, o.on)
    BY <1>0, <2>2 DEF HostTypeOK, Operations, Operation, Fits, GpuCommands, VmCommands, UnitCommands, ReadCommand
  <2>4. o.cmd \in GpuCommands => saved.phase \in Rebinding
    BY <1>0 DEF IInv, LateWritesAreAnnounced
  <2>5. QED BY <1>0, <2>1, <2>3, <2>4, EffectStep
<1>2. ASSUME NEW v \in Vms, GuestPowersOff(v) PROVE ProtocolStep
  <2>1. driver' = driver /\ dom' = [dom EXCEPT ![v] = "off"]
    BY <1>2 DEF GuestPowersOff, pciVars
  <2>2. OnlyOwner(v) /\ dom'[v] = "off"
    BY <1>0, <2>1 DEF OnlyOwner, OwnerOf, HostTypeOK
  <2>3. CASE dom[v] = "gpu"
    <3>1. OwnerOf(v) = "guest"
      BY <2>3 DEF OwnerOf
    <3>2. OwnerOf(v)' = "moving"
      BY <1>0, <2>1, <2>2, <2>3, GpusAssumption DEF GpusAssumption, OwnerOf, IInv, GuestGpusStayVfio, Assigned
    <3>3. QED BY <1>0, <2>2, <3>1, <3>2, ReleaseStep
  <2>4. CASE dom[v] # "gpu"
    <3>1. OwnerOf(v)' = OwnerOf(v)
      BY <2>1, <2>2, <2>4 DEF OwnerOf
    <3>2. QED BY <1>0, <2>2, <3>1, StutterStep DEF OnlyOwner, OwnersKept
  <2>5. QED BY <2>3, <2>4
<1>3. ASSUME \/ \E o \in inflight : DropLate(o)
             \/ \E u \in Units : UnitComesUp(u) \/ UnitGoesDown(u)
             \/ AppExits
      PROVE  ProtocolStep
  BY <1>0, <1>3, SameOwners, StutterStep DEF DropLate, UnitComesUp, UnitGoesDown, AppExits, pciVars, domVars
<1>4. QED BY <1>1, <1>2, <1>3 DEF HostStep

LEMMA OtherProtocol == OInv /\ (Invoke \/ Accidents \/ FaultsStop) => ProtocolStep
<1> SUFFICES ASSUME Invoke \/ Accidents \/ FaultsStop PROVE ProtocolStep
  OBVIOUS
<1>1. CASE HostReboots
  <2>1. \A v \in Vms : OwnerOf(v)' = "host"
    BY <1>1, HostAssumption DEF HostAssumption, HostReboots, Reboot, OwnerOf
  <2>2. QED BY <1>1, <2>1, SameRecord, CrashStep DEF HostReboots, files
<1>2. CASE Prepare
  BY <1>2, SameOwners, StutterStep DEF Prepare, hostVars, pciVars, domVars, RecordOf, Rebinding
<1>3. CASE ~HostReboots /\ ~Prepare
  BY <1>3, SameRecord, SameOwners, StutterStep
     DEF Invoke, Start, Restart, Stop, FaultsStop, Accidents, Abandon, ReadTimesOut, AppStarts, BeginHostShutdown,
         files, hostVars, pciVars, domVars
<1>4. QED BY <1>1, <1>2, <1>3

(* The lifecycle implements GpuOwnership.                                   *)
THEOREM LifecycleImplementsOwnership == Spec => ImplementsOwnership
<1>1. Init => Ownership!Init
  <2> SUFFICES ASSUME Init PROVE Ownership!Init
    OBVIOUS
  <2>1. \A v \in Vms : OwnerOf(v) = "host"
    <3>1. \A v \in Vms : dom[v] # "gpu"
      BY DEF Init, HostInit
    <3>2. \A g \in Gpus : driver[g] = "nvidia"
      BY DEF Init, HostInit
    <3>3. QED BY <3>1, <3>2, HostAssumption DEF HostAssumption, OwnerOf
  <2>2. RecordOf = "host"
    BY DEF Init, RecordOf, Rebinding
  <2>3. QED BY <2>1, <2>2 DEF Ownership!Init
<1>2. OInv /\ [Next]_vars => [Ownership!Next]_(Ownership!ownVars)
  <2> SUFFICES ASSUME OInv, [Next]_vars PROVE ProtocolStep
    BY DEF ProtocolStep
  <2>1. CASE UNCHANGED vars
    BY <2>1, SameRecord, SameOwners, StutterStep DEF vars, files, hostVars, pciVars, domVars
  <2>2. QED BY <2>1, ManagerProtocol, HostProtocol, OtherProtocol DEF Next
<1>3. QED BY <1>1, <1>2, OwnershipInvariant, PTL DEF Spec, ImplementsOwnership, Ownership!Spec

(******************************** the handovers ********************************)
(* No process recorded by an uncertain command is at work. *)
NoRecordedProcess == ~\E o \in inflight : o.pid = marker /\ o.alive /\ o.cmd # ReadCommand

Recorded ==
    /\ \A o \in inflight : o.pid <= lost
    /\ pc \in Window => NoRecordedProcess

(* No operation on v is on its way. *)
VmSettled(v) == \A o \in inflight : o.cmd \in VmCommands => o.on # v

(* No operation on a guest outlives the restore of the baseline. *)
Resolved ==
    /\ saved.phase \in {"none", "prepared", "stopped"} => \A v \in Vms : VmSettled(v)
    /\ pc = "restore.define" => \A v \in Vms \ todo : VmSettled(v)
    /\ pc \in DefinedTail => \A v \in Vms : VmSettled(v)
    /\ \A o \in inflight : o.cmd = "define-cpu" => saved.phase \in {"stopping", "normalizing-new-boot"}

(* While an application uses the GPUs, all of them are the host's. *)
AppLabels == BindingLabels \union {"start.binding", "restore.unbind", "restore.stopfm"}
AppsOnHost ==
    apps => /\ Gpus # {}
            /\ \A g \in Gpus : driver[g] = "nvidia"
            /\ \A o \in inflight : o.cmd # "unbind"
            /\ pc \notin AppLabels

(* The manifest was written in this boot. *)
OfThisBoot == saved.bootId = boot
BootLabels == ShutdownLabels \union LaunchingLabels \union {"restart.resume", "restart.claim", "restart.launch"}
BootKnown ==
    /\ saved.bootId <= boot
    /\ pc \in BootLabels => OfThisBoot

(* Fabric Manager is down, nothing on its way will start it, no route is set. *)
FmOff == FM \notin up \union booting /\ ~InFlight("start-unit", FM)
FabricOff == FmOff /\ ~routes

(* v runs with its GPUs, or is being launched with them. *)
Exposed(v) == dom[v] = "gpu" \/ (Starting(v) /\ ~Defined(v))

(* Guests are, or may be, launched with their GPUs. *)
Handed == saved.phase \in {"starting-guests", "running", "restarting"} /\ OfThisBoot

FabricKnown ==
    /\ Handed \/ (\E v \in Vms : Exposed(v)) => FabricOff
    /\ pc = "start.audit" => FmOff
    /\ pc \in BindingLabels \union {"start.binding"} => FabricOff

(* What verify_running() finds of GPUs, definitions and configuration. *)
Steady ==
    /\ \A g \in Gpus : driver[g] = "vfio-pci"
    /\ \A v \in Vms : defn[v] = "gpu" /\ dom[v] # "cpu"
    /\ cfgMode = "mode1"

RunsSteady == (saved.phase \in {"running", "restarting"} /\ OfThisBoot) \/ pc = "commit" => Steady

HInv == OInv /\ Recorded /\ Resolved /\ AppsOnHost /\ BootKnown /\ FabricKnown /\ RunsSteady
--------------------------------------------------------------------------------
(* What the manager does, and where. *)

(* The statements that issue each command. *)
Issued(c) ==
    /\ c \in GpuCommands => pc \in BindingLabels \union (RestoreLabels \ RestoreTail)
    /\ c = "unbind" => pc \in {"start.unbind", "restore.unbind"}
    /\ c = "shutdown" => pc = "shutdown.ask"
    /\ c = "define-cpu" => pc = "restore.define"
    /\ c = "define-gpu" => pc = "start.define"
    /\ c = "start" => pc \in {"start.launch", "restart.launch", "restore.guests"}
    /\ c = "start-unit" => pc \in {"start.startfm", "restore.units"}

Acts(c, x) == Fits(c, x) /\ Issued(c) /\ (Succeed(c, x) \/ ((Fail(c, x) \/ Lose(c, x)) /\ pc' = "idle"))

(* The phase that each checkpoint writes. *)
Written(phase) ==
    \/ pc = "start.newboot" /\ phase = "normalizing-new-boot"
    \/ pc = "start.claim" /\ phase = "starting"
    \/ pc = "start.binding" /\ phase = "binding-gpus"
    \/ pc = "start.launching" /\ phase = "starting-guests"
    \/ pc = "commit" /\ phase = "running"
    \/ pc = "restart.claim" /\ phase = "restarting"
    \/ pc = "stop" /\ phase = "stopping"
    \/ pc = "restore.done" /\ phase = "stopped"

ActStep ==
    \/ Quiet
    \/ \E c, x : Acts(c, x)
    \/ \E phase \in Phases, guest \in Vms \union {Nil} : Written(phase) /\ Checkpoint(phase, guest)
    \/ ConfigStep /\ pc \in {"start.mode1", "restore.config"}

LEMMA AnAct ==
    ASSUME NEW c, NEW x, Acts(c, x)
    PROVE  ActStep
BY DEF ActStep

LEMMA ARun ==
    ASSUME NEW c, NEW x, Fits(c, x), Issued(c), NEW l, Run(c, x, l)
    PROVE  ActStep
BY AnAct DEF Run, Acts, Exit

LEMMA StartActs == Typed /\ StartStep => ActStep
<1> SUFFICES ASSUME Typed, StartStep PROVE ActStep
  OBVIOUS
<1>0. LoopsTyped
  BY DEF Typed, LocalTyped
<1> USE DEF Issued, GpuCommands, BindingLabels
<1>1. CASE StartChecks \/ StartPhase \/ StartPartitions \/ StartAudit \/ StartDevice \/ StartBound \/ StartConfirm \/ Verify
  BY <1>1 DEF StartChecks, StartPhase, StartPartitions, StartAudit, StartDevice, StartBound, StartConfirm, Verify,
              Check, Quiet, ActStep
<1>2. CASE StartNormalizes \/ StartClaims \/ StartBinding \/ StartLaunching \/ Commit
  BY <1>2 DEF StartNormalizes, StartClaims, StartBinding, StartLaunching, Commit, Written, Quiet, ActStep,
              Phases, Interrupted
<1>3. CASE StopClientServices
  <2>1. ASSUME NEW u \in todo, pc = "start.clients", NEW l, Run("stop-unit", u, l) PROVE ActStep
    <3>1. Fits("stop-unit", u)
      BY <1>0, <2>1 DEF LoopsTyped, Fit, UnitLoops, Fits, UnitCommands
    <3>2. QED BY <2>1, <3>1, ARun
  <2>2. CASE Quiet
    BY <2>2 DEF ActStep
  <2>3. QED BY <1>3, <2>1, <2>2 DEF StopClientServices, Quiet
<1>4. CASE StartStopsFm \/ StartStartsFm \/ StartQuietsFm
  BY <1>4, ARun, CommandsFit DEF StartStopsFm, StartStartsFm, StartQuietsFm
<1>5. CASE StartWritesMode1
  BY <1>5 DEF StartWritesMode1, WriteConfig, ConfigStep, ActStep
<1>6. CASE StartPower \/ StartOverride \/ StartUnbind \/ StartProbe
  <2>1. cur \in Gpus
    BY <1>0, <1>6 DEF LoopsTyped, Fit, GpuBody, StartPower, StartOverride, StartUnbind, StartProbe
  <2>2. QED BY <1>6, <2>1, ARun, CommandsFit DEF StartPower, StartOverride, StartUnbind, StartProbe
<1>7. CASE StartDefine \/ StartLaunch
  <2>1. ASSUME NEW v \in Vms, NEW l, NEW c \in {"define-gpu", "start"}, Issued(c), Run(c, v, l) PROVE ActStep
    BY <2>1, ARun, CommandsFit
  <2>2. CASE Quiet
    BY <2>2 DEF ActStep
  <2>3. CASE StartLaunch
    <3>1. cur \in Vms
      BY <1>0, <2>3 DEF StartLaunch, LoopsTyped, Fit, VmBody
    <3>2. QED BY <2>1, <2>3, <3>1 DEF StartLaunch
  <2>4. CASE StartDefine
    <3>1. todo \subseteq Vms
      BY <1>0, <2>4 DEF StartDefine, LoopsTyped, Fit, VmLoops
    <3>2. QED BY <2>1, <2>2, <2>4, <3>1 DEF StartDefine, Quiet
  <2>5. QED BY <1>7, <2>3, <2>4
<1>8. QED
  BY <1>1, <1>2, <1>3, <1>4, <1>5, <1>6, <1>7 DEF StartStep

LEMMA RestartActs == Typed /\ RestartStep => ActStep
<1> SUFFICES ASSUME Typed, RestartStep PROVE ActStep
  OBVIOUS
<1>0. LoopsTyped
  BY DEF Typed, LocalTyped
<1>1. CASE RestartChecks \/ RestartResumes
  BY <1>1 DEF RestartChecks, RestartResumes, Check, Quiet, ActStep
<1>2. CASE RestartClaims
  BY <1>0, <1>2 DEF RestartClaims, LoopsTyped, RestartLabels, Written, ActStep, Phases
<1>3. CASE RestartLaunches
  <2>1. call.guest \in Vms
    BY <1>0, <1>3 DEF RestartLaunches, LoopsTyped, RestartLabels
  <2>2. Fits("start", call.guest)
    BY <2>1, CommandsFit
  <2>3. CASE ~Audit
    BY <1>3, <2>3 DEF RestartLaunches, Quiet, ActStep
  <2>4. CASE Audit
    BY <1>3, <2>2, <2>4, ARun DEF RestartLaunches, Issued, GpuCommands
  <2>5. QED BY <2>3, <2>4
<1>4. QED BY <1>1, <1>2, <1>3 DEF RestartStep

LEMMA ShutdownActs == Typed /\ ShutdownStep => ActStep
<1> SUFFICES ASSUME Typed, ShutdownStep PROVE ActStep
  OBVIOUS
<1>0. LoopsTyped
  BY DEF Typed, LocalTyped
<1>1. CASE ShutdownNext \/ ShutdownWaits \/ ShutdownOwners \/ Owners
  BY <1>1 DEF ShutdownNext, ShutdownWaits, ShutdownOwners, Owners, Check, Quiet, ActStep
<1>2. CASE StopClaims
  BY <1>2 DEF StopClaims, Written, ActStep, Phases, Interrupted
<1>3. CASE ShutdownAsks
  <2>1. cur \in Vms
    BY <1>0, <1>3 DEF ShutdownAsks, LoopsTyped, Fit, VmBody
  <2>2. QED BY <1>3, <2>1, ARun, CommandsFit DEF ShutdownAsks, Issued, GpuCommands
<1>4. QED BY <1>1, <1>2, <1>3 DEF ShutdownStep

LEMMA RestoreActs == Typed /\ RestoreStep => ActStep
<1> SUFFICES ASSUME Typed, RestoreStep PROVE ActStep
  OBVIOUS
<1>0. LoopsTyped
  BY DEF Typed, LocalTyped
<1> USE DEF Issued, GpuCommands, RestoreLabels, RestoreTail
<1>1. CASE Restore \/ RestoreQuiesce \/ RestoreDevice \/ RestoreBound \/ RestoreIdentities
  BY <1>1 DEF Restore, RestoreQuiesce, RestoreDevice, RestoreBound, RestoreIdentities, Check, Quiet, ActStep
<1>2. CASE RestoreStopsFm
  BY <1>2, ARun, CommandsFit DEF RestoreStopsFm
<1>3. CASE RestoreUnbind \/ RestorePower
  <2>1. cur \in Gpus
    BY <1>0, <1>3 DEF LoopsTyped, Fit, GpuBody, RestoreUnbind, RestorePower
  <2>2. QED BY <1>3, <2>1, ARun, CommandsFit DEF RestoreUnbind, RestorePower
<1>4. CASE RestoreOverride \/ RestoreProbe
  <2>1. cur \in Gpus
    BY <1>0, <1>4 DEF LoopsTyped, Fit, GpuBody, RestoreOverride, RestoreProbe
  <2>2. QED BY <1>4, <2>1, ARun, CommandsFit DEF RestoreOverride, RestoreProbe
<1>5. CASE RestoreConfig
  BY <1>5 DEF RestoreConfig, WriteConfig, ConfigStep, ActStep
<1>6. CASE Quiet
  BY <1>6 DEF ActStep
<1>7. CASE RestoreDefine
  <2>1. todo \subseteq Vms
    BY <1>0, <1>7 DEF RestoreDefine, LoopsTyped, Fit, VmLoops
  <2>2. ASSUME NEW v \in todo, NEW l, Run("define-cpu", v, l) PROVE ActStep
    BY <1>7, <2>1, <2>2, ARun, CommandsFit DEF RestoreDefine
  <2>3. QED BY <1>6, <1>7, <2>2 DEF RestoreDefine, Quiet
<1>8. CASE RestoreUnits
  <2>1. todo \subseteq Units
    BY <1>0, <1>8 DEF RestoreUnits, LoopsTyped, Fit, UnitLoops
  <2>2. ASSUME NEW u \in todo, NEW l, NEW c \in {"start-unit", "stop-unit"}, Run(c, u, l) PROVE ActStep
    BY <1>8, <2>1, <2>2, ARun, CommandsFit DEF RestoreUnits
  <2>3. QED BY <1>6, <1>8, <2>2 DEF RestoreUnits, Quiet
<1>9. CASE RestoreGuests
  <2>1. todo \subseteq Vms
    BY <1>0, <1>9 DEF RestoreGuests, LoopsTyped, Fit, VmLoops
  <2>2. ASSUME NEW v \in todo, NEW l, Run("start", v, l) PROVE ActStep
    BY <1>9, <2>1, <2>2, ARun, CommandsFit DEF RestoreGuests
  <2>3. QED BY <1>6, <1>9, <2>2 DEF RestoreGuests, Quiet
<1>10. CASE RestoreDone
  BY <1>10 DEF RestoreDone, Written, ActStep, Phases, Interrupted
<1>11. QED
  BY <1>1, <1>2, <1>3, <1>4, <1>5, <1>7, <1>8, <1>9, <1>10 DEF RestoreStep

LEMMA ManagerActs == Typed /\ ManagerStep => ActStep
BY StartActs, RestartActs, ShutdownActs, RestoreActs DEF ManagerStep

(* A manager that goes on has lost no command. *)
LEMMA GoingOn ==
    ASSUME ActStep, pc' # "idle"
    PROVE  UNCHANGED <<inflight, marker, lost>>
BY DEF ActStep, Quiet, Acts, Succeed, Checkpoint, ConfigStep, hostVars, files

--------------------------------------------------------------------------------
(* How the manager comes to the statements the invariant speaks of. *)

FabricLabels == BindingLabels \union {"start.binding"}

Entries ==
    /\ pc' \in Window => pc \in Window \/ NoUncertainProcess
    /\ pc' \in BootLabels => pc \in BootLabels \/ OfThisBoot \/ \E phase, guest : Checkpoint(phase, guest)
    /\ pc' \in AppLabels =>
          \/ pc \in AppLabels \/ ~apps
          \/ (\E g \in Gpus : driver[g] # "nvidia") \/ Gpus = {}
    /\ pc' = "restore.define" =>
          \/ todo' = Vms
          \/ pc = "restore.define" /\ \E v \in todo : Succeed("define-cpu", v) /\ todo' = todo \ {v}
    /\ pc' \in DefinedTail => pc \in DefinedTail \/ (pc = "restore.define" /\ todo = {})
    /\ pc' = "start.audit" => Succeed("stop-unit", FM)
    /\ pc' \in FabricLabels => pc \in FabricLabels \/ (pc = "start.audit" /\ Audit)
    /\ pc' = "commit" => VerifyRunning({}) /\ UNCHANGED hostVars

LEMMA IdleEntries == pc' = "idle" => Entries
BY DEF Entries, Window, BootLabels, ShutdownLabels, BindingLabels, LaunchingLabels, RestoreLabels, RestoreTail,
       DefinedTail, AppLabels, FabricLabels

LEMMA StartEnters == StartStep => Entries
<1> SUFFICES ASSUME StartStep PROVE Entries
  OBVIOUS
<1> USE IdleEntries DEF Exit, Goto, Loop, Again, Entries, Window, BootLabels, ShutdownLabels, BindingLabels, LaunchingLabels,
        RestoreLabels, RestoreTail, DefinedTail, AppLabels, FabricLabels
<1>1. CASE StartChecks \/ StartPhase \/ StartPartitions
  BY <1>1 DEF StartChecks, StartPhase, StartPartitions, Check
<1>2. CASE StartAudit
  BY <1>2 DEF StartAudit, Check, NoHolders
<1>3. CASE StartBound \/ StartConfirm \/ Verify
  BY <1>3 DEF StartBound, StartConfirm, Verify, Check
<1>4. CASE StartNormalizes \/ StartClaims
  BY <1>4 DEF StartNormalizes, StartClaims, NoGuestOwners
<1>5. CASE StartBinding \/ StartLaunching \/ Commit
  BY <1>5 DEF StartBinding, StartLaunching, Commit
<1>6. CASE StopClientServices \/ StartStopsFm \/ StartStartsFm \/ StartQuietsFm
  BY <1>6 DEF StopClientServices, StartStopsFm, StartStartsFm, StartQuietsFm, Run
<1>7. CASE StartWritesMode1
  BY <1>7 DEF StartWritesMode1, WriteConfig
<1>8. CASE StartDevice
  BY <1>8 DEF StartDevice
<1>9. CASE StartPower \/ StartOverride \/ StartUnbind \/ StartProbe
  BY <1>9 DEF StartPower, StartOverride, StartUnbind, StartProbe, Run
<1>10. CASE StartDefine \/ StartLaunch
  BY <1>10 DEF StartDefine, StartLaunch, Run
<1>11. QED
  BY <1>1, <1>2, <1>3, <1>4, <1>5, <1>6, <1>7, <1>8, <1>9, <1>10 DEF StartStep

LEMMA RestartEnters == RestartStep => Entries
<1> SUFFICES ASSUME RestartStep PROVE Entries
  OBVIOUS
<1> USE IdleEntries DEF Exit, Goto, Loop, Again, Entries, Window, BootLabels, ShutdownLabels, BindingLabels, LaunchingLabels,
        RestoreLabels, RestoreTail, DefinedTail, AppLabels, FabricLabels
<1>1. CASE RestartChecks \/ RestartResumes
  BY <1>1 DEF RestartChecks, RestartResumes, Check, OfThisBoot
<1>2. CASE RestartClaims \/ RestartLaunches
  BY <1>2 DEF RestartClaims, RestartLaunches, Run
<1>3. QED BY <1>1, <1>2 DEF RestartStep

LEMMA ShutdownEnters == ShutdownStep => Entries
<1> SUFFICES ASSUME ShutdownStep PROVE Entries
  OBVIOUS
<1> USE IdleEntries DEF Exit, Goto, Loop, Again, Entries, Window, BootLabels, ShutdownLabels, BindingLabels, LaunchingLabels,
        RestoreLabels, RestoreTail, DefinedTail, AppLabels, FabricLabels
<1>1. CASE StopClaims \/ ShutdownNext
  BY <1>1 DEF StopClaims, ShutdownNext
<1>2. CASE ShutdownAsks \/ ShutdownWaits \/ ShutdownOwners
  BY <1>2 DEF ShutdownAsks, ShutdownWaits, ShutdownOwners, Check, Run
<1>3. CASE Owners
  BY <1>3 DEF Owners, AfterOwners, Check, NoGuestOwners
<1>4. QED BY <1>1, <1>2, <1>3 DEF ShutdownStep

LEMMA RestoreEnters == Typed /\ RestoreStep => Entries
<1> SUFFICES ASSUME Typed, RestoreStep PROVE Entries
  OBVIOUS
<1>0. LoopsTyped
  BY DEF Typed, LocalTyped
<1> USE IdleEntries DEF Exit, Goto, Loop, Again, Entries, Window, BootLabels, ShutdownLabels, BindingLabels, LaunchingLabels,
        RestoreLabels, RestoreTail, DefinedTail, AppLabels, FabricLabels
<1>1. CASE Restore
  BY <1>1 DEF Restore
<1>2. CASE RestoreQuiesce
  <2>1. CASE pc' = "restore.stopfm"
    <3>1. \A g \in Gpus : driver[g] = "nvidia" => ~apps
      BY <1>2, <2>1 DEF RestoreQuiesce, Check, NoGpuApps
    <3>2. pc = "restore.quiesce"
      BY <1>2 DEF RestoreQuiesce, Check
    <3>3. QED BY <2>1, <3>1, <3>2
  <2>2. QED BY <1>2, <2>1 DEF RestoreQuiesce, Check
<1>3. CASE RestoreStopsFm
  BY <1>3 DEF RestoreStopsFm, Run
<1>4. CASE RestoreDevice
  <2>1. pc = "restore.device" /\ todo \subseteq Gpus
    BY <1>0, <1>4 DEF RestoreDevice, LoopsTyped, Fit, GpuLoops
  <2>2. \/ pc' \in {"restore.override", "restore.config"}
        \/ pc' = "restore.unbind" /\ \E g \in Gpus : driver[g] = "vfio-pci"
    BY <1>4, <2>1 DEF RestoreDevice
  <2>3. QED BY <2>1, <2>2
<1>5. CASE RestoreUnbind \/ RestoreOverride \/ RestoreProbe \/ RestorePower \/ RestoreBound
  BY <1>5 DEF RestoreUnbind, RestoreOverride, RestoreProbe, RestorePower, RestoreBound, Run, Check
<1>6. CASE RestoreConfig
  BY <1>6 DEF RestoreConfig, WriteConfig
<1>7. CASE RestoreDefine
  BY <1>7 DEF RestoreDefine, Run
<1>8. CASE RestoreUnits
  BY <1>8 DEF RestoreUnits, Run
<1>9. CASE RestoreIdentities \/ RestoreGuests
  BY <1>9 DEF RestoreIdentities, RestoreGuests, Check, Run
<1>10. CASE RestoreDone
  BY <1>10 DEF RestoreDone
<1>11. QED
  BY <1>1, <1>2, <1>3, <1>4, <1>5, <1>6, <1>7, <1>8, <1>9, <1>10 DEF RestoreStep

LEMMA ManagerEnters == Typed /\ ManagerStep => Entries
BY StartEnters, RestartEnters, ShutdownEnters, RestoreEnters DEF ManagerStep

--------------------------------------------------------------------------------
(* The manifest is never from a later boot. *)

(* Boots and processes are numbers. *)
LEMMA Numbers ==
    Typed => saved.bootId \in Nat /\ boot \in Nat /\ lost \in Nat /\ \A o \in inflight : o.pid \in Nat
<1> SUFFICES ASSUME Typed
             PROVE  saved.bootId \in Nat /\ boot \in Nat /\ lost \in Nat /\ \A o \in inflight : o.pid \in Nat
  OBVIOUS
<1>0. MaxBoot \in Nat /\ MaxUncertain \in Nat
  BY HostAssumption DEF HostAssumption
<1>1. boot \in 0..MaxBoot /\ inflight \subseteq Operations
  BY DEF Typed, FilesTyped, HostTypeOK
<1>2. saved.bootId \in 0..MaxBoot /\ lost \in 0..MaxUncertain
  BY DEF Typed, FilesTyped, FilesTypeOK
<1>3. \A o \in Operations : o.pid \in 1..MaxUncertain
  BY DEF Operations, Operation
<1>4. QED BY <1>0, <1>1, <1>2, <1>3

LEMMA ActsKeep ==
    ASSUME NEW c, NEW x, Acts(c, x)
    PROVE  Tried(c, x) /\ saved' = saved /\ boot' = boot /\ apps' = apps /\ cfgMode' = cfgMode
BY DEF Acts, Tried, Succeed, Fail, Lose, hostVars, files

LEMMA CheckpointKeeps ==
    ASSUME saved \in SavedType, NEW phase, NEW guest, Checkpoint(phase, guest)
    PROVE  /\ saved'.phase = phase /\ saved'.bootId = boot
           /\ UNCHANGED <<hostVars, marker, lost>>
BY DEF Checkpoint, SavedType

(* The manager keeps the manifest or writes it in this boot. *)
LEMMA ManifestKept ==
    ActStep => boot' = boot /\ (saved' = saved \/ \E phase \in Phases, guest \in Vms \union {Nil} :
                                                     Written(phase) /\ Checkpoint(phase, guest))
<1> SUFFICES ASSUME ActStep
             PROVE  boot' = boot /\ (saved' = saved \/ \E phase \in Phases, guest \in Vms \union {Nil} :
                                                          Written(phase) /\ Checkpoint(phase, guest))
  OBVIOUS
<1>1. CASE Quiet
  BY <1>1 DEF Quiet, hostVars, files
<1>2. ASSUME NEW c, NEW x, Acts(c, x) PROVE boot' = boot /\ saved' = saved
  BY <1>2, ActsKeep
<1>3. ASSUME NEW phase \in Phases, NEW guest \in Vms \union {Nil}, Written(phase), Checkpoint(phase, guest)
      PROVE  boot' = boot
  BY <1>3 DEF Checkpoint, hostVars
<1>4. CASE ConfigStep
  BY <1>4 DEF ConfigStep, files
<1>5. QED BY <1>1, <1>2, <1>3, <1>4 DEF ActStep

LEMMA BootIdle == pc' = "idle" => ~(pc' \in BootLabels)
BY DEF BootLabels, ShutdownLabels, LaunchingLabels

LEMMA ManagerBoot == Typed /\ BootKnown /\ ManagerStep => BootKnown'
<1> SUFFICES ASSUME Typed, BootKnown, ManagerStep PROVE BootKnown'
  OBVIOUS
<1>0. saved \in SavedType /\ boot \in Nat /\ ActStep /\ Entries
  BY ManagerActs, ManagerEnters, Numbers DEF Typed, FilesTyped, FilesTypeOK, SavedType
<1>1. ASSUME NEW phase, NEW guest, Checkpoint(phase, guest) PROVE BootKnown'
  BY <1>0, <1>1, CheckpointKeeps DEF BootKnown, OfThisBoot, hostVars
<1>2. CASE saved' = saved /\ boot' = boot /\ ~\E phase, guest : Checkpoint(phase, guest)
  BY <1>0, <1>2 DEF Entries, BootKnown, OfThisBoot
<1>3. QED BY <1>0, <1>1, <1>2, ManifestKept

LEMMA OthersBoot == Typed /\ BootKnown /\ (Invoke \/ HostStep \/ Accidents \/ FaultsStop \/ UNCHANGED vars) => BootKnown'
<1> SUFFICES ASSUME Typed, BootKnown, Invoke \/ HostStep \/ Accidents \/ FaultsStop \/ UNCHANGED vars PROVE BootKnown'
  OBVIOUS
<1>0. saved.bootId \in Nat /\ boot \in Nat
  BY Numbers
<1>1. CASE HostReboots
  <2>1. saved' = saved /\ boot' = boot + 1 /\ pc' = "idle"
    BY <1>1 DEF HostReboots, Reboot, files, Exit
  <2>2. QED BY <1>0, <2>1, BootIdle DEF BootKnown
<1>2. CASE Prepare
  <2>1. saved'.bootId = boot /\ boot' = boot
    BY <1>2 DEF Prepare, hostVars
  <2>2. QED BY <1>0, <2>1 DEF BootKnown, OfThisBoot
<1>3. CASE ~HostReboots /\ ~Prepare
  <2>1. saved' = saved /\ boot' = boot
    BY <1>3 DEF Invoke, Start, Restart, Stop, HostStep, LandLate, DropLate, GuestPowersOff, UnitComesUp, UnitGoesDown,
                AppExits, Accidents, Abandon, ReadTimesOut, AppStarts, BeginHostShutdown, FaultsStop, files, hostVars, vars
  <2>2. pc' = pc \/ pc' \in {"idle", "start", "restart", "stop"}
    BY <1>3 DEF Invoke, Start, Restart, Stop, HostStep,
                Accidents, Abandon, ReadTimesOut, AppStarts, FaultsStop, local, vars, Exit
  <2>3. QED BY <2>1, <2>2 DEF BootKnown, OfThisBoot, BootLabels, ShutdownLabels, LaunchingLabels
<1>4. QED BY <1>1, <1>2, <1>3

--------------------------------------------------------------------------------
(* No recorded process is at work in the window. *)

LEMMA IdleRecorded == pc' = "idle" => pc' \notin Window
BY DEF Window, BindingLabels, RestoreLabels, RestoreTail

LEMMA PidsKnown == Typed /\ ActStep /\ (\A o \in inflight : o.pid <= lost) => (\A o \in inflight : o.pid <= lost)'
<1> SUFFICES ASSUME Typed, ActStep, \A o \in inflight : o.pid <= lost, NEW o \in inflight' PROVE o.pid <= lost'
  OBVIOUS
<1>0. lost \in Nat /\ \A q \in inflight : q.pid \in Nat
  BY Numbers
<1>1. CASE inflight' = inflight /\ lost' = lost
  BY <1>1
<1>2. ASSUME NEW c, NEW x, Lose(c, x) PROVE o.pid <= lost'
  <2>1. lost' = lost + 1 /\ (o \in inflight \/ o.pid = lost + 1)
    BY <1>2 DEF Lose
  <2>2. QED BY <1>0, <2>1
<1>3. QED BY <1>1, <1>2 DEF ActStep, Quiet, Acts, Succeed, Fail, Checkpoint, ConfigStep, hostVars, files

LEMMA ManagerRecorded == Typed /\ Recorded /\ ManagerStep => Recorded'
<1> SUFFICES ASSUME Typed, Recorded, ManagerStep PROVE Recorded'
  OBVIOUS
<1>0. ActStep /\ Entries
  BY ManagerActs, ManagerEnters
<1>1. (\A o \in inflight : o.pid <= lost)'
  BY <1>0, PidsKnown DEF Recorded
<1>2. ASSUME pc' \in Window PROVE NoRecordedProcess'
  <2>1. NoRecordedProcess
    BY <1>0, <1>2 DEF Entries, Recorded, NoUncertainProcess, NoRecordedProcess
  <2>2. inflight' = inflight /\ marker' = marker
    BY <1>0, <1>2, IdleRecorded, GoingOn
  <2>3. QED BY <2>1, <2>2 DEF NoRecordedProcess
<1>3. QED BY <1>1, <1>2 DEF Recorded

LEMMA OthersRecorded ==
    Typed /\ Recorded /\ (Invoke \/ HostStep \/ Accidents \/ FaultsStop \/ UNCHANGED vars) => Recorded'
<1> SUFFICES ASSUME Typed, Recorded, Invoke \/ HostStep \/ Accidents \/ FaultsStop \/ UNCHANGED vars PROVE Recorded'
  OBVIOUS
<1>0. lost \in Nat /\ \A q \in inflight : q.pid \in Nat
  BY Numbers
<1>1. CASE ReadTimesOut
  <2>1. /\ lost' = lost + 1 /\ marker' = lost + 1 /\ (pc' = pc \/ pc' = "idle")
        /\ \A o \in inflight' : o \in inflight \/ (o.pid = lost + 1 /\ o.cmd = ReadCommand)
    BY <1>1 DEF ReadTimesOut, Record, local, Exit
  <2>2. ASSUME NEW o \in inflight' PROVE o.pid <= lost' /\ (o.pid = marker' => o.cmd = ReadCommand)
    <3>1. CASE o \in inflight
      <4>1. o.pid <= lost /\ o.pid \in Nat
        BY <1>0, <3>1 DEF Recorded
      <4>2. QED BY <1>0, <2>1, <4>1
    <3>2. QED BY <1>0, <2>1, <2>2, <3>1
  <2>3. QED BY <2>2 DEF Recorded, NoRecordedProcess
<1>2. CASE ~ReadTimesOut
  <2>1. marker' = marker /\ lost' = lost /\ inflight' \subseteq inflight
    BY <1>2 DEF Invoke, Prepare, Start, Restart, Stop, HostStep, LandLate, DropLate, GuestPowersOff, UnitComesUp, UnitGoesDown,
                AppExits, Accidents, Abandon, AppStarts, BeginHostShutdown, HostReboots, Reboot, FaultsStop, files, hostVars, vars
  <2>2. pc' = pc \/ pc' \in {"idle", "start", "restart", "stop"}
    BY <1>2 DEF Invoke, Prepare, Start, Restart, Stop, HostStep,
                Accidents, Abandon, AppStarts, HostReboots, FaultsStop, local, vars, Exit
  <2>3. pc' \in Window => pc \in Window
    BY <2>2 DEF Window, BindingLabels, RestoreLabels, RestoreTail
  <2>4. QED BY <2>1, <2>3 DEF Recorded, NoRecordedProcess
<1>3. QED BY <1>1, <1>2

--------------------------------------------------------------------------------
(* No operation on a guest outlives the restore of the baseline. *)

(* From where each phase is written. *)
LEMMA PhaseBefore ==
    ASSUME OInv, NEW phase, Written(phase)
    PROVE  \/ phase \in {"stopping", "normalizing-new-boot"}
           \/ phase = "starting" /\ saved.phase \in {"prepared", "stopped"}
           \/ phase = "binding-gpus" /\ saved.phase = "starting" /\ pc = "start.binding"
           \/ phase = "starting-guests" /\ saved.phase = "binding-gpus" /\ pc = "start.launching"
           \/ phase = "running" /\ saved.phase \in {"starting-guests", "restarting"} /\ pc = "commit"
           \/ phase = "restarting" /\ saved.phase = "running" /\ pc = "restart.claim"
           \/ phase = "stopped" /\ pc = "restore.done"
BY DEF OInv, IInv, PhaseKnown, ClaimPhase, ClaimLabels, Written, BindingLabels, LaunchingLabels

(* An operation that is new in flight was issued in this step, and ended it. *)
LEMMA NewlyLost ==
    ASSUME ActStep, NEW o \in inflight', o \notin inflight
    PROVE  Issued(o.cmd) /\ Fits(o.cmd, o.on) /\ Lose(o.cmd, o.on) /\ saved' = saved /\ pc' = "idle"
<1>1. ~(Quiet \/ ConfigStep \/ \E phase, guest : Checkpoint(phase, guest))
  BY DEF Quiet, ConfigStep, Checkpoint, hostVars
<1>2. PICK c, x : Acts(c, x)
  BY <1>1 DEF ActStep
<1>3. Lose(c, x) /\ o.cmd = c /\ o.on = x /\ saved' = saved
  BY <1>2, ActsKeep, TriedInflight
<1>4. ~Succeed(c, x) /\ ~Fail(c, x)
  BY DEF Succeed, Fail, hostVars
<1>5. QED BY <1>2, <1>3, <1>4 DEF Acts

(* The phases under which the manager works on guests. *)
LEMMA GuestCommandPhase ==
    ASSUME OInv, NEW c \in VmCommands, Issued(c)
    PROVE  /\ saved.phase \notin {"none", "prepared", "stopped"}
           /\ c = "define-cpu" => saved.phase \in {"stopping", "normalizing-new-boot"}
BY DEF OInv, IInv, PhaseKnown, Issued, VmCommands, ShutdownLabels, LaunchingLabels, RestoreLabels, RestoreTail

LEMMA GuestOperations == Typed => \A o \in inflight : o.cmd \in VmCommands => o.on \in Vms
<1> SUFFICES ASSUME Typed, NEW o \in inflight, o.cmd \in VmCommands PROVE o.on \in Vms
  OBVIOUS
<1>1. o \in Operations
  BY DEF Typed, FilesTyped, HostTypeOK
<1>2. QED BY <1>1 DEF Operations, Operation, VmCommands, GpuCommands, UnitCommands, ReadCommand

LEMMA IdleResolved == pc' = "idle" => pc' \notin DefinedTail \union {"restore.define"}
BY DEF DefinedTail

LEMMA ManagerResolved == OInv /\ Resolved /\ ManagerStep => Resolved'
<1> SUFFICES ASSUME OInv, Resolved, ManagerStep PROVE Resolved'
  OBVIOUS
<1>0. Typed /\ ActStep /\ Entries /\ saved \in SavedType
  BY ManagerActs, ManagerEnters DEF OInv, IInv, Typed, FilesTyped, FilesTypeOK, SavedType
<1>1. ASSUME saved'.phase \in {"none", "prepared", "stopped"}, NEW v \in Vms PROVE VmSettled(v)'
  <2>1. VmSettled(v)
    <3>1. CASE saved' = saved
      BY <1>1, <3>1 DEF Resolved
    <3>2. ASSUME NEW phase, NEW guest, Written(phase), Checkpoint(phase, guest) PROVE VmSettled(v)
      <4>1. phase = "stopped" /\ pc = "restore.done"
        BY <1>0, <1>1, <3>2, CheckpointKeeps, PhaseBefore
      <4>2. QED BY <4>1 DEF Resolved, DefinedTail
    <3>3. QED BY <1>0, <3>1, <3>2, ManifestKept
  <2>2. ASSUME NEW o \in inflight', o.cmd \in VmCommands, o \notin inflight PROVE FALSE
    BY <1>0, <1>1, <2>2, NewlyLost, GuestCommandPhase
  <2>3. QED BY <2>1, <2>2 DEF VmSettled
<1>2. ASSUME pc' = "restore.define", NEW v \in Vms \ todo' PROVE VmSettled(v)'
  <2>1. PICK w \in todo : pc = "restore.define" /\ Succeed("define-cpu", w) /\ todo' = todo \ {w}
    BY <1>0, <1>2 DEF Entries
  <2>2. VmSettled(v)
    BY <1>2, <2>1 DEF Resolved, Succeed, Settled, VmSettled
  <2>3. QED BY <1>0, <1>2, <2>2, GoingOn DEF VmSettled
<1>3. ASSUME pc' \in DefinedTail, NEW v \in Vms PROVE VmSettled(v)'
  <2>1. VmSettled(v)
    BY <1>0, <1>3 DEF Entries, Resolved
  <2>2. QED BY <1>0, <1>3, <2>1, IdleResolved, GoingOn DEF VmSettled
<1>4. ASSUME NEW o \in inflight', o.cmd = "define-cpu"
      PROVE  saved'.phase \in {"stopping", "normalizing-new-boot"}
  <2>1. CASE o \notin inflight
    BY <1>0, <1>4, <2>1, NewlyLost, GuestCommandPhase DEF VmCommands
  <2>2. CASE o \in inflight
    <3>1. saved.phase \in {"stopping", "normalizing-new-boot"} /\ o.on \in Vms /\ ~VmSettled(o.on)
      BY <1>0, <1>4, <2>2, GuestOperations DEF Resolved, VmCommands, VmSettled
    <3>2. ASSUME NEW phase, NEW guest, Written(phase), Checkpoint(phase, guest)
          PROVE  saved'.phase \in {"stopping", "normalizing-new-boot"}
      <4>1. pc # "restore.done"
        BY <3>1 DEF Resolved, DefinedTail
      <4>2. phase \in {"stopping", "normalizing-new-boot"}
        BY <3>1, <3>2, <4>1, PhaseBefore
      <4>3. QED BY <1>0, <3>2, <4>2, CheckpointKeeps
    <3>3. QED BY <1>0, <3>1, <3>2, ManifestKept
  <2>3. QED BY <2>1, <2>2
<1>5. QED BY <1>1, <1>2, <1>3, <1>4 DEF Resolved

(* What the host and accidents do to operations on guests. *)
LEMMA OthersGuestOperations ==
    HostStep \/ Accidents \/ Invoke \/ FaultsStop \/ UNCHANGED vars =>
        \A o \in inflight' : o.cmd # ReadCommand => o \in inflight
<1> SUFFICES ASSUME HostStep \/ Accidents \/ Invoke \/ FaultsStop \/ UNCHANGED vars,
                    NEW o \in inflight', o.cmd # ReadCommand
             PROVE  o \in inflight
  OBVIOUS
<1>1. CASE HostStep
  BY <1>1 DEF HostStep, LandLate, DropLate, GuestPowersOff, UnitComesUp, UnitGoesDown, AppExits
<1>2. CASE Accidents
  <2>1. CASE ReadTimesOut
    <3>1. \/ inflight' = inflight
          \/ inflight' = inflight \union
                {[pid |-> lost + 1, cmd |-> ReadCommand, on |-> Nil, alive |-> TRUE, marked |-> TRUE]}
      BY <2>1 DEF ReadTimesOut
    <3>2. QED BY <3>1
  <2>2. CASE HostReboots
    BY <2>2 DEF HostReboots, Reboot
  <2>3. CASE Abandon \/ AppStarts \/ BeginHostShutdown
    BY <2>3 DEF Abandon, AppStarts, BeginHostShutdown, hostVars
  <2>4. QED BY <1>2, <2>1, <2>2, <2>3 DEF Accidents
<1>3. CASE Invoke \/ FaultsStop \/ UNCHANGED vars
  BY <1>3 DEF Invoke, Prepare, Start, Restart, Stop, FaultsStop, hostVars, vars
<1>4. QED BY <1>1, <1>2, <1>3

LEMMA OthersLocal ==
    HostStep \/ Accidents \/ Invoke \/ FaultsStop \/ UNCHANGED vars =>
        \/ pc' = pc /\ todo' = todo /\ cur' = cur
        \/ pc' \in {"idle", "start", "restart", "stop"}
BY DEF Invoke, Prepare, Start, Restart, Stop, HostStep,
       Accidents, Abandon, ReadTimesOut, AppStarts, HostReboots, FaultsStop, local, vars, Exit

LEMMA OthersPhase ==
    HostStep \/ Accidents \/ Invoke \/ FaultsStop \/ UNCHANGED vars =>
        saved' = saved \/ (Prepare /\ saved.phase = "none" /\ saved'.phase = "prepared")
<1> SUFFICES ASSUME HostStep \/ Accidents \/ Invoke \/ FaultsStop \/ UNCHANGED vars
             PROVE  saved' = saved \/ (Prepare /\ saved.phase = "none" /\ saved'.phase = "prepared")
  OBVIOUS
<1>1. CASE Prepare
  BY <1>1 DEF Prepare
<1>2. CASE ~Prepare
  BY <1>2 DEF Invoke, Start, Restart, Stop, HostStep,
              Accidents, Abandon, ReadTimesOut, AppStarts, HostReboots, FaultsStop, files, vars
<1>3. QED BY <1>1, <1>2

LEMMA OthersResolved ==
    Typed /\ Resolved /\ (HostStep \/ Accidents \/ Invoke \/ FaultsStop \/ UNCHANGED vars) => Resolved'
<1> SUFFICES ASSUME Typed, Resolved, HostStep \/ Accidents \/ Invoke \/ FaultsStop \/ UNCHANGED vars PROVE Resolved'
  OBVIOUS
<1>1. \A v : VmSettled(v) => VmSettled(v)'
  BY OthersGuestOperations DEF VmSettled, VmCommands, ReadCommand
<1>2. \/ saved'.phase = saved.phase
      \/ saved.phase = "none" /\ saved'.phase = "prepared"
  BY OthersPhase
<1>3. \A o \in inflight' : o.cmd = "define-cpu" => saved'.phase \in {"stopping", "normalizing-new-boot"}
  BY <1>2, OthersGuestOperations, GuestOperations DEF Resolved, ReadCommand, VmSettled, VmCommands
<1>4. \/ pc' = pc /\ todo' = todo
      \/ pc' \notin DefinedTail \union {"restore.define"}
  BY OthersLocal DEF DefinedTail
<1>5. QED BY <1>1, <1>2, <1>3, <1>4 DEF Resolved

--------------------------------------------------------------------------------
(* Applications keep the GPUs they use. *)

AllNvidia == \A g \in Gpus : driver[g] = "nvidia"

LEMMA EffectKeepsNvidia ==
    ASSUME HostTypeOK, AllNvidia, NEW c, NEW x, Fits(c, x), Effect(c, x), c # "unbind"
    PROVE  AllNvidia'
<1>1. CASE c = "probe"
  <2>1. driver' = [driver EXCEPT ![x] = Probed(x)] /\ x \in Gpus
    BY <1>1 DEF Effect, GpuEffect, Fits, GpuCommands, VmCommands, UnitCommands
  <2>2. Probed(x) = "nvidia"
    BY <2>1 DEF AllNvidia, Probed
  <2>3. QED BY <2>1, <2>2 DEF AllNvidia, HostTypeOK
<1>2. CASE c # "probe"
  <2>1. driver' = driver
    BY <1>2 DEF Effect, GpuEffect, GpuCommands, pciVars
  <2>2. QED BY <2>1 DEF AllNvidia
<1>3. QED BY <1>1, <1>2

LEMMA ActKeepsNvidia ==
    ASSUME HostTypeOK, AllNvidia, ActStep, pc \notin {"start.unbind", "restore.unbind"}
    PROVE  AllNvidia'
<1>1. ASSUME NEW c, NEW x, Acts(c, x) PROVE AllNvidia'
  <2>1. Fits(c, x) /\ c # "unbind"
    BY <1>1 DEF Acts, Issued
  <2>2. CASE Succeed(c, x)
    BY <2>1, <2>2, EffectKeepsNvidia DEF Succeed
  <2>3. CASE Fail(c, x) \/ Lose(c, x)
    BY <2>3 DEF Fail, Lose, hostVars, pciVars, AllNvidia
  <2>4. QED BY <1>1, <2>2, <2>3 DEF Acts
<1>2. CASE Quiet \/ ConfigStep \/ \E phase, guest : Checkpoint(phase, guest)
  BY <1>2 DEF Quiet, ConfigStep, Checkpoint, hostVars, pciVars, AllNvidia
<1>3. QED BY <1>1, <1>2 DEF ActStep

LEMMA ActKeepsApps == ActStep => apps' = apps
<1> SUFFICES ASSUME ActStep PROVE apps' = apps
  OBVIOUS
<1>1. ASSUME NEW c, NEW x, Acts(c, x) PROVE apps' = apps
  BY <1>1, ActsKeep
<1>2. CASE Quiet \/ ConfigStep \/ \E phase, guest : Checkpoint(phase, guest)
  BY <1>2 DEF Quiet, ConfigStep, Checkpoint, hostVars
<1>3. QED BY <1>1, <1>2 DEF ActStep

LEMMA ManagerApps == OInv /\ AppsOnHost /\ ManagerStep => AppsOnHost'
<1> SUFFICES ASSUME OInv, AppsOnHost, ManagerStep, apps' PROVE AppsOnHost'
  BY DEF AppsOnHost
<1>0. HostTypeOK /\ ActStep /\ Entries
  BY ManagerActs, ManagerEnters DEF OInv, IInv, Typed, FilesTyped
<1>1. apps /\ AllNvidia /\ pc \notin AppLabels
  BY <1>0, ActKeepsApps DEF AppsOnHost, AllNvidia
<1>2. pc \notin {"start.unbind", "restore.unbind"}
  BY <1>1 DEF AppLabels, BindingLabels
<1>3. AllNvidia'
  BY <1>0, <1>1, <1>2, ActKeepsNvidia
<1>4. pc' \notin AppLabels
  BY <1>0, <1>1 DEF Entries, AllNvidia, AppsOnHost
<1>5. \A o \in inflight' : o.cmd # "unbind"
  BY <1>0, <1>1, <1>2, NewlyLost DEF AppsOnHost, Issued
<1>6. QED BY <1>1, <1>3, <1>4, <1>5 DEF AppsOnHost, AllNvidia

LEMMA OthersApps ==
    OInv /\ AppsOnHost /\ (HostStep \/ Accidents \/ Invoke \/ FaultsStop \/ UNCHANGED vars) => AppsOnHost'
<1> SUFFICES ASSUME OInv, AppsOnHost, apps', HostStep \/ Accidents \/ Invoke \/ FaultsStop \/ UNCHANGED vars
             PROVE  AppsOnHost'
  BY DEF AppsOnHost
<1>0. HostTypeOK
  BY DEF OInv, IInv, Typed, FilesTyped
<1>1. CASE AppStarts
  <2>1. /\ saved.phase \in {"none", "prepared", "stopped"} /\ \E g \in Gpus : driver[g] = "nvidia"
        /\ UNCHANGED <<driver, inflight, pc>>
    BY <1>1 DEF AppStarts, pciVars, local
  <2>2. AllNvidia
    BY <2>1 DEF OInv, HostOwns, HostPhases, HostOwned, Back, AllNvidia
  <2>3. \A o \in inflight : o.cmd # "unbind"
    BY <2>1 DEF OInv, IInv, LateWritesAreAnnounced, Rebinding, GpuCommands
  <2>4. pc \notin AppLabels
    BY <2>1 DEF OInv, IInv, PhaseKnown, ClaimPhase, ClaimLabels, AppLabels, RestoreLabels, BindingLabels
  <2>5. QED BY <2>1, <2>2, <2>3, <2>4 DEF AppsOnHost, AllNvidia
<1>2. CASE ~AppStarts
  <2>1. apps /\ ~HostReboots
    BY <1>2 DEF Invoke, Prepare, Start, Restart, Stop, HostStep, LandLate, DropLate, GuestPowersOff, UnitComesUp, UnitGoesDown,
                AppExits, Accidents, Abandon, ReadTimesOut, BeginHostShutdown, HostReboots, Reboot, FaultsStop, hostVars, vars
  <2>2. AllNvidia /\ Gpus # {} /\ pc \notin AppLabels /\ \A o \in inflight : o.cmd # "unbind"
    BY <2>1 DEF AppsOnHost, AllNvidia
  <2>3. AllNvidia'
    <3>1. ASSUME NEW o \in inflight, LandLate(o) PROVE AllNvidia'
      <4>1. Effect(o.cmd, o.on) /\ o.cmd # "unbind"
        BY <2>2, <3>1 DEF LandLate
      <4>2. Fits(o.cmd, o.on)
        BY <1>0, <4>1 DEF Effect, HostTypeOK, Operations, Operation, Fits, GpuCommands, VmCommands, UnitCommands, ReadCommand
      <4>3. QED BY <1>0, <2>2, <4>1, <4>2, EffectKeepsNvidia
    <3>2. CASE ~\E o \in inflight : LandLate(o)
      <4>1. driver' = driver
        BY <2>1, <3>2
           DEF Invoke, Prepare, Start, Restart, Stop, HostStep, DropLate, GuestPowersOff, UnitComesUp, UnitGoesDown,
               AppExits, Accidents, Abandon, ReadTimesOut, AppStarts, BeginHostShutdown, FaultsStop, hostVars, vars, pciVars
      <4>2. QED BY <2>2, <4>1 DEF AllNvidia
    <3>3. QED BY <3>1, <3>2
  <2>4. \A o \in inflight' : o.cmd # "unbind"
    BY <2>2, OthersGuestOperations DEF ReadCommand
  <2>5. pc' \notin AppLabels
    BY <2>2, OthersLocal DEF AppLabels, BindingLabels
  <2>6. QED BY <2>2, <2>3, <2>4, <2>5 DEF AppsOnHost, AllNvidia
<1>3. QED BY <1>1, <1>2

--------------------------------------------------------------------------------
(* The fabric is quiet under the guests. *)

(* An effect other than a start of Fabric Manager leaves it down. *)
LEMMA EffectKeepsFabric ==
    ASSUME HostTypeOK, NEW c, NEW x, Effect(c, x), ~(c = "start-unit" /\ x = FM), FM \notin up \union booting
    PROVE  FM \notin up' \union booting' /\ routes' = routes
<1>1. CASE c = "start-unit"
  BY <1>1 DEF Effect, UnitEffect, Fabric, GpuCommands, VmCommands
<1>2. CASE c = "stop-unit"
  BY <1>2 DEF Effect, UnitEffect, GpuCommands, VmCommands
<1>3. CASE c \notin UnitCommands
  BY <1>3 DEF Effect, unitVars
<1>4. QED BY <1>1, <1>2, <1>3 DEF UnitCommands

KeepsFabric == FmOff => FmOff' /\ routes' = routes

LEMMA ActKeepsFabric ==
    ASSUME HostTypeOK, ActStep, pc \notin {"start.startfm", "restore.units"}
    PROVE  KeepsFabric
<1>1. ASSUME NEW c, NEW x, Acts(c, x) PROVE KeepsFabric
  <2>1. c # "start-unit" /\ Tried(c, x)
    BY <1>1, ActsKeep DEF Acts, Issued
  <2>2. ~InFlight("start-unit", FM) => ~InFlight("start-unit", FM)'
    BY <2>1, TriedInflight DEF InFlight
  <2>3. CASE Succeed(c, x)
    BY <2>1, <2>2, <2>3, EffectKeepsFabric DEF Succeed, KeepsFabric, FmOff
  <2>4. CASE Fail(c, x) \/ Lose(c, x)
    BY <2>2, <2>4 DEF Fail, Lose, hostVars, unitVars, KeepsFabric, FmOff
  <2>5. QED BY <2>1, <2>3, <2>4 DEF Tried
<1>2. CASE Quiet \/ ConfigStep \/ \E phase, guest : Checkpoint(phase, guest)
  BY <1>2 DEF Quiet, ConfigStep, Checkpoint, hostVars, unitVars, KeepsFabric, FmOff, InFlight
<1>3. QED BY <1>1, <1>2 DEF ActStep

(* A guest gets its devices from start() and restart() only. *)
LEMMA ActExposes ==
    ASSUME OInv, BootKnown, ActStep, NEW v \in Vms, Exposed(v)'
    PROVE  Exposed(v) \/ Handed
<1>0. HostTypeOK
  BY DEF OInv, IInv, Typed, FilesTyped
<1>1. ASSUME NEW c, NEW x, Acts(c, x) PROVE Exposed(v) \/ Handed
  <2>0. Tried(c, x) /\ Fits(c, x) /\ Issued(c)
    BY <1>1, ActsKeep DEF Acts
  <2>1. CASE pc \in {"start.define", "start.launch", "restart.launch"}
    BY <2>1 DEF OInv, IInv, PhaseKnown, BootKnown, BootLabels, LaunchingLabels, Handed
  <2>2. CASE c = "start" /\ pc = "restore.guests"
    <3>1. WithoutDevices
      BY <2>2 DEF OInv, Restored, DefinedTail
    <3>2. KeepsGuests
      BY <1>0, <2>0, <2>2, TriedKeepsGuests
    <3>3. Defined(v)' /\ dom'[v] # "gpu"
      BY <3>1, <3>2 DEF WithoutDevices, KeepsGuests
    <3>4. QED BY <3>3 DEF Exposed
  <2>3. CASE c \notin {"start", "define-gpu"}
    <3>1. Starting(v)' => Starting(v)
      BY <2>0, <2>3, TriedInflight DEF Starting, InFlight
    <3>2. Defined(v) => Defined(v)'
      BY <1>0, <2>0, <2>3, TriedKeepsGuests DEF KeepsGuests
    <3>3. dom' = dom
      BY <2>0, <2>3 DEF Tried, Succeed, Fail, Lose, Effect, VmEffect, hostVars, domVars
    <3>4. QED BY <3>1, <3>2, <3>3 DEF Exposed
  <2>4. QED BY <2>0, <2>1, <2>2, <2>3 DEF Issued
<1>2. CASE Quiet \/ ConfigStep \/ \E phase, guest : Checkpoint(phase, guest)
  BY <1>2 DEF Quiet, ConfigStep, Checkpoint, hostVars, domVars, Exposed, Starting, Defined, InFlight
<1>3. QED BY <1>1, <1>2 DEF ActStep

LEMMA ActHands ==
    ASSUME OInv, BootKnown, ActStep, Handed'
    PROVE  Handed \/ pc = "start.launching"
<1>0. saved \in SavedType
  BY DEF OInv, IInv, Typed, FilesTyped, FilesTypeOK, SavedType
<1>1. CASE saved' = saved
  BY <1>1, ManifestKept DEF Handed, OfThisBoot
<1>2. ASSUME NEW phase, NEW guest, Written(phase), Checkpoint(phase, guest) PROVE Handed \/ pc = "start.launching"
  <2>1. phase \in {"starting-guests", "running", "restarting"}
    BY <1>0, <1>2, CheckpointKeeps DEF Handed
  <2>2. pc \in {"commit", "restart.claim"} => OfThisBoot
    BY DEF BootKnown, BootLabels, LaunchingLabels
  <2>3. QED BY <1>2, <2>1, <2>2, PhaseBefore DEF Handed
<1>3. QED BY <1>1, <1>2, ManifestKept

LEMMA ManagerFabric == OInv /\ BootKnown /\ FabricKnown /\ ManagerStep => FabricKnown'
<1> SUFFICES ASSUME OInv, BootKnown, FabricKnown, ManagerStep PROVE FabricKnown'
  OBVIOUS
<1>0. HostTypeOK /\ ActStep /\ Entries
  BY ManagerActs, ManagerEnters DEF OInv, IInv, Typed, FilesTyped
<1>1. FabricOff /\ KeepsFabric => FabricOff'
  BY DEF FabricOff, KeepsFabric
<1>2. ASSUME Handed' \/ \E v \in Vms : Exposed(v)' PROVE FabricOff'
  <2>1. CASE pc \in {"start.startfm", "restore.units"}
    <3>1. Released(Vms) /\ ~Handed
      BY <2>1 DEF OInv, IInv, GuestsReleased, Window, RestoreLabels, RestoreTail, PhaseKnown, ClaimPhase, ClaimLabels, Handed
    <3>2. ~\E v \in Vms : Exposed(v)
      BY <3>1 DEF Released, Exposed
    <3>3. QED BY <1>0, <1>2, <2>1, <3>1, <3>2, ActExposes, ActHands
  <2>2. CASE pc \notin {"start.startfm", "restore.units"}
    <3>1. Handed \/ pc = "start.launching" \/ \E v \in Vms : Exposed(v)
      BY <1>0, <1>2, ActExposes, ActHands
    <3>2. FabricOff
      BY <3>1 DEF FabricKnown, BindingLabels
    <3>3. QED BY <1>0, <1>1, <2>2, <3>2, ActKeepsFabric
  <2>3. QED BY <2>1, <2>2
<1>3. ASSUME pc' = "start.audit" PROVE FmOff'
  <2>1. Succeed("stop-unit", FM)
    BY <1>0, <1>3 DEF Entries
  <2>2. FM \notin up' \union booting'
    BY <2>1 DEF Succeed, Effect, UnitEffect, GpuCommands, VmCommands
  <2>3. ~InFlight("start-unit", FM)'
    BY <2>1 DEF Succeed, Settled, InFlight
  <2>4. QED BY <2>2, <2>3 DEF FmOff
<1>4. ASSUME pc' \in FabricLabels PROVE FabricOff'
  <2>1. pc \notin {"start.startfm", "restore.units"} /\ FabricOff
    BY <1>0, <1>4 DEF Entries, FabricKnown, FabricLabels, BindingLabels, FabricOff, Audit
  <2>2. QED BY <1>0, <1>1, <2>1, ActKeepsFabric
<1>5. QED BY <1>2, <1>3, <1>4 DEF FabricKnown, FabricLabels

(* No launch is exposed that was not before, and Fabric Manager does not come *)
(* back, whatever the host does by itself.                                    *)
LEMMA HostFabric ==
    ASSUME HostTypeOK, HostStep
    PROVE  KeepsFabric /\ \A v \in Vms : Exposed(v)' => Exposed(v)
<1>1. ASSUME NEW o \in inflight, LandLate(o) PROVE KeepsFabric /\ \A v \in Vms : Exposed(v)' => Exposed(v)
  <2>1. Effect(o.cmd, o.on) /\ inflight' \subseteq inflight
    BY <1>1 DEF LandLate
  <2>2. Fits(o.cmd, o.on)
    BY <2>1 DEF Effect, HostTypeOK, Operations, Operation, Fits, GpuCommands, VmCommands, UnitCommands, ReadCommand
  <2>3. KeepsFabric
    <3>1. FmOff => ~(o.cmd = "start-unit" /\ o.on = FM)
      BY DEF FmOff, InFlight
    <3>2. ~InFlight("start-unit", FM) => ~InFlight("start-unit", FM)'
      BY <2>1 DEF InFlight
    <3>3. QED BY <2>1, <3>1, <3>2, EffectKeepsFabric DEF KeepsFabric, FmOff
  <2>4. ASSUME NEW v \in Vms, ~Exposed(v) PROVE ~Exposed(v)'
    <3>1. KeepsGuests /\ (Starting(v)' => Starting(v))
      BY <1>1, <2>1, LandLateGentle DEF Starting, InFlight
    <3>2. CASE dom'[v] = dom[v]
      BY <2>4, <3>1, <3>2 DEF Exposed, KeepsGuests
    <3>3. CASE dom'[v] # dom[v]
      <4>1. o.cmd = "start"
        BY <2>1, <3>3 DEF Effect, VmEffect, domVars
      <4>2. o.on = v /\ Starting(v)
        <5>1. dom' = [dom EXCEPT ![o.on] = defn[o.on]]
          BY <2>1, <4>1 DEF Effect, VmEffect, GpuCommands, UnitCommands
        <5>2. o.on = v
          BY <3>3, <5>1 DEF HostTypeOK
        <5>3. QED BY <4>1, <5>2 DEF Starting, InFlight
      <4>3. Defined(v) /\ dom[v] # "gpu"
        BY <2>4, <4>2 DEF Exposed
      <4>4. QED BY <3>1, <4>3 DEF KeepsGuests, Exposed
    <3>4. QED BY <3>2, <3>3
  <2>5. QED BY <2>3, <2>4
<1>2. ASSUME NEW o \in inflight, DropLate(o) PROVE KeepsFabric /\ \A v \in Vms : Exposed(v)' => Exposed(v)
  BY <1>2 DEF DropLate, unitVars, domVars, KeepsFabric, FmOff, InFlight, Exposed, Starting, Defined
<1>3. ASSUME NEW w \in Vms, GuestPowersOff(w) PROVE KeepsFabric /\ \A v \in Vms : Exposed(v)' => Exposed(v)
  <2>1. dom' = [dom EXCEPT ![w] = "off"] /\ UNCHANGED <<defn, inflight, unitVars>>
    BY <1>3 DEF GuestPowersOff
  <2>2. \A v \in Vms : dom'[v] = "off" \/ dom'[v] = dom[v]
    BY <2>1 DEF HostTypeOK
  <2>3. QED BY <2>1, <2>2 DEF unitVars, KeepsFabric, FmOff, InFlight, Exposed, Starting, Defined
<1>4. ASSUME NEW u \in Units, UnitComesUp(u) \/ UnitGoesDown(u)
      PROVE  KeepsFabric /\ \A v \in Vms : Exposed(v)' => Exposed(v)
  <2>1. UNCHANGED <<dom, defn, inflight>>
    BY <1>4 DEF UnitComesUp, UnitGoesDown, domVars
  <2>2. KeepsFabric
    BY <1>4, <2>1 DEF UnitComesUp, UnitGoesDown, Fabric, KeepsFabric, FmOff, InFlight
  <2>3. QED BY <2>1, <2>2 DEF Exposed, Starting, Defined, InFlight
<1>5. CASE AppExits
  BY <1>5 DEF AppExits, unitVars, domVars, KeepsFabric, FmOff, InFlight, Exposed, Starting, Defined
<1>6. QED BY <1>1, <1>2, <1>3, <1>4, <1>5 DEF HostStep

LEMMA OthersFabric ==
    OInv /\ BootKnown /\ FabricKnown /\ (HostStep \/ Accidents \/ Invoke \/ FaultsStop \/ UNCHANGED vars) => FabricKnown'
<1> SUFFICES ASSUME OInv, BootKnown, FabricKnown, HostStep \/ Accidents \/ Invoke \/ FaultsStop \/ UNCHANGED vars
             PROVE  FabricKnown'
  OBVIOUS
<1>0. HostTypeOK /\ saved.bootId \in Nat /\ boot \in Nat
  BY Numbers DEF OInv, IInv, Typed, FilesTyped
<1> DEFINE Labels3 == FabricLabels \union {"start.audit"}
<1>1. pc' = pc \/ pc' \notin Labels3
  BY OthersLocal DEF FabricLabels, BindingLabels
<1>2. CASE HostReboots
  <2>1. dom' = [v \in Vms |-> "off"] /\ inflight' = {} /\ boot' = boot + 1 /\ saved' = saved /\ pc' = "idle"
    BY <1>2 DEF HostReboots, Reboot, Exit, files
  <2>2. ~Handed'
    BY <1>0, <2>1 DEF Handed, OfThisBoot, BootKnown
  <2>3. ~\E v \in Vms : Exposed(v)'
    BY <2>1 DEF Exposed, Starting, InFlight
  <2>4. pc' \notin Labels3
    BY <2>1 DEF FabricLabels, BindingLabels
  <2>5. QED BY <2>2, <2>3, <2>4 DEF FabricKnown, FabricLabels
<1>3. ASSUME KeepsFabric, \A v \in Vms : Exposed(v)' => Exposed(v), Handed' => Handed PROVE FabricKnown'
  <2>1. FabricOff => FabricOff'
    BY <1>3 DEF KeepsFabric, FabricOff
  <2>2. QED BY <1>1, <1>3, <2>1 DEF FabricKnown, FabricLabels, KeepsFabric
<1>4. CASE HostStep
  <2>1. saved' = saved /\ boot' = boot
    BY <1>4 DEF HostStep, files, LandLate, DropLate, GuestPowersOff, UnitComesUp, UnitGoesDown, AppExits
  <2>2. QED BY <1>0, <1>3, <1>4, <2>1, HostFabric DEF Handed, OfThisBoot
<1>5. CASE ~HostReboots /\ ~HostStep
  <2>1. /\ UNCHANGED <<dom, defn, up, routes, boot>> /\ booting' \subseteq booting
        /\ saved' = saved \/ saved'.phase = "prepared"
    <3>1. saved' = saved \/ saved'.phase = "prepared"
      BY OthersPhase
    <3>2. CASE Accidents
      BY <1>5, <3>1, <3>2 DEF Accidents, Abandon, ReadTimesOut, AppStarts, BeginHostShutdown, hostVars, domVars, unitVars
    <3>3. CASE Invoke \/ FaultsStop \/ UNCHANGED vars
      <4>1. UNCHANGED hostVars
        BY <3>3 DEF Invoke, Prepare, Start, Restart, Stop, FaultsStop, vars
      <4>2. QED BY <3>1, <4>1 DEF hostVars, domVars, unitVars
    <3>4. QED BY <1>5, <3>2, <3>3
  <2>2. \A o \in inflight' : o.cmd # ReadCommand => o \in inflight
    BY OthersGuestOperations
  <2>3. \A c, x : c # ReadCommand /\ InFlight(c, x)' => InFlight(c, x)
    BY <2>2 DEF InFlight
  <2>4. KeepsFabric
    BY <2>1, <2>3 DEF KeepsFabric, FmOff, ReadCommand
  <2>5. \A v \in Vms : Exposed(v)' => Exposed(v)
    BY <2>1, <2>3 DEF Exposed, Starting, Defined, ReadCommand
  <2>6. QED BY <1>3, <2>1, <2>4, <2>5 DEF Handed, OfThisBoot
<1>6. QED BY <1>2, <1>4, <1>5

--------------------------------------------------------------------------------
(* What the record says of running guests stays true. *)

(* Only GPU commands, define-cpu and a launch of another definition end it. *)
LEMMA EffectSteady ==
    ASSUME HostTypeOK, Steady, NEW c, NEW x, Fits(c, x), Effect(c, x), cfgMode' = cfgMode,
           c \notin GpuCommands, c # "define-cpu"
    PROVE  Steady'
<1>1. driver' = driver
  BY DEF Effect, pciVars
<1>2. \A v \in Vms : defn'[v] = "gpu" /\ dom'[v] # "cpu"
  <2>1. CASE c = "start"
    <3>1. x \in Vms /\ dom' = [dom EXCEPT ![x] = defn[x]] /\ defn' = defn
      BY <2>1 DEF Effect, VmEffect, Fits, GpuCommands, UnitCommands
    <3>2. QED BY <3>1 DEF Steady, HostTypeOK
  <2>2. CASE c = "define-gpu"
    <3>1. x \in Vms /\ defn' = [defn EXCEPT ![x] = "gpu"] /\ dom' = dom
      BY <2>2 DEF Effect, VmEffect, Fits, GpuCommands, UnitCommands
    <3>2. QED BY <3>1 DEF Steady, HostTypeOK
  <2>3. CASE c \notin {"start", "define-gpu"}
    <3>1. dom' = dom /\ defn' = defn
      BY <2>3 DEF Effect, VmEffect, domVars
    <3>2. QED BY <3>1 DEF Steady
  <2>4. QED BY <2>1, <2>2, <2>3
<1>3. QED BY <1>1, <1>2 DEF Steady

LEMMA SameSteady == UNCHANGED <<pciVars, domVars, cfgMode>> /\ Steady => Steady'
BY DEF pciVars, domVars, Steady

Runs == (saved.phase \in {"running", "restarting"} /\ OfThisBoot) \/ pc = "commit"

LEMMA ManagerRuns == OInv /\ BootKnown /\ RunsSteady /\ ManagerStep => RunsSteady'
<1> SUFFICES ASSUME OInv, BootKnown, RunsSteady, ManagerStep, Runs' PROVE Steady'
  BY DEF RunsSteady, Runs
<1>0. HostTypeOK /\ ActStep /\ Entries /\ saved \in SavedType
  BY ManagerActs, ManagerEnters DEF OInv, IInv, Typed, FilesTyped, FilesTypeOK, SavedType
<1>1. CASE pc' = "commit"
  <2>1. VerifyRunning({}) /\ UNCHANGED hostVars
    BY <1>0, <1>1 DEF Entries
  <2>2. Steady
    BY <2>1 DEF VerifyRunning, Steady
  <2>3. QED BY <2>1, <2>2, SameSteady DEF hostVars
<1>2. ASSUME NEW phase, NEW guest, Written(phase), Checkpoint(phase, guest), pc' # "commit" PROVE Steady'
  <2>1. phase \in {"running", "restarting"}
    BY <1>0, <1>2, CheckpointKeeps DEF Runs
  <2>2. Steady
    <3>1. CASE pc = "commit"
      BY <3>1 DEF RunsSteady
    <3>2. CASE pc = "restart.claim" /\ saved.phase = "running"
      BY <3>2 DEF BootKnown, BootLabels, RunsSteady
    <3>3. QED BY <1>2, <2>1, <3>1, <3>2, PhaseBefore
  <2>3. QED BY <1>2, <2>2, SameSteady DEF Checkpoint, hostVars
<1>3. CASE saved' = saved /\ pc' # "commit"
  <2>1. saved.phase \in {"running", "restarting"} /\ Steady
    BY <1>0, <1>3, ManifestKept DEF Runs, RunsSteady, OfThisBoot
  <2>2. ~(ConfigStep /\ pc \in {"start.mode1", "restore.config"})
    BY <2>1 DEF OInv, IInv, PhaseKnown, ClaimPhase, ClaimLabels, RestoreLabels, RestoreTail
  <2>3. ASSUME NEW c, NEW x, Acts(c, x) PROVE Steady'
    <3>1. c \notin GpuCommands /\ c # "define-cpu" /\ Fits(c, x)
      BY <2>1, <2>3 DEF Acts, Issued, OInv, IInv, PhaseKnown, BindingLabels, RestoreLabels, RestoreTail
    <3>2. CASE Succeed(c, x)
      BY <1>0, <2>1, <3>1, <3>2, EffectSteady DEF Succeed
    <3>3. CASE Fail(c, x) \/ Lose(c, x)
      BY <2>1, <3>3, SameSteady DEF Fail, Lose, hostVars
    <3>4. QED BY <2>3, <3>2, <3>3 DEF Acts
  <2>4. CASE Quiet \/ \E phase, guest : Checkpoint(phase, guest)
    BY <2>1, <2>4, SameSteady DEF Quiet, Checkpoint, hostVars
  <2>5. QED BY <1>0, <2>2, <2>3, <2>4 DEF ActStep
<1>4. QED BY <1>0, <1>1, <1>2, <1>3, ManifestKept

LEMMA OthersRuns ==
    OInv /\ BootKnown /\ Resolved /\ RunsSteady /\ (HostStep \/ Accidents \/ Invoke \/ FaultsStop \/ UNCHANGED vars)
        => RunsSteady'
<1> SUFFICES ASSUME OInv, BootKnown, Resolved, RunsSteady, Runs',
                    HostStep \/ Accidents \/ Invoke \/ FaultsStop \/ UNCHANGED vars
             PROVE  Steady'
  BY DEF RunsSteady, Runs
<1>0. HostTypeOK /\ saved.bootId \in Nat /\ boot \in Nat
  BY Numbers DEF OInv, IInv, Typed, FilesTyped
<1>1. ~HostReboots
  <2> SUFFICES ASSUME HostReboots PROVE FALSE
    OBVIOUS
  <2>1. boot' = boot + 1 /\ saved' = saved /\ pc' = "idle"
    BY DEF HostReboots, Reboot, Exit, files
  <2>2. QED BY <1>0, <2>1 DEF Runs, OfThisBoot, BootKnown
<1>2. boot' = boot
  BY <1>1 DEF Invoke, Prepare, Start, Restart, Stop, HostStep, LandLate, DropLate, GuestPowersOff, UnitComesUp, UnitGoesDown,
              AppExits, Accidents, Abandon, ReadTimesOut, AppStarts, BeginHostShutdown, FaultsStop, hostVars, vars
<1>3. Steady
  <2>1. saved' = saved \/ saved'.phase = "prepared"
    BY OthersPhase
  <2>2. pc' = "commit" => pc = "commit"
    BY OthersLocal
  <2>3. QED BY <1>2, <2>1, <2>2 DEF Runs, RunsSteady, OfThisBoot
<1>4. saved.phase \notin {"binding-gpus", "stopping", "normalizing-new-boot"}
  <2>1. saved' = saved \/ saved.phase = "none"
    BY OthersPhase
  <2>2. pc' = "commit" => pc = "commit"
    BY OthersLocal
  <2>3. pc = "commit" => saved.phase \in {"starting-guests", "restarting"}
    BY DEF OInv, IInv, PhaseKnown, LaunchingLabels
  <2>4. QED BY <2>1, <2>2, <2>3 DEF Runs
<1>5. ASSUME NEW o \in inflight, LandLate(o) PROVE Steady'
  <2>1. Effect(o.cmd, o.on) /\ cfgMode' = cfgMode
    BY <1>5 DEF LandLate
  <2>2. Fits(o.cmd, o.on)
    BY <1>0, <2>1 DEF Effect, HostTypeOK, Operations, Operation, Fits, GpuCommands, VmCommands, UnitCommands, ReadCommand
  <2>3. o.cmd \notin GpuCommands /\ o.cmd # "define-cpu"
    BY <1>4 DEF OInv, IInv, LateWritesAreAnnounced, Rebinding, Resolved
  <2>4. QED BY <1>0, <1>3, <2>1, <2>2, <2>3, EffectSteady
<1>6. ASSUME NEW v \in Vms, GuestPowersOff(v) PROVE Steady'
  <2>1. dom' = [dom EXCEPT ![v] = "off"] /\ UNCHANGED <<driver, defn, cfgMode>>
    BY <1>6 DEF GuestPowersOff, pciVars
  <2>2. \A w \in Vms : dom'[w] = "off" \/ dom'[w] = dom[w]
    BY <1>0, <2>1 DEF HostTypeOK
  <2>3. QED BY <1>3, <2>1, <2>2 DEF Steady
<1>7. CASE ~(\E o \in inflight : LandLate(o)) /\ ~(\E v \in Vms : GuestPowersOff(v))
  <2>1. UNCHANGED <<driver, dom, defn, cfgMode>>
    BY <1>1, <1>7
       DEF Invoke, Prepare, Start, Restart, Stop, HostStep, DropLate, UnitComesUp, UnitGoesDown,
           AppExits, Accidents, Abandon, ReadTimesOut, AppStarts, BeginHostShutdown, FaultsStop, hostVars, pciVars, domVars, vars
  <2>2. QED BY <1>3, <2>1 DEF Steady
<1>8. QED BY <1>5, <1>6, <1>7

--------------------------------------------------------------------------------
(* The invariant is inductive. *)

LEMMA HandoverInductive == HInv /\ [Next]_vars => HInv'
<1> SUFFICES ASSUME HInv, [Next]_vars PROVE HInv'
  OBVIOUS
<1>0. OInv /\ Typed /\ Recorded /\ Resolved /\ AppsOnHost /\ BootKnown /\ FabricKnown /\ RunsSteady
  BY DEF HInv, OInv, IInv
<1>1. OInv'
  BY <1>0, OwnershipInductive
<1>2. CASE ManagerStep
  <2>1. BootKnown' /\ Recorded' /\ Resolved'
    BY <1>0, <1>2, ManagerBoot, ManagerRecorded, ManagerResolved
  <2>2. AppsOnHost' /\ FabricKnown' /\ RunsSteady'
    BY <1>0, <1>2, ManagerApps, ManagerFabric, ManagerRuns
  <2>3. QED BY <1>1, <2>1, <2>2 DEF HInv
<1>3. CASE HostStep \/ Accidents \/ Invoke \/ FaultsStop \/ UNCHANGED vars
  <2>1. BootKnown' /\ Recorded' /\ Resolved'
    BY <1>0, <1>3, OthersBoot, OthersRecorded, OthersResolved
  <2>2. AppsOnHost' /\ FabricKnown' /\ RunsSteady'
    BY <1>0, <1>3, OthersApps, OthersFabric, OthersRuns
  <2>3. QED BY <1>1, <2>1, <2>2 DEF HInv
<1>4. QED BY <1>2, <1>3 DEF Next

LEMMA HandoverInit == Init => HInv
<1> SUFFICES ASSUME Init PROVE HInv
  OBVIOUS
<1>1. /\ pc = "idle" /\ inflight = {} /\ ~apps /\ saved.phase = "none" /\ saved.bootId = 0 /\ boot = 0
      /\ \A v \in Vms : dom[v] # "gpu"
  BY DEF Init, HostInit
<1>2. Recorded /\ Resolved
  BY <1>1, IdleRecorded DEF Recorded, Resolved, VmSettled, DefinedTail, Window, BindingLabels, RestoreLabels, RestoreTail
<1>3. AppsOnHost /\ BootKnown /\ RunsSteady
  BY <1>1 DEF AppsOnHost, BootKnown, BootLabels, ShutdownLabels, LaunchingLabels, RunsSteady
<1>4. FabricKnown
  BY <1>1 DEF FabricKnown, Handed, Exposed, Starting, InFlight, BindingLabels
<1>5. QED BY <1>2, <1>3, <1>4, OwnershipInit DEF HInv

LEMMA HandoverInvariant == Spec => []HInv
BY HandoverInit, HandoverInductive, PTL DEF Spec

--------------------------------------------------------------------------------
(* What follows. *)

(* The manager writes to no GPU while the process that an uncertain command *)
(* recorded is at work (no_uncertain_process).                              *)
THEOREM WritesAfterRecordedProcess == Spec => []RebindAfterRecordedProcess
<1>1. HInv => RebindAfterRecordedProcess
  BY DEF HInv, Recorded, NoRecordedProcess, RebindAfterRecordedProcess, GpuWrites, Window, BindingLabels, RestoreLabels
<1>2. QED BY <1>1, HandoverInvariant, PTL

(* start() claims a host on which no operation on a GPU or a guest of an    *)
(* earlier transition is on its way.                                        *)
THEOREM ClaimsAreResolved == Spec => []ClaimsOnlyResolved
<1>1. HInv => ClaimsOnlyResolved
  <2> SUFFICES ASSUME HInv, pc = "start.claim"
               PROVE  /\ saved.phase \in {"prepared", "stopped"}
                      /\ \A o \in inflight : o.cmd \notin GpuCommands \union VmCommands
    BY DEF ClaimsOnlyResolved
  <2>1. saved.phase \in {"prepared", "stopped"}
    BY DEF HInv, OInv, IInv, PhaseKnown
  <2>2. \A o \in inflight : o.cmd \notin GpuCommands
    BY <2>1 DEF HInv, OInv, IInv, LateWritesAreAnnounced, Rebinding
  <2>3. \A o \in inflight : o.cmd \notin VmCommands
    BY <2>1, GuestOperations DEF HInv, OInv, IInv, Resolved, VmSettled
  <2>4. QED BY <2>1, <2>2, <2>3
<1>2. QED BY <1>1, HandoverInvariant, PTL

(* No GPU is unbound under a host application (no_gpu_apps, no_holders).    *)
THEOREM AppsAreLeftAlone == Spec => []AppsKeepTheirGpus
<1>1. HInv => AppsKeepTheirGpus
  BY DEF HInv, AppsOnHost, AppLabels, BindingLabels, AppsKeepTheirGpus
<1>2. QED BY <1>1, HandoverInvariant, PTL

(* While a guest runs with its GPUs Fabric Manager is down and no route is  *)
(* set, whatever start job was still on its way (audit).                    *)
THEOREM FabricStaysQuiet == Spec => []FabricQuiet
<1>1. HInv => FabricQuiet
  BY DEF HInv, FabricKnown, Exposed, FabricOff, FmOff, FabricQuiet
<1>2. QED BY <1>1, HandoverInvariant, PTL

(* The records "running" and "restarting" of this boot are true of the      *)
(* hardware until the next transition claims it (verify_running).           *)
THEOREM RunningIsTrue == Spec => []RunningIsAssigned
<1>1. HInv => RunningIsAssigned
  BY DEF HInv, RunsSteady, Steady, FabricKnown, Handed, OfThisBoot, FabricOff, FmOff, RunningIsAssigned
<1>2. QED BY <1>1, HandoverInvariant, PTL

================================================================================
