----------------------------- MODULE SafetyProofs ------------------------------
(***************************************************************************)
(* Proofs about the lifecycle for any number of guests, GPUs, units,       *)
(* reboots and lost commands: that every variable keeps its type, that no  *)
(* guest loses a GPU it runs with, that GPUs are rebound only under an     *)
(* announcement, and that guests are launched only when their previous     *)
(* instance is gone.                                                       *)
(***************************************************************************)
EXTENDS LifecycleProperties, TLAPS

(***************************************************************************)
(* Typing is inductive once the loop variables are known to range over     *)
(* what the loop at pc is about.                                           *)
(***************************************************************************)
GpuBody == {"start.power", "start.override", "start.unbind", "start.probe", "start.bound",
            "restore.unbind", "restore.override", "restore.probe", "restore.bound", "restore.power"}
GpuLoops == GpuBody \union {"start.device", "restore.device"}

VmBody == {"start.launch", "start.confirm", "shutdown.ask", "shutdown.wait", "shutdown.owners"}
VmLoops == VmBody \union {"start.define", "shutdown", "restore.define", "restore.guests"}

UnitLoops == {"start.clients", "restore.units"}

RestartLabels == {"restart", "restart.resume", "restart.claim", "restart.launch"}

(* x and S fit a loop at label l as element in hand and elements to do. *)
Fit(l, x, S) ==
    /\ l \in GpuBody => x \in Gpus
    /\ l \in GpuLoops => S \subseteq Gpus
    /\ l \in VmBody => x \in Vms
    /\ l \in VmLoops => S \subseteq Vms
    /\ l \in UnitLoops => S \subseteq Units

LoopsTyped ==
    /\ Fit(pc, cur, todo)
    /\ pc \in RestartLabels => call.cmd = "restart"
    /\ call.cmd = "restart" => call.guest \in Vms

SavedType == [phase: Phases, guest: Vms \union {Nil}, bootId: 0..MaxBoot,
              vmWasRunning: SUBSET Vms, services: SUBSET Units]

CallType == [cmd: {"none", "start", "stop", "restart"}, guest: Vms \union {Nil},
             restoreGuests: BOOLEAN, shuttingDown: BOOLEAN]

LocalTyped == LocalTypeOK /\ LoopsTyped

(* A command and the kind of target the manager gives it. *)
Fits(c, x) ==
    \/ c \in GpuCommands /\ x \in Gpus
    \/ c \in VmCommands /\ x \in Vms
    \/ c \in UnitCommands /\ x \in Units

(* The state that commands change keeps its type, the process state apart. *)
FilesTyped == HostTypeOK /\ FilesTypeOK

LEMMA EffectTyped ==
    ASSUME HostTypeOK, NEW c, NEW x, Fits(c, x), Effect(c, x),
           UNCHANGED <<cfgMode, apps, boot, sysStopping>>, inflight' \subseteq inflight
    PROVE  HostTypeOK'
<1> USE DEF HostTypeOK, pciVars, domVars, unitVars
<1>1. CASE c \in GpuCommands /\ x \in Gpus
  BY <1>1 DEF Effect, GpuEffect, GpuCommands, VmCommands, UnitCommands, Probed
<1>2. CASE c \in VmCommands /\ x \in Vms
  <2>1. VmEffect(c, x) /\ UNCHANGED <<pciVars, unitVars>>
    BY <1>2 DEF Effect, GpuCommands, VmCommands, UnitCommands
  <2>2. dom' \in [Vms -> {"off", "cpu", "gpu"}] /\ defn' \in [Vms -> {"cpu", "gpu"}] /\ asked' \subseteq Vms
    <3>1. CASE c = "shutdown"
      BY <1>2, <2>1, <3>1 DEF VmEffect
    <3>2. CASE c \in {"define-cpu", "define-gpu"}
      BY <1>2, <2>1, <3>2 DEF VmEffect
    <3>3. CASE c = "start"
      <4>1. defn[x] \in {"cpu", "gpu"}
        BY <1>2
      <4>2. dom' = [dom EXCEPT ![x] = defn[x]] /\ UNCHANGED <<asked, defn>>
        BY <2>1, <3>3 DEF VmEffect
      <4>3. QED BY <4>1, <4>2
    <3>4. QED BY <1>2, <3>1, <3>2, <3>3 DEF VmCommands
  <2>3. QED BY <2>1, <2>2
<1>3. CASE c \in UnitCommands /\ x \in Units
  BY <1>3 DEF Effect, UnitEffect, Fabric, GpuCommands, VmCommands, UnitCommands
<1>4. QED BY <1>1, <1>2, <1>3 DEF Fits

LEMMA SucceedTyped ==
    ASSUME FilesTyped, NEW c, NEW x, Fits(c, x), Succeed(c, x)
    PROVE  FilesTyped'
<1>1. HostTypeOK' BY EffectTyped DEF Succeed, FilesTyped
<1>2. QED BY <1>1 DEF Succeed, FilesTyped, FilesTypeOK, files

LEMMA FailTyped ==
    ASSUME FilesTyped, NEW c, NEW x, Fail(c, x)
    PROVE  FilesTyped'
BY DEF Fail, FilesTyped, FilesTypeOK, files, hostVars, HostTypeOK, pciVars, domVars, unitVars

LEMMA LoseTyped ==
    ASSUME FilesTyped, NEW c, NEW x, Fits(c, x), Lose(c, x)
    PROVE  FilesTyped'
<1> USE HostAssumption DEF HostAssumption
<1>1. lost + 1 \in 1..MaxUncertain /\ lost' \in 0..MaxUncertain
  BY DEF Lose, FilesTyped, FilesTypeOK
<1>2. PICK alive \in BOOLEAN, marked \in BOOLEAN :
        /\ inflight' = inflight \union
             {[pid |-> lost + 1, cmd |-> c, on |-> x, alive |-> alive, marked |-> marked]}
        /\ IF marked THEN Record(lost + 1) ELSE UNCHANGED marker
  BY DEF Lose
<1>3. [pid |-> lost + 1, cmd |-> c, on |-> x, alive |-> alive, marked |-> marked] \in Operations
  BY <1>1 DEF Operations, Operation, Fits
<1>4. marker' \in 1..MaxUncertain \union {Nil}
  BY <1>1, <1>2 DEF Record, FilesTyped, FilesTypeOK
<1>5. inflight' \subseteq Operations
  BY <1>2, <1>3 DEF FilesTyped, HostTypeOK
<1>6. QED BY <1>1, <1>4, <1>5 DEF Lose, FilesTyped, FilesTypeOK, HostTypeOK, pciVars, domVars, unitVars

LEMMA ExitTyped == Exit => LocalTyped'
<1> SUFFICES ASSUME Exit PROVE LocalTyped'
  OBVIOUS
<1>1. pc' = "idle" /\ todo' = {} /\ cur' = Nil /\ seen' = "none" /\ call' = NoCall
  BY DEF Exit
<1>2. LocalTypeOK'
  BY <1>1 DEF LocalTypeOK, NoCall, Labels
<1>3. LoopsTyped'
  BY <1>1 DEF LoopsTyped, Fit, NoCall, GpuBody, GpuLoops, VmBody, VmLoops, UnitLoops, RestartLabels
<1>4. QED BY <1>2, <1>3 DEF LocalTyped

(* A step within the process keeps the types if its new label, element and *)
(* loop set fit each other.                                                *)
LEMMA MoveTyped ==
    ASSUME LocalTyped, NEW l \in Labels, pc' = l, l \in RestartLabels => call.cmd = "restart",
           Fit(l, cur', todo'), call' = call, seen' = seen,
           todo' \subseteq Vms \union Gpus \union Units,
           cur' \in Vms \union Gpus \union Units \union {Nil}
    PROVE  LocalTyped'
<1>1. LocalTypeOK' BY DEF LocalTyped, LocalTypeOK
<1>2. LoopsTyped' BY DEF LocalTyped, LoopsTyped
<1>3. QED BY <1>1, <1>2 DEF LocalTyped

LEMMA GotoTyped ==
    ASSUME LocalTyped, NEW l \in Labels, Goto(l), l \in RestartLabels => call.cmd = "restart", Fit(l, cur, todo)
    PROVE  LocalTyped'
<1>1. /\ pc' = l /\ call' = call /\ seen' = seen /\ cur' = cur /\ todo' = todo
      /\ todo \subseteq Vms \union Gpus \union Units
      /\ cur \in Vms \union Gpus \union Units \union {Nil}
  BY DEF Goto, LocalTyped, LocalTypeOK
<1>2. QED BY <1>1, MoveTyped

LEMMA LoopTyped ==
    ASSUME LocalTyped, NEW l \in Labels \ RestartLabels, NEW S, Loop(l, S), Fit(l, Nil, S),
           S \subseteq Vms \/ S \subseteq Gpus \/ S \subseteq Units
    PROVE  LocalTyped'
<1>1. /\ pc' = l /\ call' = call /\ seen' = seen /\ cur' = Nil /\ todo' = S
      /\ S \subseteq Vms \union Gpus \union Units
  BY DEF Loop
<1>2. QED BY <1>1, MoveTyped

(* start() keeps the process state typed. *)
LEMMA StartLocalTyped == LocalTyped /\ HostTypeOK /\ saved \in SavedType /\ StartStep => LocalTyped'
<1> SUFFICES ASSUME LocalTyped, HostTypeOK, saved \in SavedType, StartStep PROVE LocalTyped'
  OBVIOUS
<1> USE ExitTyped, GotoTyped, LoopTyped, MoveTyped
    DEF LoopsTyped, Fit, GpuBody, GpuLoops, VmBody, VmLoops, UnitLoops, RestartLabels, Labels, Units
<1>0. LoopsTyped
  BY DEF LocalTyped
<1>1. CASE StartChecks
  BY <1>0, <1>1 DEF StartChecks, Run, Check, Again
<1>2. CASE StartNormalizes
  BY <1>0, <1>2 DEF StartNormalizes, Run, Check, Again
<1>3. CASE StartPhase
  BY <1>0, <1>3 DEF StartPhase, Run, Check, Again
<1>4. CASE StartClaims
  BY <1>0, <1>4 DEF StartClaims, Run, Check, Again
<1>5. CASE StopClientServices
  <2>1. todo \subseteq Units
    BY <1>0, <1>5 DEF StopClientServices
  <2>2. CASE todo = {} /\ Goto("start.stopfm")
    BY <2>2
  <2>3. ASSUME NEW u \in todo, Loop("start.clients", todo \ {u})
        PROVE  LocalTyped'
    BY <2>1, <2>3
  <2>4. QED BY <1>5, <2>2, <2>3 DEF StopClientServices, Run
<1>6. CASE StartStopsFm
  BY <1>0, <1>6 DEF StartStopsFm, Run, Check, Again
<1>7. CASE StartWritesMode1
  BY <1>0, <1>7 DEF StartWritesMode1, WriteConfig
<1>8. CASE StartStartsFm
  BY <1>0, <1>8 DEF StartStartsFm, Run, Check, Again
<1>9. CASE StartPartitions
  BY <1>0, <1>9 DEF StartPartitions, Run, Check, Again
<1>10. CASE StartQuietsFm
  BY <1>0, <1>10 DEF StartQuietsFm, Run, Check, Again
<1>11. CASE StartAudit
  BY <1>0, <1>11 DEF StartAudit, Run, Check, Again
<1>12. CASE StartBinding
  BY <1>0, <1>12 DEF StartBinding, Run, Check, Again
<1>13. CASE StartDevice
  BY <1>0, <1>13 DEF StartDevice, Run, Check, Again
<1>14. CASE StartPower
  BY <1>0, <1>14 DEF StartPower, Run, Check, Again
<1>15. CASE StartOverride
  BY <1>0, <1>15 DEF StartOverride, Run, Check, Again
<1>16. CASE StartUnbind
  BY <1>0, <1>16 DEF StartUnbind, Run, Check, Again
<1>17. CASE StartProbe
  BY <1>0, <1>17 DEF StartProbe, Run, Check, Again
<1>18. CASE StartBound
  BY <1>0, <1>18 DEF StartBound, Run, Check, Again
<1>19. CASE StartLaunching
  BY <1>0, <1>19 DEF StartLaunching, Run, Check, Again
<1>20. CASE StartDefine
  BY <1>0, <1>20 DEF StartDefine, Run, Check, Again
<1>21. CASE StartLaunch
  BY <1>0, <1>21 DEF StartLaunch, Run, Check, Again
<1>22. CASE StartConfirm
  BY <1>0, <1>22 DEF StartConfirm, Run, Check, Again
<1>23. CASE Verify
  BY <1>0, <1>23 DEF Verify, Run, Check, Again
<1>24. CASE Commit
  BY <1>0, <1>24 DEF Commit, Run, Check, Again
<1>25. QED
  BY <1>1, <1>2, <1>3, <1>4, <1>5, <1>6, <1>7, <1>8, <1>9, <1>10, <1>11, <1>12, <1>13, <1>14, <1>15, <1>16, <1>17, <1>18, <1>19, <1>20, <1>21, <1>22, <1>23, <1>24 DEF StartStep

(* restart() keeps the process state typed. *)
LEMMA RestartLocalTyped == LocalTyped /\ HostTypeOK /\ saved \in SavedType /\ RestartStep => LocalTyped'
<1> SUFFICES ASSUME LocalTyped, HostTypeOK, saved \in SavedType, RestartStep PROVE LocalTyped'
  OBVIOUS
<1> USE ExitTyped, GotoTyped, LoopTyped, MoveTyped
    DEF LoopsTyped, Fit, GpuBody, GpuLoops, VmBody, VmLoops, UnitLoops, RestartLabels, Labels, Units
<1>0. LoopsTyped
  BY DEF LocalTyped
<1>1. CASE RestartChecks
  BY <1>0, <1>1 DEF RestartChecks, Run, Check, Again
<1>2. CASE RestartResumes
  BY <1>0, <1>2 DEF RestartResumes, Run, Check, Again
<1>3. CASE RestartClaims
  BY <1>0, <1>3 DEF RestartClaims, Run, Check, Again
<1>4. CASE RestartLaunches
  BY <1>0, <1>4 DEF RestartLaunches, Run, Check, Again
<1>5. QED
  BY <1>1, <1>2, <1>3, <1>4 DEF RestartStep

(* stop() and shutdown() keeps the process state typed. *)
LEMMA ShutdownLocalTyped == LocalTyped /\ HostTypeOK /\ saved \in SavedType /\ ShutdownStep => LocalTyped'
<1> SUFFICES ASSUME LocalTyped, HostTypeOK, saved \in SavedType, ShutdownStep PROVE LocalTyped'
  OBVIOUS
<1> USE ExitTyped, GotoTyped, LoopTyped, MoveTyped
    DEF LoopsTyped, Fit, GpuBody, GpuLoops, VmBody, VmLoops, UnitLoops, RestartLabels, Labels, Units
<1>0. LoopsTyped
  BY DEF LocalTyped
<1>1. CASE StopClaims
  BY <1>0, <1>1 DEF StopClaims, Run, Check, Again
<1>2. CASE ShutdownNext
  BY <1>0, <1>2 DEF ShutdownNext, Run, Check, Again
<1>3. CASE ShutdownAsks
  BY <1>0, <1>3 DEF ShutdownAsks, Run, Check, Again
<1>4. CASE ShutdownWaits
  BY <1>0, <1>4 DEF ShutdownWaits, Run, Check, Again
<1>5. CASE ShutdownOwners
  BY <1>0, <1>5 DEF ShutdownOwners, Run, Check, Again
<1>6. CASE Owners
  <2>1. CASE Exit
    BY <2>1
  <2>2. CASE call.cmd = "start" /\ Loop("start.clients", Clients)
    BY <2>2
  <2>3. CASE call.cmd = "stop" /\ Goto("restore")
    BY <2>3
  <2>4. CASE call.cmd = "restart" /\ Goto("restart.launch")
    BY <2>4
  <2>5. QED BY <1>6, <2>1, <2>2, <2>3, <2>4 DEF Owners, AfterOwners, Check
<1>7. QED
  BY <1>1, <1>2, <1>3, <1>4, <1>5, <1>6 DEF ShutdownStep

(* restore_configuration() keeps the process state typed. *)
LEMMA RestoreLocalTyped == LocalTyped /\ HostTypeOK /\ saved \in SavedType /\ RestoreStep => LocalTyped'
<1> SUFFICES ASSUME LocalTyped, HostTypeOK, saved \in SavedType, RestoreStep PROVE LocalTyped'
  OBVIOUS
<1> USE ExitTyped, GotoTyped, LoopTyped, MoveTyped
    DEF LoopsTyped, Fit, GpuBody, GpuLoops, VmBody, VmLoops, UnitLoops, RestartLabels, Labels, Units
<1>0. LoopsTyped
  BY DEF LocalTyped
<1>1. CASE Restore
  <2>1. pc' = "restore.quiesce" /\ UNCHANGED <<todo, cur, seen>>
    BY <1>1 DEF Restore
  <2>2. call' \in CallType /\ call'.cmd = call.cmd /\ call'.guest = call.guest
    BY <1>1 DEF Restore, LocalTyped, LocalTypeOK, CallType, HostTypeOK
  <2>3. LocalTypeOK'
    BY <2>1, <2>2 DEF LocalTyped, LocalTypeOK, CallType
  <2>4. LoopsTyped'
    BY <1>0, <2>1, <2>2
  <2>5. QED BY <2>3, <2>4 DEF LocalTyped
<1>2. CASE RestoreQuiesce
  BY <1>0, <1>2 DEF RestoreQuiesce, Run, Check, Again
<1>3. CASE RestoreStopsFm
  BY <1>0, <1>3 DEF RestoreStopsFm, Run, Check, Again
<1>4. CASE RestoreDevice
  <2>1. todo \subseteq Gpus
    BY <1>0, <1>4 DEF RestoreDevice
  <2>2. CASE todo = {} /\ Goto("restore.config")
    BY <2>2
  <2>3. ASSUME NEW g \in todo, UNCHANGED <<call, todo>>, cur' = g, seen' = driver[g],
               pc' \in {"restore.unbind", "restore.override"}
        PROVE  LocalTyped'
    <3>1. driver[g] \in {"nvidia", "vfio-pci", "none"}
      BY <2>1 DEF HostTypeOK
    <3>2. LocalTypeOK'
      BY <2>1, <2>3, <3>1 DEF LocalTyped, LocalTypeOK
    <3>3. LoopsTyped'
      BY <1>0, <2>1, <2>3
    <3>4. QED BY <3>2, <3>3 DEF LocalTyped
  <2>4. QED BY <1>4, <2>2, <2>3 DEF RestoreDevice
<1>5. CASE RestoreUnbind
  BY <1>0, <1>5 DEF RestoreUnbind, Run, Check, Again
<1>6. CASE RestoreOverride
  BY <1>0, <1>6 DEF RestoreOverride, Run, Check, Again
<1>7. CASE RestoreProbe
  BY <1>0, <1>7 DEF RestoreProbe, Run, Check, Again
<1>8. CASE RestoreBound
  BY <1>0, <1>8 DEF RestoreBound, Run, Check, Again
<1>9. CASE RestorePower
  BY <1>0, <1>9 DEF RestorePower, Run, Check, Again
<1>10. CASE RestoreConfig
  BY <1>0, <1>10 DEF RestoreConfig, WriteConfig
<1>11. CASE RestoreDefine
  BY <1>0, <1>11 DEF RestoreDefine, Run, Check, Again
<1>12. CASE RestoreUnits
  BY <1>0, <1>12 DEF RestoreUnits, Run, Check, Again
<1>13. CASE RestoreIdentities
  <2>1. saved.vmWasRunning \subseteq Vms
    BY DEF SavedType
  <2>2. CASE Exit
    BY <2>2
  <2>3. CASE Loop("restore.guests", IF call.restoreGuests THEN saved.vmWasRunning ELSE {})
    BY <2>1, <2>3
  <2>4. QED BY <1>13, <2>2, <2>3 DEF RestoreIdentities, Check
<1>14. CASE RestoreGuests
  BY <1>0, <1>14 DEF RestoreGuests, Run, Check, Again
<1>15. CASE RestoreDone
  BY <1>0, <1>15 DEF RestoreDone, Run, Check, Again
<1>16. QED
  BY <1>1, <1>2, <1>3, <1>4, <1>5, <1>6, <1>7, <1>8, <1>9, <1>10, <1>11, <1>12, <1>13, <1>14, <1>15 DEF RestoreStep

(* The only ways a step of an invocation changes files and host.           *)
Quiet == UNCHANGED <<hostVars, files, calm>>
CommandStep == \E c, x : Fits(c, x) /\ (Succeed(c, x) \/ Fail(c, x) \/ Lose(c, x))
CheckpointStep == \E phase \in Phases, guest \in Vms \union {Nil} : Checkpoint(phase, guest)
ConfigStep ==
    /\ cfgMode' \in {"mode0", "mode1", "torn"}
    /\ UNCHANGED <<pciVars, domVars, unitVars, apps, boot, sysStopping, inflight, files, calm>>

FilesStep == Quiet \/ CommandStep \/ CheckpointStep \/ ConfigStep

LEMMA ACommandStep ==
    ASSUME NEW c, NEW x, Fits(c, x), Succeed(c, x) \/ Fail(c, x) \/ Lose(c, x)
    PROVE  CommandStep
BY DEF CommandStep

LEMMA CommandsFit ==
    /\ \A g \in Gpus : Fits("unbind", g) /\ Fits("probe", g) /\ Fits("override-vfio", g)
                      /\ Fits("override-clear", g) /\ Fits("power-on", g) /\ Fits("power-restore", g)
    /\ \A v \in Vms : Fits("shutdown", v) /\ Fits("define-cpu", v) /\ Fits("define-gpu", v) /\ Fits("start", v)
    /\ \A u \in Units : Fits("start-unit", u) /\ Fits("stop-unit", u)
    /\ FM \in Units
BY DEF Fits, GpuCommands, VmCommands, UnitCommands, Units

LEMMA FilesStepTyped == FilesTyped /\ FilesStep => FilesTyped'
<1> SUFFICES ASSUME FilesTyped, FilesStep PROVE FilesTyped'
  OBVIOUS
<1> USE DEF FilesTyped, FilesTypeOK, HostTypeOK, hostVars, pciVars, domVars, unitVars, files
<1>1. CASE Quiet
  BY <1>1 DEF Quiet
<1>2. CASE CommandStep
  BY <1>2, SucceedTyped, FailTyped, LoseTyped DEF CommandStep
<1>3. CASE CheckpointStep
  <2>1. PICK phase \in Phases, guest \in Vms \union {Nil} : Checkpoint(phase, guest)
    BY <1>3 DEF CheckpointStep
  <2>2. saved' = [saved EXCEPT !.phase = phase, !.guest = guest, !.bootId = boot]
    BY <2>1 DEF Checkpoint
  <2>3. saved' \in SavedType
    BY <2>2 DEF SavedType
  <2>4. QED BY <2>1, <2>3 DEF Checkpoint, SavedType
<1>4. CASE ConfigStep
  BY <1>4 DEF ConfigStep
<1>5. QED BY <1>1, <1>2, <1>3, <1>4 DEF FilesStep

LEMMA StartFilesStep == LocalTyped /\ saved \in SavedType /\ StartStep => FilesStep
<1> SUFFICES ASSUME LocalTyped, saved \in SavedType, StartStep PROVE FilesStep
  OBVIOUS
<1> USE DEF FilesStep, Fit, GpuBody, GpuLoops, VmBody, VmLoops, UnitLoops, RestartLabels
<1>0. LoopsTyped
  BY DEF LocalTyped
<1>1. CASE StartChecks
  BY <1>1 DEF StartChecks, Quiet, Check
<1>2. CASE StartNormalizes
  BY <1>2 DEF StartNormalizes, Quiet, CheckpointStep, Phases, Interrupted
<1>3. CASE StartPhase
  BY <1>3 DEF StartPhase, Quiet, Check
<1>4. CASE StartClaims
  BY <1>4 DEF StartClaims, CheckpointStep, Phases, Interrupted
<1>5. CASE StopClientServices
  BY <1>0, <1>5, ACommandStep, CommandsFit DEF StopClientServices, Run, LoopsTyped, Quiet
<1>6. CASE StartStopsFm
  BY <1>0, <1>6, ACommandStep, CommandsFit DEF StartStopsFm, Run, LoopsTyped
<1>7. CASE StartWritesMode1
  BY <1>7 DEF StartWritesMode1, WriteConfig, ConfigStep
<1>8. CASE StartStartsFm
  BY <1>0, <1>8, ACommandStep, CommandsFit DEF StartStartsFm, Run, LoopsTyped
<1>9. CASE StartPartitions
  BY <1>9 DEF StartPartitions, Quiet, Check
<1>10. CASE StartQuietsFm
  BY <1>0, <1>10, ACommandStep, CommandsFit DEF StartQuietsFm, Run, LoopsTyped
<1>11. CASE StartAudit
  BY <1>11 DEF StartAudit, Quiet, Check
<1>12. CASE StartBinding
  BY <1>12 DEF StartBinding, CheckpointStep, Phases, Interrupted
<1>13. CASE StartDevice
  BY <1>13 DEF StartDevice, Quiet
<1>14. CASE StartPower
  BY <1>0, <1>14, ACommandStep, CommandsFit DEF StartPower, Run, LoopsTyped
<1>15. CASE StartOverride
  BY <1>0, <1>15, ACommandStep, CommandsFit DEF StartOverride, Run, LoopsTyped
<1>16. CASE StartUnbind
  BY <1>0, <1>16, ACommandStep, CommandsFit DEF StartUnbind, Run, LoopsTyped
<1>17. CASE StartProbe
  BY <1>0, <1>17, ACommandStep, CommandsFit DEF StartProbe, Run, LoopsTyped
<1>18. CASE StartBound
  BY <1>18 DEF StartBound, Quiet, Check
<1>19. CASE StartLaunching
  BY <1>19 DEF StartLaunching, CheckpointStep, Phases, Interrupted
<1>20. CASE StartDefine
  BY <1>0, <1>20, ACommandStep, CommandsFit DEF StartDefine, Run, LoopsTyped, Quiet
<1>21. CASE StartLaunch
  BY <1>0, <1>21, ACommandStep, CommandsFit DEF StartLaunch, Run, LoopsTyped
<1>22. CASE StartConfirm
  BY <1>22 DEF StartConfirm, Quiet, Check
<1>23. CASE Verify
  BY <1>23 DEF Verify, Quiet, Check
<1>24. CASE Commit
  BY <1>24 DEF Commit, CheckpointStep, Phases, Interrupted
<1>25. QED
  BY <1>1, <1>2, <1>3, <1>4, <1>5, <1>6, <1>7, <1>8, <1>9, <1>10, <1>11, <1>12, <1>13, <1>14, <1>15, <1>16, <1>17, <1>18, <1>19, <1>20, <1>21, <1>22, <1>23, <1>24 DEF StartStep

LEMMA RestartFilesStep == LocalTyped /\ saved \in SavedType /\ RestartStep => FilesStep
<1> SUFFICES ASSUME LocalTyped, saved \in SavedType, RestartStep PROVE FilesStep
  OBVIOUS
<1> USE DEF FilesStep, Fit, GpuBody, GpuLoops, VmBody, VmLoops, UnitLoops, RestartLabels
<1>0. LoopsTyped
  BY DEF LocalTyped
<1>1. CASE RestartChecks
  BY <1>1 DEF RestartChecks, Quiet, Check
<1>2. CASE RestartResumes
  BY <1>2 DEF RestartResumes, Quiet, Check
<1>3. CASE RestartClaims
  BY <1>0, <1>3 DEF RestartClaims, CheckpointStep, Phases, Interrupted, LoopsTyped
<1>4. CASE RestartLaunches
  BY <1>0, <1>4, ACommandStep, CommandsFit DEF RestartLaunches, Run, LoopsTyped, Quiet
<1>5. QED
  BY <1>1, <1>2, <1>3, <1>4 DEF RestartStep

LEMMA ShutdownFilesStep == LocalTyped /\ saved \in SavedType /\ ShutdownStep => FilesStep
<1> SUFFICES ASSUME LocalTyped, saved \in SavedType, ShutdownStep PROVE FilesStep
  OBVIOUS
<1> USE DEF FilesStep, Fit, GpuBody, GpuLoops, VmBody, VmLoops, UnitLoops, RestartLabels
<1>0. LoopsTyped
  BY DEF LocalTyped
<1>1. CASE StopClaims
  BY <1>1 DEF StopClaims, CheckpointStep, Phases, Interrupted
<1>2. CASE ShutdownNext
  BY <1>2 DEF ShutdownNext, Quiet
<1>3. CASE ShutdownAsks
  BY <1>0, <1>3, ACommandStep, CommandsFit DEF ShutdownAsks, Run, LoopsTyped
<1>4. CASE ShutdownWaits
  BY <1>4 DEF ShutdownWaits, Quiet
<1>5. CASE ShutdownOwners
  BY <1>5 DEF ShutdownOwners, Quiet, Check
<1>6. CASE Owners
  BY <1>6 DEF Owners, Quiet, Check
<1>7. QED
  BY <1>1, <1>2, <1>3, <1>4, <1>5, <1>6 DEF ShutdownStep

LEMMA RestoreFilesStep == LocalTyped /\ saved \in SavedType /\ RestoreStep => FilesStep
<1> SUFFICES ASSUME LocalTyped, saved \in SavedType, RestoreStep PROVE FilesStep
  OBVIOUS
<1> USE DEF FilesStep, Fit, GpuBody, GpuLoops, VmBody, VmLoops, UnitLoops, RestartLabels
<1>0. LoopsTyped
  BY DEF LocalTyped
<1>1. CASE Restore
  BY <1>1 DEF Restore, Quiet
<1>2. CASE RestoreQuiesce
  BY <1>2 DEF RestoreQuiesce, Quiet, Check
<1>3. CASE RestoreStopsFm
  BY <1>0, <1>3, ACommandStep, CommandsFit DEF RestoreStopsFm, Run, LoopsTyped
<1>4. CASE RestoreDevice
  BY <1>4 DEF RestoreDevice, Quiet
<1>5. CASE RestoreUnbind
  BY <1>0, <1>5, ACommandStep, CommandsFit DEF RestoreUnbind, Run, LoopsTyped
<1>6. CASE RestoreOverride
  BY <1>0, <1>6, ACommandStep, CommandsFit DEF RestoreOverride, Run, LoopsTyped
<1>7. CASE RestoreProbe
  BY <1>0, <1>7, ACommandStep, CommandsFit DEF RestoreProbe, Run, LoopsTyped
<1>8. CASE RestoreBound
  BY <1>8 DEF RestoreBound, Quiet, Check
<1>9. CASE RestorePower
  BY <1>0, <1>9, ACommandStep, CommandsFit DEF RestorePower, Run, LoopsTyped
<1>10. CASE RestoreConfig
  BY <1>10 DEF RestoreConfig, WriteConfig, ConfigStep
<1>11. CASE RestoreDefine
  BY <1>0, <1>11, ACommandStep, CommandsFit DEF RestoreDefine, Run, LoopsTyped, Quiet
<1>12. CASE RestoreUnits
  BY <1>0, <1>12, ACommandStep, CommandsFit DEF RestoreUnits, Run, LoopsTyped, Quiet
<1>13. CASE RestoreIdentities
  BY <1>13 DEF RestoreIdentities, Quiet, Check
<1>14. CASE RestoreGuests
  BY <1>0, <1>14, ACommandStep, CommandsFit DEF RestoreGuests, Run, LoopsTyped, Quiet
<1>15. CASE RestoreDone
  BY <1>15 DEF RestoreDone, CheckpointStep, Phases, Interrupted
<1>16. QED
  BY <1>1, <1>2, <1>3, <1>4, <1>5, <1>6, <1>7, <1>8, <1>9, <1>10, <1>11, <1>12, <1>13, <1>14, <1>15 DEF RestoreStep

(* What does not touch the typed variables keeps their types. *)
LEMMA HostSame == HostTypeOK /\ UNCHANGED hostVars => HostTypeOK'
BY DEF HostTypeOK, hostVars, pciVars, domVars, unitVars

LEMMA LocalSame == LocalTyped /\ UNCHANGED local => LocalTyped'
BY DEF local, LocalTyped, LocalTypeOK, LoopsTyped, Fit

LEMMA InvokeTyped == FilesTyped /\ LocalTyped /\ Invoke => FilesTyped' /\ LocalTyped'
<1> SUFFICES ASSUME FilesTyped, LocalTyped, Invoke PROVE FilesTyped' /\ LocalTyped'
  OBVIOUS
<1>1. CASE Prepare
  <2>1. saved' \in SavedType
    BY <1>1 DEF Prepare, SavedType, FilesTyped, FilesTypeOK, HostTypeOK, Phases
  <2>2. HostTypeOK' /\ LocalTyped'
    BY <1>1, HostSame, LocalSame DEF Prepare, FilesTyped
  <2>3. FilesTypeOK'
    BY <1>1, <2>1 DEF Prepare, SavedType, FilesTyped, FilesTypeOK
  <2>4. QED BY <2>2, <2>3 DEF FilesTyped
<1>2. ASSUME NEW l \in {"start", "restart", "stop"}, pc' = l, call' \in CallType,
             call'.cmd = l, l = "restart" => call'.guest \in Vms,
             UNCHANGED <<hostVars, files, todo, cur, seen, calm>>
      PROVE  FilesTyped' /\ LocalTyped'
  <2>1. FilesTyped'
    BY <1>2 DEF FilesTyped, FilesTypeOK, HostTypeOK, hostVars, pciVars, domVars, unitVars, files
  <2>2. LocalTypeOK'
    BY <1>2 DEF LocalTyped, LocalTypeOK, CallType, Labels
  <2>3. LoopsTyped'
    BY <1>2 DEF LoopsTyped, Fit, GpuBody, GpuLoops, VmBody, VmLoops, UnitLoops, RestartLabels
  <2>4. QED BY <2>1, <2>2, <2>3 DEF LocalTyped
<1>3. CASE Start
  BY <1>2, <1>3 DEF Start, CallType, NoCall
<1>4. ASSUME NEW v \in Vms, Restart(v) PROVE FilesTyped' /\ LocalTyped'
  BY <1>2, <1>4 DEF Restart, CallType, NoCall
<1>5. ASSUME NEW restoreGuests \in BOOLEAN, Stop(restoreGuests) PROVE FilesTyped' /\ LocalTyped'
  BY <1>2, <1>5 DEF Stop, CallType, NoCall
<1>6. QED BY <1>1, <1>3, <1>4, <1>5 DEF Invoke

(* The host keeps its own state typed, late completions included. *)
LEMMA HostStepTyped == FilesTyped /\ LocalTyped /\ HostStep => FilesTyped' /\ LocalTyped'
<1> SUFFICES ASSUME FilesTyped, LocalTyped, HostStep PROVE FilesTyped' /\ LocalTyped'
  OBVIOUS
<1>1. UNCHANGED <<files, local, calm>>
  BY DEF HostStep
<1>2. HostTypeOK /\ FilesTypeOK
  BY DEF FilesTyped
<1>3. FilesTypeOK' /\ LocalTyped'
  BY <1>1, <1>2 DEF FilesTypeOK, files, local, LocalTyped, LocalTypeOK, LoopsTyped, Fit
<1>4. HostTypeOK'
  <2>1. ASSUME NEW o \in inflight, LandLate(o) PROVE HostTypeOK'
    <3>1. Effect(o.cmd, o.on) /\ inflight' \subseteq inflight /\ UNCHANGED <<cfgMode, apps, boot, sysStopping>>
      BY <2>1 DEF LandLate
    <3>2. o.cmd \in GpuCommands \union VmCommands \union UnitCommands
      BY <3>1 DEF Effect
    <3>3. Fits(o.cmd, o.on)
      BY <1>2, <3>2 DEF HostTypeOK, Operations, Operation, Fits, GpuCommands, VmCommands, UnitCommands, ReadCommand
    <3>4. QED BY <1>2, <3>1, <3>3, EffectTyped
  <2>2. ASSUME NEW o \in inflight, DropLate(o) PROVE HostTypeOK'
    BY <1>2, <2>2 DEF DropLate, HostTypeOK, pciVars, domVars, unitVars
  <2>3. ASSUME NEW v \in Vms, GuestPowersOff(v) PROVE HostTypeOK'
    BY <1>2, <2>3 DEF GuestPowersOff, HostTypeOK, pciVars, domVars, unitVars
  <2>4. ASSUME NEW u \in Units, UnitComesUp(u) \/ UnitGoesDown(u) PROVE HostTypeOK'
    BY <1>2, <2>4 DEF UnitComesUp, UnitGoesDown, Fabric, HostTypeOK, pciVars, domVars, unitVars
  <2>5. CASE AppExits
    BY <1>2, <2>5 DEF AppExits, HostTypeOK, pciVars, domVars, unitVars
  <2>6. QED BY <2>1, <2>2, <2>3, <2>4, <2>5 DEF HostStep
<1>5. QED BY <1>3, <1>4 DEF FilesTyped

LEMMA AccidentsTyped == FilesTyped /\ LocalTyped /\ Accidents => FilesTyped' /\ LocalTyped'
<1> SUFFICES ASSUME FilesTyped, LocalTyped, Accidents PROVE FilesTyped' /\ LocalTyped'
  OBVIOUS
<1> USE HostAssumption DEF HostAssumption
<1>0. UNCHANGED local => LocalTyped'
  BY LocalSame
<1>1. CASE Abandon
  BY <1>1, ExitTyped DEF Abandon, FilesTyped, FilesTypeOK, HostTypeOK, hostVars, pciVars, domVars, unitVars, files
<1>2. CASE ReadTimesOut
  <2>1. lost + 1 \in 1..MaxUncertain /\ lost' \in 0..MaxUncertain
    BY <1>2 DEF ReadTimesOut, FilesTyped, FilesTypeOK
  <2>2. marker' \in 1..MaxUncertain \union {Nil}
    BY <1>2, <2>1 DEF ReadTimesOut, Record, FilesTyped, FilesTypeOK
  <2>3. [pid |-> lost + 1, cmd |-> ReadCommand, on |-> Nil, alive |-> TRUE, marked |-> TRUE] \in Operations
    BY <2>1 DEF Operations, Operation
  <2>4. inflight' \subseteq Operations
    BY <1>2, <2>3 DEF ReadTimesOut, FilesTyped, HostTypeOK
  <2>5. FilesTyped'
    BY <1>2, <2>1, <2>2, <2>4 DEF ReadTimesOut, FilesTyped, FilesTypeOK, HostTypeOK, pciVars, domVars, unitVars
  <2>6. QED BY <1>0, <1>2, <2>5, ExitTyped DEF ReadTimesOut
<1>3. CASE AppStarts
  BY <1>0, <1>3 DEF AppStarts, FilesTyped, FilesTypeOK, HostTypeOK, pciVars, domVars, unitVars, files
<1>4. CASE BeginHostShutdown /\ UNCHANGED <<files, local, calm>>
  BY <1>0, <1>4 DEF BeginHostShutdown, FilesTyped, FilesTypeOK, HostTypeOK, pciVars, domVars, unitVars, files
<1>5. CASE HostReboots
  <2>0. boot' \in 0..MaxBoot
    <3>1. boot \in 0..MaxBoot /\ boot < MaxBoot /\ boot' = boot + 1
      BY <1>5 DEF HostReboots, Reboot, FilesTyped, HostTypeOK
    <3>2. QED BY <3>1
  <2>1. HostTypeOK'
    <3>1. HostTypeOK /\ Reboot
      BY <1>5 DEF HostReboots, FilesTyped
    <3>2. driver' \in [Gpus -> {"nvidia", "vfio-pci", "none"}] /\ override' \in [Gpus -> {"", "vfio-pci"}]
          /\ power' \in [Gpus -> {"saved", "on"}] /\ dom' \in [Vms -> {"off", "cpu", "gpu"}]
      BY <3>1 DEF Reboot
    <3>3. /\ asked' = {} /\ up' = {} /\ booting' = Units /\ routes' = FALSE /\ apps' = FALSE
          /\ sysStopping' = FALSE /\ inflight' = {} /\ defn' = defn /\ cfgMode' = cfgMode
      BY <3>1 DEF Reboot
    <3>4. defn' \in [Vms -> {"cpu", "gpu"}] /\ cfgMode' \in {"mode0", "mode1", "torn"}
      BY <3>1, <3>3 DEF HostTypeOK
    <3>5. QED BY <2>0, <3>2, <3>3, <3>4 DEF HostTypeOK
  <2>2. QED BY <1>5, <2>1, ExitTyped DEF HostReboots, FilesTyped, FilesTypeOK, files
<1>6. QED BY <1>1, <1>2, <1>3, <1>4, <1>5 DEF Accidents

(***************************************************************************)
(* Every variable keeps its type, for all constants.                       *)
(***************************************************************************)
Typed == FilesTyped /\ LocalTyped

LEMMA TypedInit == Init => Typed
<1> SUFFICES ASSUME Init PROVE Typed
  OBVIOUS
<1> USE DEF Init
<1>0. 0 \in 0..MaxBoot /\ 0 \in 0..MaxUncertain
  BY HostAssumption DEF HostAssumption
<1>1. HostTypeOK
  <2>1. /\ driver \in [Gpus -> {"nvidia", "vfio-pci", "none"}] /\ override \in [Gpus -> {"", "vfio-pci"}]
        /\ power \in [Gpus -> {"saved", "on"}] /\ dom \in [Vms -> {"off", "cpu", "gpu"}]
        /\ defn \in [Vms -> {"cpu", "gpu"}]
    BY DEF HostInit
  <2>2. routes \in BOOLEAN
    BY DEF HostInit
  <2>3. /\ asked = {} /\ up \subseteq Units /\ booting \subseteq Units /\ cfgMode = "mode0"
        /\ apps = FALSE /\ boot = 0 /\ sysStopping = FALSE /\ inflight = {}
    BY DEF HostInit
  <2>4. QED BY <1>0, <2>1, <2>2, <2>3 DEF HostTypeOK
<1>2. FilesTypeOK
  <2>1. saved \in SavedType
    BY <1>0 DEF SavedType, Phases
  <2>2. QED BY <1>0, <2>1 DEF FilesTypeOK, SavedType
<1>3. LocalTyped
  BY DEF LocalTyped, LocalTypeOK, LoopsTyped, Fit, NoCall, Labels, GpuBody, GpuLoops, VmBody, VmLoops,
         UnitLoops, RestartLabels
<1>4. QED BY <1>1, <1>2, <1>3 DEF Typed, FilesTyped

LEMMA TypedNext == Typed /\ [Next]_vars => Typed'
<1> SUFFICES ASSUME Typed, [Next]_vars PROVE Typed'
  OBVIOUS
<1>0. FilesTyped /\ LocalTyped /\ HostTypeOK /\ saved \in SavedType
  BY DEF Typed, FilesTyped, FilesTypeOK, SavedType
<1>1. CASE Invoke
  BY <1>0, <1>1, InvokeTyped DEF Typed
<1>2. CASE ManagerStep
  <2>1. LocalTyped'
    BY <1>0, <1>2, StartLocalTyped, RestartLocalTyped, ShutdownLocalTyped, RestoreLocalTyped DEF ManagerStep
  <2>2. FilesStep
    BY <1>0, <1>2, StartFilesStep, RestartFilesStep, ShutdownFilesStep, RestoreFilesStep DEF ManagerStep
  <2>3. QED BY <1>0, <2>1, <2>2, FilesStepTyped DEF Typed
<1>3. CASE Accidents
  BY <1>0, <1>3, AccidentsTyped DEF Typed
<1>4. CASE HostStep
  BY <1>0, <1>4, HostStepTyped DEF Typed
<1>5. CASE FaultsStop
  <2>1. HostTypeOK' /\ LocalTyped'
    BY <1>0, <1>5, HostSame, LocalSame DEF FaultsStop
  <2>2. FilesTypeOK'
    BY <1>0, <1>5 DEF FaultsStop, FilesTyped, FilesTypeOK, files
  <2>3. QED BY <2>1, <2>2 DEF Typed, FilesTyped
<1>6. CASE UNCHANGED vars
  <2>1. HostTypeOK' /\ LocalTyped'
    BY <1>0, <1>6, HostSame, LocalSame DEF vars
  <2>2. FilesTypeOK'
    BY <1>0, <1>6 DEF vars, FilesTyped, FilesTypeOK, files
  <2>3. QED BY <2>1, <2>2 DEF Typed, FilesTyped
<1>7. QED BY <1>1, <1>2, <1>3, <1>4, <1>5, <1>6 DEF Next

LEMMA AlwaysTyped == Spec => []Typed
BY TypedInit, TypedNext, PTL DEF Spec

(* Every variable keeps its type: the manager's loop variables always range  *)
(* over what the command it is about to run is about.                        *)
THEOREM TypeCorrect == Spec => []TypeOK
<1>1. Typed => TypeOK
  BY DEF Typed, FilesTyped, LocalTyped, TypeOK
<1>2. QED BY <1>1, AlwaysTyped, PTL

(***************************************************************************)
(* None of the safety properties is inductive: a late unbind is harmless   *)
(* only because the phase on disk keeps the next invocations from          *)
(* launching a guest, and the phase is written only when nothing is in     *)
(* flight on a GPU.  The invariant below says, for every statement of the  *)
(* manager, which phase is on disk, which guests are released, and which   *)
(* GPUs are settled.                                                       *)
(***************************************************************************)

ShutdownLabels == {"shutdown", "shutdown.ask", "shutdown.wait", "shutdown.owners", "owners"}

BindingLabels == {"start.device", "start.power", "start.override", "start.unbind", "start.probe",
                  "start.bound", "start.launching"}

LaunchingLabels == {"start.define", "start.launch", "start.confirm", "verify", "commit"}

(* The end of restore_configuration(), after the last sysfs write. *)
RestoreTail == {"restore.config", "restore.define", "restore.units", "restore.identities",
                "restore.guests", "restore.done"}

RestoreLabels == {"restore", "restore.quiesce", "restore.stopfm", "restore.device", "restore.unbind",
                  "restore.override", "restore.probe", "restore.bound", "restore.power"}
                 \union RestoreTail

(* Between no_guest_owners() and the first launch. *)
Window == ({"start.clients", "start.stopfm", "start.mode1", "start.startfm", "start.partitions",
            "start.quietfm", "start.audit", "start.binding"} \union BindingLabels \union RestoreLabels)
          \ {"restore.guests", "restore.done"}

(* The phase on disk at each statement. *)
PhaseKnown ==
    /\ pc \in {"start", "start.newboot", "start.phase", "start.claim"} => call.cmd = "start"
    /\ pc = "stop" => call.cmd = "stop"
    /\ pc = "start.claim" => saved.phase \in {"prepared", "stopped"}
    /\ pc \in ShutdownLabels =>
          \/ call.cmd = "start" /\ saved.phase = "starting"
          \/ call.cmd = "stop" /\ saved.phase = "stopping"
          \/ call.cmd = "restart" /\ saved.phase = "restarting"
    /\ pc \in BindingLabels => saved.phase = "binding-gpus"
    /\ pc \in RestoreLabels => saved.phase \in {"stopping", "normalizing-new-boot"}
    /\ pc \in LaunchingLabels => saved.phase \in {"starting-guests", "restarting"}
    /\ pc = "restart.claim" => saved.phase = "running"
    /\ pc \in {"restart.resume", "restart.launch"} => saved.phase = "restarting"

(* The guests that are off, and stay off until the manager launches them. *)
GuestsReleased ==
    /\ pc \in Window => Released(Vms)
    /\ pc \in {"start.define", "start.launch"} => Released(todo)
    /\ pc = "start.launch" => Released({cur})
    /\ pc = "start.confirm" => Released(todo \ {cur})
    /\ pc = "restart.launch" => Released({call.guest})

(* No sysfs write to g is in flight. *)
GpuSettled(g) == \A o \in inflight : o.cmd \in GpuCommands => o.on # g

GpusSettled ==
    /\ pc \in GpuLoops => \A g \in Gpus \ todo : GpuSettled(g)
    /\ pc = "start.bound" => GpuSettled(cur)
    /\ pc \in RestoreTail \union {"start.launching"} => \A g \in Gpus : GpuSettled(g)

(* A late unbind finds no guest to hurt. *)
LateUnbindHarmless == (\E o \in inflight : o.cmd = "unbind") => Released(Vms)

IInv ==
    /\ Typed
    /\ PhaseKnown
    /\ GuestsReleased
    /\ GpusSettled
    /\ LateWritesAreAnnounced
    /\ LateUnbindHarmless
    /\ GuestGpusStayVfio
--------------------------------------------------------------------------------
(* What one command can do to what the invariant speaks of. *)

Tried(c, x) == Succeed(c, x) \/ Fail(c, x) \/ Lose(c, x)

(* No command writes the manifest, and a command that is lost ends the      *)
(* invocation with one more operation in flight.                            *)
LEMMA TriedKeepsPhase ==
    ASSUME NEW c, NEW x, Tried(c, x)
    PROVE  saved' = saved /\ boot' = boot
BY DEF Tried, Succeed, Fail, Lose, files, hostVars

LEMMA TriedInflight ==
    ASSUME NEW c, NEW x, Tried(c, x)
    PROVE  \A o \in inflight' : o \in inflight \/ (Lose(c, x) /\ o.cmd = c /\ o.on = x)
BY DEF Tried, Succeed, Fail, Lose, hostVars

(* Only a start command can end that guests are released. *)
LEMMA TriedReleased ==
    ASSUME HostTypeOK, NEW c, NEW x, Fits(c, x), Tried(c, x),
           NEW vs \in SUBSET Vms, Released(vs), c = "start" => x \notin vs
    PROVE  Released(vs)'
<1>1. \A v \in vs : ~Starting(v)'
  <2> SUFFICES ASSUME NEW v \in vs, NEW o \in inflight', o.cmd = "start", o.on = v PROVE FALSE
    BY DEF Starting, InFlight
  <2>1. o \notin inflight
    BY DEF Released, Starting, InFlight
  <2>2. QED BY <2>1, TriedInflight
<1>2. ASSUME NEW v \in vs PROVE dom'[v] = "off"
  <2>1. CASE Fail(c, x) \/ Lose(c, x)
    BY <2>1 DEF Fail, Lose, hostVars, domVars, Released
  <2>2. CASE Succeed(c, x)
    <3>1. Effect(c, x)
      BY <2>2 DEF Succeed
    <3>2. CASE c = "start"
      <4>1. dom' = [dom EXCEPT ![x] = defn[x]] /\ x # v
        BY <1>2, <3>1, <3>2 DEF Effect, VmEffect, GpuCommands, UnitCommands
      <4>2. QED BY <4>1 DEF HostTypeOK, Released
    <3>3. CASE c # "start"
      BY <3>1, <3>3 DEF Effect, VmEffect, domVars, Released
    <3>4. QED BY <3>2, <3>3
  <2>3. QED BY <2>1, <2>2 DEF Tried
<1>3. QED BY <1>1, <1>2 DEF Released

(* A command that does not write to a GPU leaves settled GPUs settled. *)
LEMMA TriedSettled ==
    ASSUME NEW c, NEW x, Tried(c, x), NEW g, GpuSettled(g), c \in GpuCommands => ~Lose(c, x) \/ x # g
    PROVE  GpuSettled(g)'
BY TriedInflight DEF GpuSettled

(* A command succeeds on a GPU only when nothing else is in flight on it. *)
LEMMA SucceedSettled ==
    ASSUME NEW c, NEW g, Succeed(c, g)
    PROVE  GpuSettled(g) /\ GpuSettled(g)'
BY DEF Succeed, Settled, GpuSettled

(* What a command does leaves every guest its GPUs, unless it is an unbind  *)
(* while guests run.                                                        *)
LEMMA EffectKeepsGpus ==
    ASSUME HostTypeOK, GuestGpusStayVfio, NEW c, NEW x, Fits(c, x), Possible(c, x), Effect(c, x),
           c = "unbind" => Released(Vms)
    PROVE  GuestGpusStayVfio'
<1> USE HostAssumption DEF HostAssumption
<1>1. CASE c = "unbind"
  <2>1. dom' = dom
    BY <1>1 DEF Effect, VmCommands, UnitCommands, domVars
  <2>2. QED BY <1>1, <2>1 DEF GuestGpusStayVfio, Released
<1>2. CASE c \in GpuCommands /\ c # "unbind"
  <2>1. dom' = dom
    BY <1>2 DEF Effect, GpuCommands, VmCommands, UnitCommands, domVars
  <2>2. \A g \in Gpus : driver[g] = "vfio-pci" => driver'[g] = "vfio-pci"
    BY <1>2 DEF Effect, GpuEffect, GpuCommands, VmCommands, UnitCommands, Probed, HostTypeOK
  <2>3. QED BY <2>1, <2>2 DEF GuestGpusStayVfio, Assigned
<1>3. CASE c = "start"
  <2>1. driver' = driver /\ dom' = [dom EXCEPT ![x] = defn[x]]
    BY <1>3 DEF Effect, VmEffect, GpuCommands, UnitCommands, pciVars
  <2>2. defn[x] = "gpu" => Assigned(x)
    BY <1>3 DEF Possible
  <2>3. QED BY <2>1, <2>2 DEF GuestGpusStayVfio, Assigned, HostTypeOK
<1>4. CASE c \in (VmCommands \union UnitCommands) \ {"start"}
  <2>1. driver' = driver /\ dom' = dom
    BY <1>4 DEF Effect, VmEffect, GpuCommands, VmCommands, UnitCommands, pciVars, domVars
  <2>2. QED BY <2>1 DEF GuestGpusStayVfio, Assigned
<1>5. QED BY <1>1, <1>2, <1>3, <1>4 DEF Fits

LEMMA TriedKeepsGpus ==
    ASSUME HostTypeOK, GuestGpusStayVfio, NEW c, NEW x, Fits(c, x), Tried(c, x),
           c = "unbind" => Released(Vms)
    PROVE  GuestGpusStayVfio'
<1>1. CASE Succeed(c, x)
  BY <1>1, EffectKeepsGpus DEF Succeed
<1>2. CASE Fail(c, x) \/ Lose(c, x)
  BY <1>2 DEF Fail, Lose, hostVars, pciVars, domVars, GuestGpusStayVfio, Assigned
<1>3. QED BY <1>1, <1>2 DEF Tried

(* Steps that leave domains, GPUs and operations alone. *)
Untouched == UNCHANGED <<driver, dom, inflight>>

LEMMA UntouchedKeeps ==
    ASSUME Untouched
    PROVE  /\ \A vs : Released(vs) => Released(vs)'
           /\ \A g : GpuSettled(g) => GpuSettled(g)'
           /\ LateUnbindHarmless => LateUnbindHarmless'
           /\ GuestGpusStayVfio => GuestGpusStayVfio'
BY DEF Untouched, Released, Starting, InFlight, GpuSettled, LateUnbindHarmless, GuestGpusStayVfio, Assigned

LEMMA FilesStepUntouched == FilesStep => Untouched \/ CommandStep
BY DEF FilesStep, Quiet, CheckpointStep, Checkpoint, ConfigStep, Untouched, hostVars, pciVars, domVars

--------------------------------------------------------------------------------
(* The phase follows the program counter. *)

LEMMA CheckpointPhase ==
    ASSUME saved \in SavedType, NEW phase, NEW guest, Checkpoint(phase, guest)
    PROVE  saved'.phase = phase /\ boot' = boot /\ Untouched
BY DEF Checkpoint, SavedType, Untouched, hostVars, pciVars, domVars

LEMMA IdlePhase == pc' = "idle" => PhaseKnown'
BY DEF PhaseKnown, ShutdownLabels, BindingLabels, LaunchingLabels, RestoreLabels, RestoreTail

(* start() runs under the phases it wrote. *)
LEMMA StartPhaseKnown == Typed /\ PhaseKnown /\ StartStep => PhaseKnown'
<1> SUFFICES ASSUME Typed, PhaseKnown, StartStep PROVE PhaseKnown'
  OBVIOUS
<1> USE IdlePhase DEF Exit, Goto, Loop, Again, files, PhaseKnown, ShutdownLabels, BindingLabels, LaunchingLabels,
        RestoreLabels, RestoreTail
<1>0. LoopsTyped /\ HostTypeOK /\ saved \in SavedType
  BY DEF Typed, FilesTyped, FilesTypeOK, LocalTyped, SavedType
<1>1. CASE StartChecks \/ StartPhase \/ StartPartitions \/ StartAudit
  BY <1>0, <1>1 DEF StartChecks, StartPhase, StartPartitions, StartAudit, Check
<1>2. CASE StartBound \/ StartConfirm \/ Verify
  BY <1>0, <1>2 DEF StartBound, StartConfirm, Verify, Check
<1>3. CASE StartNormalizes \/ StartClaims
  BY <1>0, <1>3, CheckpointPhase DEF StartNormalizes, StartClaims
<1>4. CASE StartBinding \/ StartLaunching \/ Commit
  BY <1>0, <1>4, CheckpointPhase DEF StartBinding, StartLaunching, Commit
<1>5. CASE StopClientServices \/ StartStopsFm \/ StartStartsFm \/ StartQuietsFm
  BY <1>0, <1>5, TriedKeepsPhase DEF StopClientServices, StartStopsFm, StartStartsFm, StartQuietsFm, Run, Tried
<1>6. CASE StartWritesMode1
  BY <1>0, <1>6 DEF StartWritesMode1, WriteConfig
<1>7. CASE StartDevice
  BY <1>0, <1>7 DEF StartDevice
<1>8. CASE StartPower \/ StartOverride \/ StartUnbind \/ StartProbe
  BY <1>0, <1>8, TriedKeepsPhase DEF StartPower, StartOverride, StartUnbind, StartProbe, Run, Tried
<1>9. CASE StartDefine \/ StartLaunch
  BY <1>0, <1>9, TriedKeepsPhase DEF StartDefine, StartLaunch, Run, Tried
<1>10. QED
  BY <1>1, <1>2, <1>3, <1>4, <1>5, <1>6, <1>7, <1>8, <1>9 DEF StartStep

(* restart() runs under the phases it wrote. *)
LEMMA RestartPhaseKnown == Typed /\ PhaseKnown /\ RestartStep => PhaseKnown'
<1> SUFFICES ASSUME Typed, PhaseKnown, RestartStep PROVE PhaseKnown'
  OBVIOUS
<1> USE IdlePhase DEF Exit, Goto, Loop, Again, files, PhaseKnown, ShutdownLabels, BindingLabels, LaunchingLabels,
        RestoreLabels, RestoreTail
<1>0. LoopsTyped /\ HostTypeOK /\ saved \in SavedType
  BY DEF Typed, FilesTyped, FilesTypeOK, LocalTyped, SavedType
<1>1. CASE RestartChecks \/ RestartResumes
  BY <1>0, <1>1 DEF RestartChecks, RestartResumes, LoopsTyped, RestartLabels, Resuming, Check
<1>2. CASE RestartClaims
  BY <1>0, <1>2, CheckpointPhase DEF RestartClaims, LoopsTyped, RestartLabels
<1>3. CASE RestartLaunches
  BY <1>0, <1>3, TriedKeepsPhase DEF RestartLaunches, Run, Tried
<1>4. QED
  BY <1>1, <1>2, <1>3 DEF RestartStep

(* stop() and shutdown() runs under the phases it wrote. *)
LEMMA ShutdownPhaseKnown == Typed /\ PhaseKnown /\ ShutdownStep => PhaseKnown'
<1> SUFFICES ASSUME Typed, PhaseKnown, ShutdownStep PROVE PhaseKnown'
  OBVIOUS
<1> USE IdlePhase DEF Exit, Goto, Loop, Again, files, PhaseKnown, ShutdownLabels, BindingLabels, LaunchingLabels,
        RestoreLabels, RestoreTail
<1>0. LoopsTyped /\ HostTypeOK /\ saved \in SavedType
  BY DEF Typed, FilesTyped, FilesTypeOK, LocalTyped, SavedType
<1>1. CASE StopClaims
  BY <1>0, <1>1, CheckpointPhase DEF StopClaims
<1>2. CASE ShutdownNext \/ ShutdownWaits \/ ShutdownOwners
  BY <1>0, <1>2 DEF ShutdownNext, ShutdownWaits, ShutdownOwners, Check
<1>3. CASE ShutdownAsks
  BY <1>0, <1>3, TriedKeepsPhase DEF ShutdownAsks, Run, Tried
<1>4. CASE Owners
  BY <1>0, <1>4 DEF Owners, AfterOwners, Check
<1>5. QED
  BY <1>1, <1>2, <1>3, <1>4 DEF ShutdownStep

(* restore_configuration() runs under the phases it wrote. *)
LEMMA RestorePhaseKnown == Typed /\ PhaseKnown /\ RestoreStep => PhaseKnown'
<1> SUFFICES ASSUME Typed, PhaseKnown, RestoreStep PROVE PhaseKnown'
  OBVIOUS
<1> USE IdlePhase DEF Exit, Goto, Loop, Again, files, PhaseKnown, ShutdownLabels, BindingLabels, LaunchingLabels,
        RestoreLabels, RestoreTail
<1>0. LoopsTyped /\ HostTypeOK /\ saved \in SavedType
  BY DEF Typed, FilesTyped, FilesTypeOK, LocalTyped, SavedType
<1>1. CASE Restore \/ RestoreQuiesce \/ RestoreDevice
  BY <1>0, <1>1 DEF Restore, RestoreQuiesce, RestoreDevice, LocalTyped, LocalTypeOK, Check
<1>2. CASE RestoreBound \/ RestoreIdentities
  BY <1>0, <1>2 DEF RestoreBound, RestoreIdentities, Check
<1>3. CASE RestoreStopsFm \/ RestoreUnbind \/ RestoreOverride \/ RestoreProbe \/ RestorePower
  BY <1>0, <1>3, TriedKeepsPhase DEF RestoreStopsFm, RestoreUnbind, RestoreOverride, RestoreProbe, RestorePower, Run, Tried
<1>4. CASE RestoreConfig
  BY <1>0, <1>4 DEF RestoreConfig, WriteConfig
<1>5. CASE RestoreDefine \/ RestoreGuests
  BY <1>0, <1>5, TriedKeepsPhase DEF RestoreDefine, RestoreGuests, Run, Tried
<1>6. CASE RestoreUnits
  BY <1>0, <1>6, TriedKeepsPhase DEF RestoreUnits, Run, Tried
<1>7. CASE RestoreDone
  BY <1>0, <1>7, CheckpointPhase DEF RestoreDone
<1>8. QED
  BY <1>1, <1>2, <1>3, <1>4, <1>5, <1>6, <1>7 DEF RestoreStep

--------------------------------------------------------------------------------
(* Guests stay released. *)

LEMMA IdleReleased == pc' = "idle" => GuestsReleased'
BY DEF GuestsReleased, Window, BindingLabels, RestoreLabels, RestoreTail

(* What is released stays released over a step of the manager that launches *)
(* no guest.                                                                *)
KeepsReleased == \A vs \in SUBSET Vms : Released(vs) => Released(vs)'

LEMMA UntouchedReleased == Untouched => KeepsReleased
BY UntouchedKeeps DEF KeepsReleased

LEMMA OtherCommandReleased ==
    ASSUME HostTypeOK, NEW c, NEW x, Fits(c, x), Tried(c, x), c # "start"
    PROVE  KeepsReleased
BY TriedReleased DEF KeepsReleased

LEMMA FewerReleased ==
    ASSUME NEW vs, Released(vs), NEW ws \in SUBSET vs
    PROVE  Released(ws)
BY DEF Released

(* start() launches a guest only after it left the window. *)
LEMMA StartGuestsReleased == Typed /\ PhaseKnown /\ GuestsReleased /\ StartStep => GuestsReleased'
<1> SUFFICES ASSUME Typed, PhaseKnown, GuestsReleased, StartStep PROVE GuestsReleased'
  OBVIOUS
<1> USE IdleReleased DEF Exit, Goto, Loop, Again, GuestsReleased, Window, BindingLabels, RestoreLabels, RestoreTail, KeepsReleased, LoopsTyped, Fit,
        GpuBody, GpuLoops, VmBody, VmLoops, UnitLoops
<1>0. LoopsTyped /\ HostTypeOK /\ saved \in SavedType
  BY DEF Typed, FilesTyped, FilesTypeOK, LocalTyped, SavedType
<1>1. CASE StartChecks \/ StartPhase \/ StartPartitions \/ StartAudit
  BY <1>0, <1>1, UntouchedReleased DEF StartChecks, StartPhase, StartPartitions, StartAudit, Check, Untouched, hostVars, pciVars, domVars
<1>2. CASE StartBound \/ StartConfirm \/ Verify
  BY <1>0, <1>2, UntouchedReleased DEF StartBound, StartConfirm, Verify, Check, Untouched, hostVars, pciVars, domVars
<1>3. CASE StartNormalizes \/ StartClaims
  BY <1>0, <1>3, CheckpointPhase, UntouchedReleased DEF StartNormalizes, StartClaims, NoGuestOwners, Untouched, hostVars, pciVars, domVars
<1>4. CASE StartBinding \/ StartLaunching \/ Commit
  BY <1>0, <1>4, CheckpointPhase, UntouchedReleased DEF StartBinding, StartLaunching, Commit
<1>5. CASE StopClientServices
  BY <1>0, <1>5, OtherCommandReleased, CommandsFit, UntouchedReleased DEF StopClientServices, Run, Tried, Untouched, hostVars, pciVars, domVars
<1>6. CASE StartStopsFm \/ StartStartsFm \/ StartQuietsFm
  BY <1>0, <1>6, OtherCommandReleased, CommandsFit DEF StartStopsFm, StartStartsFm, StartQuietsFm, Run, Tried
<1>7. CASE StartWritesMode1
  BY <1>0, <1>7, UntouchedReleased DEF StartWritesMode1, WriteConfig, Untouched, hostVars, pciVars, domVars
<1>8. CASE StartDevice
  BY <1>0, <1>8, UntouchedReleased DEF StartDevice, Untouched, hostVars, pciVars, domVars
<1>9. CASE StartPower \/ StartOverride \/ StartUnbind \/ StartProbe
  BY <1>0, <1>9, OtherCommandReleased, CommandsFit DEF StartPower, StartOverride, StartUnbind, StartProbe, Run, Tried
<1>10. CASE StartDefine
  <2>1. CASE Goto("verify")
    BY <2>1
  <2>2. ASSUME NEW v \in todo, Tried("define-gpu", v), pc' = "start.launch", cur' = v, todo' = todo
        PROVE  GuestsReleased'
    <3>1. KeepsReleased /\ todo \in SUBSET Vms /\ Released(todo)
      BY <1>0, <1>10, <2>2, OtherCommandReleased, CommandsFit DEF StartDefine
    <3>2. Released({v})
      BY <3>1, FewerReleased
    <3>3. QED BY <2>2, <3>1, <3>2
  <2>3. QED BY <1>10, <2>1, <2>2 DEF StartDefine, Run, Tried
<1>11. CASE StartLaunch
  BY <1>0, <1>11, TriedReleased, FewerReleased, CommandsFit DEF StartLaunch, Run, Tried
<1>12. QED
  BY <1>1, <1>2, <1>3, <1>4, <1>5, <1>6, <1>7, <1>8, <1>9, <1>10, <1>11 DEF StartStep

(* restart() launches its guest only after it was found gone. *)
LEMMA RestartGuestsReleased == Typed /\ PhaseKnown /\ GuestsReleased /\ RestartStep => GuestsReleased'
<1> SUFFICES ASSUME Typed, PhaseKnown, GuestsReleased, RestartStep PROVE GuestsReleased'
  OBVIOUS
<1> USE IdleReleased DEF Exit, Goto, Loop, Again, GuestsReleased, Window, BindingLabels, RestoreLabels, RestoreTail, KeepsReleased, LoopsTyped, Fit,
        GpuBody, GpuLoops, VmBody, VmLoops, UnitLoops
<1>0. LoopsTyped /\ HostTypeOK /\ saved \in SavedType
  BY DEF Typed, FilesTyped, FilesTypeOK, LocalTyped, SavedType
<1>1. CASE RestartChecks \/ RestartResumes
  BY <1>0, <1>1, UntouchedReleased DEF RestartChecks, RestartResumes, Check, Untouched, hostVars, pciVars, domVars
<1>2. CASE RestartClaims
  BY <1>0, <1>2, CheckpointPhase, UntouchedReleased DEF RestartClaims
<1>3. CASE RestartLaunches
  BY <1>0, <1>3, TriedReleased, CommandsFit DEF RestartLaunches, Run, Tried
<1>4. QED
  BY <1>1, <1>2, <1>3 DEF RestartStep

(* no_guest_owners() opens the window. *)
LEMMA ShutdownGuestsReleased == Typed /\ PhaseKnown /\ GuestsReleased /\ ShutdownStep => GuestsReleased'
<1> SUFFICES ASSUME Typed, PhaseKnown, GuestsReleased, ShutdownStep PROVE GuestsReleased'
  OBVIOUS
<1> USE IdleReleased DEF Exit, Goto, Loop, Again, GuestsReleased, Window, BindingLabels, RestoreLabels, RestoreTail, KeepsReleased, LoopsTyped, Fit,
        GpuBody, GpuLoops, VmBody, VmLoops, UnitLoops
<1>0. LoopsTyped /\ HostTypeOK /\ saved \in SavedType
  BY DEF Typed, FilesTyped, FilesTypeOK, LocalTyped, SavedType
<1>1. CASE StopClaims
  BY <1>0, <1>1, CheckpointPhase, UntouchedReleased DEF StopClaims
<1>2. CASE ShutdownNext \/ ShutdownWaits \/ ShutdownOwners
  BY <1>0, <1>2, UntouchedReleased DEF ShutdownNext, ShutdownWaits, ShutdownOwners, Check, Untouched, hostVars, pciVars, domVars
<1>3. CASE ShutdownAsks
  BY <1>0, <1>3, OtherCommandReleased, CommandsFit DEF ShutdownAsks, Run, Tried
<1>4. CASE Owners
  BY <1>0, <1>4, UntouchedReleased DEF Owners, AfterOwners, Check, NoGuestOwners, Untouched, hostVars, pciVars, domVars
<1>5. QED
  BY <1>1, <1>2, <1>3, <1>4 DEF ShutdownStep

(* restore_configuration() launches nothing before its last two statements. *)
LEMMA RestoreGuestsReleased == Typed /\ PhaseKnown /\ GuestsReleased /\ RestoreStep => GuestsReleased'
<1> SUFFICES ASSUME Typed, PhaseKnown, GuestsReleased, RestoreStep PROVE GuestsReleased'
  OBVIOUS
<1> USE IdleReleased DEF Exit, Goto, Loop, Again, GuestsReleased, Window, BindingLabels, RestoreLabels, RestoreTail, KeepsReleased, LoopsTyped, Fit,
        GpuBody, GpuLoops, VmBody, VmLoops, UnitLoops
<1>0. LoopsTyped /\ HostTypeOK /\ saved \in SavedType
  BY DEF Typed, FilesTyped, FilesTypeOK, LocalTyped, SavedType
<1>1. CASE Restore \/ RestoreQuiesce \/ RestoreDevice
  BY <1>0, <1>1, UntouchedReleased DEF Restore, RestoreQuiesce, RestoreDevice, Check, Untouched, hostVars, pciVars, domVars
<1>2. CASE RestoreBound \/ RestoreIdentities
  BY <1>0, <1>2, UntouchedReleased DEF RestoreBound, RestoreIdentities, Check, Untouched, hostVars, pciVars, domVars
<1>3. CASE RestoreStopsFm \/ RestoreUnbind \/ RestoreOverride \/ RestoreProbe \/ RestorePower
  BY <1>0, <1>3, OtherCommandReleased, CommandsFit DEF RestoreStopsFm, RestoreUnbind, RestoreOverride, RestoreProbe, RestorePower, Run, Tried
<1>4. CASE RestoreConfig
  BY <1>0, <1>4, UntouchedReleased DEF RestoreConfig, WriteConfig, Untouched, hostVars, pciVars, domVars
<1>5. CASE RestoreDefine
  BY <1>0, <1>5, OtherCommandReleased, CommandsFit, UntouchedReleased DEF RestoreDefine, Run, Tried, Untouched, hostVars, pciVars, domVars
<1>6. CASE RestoreGuests
  BY <1>0, <1>6 DEF RestoreGuests, Run
<1>7. CASE RestoreUnits
  BY <1>0, <1>7, OtherCommandReleased, CommandsFit, UntouchedReleased DEF RestoreUnits, Run, Tried, Untouched, hostVars, pciVars, domVars
<1>8. CASE RestoreDone
  BY <1>0, <1>8, CheckpointPhase, UntouchedReleased DEF RestoreDone
<1>9. QED
  BY <1>1, <1>2, <1>3, <1>4, <1>5, <1>6, <1>7, <1>8 DEF RestoreStep

--------------------------------------------------------------------------------
(* GPUs are settled as the loops leave them. *)

LEMMA IdleSettled == pc' = "idle" => GpusSettled'
BY DEF GpusSettled, GpuLoops, GpuBody, RestoreTail

(* A command that succeeds settles its GPU, and unsettles none. *)
LEMMA SucceedKeepsSettled ==
    ASSUME NEW c, NEW x, Succeed(c, x)
    PROVE  /\ \A g : GpuSettled(g) => GpuSettled(g)'
           /\ GpuSettled(x)'
BY DEF Succeed, Settled, GpuSettled

(* start() reads the driver of a GPU back after its own writes to it ended. *)
LEMMA StartGpusSettled == Typed /\ PhaseKnown /\ GpusSettled /\ StartStep => GpusSettled'
<1> SUFFICES ASSUME Typed, PhaseKnown, GpusSettled, StartStep PROVE GpusSettled'
  OBVIOUS
<1> USE IdleSettled DEF Exit, Goto, Loop, Again, GpusSettled, RestoreTail, LoopsTyped, Fit,
        GpuBody, GpuLoops, VmBody, VmLoops, UnitLoops
<1>0. LoopsTyped /\ HostTypeOK /\ saved \in SavedType
  BY DEF Typed, FilesTyped, FilesTypeOK, LocalTyped, SavedType
<1>1. CASE StartChecks \/ StartPhase \/ StartPartitions \/ StartAudit
  BY <1>0, <1>1, UntouchedKeeps DEF StartChecks, StartPhase, StartPartitions, StartAudit, Check, Untouched, hostVars, pciVars, domVars
<1>2. CASE StartBound \/ StartConfirm \/ Verify
  BY <1>0, <1>2, UntouchedKeeps DEF StartBound, StartConfirm, Verify, Check, Untouched, hostVars, pciVars, domVars
<1>3. CASE StartNormalizes \/ StartClaims
  BY <1>0, <1>3, CheckpointPhase, UntouchedKeeps DEF StartNormalizes, StartClaims, Untouched, hostVars, pciVars, domVars
<1>4. CASE StartBinding \/ StartLaunching \/ Commit
  BY <1>0, <1>4, CheckpointPhase, UntouchedKeeps DEF StartBinding, StartLaunching, Commit
<1>5. CASE StopClientServices
  BY <1>0, <1>5, SucceedKeepsSettled, UntouchedKeeps DEF StopClientServices, Run, Untouched, hostVars, pciVars, domVars
<1>6. CASE StartStopsFm \/ StartStartsFm \/ StartQuietsFm
  BY <1>0, <1>6, SucceedKeepsSettled DEF StartStopsFm, StartStartsFm, StartQuietsFm, Run
<1>7. CASE StartWritesMode1
  BY <1>0, <1>7, UntouchedKeeps DEF StartWritesMode1, WriteConfig, Untouched, hostVars, pciVars, domVars
<1>8. CASE StartDevice
  BY <1>0, <1>8, UntouchedKeeps DEF StartDevice, Untouched, hostVars, pciVars, domVars
<1>9. CASE StartPower \/ StartOverride \/ StartUnbind \/ StartProbe
  BY <1>0, <1>9, SucceedKeepsSettled DEF StartPower, StartOverride, StartUnbind, StartProbe, Run
<1>10. CASE StartDefine
  BY <1>0, <1>10, SucceedKeepsSettled, UntouchedKeeps DEF StartDefine, Run, Untouched, hostVars, pciVars, domVars
<1>11. CASE StartLaunch
  BY <1>0, <1>11, SucceedKeepsSettled DEF StartLaunch, Run
<1>12. QED
  BY <1>1, <1>2, <1>3, <1>4, <1>5, <1>6, <1>7, <1>8, <1>9, <1>10, <1>11 DEF StartStep

(* restart() writes to no GPU. *)
LEMMA RestartGpusSettled == Typed /\ PhaseKnown /\ GpusSettled /\ RestartStep => GpusSettled'
<1> SUFFICES ASSUME Typed, PhaseKnown, GpusSettled, RestartStep PROVE GpusSettled'
  OBVIOUS
<1> USE IdleSettled DEF Exit, Goto, Loop, Again, GpusSettled, RestoreTail, LoopsTyped, Fit,
        GpuBody, GpuLoops, VmBody, VmLoops, UnitLoops
<1>0. LoopsTyped /\ HostTypeOK /\ saved \in SavedType
  BY DEF Typed, FilesTyped, FilesTypeOK, LocalTyped, SavedType
<1>1. CASE RestartChecks \/ RestartResumes
  BY <1>0, <1>1, UntouchedKeeps DEF RestartChecks, RestartResumes, Check, Untouched, hostVars, pciVars, domVars
<1>2. CASE RestartClaims
  BY <1>0, <1>2, CheckpointPhase, UntouchedKeeps DEF RestartClaims
<1>3. CASE RestartLaunches
  BY <1>0, <1>3, SucceedKeepsSettled DEF RestartLaunches, Run
<1>4. QED
  BY <1>1, <1>2, <1>3 DEF RestartStep

(* shutdown() writes to no GPU. *)
LEMMA ShutdownGpusSettled == Typed /\ PhaseKnown /\ GpusSettled /\ ShutdownStep => GpusSettled'
<1> SUFFICES ASSUME Typed, PhaseKnown, GpusSettled, ShutdownStep PROVE GpusSettled'
  OBVIOUS
<1> USE IdleSettled DEF Exit, Goto, Loop, Again, GpusSettled, RestoreTail, LoopsTyped, Fit,
        GpuBody, GpuLoops, VmBody, VmLoops, UnitLoops
<1>0. LoopsTyped /\ HostTypeOK /\ saved \in SavedType
  BY DEF Typed, FilesTyped, FilesTypeOK, LocalTyped, SavedType
<1>1. CASE StopClaims
  BY <1>0, <1>1, CheckpointPhase, UntouchedKeeps DEF StopClaims
<1>2. CASE ShutdownNext \/ ShutdownWaits \/ ShutdownOwners
  BY <1>0, <1>2, UntouchedKeeps DEF ShutdownNext, ShutdownWaits, ShutdownOwners, Check, Untouched, hostVars, pciVars, domVars
<1>3. CASE ShutdownAsks
  BY <1>0, <1>3, SucceedKeepsSettled DEF ShutdownAsks, Run
<1>4. CASE Owners
  BY <1>0, <1>4, UntouchedKeeps DEF Owners, AfterOwners, Check, Untouched, hostVars, pciVars, domVars
<1>5. QED
  BY <1>1, <1>2, <1>3, <1>4 DEF ShutdownStep

(* restore_configuration() ends every iteration with a write that succeeded. *)
LEMMA RestoreGpusSettled == Typed /\ PhaseKnown /\ GpusSettled /\ RestoreStep => GpusSettled'
<1> SUFFICES ASSUME Typed, PhaseKnown, GpusSettled, RestoreStep PROVE GpusSettled'
  OBVIOUS
<1> USE IdleSettled DEF Exit, Goto, Loop, Again, GpusSettled, RestoreTail, LoopsTyped, Fit,
        GpuBody, GpuLoops, VmBody, VmLoops, UnitLoops
<1>0. LoopsTyped /\ HostTypeOK /\ saved \in SavedType
  BY DEF Typed, FilesTyped, FilesTypeOK, LocalTyped, SavedType
<1>1. CASE Restore \/ RestoreQuiesce \/ RestoreDevice
  BY <1>0, <1>1, UntouchedKeeps DEF Restore, RestoreQuiesce, RestoreDevice, Check, Untouched, hostVars, pciVars, domVars
<1>2. CASE RestoreBound \/ RestoreIdentities
  BY <1>0, <1>2, UntouchedKeeps DEF RestoreBound, RestoreIdentities, Check, Untouched, hostVars, pciVars, domVars
<1>3. CASE RestoreStopsFm \/ RestoreUnbind \/ RestoreOverride \/ RestoreProbe \/ RestorePower
  BY <1>0, <1>3, SucceedKeepsSettled DEF RestoreStopsFm, RestoreUnbind, RestoreOverride, RestoreProbe, RestorePower, Run
<1>4. CASE RestoreConfig
  BY <1>0, <1>4, UntouchedKeeps DEF RestoreConfig, WriteConfig, Untouched, hostVars, pciVars, domVars
<1>5. CASE RestoreDefine
  BY <1>0, <1>5, SucceedKeepsSettled, UntouchedKeeps DEF RestoreDefine, Run, Untouched, hostVars, pciVars, domVars
<1>6. CASE RestoreGuests
  BY <1>0, <1>6, SucceedKeepsSettled, UntouchedKeeps DEF RestoreGuests, Run, Untouched, hostVars, pciVars, domVars
<1>7. CASE RestoreUnits
  BY <1>0, <1>7, SucceedKeepsSettled, UntouchedKeeps DEF RestoreUnits, Run, Untouched, hostVars, pciVars, domVars
<1>8. CASE RestoreDone
  BY <1>0, <1>8, CheckpointPhase, UntouchedKeeps DEF RestoreDone
<1>9. QED
  BY <1>1, <1>2, <1>3, <1>4, <1>5, <1>6, <1>7, <1>8 DEF RestoreStep

--------------------------------------------------------------------------------
(* The manager writes to GPUs, launches and changes phase only when it may. *)

SafeCommand(c, x) ==
    /\ Fits(c, x)
    /\ Tried(c, x)
    /\ c \in GpuCommands => saved.phase \in Rebinding /\ Released(Vms)
    /\ c = "start" => \A g \in Gpus : GpuSettled(g)

SafePhase ==
    \/ saved'.phase = saved.phase
    \/ saved'.phase \in Rebinding
    \/ \A g \in Gpus : GpuSettled(g)

SafeStep == (Untouched /\ SafePhase) \/ \E c, x : SafeCommand(c, x)

LEMMA ASafeStep ==
    ASSUME NEW c, NEW x, Tried(c, x), Fits(c, x),
           c \in GpuCommands => saved.phase \in Rebinding /\ Released(Vms),
           c = "start" => \A g \in Gpus : GpuSettled(g)
    PROVE  SafeStep
BY DEF SafeStep, SafeCommand

LEMMA AnnouncedSettled ==
    LateWritesAreAnnounced /\ saved.phase \notin Rebinding => \A g \in Gpus : GpuSettled(g)
BY DEF LateWritesAreAnnounced, GpuSettled

(* ... in start() *)
LEMMA StartSafe == Typed /\ PhaseKnown /\ GuestsReleased /\ GpusSettled /\ LateWritesAreAnnounced /\ StartStep => SafeStep
<1> SUFFICES ASSUME Typed, PhaseKnown, GuestsReleased, GpusSettled, LateWritesAreAnnounced, StartStep PROVE SafeStep
  OBVIOUS
<1> USE AnnouncedSettled DEF PhaseKnown, GuestsReleased, GpusSettled, SafePhase, Rebinding, Window, ShutdownLabels, BindingLabels, LaunchingLabels,
        RestoreLabels, RestoreTail, LoopsTyped, Fit, GpuBody, GpuLoops, VmBody, VmLoops, UnitLoops
<1>0. LoopsTyped /\ HostTypeOK /\ saved \in SavedType
  BY DEF Typed, FilesTyped, FilesTypeOK, LocalTyped, SavedType
<1>1. CASE StartChecks \/ StartPhase \/ StartPartitions \/ StartAudit
  BY <1>0, <1>1 DEF StartChecks, StartPhase, StartPartitions, StartAudit, Check, SafeStep, Untouched, hostVars, pciVars, domVars, files
<1>2. CASE StartBound \/ StartConfirm \/ Verify
  BY <1>0, <1>2 DEF StartBound, StartConfirm, Verify, Check, SafeStep, Untouched, hostVars, pciVars, domVars, files
<1>3. CASE StartNormalizes \/ StartClaims
  BY <1>0, <1>3, CheckpointPhase DEF StartNormalizes, StartClaims, SafeStep, Untouched, hostVars, pciVars, domVars, files
<1>4. CASE StartBinding \/ StartLaunching \/ Commit
  BY <1>0, <1>4, CheckpointPhase DEF StartBinding, StartLaunching, Commit, SafeStep
<1>5. CASE StopClientServices
  BY <1>0, <1>5, ASafeStep, CommandsFit DEF StopClientServices, Run, Tried, GpuCommands, SafeStep, Untouched, hostVars, pciVars, domVars, files
<1>6. CASE StartStopsFm \/ StartStartsFm \/ StartQuietsFm
  BY <1>0, <1>6, ASafeStep, CommandsFit DEF StartStopsFm, StartStartsFm, StartQuietsFm, Run, Tried, GpuCommands
<1>7. CASE StartWritesMode1
  BY <1>0, <1>7 DEF StartWritesMode1, WriteConfig, SafeStep, Untouched, hostVars, pciVars, domVars, files
<1>8. CASE StartDevice
  BY <1>0, <1>8 DEF StartDevice, SafeStep, Untouched, hostVars, pciVars, domVars, files
<1>9. CASE StartPower \/ StartOverride \/ StartUnbind \/ StartProbe
  BY <1>0, <1>9, ASafeStep, CommandsFit DEF StartPower, StartOverride, StartUnbind, StartProbe, Run, Tried, GpuCommands
<1>10. CASE StartDefine
  BY <1>0, <1>10, ASafeStep, CommandsFit DEF StartDefine, Run, Tried, GpuCommands, SafeStep, Untouched, hostVars, pciVars, domVars, files
<1>11. CASE StartLaunch
  BY <1>0, <1>11, ASafeStep, CommandsFit DEF StartLaunch, Run, Tried, GpuCommands
<1>12. QED
  BY <1>1, <1>2, <1>3, <1>4, <1>5, <1>6, <1>7, <1>8, <1>9, <1>10, <1>11 DEF StartStep

(* ... in restart() *)
LEMMA RestartSafe == Typed /\ PhaseKnown /\ GuestsReleased /\ GpusSettled /\ LateWritesAreAnnounced /\ RestartStep => SafeStep
<1> SUFFICES ASSUME Typed, PhaseKnown, GuestsReleased, GpusSettled, LateWritesAreAnnounced, RestartStep PROVE SafeStep
  OBVIOUS
<1> USE AnnouncedSettled DEF PhaseKnown, GuestsReleased, GpusSettled, SafePhase, Rebinding, Window, ShutdownLabels, BindingLabels, LaunchingLabels,
        RestoreLabels, RestoreTail, LoopsTyped, Fit, GpuBody, GpuLoops, VmBody, VmLoops, UnitLoops
<1>0. LoopsTyped /\ HostTypeOK /\ saved \in SavedType
  BY DEF Typed, FilesTyped, FilesTypeOK, LocalTyped, SavedType
<1>1. CASE RestartChecks \/ RestartResumes
  BY <1>0, <1>1 DEF RestartChecks, RestartResumes, Check, SafeStep, Untouched, hostVars, pciVars, domVars, files
<1>2. CASE RestartClaims
  BY <1>0, <1>2, CheckpointPhase DEF RestartClaims, SafeStep
<1>3. CASE RestartLaunches
  BY <1>0, <1>3, ASafeStep, CommandsFit DEF RestartLaunches, RestartLabels, Run, Tried, GpuCommands, SafeStep, Untouched, hostVars, pciVars, domVars, files
<1>4. QED
  BY <1>1, <1>2, <1>3 DEF RestartStep

(* ... in stop() and shutdown() *)
LEMMA ShutdownSafe == Typed /\ PhaseKnown /\ GuestsReleased /\ GpusSettled /\ LateWritesAreAnnounced /\ ShutdownStep => SafeStep
<1> SUFFICES ASSUME Typed, PhaseKnown, GuestsReleased, GpusSettled, LateWritesAreAnnounced, ShutdownStep PROVE SafeStep
  OBVIOUS
<1> USE AnnouncedSettled DEF PhaseKnown, GuestsReleased, GpusSettled, SafePhase, Rebinding, Window, ShutdownLabels, BindingLabels, LaunchingLabels,
        RestoreLabels, RestoreTail, LoopsTyped, Fit, GpuBody, GpuLoops, VmBody, VmLoops, UnitLoops
<1>0. LoopsTyped /\ HostTypeOK /\ saved \in SavedType
  BY DEF Typed, FilesTyped, FilesTypeOK, LocalTyped, SavedType
<1>1. CASE StopClaims
  BY <1>0, <1>1, CheckpointPhase DEF StopClaims, SafeStep
<1>2. CASE ShutdownNext \/ ShutdownWaits \/ ShutdownOwners
  BY <1>0, <1>2 DEF ShutdownNext, ShutdownWaits, ShutdownOwners, Check, SafeStep, Untouched, hostVars, pciVars, domVars, files
<1>3. CASE ShutdownAsks
  BY <1>0, <1>3, ASafeStep, CommandsFit DEF ShutdownAsks, Run, Tried, GpuCommands
<1>4. CASE Owners
  BY <1>0, <1>4 DEF Owners, Check, SafeStep, Untouched, hostVars, pciVars, domVars, files
<1>5. QED
  BY <1>1, <1>2, <1>3, <1>4 DEF ShutdownStep

(* ... in restore_configuration() *)
LEMMA RestoreSafe == Typed /\ PhaseKnown /\ GuestsReleased /\ GpusSettled /\ LateWritesAreAnnounced /\ RestoreStep => SafeStep
<1> SUFFICES ASSUME Typed, PhaseKnown, GuestsReleased, GpusSettled, LateWritesAreAnnounced, RestoreStep PROVE SafeStep
  OBVIOUS
<1> USE AnnouncedSettled DEF PhaseKnown, GuestsReleased, GpusSettled, SafePhase, Rebinding, Window, ShutdownLabels, BindingLabels, LaunchingLabels,
        RestoreLabels, RestoreTail, LoopsTyped, Fit, GpuBody, GpuLoops, VmBody, VmLoops, UnitLoops
<1>0. LoopsTyped /\ HostTypeOK /\ saved \in SavedType
  BY DEF Typed, FilesTyped, FilesTypeOK, LocalTyped, SavedType
<1>1. CASE Restore \/ RestoreQuiesce \/ RestoreDevice
  BY <1>0, <1>1 DEF Restore, RestoreQuiesce, RestoreDevice, Check, SafeStep, Untouched, hostVars, pciVars, domVars, files
<1>2. CASE RestoreBound \/ RestoreIdentities
  BY <1>0, <1>2 DEF RestoreBound, RestoreIdentities, Check, SafeStep, Untouched, hostVars, pciVars, domVars, files
<1>3. CASE RestoreStopsFm \/ RestoreUnbind \/ RestoreOverride \/ RestoreProbe \/ RestorePower
  BY <1>0, <1>3, ASafeStep, CommandsFit DEF RestoreStopsFm, RestoreUnbind, RestoreOverride, RestoreProbe, RestorePower, Run, Tried, GpuCommands
<1>4. CASE RestoreConfig
  BY <1>0, <1>4 DEF RestoreConfig, WriteConfig, SafeStep, Untouched, hostVars, pciVars, domVars, files
<1>5. CASE RestoreDefine
  BY <1>0, <1>5, ASafeStep, CommandsFit DEF RestoreDefine, Run, Tried, GpuCommands, SafeStep, Untouched, hostVars, pciVars, domVars, files
<1>6. CASE RestoreGuests
  BY <1>0, <1>6, ASafeStep, CommandsFit DEF RestoreGuests, Run, Tried, GpuCommands, SafeStep, Untouched, hostVars, pciVars, domVars, files
<1>7. CASE RestoreUnits
  BY <1>0, <1>7, ASafeStep, CommandsFit DEF RestoreUnits, Run, Tried, GpuCommands, SafeStep, Untouched, hostVars, pciVars, domVars, files
<1>8. CASE RestoreDone
  BY <1>0, <1>8, CheckpointPhase DEF RestoreDone, SafeStep
<1>9. QED
  BY <1>1, <1>2, <1>3, <1>4, <1>5, <1>6, <1>7, <1>8 DEF RestoreStep

--------------------------------------------------------------------------------
(* The invariant is inductive. *)

Hardware == LateWritesAreAnnounced /\ LateUnbindHarmless /\ GuestGpusStayVfio

LEMMA SettledNoGpuCommand ==
    ASSUME HostTypeOK, \A g \in Gpus : GpuSettled(g), NEW o \in inflight
    PROVE  o.cmd \notin GpuCommands
BY HostAssumption DEF HostTypeOK, Operations, Operation, GpuSettled, HostAssumption,
   GpuCommands, VmCommands, UnitCommands, ReadCommand, Units

LEMMA SafeCommandHardware ==
    ASSUME HostTypeOK, Hardware, NEW c, NEW x, SafeCommand(c, x)
    PROVE  Hardware'
<1>1. LateWritesAreAnnounced'
  BY TriedInflight, TriedKeepsPhase DEF SafeCommand, Hardware, LateWritesAreAnnounced
<1>2. LateUnbindHarmless'
  <2>1. SUFFICES ASSUME NEW o \in inflight', o.cmd = "unbind" PROVE Released(Vms)'
    BY DEF LateUnbindHarmless
  <2>2. Released(Vms)
    BY <2>1, TriedInflight DEF SafeCommand, Hardware, LateUnbindHarmless, GpuCommands
  <2>3. c # "start"
    <3>1. SUFFICES ASSUME c = "start" PROVE FALSE
      OBVIOUS
    <3>2. o \in inflight
      BY <2>1, <3>1, TriedInflight DEF SafeCommand
    <3>3. QED BY <2>1, <3>1, <3>2, SettledNoGpuCommand DEF SafeCommand, GpuCommands
  <2>4. QED BY <2>2, <2>3, TriedReleased DEF SafeCommand
<1>3. GuestGpusStayVfio'
  BY TriedKeepsGpus DEF SafeCommand, Hardware, GpuCommands
<1>4. QED BY <1>1, <1>2, <1>3 DEF Hardware

LEMMA SafeStepHardware == HostTypeOK /\ Hardware /\ SafeStep => Hardware'
<1> SUFFICES ASSUME HostTypeOK, Hardware, SafeStep PROVE Hardware'
  OBVIOUS
<1>1. ASSUME Untouched, SafePhase PROVE Hardware'
  <2>1. LateUnbindHarmless' /\ GuestGpusStayVfio'
    BY <1>1, UntouchedKeeps DEF Hardware
  <2>2. LateWritesAreAnnounced'
    BY <1>1, SettledNoGpuCommand DEF Untouched, SafePhase, Hardware, LateWritesAreAnnounced
  <2>3. QED BY <2>1, <2>2 DEF Hardware
<1>2. QED BY <1>1, SafeCommandHardware DEF SafeStep

LEMMA ManagerInductive == IInv /\ ManagerStep => IInv'
<1> SUFFICES ASSUME IInv, ManagerStep PROVE IInv'
  OBVIOUS
<1>0. /\ Typed /\ PhaseKnown /\ GuestsReleased /\ GpusSettled /\ LateWritesAreAnnounced
      /\ Hardware /\ HostTypeOK
  BY DEF IInv, Hardware, Typed, FilesTyped
<1>1. Typed'
  BY <1>0, TypedNext DEF Next
<1>2. PhaseKnown'
  BY <1>0, StartPhaseKnown, RestartPhaseKnown, ShutdownPhaseKnown, RestorePhaseKnown DEF ManagerStep
<1>3. GuestsReleased'
  BY <1>0, StartGuestsReleased, RestartGuestsReleased, ShutdownGuestsReleased, RestoreGuestsReleased DEF ManagerStep
<1>4. GpusSettled'
  BY <1>0, StartGpusSettled, RestartGpusSettled, ShutdownGpusSettled, RestoreGpusSettled DEF ManagerStep
<1>5. SafeStep
  BY <1>0, StartSafe, RestartSafe, ShutdownSafe, RestoreSafe DEF ManagerStep
<1>6. Hardware'
  BY <1>0, <1>5, SafeStepHardware
<1>7. QED BY <1>1, <1>2, <1>3, <1>4, <1>6 DEF IInv, Hardware

(* A new invocation changes nothing but the process.                        *)
LEMMA InvokeInductive == IInv /\ Invoke => IInv'
<1> SUFFICES ASSUME IInv, Invoke PROVE IInv'
  OBVIOUS
<1>0. Typed' /\ Typed /\ Hardware /\ HostTypeOK
  BY TypedNext DEF IInv, Hardware, Next, Typed, FilesTyped
<1>1. Untouched
  BY DEF Invoke, Prepare, Start, Restart, Stop, hostVars, pciVars, domVars, Untouched
<1>2. SafePhase
  BY AnnouncedSettled DEF Invoke, Prepare, Start, Restart, Stop, files, SafePhase, IInv, Rebinding
<1>3. Hardware'
  BY <1>0, <1>1, <1>2, SafeStepHardware DEF SafeStep
<1>4. pc' \in {"idle", "start", "restart", "stop"} /\ (pc' \in {"start", "restart", "stop"} => call'.cmd = pc')
  <2>1. CASE Prepare
    BY <2>1 DEF Prepare, local
  <2>2. QED BY <2>1 DEF Invoke, Start, Restart, Stop, NoCall
<1>5. PhaseKnown'
  BY <1>4 DEF PhaseKnown, ShutdownLabels, BindingLabels, LaunchingLabels, RestoreLabels, RestoreTail
<1>6. GuestsReleased' /\ GpusSettled'
  BY <1>4 DEF GuestsReleased, GpusSettled, Window, BindingLabels, RestoreLabels, RestoreTail, GpuLoops, GpuBody
<1>7. QED BY <1>0, <1>3, <1>5, <1>6 DEF IInv, Hardware

(* What the rest of the host does, and accidents, leave what is released    *)
(* released, what is settled settled and the phase as it is.                *)
HarmlessStep ==
    /\ saved'.phase = saved.phase
    /\ KeepsReleased
    /\ \A g \in Gpus : GpuSettled(g) => GpuSettled(g)'
    /\ \A o \in inflight' : o.cmd \in GpuCommands => o \in inflight
    /\ GuestGpusStayVfio'
    /\ UNCHANGED local \/ pc' = "idle"

LEMMA HarmlessInductive == IInv /\ Typed' /\ HarmlessStep => IInv'
<1> SUFFICES ASSUME IInv, Typed', HarmlessStep PROVE IInv'
  OBVIOUS
<1>1. LateWritesAreAnnounced' /\ LateUnbindHarmless'
  BY DEF HarmlessStep, IInv, LateWritesAreAnnounced, LateUnbindHarmless, KeepsReleased, GpuCommands
<1>2. CASE UNCHANGED local
  <2>1. PhaseKnown'
    BY <1>2 DEF HarmlessStep, IInv, PhaseKnown, local
  <2>2. GuestsReleased'
    <3>1. /\ pc \in {"start.define", "start.launch"} => todo \in SUBSET Vms
          /\ pc = "start.launch" => {cur} \in SUBSET Vms
          /\ pc = "start.confirm" => todo \ {cur} \in SUBSET Vms
          /\ pc = "restart.launch" => {call.guest} \in SUBSET Vms
      BY DEF IInv, Typed, LocalTyped, LoopsTyped, Fit, VmLoops, VmBody, RestartLabels
    <3>2. QED BY <1>2, <3>1 DEF HarmlessStep, IInv, GuestsReleased, local, KeepsReleased
  <2>3. GpusSettled'
    <3>1. pc = "start.bound" => cur \in Gpus
      BY DEF IInv, Typed, LocalTyped, LoopsTyped, Fit, GpuBody
    <3>2. QED BY <1>2, <3>1 DEF HarmlessStep, IInv, GpusSettled, local
  <2>4. QED BY <1>1, <2>1, <2>2, <2>3 DEF IInv, HarmlessStep
<1>3. CASE pc' = "idle"
  BY <1>1, <1>3, IdlePhase, IdleReleased, IdleSettled DEF IInv, HarmlessStep
<1>4. QED BY <1>2, <1>3 DEF HarmlessStep

LEMMA HostHarmless == IInv /\ HostStep => HarmlessStep
<1> SUFFICES ASSUME IInv, HostStep PROVE HarmlessStep
  OBVIOUS
<1>0. HostTypeOK /\ Hardware /\ saved' = saved /\ UNCHANGED local
  BY DEF IInv, Hardware, Typed, FilesTyped, HostStep, files
<1>1. ASSUME NEW o \in inflight, LandLate(o) PROVE KeepsReleased /\ GuestGpusStayVfio' /\ inflight' \subseteq inflight
  <2>1. Effect(o.cmd, o.on) /\ Possible(o.cmd, o.on) /\ inflight' \subseteq inflight
    BY <1>1 DEF LandLate
  <2>2. o.cmd \in GpuCommands \union VmCommands \union UnitCommands
    BY <2>1 DEF Effect
  <2>3. Fits(o.cmd, o.on)
    BY <1>0, <2>2 DEF HostTypeOK, Operations, Operation, Fits, GpuCommands, VmCommands, UnitCommands, ReadCommand
  <2>4. GuestGpusStayVfio'
    BY <1>0, <2>1, <2>3, EffectKeepsGpus DEF Hardware, LateUnbindHarmless
  <2>5. KeepsReleased
    <3>1. SUFFICES ASSUME NEW vs \in SUBSET Vms, Released(vs), NEW v \in vs PROVE dom'[v] = "off" /\ ~Starting(v)'
      BY DEF KeepsReleased, Released
    <3>2. ~Starting(v)'
      BY <2>1, <3>1 DEF Released, Starting, InFlight
    <3>3. CASE o.cmd = "start"
      <4>1. o.on # v /\ dom' = [dom EXCEPT ![o.on] = defn[o.on]]
        BY <2>1, <3>1, <3>3 DEF Released, Starting, InFlight, Effect, VmEffect, GpuCommands, UnitCommands
      <4>2. QED BY <1>0, <3>1, <3>2, <4>1 DEF HostTypeOK, Released
    <3>4. CASE o.cmd # "start"
      <4>1. dom' = dom
        BY <2>1, <3>4 DEF Effect, VmEffect, domVars
      <4>2. QED BY <3>1, <3>2, <4>1 DEF Released
    <3>5. QED BY <3>3, <3>4
  <2>6. QED BY <2>1, <2>4, <2>5
<1>2. ASSUME NEW o \in inflight, DropLate(o) PROVE KeepsReleased /\ GuestGpusStayVfio' /\ inflight' \subseteq inflight
  BY <1>0, <1>2 DEF DropLate, Hardware, GuestGpusStayVfio, Assigned, KeepsReleased, Released, Starting, InFlight, pciVars, domVars
<1>3. ASSUME NEW v \in Vms, GuestPowersOff(v)
      PROVE KeepsReleased /\ GuestGpusStayVfio' /\ inflight' \subseteq inflight
  <2>1. inflight' = inflight /\ driver' = driver /\ dom' = [dom EXCEPT ![v] = "off"]
    BY <1>3 DEF GuestPowersOff, pciVars
  <2>2. \A w \in Vms : dom'[w] = "off" \/ dom'[w] = dom[w]
    BY <1>0, <2>1 DEF HostTypeOK
  <2>3. KeepsReleased
    BY <2>1, <2>2 DEF KeepsReleased, Released, Starting, InFlight
  <2>4. GuestGpusStayVfio'
    BY <1>0, <2>1, <2>2 DEF Hardware, GuestGpusStayVfio, Assigned
  <2>5. QED BY <2>1, <2>3, <2>4
<1>4. ASSUME \/ \E u \in Units : UnitComesUp(u) \/ UnitGoesDown(u)
             \/ AppExits
      PROVE KeepsReleased /\ GuestGpusStayVfio' /\ inflight' \subseteq inflight
  <2>1. Untouched
    BY <1>4 DEF UnitComesUp, UnitGoesDown, AppExits, Untouched, pciVars, domVars
  <2>2. QED BY <1>0, <2>1, UntouchedKeeps, UntouchedReleased DEF Hardware, Untouched
<1>5. KeepsReleased /\ GuestGpusStayVfio' /\ inflight' \subseteq inflight
  BY <1>1, <1>2, <1>3, <1>4 DEF HostStep
<1>6. QED BY <1>0, <1>5 DEF HarmlessStep, GpuSettled

LEMMA AccidentsHarmless == IInv /\ Accidents => HarmlessStep
<1> SUFFICES ASSUME IInv, Accidents PROVE HarmlessStep
  OBVIOUS
<1>0. HostTypeOK /\ Hardware
  BY DEF IInv, Hardware, Typed, FilesTyped
<1>1. ASSUME Untouched, saved' = saved, UNCHANGED local \/ pc' = "idle" PROVE HarmlessStep
  BY <1>0, <1>1, UntouchedKeeps, UntouchedReleased DEF HarmlessStep, Hardware, Untouched
<1>2. CASE Abandon
  BY <1>1, <1>2 DEF Abandon, Exit, files, hostVars, pciVars, domVars, Untouched
<1>3. CASE ReadTimesOut
  <2>1. driver' = driver /\ dom' = dom /\ saved' = saved
    BY <1>3 DEF ReadTimesOut, pciVars, domVars
  <2>2. \A o \in inflight' : o \in inflight \/ o.cmd = ReadCommand
    BY <1>3 DEF ReadTimesOut
  <2>3. KeepsReleased
    BY <2>1, <2>2 DEF KeepsReleased, Released, Starting, InFlight, ReadCommand
  <2>4. GuestGpusStayVfio' /\ (\A o \in inflight' : o.cmd \in GpuCommands => o \in inflight)
    BY <1>0, <2>1, <2>2 DEF Hardware, GuestGpusStayVfio, Assigned, ReadCommand, GpuCommands
  <2>5. UNCHANGED local \/ pc' = "idle"
    BY <1>3 DEF ReadTimesOut, Exit
  <2>6. QED BY <2>1, <2>3, <2>4, <2>5 DEF HarmlessStep, GpuSettled
<1>4. CASE AppStarts
  BY <1>1, <1>4 DEF AppStarts, files, pciVars, domVars, Untouched
<1>5. CASE BeginHostShutdown /\ UNCHANGED <<files, local, calm>>
  BY <1>1, <1>5 DEF BeginHostShutdown, files, pciVars, domVars, Untouched
<1>6. CASE HostReboots
  <2>1. saved' = saved /\ pc' = "idle" /\ inflight' = {} /\ dom' = [v \in Vms |-> "off"]
    BY <1>6 DEF HostReboots, Reboot, Exit, files
  <2>2. QED BY <2>1 DEF HarmlessStep, KeepsReleased, Released, Starting, InFlight, GpuSettled, GuestGpusStayVfio
<1>7. QED BY <1>2, <1>3, <1>4, <1>5, <1>6 DEF Accidents

LEMMA InvariantInductive == IInv /\ [Next]_vars => IInv'
<1> SUFFICES ASSUME IInv, [Next]_vars PROVE IInv'
  OBVIOUS
<1>1. Typed'
  BY TypedNext DEF IInv
<1>2. CASE FaultsStop \/ UNCHANGED vars
  <2>1. UNCHANGED <<hostVars, files, local>>
    BY <1>2 DEF FaultsStop, vars
  <2>2. HarmlessStep
    BY <2>1, UntouchedKeeps, UntouchedReleased
       DEF HarmlessStep, IInv, Untouched, hostVars, pciVars, domVars, files
  <2>3. QED BY <1>1, <2>2, HarmlessInductive
<1>3. QED
  BY <1>1, <1>2, InvokeInductive, ManagerInductive, HostHarmless, AccidentsHarmless, HarmlessInductive DEF Next

LEMMA InvariantInit == Init => IInv
<1> SUFFICES ASSUME Init PROVE IInv
  OBVIOUS
<1>1. pc = "idle" /\ inflight = {} /\ \A v \in Vms : dom[v] # "gpu"
  BY DEF Init, HostInit
<1>2. PhaseKnown
  BY <1>1 DEF PhaseKnown, ShutdownLabels, BindingLabels, LaunchingLabels, RestoreLabels, RestoreTail
<1>3. GuestsReleased /\ GpusSettled
  BY <1>1 DEF GuestsReleased, GpusSettled, Window, BindingLabels, RestoreLabels, RestoreTail, GpuLoops, GpuBody
<1>4. QED BY <1>1, <1>2, <1>3, TypedInit DEF IInv, LateWritesAreAnnounced, LateUnbindHarmless, GuestGpusStayVfio

LEMMA Invariant == Spec => []IInv
BY InvariantInit, InvariantInductive, PTL DEF Spec

--------------------------------------------------------------------------------
(* What follows. *)

(* No guest loses a GPU it runs with, whatever lands late, is retried or is  *)
(* interrupted.                                                              *)
THEOREM GuestsKeepTheirGpus == Spec => []GuestGpusStayVfio
<1>1. IInv => GuestGpusStayVfio
  BY DEF IInv
<1>2. QED BY <1>1, Invariant, PTL

(* No write to a GPU, on time, is made while a guest runs or is launched.    *)
THEOREM WritesOnlyWhenReleased == Spec => []RebindOnlyWhenReleased
<1>1. IInv => RebindOnlyWhenReleased
  BY DEF IInv, GuestsReleased, RebindOnlyWhenReleased, GpuWrites, Window, BindingLabels, RestoreLabels, RestoreTail
<1>2. QED BY <1>1, Invariant, PTL

(* No write to a GPU outlives a phase that does not announce it.             *)
THEOREM LateWritesAnnounced == Spec => []LateWritesAreAnnounced
<1>1. IInv => LateWritesAreAnnounced
  BY DEF IInv
<1>2. QED BY <1>1, Invariant, PTL

(* start() and restart() launch a guest only when it is gone.                *)
THEOREM LaunchesOnlyWhenReleased == Spec => []LaunchOnlyWhenReleased
<1>1. IInv => LaunchOnlyWhenReleased
  BY DEF IInv, GuestsReleased, LaunchOnlyWhenReleased
<1>2. QED BY <1>1, Invariant, PTL

LEMMA TriedDriver ==
    ASSUME NEW c, NEW x, Tried(c, x), c \notin GpuCommands
    PROVE  driver' = driver
BY DEF Tried, Succeed, Fail, Lose, Effect, hostVars, pciVars

(* A GPU changes drivers under a phase that announced it, or by a reboot.    *)
THEOREM RebindsAnnounced == Spec => RebindIsAnnounced
<1> DEFINE Announced == driver' # driver => saved.phase \in Rebinding \/ boot' # boot
<1>1. IInv /\ [Next]_vars => [Announced]_vars
  <2> SUFFICES ASSUME IInv, Next PROVE Announced
    OBVIOUS
  <2>1. CASE Invoke \/ FaultsStop
    BY <2>1 DEF Invoke, Prepare, Start, Restart, Stop, FaultsStop, hostVars, pciVars
  <2>2. CASE ManagerStep
    <3>1. SafeStep
      BY <2>2, StartSafe, RestartSafe, ShutdownSafe, RestoreSafe DEF ManagerStep, IInv
    <3>2. QED BY <3>1, TriedDriver DEF SafeStep, SafeCommand, Untouched
  <2>3. CASE HostStep
    <3>1. ASSUME NEW o \in inflight, LandLate(o), o.cmd \notin GpuCommands PROVE driver' = driver
      BY <3>1 DEF LandLate, Effect, pciVars
    <3>2. QED
      BY <2>3, <3>1 DEF HostStep, DropLate, GuestPowersOff, UnitComesUp, UnitGoesDown, AppExits, pciVars,
                        IInv, LateWritesAreAnnounced
  <2>4. CASE HostReboots
    <3>1. boot \in 0..MaxBoot
      BY DEF IInv, Typed, FilesTyped, HostTypeOK
    <3>2. boot' = boot + 1
      BY <2>4 DEF HostReboots, Reboot
    <3>3. boot' # boot
      BY <3>1, <3>2
    <3>4. QED BY <3>3
  <2>5. CASE Accidents /\ ~HostReboots
    BY <2>5 DEF Accidents, Abandon, ReadTimesOut, AppStarts, BeginHostShutdown, hostVars, pciVars
  <2>6. QED BY <2>1, <2>2, <2>3, <2>4, <2>5 DEF Next
<1>2. QED BY <1>1, Invariant, PTL DEF Spec, RebindIsAnnounced

================================================================================
