-------------------------------- MODULE HostBoot -------------------------------
(* The host from boot to shutdown, as systemd orders it: the units that
   host/create-guests.py (network_files) and host/install-services.py (unit_text)
   write, libvirtd and libvirt-guests under the policy of policy_text(), Fabric
   Manager and a GPU client service, and the manager's start and stop, which run
   inside the lifecycle unit and call systemctl themselves. The net unit of a guest
   runs EnsureLink.

   systemd is external: each unit has at most one job; a start waits until the units
   it is ordered after have none, a stop until the units ordered after it have
   stopped; stopping an inactive unit cancels its start; once the host shuts down,
   starts are refused. What the transitions do to GPUs is the matter of GpuVmManager;
   here they are programs of commands. *)
EXTENDS EnsureLink, Sequences

CONSTANTS
    None,
    MaxBoots,     \* boots in a behaviour
    Services      \* saved['services'][Client], as prepare() found it: a set of cases

Libvirtd == "libvirtd"
LibvirtGuests == "libvirt-guests"
Lifecycle == "a100-pcie-two-vm"
Fm == "nvidia-fabricmanager"
Client == "dcgm"

(* The net unit oci-kvm-net-NAME goes by its guest, and so does its run of the helper. *)
Units == Guests \union {Libvirtd, LibvirtGuests, Lifecycle, Fm, Client}
ASSUME NetUnitsAssumption == \A g \in Guests : g \in Runs /\ For[g] = g
ASSUME HostGuestsAssumption ==
    /\ IsFiniteSet(Guests)
    /\ Guests \intersect {Libvirtd, LibvirtGuests, Lifecycle, Fm, Client} = {}

(* Mutant: Fabric Manager is ordered after the unit that uses it. *)
AfterWithFm ==
    [u \in Units |-> CASE u = Lifecycle -> Guests \union {Libvirtd, LibvirtGuests}
                       [] u = LibvirtGuests -> Guests \union {Libvirtd}
                       [] u = Libvirtd -> Guests
                       [] u = Fm -> {Lifecycle}
                       [] OTHER -> {}]

(* After= of unit_text(), Before= of network_files(), libvirt-guests' own. *)
After ==
    [u \in Units |-> CASE u = Lifecycle -> Guests \union {Libvirtd, LibvirtGuests}
                       [] u = LibvirtGuests -> Guests \union {Libvirtd}
                       [] u = Libvirtd -> Guests
                       [] OTHER -> {}]

(* Requires= *)
Required(u) == IF u = Lifecycle THEN Guests \union {Libvirtd, LibvirtGuests} ELSE {}

(* policy_text(), and, for the mutants, what libvirt-guests does by default *)
OnBootDefault == "start"
OnShutdownDefault == "suspend"
OnBoot == "ignore"
OnShutdown == "shutdown"

VARIABLES
    phase,     \* of the host: "up", "shutting" or "off"
    unit,      \* unit -> "inactive", "activating", "active" or "deactivating"
    job,       \* unit -> "none", "start" or "stop"
    script,    \* what the manager inside the lifecycle unit has yet to do
    waiting,   \* the job that its systemctl waits for, <<unit, job>>, or None
    saved,     \* the phase in the manifest
    thisBoot,  \* whether the manifest was written in this boot
    running,   \* guests that run
    asked,     \* guests that were asked to power off
    suspended, \* the guests that libvirt-guests found running when it stopped
    service,   \* saved['services'][Client]
    boots

hostVars == <<phase, unit, job, script, waiting, saved, thisBoot, running, asked, suspended,
              service, boots>>
bootVars == <<linkVars, hostVars>>

(* The transaction of multi-user.target; the operator enables the lifecycle unit. *)
BootJobs == {jobs \in [Units -> {"none", "start"}] :
                \A u \in Units \ {Lifecycle, Client} : jobs[u] = "start"}

BootInit ==
    /\ LinkInit
    /\ phase = "up" /\ unit = [u \in Units |-> "inactive"] /\ job \in BootJobs
    /\ script = <<>> /\ waiting = None
    /\ saved = "prepared" /\ thisBoot = FALSE
    /\ running = {} /\ asked = {} /\ suspended = {}
    /\ service \in Services
    /\ boots = 1

(********************************* the manager **********************************)
(* start(): the services must be active; what follows depends on the manifest. *)
Ask == LET order == CHOOSE s \in [1 .. Cardinality(Guests) -> Guests] : {s[i] : i \in DOMAIN s} = Guests
       IN [i \in DOMAIN order |-> <<"ask", order[i]>>]
Launch == [i \in DOMAIN Ask |-> <<"launch", Ask[i][2]>>]

ClaimOps ==
    <<<<"save", "starting">>>> \o Ask
    \o <<<<"released", Guests>>, <<"stop if active", Client>>, <<"stop", Fm>>,
         <<"start", Fm>>, <<"stop", Fm>>, <<"save", "starting-guests">>>>
    \o Launch \o <<<<"verify", Guests>>, <<"save", "running">>>>

StopOps == <<<<"save", "stopping">>>> \o Ask \o <<<<"released", Guests>>, <<"restore", Fm>>>>

(* restore_configuration(), after it found the host up: FM is stopped for the rebind,
   then the services go back to what prepare() found. *)
RestoreOps == <<<<"stop", Fm>>, <<"start", Fm>>,
                <<IF service THEN "start" ELSE "stop if active", Client>>, <<"save", "stopped">>>>

(* The command at hand is done; its process ends with an error. *)
Proceeds == script' = Tail(script) /\ waiting' = None
Continues(ops) == script' = ops \o Tail(script) /\ waiting' = None
Raises == script' = <<>> /\ waiting' = None
UnitFails ==
    /\ unit' = [unit EXCEPT ![Lifecycle] = "inactive"]
    /\ job' = [job EXCEPT ![Lifecycle] = "none"]
Fails == Raises /\ UnitFails
Doing(what) == script # <<>> /\ waiting = None /\ Head(script)[1] = what
Object == Head(script)[2]
Down(u) == unit[u] # "active"

StartChecks ==
    /\ Doing("checks")
    /\ LET ready == \A u \in Guests \union {Libvirtd} : unit[u] = "active"
           already == thisBoot /\ saved = "running"
           fresh == ~thisBoot /\ running = {}
       IN CASE ready /\ already -> Continues(<<<<"verify", Guests>>>>) /\ UNCHANGED <<unit, job>>
            [] ready /\ fresh -> /\ Continues(<<<<"save", "normalizing-new-boot">>, <<"restore", Fm>>,
                                                <<"claim", Fm>>>>)
                                 /\ UNCHANGED <<unit, job>>
            [] ready /\ thisBoot /\ ~already -> Continues(<<<<"claim", Fm>>>>) /\ UNCHANGED <<unit, job>>
            [] OTHER -> Fails
    /\ UNCHANGED <<saved, thisBoot, running, asked>>

(* "no automatic rebind" *)
StartClaims ==
    /\ Doing("claim")
    /\ IF saved \in {"prepared", "stopped"} THEN Continues(ClaimOps) /\ UNCHANGED <<unit, job>> ELSE Fails
    /\ UNCHANGED <<saved, thisBoot, running, asked>>

(* checkpoint() *)
Saves ==
    /\ Doing("save") /\ Proceeds
    /\ saved' = Object /\ thisBoot' = TRUE
    /\ UNCHANGED <<unit, job, running, asked>>

(* shutdown(): virsh shutdown, then the wait for the guest to be off *)
Asks ==
    /\ Doing("ask")
    /\ \/ Object \in running \ asked /\ Down(Libvirtd) /\ Fails /\ UNCHANGED asked
       \/ Object \in running \ asked /\ ~Down(Libvirtd) /\ asked' = asked \union {Object}
          /\ UNCHANGED <<script, waiting, unit, job>>
       \/ Object \notin running /\ Proceeds /\ UNCHANGED <<unit, job, asked>>
    /\ UNCHANGED <<saved, thisBoot, running>>

(* no_guest_owners(), and what may fail between *)
Released ==
    /\ Doing("released")
    /\ IF running = {} THEN Proceeds /\ UNCHANGED <<unit, job>> ELSE Fails
    /\ UNCHANGED <<saved, thisBoot, running, asked>>

(* restore_configuration(): is-system-running; during a shutdown no service job *)
Restores ==
    /\ Doing("restore")
    /\ CASE phase = "up" -> Continues(RestoreOps) /\ UNCHANGED <<unit, job>>
         [] phase = "shutting" /\ Down(Fm) /\ Down(Client) ->
               Continues(<<<<"save", "stopped">>>>) /\ UNCHANGED <<unit, job>>
         [] OTHER -> Fails
    /\ UNCHANGED <<saved, thisBoot, running, asked>>

(* virsh start; the interface needs the link. *)
Launches ==
    /\ Doing("launch")
    /\ IF unit[Libvirtd] = "active" /\ Named(Object) # {}
       THEN running' = running \union {Object} /\ Proceeds /\ UNCHANGED <<unit, job>>
       ELSE Fails /\ UNCHANGED running
    /\ UNCHANGED <<saved, thisBoot, asked>>

(* verify_running() *)
Verifies ==
    /\ Doing("verify")
    /\ IF running = Guests /\ Down(Fm) /\ Down(Client)
       THEN Proceeds /\ UNCHANGED <<unit, job>> ELSE Fails
    /\ UNCHANGED <<saved, thisBoot, running, asked>>

(* systemctl, as the manager calls it, queues the job. *)
SystemctlQueues ==
    /\ \/ Doing("stop") \/ Doing("start") \/ Doing("stop if active")
    /\ LET u == Object
           want == IF Doing("start") THEN "start" ELSE "stop"
       IN CASE Doing("stop if active") /\ Down(u) -> Proceeds /\ UNCHANGED <<unit, job>>
            [] want = "start" /\ phase = "shutting" -> Fails
            [] want = "start" /\ phase # "shutting" /\ unit[u] = "active" ->
                  Proceeds /\ job' = [job EXCEPT ![u] = "none"] /\ UNCHANGED unit
            [] OTHER -> /\ job' = [job EXCEPT ![u] = want] /\ waiting' = <<u, want>>
                        /\ UNCHANGED <<unit, script>>
    /\ UNCHANGED <<saved, thisBoot, running, asked>>

SystemctlReturns ==
    /\ waiting # None /\ job[waiting[1]] # waiting[2]
    /\ IF (unit[waiting[1]] = "active") = (waiting[2] = "start")
       THEN Proceeds /\ UNCHANGED <<unit, job>> ELSE Fails
    /\ UNCHANGED <<saved, thisBoot, running, asked>>

(* An error, a timeout of a command, TimeoutStartSec or TimeoutStopSec of the unit. *)
ManagerFails ==
    /\ script # <<>> /\ Fails
    /\ UNCHANGED <<saved, thisBoot, running, asked>>

ManagerStep ==
    /\ \/ StartChecks \/ StartClaims \/ Saves \/ Asks \/ Released \/ Restores \/ Launches
       \/ Verifies \/ SystemctlQueues \/ SystemctlReturns
    /\ UNCHANGED <<linkVars, phase, suspended, service, boots>>

(*********************************** systemd ************************************)
MayStart(u) ==
    /\ job[u] = "start" /\ unit[u] = "inactive"
    /\ \A v \in After[u] : job[v] = "none"
    /\ \A v \in Units : u \in After[v] => job[v] # "stop"
MayStop(u) == job[u] = "stop" /\ \A v \in Units : u \in After[v] => job[v] # "stop"
Becomes(u, state, left) ==
    unit' = [unit EXCEPT ![u] = state] /\ job' = [job EXCEPT ![u] = left]

(* A unit without a process of its own here comes up or fails; one whose requirement
   is not met fails; libvirt-guests starts what ran when it stopped, unless ON_BOOT
   is ignore. *)
Starts(u) ==
    /\ MayStart(u)
    /\ \/ Becomes(u, "inactive", "none") /\ UNCHANGED <<linkVars, script, running>>
       \/ /\ \A v \in Required(u) : unit[v] = "active"
          /\ CASE u \in Guests -> Begins(u) /\ Becomes(u, "activating", "start")
                                  /\ UNCHANGED <<script, running>>
               [] u = Lifecycle -> /\ script' = <<<<"checks", Fm>>>>
                                   /\ Becomes(u, "activating", "start")
                                   /\ UNCHANGED <<linkVars, running>>
               [] u = LibvirtGuests -> /\ running' = IF OnBoot = "start" THEN suspended ELSE running
                                       /\ Becomes(u, "active", "none")
                                       /\ UNCHANGED <<linkVars, script>>
               [] OTHER -> Becomes(u, "active", "none") /\ UNCHANGED <<linkVars, script, running>>
    /\ UNCHANGED <<phase, waiting, saved, thisBoot, asked, suspended, service, boots>>

(* The process of a unit has ended. *)
Started(u) ==
    /\ unit[u] = "activating" /\ job[u] = "start"
    /\ \/ u \in Guests /\ at[u] = "done" /\ Becomes(u, "active", "none")
       \/ u \in Guests /\ at[u] = "failed" /\ Becomes(u, "inactive", "none")
       \/ u = Lifecycle /\ script = <<>> /\ Becomes(u, "active", "none")
    /\ UNCHANGED <<linkVars, phase, script, waiting, saved, thisBoot, running, asked, suspended,
                   service, boots>>

(* A stop ends what is activating; ExecStop= is run only for what is active.
   libvirt-guests records what runs and asks it to power off, if ON_SHUTDOWN says so. *)
Stops(u) ==
    /\ MayStop(u) /\ unit[u] \in {"inactive", "activating", "active"}
    /\ CASE u = Lifecycle /\ unit[u] = "active" ->
              /\ script' = StopOps /\ Becomes(u, "deactivating", "stop")
              /\ UNCHANGED <<linkVars, waiting, asked, suspended>>
         [] u = Lifecycle /\ unit[u] # "active" ->
              Fails /\ UNCHANGED <<linkVars, asked, suspended>>
         [] u = LibvirtGuests /\ unit[u] = "active" ->
              /\ suspended' = running
              /\ asked' = IF OnShutdown = "shutdown" /\ ~Down(Libvirtd) THEN running ELSE asked
              /\ Becomes(u, "deactivating", "stop")
              /\ UNCHANGED <<linkVars, script, waiting>>
         [] u \in Guests /\ unit[u] = "activating" ->
              /\ IF at[u] \in {"done", "failed"} THEN UNCHANGED linkVars ELSE HelperDies(u)
              /\ Becomes(u, "inactive", "none")
              /\ UNCHANGED <<script, waiting, asked, suspended>>
         [] OTHER -> Becomes(u, "inactive", "none")
                     /\ UNCHANGED <<linkVars, script, waiting, asked, suspended>>
    /\ UNCHANGED <<phase, saved, thisBoot, running, service, boots>>

(* ExecStop= has ended; libvirt-guests has seen the guests off, or waited enough. *)
Stopped(u) ==
    /\ unit[u] = "deactivating"
    /\ u = Lifecycle => script = <<>>
    /\ Becomes(u, "inactive", "none")
    /\ UNCHANGED <<linkVars, phase, script, waiting, saved, thisBoot, running, asked, suspended,
                   service, boots>>

SystemdStep == \E u \in Units : Starts(u) \/ Started(u) \/ Stops(u) \/ Stopped(u)

(********************************* surroundings *********************************)
GuestPowersOff ==
    /\ \E g \in running \intersect asked : running' = running \ {g} /\ asked' = asked \ {g}
    /\ UNCHANGED <<linkVars, phase, unit, job, script, waiting, saved, thisBoot, suspended, service,
                   boots>>

(* systemctl start of the lifecycle unit, with what it requires; systemctl stop of a
   unit, with what requires it. *)
Operates ==
    /\ phase = "up" /\ changes < MaxChanges /\ changes' = changes + 1
    /\ \/ /\ unit[Lifecycle] = "inactive"
          /\ job' = [u \in Units |-> IF u \in Required(Lifecycle) \union {Lifecycle} /\ unit[u] = "inactive"
                                     THEN "start" ELSE job[u]]
       \/ \E u \in Units \ {Libvirtd} :
              /\ unit[u] # "inactive"
              /\ job' = [v \in Units |-> IF (u = v \/ u \in Required(v)) /\ unit[v] # "inactive"
                                         THEN "stop" ELSE job[v]]
    /\ UNCHANGED <<links, matching, addressed, at, addresses, phase, unit, script, waiting, saved, thisBoot, running, asked, suspended,
                   service, boots>>

(* Every unit is stopped; starts that wait are cancelled. *)
ShutsDown ==
    /\ phase = "up" /\ phase' = "shutting"
    /\ job' = [u \in Units |-> IF unit[u] = "inactive" THEN "none" ELSE "stop"]
    /\ UNCHANGED <<linkVars, unit, script, waiting, saved, thisBoot, running, asked, suspended, service,
                   boots>>

(* The end of the shutdown, or a loss of power; then the next boot. *)
PowersOff ==
    /\ phase # "off"
    /\ phase' = "off" /\ running' = {} /\ asked' = {} /\ script' = <<>> /\ waiting' = None
    /\ unit' = [u \in Units |-> "inactive"] /\ job' = [u \in Units |-> "none"]
    /\ links' = {} /\ addressed' = {}
    /\ at' = [r \in Runs |-> "off"] /\ addresses' = [r \in Runs |-> {}]
    /\ UNCHANGED <<matching, changes, saved, thisBoot, suspended, service, boots>>

Boots ==
    /\ phase = "off" /\ boots < MaxBoots
    /\ phase' = "up" /\ boots' = boots + 1 /\ thisBoot' = FALSE
    /\ job' \in BootJobs
    /\ UNCHANGED <<linkVars, unit, script, waiting, saved, running, asked, suspended, service>>

(* The run of a net unit; a run by hand. *)
HelperRuns ==
    /\ phase # "off"
    /\ \/ \E r \in Runs : HelperStep(r) \/ HelperDies(r)
       \/ \E r \in Runs \ Guests : RunsByHand(r)
    /\ UNCHANGED hostVars

BootNext ==
    \/ ManagerStep \/ SystemdStep \/ GuestPowersOff \/ Operates \/ ShutsDown \/ PowersOff \/ Boots
    \/ HelperRuns
    \/ ManagerFails /\ UNCHANGED <<linkVars, phase, suspended, service, boots>>
    \/ phase # "off" /\ OthersChange /\ UNCHANGED hostVars

BootSpec == BootInit /\ [][BootNext]_bootVars

(********************************** properties **********************************)
(* When libvirtd goes down with the host, every guest has been asked to power off: by
   the manager's stop, or, if the lifecycle unit had failed or was cut while it
   started, by libvirt-guests (unit_text, policy_text). *)
GuestsAreAsked == phase = "shutting" /\ Down(Libvirtd) => running \subseteq asked

(* The first start() of a boot finds no guest running, which it could not normalize
   (598 to 604): nothing but start() starts guests. *)
BootFindsGuestsOff == Doing("checks") /\ ~thisBoot => running = {}

(* A guest runs on the link of its own VNIC, in whatever state earlier runs of the
   helper left it (network_files, start() 589). *)
GuestsHaveLinks == \A g \in running : LinkUp(g)

(* The manager inside the unit never waits for a job which waits, through the order of
   the units, for the unit itself: there is a set of units with all that it waits for,
   and without the lifecycle unit (unit_text, and the comment at line 500). *)
Blocks(u) == IF job[u] = "start"
             THEN {v \in Units : \/ v \in After[u] /\ job[v] # "none"
                                 \/ u \in After[v] /\ job[v] = "stop"}
             ELSE {v \in Units : u \in After[v] /\ job[v] = "stop"}
NoCyclicWait ==
    waiting # None =>
        \E ahead \in SUBSET (Units \ {Lifecycle}) :
            \A v \in ahead \union {waiting[1]} : Blocks(v) \subseteq ahead
================================================================================
