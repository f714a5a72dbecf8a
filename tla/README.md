# A TLA+ verification of oci-a100-kvm

The repository moves eight A100 GPUs of an OCI bare-metal host between the host
and two KVM guests. Most of what can go wrong is in the order of things: commands
that time out and take effect later, invocations that are killed and retried,
reboots in the middle of a transition, operators and daemons that act meanwhile.
The modules here model those parts of the code, TLC checks them on small
instances, and TLAPS proves the most important results for every size: every safety
property of the lifecycle, of boot and shutdown, of the state directory, of VNIC
attachments and of the placement of claims and cores, and that the lifecycle implements
an abstract protocol of GPU ownership, and the writes of its records an abstract record
that changes in one step.

Run `tlc -config X.cfg M` for a configuration (the header of each `.cfg` belongs
to the `MC*` module of the table below) and `tlapm M.tla` for a proof module.

## 1. The system

| Component | State it keeps | Operations | Interacts with |
|---|---|---|---|
| Lifecycle controller `host/gpu-vm-manager.py` | `manifest.json` (phase, boot identity, baseline), `uncertain-command.json`, the backups, `manager.lock` | `prepare`, `start`, `stop`, `restart`, `inspect`; inside them `shutdown`, `restore_configuration`, `checkpoint`/`atomic_json` | kernel (sysfs writes, `/proc`), libvirt (`virsh`), systemd (`systemctl`), Fabric Manager and its config |
| Guest creation `host/create-guests.py` | link units, network, guest directories, domains on the host; none of its own | `preflight`, `check_topology`, `check_vnics`, `execute` | libvirt, systemd, networkd, the link helper |
| VNIC attachment `network/attach-vnics.py` | none; OCI keeps the attachments | plan, attach with a retry token, wait, report | OCI |
| VNIC link helper `network/ensure-vnic-link.sh` | the VLAN link | check identity, add, set up | run by the net unit of each guest at boot, or by hand; kernel, OCI metadata |
| Guest GPU preparation `guest/configure-gpu.sh` | backup directory with `state.json`, modprobe configuration, initramfs | save, configure, rebuild (read, then rename), verify, roll back | `update-initramfs`, package triggers |
| Configuration validation `lib/config.py` | none | `validate_config`, `load_config`, `trusted_path` | read by all host programs |
| Service installation `host/install-services.py` | installed code and configuration, lifecycle unit, policy of libvirt-guests, symlink, backup directory | `install` (`unit_text`, `policy_text`) | systemd, libvirt-guests; the manager reads the configuration it installs |
| systemd (external) | units and jobs | boot, shutdown, the operator's `systemctl` | runs the net units, and `start` and `stop` inside the lifecycle unit, which call `systemctl` themselves |
| The rest: discovery, package installation, image download, preflight report, tests, example manifest | none, or that of external tools | | |

### What is hard, and what makes each part correct

*Lifecycle controller.* A command has a deadline, but its effect does not: a sysfs
write can block in the kernel past the deadline and complete under a later
invocation; a killed `virsh` or `systemctl` leaves libvirt's or systemd's
operation behind. An invocation can be killed, interrupted or fail anywhere, and
the host can reboot anywhere. What survives is the phase in the manifest and one
record of an uncertain process. It is correct when no guest loses a GPU under it,
drivers change only under an announced phase, guests are launched only when their
previous instance is gone, the recorded phases are true of the hardware, every
invocation ends, and `stop`, retried, reaches the baseline from every accident.

*Guest creation.* Nothing locks one invocation against another, nothing is rolled
back, reruns follow partial builds. It is correct when one build is made of one
invocation's pieces, nothing is overwritten, a guest starts on a complete set of
fresh resources, and what preflight accepted does not fail half way on what
already exists. Its placement check is correct when no core and no memory is
promised twice.

*VNIC attachment.* OCI's answer can be lost, the attachment be made minutes later,
and the operator rerun or overlap invocations. It is correct when a guest gets one
attachment, nothing is created for either while one that the run could see conflicts
with what was asked for, and all runs report the same attachment of a guest.

*Guest GPU preparation.* It rewrites the file the guest boots from, and can be
killed at each step. It is correct when the original can be recovered at every
moment and success and rollback mean what they announce. Package installations rebuild
the same file meanwhile, under no common lock.

*Configuration validation and placement.* Three programs of checks written apart
decide about one deployment: `validate_config`, `check_topology` and the definition
that `render_domain` writes. Correct when, of what all three let through, no guest
has an identifier, CPU or core of another, and the guest sees as one core, and as
local memory, what is so on the host.

*State directory and checkpoints.* `prepare` writes a baseline into a directory of its
own, mostly without fsync, and a synced manifest names it. `atomic_json()` is correct
when a reader never finds part of a record and a record that was returned survives a
loss of power; `prepare` and `load` when the baseline a manifest names restores the
guests without devices, is never replaced, and is not restored from when it lost a
byte or belongs to another configuration.

*Service installation.* It writes in place, without lock or rollback, after a check
for a manifest that may be out of date by then. It is correct when the settings
libvirt-guests had are never lost, and when no half-written configuration gets into a
transition.

*VNIC link helper.* It looks, decides and then acts, while other runs, operators and
OCI act too. It is correct when a guest that runs has the link of its own VNIC up, and
the helper changes no link that is not one of its specification.

*Boot and shutdown.* The manager runs inside a unit, waits for jobs of other units, and
depends on two more programs (libvirt-guests, the net units) to do their part before
and after it. It is correct when guests are asked to power off before libvirtd goes,
by whichever of the two is left to do so, when the first `start` of a boot finds
guests off, and when the manager never waits for a job that waits for its own unit.

The line-by-line list of hazards, with the properties that look after each, is in
`PROJECT.json`.

## 2. Modules

| Module | Code | What it is |
|---|---|---|
| `GpuHost` | external; used through `run`, `write_sysfs` | kernel, libvirt, systemd and Fabric Manager as the manager uses them, and the operations it has lost sight of (`inflight`) |
| `GpuVmManager` | `gpu-vm-manager.py` | the invocation that holds `manager.lock`; `pc` names function and statement, one action per command, check or checkpoint |
| `GpuOwnership` | abstract | each guest's GPUs belong to the host, are moving, or belong to the guest; a record announces moves |
| `LifecycleProperties` | | safety, liveness, the refinement mapping to `GpuOwnership` |
| `SafetyProofs` | | types and the safety properties of GPUs, writes and launches |
| `LifecycleProofs` | | `StoppedIsBaseline`, that `GpuVmManager` implements `GpuOwnership`, and the properties of the moments when guests, applications and Fabric Manager take turns |
| `AtomicRecord` | abstract | what a checkpoint promises: a content that changes at one moment of a call and, once the call has returned, survives any loss of power |
| `AtomicJson` | `atomic_json` 154-169 | a file write that `Checkpoint` takes for one step, down to fsync and rename; the refinement mapping to `AtomicRecord` |
| `StateDirectory` | `prepare`, `load`, `main` of `gpu-vm-manager.py` | extends `AtomicJson`: baseline, manifest and configuration file by file, with kills and losses of power |
| `InstallServices` | `install-services.py` 67-127 | extends `StateDirectory`: installations beside preparations and transitions |
| `InstallServicesProofs` | | proofs about the three |
| `EnsureLink` | `ensure-vnic-link.sh` | overlapping runs of the helper beside a kernel, OCI and others |
| `HostBoot` | units of `create-guests.py` and `install-services.py`; `start` and `stop` as programs of commands | extends `EnsureLink`: systemd's jobs from boot to shutdown, and the next boot |
| `HostBootProofs` | | proofs about the two |
| `AttachVnics` | `attach-vnics.py` | overlapping invocations beside OCI and an operator |
| `AttachVnicsProofs` | | proofs about it |
| `CreateGuests` | `create-guests.py` 307-421 | overlapping, failing and repeated builds |
| `CreateGuestsProofs` | | proofs about it |
| `DeploymentConfig` | `config.py` 15-154 | the acceptance of a configuration |
| `Topology` | `create-guests.py` 74-139, 191-220 | operators: the acceptance of a placement, and the cells and vCPUs of a definition |
| `Placement` | `create-guests.py` `main` | validation, placement and rendering of one deployment, one after the other |
| `PlacementProofs` | | proofs about the three, and the lemmas about sums over finite sets they rest on |
| `ConfigureGpu` | `configure-gpu.sh` | the preparation of the initramfs, cut anywhere |
| `ConfigureGpuProofs` | | proofs about it |
| `MC*` | | small instances |

### The lifecycle, in more detail

`saved` is the manifest, `marker` the process in `uncertain-command.json`, `pc`,
`call`, `todo`, `cur`, `seen` the locals of the invocation (`todo` and `cur` are
the rest of a `for` loop and its element, `seen` the driver that
`restore_configuration` read). The order in which a loop visits its elements is
left open, which covers the code's.

`Run(c, x, ...)` is `run()` and `write_sysfs()`: the command takes effect, fails
without effect, or is *lost*. A lost one stays in `inflight` until it lands late
(`LandLate`) or is dropped; the record says whether its client process still
exists and whether it was written to the marker file. A killed `virsh` or
`systemctl` may be gone with its operation still queued; a blocked sysfs writer
stays in the kernel. `Check` is a statement that reads the host and goes on or
raises. `Abandon` ends an invocation between two commands for any reason that is
not modelled. `ReadTimesOut` is the timeout of a read-only command, also of the
`host_scope()` another invocation runs before it takes the lock (line 726).

What is assumed of the host, because the code depends on it and cannot check it:

* Operations on one target (a GPU, a domain, a unit) are performed one at a time:
  device lock, domain job, unit job.
* A launch in progress can be seen, as a QEMU process or as a libvirt job.
* Operators start CUDA work on the host only in the phases none, prepared and
  stopped, at any moment of these.
* A reboot leaves every GPU with the NVIDIA driver and starts no guest
  (`autostart --disable`).

Left out of it: `prepare()` is one action here (it changes nothing on the host but the
manifest; what it writes is the matter of `StateDirectory`), domain XML content,
autostart, NVSwitch bindings (never changed), partition IDs.

### The state directory and the installation

An invocation of the manager goes from reading the configuration (`Configures`, before
the lock, as `main` does) through `flock` (`Locks`) to either the backups of `prepare`
or `load` (`Loads`), and then through the statements of one `atomic_json` (`Commits`,
`Returns`), which are those of `AtomicJson`. A file is whole or it is not; `intact`
says which of a backup directory are, `safe` which are sure to stay so. A transition
is followed up to its first checkpoint, where it has decided what it restores from;
what it then does is the matter of `GpuVmManager`. Installations truncate and write in
two steps what the code writes in place, and stop after any of them.

### Boot and shutdown

`unit` and `job` are systemd's view of the units; `script` is what the manager inside
the lifecycle unit has yet to do, a sequence of commands and checks taken from `start`,
`stop` and `restore_configuration`, `waiting` the job that its `systemctl` waits for.
A branch of the code that depends on what the host is doing (`is-system-running`, the
phase of the manifest, this boot or an earlier one) is a `CASE` of the step that
reads it. `After` is the order that the two unit texts and libvirt-guests' own
unit give. Any unit can fail, any step of the manager can, the power can go at any
moment.

## 3. Runs

| Run (`.cfg`, module) | Instance | What it shows |
|---|---|---|
| `two_guests` (`MCTwoGuests`, `MCGpuVmManager`) | 2 guests with 1 GPU, a client service, 1 lost command, no reboot | GPUs stay with running guests, the fabric stays quiet, writes and launches only with everything released, the phase running is true |
| `reboot_and_late_writes` (`MCReboot`) | 1 guest, 2 GPUs, 2 lost commands, 1 reboot | the lifecycle implements `GpuOwnership`; types; late writes are announced; claims only when all is resolved; host applications keep their GPUs; stopped is the baseline; no write while the recorded process exists |
| `recovery` (`MCRecovery`) | 1 guest, 1 GPU, 1 lost command, 1 reboot, faults that end | every invocation ends, a retried stop reaches the baseline |
| `attach_vnics` (`MCAttachVnics`) | 2 guests, 2 NICs, 2 invocations, 3 attachments | one attachment per request, conflicts that the listing shows stop a run before its first request, reports agree, every invocation ends |
| `create_guests` (`MCCreateGuests`) | 2 guests, 3 invocations | one builder, no lone build meets an existing resource half way (one can still end at a helper that cannot be run, see below), guests start on whole and fresh resources |
| `configure_gpu` (`MCConfigureGpu`) | 3 invocations, 1 backup directory, overlaps | recoverable at every moment; success and rollback are true, save for a rebuild that read the configuration before a change and renames after it |
| `placement` (`MCPlacement`) | 1 or 2 guests; claims of 2 kinds; 3 SMT cores in 2 nodes; boundary values of memory and reserve | no claim, CPU or core for two guests; the definition puts each vCPU on the core and memory the host gave it; the reserve is kept |
| `state_directory` (`MCInstallServices`) | 2 preparations, 2 transitions and a loss of power; or one of each and 2 installations; or 3 installations | each checkpoint is one atomic record, the baseline is kept and whole, transitions work from a baseline of their configuration, libvirt-guests' settings are kept |
| `host_boot` (`MCHostBoot`) | 1 guest, its net unit and a run by hand, 2 boots, 2 changes by operators and others | guests are asked before libvirtd goes, boots find guests off, guests run on their links, no cyclic wait, links of others untouched |

Three runs end in a violation; each shows a statement of the repository that the
code does not keep.

| Run (`.cfg`) | What the repository says | What the code does |
|---|---|---|
| `new_mutations` (`MCNewMutations`) | `gpu-vm-manager.py:106` "still exists; no new mutations" | `stop()` writes the phase and runs `virsh shutdown` (549, 374) before it first looks for the recorded process |
| `overwritten_marker` (`MCOverwrittenMarker`) | the same | the marker holds one process; a later timeout replaces it, and the first is forgotten while it exists |
| `original_backup` (`MCOriginalBackup`, `MCConfigureGpu`) | `configure-gpu.sh:62` `originalInitrdSha256` | a killed rollback (81, 82) leaves a host where a rerun with another backup directory saves the damaged initramfs as the original |

Five more disagreements can be seen in the models and are not kept as runs:

* A client service with a queued boot job is inactive when `start` looks (492) and
  comes up under the guests, although `docs/architecture.md:22` says host
  GPU-client services remain stopped (in `GpuVmManager`, `Clients \intersect up`
  need not be empty in phase running).
* A link helper that was written but is not yet executable passes the byte
  comparison of preflight (351-353), and the build fails at the link unit (399)
  (in `CreateGuests`, a lone invocation can end "broken").
* An interrupt after line 79 of `configure-gpu.sh` rolls everything back and leaves
  `"verified": true` in `state.json` (in `ConfigureGpu`, "failed" with a verified
  record). Nothing in the repository reads that field.
* An installation that passed its check for a manifest before `prepare` took the lock
  replaces the code under the new manifest, against the message of
  `install-services.py:79` (in `InstallServices`, `code` can become "mixed" with a
  manifest on disk). The configuration is safe: `load` compares it.
* `gpu-vm-manager.py:500` says the unit stops before Fabric Manager and its clients.
  `unit_text` does not order it before or after them (in `HostBoot`, `Fm` and `Client`
  stop with it in either order). `restore_configuration` checks that they are down
  and fails otherwise.

### Bounds, and why they are enough

`MaxUncertain` bounds the commands lost over a whole behaviour: two are needed for
one record to replace another, and for a late write to meet a retry that is itself
lost; with one guest of two GPUs both are explored together with a reboot, with two
guests one is enough to leave an operation behind beside a healthy peer. `MaxBoot = 1` gives
every phase a reboot and a normalization after it; the boot identity is only
compared for equality. Two GPUs of one guest are the least that can be half moved.
`MaxAttachments = 3` leaves room for two attachments of one request and a third
party. Three invocations of a build let one fail, one rerun and one overlap. Two
values of every kind show duplicates.

`placement` is four families of deployments: claims with the host fixed, pins and
emulators of two guests and of one over both nodes, on hosts whose siblings are
neighbours or far apart, and memory with the CPUs fixed. Three cores are the least
that let two guests take one each and a third be shared in the wrong way.
`state_directory` gives its processes in three crews, because installations need no
losses of power (what they write is not synced, so nothing could be claimed) and four
processes are as many as any of the properties has actors: two preparations for a
replaced baseline, a transition for a stale one, a second installation for a policy
read while it is truncated, a third for one that repairs it. `host_boot` lets
operators and others make two changes in all (a change and its undoing, or an operator
beside one foreign link), and has two boots, so that what one leaves meets the next;
`prepare` found the client service active, or not (`Services`).
Behaviours that end because the invocations, boots or changes are used up are the
reason that deadlock is not checked in the runs whose `.cfg` says so.

Symmetry is used for the invocations of `CreateGuests` only, which are
interchangeable; its properties are invariants and action properties.

In `CreateGuests` the reads of preflight are one step. This loses nothing: files of
an overlapping build appear in the order of the program and the first of them,
a network file, is among the last things preflight looks at (372-374).
In `AttachVnics` the listing (`Lists`), the reads of the VNICs (`ReadsVnics`), the check of
each name (`Checks`), the request, the wait, the last read of the VNIC (`GetsVnic`) and
the report (`Prints`) are steps of their own. An attachment and its VNIC have separate
states: a report judges the attachment as it was listed or waited for, and the VNIC as
it was last read, so one that is being detached with its VNIC still there is reported,
as in the code. The reads of the VNICs at 50-51 are one step. `NicChoices` leaves out one
of each pair of choices that differ only in the names of the NICs.

In the lifecycle, two pairs of statements are one step: the audit and the launch of
`restart` (684, 685, `RestartLaunches`), and the check and the checkpoint that normalize a
host after a reboot (600-604, `StartNormalizes`). What can change between the two of a
pair does not touch what any property says.

### Fairness

* The manager's process runs when it can (`ManagerStep`), and an invocation of
  `attach-vnics.py` does (`RunStep`).
* An operation the manager gave up on ends one way or the other: a kernel write
  and a daemon's job do not stay pending for ever.
* A guest that was asked to power off does so once accidents have ceased; before,
  the deadline of `shutdown()` ends the wait (375-378). Host applications end.
* A host that is shutting down reboots.
* `Recovers` adds the operator who repeats `stop` until it succeeds, as the
  message of `start()` asks, and a point after which nothing fails by accident
  (`calm`). Nothing is assumed of OCI.

## 4. Proofs

What is proved holds for any number of guests, GPUs, units, invocations, reboots and
lost commands. The assumptions are those that the modules name, and each is what the
code or the environment gives: `HostAssumption` and `GpusAssumption` (every guest has
GPUs, which are GPUs, and shares none, as `config.py:115-123` enforces),
`ManagerAssumption`, `NamesAssumption` (there is a guest to attach for),
`GuestNamesAssumption` (guests to build, no two of one name: `config.py:97-103`),
`DeploymentsAssumption` (what `read_topology` finds: a finite number of nodes, and one at
least, with so many MiB free each), and the typing of constants in the modules that
declare them. The theorems about the state directory
name one more where it is used, `Locked`: that the calls are under `manager.lock`. The
theorems of the lifecycle:

* `TypeCorrect`: types. The induction carries `LoopsTyped`: at a statement inside a
  loop over GPUs, guests or units, `cur` and `todo` are of that kind.
* `GuestsKeepTheirGpus`, `WritesOnlyWhenReleased`, `LateWritesAnnounced`,
  `LaunchesOnlyWhenReleased`, `RebindsAnnounced`. None of these is inductive: a
  late unbind is harmless only because the phase on disk keeps the following
  invocations from launching a guest, and the phase is written only when nothing
  is in flight on a GPU. `IInv` of `SafetyProofs` is the conjunction of
  `PhaseKnown` (which phase is on disk at each statement), `GuestsReleased` (which
  guests are off and cannot come up), `GpusSettled` (which GPUs have no write in
  flight), `LateUnbindHarmless` (a pending unbind implies that all guests are
  released) and the properties. Every part is proved for each group of the
  manager's steps; host steps and accidents are shown harmless to all of it.
* `StoppedIsTrue` and `LifecycleImplementsOwnership` (`LifecycleProofs`). Both rest on
  `OInv`: `IInv` and, in addition, what each statement of `restore_configuration` has
  already achieved (`Restored`, `HostOwns`, `ConfigKept`), what the claim has achieved
  (`ClaimPhase`, `Bound`), and that nothing in flight can undo it. The refinement has
  one lemma per group of steps: each command, checkpoint, late effect, reboot and
  power-off is one step of `GpuOwnership` or a stutter.
* `FabricStaysQuiet`, `RunningIsTrue`, `WritesAfterRecordedProcess`, `ClaimsAreResolved`,
  `AppsAreLeftAlone` (`LifecycleProofs`). Each of them rests on a check that was made some
  commands earlier, and on nothing in flight, or issued in between, undoing what the
  check found. `HInv` adds to `OInv`: `Recorded` (the recorded process is not at work
  between `no_uncertain_processes` and the last write), `Resolved` (no operation on a
  guest outlives the restore), `AppsOnHost` (no application from the check on),
  `BootKnown` (who has compared the boot identity), `FabricKnown` (Fabric Manager is
  down, with no start on its way, whenever guests have their GPUs) and `RunsSteady`
  (what `verify_running` found is still so).

The theorems of the other components:

* `PlacedClaimsApart`, `GuestsHaveTheirCores`, `GuestsSeeTheHost`, `AcceptedClaimsApart`,
  `AcceptedCpusApart` (`PlacementProofs`), for any guests, identifiers, CPUs and nodes.
  What validation has claimed so far is in `seen`, and no two claims so far are equal;
  what has been placed satisfies the pure lemmas about `Topology` (each pair of vCPUs
  is a core, cores of two guests are apart, each vCPU is in one cell).
* `ReserveIsLeft` and the part of `GuestsSeeTheHost` about memory (`PlacementProofs`) are
  about sums over all guests of a node, all cells of a guest and all nodes of the host.
  The sums are those of the community modules, recursive functions of a finite set, and
  what is needed of them is proved by induction on its size: a sum is that of one element
  and the rest (`SumOfRest`), and what bounds every summand bounds the sum
  (`SumBounds`). From the acceptance (109-118) every used node has its share of the
  reserve left, and equal shares, rounded up, cover it (`SharesCover`); equal cells of a
  memory that divides by their number have all of it (`MemoryOfOne`).
* `BuiltByOne`, `NoBuildIsDoomed`, `StartsAreWhole` (`CreateGuestsProofs`), for any number
  of guests and invocations. While anything builds, all that stands is of the run that
  made the first file of the first guest (`FirstDecides`); what a run has passed in the
  program stands, whole and its own (`StepsStand`); UEFI variables are there for started
  guests only (`NvramOfStarted`); beside a run that is alone nothing stands but its own
  (`AloneBuilds`). `Effect` says once what all steps of a run that builds have in common,
  and is what the invariant is proved from. `ProgramShape` and `DomainLast` say where in
  the program each step is: the domain of a guest after all it uses.
* `CallsAreAtomic`, `CheckpointsAreKept` of `AtomicJson`, for any number of calls under
  `manager.lock`: the file being written is never one that can be read now or after a
  loss of power (`TmpApart`), what can be read is whole and synced (`Readable`), and
  each statement of the one active call says how far it has come (`Progress`). With
  them every statement is a step of `AtomicRecord` or none: opening the temporary file
  begins a write, the rename changes the content, the fsync of the directory makes the
  change last, and the rest changes nothing that a reader, now or after a loss of power,
  can see (`CallsStep`, `PowerLossStep`). The mapping gives a file that is there and not
  whole the content `"torn"`, which no call writes. This justifies the single step
  `Checkpoint` of the lifecycle.
* `BaselinesAreKept`, `ManifestsHaveBaselines`, `TransitionsMatchBaselines`,
  `ManifestsAreAtomic`, `PoliciesAreKept` (`InstallServicesProofs`), for any number of
  invocations, installations and losses of power. The invariant `DInv` builds on that of
  `AtomicJson`, since every step here is one of it or leaves its files alone: one process at most is under the lock (`OneHolds`), it is the one that may be
  inside `atomic_json` (`Calls`), what it is about to name is a finished baseline
  (`Named`), and no later manifest names another (`Stands`). `PInv` says that a policy
  cut or damaged has a complete copy in some backup directory. Only what is said of
  manifests, baselines and transitions needs `Locked`; the policy has no lock to rely on.
* `GuestsRunOnTheirLinks`, `OnlySpecifiedLinksChange`, `NoGuestBeforeStart`
  (`HostBootProofs`), for any number of guests, runs, boots and changes. A run of the
  helper that goes on to set its link up has found or made it as specified
  (`RunsLinked`), an active net unit has its link up (`UnitsLinked`), the manager's
  program runs only inside the lifecycle unit (`ManagerInUnit`) and has started no guest
  before its checks (`FreshBoot`).
* `GuestsAreAskedFirst`, `ManagerIsNotWaitedFor` (`HostBootProofs`). Whoever goes down
  with the host is ordered before libvirtd: a host that shuts down has a stop job for
  every unit that is up (`JobsKnown`), libvirt-guests is up whenever the manager launches
  a guest, and is down only when every guest was asked (`Watched`). What the manager
  waits for is Fabric Manager or a client (`WaitsForServices`), which no unit is ordered
  with. The order of the units is all that the second rests on: it does not need, and so
  does not check, what `restore_configuration` does differently while the host shuts
  down (499-505).
* `RequestsAreAnsweredOnce`, `NoRequestBesideAConflict`, `ReportsAreConsistent`
  (`AttachVnicsProofs`).
  A token that OCI remembers leads to the only live attachment that answers its request
  (`TokenKnown`); one that it does not remember, while an invocation may still send the
  request or OCI carry it out, has none (`NoneYet`). The second is what makes listing
  early harmless, and it needs that an id means the same attachment for ever (`Listed`).
  For the other two, what the checks have found of each name so far (`Planning`) holds of
  every attachment listed that is still there when all names are through (`Refused`),
  since an attachment never leaves its NIC or returns to being made; and what has been
  reported for the guests whose turn is over is theirs (`Current`, `Reported`). That two
  runs agree then is `RequestsAreAnsweredOnce`.
* `ChangesCanBeUndone` (`ConfigureGpuProofs`): while anything of the guest is changed, or
  an invocation is in its try block or rollback, some backup directory holds the original
  initramfs and has no invocation that could still write it (`Kept`); `mkdir` gives a
  directory one writer (`OneWriter`).
* `SuccessIsSo`, `RollbackIsSo` (`ConfigureGpuProofs`). An invocation that works or has
  succeeded keeps all others from working (`Exclusive`): by the directory, when there is
  one, and else because operators take turns (`Serial`) and the configuration is in
  place. What it has achieved at each statement is then undone by no one (`Achieved`),
  but for one case that is in the statements: a rebuild by a package, or one that a
  killed run left behind, that read the configuration before it changed and renames its
  image after the verification or the restore (`crossed`). The code holds no lock that
  could keep it out.
  The hypotheses are part of the theorems: `RollbackIsSo` needs one directory, the
  default of the script, and is false for operators with one each, as the run
  `original_backup` shows.

Of the properties of the passing runs, TLC alone checks liveness, which is out of the
prover's reach: `InvocationEnds`, `Recovers`, `EveryRunEnds`. All safety properties,
action properties and both refinements are proved as well. The other runs show that
something is not so.

Induction over data is proved from the least element of a set of numbers (`WFMin` and
`NatLessThanWellFounded` of the library), since the library's own induction rules take
an operator and cannot be instantiated here.

## 5. External parts

OCI: an attach request with the token of an earlier one returns the attachment that
one made, or is refused when it has changed since; a token lives longer than an
invocation; an unanswered request may still be carried out. The VNIC of an
attachment has its own state and is deleted with it. `update-initramfs` reads the
configuration, builds in a file of its own, and later replaces the initramfs by one
rename; it outlives a script that is killed, and may exit with success without rebuilding.
libvirt refuses to define a name it knows with another identity. The file system
may lose what was not synced: bytes, a rename, a new file. The kernel refuses a second
link of a name, or of a tag on a parent. systemd holds one job for each unit, orders
starts and stops by `After=`, fails a start whose `Requires=` is not met, runs
`ExecStop=` only for a unit that became active, and refuses new starts once the host
shuts down. libvirt-guests acts by its policy: what it does with `ON_BOOT` and
`ON_SHUTDOWN` is modelled for the values that `policy_text` writes and for the defaults.

## 6. Not modelled

* Rendered XML and cloud-init content other than CPUs, cells and memory; the form of
  single configuration values; the overlap of the management subnet; `trusted_path`; the
  matching of OCI metadata in `check_vnics`. The conditions of the link helper that
  only refuse (parent, MTU, addresses of others) are failures that may happen anywhere.
* A loss of power during an installation: nothing it writes is synced, so policy and
  backup may both be gone, and there is nothing the code could be held to.
* Discovery and preflight reports, package installation scripts, image download, tests:
  read-only, or straight lines around `apt`, a compiler or a download, whose state is
  that of other programs. They have no interleaving, recovery or protocol of their own.
* Two processes that write `uncertain-command.json` at once (one inside `host_scope()`,
  before the lock) share its temporary file; `AtomicJson` has that case
  (`Locked = FALSE`) but nothing is claimed of it, and the lifecycle model takes each
  record as written whole.
* A network helper that was written and not made executable: `CreateGuests` has the case
  (see the disagreements above), and no property states it.
* The digest of the prepared initramfs in `state.json` (`configure-gpu.sh:78`), which
  nothing in the repository reads.
* `autostart --disable` after the manifest in `prepare` (486): it only removes what
  `GpuHost` assumes to be absent.

## 7. What is left

Every component with state is modelled, and every safety property that is checked is
proved. Of the hazards in `PROJECT.json`, two are in a model without a property (the
shared temporary file and the helper that cannot be run); the note there says why.
