----------------------------- MODULE StateDirectory ----------------------------
(* host/gpu-vm-manager.py: the state directory. prepare() takes the baseline of the
   deployment, file by file, into a backup directory of its own, and the manifest
   names that directory from then on; every transition begins with load(), which
   compares manifest, configuration and backups, and writes the manifest again. Each
   invocation makes one call of atomic_json() for the manifest, step by step as in
   AtomicJson. Kills and losses of power come anywhere, and operators use libvirt
   meanwhile.

   Backups are written without fsync. Their directory is synced by the atomic_json()
   of original-state.json (one step here), their bytes and the directory's own entry
   by nobody: a loss of power may take them at any time. *)
EXTENDS AtomicJson

CONSTANTS
    Prepares,  \* the invocations of prepare; the other Writes are transitions
    Configs,   \* the configurations that may be in deployment.json

(* Each crew: the processes that take part and the losses of power they meet. *)
    Crews

ASSUME PreparesAssumption == Prepares \subseteq Writes

Cut == "cut"  \* a file that was truncated and not written to its end
Files == {"fabricmanager.cfg.mode0", "xml", "original-state.json"}

VARIABLES
    stage,       \* invocation -> where it is
    config,      \* what deployment.json holds: one of Configs or Cut
    mine,        \* invocation -> the configuration it has read
    definition,  \* the devices in libvirt's definition of the guests: "cpu" or "gpu"
    intact,      \* directory -> its files that are whole; a directory is named by the
                 \* prepare that made it
    holds,       \* directory -> the definition saved there
    safe,        \* directory -> the files whose bytes are sure to survive
    saved,       \* invocation -> the manifest it writes: [directory, config]
    losses,      \* losses of power to come
    baseline,    \* history: the directory named by the first manifest that returned
    powerLost    \* history: power was lost

directoryVars == <<stage, config, mine, definition, intact, holds, safe, saved>>
historyVars == <<losses, baseline, powerLost>>

DirectoryInit(crew) ==
    /\ Init
    /\ stage = [w \in Writes |-> IF w \in crew.processes THEN "begin" ELSE "ended"]
    /\ config \in Configs
    /\ mine = [w \in Writes |-> Cut]
    /\ definition \in {"cpu", "gpu"}
    /\ intact = [w \in Writes |-> {}] /\ safe = intact
    /\ holds = [w \in Writes |-> "cpu"]
    /\ saved = [w \in Writes |-> [directory |-> None, config |-> Cut]]
    /\ losses = crew.losses
    /\ baseline = None /\ powerLost = FALSE

Holding(w) == stage[w] \notin {"begin", "configured", "ended"}
Stage(w, place) == stage' = [stage EXCEPT ![w] = place]
Ends(w) == Stage(w, "ended") /\ UNCHANGED <<config, mine, definition, intact, holds, safe, saved>>

(* main(): configure(root_config()), before the lock. Half a file is no JSON. *)
Configures(w) ==
    /\ stage[w] = "begin"
    /\ IF config = Cut
       THEN Ends(w)
       ELSE /\ mine' = [mine EXCEPT ![w] = config] /\ Stage(w, "configured")
            /\ UNCHANGED <<config, definition, intact, holds, safe, saved>>
    /\ UNCHANGED <<vars, historyVars>>

(* flock(LOCK_EX | LOCK_NB) *)
Locks(w) ==
    /\ stage[w] = "configured"
    /\ IF \E x \in Writes : Holding(x)
       THEN Ends(w)
       ELSE Stage(w, "locked") /\ UNCHANGED <<config, mine, definition, intact, holds, safe, saved>>
    /\ UNCHANGED <<vars, historyVars>>

(* Mutant: an existing manifest is not looked for. *)
ChecksDefinitionsOnly(w) ==
    /\ w \in Prepares /\ stage[w] = "locked"
    /\ IF definition = "cpu"
       THEN Stage(w, "checked") /\ UNCHANGED <<config, mine, definition, intact, holds, safe, saved>>
       ELSE Ends(w)
    /\ UNCHANGED <<vars, historyVars>>

(* prepare(): "not MANIFEST.exists()", domain_checks(initial=True) *)
PrepareChecks(w) ==
    /\ w \in Prepares /\ stage[w] = "locked"
    /\ IF file = None /\ definition = "cpu"
       THEN Stage(w, "checked") /\ UNCHANGED <<config, mine, definition, intact, holds, safe, saved>>
       ELSE Ends(w)
    /\ UNCHANGED <<vars, historyVars>>

(* backup.mkdir(), shutil.copy2(CFG) *)
CopiesConfiguration(w) ==
    /\ stage[w] = "checked"
    /\ intact' = [intact EXCEPT ![w] = {"fabricmanager.cfg.mode0"}]
    /\ Stage(w, "copied")
    /\ UNCHANGED <<vars, historyVars, config, mine, definition, holds, safe, saved>>

(* dumpxml, as the definition is by now; cpu.xml; make_gpu_xml(), which refuses a
   definition with devices; gpu.xml *)
SavesDefinitions(w) ==
    /\ stage[w] = "copied"
    /\ intact' = [intact EXCEPT ![w] = @ \union {"xml"}]
    /\ holds' = [holds EXCEPT ![w] = definition]
    /\ Stage(w, IF definition = "cpu" THEN "saved" ELSE "ended")
    /\ UNCHANGED <<vars, historyVars, config, mine, definition, safe, saved>>

(* Mutant: original-state.json is left for later. *)
SkipsOriginal(w) ==
    /\ stage[w] = "saved"
    /\ saved' = [saved EXCEPT ![w] = [directory |-> w, config |-> mine[w]]]
    /\ Stage(w, "commit")
    /\ UNCHANGED <<vars, historyVars, config, mine, definition, intact, holds, safe>>

(* backupHashes, atomic_json(original-state.json) *)
WritesOriginal(w) ==
    /\ stage[w] = "saved"
    /\ intact' = [intact EXCEPT ![w] = @ \union {"original-state.json"}]
    /\ safe' = [safe EXCEPT ![w] = {"original-state.json"}]
    /\ saved' = [saved EXCEPT ![w] = [directory |-> w, config |-> mine[w]]]
    /\ Stage(w, "commit")
    /\ UNCHANGED <<vars, historyVars, config, mine, definition, holds>>

(* Mutant: load() does not compare the backups with their hashes. *)
LoadableUnhashed(w) ==
    /\ file # None /\ file \in whole
    /\ saved[of[file]].config = mine[w]
    /\ "original-state.json" \in intact[saved[of[file]].directory]

(* load(): the manifest is of this configuration and its backups are there, with the
   hashes that were recorded *)
Loadable(w) ==
    /\ file # None /\ file \in whole
    /\ saved[of[file]].config = mine[w]
    /\ intact[saved[of[file]].directory] = Files

(* From here on the transition copies and defines what the backups hold. *)
Loads(w) ==
    /\ w \notin Prepares /\ stage[w] = "locked"
    /\ IF Loadable(w)
       THEN /\ saved' = [saved EXCEPT ![w] = saved[of[file]]] /\ Stage(w, "commit")
            /\ UNCHANGED <<config, mine, definition, intact, holds, safe>>
       ELSE Ends(w)
    /\ UNCHANGED <<vars, historyVars>>

(* checkpoint() *)
Commits(w) ==
    /\ stage[w] = "commit"
    /\ Opens(w) \/ WritesBytes(w) \/ Syncs(w) \/ Replaces(w)
    /\ UNCHANGED <<directoryVars, historyVars>>

Returns(w) ==
    /\ stage[w] = "commit" /\ SyncsDirectory(w)
    /\ Ends(w)
    /\ baseline' = IF baseline = None THEN saved[w].directory ELSE baseline
    /\ UNCHANGED <<losses, powerLost>>

(* An exception, a signal, a full disk. *)
Dies(w) ==
    /\ Holding(w) /\ Ends(w)
    /\ IF Active(w) THEN Killed(w) ELSE UNCHANGED vars
    /\ UNCHANGED historyVars

(* Any bytes of backups that were not synced may go. *)
LosesPower ==
    /\ losses > 0 /\ losses' = losses - 1 /\ powerLost' = TRUE
    /\ PowerLoss
    /\ stage' = [w \in Writes |-> IF stage[w] = "begin" THEN "begin" ELSE "ended"]
    /\ \E lost \in SUBSET UNION {{w} \X (intact[w] \ safe[w]) : w \in Writes} :
          intact' = [w \in Writes |-> {f \in intact[w] : <<w, f>> \notin lost}]
    /\ safe' = intact'
    /\ UNCHANGED <<config, mine, definition, holds, saved, baseline>>

(* An operator attaches a device to a guest's definition, or detaches it. *)
OperatorRedefines ==
    /\ definition' = IF definition = "cpu" THEN "gpu" ELSE "cpu"
    /\ UNCHANGED <<vars, historyVars, stage, config, mine, intact, holds, safe, saved>>

ManagerNext ==
    \/ LosesPower \/ OperatorRedefines
    \/ \E w \in Writes :
          \/ Configures(w) \/ Locks(w) \/ PrepareChecks(w) \/ CopiesConfiguration(w)
          \/ SavesDefinitions(w) \/ WritesOriginal(w) \/ Loads(w) \/ Commits(w) \/ Returns(w)
          \/ Dies(w)

(********************************** properties **********************************)
Manifest == saved[of[file]]

(* Once a first manifest has been returned, the manifest that is read names its
   baseline for ever, whatever is killed, lost, or prepared again: "backups will not
   be replaced" (line 442). *)
BaselineIsKept == baseline # None => file # None /\ Manifest.directory = baseline

(* The baseline that a manifest names restores the guests without devices, although
   prepare() reads their definitions a second time after it checked them; and it is
   whole, wherever invocations were killed, as long as no power was lost (lines 443
   and 472 to 485). *)
ManifestHasBaseline ==
    file # None => /\ holds[Manifest.directory] = "cpu"
                   /\ ~powerLost => intact[Manifest.directory] = Files

Transitions == {w \in Writes \ Prepares : stage[w] = "commit"}

(* A transition restores nothing from a baseline that lost a byte, however power was
   lost since prepare() left the backups unsynced, and works under the configuration
   that the baseline was taken for, although it read the file before it took the lock
   and nothing keeps the file from being replaced (lines 425 to 436, 720 to 737). *)
TransitionsHaveBaseline ==
    \A w \in Transitions : /\ intact[saved[w].directory] = Files
                           /\ mine[w] = mine[saved[w].directory]
================================================================================
