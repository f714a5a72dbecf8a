---------------------------- MODULE InstallServices ----------------------------
(* host/install-services.py beside the manager it installs. install() looks for a
   manifest first and then writes code, configuration, unit, policy and link, in
   place and without a lock: it can stop at any of them, be run again, overlap
   another installation, and find that prepare() ran after its check. What it is
   about to replace it copies to a backup directory of its own. *)
EXTENDS StateDirectory

CONSTANTS
    Installers,  \* the runs of install-services.py
    Source       \* installer -> the configuration it was given

ASSUME InstallersAssumption == Source \in [Installers -> Configs]

(* What installations write in place is not synced either. Losses of power meanwhile
   are left out: policy and backup may both go. *)
ASSUME CrewsAssumption ==
    \A crew \in Crews : crew.losses = 0 \/ crew.processes \intersect Installers = {}

VARIABLES
    where,       \* installer -> where it is
    code,      \* the installed code: "old", "mixed" or "new"
    policy,    \* /etc/default/libvirt-guests: see Texts
    read,      \* installer -> the text it has made of the policy it read
    archived,  \* installer -> the policy in its backup directory, or None
    unit,      \* the unit: "old", Cut or "new"
    link       \* whether the manager can be called at /usr/local/sbin

installVars == <<where, code, policy, read, archived, unit, link>>

(* "damaged" holds the two settings and lacks others that were in the original. *)
Texts == {"original", "updated", "damaged", Cut}
Complete == {"original", "updated"}
ASSUME TextsAssumption == None \notin Texts

(* policy_text(): other lines are left as they are, the two settings are replaced or
   added. *)
PolicyText(text) == IF text \in Complete THEN "updated" ELSE "damaged"

InstallInit ==
    /\ \E crew \in Crews :
          /\ DirectoryInit(crew)
          /\ where = [i \in Installers |-> IF i \in crew.processes THEN "begin" ELSE "ended"]
    /\ code = "old" /\ policy = "original" /\ unit = "old" /\ link = FALSE
    /\ read = [i \in Installers |-> Cut] /\ archived = [i \in Installers |-> None]

Step(i, from, to) ==
    /\ where[i] = from /\ where' = [where EXCEPT ![i] = to]
    /\ UNCHANGED <<vars, historyVars, stage, mine, definition, intact, holds, safe, saved>>

(* No manifest, and the rest of the checks, any of which may end the run (Stops). *)
InstallChecks(i) ==
    /\ Step(i, "begin", IF file = None THEN "checked" ELSE "ended")
    /\ UNCHANGED <<config, code, policy, read, archived, unit, link>>

(* Mutant: one backup directory for all runs. *)
BacksUpLatest(i) ==
    /\ Step(i, "checked", "code")
    /\ archived' = [j \in Installers |-> policy]
    /\ UNCHANGED <<config, code, policy, read, unit, link>>

(* backup.mkdir(), shutil.copy2() of the unit, the policy and the configuration *)
BacksUp(i) ==
    /\ Step(i, "checked", "code")
    /\ archived' = [archived EXCEPT ![i] = policy]
    /\ UNCHANGED <<config, code, policy, read, unit, link>>

(* The first of the sources is copied, then the others. *)
CopiesCode(i) ==
    /\ \/ Step(i, "code", "more code") /\ code' = "mixed"
       \/ Step(i, "more code", "config") /\ code' = "new"
    /\ UNCHANGED <<config, policy, read, archived, unit, link>>

(* shutil.copyfile() truncates and writes; no copy when the configuration given is
   the one installed. *)
CopiesConfig(i) ==
    /\ \/ Step(i, "config", "config cut") /\ config' = Cut
       \/ Step(i, "config", "unit") /\ UNCHANGED config
       \/ Step(i, "config cut", "unit") /\ config' = Source[i]
    /\ UNCHANGED <<code, policy, read, archived, unit, link>>

(* UNIT.write_text() *)
WritesUnit(i) ==
    /\ \/ Step(i, "unit", "unit cut") /\ unit' = Cut
       \/ Step(i, "unit cut", "policy") /\ unit' = "new"
    /\ UNCHANGED <<config, code, policy, read, archived, link>>

(* POLICY.write_text(policy_text(POLICY.read_text())): read, truncated, written. Over
   another text that was written since it was truncated, the longer one shows. *)
WritesPolicy(i) ==
    /\ \/ /\ Step(i, "policy", "policy read")
          /\ read' = [read EXCEPT ![i] = PolicyText(policy)] /\ UNCHANGED policy
       \/ Step(i, "policy read", "policy cut") /\ policy' = Cut /\ UNCHANGED read
       \/ /\ Step(i, "policy cut", "link") /\ UNCHANGED read
          /\ policy' = IF policy \in {Cut, read[i]} THEN read[i] ELSE "damaged"
    /\ UNCHANGED <<config, code, archived, unit, link>>

(* The link, daemon-reload, disable, autostart --disable. *)
Links(i) ==
    /\ Step(i, "link", "ended")
    /\ link' = TRUE
    /\ UNCHANGED <<config, code, policy, read, archived, unit>>

(* An exception, a signal, a reboot: nothing is rolled back. *)
Stops(i) ==
    /\ \E place \in {"checked", "code", "more code", "config", "config cut", "unit", "unit cut",
                     "policy", "policy read", "policy cut", "link"} : Step(i, place, "ended")
    /\ UNCHANGED <<config, code, policy, read, archived, unit, link>>

InstallNext ==
    \/ ManagerNext /\ UNCHANGED installVars
    \/ \E i \in Installers :
          \/ InstallChecks(i) \/ BacksUp(i) \/ CopiesCode(i) \/ CopiesConfig(i) \/ WritesUnit(i)
          \/ WritesPolicy(i) \/ Links(i) \/ Stops(i)

InstallSpec == InstallInit /\ [][InstallNext]_<<vars, directoryVars, historyVars, installVars>>

(********************************** properties **********************************)
(* The other settings that libvirt-guests had are whole at every moment, in place or
   in the backup directory of one of the runs, whichever of them stopped where or
   read what another had truncated (lines 99 to 102, 112 to 114). *)
PolicyIsKept == policy \in Complete \/ \E i \in Installers : archived[i] \in Complete
================================================================================
