------------------------------ MODULE ConfigureGpu -----------------------------
(* guest/configure-gpu.sh --execute: back up the guest's initramfs, write the
   NVLink-disable configuration, rebuild the initramfs, verify it, and roll back
   on an exception. An invocation can be killed at any step (SIGKILL, SIGTERM and
   SIGHUP raise nothing in Python); SIGINT is an exception at any step.

   update-initramfs is external: it reads what /etc/modprobe.d holds, and later
   puts the initramfs it made in place, in one rename. Package installations may run
   it at any time, so that one can read before a step of this program and rename
   after several more; each is taken to build in a file of its own. *)
EXTENDS Naturals

CONSTANTS
    Runs,     \* invocations with --execute
    Dirs,     \* the values of --backup-directory the operators use
    Overlaps  \* whether operators start an invocation while another is going on

(* A file is missing, cut short ("torn") or whole; an initramfs is clean of the
   configuration, has part of it or all of it embedded, or is itself cut short. *)
VARIABLES
    config,  \* /etc/modprobe.d/99-a100-pcie-only.conf: "missing", "torn", "whole"
    initrd,  \* /boot/initrd.img: "clean", "partial", "embedded", "torn"
    saved,   \* backup directory -> the saved initramfs in it, or "missing"
    record,  \* backup directory -> its state.json: "missing", "torn", "unverified", "verified"
    made,    \* the backup directories that exist
    run,     \* invocation -> the statement it is at, its directory, the image it builds
    pending, \* the images that rebuilds by packages have in the making
    crossed  \* history: the initramfs is of a rebuild that had read the configuration
             \* before a change, and was put in place after it

boot == <<initrd, pending, crossed>>
vars == <<config, boot, saved, record, made, run>>

Init ==
    /\ config = "missing" /\ initrd = "clean" /\ pending = {} /\ crossed = FALSE
    /\ saved = [d \in Dirs |-> "missing"]
    /\ record = [d \in Dirs |-> "missing"]
    /\ made = {}
    /\ \E dir \in [Runs -> Dirs] :
          run = [r \in Runs |-> [at |-> "check", dir |-> dir[r], image |-> "none"]]

At(r) == run[r].at
Dir(r) == run[r].dir
Goto(r, at) == run' = [run EXCEPT ![r].at = at, ![r].image = "none"]

Guarded == {"config", "configured", "rebuilding", "rebuilt", "listed", "verified", "recorded"}
RollingBack == {"unlink", "restore", "restoring"}
Ended == {"done", "refused", "failed", "killed"}
Active(r) == At(r) \notin Ended \union {"check"}

(******************************** the environment ********************************)
(* What update-initramfs makes of the configuration file. *)
Rebuilt == CASE config = "missing" -> "clean" [] config = "torn" -> "partial"
             [] config = "whole" -> "embedded"

PutInPlace(image) == initrd' = image /\ crossed' = (image # Rebuilt)

(* A package's rebuild comes to /etc/modprobe.d ... *)
PackageReads ==
    /\ pending' = pending \union {Rebuilt}
    /\ UNCHANGED <<config, initrd, crossed, saved, record, made, run>>

(* ... and one of those with that image renames it; there may be others. *)
PackageRenames ==
    /\ \E image \in pending : PutInPlace(image) /\ pending' \in {pending, pending \ {image}}
    /\ UNCHANGED <<config, saved, record, made, run>>

(* update-initramfs outlives a program that is killed while it waits for it. *)
Killed(r) ==
    /\ Active(r)
    /\ Goto(r, "killed")
    /\ pending' = IF At(r) = "rebuilding" THEN pending \union {run[r].image} ELSE pending
    /\ UNCHANGED <<config, initrd, crossed, saved, record, made>>

(******************************* before the changes ******************************)
(* Lines 44 to 54: neither the backup nor the configuration exists. *)
Check(r) ==
    /\ At(r) = "check"
    /\ Overlaps \/ \A s \in Runs : ~Active(s)
    /\ Goto(r, IF Dir(r) \notin made /\ config = "missing" THEN "mkdir" ELSE "refused")
    /\ UNCHANGED <<config, boot, saved, record, made>>

(* Mutant: mkdir(exist_ok=True) and no check of the backup path. *)
MakesDirectoryAnyway(r) ==
    /\ At(r) = "mkdir"
    /\ made' = made \union {Dir(r)} /\ Goto(r, "save")
    /\ UNCHANGED <<config, boot, saved, record>>

(* backup.mkdir(), which is exclusive *)
MakesDirectory(r) ==
    /\ At(r) = "mkdir"
    /\ IF Dir(r) \in made
       THEN Goto(r, "refused") /\ UNCHANGED made
       ELSE made' = made \union {Dir(r)} /\ Goto(r, "save")
    /\ UNCHANGED <<config, boot, saved, record>>

(* copy2(initrd, saved) creates the copy ... *)
BeginsSave(r) ==
    /\ At(r) = "save"
    /\ saved' = [saved EXCEPT ![Dir(r)] = "torn"] /\ Goto(r, "saving")
    /\ UNCHANGED <<config, boot, record, made>>

(* ... and fills it. *)
EndsSave(r) ==
    /\ At(r) = "saving"
    /\ saved' = [saved EXCEPT ![Dir(r)] = initrd] /\ Goto(r, "compare")
    /\ UNCHANGED <<config, boot, record, made>>

(* The digests agree, and state.json is written. *)
Compares(r) ==
    /\ At(r) = "compare"
    /\ IF saved[Dir(r)] = initrd
       THEN record' = [record EXCEPT ![Dir(r)] = "unverified"] /\ Goto(r, "config")
       ELSE Goto(r, "refused") /\ UNCHANGED record
    /\ UNCHANGED <<config, boot, saved, made>>

(* An exception before the try block; state.json may be cut short. *)
FailsEarly(r) ==
    /\ At(r) \in {"mkdir", "save", "saving", "compare"}
    /\ \/ UNCHANGED record
       \/ At(r) = "compare" /\ record' = [record EXCEPT ![Dir(r)] = "torn"]
    /\ Goto(r, "refused")
    /\ UNCHANGED <<config, boot, saved, made>>

(********************************* the try block *********************************)
BeginsConfig(r) ==
    /\ At(r) = "config"
    /\ config' = "torn" /\ Goto(r, "configured")
    /\ UNCHANGED <<boot, saved, record, made>>

EndsConfig(r) ==
    /\ At(r) = "configured" /\ config # "whole"
    /\ config' = "whole"
    /\ UNCHANGED <<boot, saved, record, made, run>>

(* update-initramfs -u reads the configuration; where it is set not to rebuild, it
   exits with success at once. *)
RebuildBegins(r) ==
    /\ At(r) = "configured" /\ config = "whole"
    /\ \/ run' = [run EXCEPT ![r].at = "rebuilding", ![r].image = Rebuilt]
       \/ Goto(r, "rebuilt")
    /\ UNCHANGED <<config, boot, saved, record, made>>

RebuildEnds(r) ==
    /\ At(r) = "rebuilding"
    /\ PutInPlace(run[r].image) /\ Goto(r, "rebuilt")
    /\ UNCHANGED <<config, pending, saved, record, made>>

(* lsinitramfs *)
Lists(r) ==
    /\ At(r) = "rebuilt"
    /\ Goto(r, IF initrd \in {"partial", "embedded"} THEN "listed" ELSE "unlink")
    /\ UNCHANGED <<config, boot, saved, record, made>>

(* Mutant: that the file is in the initramfs is taken for its bytes. *)
UnpacksNothing(r) ==
    /\ At(r) = "listed"
    /\ Goto(r, "verified")
    /\ UNCHANGED <<config, boot, saved, record, made>>

(* unmkinitramfs, of the initramfs that is there by now, and its bytes compared *)
Unpacks(r) ==
    /\ At(r) = "listed"
    /\ Goto(r, IF initrd = "embedded" THEN "verified" ELSE "unlink")
    /\ UNCHANGED <<config, boot, saved, record, made>>

(* record.write_text() of the verified state truncates, then writes. *)
BeginsRecord(r) ==
    /\ At(r) = "verified" /\ record[Dir(r)] # "torn"
    /\ record' = [record EXCEPT ![Dir(r)] = "torn"]
    /\ UNCHANGED <<config, boot, saved, made, run>>

EndsRecord(r) ==
    /\ At(r) = "verified" /\ record[Dir(r)] = "torn"
    /\ record' = [record EXCEPT ![Dir(r)] = "verified"] /\ Goto(r, "recorded")
    /\ UNCHANGED <<config, boot, saved, made>>

Finishes(r) ==
    /\ At(r) = "recorded"
    /\ Goto(r, "done")
    /\ UNCHANGED <<config, boot, saved, record, made>>

(* A command fails or times out, a write fails, or SIGINT arrives; update-initramfs is
   killed before the exception is raised. *)
Raises(r) ==
    /\ At(r) \in Guarded
    /\ Goto(r, "unlink")
    /\ UNCHANGED <<config, boot, saved, record, made>>

(******************************** except: rollback *******************************)
(* Mutant: the configuration file is left. *)
UnlinksNothing(r) ==
    /\ At(r) = "unlink"
    /\ Goto(r, "restore")
    /\ UNCHANGED <<config, boot, saved, record, made>>

Unlinks(r) ==
    /\ At(r) = "unlink"
    /\ config' = "missing" /\ Goto(r, "restore")
    /\ UNCHANGED <<boot, saved, record, made>>

(* copy2(saved, initrd) writes over the initramfs in place ... *)
BeginsRestore(r) ==
    /\ At(r) = "restore"
    /\ initrd' = "torn" /\ crossed' = FALSE /\ Goto(r, "restoring")
    /\ UNCHANGED <<config, pending, saved, record, made>>

(* ... which a rename may meanwhile have replaced. *)
EndsRestore(r) ==
    /\ At(r) = "restoring"
    /\ \/ initrd' = saved[Dir(r)] /\ crossed' = FALSE
       \/ initrd # "torn" /\ UNCHANGED <<initrd, crossed>>
    /\ Goto(r, "failed")
    /\ UNCHANGED <<config, pending, saved, record, made>>

(* An exception in the rollback ends it where it is. *)
RollbackRaises(r) ==
    /\ At(r) \in RollingBack
    /\ Goto(r, "killed")
    /\ UNCHANGED <<config, boot, saved, record, made>>

Step(r) ==
    \/ Check(r) \/ MakesDirectory(r) \/ BeginsSave(r) \/ EndsSave(r) \/ Compares(r)
    \/ BeginsConfig(r) \/ EndsConfig(r) \/ RebuildBegins(r) \/ RebuildEnds(r)
    \/ Lists(r) \/ Unpacks(r) \/ BeginsRecord(r) \/ EndsRecord(r) \/ Finishes(r)
    \/ Unlinks(r) \/ BeginsRestore(r) \/ EndsRestore(r)
    \/ FailsEarly(r) \/ Raises(r) \/ RollbackRaises(r) \/ Killed(r)

Next == PackageReads \/ PackageRenames \/ \E r \in Runs : Step(r)

Spec == Init /\ [][Next]_vars

(********************************** properties **********************************)
(* At every moment, whatever invocation was killed where, an initramfs that is not
   the guest's own is one a backup can undo: the backup is complete and compared
   before the first change, and no later or overlapping run writes over it. *)
Recoverable == initrd # "clean" => \E d \in Dirs : saved[d] = "clean"

(* A run that announces success leaves the configuration in place, a record that says
   so, and an initramfs with its bytes, whatever packages rebuilt meanwhile. One case is
   beyond the code, which holds no lock against packages: a rebuild that read
   /etc/modprobe.d before the configuration was whole and renames its image after the
   verification (71 to 77) takes the setting out again. *)
DoneIsEmbedded ==
    \A r \in Runs : At(r) = "done" =>
        /\ config = "whole" /\ record[Dir(r)] = "verified"
        /\ initrd = "embedded" \/ crossed

(* "restored the original initramfs and removed the new configuration" (line 83): a
   rollback that ends has undone everything, also what a package embedded before it. The
   same case is beyond it: a rebuild that read the configuration while it was there, a
   package's or one that a killed run left behind, and renames after line 82 began. *)
RolledBack ==
    \A r \in Runs : At(r) = "failed" => config = "missing" /\ (initrd = "clean" \/ crossed)

(* What state.json names the original initramfs (61-62) is one from before any
   change. *)
OriginalIsClean == \A d \in Dirs : record[d] = "unverified" => saved[d] = "clean"
================================================================================
