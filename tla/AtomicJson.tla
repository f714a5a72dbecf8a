------------------------------- MODULE AtomicJson ------------------------------
(* host/gpu-vm-manager.py: atomic_json(), the one way the manager writes
   manifest.json, original-state.json and uncertain-command.json, down to the
   file system: a temporary file, its fsync, a rename, and an fsync of the
   directory, cut anywhere by a kill or a loss of power.

   The file system is external. What was not synced may or may not survive a loss
   of power: a rename, a new file, the bytes of a file. *)
EXTENDS Naturals

CONSTANTS
    Writes,  \* the calls of atomic_json() for one path, each by a process of its own
    None,
    Locked   \* whether the calls are made under manager.lock, as checkpoint()'s are

ASSUME NoneAssumption == None \notin Writes /\ "torn" \notin Writes \union {None}

VARIABLES
    of,      \* inode -> the call whose bytes it holds; an inode is named by the call
             \* that created it
    whole,   \* the inodes whose bytes are all of what that call writes
    synced,  \* the inodes whose bytes are sure to survive
    file,    \* the directory entry of the path: an inode or None
    tmp,     \* that of path.tmp
    disk,    \* the entry of the path that is sure to survive
    at,      \* call -> the statement it is at
    fd,      \* call -> the inode it has open
    settled  \* history: the last call that returned, if none began since

vars == <<of, whole, synced, file, tmp, disk, at, fd, settled>>

Init ==
    /\ of = [w \in Writes |-> w] /\ whole = {} /\ synced = {}
    /\ file = None /\ tmp = None /\ disk = None
    /\ at = [w \in Writes |-> "open"] /\ fd = [w \in Writes |-> w]
    /\ settled = None

Active(w) == at[w] \in {"write", "sync", "replace", "sync dir"}
Goto(w, place) == at' = [at EXCEPT ![w] = place]

(* tmp.open('w') makes the file or truncates the one that is there. *)
Opens(w) ==
    /\ at[w] = "open"
    /\ Locked => \A x \in Writes : ~Active(x)
    /\ tmp' = IF tmp = None THEN w ELSE tmp
    /\ fd' = [fd EXCEPT ![w] = tmp']
    /\ of' = [of EXCEPT ![tmp'] = w]
    /\ whole' = whole \ {tmp'} /\ synced' = synced \ {tmp'}
    /\ Goto(w, "write") /\ settled' = None
    /\ UNCHANGED <<file, disk>>

(* json.dump(), flush(); over the bytes of another call, the longer ones show. *)
WritesBytes(w) ==
    /\ at[w] = "write"
    /\ of' = [of EXCEPT ![fd[w]] = w]
    /\ whole' \in {whole \union {fd[w]}} \union (IF of[fd[w]] = w THEN {} ELSE {whole \ {fd[w]}})
    /\ synced' = synced \ {fd[w]}
    /\ Goto(w, "sync")
    /\ UNCHANGED <<file, tmp, disk, fd, settled>>

(* Mutant: no fsync of the temporary file. *)
SkipsSync(w) ==
    /\ at[w] = "sync" /\ Goto(w, "replace")
    /\ UNCHANGED <<of, whole, synced, file, tmp, disk, fd, settled>>

(* os.fsync(f) *)
Syncs(w) ==
    /\ at[w] = "sync"
    /\ synced' = synced \union {fd[w]}
    /\ Goto(w, "replace")
    /\ UNCHANGED <<of, whole, file, tmp, disk, fd, settled>>

(* os.replace(tmp, path) *)
Replaces(w) ==
    /\ at[w] = "replace"
    /\ IF tmp = None
       THEN Goto(w, "failed") /\ UNCHANGED <<file, tmp>>
       ELSE file' = tmp /\ tmp' = None /\ Goto(w, "sync dir")
    /\ UNCHANGED <<of, whole, synced, disk, fd, settled>>

(* os.fsync(directory), and the call returns. *)
SyncsDirectory(w) ==
    /\ at[w] = "sync dir"
    /\ disk' = file /\ settled' = w /\ Goto(w, "returned")
    /\ UNCHANGED <<of, whole, synced, file, tmp, fd>>

(* A signal, a full disk. *)
Killed(w) ==
    /\ Active(w)
    /\ Goto(w, "failed")
    /\ UNCHANGED <<of, whole, synced, file, tmp, disk, fd, settled>>

(* What was not synced may be lost; a rename that was not may be undone. *)
PowerLoss ==
    /\ file' \in {disk, file} /\ disk' = file'
    /\ tmp' \in {None, tmp} \union ({file} \ {file'})
    /\ whole' \in SUBSET whole /\ whole \intersect synced \subseteq whole'
    /\ synced' = Writes
    /\ at' = [w \in Writes |-> IF Active(w) THEN "failed" ELSE at[w]]
    /\ UNCHANGED <<of, fd, settled>>

Next ==
    \/ PowerLoss
    \/ \E w \in Writes : \/ Opens(w) \/ WritesBytes(w) \/ Syncs(w) \/ Replaces(w)
                         \/ SyncsDirectory(w) \/ Killed(w)

Spec == Init /\ [][Next]_vars

(******************************* the abstract record ******************************)
(* What a directory entry shows: nothing, what one call wrote, or a part of it. *)
Content(entry) ==
    IF entry = None THEN None ELSE IF entry \in whole THEN of[entry] ELSE "torn"

Writer == IF \E w \in Writes : Active(w) THEN CHOOSE w \in Writes : Active(w) ELSE None

Record == INSTANCE AtomicRecord
          WITH value <- Content(file), kept <- Content(disk), writer <- Writer

(********************************** properties **********************************)
(* Once a call returned, its content stays until the next call begins, through any
   loss of power: no later transition reads an older phase than was announced. *)
ReturnedIsKept == settled # None => file # None /\ of[file] = settled

(* The calls are one atomic record, through any kill and loss of power: readers find
   one content or the next, changed at one moment of a call and kept once it returned.
   This is what GpuVmManager takes a checkpoint for. *)
ImplementsRecord == Record!Spec
================================================================================
