--------------------------- MODULE ConfigureGpuProofs --------------------------
(* The initramfs of a guest can be undone, for any number of invocations, backup
   directories and overlaps, with rebuilds by packages in flight at any step. *)
EXTENDS ConfigureGpu, TLAPS

Typed ==
    /\ config \in {"missing", "torn", "whole"}
    /\ DOMAIN saved = Dirs
    /\ DOMAIN run = Runs
    /\ \A r \in Runs : DOMAIN run[r] = {"at", "dir", "image"} /\ Dir(r) \in Dirs

Saves(r) == At(r) \in {"save", "saving"}

(* A directory is filled by the invocation that made it, and by no other. *)
OneWriter ==
    /\ \A r \in Runs : Saves(r) \/ At(r) = "compare" => Dir(r) \in made
    /\ \A r, s \in Runs :
          (Saves(r) \/ At(r) = "compare") /\ (Saves(s) \/ At(s) = "compare") /\ Dir(r) = Dir(s) => r = s

(* The original initramfs is in directory d, and nothing writes it again. *)
Kept(d) == saved[d] = "clean" /\ d \in made /\ \A r \in Runs : Dir(r) = d => ~Saves(r)

(* The guest is not as it was, or will not be, or an invocation is at work on it. *)
Touched ==
    \/ initrd # "clean" \/ config # "missing" \/ \E image \in pending : image # "clean"
    \/ \E r \in Runs : At(r) \in Guarded \union RollingBack

RInv == Typed /\ OneWriter /\ (Touched => \E d \in Dirs : Kept(d))

LEMMA InitRInv == Init => RInv
<1> SUFFICES ASSUME Init PROVE RInv
  OBVIOUS
<1>1. PICK dir \in [Runs -> Dirs] :
          run = [r \in Runs |-> [at |-> "check", dir |-> dir[r], image |-> "none"]]
  BY DEF Init
<1>2. /\ DOMAIN run = Runs
      /\ \A r \in Runs : DOMAIN run[r] = {"at", "dir", "image"} /\ At(r) = "check" /\ Dir(r) \in Dirs
  BY <1>1 DEF At, Dir
<1> QED
  BY <1>2 DEF Init, RInv, Typed, OneWriter, Saves, Touched, Guarded, RollingBack

(* What an invocation is at, and the directory it has. *)
Moved(r, at) ==
    /\ At(r)' = at /\ Dir(r)' = Dir(r)
    /\ \A s \in Runs \ {r} : At(s)' = At(s) /\ Dir(s)' = Dir(s)

(* The step, that of the rebuild included. *)
Steps(r, at) == \E image : run' = [run EXCEPT ![r].at = at, ![r].image = image]

LEMMA StepsMove ==
    ASSUME Typed, NEW r \in Runs, NEW at, Steps(r, at)
    PROVE  /\ Moved(r, at) /\ DOMAIN run' = Runs
           /\ \A s \in Runs : DOMAIN run'[s] = {"at", "dir", "image"} /\ Dir(s)' \in Dirs
<1>1. PICK image : run' = [run EXCEPT ![r].at = at, ![r].image = image]
  BY DEF Steps
<1> QED
  BY <1>1 DEF Typed, Moved, At, Dir

LEMMA GotoMoves ==
    ASSUME NEW r \in Runs, NEW at, Goto(r, at) PROVE Steps(r, at)
BY DEF Goto, Steps

(* The steps that write no backup, by an invocation that has its backup, or whose
   end touches nothing. *)
LEMMA KeptStays ==
    ASSUME RInv, NEW r \in Runs, NEW at, Moved(r, at), Typed',
           UNCHANGED <<saved, made>>, at \notin {"save", "saving", "compare"},
           Touched' => Touched
    PROVE  RInv'
<1>1. OneWriter'
  BY DEF RInv, OneWriter, Saves, Moved
<1>2. \A d \in Dirs : Kept(d) => Kept(d)'
  BY DEF Kept, Saves, Moved
<1> QED
  BY <1>1, <1>2 DEF RInv

(* An invocation at work, in the try block or its rollback. *)
LEMMA WorkKeeps ==
    ASSUME RInv, NEW r \in Runs, NEW at, At(r) \in Guarded \union RollingBack, Moved(r, at), Typed',
           UNCHANGED <<saved, made>>, at \notin {"save", "saving", "compare"}
    PROVE  RInv'
BY KeptStays DEF Touched

LEMMA NextRInv == RInv /\ [Next]_vars => RInv'
<1> SUFFICES ASSUME RInv, [Next]_vars PROVE RInv'
  OBVIOUS
<1>0. Typed
  BY DEF RInv
<1>1. CASE UNCHANGED vars
  BY <1>1 DEF vars, boot, RInv, Typed, OneWriter, Kept, Saves, Touched, At, Dir
<1>2. CASE PackageReads \/ PackageRenames
  <2>1. UNCHANGED <<config, saved, record, made, run>>
    BY <1>2 DEF PackageReads, PackageRenames
  <2>2. Typed' /\ OneWriter'
    BY <2>1 DEF RInv, Typed, OneWriter, Saves, At, Dir
  <2>3. Touched' => Touched
    <3>1. CASE PackageReads
      <4>1. pending' = pending \union {Rebuilt} /\ initrd' = initrd /\ (Rebuilt # "clean" => config # "missing")
        BY <1>0, <3>1 DEF PackageReads, Rebuilt, Typed
      <4> QED
        BY <2>1, <4>1 DEF Touched, At
    <3>2. CASE PackageRenames
      <4>1. PICK image \in pending : initrd' = image /\ pending' \in {pending, pending \ {image}}
        BY <3>2 DEF PackageRenames, PutInPlace
      <4> QED
        BY <2>1, <4>1 DEF Touched, At
    <3> QED
      BY <1>2, <3>1, <3>2
  <2>4. \A d \in Dirs : Kept(d)' <=> Kept(d)
    BY <2>1 DEF Kept, Saves, At, Dir
  <2> QED
    BY <2>2, <2>3, <2>4 DEF RInv
<1>3. ASSUME NEW r \in Runs, Step(r) PROVE RInv'
  <2>0. \A at : Goto(r, at) => Steps(r, at)
    BY GotoMoves
  <2>1. ASSUME NEW at, Steps(r, at), config' \in {"missing", "torn", "whole"}, DOMAIN saved' = Dirs
        PROVE  Typed' /\ Moved(r, at)
    BY <1>0, <2>1, StepsMove DEF Typed
  <2>2. CASE Check(r) \/ Finishes(r) \/ FailsEarly(r) \/ RollbackRaises(r) \/ Raises(r)
    <3>1. PICK at : /\ Steps(r, at) /\ at \notin {"save", "saving", "compare"}
                    /\ (at \in Guarded \union RollingBack => At(r) \in Guarded)
      BY <2>0, <2>2 DEF Check, Finishes, FailsEarly, RollbackRaises, Raises, Guarded, RollingBack
    <3>2. UNCHANGED <<config, initrd, pending, saved, made>>
      BY <2>2 DEF Check, Finishes, FailsEarly, RollbackRaises, Raises, boot
    <3>3. Typed' /\ Moved(r, at)
      BY <1>0, <2>0, <2>1, <3>1, <3>2 DEF Typed
    <3>4. Touched' => Touched
      BY <3>1, <3>2, <3>3 DEF Touched, Moved
    <3> QED
      BY <3>1, <3>2, <3>3, <3>4, KeptStays
  <2>3. CASE MakesDirectory(r)
    <3>1. CASE Dir(r) \in made
      <4>1. Goto(r, "refused") /\ UNCHANGED <<config, initrd, pending, saved, made>>
        BY <2>3, <3>1 DEF MakesDirectory, boot
      <4>2. Typed' /\ Moved(r, "refused")
        BY <1>0, <2>0, <2>1, <4>1 DEF Typed
      <4>3. Touched' => Touched
        BY <4>1, <4>2 DEF Touched, Moved, Guarded, RollingBack
      <4> QED
        BY <4>1, <4>2, <4>3, KeptStays
    <3>2. CASE Dir(r) \notin made
      <4>1. Goto(r, "save") /\ made' = made \union {Dir(r)} /\ UNCHANGED <<config, initrd, pending, saved>>
        BY <2>3, <3>2 DEF MakesDirectory, boot
      <4>2. Typed' /\ Moved(r, "save")
        BY <1>0, <2>0, <2>1, <4>1 DEF Typed
      <4>3. Touched' => Touched
        BY <4>1, <4>2 DEF Touched, Moved, Guarded, RollingBack
      <4>4. OneWriter'
        BY <3>2, <4>1, <4>2 DEF RInv, OneWriter, Saves, Moved
      <4>5. \A d \in Dirs : Kept(d) => Kept(d)'
        BY <3>2, <4>1, <4>2 DEF Kept, Saves, Moved
      <4> QED
        BY <4>2, <4>3, <4>4, <4>5 DEF RInv
    <3> QED
      BY <3>1, <3>2
  <2>4. CASE BeginsSave(r) \/ EndsSave(r)
    <3>1. PICK at \in {"saving", "compare"} : Steps(r, at)
      BY <2>0, <2>4 DEF BeginsSave, EndsSave
    <3>2. /\ UNCHANGED <<config, initrd, pending, made>> /\ Saves(r) /\ DOMAIN saved' = Dirs
          /\ \A d \in Dirs \ {Dir(r)} : saved'[d] = saved[d]
      BY <1>0, <2>4 DEF BeginsSave, EndsSave, Typed, Saves, boot
    <3>3. Typed' /\ Moved(r, at)
      BY <1>0, <2>0, <2>1, <3>1, <3>2 DEF Typed
    <3>4. Touched' => Touched
      BY <3>1, <3>2, <3>3 DEF Touched, Moved, Guarded, RollingBack
    <3>5. OneWriter'
      BY <3>1, <3>2, <3>3 DEF RInv, OneWriter, Saves, Moved
    <3>6. \A d \in Dirs : Kept(d) => Kept(d)'
      BY <3>2, <3>3 DEF Kept, Saves, Moved
    <3> QED
      BY <3>3, <3>4, <3>5, <3>6 DEF RInv
  <2>5. CASE Compares(r)
    <3>1. /\ At(r) = "compare" /\ UNCHANGED <<config, initrd, pending, saved, made>>
          /\ \/ saved[Dir(r)] = initrd /\ Goto(r, "config")
             \/ Goto(r, "refused")
      BY <2>5 DEF Compares, boot
    <3>2. CASE Goto(r, "refused")
      <4>1. Typed' /\ Moved(r, "refused")
        BY <1>0, <2>0, <2>1, <3>1, <3>2 DEF Typed
      <4>2. Touched' => Touched
        BY <3>1, <4>1 DEF Touched, Moved, Guarded, RollingBack
      <4> QED
        BY <3>1, <4>1, <4>2, KeptStays
    <3>3. CASE saved[Dir(r)] = initrd /\ Goto(r, "config")
      <4>1. Typed' /\ Moved(r, "config")
        BY <1>0, <2>0, <2>1, <3>1, <3>3 DEF Typed
      <4>2. OneWriter'
        BY <3>1, <4>1 DEF RInv, OneWriter, Saves, Moved
      <4>3. \A d \in Dirs : Kept(d) => Kept(d)'
        BY <3>1, <4>1 DEF Kept, Saves, Moved
      <4>4. CASE initrd = "clean"
        <5>1. Dir(r) \in Dirs /\ Dir(r) \in made /\ saved[Dir(r)] = "clean"
          BY <1>0, <3>1, <3>3, <4>4 DEF Typed, RInv, OneWriter
        <5>2. \A s \in Runs : Dir(s) = Dir(r) => ~Saves(s)
          BY <3>1 DEF RInv, OneWriter, Saves
        <5>3. Kept(Dir(r))
          BY <5>1, <5>2 DEF Kept
        <5> QED
          BY <4>1, <4>2, <4>3, <5>1, <5>3 DEF RInv
      <4>5. CASE initrd # "clean"
        BY <4>1, <4>2, <4>3, <4>5 DEF RInv, Touched
      <4> QED
        BY <4>4, <4>5
    <3> QED
      BY <3>1, <3>2, <3>3
  <2>6. CASE EndsConfig(r) \/ BeginsRecord(r)
    <3>1. /\ UNCHANGED <<initrd, saved, made, run>> /\ config' \in {config, "whole"}
          /\ At(r) \in Guarded
      BY <2>6 DEF EndsConfig, BeginsRecord, Guarded, boot
    <3>2. Typed' /\ Moved(r, At(r)) /\ At(r) \notin {"save", "saving", "compare"}
      BY <1>0, <3>1 DEF Typed, Moved, At, Dir, Guarded
    <3> QED
      BY <3>1, <3>2, WorkKeeps
  <2>7. CASE \/ BeginsConfig(r) \/ RebuildBegins(r) \/ RebuildEnds(r) \/ Lists(r) \/ Unpacks(r)
             \/ EndsRecord(r) \/ Unlinks(r) \/ BeginsRestore(r) \/ EndsRestore(r)
    <3>1. PICK at : Steps(r, at) /\ at \notin {"save", "saving", "compare"}
      <4>1. CASE RebuildBegins(r)
        <5>1. Steps(r, "rebuilding") \/ Goto(r, "rebuilt")
          BY <4>1 DEF RebuildBegins, Steps
        <5> QED
          BY <2>0, <5>1
      <4>2. CASE ~RebuildBegins(r)
        <5>1. PICK at \in {"configured", "rebuilt", "listed", "verified", "unlink", "recorded", "restore",
                           "restoring", "failed"} : Goto(r, at)
          BY <2>7, <4>2 DEF BeginsConfig, RebuildEnds, Lists, Unpacks, EndsRecord, Unlinks, BeginsRestore,
             EndsRestore
        <5> QED
          BY <2>0, <5>1
      <4> QED
        BY <4>1, <4>2
    <3>2. /\ UNCHANGED <<saved, made>> /\ At(r) \in Guarded \union RollingBack
          /\ config' \in {"missing", "torn", "whole"}
      BY <1>0, <2>7 DEF BeginsConfig, RebuildBegins, RebuildEnds, Lists, Unpacks, EndsRecord, Unlinks,
         BeginsRestore, EndsRestore, Typed, Guarded, RollingBack
    <3>3. Typed' /\ Moved(r, at)
      BY <1>0, <2>0, <2>1, <3>1, <3>2 DEF Typed
    <3> QED
      BY <3>1, <3>2, <3>3, WorkKeeps
  <2>8. CASE Killed(r)
    <3>1. /\ UNCHANGED <<config, initrd, saved, made>> /\ Goto(r, "killed")
          /\ pending' = pending \/ At(r) \in Guarded
      BY <2>8 DEF Killed, Guarded
    <3>2. Typed' /\ Moved(r, "killed")
      BY <1>0, <2>0, <2>1, <3>1 DEF Typed
    <3>3. Touched' => Touched
      BY <3>1, <3>2 DEF Touched, Moved, Guarded, RollingBack
    <3> QED
      BY <3>1, <3>2, <3>3, KeptStays
  <2> QED
    BY <1>3, <2>2, <2>3, <2>4, <2>5, <2>6, <2>7, <2>8 DEF Step
<1> QED
  BY <1>1, <1>2, <1>3 DEF Next

(* Whatever is killed where, beside whatever other invocations and rebuilds by the
   packages: an initramfs that is not the guest's own has a complete backup of the
   original beside it (lines 44 to 66, 81 to 85). *)
THEOREM ChangesCanBeUndone == Spec => []Recoverable
<1>1. RInv => Recoverable
  BY DEF RInv, Touched, Kept, Recoverable
<1> QED
  BY <1>1, InitRInv, NextRInv, PTL DEF Spec

(******************************* what is announced *******************************)
(* All operators use one backup directory, as by default (line 5); its exclusive
   creation then lets one invocation through. *)
OneDirectory == \A c, d \in Dirs : c = d

Working(r) == At(r) \in {"save", "saving", "compare"} \union Guarded \union RollingBack

(* The invocations beside which no other can begin to work. *)
Through(r) == Working(r) \/ At(r) = "done" \/ (OneDirectory /\ At(r) = "failed")

Exclusive ==
    \A r \in Runs : Through(r) =>
        /\ Dir(r) \in made
        /\ \A s \in Runs \ {r} : ~Working(s) /\ (At(s) = "mkdir" => Dir(s) \in made)

Serial == ~Overlaps => \A r, s \in Runs : Active(r) /\ Active(s) => r = s

(* What an invocation has brought about, at each statement. *)
Achieved(r) ==
    /\ At(r) \in {"rebuilding", "rebuilt", "listed", "verified", "recorded", "done"} => config = "whole"
    /\ At(r) \in {"verified", "recorded", "done"} => initrd = "embedded" \/ crossed
    /\ At(r) \in {"recorded", "done"} => record[Dir(r)] = "verified"
    /\ At(r) \in {"restore", "restoring"} => config = "missing"
    /\ At(r) = "restoring" => initrd \in {"torn", "clean"} \/ crossed
    /\ OneDirectory /\ At(r) = "failed" => config = "missing" /\ (initrd = "clean" \/ crossed)

AInv == DOMAIN record = Dirs /\ Exclusive /\ Serial /\ \A r \in Runs : Achieved(r)

LEMMA InitAInv == Init => AInv
<1> SUFFICES ASSUME Init PROVE AInv
  OBVIOUS
<1>1. PICK dir \in [Runs -> Dirs] :
          run = [r \in Runs |-> [at |-> "check", dir |-> dir[r], image |-> "none"]]
  BY DEF Init
<1>2. \A r \in Runs : At(r) = "check"
  BY <1>1 DEF At
<1> QED
  BY <1>2 DEF Init, AInv, Exclusive, Serial, Achieved, Through, Working, Active, Guarded, RollingBack

(* An invocation at work is the only one whose statements matter. *)
LEMMA WorkAchieves ==
    ASSUME AInv, NEW r \in Runs, Working(r), NEW at, Moved(r, at), made' = made, DOMAIN record' = Dirs,
           at \notin {"check", "mkdir"}, Achieved(r)'
    PROVE  AInv'
<1>1. \A s \in Runs \ {r} : ~Through(s) /\ At(s)' = At(s) /\ Dir(s)' = Dir(s)
  BY DEF AInv, Exclusive, Moved
<1>2. \A s \in Runs \ {r} : ~Through(s)' /\ ~Working(s)'
  BY <1>1 DEF Through, Working
<1>3. \A s \in Runs : Achieved(s)'
  BY <1>2 DEF Achieved, Through, Working, Guarded, RollingBack
<1>4. Dir(r)' \in made' /\ \A s \in Runs \ {r} : At(s)' = "mkdir" => Dir(s)' \in made'
  BY <1>1 DEF AInv, Exclusive, Through, Moved
<1>5. Exclusive'
  BY <1>2, <1>4 DEF Exclusive
<1>6. \A s \in Runs : Active(s)' => Active(s)
  BY <1>1 DEF Active, Working, Guarded, RollingBack, Ended
<1>7. Serial'
  BY <1>6 DEF AInv, Serial
<1> QED
  BY <1>3, <1>5, <1>7 DEF AInv

(* An invocation that ends without success disturbs no other. *)
LEMMA LeavingAchieves ==
    ASSUME AInv, NEW r \in Runs, NEW at \in {"refused", "killed"}, Moved(r, at),
           UNCHANGED <<config, initrd, crossed, record, made>>
    PROVE  AInv'
<1>1. ~Through(r)' /\ ~Working(r)' /\ Achieved(r)' /\ ~Active(r)'
  BY DEF Moved, Through, Working, Achieved, Active, Guarded, RollingBack, Ended
<1>2. \A s \in Runs \ {r} : /\ At(s)' = At(s) /\ Dir(s)' = Dir(s)
                            /\ (Through(s)' <=> Through(s)) /\ (Working(s)' <=> Working(s))
                            /\ (Active(s)' <=> Active(s)) /\ (Achieved(s)' <=> Achieved(s))
  BY DEF Moved, Through, Working, Achieved, Active
<1>3. Exclusive'
  <2> SUFFICES ASSUME NEW s \in Runs, Through(s)'
               PROVE  Dir(s)' \in made'
                      /\ \A t \in Runs \ {s} : ~Working(t)' /\ (At(t)' = "mkdir" => Dir(t)' \in made')
    BY DEF Exclusive
  <2>1. s # r /\ Through(s)
    BY <1>1, <1>2
  <2>2. Dir(s) \in made /\ \A t \in Runs \ {s} : ~Working(t) /\ (At(t) = "mkdir" => Dir(t) \in made)
    BY <2>1 DEF AInv, Exclusive
  <2>3. At(r)' # "mkdir"
    BY DEF Moved
  <2> QED
    BY <1>1, <1>2, <2>1, <2>2, <2>3
<1>4. Serial'
  BY <1>1, <1>2 DEF AInv, Serial
<1> QED
  BY <1>1, <1>2, <1>3, <1>4 DEF AInv

(* The two statements by which an invocation comes to work (44 to 56). *)
LEMMA CheckAchieves ==
    ASSUME OneDirectory \/ ~Overlaps, RInv, AInv, NEW r \in Runs, Check(r), Moved(r, "mkdir"), Goto(r, "mkdir")
    PROVE  AInv'
<1>1. /\ At(r) = "check" /\ (Overlaps \/ \A s \in Runs : ~Active(s))
      /\ Dir(r) \notin made /\ config = "missing"
      /\ UNCHANGED <<config, initrd, crossed, saved, record, made>>
  <2>1. At(r)' = "mkdir" /\ r \in DOMAIN run
    BY DEF Moved, RInv, Typed
  <2>2. At(r) = "check" /\ (Overlaps \/ \A s \in Runs : ~Active(s))
        /\ Goto(r, IF Dir(r) \notin made /\ config = "missing" THEN "mkdir" ELSE "refused")
        /\ UNCHANGED <<config, initrd, crossed, saved, record, made>>
    BY DEF Check, boot
  <2>3. ~(Dir(r) \notin made /\ config = "missing") => Goto(r, "refused")
    BY <2>2
  <2>4. Goto(r, "refused") => At(r)' = "refused"
    BY GotoMoves, StepsMove DEF RInv, Moved
  <2> QED
    BY <2>1, <2>2, <2>3, <2>4
<1>2. ~Through(r)' /\ ~Working(r)' /\ Achieved(r)'
  BY DEF Moved, Through, Working, Achieved, Guarded, RollingBack
<1>3. \A s \in Runs \ {r} : /\ At(s)' = At(s) /\ Dir(s)' = Dir(s)
                            /\ (Through(s)' <=> Through(s)) /\ (Working(s)' <=> Working(s))
                            /\ (Active(s)' <=> Active(s)) /\ (Achieved(s)' <=> Achieved(s))
  BY <1>1 DEF Moved, Through, Working, Achieved, Active
<1>4. ASSUME NEW s \in Runs, Through(s) PROVE FALSE
  <2>1. Dir(s) \in made /\ Dir(s) \in Dirs /\ Dir(r) \in Dirs
    BY <1>4 DEF AInv, Exclusive, RInv, Typed
  <2>2. ~OneDirectory
    BY <1>1, <2>1 DEF OneDirectory
  <2>3. Working(s) \/ At(s) = "done"
    BY <1>4, <2>2 DEF Through
  <2>4. Working(s) => Active(s)
    BY DEF Working, Active, Guarded, RollingBack, Ended
  <2>5. At(s) = "done" => config = "whole"
    BY DEF AInv, Achieved
  <2> QED
    BY <1>1, <2>2, <2>3, <2>4, <2>5
<1>5. Exclusive'
  BY <1>2, <1>3, <1>4 DEF Exclusive
<1>6. Serial'
  BY <1>1, <1>3 DEF AInv, Serial
<1> QED
  BY <1>1, <1>2, <1>3, <1>5, <1>6 DEF AInv

LEMMA MkdirAchieves ==
    ASSUME OneDirectory \/ ~Overlaps, RInv, AInv, NEW r \in Runs, At(r) = "mkdir", Dir(r) \notin made,
           made' = made \union {Dir(r)}, Moved(r, "save"), UNCHANGED <<config, initrd, crossed, record>>
    PROVE  AInv'
<1>1. \A s \in Runs : ~Through(s)
  BY DEF AInv, Exclusive, Through, Working, Guarded, RollingBack
<1>2. \A s \in Runs \ {r} : /\ At(s)' = At(s) /\ Dir(s)' = Dir(s)
                            /\ ~Through(s)' /\ ~Working(s)' /\ (Active(s)' <=> Active(s))
                            /\ (Achieved(s)' <=> Achieved(s))
  BY <1>1 DEF Moved, Through, Working, Achieved, Active
<1>3. Dir(r)' \in made' /\ Achieved(r)' /\ Active(r)
  BY DEF Moved, Achieved, Active, Ended
<1>4. ASSUME NEW s \in Runs \ {r}, At(s) = "mkdir" PROVE Dir(s) \in made'
  <2>1. CASE OneDirectory
    <3>1. Dir(s) = Dir(r)
      BY <2>1 DEF OneDirectory, RInv, Typed
    <3> QED
      BY <3>1
  <2>2. CASE ~Overlaps
    <3>1. Active(s)
      BY <1>4 DEF Active, Ended
    <3> QED
      BY <1>3, <2>2, <3>1 DEF AInv, Serial
  <2> QED
    BY <2>1, <2>2
<1>5. Exclusive'
  BY <1>2, <1>3, <1>4 DEF Exclusive
<1>6. Serial'
  BY <1>2, <1>3 DEF AInv, Serial
<1> QED
  BY <1>2, <1>3, <1>5, <1>6 DEF AInv

LEMMA NextAInv == ASSUME OneDirectory \/ ~Overlaps PROVE RInv /\ AInv /\ [Next]_vars => AInv'
<1> SUFFICES ASSUME RInv, AInv, [Next]_vars PROVE AInv'
  OBVIOUS
<1>0. Typed /\ \A r \in Runs : Achieved(r)
  BY DEF RInv, AInv
<1>1. CASE UNCHANGED vars
  BY <1>1 DEF vars, boot, AInv, Exclusive, Serial, Achieved, Through, Working, Active, At, Dir
<1>2. CASE PackageReads \/ PackageRenames
  <2>1. /\ UNCHANGED <<config, record, made, run>>
        /\ \/ UNCHANGED <<initrd, crossed>>
           \/ crossed'
           \/ (config = "missing" => initrd' = "clean") /\ (config = "whole" => initrd' = "embedded")
    <3>1. CASE PackageReads
      BY <3>1 DEF PackageReads
    <3>2. CASE PackageRenames
      <4>1. PICK image \in pending : PutInPlace(image)
        BY <3>2 DEF PackageRenames
      <4>2. UNCHANGED <<config, record, made, run>>
        BY <3>2 DEF PackageRenames
      <4>3. CASE image = Rebuilt
        BY <4>1, <4>2, <4>3 DEF PutInPlace, Rebuilt
      <4>4. CASE image # Rebuilt
        BY <4>1, <4>2, <4>4 DEF PutInPlace
      <4> QED
        BY <4>3, <4>4
    <3> QED
      BY <1>2, <3>1, <3>2
  <2>2. Exclusive' /\ Serial'
    BY <2>1 DEF AInv, Exclusive, Serial, Through, Working, Active, At, Dir
  <2>3. \A r \in Runs : Achieved(r)'
    <3> SUFFICES ASSUME NEW r \in Runs PROVE Achieved(r)'
      OBVIOUS
    <3>1. Achieved(r) /\ At(r)' = At(r) /\ Dir(r)' = Dir(r)
      BY <1>0, <2>1 DEF At, Dir
    <3>2. CASE UNCHANGED <<initrd, crossed>>
      BY <2>1, <3>1, <3>2 DEF Achieved
    <3>3. CASE crossed'
      BY <2>1, <3>1, <3>3 DEF Achieved
    <3>4. CASE (config = "missing" => initrd' = "clean") /\ (config = "whole" => initrd' = "embedded")
      BY <2>1, <3>1, <3>4 DEF Achieved
    <3> QED
      BY <2>1, <3>2, <3>3, <3>4
  <2> QED
    BY <2>1, <2>2, <2>3 DEF AInv
<1>3. ASSUME NEW r \in Runs, Step(r) PROVE AInv'
  <2>0. \A at : Goto(r, at) => Moved(r, at)
    BY <1>0, GotoMoves, StepsMove
  <2>1. CASE Check(r)
    <3>1. Goto(r, "mkdir") \/ Goto(r, "refused")
      BY <2>1 DEF Check, boot
    <3>2. UNCHANGED <<config, initrd, crossed, record, made>>
      BY <2>1 DEF Check, boot
    <3> QED
      BY <2>0, <2>1, <3>1, <3>2, CheckAchieves, LeavingAchieves
  <2>2. CASE MakesDirectory(r)
    <3>1. /\ At(r) = "mkdir" /\ UNCHANGED <<config, initrd, crossed, record>>
          /\ \/ Dir(r) \in made /\ Goto(r, "refused") /\ made' = made
             \/ Dir(r) \notin made /\ made' = made \union {Dir(r)} /\ Goto(r, "save")
      BY <2>2 DEF MakesDirectory, boot
    <3> QED
      BY <2>0, <3>1, MkdirAchieves, LeavingAchieves
  <2>3. CASE Killed(r) \/ RollbackRaises(r)
    BY <2>0, <2>3, LeavingAchieves DEF Killed, RollbackRaises, boot
  <2>4. CASE FailsEarly(r)
    <3>1. Goto(r, "refused") /\ UNCHANGED <<config, initrd, crossed, made>>
      BY <2>4 DEF FailsEarly, boot
    <3>2. CASE record' = record
      BY <2>0, <3>1, <3>2, LeavingAchieves
    <3>3. CASE At(r) = "compare" /\ record' = [record EXCEPT ![Dir(r)] = "torn"]
      BY <2>0, <3>1, <3>3, WorkAchieves DEF Achieved, Working, Moved, AInv
    <3> QED
      BY <2>4, <3>2, <3>3 DEF FailsEarly, boot
  <2>5. ASSUME NEW at, Goto(r, at), Working(r), made' = made, DOMAIN record' = Dirs,
               at \notin {"check", "mkdir"}, Achieved(r)'
        PROVE  AInv'
    BY <2>0, <2>5, WorkAchieves
  <2>6. CASE BeginsSave(r) \/ EndsSave(r) \/ Compares(r)
    <3>1. PICK at \in {"saving", "compare", "config", "refused"} : Goto(r, at)
      BY <2>6 DEF BeginsSave, EndsSave, Compares
    <3>2. Working(r) /\ made' = made /\ DOMAIN record' = Dirs
      BY <2>6 DEF BeginsSave, EndsSave, Compares, Working, AInv
    <3>3. Achieved(r)'
      BY <2>0, <3>1 DEF Achieved, Moved
    <3> QED
      BY <2>5, <3>1, <3>2, <3>3
  <2>7. CASE BeginsConfig(r) \/ Raises(r)
    <3>1. PICK at \in {"configured", "unlink"} : Goto(r, at)
      BY <2>7 DEF BeginsConfig, Raises, boot
    <3>2. Working(r) /\ made' = made /\ DOMAIN record' = Dirs
      BY <2>7 DEF BeginsConfig, Raises, Working, Guarded, AInv
    <3>3. Achieved(r)'
      BY <2>0, <3>1 DEF Achieved, Moved
    <3> QED
      BY <2>5, <3>1, <3>2, <3>3
  <2>8. CASE EndsConfig(r)
    <3>1. At(r) = "configured" /\ UNCHANGED <<record, made, run>>
      BY <2>8 DEF EndsConfig, boot
    <3>2. Working(r) /\ Achieved(r)' /\ Moved(r, "configured")
      BY <3>1 DEF Working, Guarded, Achieved, Moved, At, Dir
    <3> QED
      BY <3>1, <3>2, WorkAchieves DEF AInv
  <2>9. CASE RebuildBegins(r) \/ RebuildEnds(r)
    <3>1. PICK at \in {"rebuilding", "rebuilt"} : Steps(r, at)
      BY <2>9, GotoMoves DEF RebuildBegins, RebuildEnds, Steps
    <3>2. /\ At(r) \in {"configured", "rebuilding"} /\ config' = "whole" /\ UNCHANGED <<record, made>>
      BY <1>0, <2>9 DEF RebuildBegins, RebuildEnds, Achieved
    <3>3. Moved(r, at)
      BY <1>0, <3>1, StepsMove
    <3>4. Working(r) /\ Achieved(r)'
      BY <3>2, <3>3 DEF Working, Guarded, Achieved, Moved
    <3> QED
      BY <3>2, <3>3, <3>4, WorkAchieves DEF AInv
  <2>10. CASE Lists(r) \/ Unpacks(r)
    <3>1. /\ At(r) \in {"rebuilt", "listed"} /\ UNCHANGED <<config, initrd, crossed, record, made>>
          /\ \/ Goto(r, "listed") \/ Goto(r, "unlink")
             \/ initrd = "embedded" /\ Goto(r, "verified")
      BY <2>10 DEF Lists, Unpacks, boot
    <3>2. config = "whole" /\ Working(r)
      BY <1>0, <3>1 DEF Achieved, Working, Guarded
    <3>3. Achieved(r)'
      BY <2>0, <3>1, <3>2 DEF Achieved, Moved
    <3> QED
      BY <2>5, <3>1, <3>2, <3>3 DEF AInv
  <2>11. CASE BeginsRecord(r)
    <3>1. /\ At(r) = "verified" /\ UNCHANGED <<config, initrd, crossed, made, run>>
          /\ record' = [record EXCEPT ![Dir(r)] = "torn"]
      BY <2>11 DEF BeginsRecord, boot
    <3>2. Working(r) /\ Achieved(r)' /\ Moved(r, "verified")
      BY <1>0, <3>1 DEF Working, Guarded, Achieved, Moved, At, Dir
    <3> QED
      BY <3>1, <3>2, WorkAchieves DEF AInv
  <2>12. CASE EndsRecord(r)
    <3>1. /\ At(r) = "verified" /\ UNCHANGED <<config, initrd, crossed, made>> /\ Goto(r, "recorded")
          /\ record' = [record EXCEPT ![Dir(r)] = "verified"] /\ Dir(r) \in Dirs /\ DOMAIN record = Dirs
      BY <1>0, <2>12 DEF EndsRecord, Typed, AInv, boot
    <3>2. Working(r) /\ Achieved(r)'
      BY <1>0, <2>0, <3>1 DEF Working, Guarded, Achieved, Moved
    <3> QED
      BY <2>5, <3>1, <3>2
  <2>13. CASE Finishes(r)
    <3>1. At(r) = "recorded" /\ UNCHANGED <<config, initrd, crossed, record, made>> /\ Goto(r, "done")
      BY <2>13 DEF Finishes, boot
    <3>2. Working(r) /\ Achieved(r)'
      BY <1>0, <2>0, <3>1 DEF Working, Guarded, Achieved, Moved
    <3> QED
      BY <2>5, <3>1, <3>2 DEF AInv
  <2>14. CASE Unlinks(r) \/ BeginsRestore(r)
    <3>1. PICK at \in {"restore", "restoring"} : Goto(r, at) /\ (at = "restoring" => initrd' = "torn")
      BY <2>14 DEF Unlinks, BeginsRestore
    <3>2. Working(r) /\ config' = "missing" /\ UNCHANGED <<record, made>>
      BY <1>0, <2>14 DEF Unlinks, BeginsRestore, Working, RollingBack, Achieved
    <3>3. Achieved(r)'
      BY <2>0, <3>1, <3>2 DEF Achieved, Moved
    <3> QED
      BY <2>5, <3>1, <3>2, <3>3 DEF AInv
  <2>15. CASE EndsRestore(r)
    <3>1. /\ At(r) = "restoring" /\ Goto(r, "failed") /\ UNCHANGED <<config, record, made>>
          /\ config = "missing"
          /\ initrd' = saved[Dir(r)] \/ (initrd' = "clean" \/ crossed')
      BY <1>0, <2>15 DEF EndsRestore, Achieved
    <3>2. Working(r) /\ Touched
      BY <3>1 DEF Working, RollingBack, Touched
    <3>3. OneDirectory => saved[Dir(r)] = "clean"
      <4>1. PICK d \in Dirs : Kept(d)
        BY <3>2 DEF RInv
      <4> QED
        BY <1>0, <4>1 DEF OneDirectory, Kept, Typed
    <3>4. Achieved(r)'
      BY <2>0, <3>1, <3>3 DEF Achieved, Moved
    <3> QED
      BY <2>5, <3>1, <3>2, <3>4 DEF AInv
  <2> QED
    BY <1>3, <2>1, <2>2, <2>3, <2>4, <2>6, <2>7, <2>8, <2>9, <2>10, <2>11, <2>12, <2>13, <2>14,
       <2>15 DEF Step
<1> QED
  BY <1>1, <1>2, <1>3 DEF Next

(* An invocation that announces success (line 85) has left the configuration in place, a
   record that says so, and an initramfs with the configuration embedded, whatever packages
   rebuild and however their rebuilds straddle its statements, save for an image that was
   read before a change of the configuration and put in place after it: for operators who
   do not overlap, and for any who do with one directory. *)
THEOREM SuccessIsSo == ASSUME OneDirectory \/ ~Overlaps PROVE Spec => []DoneIsEmbedded
<1>1. RInv /\ AInv => DoneIsEmbedded
  BY DEF AInv, Achieved, DoneIsEmbedded
<1>2. RInv /\ AInv /\ [Next]_vars => AInv'
  BY NextAInv
<1> QED
  BY <1>1, <1>2, InitRInv, NextRInv, InitAInv, PTL DEF Spec

(* A rollback that ends (81 to 83) has undone everything, whatever overlapped it and
   whatever packages rebuilt, with the same exception, where the operators use one
   directory; with one each it need not have, as the run original_backup shows. *)
THEOREM RollbackIsSo == ASSUME OneDirectory PROVE Spec => []RolledBack
<1>1. RInv /\ AInv => RolledBack
  BY DEF AInv, Achieved, RolledBack
<1>2. RInv /\ AInv /\ [Next]_vars => AInv'
  BY NextAInv
<1> QED
  BY <1>1, <1>2, InitRInv, NextRInv, InitAInv, PTL DEF Spec
================================================================================
