------------------------- MODULE InstallServicesProofs -------------------------
(* atomic_json() under manager.lock, for any number of calls: what GpuVmManager
   takes for one step (Checkpoint) behaves as one step, kills and losses of power
   included. Then the state directory and the installation beside it, for any
   number of invocations, installers and configurations: every step there is a
   step of atomic_json() or leaves its files alone. *)
EXTENDS InstallServices, TLAPS

(********************************** atomic_json() *********************************)
Places == {"open", "write", "sync", "replace", "sync dir", "returned", "failed"}

TypeOK ==
    /\ of \in [Writes -> Writes] /\ whole \subseteq Writes /\ synced \subseteq Writes
    /\ file \in Writes \union {None} /\ tmp \in Writes \union {None}
    /\ disk \in Writes \union {None} /\ settled \in Writes \union {None}
    /\ at \in [Writes -> Places] /\ fd \in [Writes -> Writes]

(* manager.lock *)
OneActive == \A w, x \in Writes : Active(w) /\ Active(x) => w = x

(* The file that is being written is not one that can be read. *)
TmpApart ==
    /\ tmp # None => tmp # file /\ tmp # disk
    /\ \A w \in Writes : at[w] = "open" => w # file /\ w # disk /\ w # tmp

(* What can be read, now or after a loss of power, is whole and synced. *)
Readable ==
    /\ file # None => file \in whole /\ file \in synced
    /\ disk # None => disk \in whole /\ disk \in synced

(* How far the call that is going on has come. *)
Progress ==
    \A w \in Writes :
        /\ Active(w) => of[fd[w]] = w
        /\ at[w] \in {"write", "sync", "replace"} => tmp = fd[w]
        /\ at[w] \in {"sync", "replace"} => fd[w] \in whole
        /\ at[w] = "replace" => fd[w] \in synced
        /\ at[w] = "sync dir" => file = fd[w]

Kept ==
    settled # None =>
        /\ \A w \in Writes : ~Active(w)
        /\ file # None /\ file = disk /\ of[file] = settled

IInv == TypeOK /\ OneActive /\ TmpApart /\ Readable /\ Progress /\ Kept

LEMMA InitIInv == Init => IInv
<1> SUFFICES ASSUME Init
             PROVE  IInv
  OBVIOUS
<1>1. TypeOK
  BY DEF Init, TypeOK, Places
<1>2. \A w \in Writes : at[w] = "open" /\ ~Active(w) /\ w # None
  BY NoneAssumption DEF Init, Active
<1>3. OneActive /\ Progress /\ Kept
  BY <1>2 DEF Init, OneActive, Progress, Kept
<1>4. TmpApart /\ Readable
  BY <1>2 DEF Init, TmpApart, Readable
<1> QED
  BY <1>1, <1>3, <1>4 DEF IInv

LEMMA OpensIInv ==
    ASSUME Locked, IInv, NEW w \in Writes, Opens(w)
    PROVE  IInv'
<1> USE NoneAssumption
<1>1. /\ at[w] = "open" /\ \A x \in Writes : ~Active(x)
      /\ at' = [at EXCEPT ![w] = "write"] /\ fd' = [fd EXCEPT ![w] = tmp']
      /\ of' = [of EXCEPT ![tmp'] = w]
      /\ whole' = whole \ {tmp'} /\ synced' = synced \ {tmp'}
      /\ settled' = None /\ file' = file /\ disk' = disk
  BY DEF Opens, Goto
<1>2. tmp' \in Writes /\ tmp' # None /\ tmp' # file /\ tmp' # disk
  BY DEF IInv, TypeOK, TmpApart, Opens
<1>3. TypeOK'
  BY <1>1, <1>2 DEF IInv, TypeOK, Places
<1>4. \A x \in Writes \ {w} : at'[x] = at[x] /\ ~Active(x)'
  BY <1>1 DEF IInv, TypeOK, Active
<1>5. at'[w] = "write" /\ fd'[w] = tmp' /\ of'[tmp'] = w
  BY <1>1, <1>2 DEF IInv, TypeOK
<1>6. OneActive'
  BY <1>4 DEF OneActive
<1>7. TmpApart'
  <2>1. \A x \in Writes : at'[x] = "open" => x # w /\ at[x] = "open"
    BY <1>4, <1>5
  <2>2. \A x \in Writes : at'[x] = "open" => x # tmp'
    BY <2>1 DEF IInv, TmpApart, Opens
  <2> QED
    BY <1>1, <1>2, <2>1, <2>2 DEF IInv, TmpApart
<1>8. Readable'
  BY <1>1, <1>2 DEF IInv, Readable
<1>9. Progress'
  <2>1. ASSUME NEW x \in Writes \ {w}
        PROVE  ~Active(x)'
    BY <1>4
  <2> QED
    BY <1>5, <2>1 DEF Progress, Active
<1>10. Kept'
  BY <1>1 DEF Kept
<1> QED
  BY <1>3, <1>6, <1>7, <1>8, <1>9, <1>10 DEF IInv

(* The steps of a call that is going on leave the others where they are. *)
LEMMA OthersStay ==
    ASSUME IInv, NEW w \in Writes, Active(w), NEW place \in Places \ {"open"}, Goto(w, place)
    PROVE  /\ at' \in [Writes -> Places] /\ at'[w] = place
           /\ \A x \in Writes \ {w} : at'[x] = at[x] /\ ~Active(x) /\ ~Active(x)'
           /\ \A x \in Writes : at'[x] = "open" => at[x] = "open"
           /\ OneActive' /\ settled = None /\ of[fd[w]] = w /\ fd[w] \in Writes
<1>1. \A x \in Writes \ {w} : at'[x] = at[x]
  BY DEF IInv, TypeOK, Goto
<1>2. \A x \in Writes \ {w} : ~Active(x)
  BY DEF IInv, OneActive
<1>3. \A x \in Writes \ {w} : ~Active(x)'
  BY <1>1, <1>2 DEF Active
<1>4. OneActive'
  BY <1>3 DEF OneActive
<1>5. settled = None /\ of[fd[w]] = w /\ fd[w] \in Writes
  BY DEF IInv, TypeOK, Kept, Progress
<1>6. at' \in [Writes -> Places] /\ at'[w] = place
  BY DEF IInv, TypeOK, Goto
<1> QED
  BY <1>1, <1>2, <1>3, <1>4, <1>5, <1>6

LEMMA WritesBytesIInv ==
    ASSUME IInv, NEW w \in Writes, WritesBytes(w)
    PROVE  IInv'
<1> USE NoneAssumption
<1>1. at[w] = "write" /\ Active(w) /\ Goto(w, "sync") /\ "sync" \in Places \ {"open"}
  BY DEF WritesBytes, Active, Places
<1>2. tmp = fd[w] /\ of[fd[w]] = w /\ fd[w] # file /\ fd[w] # disk /\ fd[w] \in Writes
  <2>1. tmp = fd[w] /\ of[fd[w]] = w
    BY <1>1 DEF IInv, Progress
  <2>2. fd[w] \in Writes
    BY DEF IInv, TypeOK
  <2> QED
    BY <2>1, <2>2 DEF IInv, TmpApart
<1>3. /\ of' = [of EXCEPT ![fd[w]] = w] /\ whole' = whole \union {fd[w]}
      /\ synced' = synced \ {fd[w]} /\ UNCHANGED <<file, tmp, disk, fd, settled>>
  BY <1>2 DEF WritesBytes
<1>4. TypeOK' /\ OneActive' /\ Kept'
  BY <1>1, <1>2, <1>3, OthersStay DEF IInv, TypeOK, Kept
<1>5. TmpApart'
  BY <1>1, <1>3, OthersStay DEF IInv, TmpApart
<1>6. Readable'
  BY <1>2, <1>3 DEF IInv, Readable
<1>7. Progress'
  <2>1. at'[w] = "sync" /\ \A x \in Writes \ {w} : ~Active(x)'
    BY <1>1, OthersStay
  <2>2. of'[fd[w]] = w
    BY <1>2, <1>3 DEF IInv, TypeOK
  <2> QED
    BY <1>2, <1>3, <2>1, <2>2 DEF Progress, Active
<1> QED
  BY <1>4, <1>5, <1>6, <1>7 DEF IInv

LEMMA SyncsIInv ==
    ASSUME IInv, NEW w \in Writes, Syncs(w)
    PROVE  IInv'
<1> USE NoneAssumption
<1>1. /\ at[w] = "sync" /\ Active(w) /\ Goto(w, "replace") /\ "replace" \in Places \ {"open"}
      /\ synced' = synced \union {fd[w]} /\ UNCHANGED <<of, whole, file, tmp, disk, fd, settled>>
  BY DEF Syncs, Active, Places
<1>2. tmp = fd[w] /\ of[fd[w]] = w /\ fd[w] \in whole /\ fd[w] \in Writes
  BY <1>1 DEF IInv, TypeOK, Progress, Active
<1>3. TypeOK' /\ OneActive' /\ Kept'
  BY <1>1, <1>2, OthersStay DEF IInv, TypeOK, Kept
<1>4. TmpApart' /\ Readable'
  BY <1>1, OthersStay DEF IInv, TmpApart, Readable
<1>5. Progress'
  <2>1. at'[w] = "replace" /\ \A x \in Writes \ {w} : ~Active(x)'
    BY <1>1, OthersStay
  <2> QED
    BY <1>1, <1>2, <2>1 DEF Progress, Active
<1> QED
  BY <1>3, <1>4, <1>5 DEF IInv

LEMMA ReplacesIInv ==
    ASSUME IInv, NEW w \in Writes, Replaces(w)
    PROVE  IInv'
<1> USE NoneAssumption
<1>1. at[w] = "replace" /\ Active(w) /\ UNCHANGED <<of, whole, synced, disk, fd, settled>>
  BY DEF Replaces, Active
<1>2. /\ tmp = fd[w] /\ of[fd[w]] = w /\ fd[w] \in whole /\ fd[w] \in synced /\ fd[w] \in Writes
  BY <1>1 DEF IInv, TypeOK, Progress, Active
<1>3. file' = fd[w] /\ tmp' = None /\ Goto(w, "sync dir") /\ "sync dir" \in Places \ {"open"}
  BY <1>2 DEF Replaces, Places
<1>4. TypeOK' /\ OneActive' /\ Kept'
  BY <1>1, <1>2, <1>3, OthersStay DEF IInv, TypeOK, Kept
<1>5. TmpApart'
  <2>1. \A x \in Writes : at'[x] = "open" => x # fd[w] /\ x # disk
    BY <1>1, <1>2, <1>3, OthersStay DEF IInv, TmpApart
  <2> QED
    BY <1>1, <1>3, <2>1 DEF TmpApart
<1>6. Readable'
  BY <1>1, <1>2, <1>3 DEF IInv, Readable
<1>7. Progress'
  <2>1. at'[w] = "sync dir" /\ \A x \in Writes \ {w} : ~Active(x)'
    BY <1>1, <1>3, OthersStay
  <2> QED
    BY <1>1, <1>2, <1>3, <2>1 DEF Progress, Active
<1> QED
  BY <1>4, <1>5, <1>6, <1>7 DEF IInv

LEMMA SyncsDirectoryIInv ==
    ASSUME IInv, NEW w \in Writes, SyncsDirectory(w)
    PROVE  IInv'
<1> USE NoneAssumption
<1>1. /\ at[w] = "sync dir" /\ Active(w) /\ Goto(w, "returned")
      /\ "returned" \in Places \ {"open"}
      /\ disk' = file /\ settled' = w /\ UNCHANGED <<of, whole, synced, file, tmp, fd>>
  BY DEF SyncsDirectory, Active, Places
<1>2. file = fd[w] /\ of[file] = w /\ file \in Writes
  <2>1. file = fd[w] /\ of[fd[w]] = w
    BY <1>1 DEF IInv, Progress
  <2>2. fd[w] \in Writes
    BY DEF IInv, TypeOK
  <2> QED
    BY <2>1, <2>2
<1>3. \A x \in Writes : ~Active(x)'
  BY <1>1, OthersStay DEF Active
<1>4. TypeOK' /\ OneActive'
  BY <1>1, <1>2, OthersStay DEF IInv, TypeOK
<1>5. Kept'
  BY <1>1, <1>2, <1>3 DEF Kept
<1>6. TmpApart' /\ Readable'
  BY <1>1, OthersStay DEF IInv, TmpApart, Readable
<1>7. Progress'
  BY <1>3 DEF Progress, Active
<1> QED
  BY <1>4, <1>5, <1>6, <1>7 DEF IInv

LEMMA KilledIInv ==
    ASSUME IInv, NEW w \in Writes, Killed(w)
    PROVE  IInv'
<1> USE NoneAssumption
<1>1. /\ Active(w) /\ Goto(w, "failed") /\ "failed" \in Places \ {"open"}
      /\ UNCHANGED <<of, whole, synced, file, tmp, disk, fd, settled>>
  BY DEF Killed, Places
<1>2. \A x \in Writes : ~Active(x)'
  BY <1>1, OthersStay DEF Active
<1>3. TypeOK' /\ OneActive' /\ Kept'
  BY <1>1, OthersStay DEF IInv, TypeOK, Kept
<1>4. TmpApart' /\ Readable'
  BY <1>1, OthersStay DEF IInv, TmpApart, Readable
<1>5. Progress'
  BY <1>2 DEF Progress, Active
<1> QED
  BY <1>3, <1>4, <1>5 DEF IInv

LEMMA PowerLossIInv ==
    ASSUME IInv, PowerLoss
    PROVE  IInv'
<1> USE NoneAssumption
<1>1. /\ file' \in {disk, file} /\ disk' = file'
      /\ tmp' \in {None, tmp} \union ({file} \ {file'})
      /\ whole' \subseteq whole /\ whole \intersect synced \subseteq whole' /\ synced' = Writes
      /\ UNCHANGED <<of, fd, settled>>
  BY DEF PowerLoss
<1>2. at' \in [Writes -> Places]
  BY DEF PowerLoss, IInv, TypeOK, Places
<1>3. \A w \in Writes : ~Active(w)' /\ (at'[w] = "open" => at[w] = "open")
  BY DEF PowerLoss, Active
<1>4. TypeOK'
  BY <1>1, <1>2 DEF IInv, TypeOK
<1>5. OneActive' /\ Progress'
  BY <1>3 DEF OneActive, Progress, Active
<1>6. TmpApart'
  BY <1>1, <1>3 DEF IInv, TmpApart
<1>7. Readable'
  BY <1>1 DEF IInv, TypeOK, Readable
<1>8. Kept'
  BY <1>1, <1>3 DEF IInv, Kept
<1> QED
  BY <1>4, <1>5, <1>6, <1>7, <1>8 DEF IInv

LEMMA NextIInv == Locked /\ IInv /\ [Next]_vars => IInv'
<1> SUFFICES ASSUME Locked, IInv, [Next]_vars
             PROVE  IInv'
  OBVIOUS
<1>1. CASE PowerLoss
  BY <1>1, PowerLossIInv
<1>2. ASSUME NEW w \in Writes,
             \/ Opens(w) \/ WritesBytes(w) \/ Syncs(w) \/ Replaces(w)
             \/ SyncsDirectory(w) \/ Killed(w)
      PROVE  IInv'
  BY <1>2, OpensIInv, WritesBytesIInv, SyncsIInv, ReplacesIInv, SyncsDirectoryIInv, KilledIInv
<1>3. CASE UNCHANGED vars
  BY <1>3 DEF vars, IInv, TypeOK, OneActive, TmpApart, Readable, Progress, Kept, Active
<1> QED
  BY <1>1, <1>2, <1>3 DEF Next

(* What checkpoint() wrote when it returned is what is read until the next
   checkpoint begins, whatever loses power in between. *)
THEOREM CheckpointsAreKept == ASSUME Locked PROVE Spec => []ReturnedIsKept
<1>1. IInv => ReturnedIsKept
  BY DEF IInv, Kept, ReturnedIsKept
<1>2. IInv /\ [Next]_vars => IInv'
  BY NextIInv
<1> QED
  BY <1>1, <1>2, InitIInv, PTL DEF Spec

(* The call that is going on is the writer of the abstract record. *)
LEMMA WriterIs ==
    ASSUME IInv
    PROVE  /\ \A w \in Writes : Active(w) => Writer = w
           /\ (\A w \in Writes : ~Active(w)) => Writer = None
<1>1. ASSUME NEW w \in Writes, Active(w) PROVE Writer = w
  <2>1. \A x \in Writes : Active(x) <=> x = w
    BY <1>1 DEF IInv, OneActive
  <2> QED
    BY <1>1, <2>1 DEF Writer
<1>2. (\A w \in Writes : ~Active(w)) => Writer = None
  BY DEF Writer
<1> QED
  BY <1>1, <1>2

LEMMA WriterWillBe ==
    ASSUME IInv'
    PROVE  /\ \A w \in Writes : Active(w)' => Writer' = w
           /\ (\A w \in Writes : ~Active(w)') => Writer' = None
<1>1. ASSUME NEW w \in Writes, Active(w)' PROVE Writer' = w
  <2>1. \A x \in Writes : Active(x)' <=> x = w
    BY <1>1 DEF IInv, OneActive
  <2> QED
    BY <1>1, <2>1 DEF Writer
<1>2. (\A w \in Writes : ~Active(w)') => Writer' = None
  BY DEF Writer
<1> QED
  BY <1>1, <1>2

(* What readers find, and what a loss of power leaves, is never a part. *)
LEMMA ContentIs ==
    ASSUME IInv
    PROVE  /\ Content(file) = IF file = None THEN None ELSE of[file]
           /\ Content(disk) = IF disk = None THEN None ELSE of[disk]
  BY DEF IInv, Readable, Content

LEMMA ContentWillBe ==
    ASSUME IInv'
    PROVE  /\ Content(file)' = IF file' = None THEN None ELSE of'[file']
           /\ Content(disk)' = IF disk' = None THEN None ELSE of'[disk']
  BY DEF IInv, Readable, Content

RecordStep == [Record!Next]_(Record!recordVars)

(* Each statement of a call is one step of the record, or none of its matter. *)
LEMMA CallsStep ==
    ASSUME Locked, IInv, IInv', NEW w \in Writes,
           Opens(w) \/ WritesBytes(w) \/ Syncs(w) \/ Replaces(w) \/ SyncsDirectory(w) \/ Killed(w)
    PROVE  RecordStep
<1> USE NoneAssumption
<1> DEFINE shown(entry) == IF entry = None THEN None ELSE of[entry]
<1>1. /\ Content(file) = shown(file) /\ Content(disk) = shown(disk)
      /\ Content(file)' = shown(file)' /\ Content(disk)' = shown(disk)'
  BY ContentIs, ContentWillBe
<1>2. /\ \A x \in Writes : Active(x) => Writer = x
      /\ (\A x \in Writes : ~Active(x)) => Writer = None
      /\ \A x \in Writes : Active(x)' => Writer' = x
      /\ (\A x \in Writes : ~Active(x)') => Writer' = None
  BY WriterIs, WriterWillBe
<1>3. TypeOK /\ TmpApart /\ Progress /\ w \in DOMAIN at
  BY DEF IInv, TypeOK
<1>4. CASE Opens(w)
  <2>1. /\ file' = file /\ disk' = disk /\ of' = [of EXCEPT ![tmp'] = w]
        /\ tmp' # file /\ tmp' # disk /\ \A x \in Writes : ~Active(x)
        /\ at' = [at EXCEPT ![w] = "write"]
    BY <1>3, <1>4 DEF Opens, Goto, TypeOK, TmpApart
  <2>2. shown(file)' = shown(file) /\ shown(disk)' = shown(disk)
    BY <1>3, <2>1 DEF TypeOK
  <2>3. Active(w)'
    BY <1>3, <2>1 DEF Active
  <2>4. Record!Begins(w)
    BY <1>1, <1>2, <2>1, <2>2, <2>3 DEF Record!Begins
  <2> QED
    BY <2>4 DEF RecordStep, Record!Next
<1>5. ASSUME Active(w), NEW place \in {"sync", "replace", "sync dir"}, Goto(w, place) PROVE Writer = w /\ Writer' = w
  <2>1. Active(w)'
    BY <1>3, <1>5 DEF Active, Goto
  <2> QED
    BY <1>2, <1>5, <2>1
<1>6. ASSUME Active(w), NEW place \in {"failed", "returned"}, Goto(w, place) PROVE Writer = w /\ Writer' = None
  <2>1. \A x \in Writes : ~Active(x)'
    BY <1>5, <1>6, OthersStay DEF Active, Places
  <2> QED
    BY <1>2, <1>6, <2>1
<1>7. CASE WritesBytes(w)
  <2>1. /\ file' = file /\ disk' = disk /\ of' = [of EXCEPT ![fd[w]] = w]
        /\ Active(w) /\ Goto(w, "sync") /\ tmp = fd[w]
    BY <1>3, <1>7 DEF WritesBytes, Active, Progress
  <2>2. shown(file)' = shown(file) /\ shown(disk)' = shown(disk)
    BY <1>3, <2>1 DEF TypeOK, TmpApart, Progress
  <2> QED
    BY <1>1, <1>5, <2>1, <2>2 DEF RecordStep, Record!recordVars
<1>8. CASE Syncs(w)
  <2>1. UNCHANGED <<file, disk, of>> /\ Active(w) /\ Goto(w, "replace")
    BY <1>8 DEF Syncs, Active
  <2> QED
    BY <1>1, <1>5, <2>1 DEF RecordStep, Record!recordVars
<1>9. CASE Replaces(w)
  <2>1. /\ file' = tmp /\ UNCHANGED <<disk, of>> /\ Active(w) /\ Goto(w, "sync dir")
        /\ tmp \in Writes /\ of[tmp] = w
    BY <1>3, <1>9 DEF Replaces, Active, Progress, TypeOK
  <2>2. Record!Changes(w)
    BY <1>1, <1>5, <2>1 DEF Record!Changes
  <2> QED
    BY <2>2 DEF RecordStep, Record!Next
<1>10. CASE SyncsDirectory(w)
  <2>1. /\ disk' = file /\ UNCHANGED <<file, of>> /\ Active(w) /\ Goto(w, "returned")
    BY <1>10 DEF SyncsDirectory, Active
  <2>3. file = fd[w] /\ of[file] = w /\ file \in Writes
    <3>1. at[w] = "sync dir" /\ fd[w] \in Writes
      BY <1>3, <1>10 DEF SyncsDirectory, TypeOK
    <3>2. file = fd[w] /\ of[fd[w]] = w
      BY <1>3, <2>1, <3>1 DEF Progress
    <3> QED
      BY <3>1, <3>2
  <2>2. Record!Returns(w)
    BY <1>1, <1>6, <2>1, <2>3 DEF Record!Returns
  <2> QED
    BY <2>2 DEF RecordStep, Record!Next
<1>11. CASE Killed(w)
  <2>1. UNCHANGED <<file, disk, of>> /\ Active(w) /\ Goto(w, "failed")
    BY <1>11 DEF Killed
  <2>2. Record!Stops
    BY <1>1, <1>6, <2>1 DEF Record!Stops
  <2> QED
    BY <2>2 DEF RecordStep, Record!Next
<1> QED
  BY <1>4, <1>7, <1>8, <1>9, <1>10, <1>11

LEMMA PowerLossStep == ASSUME IInv, IInv', PowerLoss PROVE RecordStep
<1>1. /\ file' \in {disk, file} /\ disk' = file' /\ of' = of
      /\ \A w \in Writes : ~Active(w)'
  BY DEF PowerLoss, Active, IInv, TypeOK
<1>2. Writer' = None
  BY <1>1, WriterWillBe
<1>3. /\ Content(file) = (IF file = None THEN None ELSE of[file])
      /\ Content(disk) = (IF disk = None THEN None ELSE of[disk])
      /\ Content(file)' = (IF file' = None THEN None ELSE of'[file'])
      /\ Content(disk)' = (IF disk' = None THEN None ELSE of'[disk'])
  BY ContentIs, ContentWillBe
<1>4. Record!LosesPower
  BY <1>1, <1>2, <1>3 DEF Record!LosesPower
<1> QED
  BY <1>4 DEF RecordStep, Record!Next

LEMMA StepsOfRecord == ASSUME Locked PROVE IInv /\ IInv' /\ [Next]_vars => RecordStep
<1> SUFFICES ASSUME IInv, IInv', [Next]_vars PROVE RecordStep
  OBVIOUS
<1>1. CASE PowerLoss
  BY <1>1, PowerLossStep
<1>2. ASSUME NEW w \in Writes,
             Opens(w) \/ WritesBytes(w) \/ Syncs(w) \/ Replaces(w) \/ SyncsDirectory(w) \/ Killed(w)
      PROVE  RecordStep
  BY <1>2, CallsStep
<1>3. CASE UNCHANGED vars
  BY <1>3 DEF vars, RecordStep, Record!recordVars, Content, Writer, Active
<1> QED
  BY <1>1, <1>2, <1>3 DEF Next

LEMMA InitOfRecord == Init => Record!Init
  BY DEF Init, Record!Init, Content, Writer, Active

(* atomic_json() under manager.lock (154 to 170) implements the abstract record, for
   any number of calls. *)
THEOREM CallsAreAtomic == ASSUME Locked PROVE Spec => ImplementsRecord
<1>1. IInv /\ [Next]_vars => IInv'
  BY NextIInv
<1>2. IInv /\ IInv' /\ [Next]_vars => [Record!Next]_(Record!recordVars)
  BY StepsOfRecord DEF RecordStep
<1> QED
  BY <1>1, <1>2, InitIInv, InitOfRecord, PTL DEF Spec, ImplementsRecord, Record!Spec

(****************************** the state directory *******************************)
all == <<vars, directoryVars, historyVars, installVars>>

Stages == {"begin", "configured", "locked", "checked", "copied", "saved", "commit", "ended"}

DirectoryTyped ==
    /\ stage \in [Writes -> Stages]
    /\ config \in Configs \union {Cut} /\ mine \in [Writes -> Configs \union {Cut}]
    /\ definition \in {"cpu", "gpu"} /\ holds \in [Writes -> {"cpu", "gpu"}]
    /\ intact \in [Writes -> SUBSET Files]
    /\ saved \in [Writes -> [directory : Writes \union {None}, config : Configs \union {Cut}]]
    /\ baseline \in Writes \union {None} /\ powerLost \in BOOLEAN

(* manager.lock *)
OneHolds == \A w, x \in Writes : Holding(w) /\ Holding(x) => w = x

(* The manifest is written under the lock, once for each invocation; before, no file
   holds bytes of it. *)
Calls ==
    \A w \in Writes :
        /\ Active(w) => stage[w] = "commit"
        /\ stage[w] \notin {"commit", "ended"} => at[w] = "open"
        /\ at[w] = "open" => \A i \in Writes : of[i] = w => i = w

(* What invocation w writes names the directory of a prepare, saved under the
   configuration named, from definitions without devices, and no other than the
   baseline that was returned. *)
Sound(w) ==
    /\ saved[w].directory \in Writes
    /\ stage[saved[w].directory] # "begin"
    /\ mine[saved[w].directory] = saved[w].config
    /\ holds[saved[w].directory] = "cpu"
    /\ baseline # None => saved[w].directory = baseline

Named ==
    /\ file = None => disk = None /\ baseline = None
    /\ baseline # None => disk # None
    /\ file # None => Sound(of[file])
    /\ disk # None => Sound(of[disk])
    /\ file # None /\ ~powerLost => intact[saved[of[file]].directory] = Files

(* How far the invocation that holds the lock has come. *)
Stands ==
    \A w \in Writes :
        /\ stage[w] \in {"checked", "copied", "saved"} => w \in Prepares /\ file = None
        /\ stage[w] = "copied" => intact[w] = {"fabricmanager.cfg.mode0"}
        /\ stage[w] = "saved" =>
               intact[w] = {"fabricmanager.cfg.mode0", "xml"} /\ holds[w] = "cpu"
        /\ stage[w] = "commit" =>
               /\ Sound(w) /\ intact[saved[w].directory] = Files
               /\ saved[w].config = mine[w]
               /\ w \notin Prepares => file # None

DInv == DirectoryTyped /\ OneHolds /\ Calls /\ Named /\ Stands

(******************************** atomic_json() *********************************)
(* A step of the manager or of an installation is one of atomic_json(), or none. *)
LEMMA ManagerStepsWrite == ManagerNext => [Next]_vars
<1> SUFFICES ASSUME ManagerNext
             PROVE  [Next]_vars
  OBVIOUS
<1>1. CASE LosesPower
  BY <1>1 DEF LosesPower, Next
<1>2. CASE OperatorRedefines
  BY <1>2 DEF OperatorRedefines
<1>3. ASSUME NEW w \in Writes,
             \/ Configures(w) \/ Locks(w) \/ PrepareChecks(w) \/ CopiesConfiguration(w)
             \/ SavesDefinitions(w) \/ WritesOriginal(w) \/ Loads(w)
      PROVE  UNCHANGED vars
  BY <1>3 DEF Configures, Locks, PrepareChecks, CopiesConfiguration, SavesDefinitions,
              WritesOriginal, Loads
<1>4. ASSUME NEW w \in Writes, Commits(w) \/ Returns(w) \/ Dies(w)
      PROVE  [Next]_vars
  BY <1>4 DEF Commits, Returns, Dies, Next
<1> QED
  BY <1>1, <1>2, <1>3, <1>4 DEF ManagerNext

LEMMA InstallerSteps ==
    ASSUME NEW i \in Installers,
           \/ InstallChecks(i) \/ BacksUp(i) \/ CopiesCode(i) \/ CopiesConfig(i) \/ WritesUnit(i)
           \/ WritesPolicy(i) \/ Links(i) \/ Stops(i)
    PROVE  /\ UNCHANGED <<vars, historyVars, stage, mine, definition, intact, holds, safe, saved>>
           /\ config' \in {config, Cut, Source[i]}
BY DEF InstallChecks, BacksUp, CopiesCode, CopiesConfig, WritesUnit, WritesPolicy, Links, Stops, Step

LEMMA StepsWrite == [InstallNext]_all => [Next]_vars
BY ManagerStepsWrite, InstallerSteps DEF InstallNext, all

(***************************** the state directory ******************************)
LEMMA Moves ==
    ASSUME DInv, NEW w \in Writes, NEW place \in Stages, Stage(w, place)
    PROVE  /\ stage' \in [Writes -> Stages] /\ stage'[w] = place
           /\ \A x \in Writes \ {w} : stage'[x] = stage[x]
BY DEF DInv, DirectoryTyped, Stage

LEMMA HolderIsAlone ==
    ASSUME DInv, NEW w \in Writes, Holding(w)
    PROVE  \A x \in Writes \ {w} : /\ stage[x] \in {"begin", "configured", "ended"}
                                   /\ ~Active(x)
BY DEF DInv, OneHolds, Holding, Calls, DirectoryTyped

(* Sound() is about what these variables hold. *)
LEMMA SoundKept ==
    ASSUME DInv, NEW w \in Writes, Sound(w),
           saved'[w] = saved[w],
           stage'[saved[w].directory] # "begin",
           mine'[saved[w].directory] = mine[saved[w].directory],
           holds'[saved[w].directory] = holds[saved[w].directory],
           baseline' = baseline
    PROVE  Sound(w)'
BY DEF Sound

LEMMA InitDInv == InstallInit => Init /\ DInv
<1> SUFFICES ASSUME InstallInit
             PROVE  Init /\ DInv
  OBVIOUS
<1>1. PICK crew \in Crews : DirectoryInit(crew)
  BY DEF InstallInit
<1> USE <1>1 DEF DirectoryInit
<1>2. Init
  OBVIOUS
<1>3. DirectoryTyped
  BY DEF DirectoryTyped, Stages, Files, Cut
<1>4. \A w \in Writes : stage[w] \in {"begin", "ended"} /\ at[w] = "open" /\ ~Active(w)
  BY DEF Init, Active
<1>5. OneHolds /\ Stands
  BY <1>4 DEF OneHolds, Holding, Stands
<1>6. Calls /\ Named
  BY <1>4 DEF Calls, Named, Init
<1> QED
  BY <1>2, <1>3, <1>5, <1>6 DEF DInv

(* main() before the lock, the lock, the checks: only the place changes, and the
   configuration that was read. *)
LEMMA BeginsDInv ==
    ASSUME DInv, IInv, NEW w \in Writes, Configures(w) \/ Locks(w) \/ PrepareChecks(w)
    PROVE  DInv'
<1>1. /\ UNCHANGED <<vars, historyVars, config, definition, intact, holds, safe, saved>>
      /\ stage[w] \in {"begin", "configured", "locked"}
      /\ \E place \in {"configured", "locked", "checked", "ended"} : Stage(w, place)
      /\ mine' \in [Writes -> Configs \union {Cut}]
      /\ \A x \in Writes : stage[x] # "begin" => mine'[x] = mine[x]
  BY DEF Configures, Locks, PrepareChecks, Ends, DInv, DirectoryTyped
<1>2. PICK place \in {"configured", "locked", "checked", "ended"} :
          /\ stage' \in [Writes -> Stages] /\ stage'[w] = place
          /\ \A x \in Writes \ {w} : stage'[x] = stage[x]
  BY <1>1, Moves DEF Stages
<1>3. DirectoryTyped'
  BY <1>1, <1>2 DEF DInv, DirectoryTyped, historyVars
<1>4. OneHolds'
  <2>1. stage'[w] \in {"locked", "checked"} => \A x \in Writes \ {w} : ~Holding(x)
    BY <1>1, HolderIsAlone, <1>2 DEF Locks, PrepareChecks, Configures, Holding, Ends, Stage,
                                     DInv, DirectoryTyped
  <2> QED
    BY <1>2, <2>1 DEF DInv, OneHolds, Holding
<1>5. Calls'
  BY <1>1, <1>2 DEF DInv, Calls, vars, Active
<1>6. \A x \in Writes : Sound(x) => Sound(x)'
  BY <1>1, <1>2 DEF Sound, historyVars
<1>7. Named'
  BY <1>1, <1>6 DEF DInv, Named, IInv, TypeOK, vars, historyVars
<1>8. stage'[w] = "checked" => w \in Prepares /\ file = None
  BY <1>1, <1>2 DEF Configures, Locks, PrepareChecks, Ends, Stage, DInv, DirectoryTyped
<1>9. Stands'
  BY <1>1, <1>2, <1>6, <1>8 DEF DInv, Stands, vars, historyVars
<1> QED
  BY <1>3, <1>4, <1>5, <1>7, <1>9 DEF DInv

(* prepare() in its directory: no manifest names it, for there is none. *)
LEMMA BuildsDInv ==
    ASSUME DInv, IInv, NEW w \in Writes,
           CopiesConfiguration(w) \/ SavesDefinitions(w) \/ WritesOriginal(w)
    PROVE  DInv'
<1>1. /\ UNCHANGED <<vars, historyVars, config, mine, definition>>
      /\ stage[w] \in {"checked", "copied", "saved"}
      /\ \E place \in {"copied", "saved", "commit", "ended"} : Stage(w, place)
  BY DEF CopiesConfiguration, SavesDefinitions, WritesOriginal
<1>2. PICK place \in {"copied", "saved", "commit", "ended"} :
          /\ stage' \in [Writes -> Stages] /\ stage'[w] = place
          /\ \A x \in Writes \ {w} : stage'[x] = stage[x]
  BY <1>1, Moves DEF Stages
<1>3. w \in Prepares /\ file = None /\ disk = None /\ baseline = None
  BY <1>1 DEF DInv, Stands, Named
<1>4. \A x \in Writes \ {w} : stage[x] \in {"begin", "configured", "ended"} /\ ~Active(x)
  BY <1>1, HolderIsAlone DEF Holding
<1>5. DirectoryTyped'
  <2>1. intact' \in [Writes -> SUBSET Files]
    <3>1. PICK fs \in SUBSET Files : intact' = [intact EXCEPT ![w] = fs]
      <4>1. CASE CopiesConfiguration(w)
        BY <4>1 DEF CopiesConfiguration, Files
      <4>2. CASE SavesDefinitions(w)
        BY <4>2 DEF SavesDefinitions, Files, DInv, DirectoryTyped
      <4>3. CASE WritesOriginal(w)
        BY <4>3 DEF WritesOriginal, Files, DInv, DirectoryTyped
      <4> QED
        BY <4>1, <4>2, <4>3
    <3> QED
      BY <3>1 DEF DInv, DirectoryTyped
  <2>2. holds' \in [Writes -> {"cpu", "gpu"}]
    BY DEF CopiesConfiguration, SavesDefinitions, WritesOriginal, DInv, DirectoryTyped
  <2>3. saved' \in [Writes -> [directory : Writes \union {None}, config : Configs \union {Cut}]]
    BY DEF CopiesConfiguration, SavesDefinitions, WritesOriginal, DInv, DirectoryTyped
  <2> QED
    BY <1>1, <1>2, <2>1, <2>2, <2>3 DEF DInv, DirectoryTyped, historyVars
<1>6. OneHolds'
  BY <1>2, <1>4 DEF OneHolds, Holding
<1>7. Calls'
  BY <1>1, <1>2 DEF DInv, Calls, vars, Active
<1>8. Named'
  BY <1>1, <1>3 DEF Named, vars, historyVars
<1>9. Stands'
  <2>1. CASE CopiesConfiguration(w)
    BY <2>1, <1>1, <1>2, <1>3, <1>4 DEF CopiesConfiguration, Stands, Stage, DInv, DirectoryTyped, vars
  <2>2. CASE SavesDefinitions(w)
    <3>1. /\ intact'[w] = {"fabricmanager.cfg.mode0", "xml"} /\ holds'[w] = definition
          /\ stage'[w] = (IF definition = "cpu" THEN "saved" ELSE "ended")
      BY <2>2 DEF SavesDefinitions, Stage, DInv, DirectoryTyped, Stands
    <3> QED
      BY <3>1, <1>1, <1>2, <1>3, <1>4 DEF Stands, vars
  <2>3. CASE WritesOriginal(w)
    <3>1. /\ intact'[w] = Files /\ holds' = holds /\ holds[w] = "cpu" /\ stage'[w] = "commit"
          /\ saved'[w] = [directory |-> w, config |-> mine[w]]
      BY <2>3 DEF WritesOriginal, Stage, DInv, DirectoryTyped, Stands, Files
    <3>2. Sound(w)'
      BY <3>1, <1>1, <1>3 DEF Sound, historyVars
    <3> QED
      BY <3>1, <3>2, <1>1, <1>2, <1>3, <1>4 DEF Stands, vars
  <2> QED
    BY <2>1, <2>2, <2>3
<1> QED
  BY <1>5, <1>6, <1>7, <1>8, <1>9 DEF DInv

(* load() *)
LEMMA LoadsDInv ==
    ASSUME DInv, IInv, NEW w \in Writes, Loads(w)
    PROVE  DInv'
<1> USE NoneAssumption
<1>1. /\ UNCHANGED <<vars, historyVars, config, mine, definition, intact, holds, safe>>
      /\ stage[w] = "locked" /\ w \notin Prepares
  BY DEF Loads, Ends
<1>2. \A x \in Writes \ {w} : stage[x] \in {"begin", "configured", "ended"} /\ ~Active(x)
  BY <1>1, HolderIsAlone DEF Holding
<1>3. CASE ~Loadable(w)
  <2>1. Stage(w, "ended") /\ saved' = saved
    BY <1>3 DEF Loads, Ends
  <2>2. /\ stage' \in [Writes -> Stages] /\ stage'[w] = "ended"
        /\ \A x \in Writes \ {w} : stage'[x] = stage[x]
    BY <2>1, Moves DEF Stages
  <2>3. DirectoryTyped'
    BY <1>1, <2>1, <2>2 DEF DInv, DirectoryTyped, historyVars
  <2>4. OneHolds' /\ Calls'
    BY <1>1, <1>2, <2>2 DEF DInv, OneHolds, Holding, Calls, vars, Active
  <2>5. \A x \in Writes : Sound(x) => Sound(x)'
    BY <1>1, <2>1, <2>2 DEF Sound, historyVars
  <2>6. Named' /\ Stands'
    BY <1>1, <2>1, <2>2, <2>5 DEF DInv, Named, Stands, IInv, TypeOK, vars, historyVars
  <2> QED
    BY <2>3, <2>4, <2>6 DEF DInv
<1>4. CASE Loadable(w)
  <2>1. /\ Stage(w, "commit") /\ saved' = [saved EXCEPT ![w] = saved[of[file]]]
        /\ file # None /\ file \in Writes /\ of[file] \in Writes
        /\ intact[saved[of[file]].directory] = Files /\ saved[of[file]].config = mine[w]
    BY <1>4 DEF Loads, Loadable, IInv, TypeOK
  <2>2. /\ stage' \in [Writes -> Stages] /\ stage'[w] = "commit"
        /\ \A x \in Writes \ {w} : stage'[x] = stage[x]
    BY <2>1, Moves DEF Stages
  <2>3. at[w] = "open" /\ \A i \in Writes : of[i] = w => i = w
    BY <1>1 DEF DInv, Calls
  <2>4. of[file] # w /\ (disk # None => disk \in Writes /\ of[disk] # w)
    BY <2>1, <2>3 DEF IInv, TypeOK, TmpApart
  <2>5. saved'[w] = saved[of[file]] /\ \A x \in Writes \ {w} : saved'[x] = saved[x]
    BY <2>1 DEF DInv, DirectoryTyped
  <2>6. DirectoryTyped'
    BY <1>1, <2>1, <2>2 DEF DInv, DirectoryTyped, historyVars
  <2>7. OneHolds' /\ Calls'
    BY <1>1, <1>2, <2>2, <2>3 DEF DInv, OneHolds, Holding, Calls, vars, Active
  <2>8. \A x \in Writes \ {w} : Sound(x) => Sound(x)'
    BY <1>1, <2>2, <2>5 DEF Sound, historyVars
  <2>9. Named'
    <3>1. Sound(of[file])'
      BY <1>1, <2>1, <2>4, <2>8 DEF DInv, Named, vars
    <3>2. disk # None => Sound(of[disk])'
      BY <1>1, <2>4, <2>8 DEF DInv, Named, IInv, TypeOK, vars
    <3> QED
      BY <1>1, <2>1, <2>4, <2>5, <3>1, <3>2 DEF DInv, Named, vars, historyVars, Sound
  <2>10. Sound(w)'
    BY <1>1, <2>1, <2>2, <2>5 DEF DInv, Named, Sound, historyVars
  <2>11. Stands'
    BY <1>1, <1>2, <2>1, <2>2, <2>5, <2>10 DEF Stands, vars
  <2> QED
    BY <2>6, <2>7, <2>9, <2>11 DEF DInv
<1> QED
  BY <1>3, <1>4

(* What a statement of atomic_json() does to the files that can be read. *)
LEMMA Statements ==
    ASSUME IInv, NEW w \in Writes, Opens(w) \/ WritesBytes(w) \/ Syncs(w) \/ Replaces(w)
    PROVE  /\ \A x \in Writes \ {w} : at'[x] = at[x]
           /\ at'[w] # "open"
           /\ \A i \in Writes : of'[i] \in {of[i], w}
           /\ disk' = disk /\ (disk # None => disk \in Writes /\ of'[disk] = of[disk])
           /\ \/ file' = file /\ (file # None => file \in Writes /\ of'[file] = of[file])
              \/ file' \in Writes /\ of'[file'] = w
<1> USE NoneAssumption
<1>1. CASE Opens(w)
  <2>1. tmp' \in Writes /\ tmp' # file /\ tmp' # disk
    BY <1>1 DEF IInv, TypeOK, TmpApart, Opens
  <2> QED
    BY <1>1, <2>1 DEF Opens, Goto, IInv, TypeOK
<1>2. CASE WritesBytes(w)
  <2>1. fd[w] = tmp /\ fd[w] \in Writes
    BY <1>2 DEF IInv, TypeOK, Progress, WritesBytes
  <2>2. fd[w] # file /\ fd[w] # disk
    BY <2>1 DEF IInv, TmpApart
  <2> QED
    BY <1>2, <2>1, <2>2 DEF WritesBytes, Goto, IInv, TypeOK
<1>3. CASE Syncs(w)
  BY <1>3 DEF Syncs, Goto, IInv, TypeOK
<1>4. CASE Replaces(w)
  <2>1. at[w] = "replace" /\ Active(w)
    BY <1>4 DEF Replaces, Active
  <2>2. fd[w] = tmp /\ fd[w] \in Writes /\ of[fd[w]] = w
    BY <2>1 DEF IInv, TypeOK, Progress
  <2> QED
    BY <1>4, <2>2 DEF Replaces, Goto, IInv, TypeOK
<1> QED
  BY <1>1, <1>2, <1>3, <1>4

(* A statement of atomic_json() for the manifest. *)
LEMMA CommitsDInv ==
    ASSUME DInv, IInv, IInv', NEW w \in Writes, Commits(w)
    PROVE  DInv'
<1> USE NoneAssumption
<1>1. /\ UNCHANGED <<directoryVars, historyVars>> /\ stage[w] = "commit"
      /\ Opens(w) \/ WritesBytes(w) \/ Syncs(w) \/ Replaces(w)
  BY DEF Commits
<1>2. \A x \in Writes \ {w} : stage[x] \in {"begin", "configured", "ended"} /\ ~Active(x)
  BY <1>1, HolderIsAlone DEF Holding
<1>3. DirectoryTyped' /\ OneHolds'
  BY <1>1 DEF DInv, DirectoryTyped, OneHolds, Holding, directoryVars, historyVars
<1>4. /\ \A x \in Writes \ {w} : at'[x] = at[x]
      /\ at'[w] # "open"
      /\ \A i \in Writes : of'[i] \in {of[i], w}
  BY <1>1, Statements
<1>5. Calls'
  <2>1. \A x \in Writes \ {w} : ~Active(x)'
    BY <1>2, <1>4 DEF Active
  <2> QED
    BY <1>1, <1>4, <2>1 DEF DInv, Calls, directoryVars
<1>6. \A x \in Writes : Sound(x) => Sound(x)'
  BY <1>1 DEF Sound, directoryVars, historyVars
<1>7. Sound(w) /\ intact[saved[w].directory] = Files
  BY <1>1 DEF DInv, Stands
<1>8. disk' = disk
  BY <1>1, Statements
<1>9. disk # None => disk \in Writes /\ of'[disk] = of[disk]
  BY <1>1, Statements
<1>10. \/ file' = file /\ (file # None => file \in Writes /\ of'[file] = of[file])
       \/ file' \in Writes /\ of'[file'] = w
  BY <1>1, Statements
<1>11. Named'
  <2>1. disk' # None => Sound(of[disk])' /\ of'[disk'] = of[disk]
    BY <1>6, <1>8, <1>9 DEF DInv, Named, IInv, TypeOK
  <2>2. file' # None => \E x \in Writes : /\ of'[file'] = x /\ Sound(x)
                                          /\ ~powerLost => intact[saved[x].directory] = Files
    BY <1>7, <1>10 DEF DInv, Named, IInv, TypeOK
  <2>3. file' = None => file = None
    BY <1>10
  <2> QED
    BY <1>1, <1>6, <1>8, <2>1, <2>2, <2>3 DEF DInv, Named, directoryVars, historyVars
<1>12. Stands'
  <2>1. \A x \in Writes : stage[x] \in {"checked", "copied", "saved"} => x # w
    BY <1>1
  <2>2. file' = None => file = None
    BY <1>10
  <2> QED
    BY <1>1, <1>2, <1>6, <2>1, <2>2 DEF DInv, Stands, directoryVars, historyVars
<1> QED
  BY <1>3, <1>5, <1>11, <1>12 DEF DInv

(* checkpoint() returns. *)
LEMMA ReturnsDInv ==
    ASSUME DInv, IInv, NEW w \in Writes, Returns(w)
    PROVE  DInv'
<1> USE NoneAssumption
<1>1. /\ UNCHANGED <<config, mine, definition, intact, holds, safe, saved, of, file, powerLost>>
      /\ stage[w] = "commit" /\ Stage(w, "ended") /\ disk' = file
      /\ at[w] = "sync dir" /\ at' = [at EXCEPT ![w] = "returned"]
      /\ baseline' = IF baseline = None THEN saved[w].directory ELSE baseline
  BY DEF Returns, Ends, SyncsDirectory, Goto
<1>2. \A x \in Writes \ {w} : stage[x] \in {"begin", "configured", "ended"} /\ ~Active(x)
  BY <1>1, HolderIsAlone DEF Holding
<1>3. /\ stage' \in [Writes -> Stages] /\ stage'[w] = "ended"
      /\ \A x \in Writes \ {w} : stage'[x] = stage[x]
  BY <1>1, Moves DEF Stages
<1>4. /\ at'[w] = "returned" /\ \A x \in Writes \ {w} : at'[x] = at[x]
  BY <1>1 DEF IInv, TypeOK
<1>5. file = fd[w] /\ of[file] = w /\ file \in Writes
  <2>1. Active(w)
    BY <1>1 DEF Active
  <2>2. file = fd[w] /\ of[fd[w]] = w /\ fd[w] \in Writes
    BY <1>1, <2>1 DEF IInv, TypeOK, Progress
  <2> QED
    BY <2>2
<1>6. Sound(w) /\ intact[saved[w].directory] = Files
  BY <1>1 DEF DInv, Stands
<1>7. baseline' = saved[w].directory /\ saved[w].directory \in Writes
  BY <1>1, <1>6 DEF Sound
<1>8. DirectoryTyped'
  BY <1>1, <1>3, <1>7 DEF DInv, DirectoryTyped
<1>9. OneHolds' /\ Stands'
  BY <1>2, <1>3 DEF OneHolds, Holding, Stands
<1>10. Calls'
  <2>1. \A x \in Writes : ~Active(x)'
    BY <1>2, <1>4 DEF Active
  <2>2. at'[w] # "open" /\ stage'[w] = "ended"
    BY <1>3, <1>4
  <2> QED
    BY <1>1, <1>3, <1>4, <2>1, <2>2 DEF DInv, Calls
<1>11. Sound(w)'
  BY <1>1, <1>3, <1>6, <1>7 DEF Sound
<1>12. Named'
  BY <1>1, <1>5, <1>6, <1>7, <1>11 DEF Named, Sound
<1> QED
  BY <1>8, <1>9, <1>10, <1>12 DEF DInv

LEMMA DiesDInv ==
    ASSUME DInv, IInv, NEW w \in Writes, Dies(w)
    PROVE  DInv'
<1>1. /\ UNCHANGED <<historyVars, config, mine, definition, intact, holds, safe, saved>>
      /\ UNCHANGED <<of, file, disk>> /\ Stage(w, "ended") /\ Holding(w)
      /\ \/ UNCHANGED at
         \/ Active(w) /\ at' = [at EXCEPT ![w] = "failed"]
  BY DEF Dies, Ends, Killed, Goto, vars
<1>2. \A x \in Writes \ {w} : stage[x] \in {"begin", "configured", "ended"} /\ ~Active(x)
  BY <1>1, HolderIsAlone
<1>3. /\ stage' \in [Writes -> Stages] /\ stage'[w] = "ended"
      /\ \A x \in Writes \ {w} : stage'[x] = stage[x]
  BY <1>1, Moves DEF Stages
<1>4. ~Active(w)' \/ at' = at
  BY <1>1 DEF Active, IInv, TypeOK
<1>5. \A x \in Writes : at'[x] = at[x] \/ (x = w /\ Active(w) /\ at'[x] = "failed")
  BY <1>1 DEF IInv, TypeOK
<1>6. DirectoryTyped' /\ OneHolds' /\ Stands'
  BY <1>1, <1>2, <1>3 DEF DInv, DirectoryTyped, OneHolds, Holding, Stands, historyVars
<1>7. Calls'
  <2>1. ~Active(w)'
    BY DEF Dies, Killed, Goto, Active, vars, IInv, TypeOK
  <2>2. \A x \in Writes \ {w} : ~Active(x)'
    BY <1>2, <1>5 DEF Active
  <2> QED
    BY <1>1, <1>3, <1>5, <2>1, <2>2 DEF DInv, Calls
<1>8. \A x \in Writes : Sound(x) => Sound(x)'
  BY <1>1, <1>3 DEF Sound, historyVars
<1>9. Named'
  BY <1>1, <1>8 DEF DInv, Named, IInv, TypeOK, historyVars
<1> QED
  BY <1>6, <1>7, <1>9 DEF DInv

LEMMA LosesPowerDInv ==
    ASSUME DInv, IInv, LosesPower
    PROVE  DInv'
<1> USE NoneAssumption
<1>1. /\ UNCHANGED <<config, mine, definition, holds, saved, baseline, of>>
      /\ powerLost' = TRUE /\ file' \in {disk, file} /\ disk' = file'
      /\ stage' = [w \in Writes |-> IF stage[w] = "begin" THEN "begin" ELSE "ended"]
      /\ at' = [w \in Writes |-> IF Active(w) THEN "failed" ELSE at[w]]
  BY DEF LosesPower, PowerLoss
<1>2. intact' \in [Writes -> SUBSET Files]
  BY DEF LosesPower, DInv, DirectoryTyped
<1>3. DirectoryTyped'
  BY <1>1, <1>2 DEF DInv, DirectoryTyped, Stages
<1>4. OneHolds' /\ Stands'
  BY <1>1 DEF OneHolds, Holding, Stands
<1>5. Calls'
  BY <1>1 DEF DInv, Calls, Active
<1>6. \A x \in Writes : Sound(x) => Sound(x)'
  BY <1>1 DEF Sound
<1>7. Named'
  BY <1>1, <1>6 DEF DInv, Named, IInv, TypeOK
<1> QED
  BY <1>3, <1>4, <1>5, <1>7 DEF DInv

(* Operators and installers change the definitions and the configuration only. *)
LEMMA OthersDInv ==
    ASSUME DInv, IInv, config' \in Configs \union {Cut}, definition' \in {"cpu", "gpu"},
           UNCHANGED <<vars, historyVars, stage, mine, intact, holds, saved>>
    PROVE  DInv'
<1>1. DirectoryTyped'
  BY DEF DInv, DirectoryTyped, historyVars
<1>2. OneHolds' /\ Calls'
  BY DEF DInv, OneHolds, Holding, Calls, Active, vars
<1>3. \A x \in Writes : Sound(x) <=> Sound(x)'
  BY DEF Sound, historyVars
<1>4. Named' /\ Stands'
  BY <1>3 DEF DInv, Named, Stands, IInv, TypeOK, vars, historyVars
<1> QED
  BY <1>1, <1>2, <1>4 DEF DInv

LEMMA ManagerDInv ==
    ASSUME Locked, DInv, IInv, ManagerNext
    PROVE  DInv'
<1>1. IInv'
  BY ManagerStepsWrite, NextIInv
<1>2. CASE OperatorRedefines
  BY <1>2, OthersDInv DEF OperatorRedefines, DInv, DirectoryTyped
<1>3. ASSUME NEW w \in Writes,
             \/ Configures(w) \/ Locks(w) \/ PrepareChecks(w) \/ CopiesConfiguration(w)
             \/ SavesDefinitions(w) \/ WritesOriginal(w) \/ Loads(w) \/ Commits(w) \/ Returns(w)
             \/ Dies(w)
      PROVE  DInv'
  BY <1>1, <1>3, BeginsDInv, BuildsDInv, LoadsDInv, CommitsDInv, ReturnsDInv, DiesDInv
<1> QED
  BY <1>2, <1>3, LosesPowerDInv DEF ManagerNext

LEMMA NextDInv ==
    ASSUME Locked, DInv, IInv, [InstallNext]_all
    PROVE  DInv'
<1>1. CASE ManagerNext /\ UNCHANGED installVars
  BY <1>1, ManagerDInv
<1>2. ASSUME NEW i \in Installers,
             \/ InstallChecks(i) \/ BacksUp(i) \/ CopiesCode(i) \/ CopiesConfig(i) \/ WritesUnit(i)
             \/ WritesPolicy(i) \/ Links(i) \/ Stops(i)
      PROVE  DInv'
  <2>1. Source[i] \in Configs
    BY InstallersAssumption
  <2> QED
    BY <1>2, <2>1, InstallerSteps, OthersDInv DEF DInv, DirectoryTyped
<1>3. CASE UNCHANGED all
  BY <1>3, OthersDInv DEF all, directoryVars, DInv, DirectoryTyped
<1> QED
  BY <1>1, <1>2, <1>3 DEF InstallNext

LEMMA Invariant == ASSUME Locked PROVE InstallSpec => [](IInv /\ DInv)
<1>1. InstallInit => IInv /\ DInv
  BY InitDInv, InitIInv
<1>2. IInv /\ DInv /\ [InstallNext]_all => (IInv /\ DInv)'
  BY StepsWrite, NextIInv, NextDInv
<1> QED
  BY <1>1, <1>2, PTL DEF InstallSpec, all

(*********************************** theorems ***********************************)
(* Once a manifest was returned, the one that is read names the baseline of that time,
   for any number of preparations, kills and losses of power (line 442). *)
THEOREM BaselinesAreKept == ASSUME Locked PROVE InstallSpec => []BaselineIsKept
<1>1. IInv /\ DInv => BaselineIsKept
  BY DEF DInv, Named, Sound, BaselineIsKept, Manifest
<1> QED
  BY <1>1, Invariant, PTL

(* A manifest has its whole baseline behind it, from definitions without devices
   (lines 443 and 472 to 485). *)
THEOREM ManifestsHaveBaselines == ASSUME Locked PROVE InstallSpec => []ManifestHasBaseline
<1>1. IInv /\ DInv => ManifestHasBaseline
  BY DEF DInv, Named, Sound, ManifestHasBaseline, Manifest
<1> QED
  BY <1>1, Invariant, PTL

(* A transition that has loaded the manifest has the whole baseline, of its own
   configuration (lines 425 to 436). *)
THEOREM TransitionsMatchBaselines == ASSUME Locked PROVE InstallSpec => []TransitionsHaveBaseline
<1>1. IInv /\ DInv => TransitionsHaveBaseline
  BY DEF DInv, Stands, Sound, TransitionsHaveBaseline, Transitions
<1> QED
  BY <1>1, Invariant, PTL

(* The manifest that prepare() and the transitions write (checkpoint(), 172 to 176),
   beside everything else in the state directory, is one atomic record. *)
THEOREM ManifestsAreAtomic == ASSUME Locked PROVE InstallSpec => ImplementsRecord
<1>1. (IInv /\ DInv) /\ (IInv /\ DInv)' /\ [InstallNext]_all => [Record!Next]_(Record!recordVars)
  BY StepsWrite, StepsOfRecord DEF RecordStep
<1>2. InstallInit => Record!Init
  BY InitDInv, InitOfRecord
<1>3. InstallSpec => [](IInv /\ DInv)
  BY Invariant
<1> QED
  BY <1>1, <1>2, <1>3, PTL DEF InstallSpec, ImplementsRecord, Record!Spec, all

(************************************ policy ************************************)
InstallPlaces ==
    {"begin", "checked", "code", "more code", "config", "config cut", "unit", "unit cut", "policy",
     "policy read", "policy cut", "link", "ended"}

Backed == \E i \in Installers : archived[i] \in Complete

(* Whoever got past its backup found a complete policy, or the backup of another that
   had; and only those write the policy. *)
PInv ==
    /\ where \in [Installers -> InstallPlaces] /\ archived \in [Installers -> Texts \union {None}]
    /\ policy \in Texts /\ read \in [Installers -> Texts]
    /\ \A i \in Installers : where[i] \in {"begin", "checked"} => archived[i] = None
    /\ \A i \in Installers : where[i] \notin {"begin", "checked", "ended"} => Backed
    /\ policy \in Complete \/ Backed

LEMMA InitPInv == InstallInit => PInv
BY DEF InstallInit, PInv, InstallPlaces, Texts, Complete, Cut

(* A step that leaves backups and policy alone. *)
LEMMA StepsPInv ==
    ASSUME PInv, NEW i \in Installers, NEW from \in InstallPlaces, NEW to \in InstallPlaces,
           Step(i, from, to), UNCHANGED <<policy, read, archived>>,
           to \in {"begin", "checked"} => from \in {"begin", "checked"},
           to \in {"begin", "checked", "ended"} \/ from \notin {"begin", "checked", "ended"}
    PROVE  PInv'
<1>1. /\ where' \in [Installers -> InstallPlaces] /\ where'[i] = to /\ where[i] = from
      /\ \A j \in Installers \ {i} : where'[j] = where[j]
  BY DEF PInv, Step
<1>2. Backed => Backed'
  BY DEF Backed
<1> QED
  BY <1>1, <1>2 DEF PInv

LEMMA BacksUpPInv ==
    ASSUME PInv, NEW i \in Installers, BacksUp(i)
    PROVE  PInv'
<1>1. /\ where' \in [Installers -> InstallPlaces] /\ where'[i] = "code" /\ where[i] = "checked"
      /\ \A j \in Installers \ {i} : where'[j] = where[j]
      /\ archived' = [archived EXCEPT ![i] = policy] /\ UNCHANGED <<policy, read>>
  BY DEF PInv, Step, BacksUp, InstallPlaces
<1>2. archived[i] \notin Complete
  BY <1>1, TextsAssumption DEF PInv, Complete, Texts
<1>3. Backed'
  <2>1. CASE policy \in Complete
    BY <1>1, <2>1 DEF Backed, PInv
  <2>2. CASE Backed
    BY <1>1, <1>2, <2>2 DEF Backed, PInv
  <2> QED
    BY <2>1, <2>2 DEF PInv
<1>4. archived' \in [Installers -> Texts \union {None}]
  BY <1>1 DEF PInv
<1>5. \A j \in Installers : where'[j] \in {"begin", "checked"} => archived'[j] = None
  BY <1>1 DEF PInv
<1> QED
  BY <1>1, <1>3, <1>4, <1>5 DEF PInv

LEMMA WritesPolicyPInv ==
    ASSUME PInv, NEW i \in Installers, WritesPolicy(i)
    PROVE  PInv'
<1>1. /\ where[i] \notin {"begin", "checked", "ended"} /\ archived' = archived
      /\ where'[i] \notin {"begin", "checked", "ended"}
      /\ where' \in [Installers -> InstallPlaces]
      /\ \A j \in Installers \ {i} : where'[j] = where[j]
  BY DEF PInv, Step, WritesPolicy, InstallPlaces
<1>2. Backed /\ Backed'
  BY <1>1 DEF PInv, Backed
<1>3. policy' \in Texts /\ read' \in [Installers -> Texts]
  BY DEF PInv, Step, WritesPolicy, Texts, PolicyText
<1> QED
  BY <1>1, <1>2, <1>3 DEF PInv

LEMMA NextPInv ==
    ASSUME PInv, [InstallNext]_all
    PROVE  PInv'
<1>1. CASE UNCHANGED installVars
  BY <1>1 DEF installVars, PInv, Backed
<1>2. ASSUME NEW i \in Installers, InstallChecks(i)
      PROVE  PInv'
  BY <1>2, StepsPInv DEF InstallChecks, InstallPlaces
<1>3. ASSUME NEW i \in Installers,
             CopiesCode(i) \/ CopiesConfig(i) \/ WritesUnit(i) \/ Links(i)
      PROVE  PInv'
  BY <1>3, StepsPInv DEF CopiesCode, CopiesConfig, WritesUnit, Links, InstallPlaces
<1>4. ASSUME NEW i \in Installers, Stops(i)
      PROVE  PInv'
  BY <1>4, StepsPInv DEF Stops, InstallPlaces
<1> QED
  BY <1>1, <1>2, <1>3, <1>4, BacksUpPInv, WritesPolicyPInv DEF InstallNext, all

(* However many installations stop, follow one another or overlap, the settings of
   libvirt-guests are whole in place or in a backup (lines 101 to 106, 118). *)
THEOREM PoliciesAreKept == InstallSpec => []PolicyIsKept
<1>1. PInv => PolicyIsKept
  BY DEF PInv, Backed, PolicyIsKept
<1>2. PInv /\ [InstallNext]_all => PInv'
  BY NextPInv
<1> QED
  BY <1>1, <1>2, InitPInv, PTL DEF InstallSpec, all
================================================================================
