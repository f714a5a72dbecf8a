----------------------------- MODULE HostBootProofs ----------------------------
(* Links and boots, for any number of guests, runs of the helper, changes by others,
   boots and losses of power. *)
EXTENDS HostBoot, FiniteSetTheorems, TLAPS

(******************************** the links ***************************************)
Places == {"off", "metadata", "addresses", "links", "add", "up", "done", "failed"}

LinksTyped ==
    /\ links \subseteq Link
    /\ at \in [Runs -> Places]
    /\ \A l, m \in links : l.name = m.name \/ l.tag = m.tag => l = m

(* A run that goes on to set its link up has found or made it as specified; and so it
   stays, as others leave it alone. *)
RunsLinked ==
    \A r \in Runs :
        /\ at[r] = "up" => \E l \in links : l \in Specified(For[r])
        /\ at[r] = "done" => LinkUp(For[r])

LInv == LinksTyped /\ RunsLinked

(* Whatever happens while the host is up, a specified link stays, and stays up. *)
LinksStay ==
    \A g \in Guests :
        /\ (\E l \in links : l \in Specified(g)) => (\E l \in links' : l \in Specified(g))
        /\ (\E l \in links : l \in Specified(g) /\ l.up) => (\E l \in links' : l \in Specified(g) /\ l.up)

LEMMA RunsFor == ASSUME NEW r \in Runs PROVE For[r] \in Guests /\ For[r] # Other
BY RunsAssumption

LEMMA HelperKeeps ==
    ASSUME LInv, NEW r \in Runs, Begins(r) \/ RunsByHand(r) \/ HelperStep(r) \/ HelperDies(r)
    PROVE  /\ LInv' /\ LinksStay
           /\ links \ UNION {Specified(g) : g \in Guests} \subseteq links'
<1> USE DEF LInv
<1>r. For[r] \in Guests /\ For[r] # Other
  BY RunsFor
<1>1. CASE Begins(r) \/ RunsByHand(r) \/ ReadsMetadata(r) \/ ReadsAddresses(r) \/ HelperDies(r)
  BY <1>1, <1>r DEF Begins, RunsByHand, ReadsMetadata, ReadsAddresses, HelperDies, Goto, LinksTyped,
     RunsLinked, LinksStay, LinkUp, Places
<1>2. CASE ReadsLinks(r)
  <2>1. links' = links /\ at' = [at EXCEPT ![r] = Judges(For[r], addresses[r])]
    BY <1>2 DEF ReadsLinks, Goto
  <2>2. Judges(For[r], addresses[r]) \in {"failed", "add", "up"}
    BY DEF Judges
  <2>3. Judges(For[r], addresses[r]) = "up" => \E l \in links : l \in Specified(For[r])
    BY DEF Judges, Named
  <2>4. at' \in [Runs -> Places]
    BY <2>1, <2>2 DEF LinksTyped, Places
  <2>5. \A q \in Runs : at'[q] = IF q = r THEN Judges(For[r], addresses[r]) ELSE at[q]
    BY <2>1 DEF LinksTyped
  <2>6. RunsLinked'
    BY <2>1, <2>2, <2>3, <2>5 DEF RunsLinked, LinkUp
  <2> QED
    BY <2>1, <2>4, <2>6 DEF LinksTyped, LinksStay
<1>3. CASE Adds(r)
  <2> DEFINE l == [name |-> For[r], tag |-> For[r], right |-> TRUE, up |-> FALSE]
  <2>1. l \in Link /\ l \in Specified(For[r])
    BY <1>r DEF Link, Specified
  <2>2. CASE ~Free(l)
    BY <1>3, <2>2 DEF Adds, Goto, LinksTyped, RunsLinked, LinksStay, LinkUp, Places
  <2>3. CASE Free(l)
    <3>1. links' = links \union {l} /\ at' = [at EXCEPT ![r] = "up"]
      BY <1>3, <2>3 DEF Adds, Goto
    <3>2. LinksTyped'
      BY <3>1, <2>1, <2>3 DEF LinksTyped, Free, Places
    <3>3. RunsLinked'
      BY <3>1, <2>1 DEF RunsLinked, LinkUp, LinksTyped
    <3> QED
      BY <3>1, <3>2, <3>3 DEF LinksStay
  <2> QED
    BY <2>2, <2>3
<1>4. CASE SetsUp(r)
  <2> DEFINE Raised(l) == [l EXCEPT !.up = @ \/ l.name = For[r]]
  <2>1. links' = {Raised(l) : l \in links} /\ at[r] = "up"
    BY <1>4 DEF SetsUp
  <2>2. \A l \in links : /\ Raised(l) \in Link
                         /\ Raised(l).name = l.name /\ Raised(l).tag = l.tag
                         /\ Raised(l).right = l.right
                         /\ Raised(l).up = (l.up \/ l.name = For[r])
                         /\ l.name # For[r] => Raised(l) = l
    BY DEF LinksTyped, Link
  <2> HIDE DEF Raised
  <2>3. PICK own \in links : own \in Specified(For[r])
    BY <2>1 DEF RunsLinked
  <2>4. own.name = For[r]
    BY <2>3 DEF Specified
  <2>5. at' = [at EXCEPT ![r] = "done"]
    BY <1>4, <2>3, <2>4 DEF SetsUp, Goto, Named
  <2>6. \A g \in Guests, l \in links : l \in Specified(g) => Raised(l) \in Specified(g)
    BY <2>2 DEF Specified, LinksTyped, Link
  <2>7. LinksStay
    <3>1. \A g \in Guests, l \in links : l \in Specified(g) =>
             Raised(l) \in links' /\ Raised(l) \in Specified(g) /\ (l.up => Raised(l).up)
      BY <2>1, <2>2, <2>6
    <3> QED
      BY <3>1 DEF LinksStay
  <2>8. LinksTyped'
    <3>1. links' \subseteq Link /\ at' \in [Runs -> Places]
      BY <2>1, <2>2, <2>5 DEF LinksTyped, Places
    <3>2. ASSUME NEW l \in links, NEW m \in links,
                 Raised(l).name = Raised(m).name \/ Raised(l).tag = Raised(m).tag
          PROVE  l = m
      BY <3>2, <2>2 DEF LinksTyped
    <3>3. \A x, y \in links' : x.name = y.name \/ x.tag = y.tag => x = y
      BY <3>2, <2>1
    <3> QED
      BY <3>1, <3>3 DEF LinksTyped
  <2>9. LinkUp(For[r])'
    BY <2>1, <2>2, <2>3, <2>4, <2>6, <1>r DEF LinkUp
  <2>10. RunsLinked'
    BY <2>5, <2>7, <2>9, RunsFor DEF RunsLinked, LinksStay, LinkUp, LinksTyped
  <2>11. ASSUME NEW l \in links, l \notin UNION {Specified(g) : g \in Guests}
         PROVE  l \in links'
    <3>1. l.name # For[r]
      BY <2>3, <2>4, <2>11, <1>r DEF LinksTyped
    <3>2. Raised(l) = l
      BY <3>1, <2>2
    <3> QED
      BY <3>2, <2>1
  <2> QED
    BY <2>7, <2>8, <2>10, <2>11
<1> QED
  BY <1>1, <1>2, <1>3, <1>4 DEF HelperStep

LEMMA OthersKeep == ASSUME LInv, OthersChange PROVE LInv' /\ LinksStay /\ at' = at
<1> USE DEF LInv
<1>1. at' = at
  BY DEF OthersChange
<1>2. CASE \E l \in Link : Free(l) /\ links' = links \union {l}
  BY <1>1, <1>2, RunsFor DEF LinksTyped, RunsLinked, LinksStay, LinkUp, Free
<1>3. CASE \E l \in links : l \notin Specified(l.name) /\ links' = links \ {l}
  <2> PICK l \in links : l \notin Specified(l.name) /\ links' = links \ {l}
    BY <1>3
  <2>1. \A g \in Guests : l \notin Specified(g)
    BY DEF Specified
  <2>2. LinksStay
    BY <2>1 DEF LinksStay
  <2> QED
    BY <1>1, <2>2, RunsFor DEF LinksTyped, RunsLinked, LinksStay, LinkUp
<1>4. CASE links' = links
  BY <1>1, <1>4 DEF LinksTyped, RunsLinked, LinksStay, LinkUp
<1> QED
  BY <1>2, <1>3, <1>4 DEF OthersChange

LEMMA LinksAlone ==
    ASSUME LInv, UNCHANGED <<links, at>> PROVE LInv' /\ LinksStay
BY DEF LInv, LinksTyped, RunsLinked, LinksStay, LinkUp

(******************************** the scripts *************************************)
Words == {"checks", "claim", "save", "ask", "released", "restore", "verify",
          "stop", "start", "stop if active"}
Systemctl == {"stop", "start", "stop if active"}
Phases == {"starting", "starting-guests", "running", "stopping", "stopped",
           "normalizing-new-boot"}
(* What a stop may do, and what only a start does. *)
StopOp == (Systemctl \X {Fm, Client})
          \union ((Words \ (Systemctl \union {"checks", "claim"}))
                      \X (Guests \union {Guests} \union Units \union Phases))
Op == StopOp \union ({"launch"} \X Guests) \union ({"checks", "claim"} \X {Fm})

(* Every guest is asked, and every guest is launched, in some order. *)
LEMMA AskTyped == Ask \in Seq(StopOp) /\ Ask \in Seq(Op) /\ Launch \in Seq(Op)
<1> DEFINE IsOrder(s) == s \in [1 .. Cardinality(Guests) -> Guests] /\ {s[i] : i \in DOMAIN s} = Guests
<1> DEFINE order == CHOOSE s \in [1 .. Cardinality(Guests) -> Guests] : {s[i] : i \in DOMAIN s} = Guests
<1>1. Cardinality(Guests) \in Nat /\ ExistsBijection(1 .. Cardinality(Guests), Guests)
  BY HostGuestsAssumption, FS_CardinalityType
<1>2. \E s \in [1 .. Cardinality(Guests) -> Guests] : {s[i] : i \in DOMAIN s} = Guests
  <2> PICK s \in Bijection(1 .. Cardinality(Guests), Guests) : TRUE
    BY <1>1 DEF ExistsBijection
  <2> QED
    BY DEF Bijection, Injection, Surjection
<1>3. order \in [1 .. Cardinality(Guests) -> Guests]
  BY <1>2
<1> HIDE DEF order
<1>4. Ask = [i \in DOMAIN order |-> <<"ask", order[i]>>]
  BY DEF Ask, order
<1>5. Launch = [i \in DOMAIN order |-> <<"launch", order[i]>>]
  BY <1>4 DEF Launch
<1>6. \A i \in DOMAIN order : order[i] \in Guests
  BY <1>3
<1>7. Ask \in [1 .. Cardinality(Guests) -> StopOp] /\ StopOp \subseteq Op
  BY <1>3, <1>4, <1>6 DEF StopOp, Op, Words, Systemctl
<1>8. Launch \in [1 .. Cardinality(Guests) -> Op]
  BY <1>3, <1>5, <1>6 DEF Op
<1> QED
  BY <1>1, <1>7, <1>8

LEMMA FourInSeq ==
    ASSUME NEW S, NEW a \in S, NEW b \in S, NEW c \in S, NEW d \in S
    PROVE  /\ <<a>> \in Seq(S) /\ <<a, b>> \in Seq(S) /\ <<a, b, c>> \in Seq(S) /\ <<a, b, c, d>> \in Seq(S)
OBVIOUS

LEMMA SixInSeq ==
    ASSUME NEW S, NEW a \in S, NEW b \in S, NEW c \in S, NEW d \in S, NEW e \in S, NEW f \in S
    PROVE  <<a, b, c, d, e, f>> \in Seq(S)
OBVIOUS

LEMMA FirstOf ==
    ASSUME NEW S, NEW x \in S, NEW s \in Seq(S), NEW t \in Seq(S)
    PROVE  <<x>> \o s \o t \in Seq(S) /\ Head(<<x>> \o s \o t) = x /\ <<x>> \o s \o t # <<>>
<1>1. <<x>> \o s \in Seq(S) /\ Len(<<x>> \o s) = 1 + Len(s) /\ (<<x>> \o s)[1] = x
  OBVIOUS
<1> QED
  BY <1>1

LEMMA HeadOfBoth ==
    ASSUME NEW S, NEW s \in Seq(S), NEW t \in Seq(S), Len(s) > 0
    PROVE  Head(s \o t) = Head(s)
OBVIOUS

LEMMA OpsTyped ==
    /\ ClaimOps \in Seq(Op) /\ RestoreOps \in Seq(Op) /\ StopOps \in Seq(Op)
    /\ StopOps \in Seq(StopOp) /\ RestoreOps \in Seq(StopOp)
    /\ Head(StopOps) = <<"save", "stopping">> /\ StopOps # <<>>
<1>u. /\ Lifecycle \in Units /\ Fm \in Units /\ Client \in Units
  BY DEF Units
<1>1. /\ <<"save", "starting">> \in Op /\ <<"released", Guests>> \in Op
      /\ <<"stop if active", Client>> \in Op /\ <<"stop", Fm>> \in Op /\ <<"start", Fm>> \in Op
      /\ <<"save", "starting-guests">> \in Op /\ <<"verify", Guests>> \in Op
      /\ <<"save", "running">> \in Op /\ <<"save", "stopping">> \in Op /\ <<"restore", Fm>> \in Op
      /\ <<"save", "stopped">> \in Op /\ <<"start", Client>> \in Op
      /\ <<"save", "stopping">> \in StopOp /\ <<"released", Guests>> \in StopOp
      /\ <<"restore", Fm>> \in StopOp /\ <<"stop", Fm>> \in StopOp /\ <<"start", Fm>> \in StopOp
      /\ <<"save", "stopped">> \in StopOp
  BY <1>u DEF Op, StopOp, Systemctl, Words, Phases
<1> DEFINE a == <<<<"save", "starting">>>>
           b == <<<<"released", Guests>>, <<"stop if active", Client>>, <<"stop", Fm>>,
                  <<"start", Fm>>, <<"stop", Fm>>, <<"save", "starting-guests">>>>
           c == <<<<"verify", Guests>>, <<"save", "running">>>>
           d == <<<<"save", "stopping">>>>
           e == <<<<"released", Guests>>, <<"restore", Fm>>>>
<1>2. a \in Seq(Op) /\ b \in Seq(Op) /\ c \in Seq(Op) /\ d \in Seq(Op) /\ e \in Seq(Op)
      /\ e \in Seq(StopOp)
  BY <1>1, FourInSeq, SixInSeq
<1>3. ClaimOps = a \o Ask \o b \o Launch \o c
  BY DEF ClaimOps
<1>4. StopOps = d \o Ask \o e
  BY DEF StopOps
<1> HIDE DEF a, b, c, e
<1>6. ClaimOps \in Seq(Op)
  BY <1>2, <1>3, AskTyped
<1>7. /\ StopOps \in Seq(Op) /\ StopOps \in Seq(StopOp)
      /\ Head(StopOps) = <<"save", "stopping">> /\ StopOps # <<>>
  <2> DEFINE x == <<"save", "stopping">>
  <2>1. x \in Op /\ x \in StopOp /\ StopOps = <<x>> \o Ask \o e
    BY <1>1, <1>4
  <2> HIDE DEF x
  <2>2. StopOps \in Seq(Op) /\ StopOps \in Seq(StopOp) /\ Head(StopOps) = x /\ StopOps # <<>>
    BY <1>2, <2>1, AskTyped, FirstOf
  <2> QED
    BY <2>2 DEF x
<1>10. <<IF service THEN "start" ELSE "stop if active", Client>> \in StopOp /\ StopOp \subseteq Op
  BY <1>u DEF Op, StopOp, Systemctl, Words
<1>11. RestoreOps \in Seq(Op) /\ RestoreOps \in Seq(StopOp)
  BY <1>1, <1>10, FourInSeq DEF RestoreOps
<1> QED
  BY <1>6, <1>7, <1>11

(******************************* the invariant ************************************)
UnitStates == {"inactive", "activating", "active", "deactivating"}

BootTyped ==
    /\ unit \in [Units -> UnitStates] /\ script \in Seq(Op) /\ running \subseteq Guests

(* Nothing is left of a host that is off. *)
OffIsOff ==
    phase = "off" =>
        /\ \A u \in Units : unit[u] = "inactive" /\ job[u] = "none"
        /\ script = <<>> /\ waiting = None /\ running = {}

(* The manager runs while its unit starts or stops, and waits only in systemctl. *)
ManagerInUnit ==
    /\ unit[Lifecycle] \in {"inactive", "active"} => script = <<>>
    /\ waiting # None => script # <<>> /\ Head(script)[1] \in Systemctl

(* A net unit that is active has its link; the manager that has checked the net units
   has them all. *)
UnitsLinked ==
    /\ \A g \in Guests : unit[g] = "active" => LinkUp(g)
    /\ unit[Lifecycle] # "inactive" =>
           \/ script # <<>> /\ Head(script)[1] = "checks"
           \/ \A g \in Guests : LinkUp(g)

(* Before the manager writes the manifest in a boot, it starts no guest. *)
FreshBoot ==
    ~thisBoot => running = {} /\ (script # <<>> => Head(script)[1] \in {"checks", "save"})

BInv == /\ LInv /\ BootTyped /\ OffIsOff /\ ManagerInUnit /\ UnitsLinked /\ GuestsHaveLinks
        /\ FreshBoot

LEMMA InitBInv == BootInit => BInv
<1> SUFFICES ASSUME BootInit PROVE BInv
  OBVIOUS
<1>1. LInv
  BY DEF BootInit, LinkInit, LInv, LinksTyped, RunsLinked, Places
<1>2. Lifecycle \in Units /\ \A g \in Guests : g \in Units
  BY DEF Units
<1> QED
  BY <1>1, <1>2 DEF BootInit, BInv, BootTyped, UnitStates, OffIsOff, ManagerInUnit, UnitsLinked,
     GuestsHaveLinks, FreshBoot

(* What a step of the manager does to its script, its unit and the guests. *)
Ends == script' = <<>> /\ waiting' = None /\ unit' = [unit EXCEPT ![Lifecycle] = "inactive"]
GoesOn ==
    /\ unit' = unit /\ script' \in Seq(Op)
    /\ waiting' # None => script' = script /\ Head(script)[1] \in Systemctl
    /\ Head(script)[1] = "checks" => \A g \in Guests : LinkUp(g)
Effect ==
    /\ script # <<>>
    /\ Ends \/ GoesOn
    /\ \A g \in running' \ running : g \in Guests /\ LinkUp(g)
    /\ FreshBoot'

LEMMA ManagerEffect ==
    ASSUME BInv, ManagerStep \/ ManagerFails
    PROVE  Effect
<1> USE DEF BInv
<1>0. script # <<>>
  BY DEF ManagerStep, StartChecks, StartClaims, Saves, Asks, Released, Restores, Launches, Verifies,
     SystemctlQueues, SystemctlReturns, Doing, ManagerFails, ManagerInUnit
<1>1. /\ Head(script) \in Op /\ Tail(script) \in Seq(Op)
      /\ Head(script)[1] \in Words \/ (Head(script)[1] = "launch" /\ Head(script)[2] \in Guests)
  <2>1. Head(script) \in Op /\ Tail(script) \in Seq(Op)
    BY <1>0 DEF BootTyped
  <2> QED
    BY <2>1 DEF Op, StopOp, Systemctl, Words
<1>2. Fails => Ends
  BY DEF Fails, Raises, UnitFails, Ends
<1>3. ASSUME Proceeds, UNCHANGED unit, Head(script)[1] # "checks"
      PROVE  GoesOn
  BY <1>1, <1>3 DEF Proceeds, GoesOn
<1>4. ASSUME NEW ops \in Seq(Op), Continues(ops), UNCHANGED unit,
             Head(script)[1] = "checks" => \A g \in Guests : LinkUp(g)
      PROVE  GoesOn
  BY <1>1, <1>4 DEF Continues, GoesOn
<1>5. ASSUME thisBoot' = thisBoot, running' = running,
             thisBoot \/ script' = <<>> \/ script' = script
      PROVE  FreshBoot'
  BY <1>5 DEF FreshBoot
<1>6. ~thisBoot => Head(script)[1] \in {"checks", "save"}
  BY <1>0 DEF FreshBoot
<1>a. CASE StartChecks
  <2> DEFINE ops1 == <<<<"verify", Guests>>>>
             ops2 == <<<<"save", "normalizing-new-boot">>, <<"restore", Fm>>, <<"claim", Fm>>>>
             ops3 == <<<<"claim", Fm>>>>
             ready == \A u \in Guests \union {Libvirtd} : unit[u] = "active"
  <2>1. ops1 \in Seq(Op) /\ ops2 \in Seq(Op) /\ ops3 \in Seq(Op)
    <3>1. /\ <<"verify", Guests>> \in Op /\ <<"save", "normalizing-new-boot">> \in Op
          /\ <<"restore", Fm>> \in Op /\ <<"claim", Fm>> \in Op
      BY DEF Op, StopOp, Systemctl, Words, Phases, Units
    <3> QED
      BY <3>1, FourInSeq
  <2>2. Head(ops2)[1] = "save" /\ Len(ops2) = 3
    OBVIOUS
  <2>3. ready => \A g \in Guests : LinkUp(g)
    BY DEF UnitsLinked
  <2>4. \/ ready /\ Continues(ops1) /\ thisBoot /\ UNCHANGED unit
        \/ ready /\ Continues(ops2) /\ UNCHANGED unit
        \/ ready /\ Continues(ops3) /\ thisBoot /\ UNCHANGED unit
        \/ Fails
    BY <1>a DEF StartChecks
  <2>5. running' = running /\ thisBoot' = thisBoot
    BY <1>a DEF StartChecks
  <2> HIDE DEF ops1, ops2, ops3, ready
  <2>6. CASE Fails
    BY <1>0, <1>2, <1>5, <2>5, <2>6 DEF Effect, Ends
  <2>7. CASE ready /\ Continues(ops1) /\ thisBoot /\ UNCHANGED unit
    BY <1>0, <1>4, <1>5, <2>1, <2>3, <2>5, <2>7 DEF Effect
  <2>8. CASE ready /\ Continues(ops3) /\ thisBoot /\ UNCHANGED unit
    BY <1>0, <1>4, <1>5, <2>1, <2>3, <2>5, <2>8 DEF Effect
  <2>9. CASE ready /\ Continues(ops2) /\ UNCHANGED unit
    <3>1. GoesOn
      BY <1>4, <2>1, <2>3, <2>9
    <3>2. script' = ops2 \o Tail(script)
      BY <2>9 DEF Continues
    <3>3. Head(script') = Head(ops2)
      <4>1. ops2 \in Seq(Op) /\ Tail(script) \in Seq(Op) /\ Len(ops2) > 0
        BY <2>1, <2>2, <1>1
      <4>2. Head(ops2 \o Tail(script)) = Head(ops2)
        BY ONLY <4>1, HeadOfBoth
      <4> QED
        BY <3>2, <4>2
    <3>4. FreshBoot'
      BY <3>3, <2>2, <2>5 DEF FreshBoot
    <3> QED
      BY <1>0, <2>5, <3>1, <3>4 DEF Effect
  <2> QED
    BY <2>4, <2>6, <2>7, <2>8, <2>9
<1>b. CASE StartClaims
  <2>1. thisBoot /\ Head(script)[1] = "claim"
    BY <1>b, <1>6 DEF StartClaims, Doing
  <2>2. Ends \/ GoesOn
    BY <1>b, <1>2, <1>4, <2>1, OpsTyped DEF StartClaims
  <2> QED
    BY <1>b, <1>0, <1>5, <2>1, <2>2 DEF StartClaims, Effect
<1>c. CASE Saves
  BY <1>c, <1>0, <1>3 DEF Saves, Doing, Effect, FreshBoot
<1>d. CASE Asks
  <2>1. thisBoot /\ Head(script)[1] = "ask" /\ waiting = None
    BY <1>d, <1>6 DEF Asks, Doing
  <2>2. CASE UNCHANGED <<script, waiting, unit, job>>
    BY <1>d, <1>0, <1>5, <2>1, <2>2 DEF Asks, Effect, GoesOn, BootTyped
  <2>3. CASE Fails \/ (Proceeds /\ UNCHANGED <<unit, job>>)
    BY <1>d, <1>0, <1>2, <1>3, <1>5, <2>1, <2>3 DEF Asks, Effect
  <2> QED
    BY <1>d, <2>2, <2>3 DEF Asks
<1>e. CASE Released
  BY <1>e, <1>0, <1>2, <1>3, <1>5, <1>6 DEF Released, Doing, Effect
<1>f. CASE Restores
  <2>1. thisBoot /\ Head(script)[1] = "restore"
    BY <1>f, <1>6 DEF Restores, Doing
  <2>2. <<<<"save", "stopped">>>> \in Seq(Op)
    <3>1. <<"save", "stopped">> \in Op
      BY DEF Op, StopOp, Systemctl, Words, Phases
    <3> QED
      BY <3>1, FourInSeq
  <2> DEFINE saving == <<<<"save", "stopped">>>>
  <2>3. \/ Continues(RestoreOps) /\ UNCHANGED unit
        \/ Continues(saving) /\ UNCHANGED unit
        \/ Fails
    BY <1>f DEF Restores
  <2> HIDE DEF saving
  <2>4. saving \in Seq(Op)
    BY <2>2 DEF saving
  <2>5. Ends \/ GoesOn
    BY <1>2, <1>4, <2>1, <2>3, <2>4, OpsTyped
  <2> QED
    BY <1>f, <1>0, <1>5, <2>1, <2>5 DEF Restores, Effect
<1>g. CASE Launches
  <2>1. thisBoot /\ Head(script)[1] = "launch" /\ Head(script)[2] \in Guests
    BY <1>g, <1>1, <1>6 DEF Launches, Doing, Words
  <2>2. \A g \in Guests : LinkUp(g)
    BY <2>1, <1>0 DEF ManagerInUnit, UnitsLinked
  <2> QED
    BY <1>g, <1>0, <1>2, <1>3, <2>1, <2>2 DEF Launches, Effect, FreshBoot, Object
<1>h. CASE Verifies
  BY <1>h, <1>0, <1>2, <1>3, <1>5, <1>6 DEF Verifies, Doing, Effect
<1>i. CASE SystemctlQueues
  <2>1. thisBoot /\ Head(script)[1] \in Systemctl /\ waiting = None
    BY <1>i, <1>6 DEF SystemctlQueues, Doing, Systemctl
  <2>2. \/ Proceeds /\ UNCHANGED unit
        \/ Fails
        \/ UNCHANGED <<unit, script>>
    BY <1>i DEF SystemctlQueues
  <2>3. Ends \/ GoesOn
    BY <1>2, <1>3, <2>1, <2>2 DEF GoesOn, Systemctl, BootTyped
  <2> QED
    BY <1>i, <1>0, <1>5, <2>1, <2>3 DEF SystemctlQueues, Effect
<1>j. CASE SystemctlReturns
  <2>1. thisBoot /\ Head(script)[1] \in Systemctl
    BY <1>j, <1>6 DEF SystemctlReturns, ManagerInUnit, Systemctl
  <2> QED
    BY <1>j, <1>0, <1>2, <1>3, <1>5, <2>1 DEF SystemctlReturns, Effect, Systemctl
<1>k. CASE ManagerFails
  BY <1>k, <1>0, <1>2, <1>5 DEF ManagerFails, Effect, Ends
<1> QED
  BY <1>a, <1>b, <1>c, <1>d, <1>e, <1>f, <1>g, <1>h, <1>i, <1>j, <1>k DEF ManagerStep

LEMMA UnitNames ==
    /\ Lifecycle \in Units /\ Libvirtd \in Units /\ LibvirtGuests \in Units
    /\ \A g \in Guests : /\ g \in Units /\ g \in Runs /\ For[g] = g
                         /\ g # Lifecycle /\ g # LibvirtGuests
    /\ Lifecycle # LibvirtGuests
BY NetUnitsAssumption, HostGuestsAssumption DEF Units, Lifecycle, LibvirtGuests

(* Steps that leave the links alone, or only improve them, and leave the rest of the
   host as it is. *)
LEMMA LinkStepsKeep ==
    ASSUME BInv, LInv', LinksStay, phase # "off", UNCHANGED hostVars
    PROVE  BInv'
<1>1. \A g \in Guests : LinkUp(g) => LinkUp(g)'
  BY DEF LinksStay, LinkUp
<1> QED
  BY <1>1 DEF BInv, hostVars, BootTyped, OffIsOff, ManagerInUnit, UnitsLinked, GuestsHaveLinks, FreshBoot

LEMMA ManagerKeeps ==
    ASSUME BInv, Effect, UNCHANGED <<linkVars, phase>>
    PROVE  BInv'
<1> USE DEF BInv
<1>1. LInv' /\ \A g \in Guests : LinkUp(g)' <=> LinkUp(g)
  BY LinksAlone DEF linkVars, LinkUp
<1>2. script # <<>> /\ unit[Lifecycle] \in {"activating", "deactivating"} /\ phase # "off"
  BY UnitNames DEF Effect, ManagerInUnit, OffIsOff, BootTyped, UnitStates
<1>3. BootTyped' /\ ManagerInUnit'
  <2>1. CASE Ends
    BY <2>1, <1>2, UnitNames DEF Ends, Effect, BootTyped, ManagerInUnit, UnitStates
  <2>2. CASE GoesOn
    BY <2>2, <1>2 DEF GoesOn, Effect, BootTyped, ManagerInUnit
  <2> QED
    BY <2>1, <2>2 DEF Effect
<1>4. UnitsLinked'
  <2>1. CASE Ends
    BY <2>1, <1>1, UnitNames DEF Ends, UnitsLinked, BootTyped
  <2>2. CASE GoesOn
    BY <2>2, <1>1, <1>2 DEF GoesOn, UnitsLinked
  <2> QED
    BY <2>1, <2>2 DEF Effect
<1>5. OffIsOff' /\ FreshBoot'
  BY <1>2 DEF Effect, OffIsOff
<1>6. GuestsHaveLinks'
  BY <1>1 DEF Effect, GuestsHaveLinks, BootTyped
<1> QED
  BY <1>1, <1>3, <1>4, <1>5, <1>6

LEMMA StartsKeeps == ASSUME BInv, NEW u \in Units, Starts(u) PROVE BInv'
<1> USE DEF BInv
<1>0. /\ phase' = phase /\ waiting' = waiting /\ thisBoot' = thisBoot /\ phase # "off"
      /\ unit[u] = "inactive"
  BY DEF Starts, MayStart, OffIsOff
<1>1. /\ \/ \E l \in {"none", "start"}, s \in {"inactive", "activating", "active"} : Becomes(u, s, l)
      /\ \/ UNCHANGED linkVars
         \/ u \in Guests /\ Begins(u) /\ Becomes(u, "activating", "start")
      /\ running' = running
      /\ \/ script' = script /\ (u = Lifecycle => unit'[u] = "inactive")
         \/ u = Lifecycle /\ script' = <<<<"checks", Fm>>>> /\ unit'[u] = "activating"
      /\ u \in Guests => unit'[u] # "active"
  BY UnitNames DEF Starts, Becomes, BootTyped, OnBoot
<1>2. LInv' /\ LinksStay
  <2>1. CASE UNCHANGED linkVars
    BY <2>1, LinksAlone DEF linkVars
  <2>2. CASE u \in Guests /\ Begins(u)
    BY <2>2, UnitNames, HelperKeeps
  <2> QED
    BY <1>1, <2>1, <2>2
<1>3. \A g \in Guests : LinkUp(g) => LinkUp(g)'
  BY <1>2 DEF LinksStay, LinkUp
<1>4. <<<<"checks", Fm>>>> \in Seq(Op) /\ Head(<<<<"checks", Fm>>>>)[1] = "checks"
  <2>1. <<"checks", Fm>> \in Op
    BY DEF Op, StopOp, Systemctl, Words, Units
  <2> QED
    BY <2>1, FourInSeq
<1>5. /\ unit' \in [Units -> UnitStates]
      /\ \A v \in Units \ {u} : unit'[v] = unit[v]
  BY <1>1 DEF Becomes, BootTyped, UnitStates
<1>6. BootTyped'
  BY <1>1, <1>4, <1>5 DEF BootTyped
<1>7. ManagerInUnit' /\ FreshBoot' /\ OffIsOff'
  BY <1>0, <1>1, <1>4, <1>5, UnitNames DEF ManagerInUnit, FreshBoot, OffIsOff
<1>8. UnitsLinked' /\ GuestsHaveLinks'
  BY <1>0, <1>1, <1>3, <1>4, <1>5, UnitNames DEF UnitsLinked, GuestsHaveLinks, BootTyped
<1> QED
  BY <1>2, <1>6, <1>7, <1>8

LEMMA StartedKeeps == ASSUME BInv, NEW u \in Units, Started(u) PROVE BInv'
<1> USE DEF BInv
<1>0. /\ UNCHANGED <<linkVars, phase, script, waiting, thisBoot, running>>
      /\ unit[u] = "activating" /\ phase # "off"
  BY DEF Started, OffIsOff
<1>1. LInv' /\ \A g \in Guests : LinkUp(g)' <=> LinkUp(g)
  BY <1>0, LinksAlone DEF linkVars, LinkUp
<1>2. \/ u \in Guests /\ at[u] = "done" /\ unit' = [unit EXCEPT ![u] = "active"]
      \/ u \in Guests /\ unit' = [unit EXCEPT ![u] = "inactive"]
      \/ u = Lifecycle /\ script = <<>> /\ unit' = [unit EXCEPT ![u] = "active"]
  BY DEF Started, Becomes
<1>3. u \in Guests /\ at[u] = "done" => LinkUp(u)
  BY UnitNames DEF LInv, RunsLinked
<1>4. unit' \in [Units -> UnitStates] /\ \A v \in Units \ {u} : unit'[v] = unit[v]
  BY <1>2 DEF BootTyped, UnitStates
<1>5. BootTyped' /\ ManagerInUnit' /\ FreshBoot' /\ OffIsOff' /\ GuestsHaveLinks'
  BY <1>0, <1>1, <1>2, <1>4, UnitNames DEF BootTyped, ManagerInUnit, FreshBoot, OffIsOff, GuestsHaveLinks
<1>6. UnitsLinked'
  BY <1>0, <1>1, <1>2, <1>3, <1>4, UnitNames DEF UnitsLinked, BootTyped
<1> QED
  BY <1>1, <1>5, <1>6

LEMMA StopsKeeps == ASSUME BInv, NEW u \in Units, Stops(u) \/ Stopped(u) PROVE BInv'
<1> USE DEF BInv
<1>0. /\ phase' = phase /\ running' = running /\ thisBoot' = thisBoot /\ phase # "off"
  BY DEF Stops, Stopped, MayStop, OffIsOff
<1>1. /\ \E s \in {"inactive", "deactivating"} : unit' = [unit EXCEPT ![u] = s]
      /\ u \in Guests => unit'[u] # "active"
      /\ u # Lifecycle => script' = script /\ waiting' = waiting
      /\ u = Lifecycle =>
             \/ /\ unit[u] = "active" /\ script' = StopOps /\ waiting' = waiting
                /\ unit'[u] = "deactivating"
             \/ unit'[u] = "inactive" /\ script' = <<>> /\ waiting' = None
             \/ unit'[u] = "inactive" /\ script' = script /\ script = <<>> /\ waiting' = waiting
  <2>1. CASE Stopped(u)
    BY <2>1, UnitNames DEF Stopped, Becomes, BootTyped
  <2>2. CASE Stops(u) /\ u = Lifecycle
    BY <2>2, UnitNames DEF Stops, Becomes, BootTyped, UnitStates, Fails, Raises, UnitFails
  <2>3. CASE Stops(u) /\ u # Lifecycle
    BY <2>3, UnitNames DEF Stops, Becomes, BootTyped, UnitStates
  <2> QED
    BY <2>1, <2>2, <2>3
<1>2. LInv' /\ LinksStay
  <2>1. UNCHANGED linkVars \/ (u \in Guests /\ HelperDies(u))
    BY UnitNames DEF Stops, Stopped
  <2> QED
    BY <2>1, LinksAlone, UnitNames, HelperKeeps DEF linkVars
<1>3. \A g \in Guests : LinkUp(g) => LinkUp(g)'
  BY <1>2 DEF LinksStay, LinkUp
<1>4. unit' \in [Units -> UnitStates] /\ \A v \in Units \ {u} : unit'[v] = unit[v]
  BY <1>1 DEF BootTyped, UnitStates
<1>5. BootTyped'
  <2>1. <<>> \in Seq(Op)
    OBVIOUS
  <2>2. script' = script \/ script' = StopOps \/ script' = <<>>
    BY <1>1
  <2> QED
    BY <1>0, <1>4, <2>1, <2>2, OpsTyped DEF BootTyped
<1>6. ManagerInUnit' /\ FreshBoot' /\ OffIsOff'
  <2>1. ManagerInUnit'
    BY <1>1, <1>4, OpsTyped, UnitNames DEF ManagerInUnit
  <2>2. FreshBoot'
    BY <1>0, <1>1, OpsTyped DEF FreshBoot
  <2> QED
    BY <1>0, <2>1, <2>2 DEF OffIsOff
<1>7. UnitsLinked' /\ GuestsHaveLinks'
  BY <1>0, <1>1, <1>3, <1>4, UnitNames DEF UnitsLinked, GuestsHaveLinks, ManagerInUnit, BootTyped
<1> QED
  BY <1>2, <1>5, <1>6, <1>7

LEMMA PowersOffKeeps == ASSUME BInv, PowersOff PROVE BInv'
<1>1. LInv'
  BY DEF PowersOff, LInv, LinksTyped, RunsLinked, Places
<1> QED
  BY <1>1, UnitNames DEF PowersOff, BInv, BootTyped, UnitStates, OffIsOff, ManagerInUnit, UnitsLinked,
     GuestsHaveLinks, FreshBoot

LEMMA BootsKeeps == ASSUME BInv, Boots PROVE BInv'
<1> USE DEF BInv
<1>1. LInv' /\ \A g \in Guests : LinkUp(g)' <=> LinkUp(g)
  BY LinksAlone DEF Boots, linkVars, LinkUp
<1> QED
  BY <1>1, UnitNames DEF Boots, BootTyped, OffIsOff, ManagerInUnit, UnitsLinked,
     GuestsHaveLinks, FreshBoot

LEMMA NextBInv == BInv /\ [BootNext]_bootVars => BInv'
<1> SUFFICES ASSUME BInv, [BootNext]_bootVars PROVE BInv'
  OBVIOUS
<1>1. CASE ManagerStep
  BY <1>1, ManagerEffect, ManagerKeeps DEF ManagerStep
<1>2. CASE ManagerFails /\ UNCHANGED <<linkVars, phase, suspended, service, boots>>
  BY <1>2, ManagerEffect, ManagerKeeps
<1>3. CASE SystemdStep
  BY <1>3, StartsKeeps, StartedKeeps, StopsKeeps DEF SystemdStep
<1>4. CASE PowersOff
  BY <1>4, PowersOffKeeps
<1>5. CASE Boots
  BY <1>5, BootsKeeps
<1>6. CASE HelperRuns
  BY <1>6, HelperKeeps, LinkStepsKeep DEF HelperRuns, BInv
<1>7. CASE phase # "off" /\ OthersChange /\ UNCHANGED hostVars
  BY <1>7, OthersKeep, LinkStepsKeep DEF BInv
<1>8. CASE GuestPowersOff \/ Operates \/ ShutsDown \/ UNCHANGED bootVars
  <2>1. /\ UNCHANGED <<links, at, unit, script, waiting, thisBoot>> /\ running' \subseteq running
        /\ phase' = "off" => phase = "off" /\ \A u \in Units : job'[u] = job[u]
    BY <1>8 DEF GuestPowersOff, Operates, ShutsDown, bootVars, linkVars, hostVars
  <2>2. LInv' /\ \A g \in Guests : LinkUp(g)' <=> LinkUp(g)
    BY <2>1, LinksAlone DEF LinkUp, BInv
  <2> QED
    BY <2>1, <2>2 DEF BInv, BootTyped, OffIsOff, ManagerInUnit, UnitsLinked, GuestsHaveLinks, FreshBoot
<1> QED
  BY <1>1, <1>2, <1>3, <1>4, <1>5, <1>6, <1>7, <1>8 DEF BootNext

LEMMA BootInvariant == BootSpec => []BInv
BY InitBInv, NextBInv, PTL DEF BootSpec

(* A guest that runs has the link of its own VNIC, made as specified and up, whatever
   runs of the helper were killed or overlapped and in whatever order units, operators
   and losses of power came (start() 589, network_files). *)
THEOREM GuestsRunOnTheirLinks == BootSpec => []GuestsHaveLinks
<1>1. BInv => GuestsHaveLinks
  BY DEF BInv
<1> QED
  BY <1>1, BootInvariant, PTL

(* The first start() of a boot finds no guest running (598 to 604). *)
THEOREM NoGuestBeforeStart == BootSpec => []BootFindsGuestsOff
<1>1. BInv => BootFindsGuestsOff
  BY DEF BInv, FreshBoot, BootFindsGuestsOff
<1> QED
  BY <1>1, BootInvariant, PTL

(* No run of the helper changes a link that is not the one specified: what it sets up
   is what it found or made, although it looked before it acted (ensure-vnic-link.sh
   61 to 82). *)
THEOREM OnlySpecifiedLinksChange == BootSpec => ForeignLinksUntouched
<1> DEFINE Foreign == links \ UNION {Specified(g) : g \in Guests}
           Moves == \E r \in Runs : at'[r] \notin {at[r], "off"}
<1>1. ASSUME BInv, [BootNext]_bootVars, Moves PROVE Foreign \subseteq links'
  <2>1. CASE links' = links
    BY <2>1
  <2>2. CASE HelperRuns
    <3>1. PICK r \in Runs : HelperStep(r) \/ HelperDies(r) \/ RunsByHand(r)
      BY <2>2 DEF HelperRuns
    <3> QED
      BY <1>1, <3>1, HelperKeeps DEF BInv
  <2>3. CASE PowersOff
    BY <1>1, <2>3 DEF PowersOff
  <2>4. CASE OthersChange
    BY <1>1, <2>4, OthersKeep DEF BInv
  <2>5. CASE SystemdStep
    BY <2>5, UnitNames DEF SystemdStep, Starts, Started, Stops, Stopped, Begins, HelperDies, linkVars
  <2> QED
    BY <1>1, <2>1, <2>2, <2>3, <2>4, <2>5 DEF BootNext, bootVars, linkVars, ManagerStep, GuestPowersOff,
       Operates, ShutsDown, Boots
<1>2. BInv /\ [BootNext]_bootVars => [Moves => Foreign \subseteq links']_linkVars
  BY <1>1
<1> QED
  BY <1>2, BootInvariant, PTL DEF BootSpec, ForeignLinksUntouched

(************************** guests are asked to power off *************************)
Jobs == {"none", "start", "stop"}

(* A host that shuts down starts nothing and stops all that is not down; libvirtd is
   stopped by nothing else; with libvirt-guests goes the lifecycle unit. *)
JobsKnown ==
    /\ job \in [Units -> Jobs]
    /\ phase = "shutting" =>
           \A u \in Units : job[u] # "start" /\ (unit[u] # "inactive" => job[u] = "stop")
    /\ job[Libvirtd] = "stop" => phase = "shutting"
    /\ job[LibvirtGuests] = "stop" /\ unit[Lifecycle] \in {"activating", "active"} =>
           job[Lifecycle] = "stop"

(* Guests are launched while libvirt-guests is there to ask them; who stops them has
   asked them. *)
Watched ==
    /\ unit[LibvirtGuests] # "active" => running \subseteq asked
    /\ unit[Libvirtd] # "active" => running \subseteq asked
    /\ unit[Lifecycle] = "activating" => unit[LibvirtGuests] = "active"
    /\ unit[Lifecycle] = "deactivating" => script \in Seq(StopOp)

AInv == BInv /\ JobsKnown /\ Watched

LEMMA MoreNames ==
    /\ Fm \in Units /\ Client \in Units
    /\ Lifecycle \notin {Fm, Client, Libvirtd, LibvirtGuests}
    /\ Libvirtd \notin {Fm, Client, LibvirtGuests} /\ LibvirtGuests \notin {Fm, Client}
    /\ \A g \in Guests : g \notin {Libvirtd, LibvirtGuests, Lifecycle, Fm, Client}
    /\ LibvirtGuests \in After[Lifecycle] /\ Libvirtd \in After[LibvirtGuests]
BY HostGuestsAssumption DEF Units, Lifecycle, Fm, Client, Libvirtd, LibvirtGuests, After

LEMMA InitAInv == BootInit => AInv
<1> SUFFICES ASSUME BootInit PROVE AInv
  OBVIOUS
<1>1. job \in [Units -> Jobs] /\ \A u \in Units : job[u] # "stop" /\ unit[u] = "inactive"
  BY DEF BootInit, BootJobs, Jobs
<1> QED
  BY <1>1, InitBInv, UnitNames, MoreNames DEF BootInit, AInv, JobsKnown, Watched

(* What a step of the manager does to jobs, and what it does while the unit stops. *)
JobEffect ==
    \/ job' = job
    \/ \E u \in {Fm, Client}, j \in Jobs :
          /\ job' = [job EXCEPT ![u] = j]
          /\ phase = "shutting" => j # "start" /\ (unit[u] # "inactive" => j = "stop")
    \/ job' = [job EXCEPT ![Lifecycle] = "none"] /\ unit' = [unit EXCEPT ![Lifecycle] = "inactive"]

StopEffect ==
    /\ asked \subseteq asked'
    /\ script \in Seq(StopOp) => script' \in Seq(StopOp) /\ running' \subseteq running

LEMMA ManagerJobs ==
    ASSUME AInv, ManagerStep \/ ManagerFails
    PROVE  JobEffect
<1> USE DEF AInv, JobsKnown
<1>1. Fails => JobEffect
  BY DEF Fails, UnitFails, JobEffect
<1>2. CASE SystemctlQueues
  <2>1. script # <<>> /\ Head(script) \in Op /\ Head(script)[1] \in Systemctl
    <3>1. script # <<>> /\ Head(script)[1] \in Systemctl
      BY <1>2 DEF SystemctlQueues, Doing, Systemctl
    <3>2. script \in Seq(Op)
      BY DEF BInv, BootTyped
    <3> QED
      BY <3>1, <3>2
  <2>2. Head(script)[2] \in {Fm, Client}
    BY <2>1 DEF Op, StopOp, Systemctl, Words
  <2> DEFINE want == IF Doing("start") THEN "start" ELSE "stop"
  <2>3. \/ job' = job \/ Fails
        \/ /\ want = "start" /\ phase # "shutting"
           /\ job' = [job EXCEPT ![Object] = "none"]
        \/ job' = [job EXCEPT ![Object] = want] /\ ~(want = "start" /\ phase = "shutting")
    BY <1>2 DEF SystemctlQueues
  <2>4. want \in {"start", "stop"}
    OBVIOUS
  <2> HIDE DEF want
  <2> QED
    BY <1>1, <2>2, <2>3, <2>4 DEF JobEffect, Object, Jobs
<1>3. CASE ~SystemctlQueues
  BY <1>1, <1>3 DEF ManagerStep, ManagerFails, StartChecks, StartClaims, Saves, Asks, Released, Restores,
     Launches, Verifies, SystemctlReturns, JobEffect
<1> QED
  BY <1>2, <1>3

LEMMA ManagerStops ==
    ASSUME AInv, ManagerStep \/ ManagerFails
    PROVE  StopEffect
<1> USE DEF AInv, BInv
<1>1. asked \subseteq asked'
  BY DEF ManagerStep, ManagerFails, StartChecks, StartClaims, Saves, Asks, Released, Restores, Launches,
     Verifies, SystemctlQueues, SystemctlReturns
<1>2. ASSUME script \in Seq(StopOp)
      PROVE  script' \in Seq(StopOp) /\ running' \subseteq running
  <2>1. script # <<>>
    BY ManagerEffect DEF Effect
  <2>2. Head(script)[1] \notin {"checks", "claim", "launch"} /\ Tail(script) \in Seq(StopOp)
        /\ <<>> \in Seq(StopOp)
    <3>1. Head(script) \in StopOp /\ Tail(script) \in Seq(StopOp) /\ <<>> \in Seq(StopOp)
      BY <1>2, <2>1
    <3> QED
      BY <3>1 DEF StopOp, Systemctl, Words
  <2>3. ~StartChecks /\ ~StartClaims /\ ~Launches
    BY <2>2 DEF StartChecks, StartClaims, Launches, Doing
  <2>4. running' = running
    BY <2>3 DEF ManagerStep, ManagerFails, Saves, Asks, Released, Restores, Verifies,
       SystemctlQueues, SystemctlReturns
  <2>5. Fails \/ Proceeds \/ script' = script => script' \in Seq(StopOp)
    BY <1>2, <2>2 DEF Fails, Raises, Proceeds
  <2>6. CASE Restores
    <3> DEFINE saving == <<<<"save", "stopped">>>>
    <3>1. saving \in Seq(StopOp)
      <4>1. <<"save", "stopped">> \in StopOp
        BY DEF StopOp, Systemctl, Words, Phases
      <4> QED
        BY <4>1, FourInSeq
    <3>2. Continues(RestoreOps) \/ Continues(saving) \/ Fails
      BY <2>6 DEF Restores
    <3> HIDE DEF saving
    <3>3. ASSUME NEW ops \in Seq(StopOp), Continues(ops) PROVE script' \in Seq(StopOp)
      BY <2>2, <3>3 DEF Continues
    <3> QED
      BY <2>4, <2>5, <3>1, <3>2, <3>3, OpsTyped
  <2>7. CASE ~Restores
    BY <2>3, <2>4, <2>5, <2>7 DEF ManagerStep, ManagerFails, Saves, Asks, Released, Verifies,
       SystemctlQueues, SystemctlReturns
  <2> QED
    BY <2>6, <2>7
<1> QED
  BY <1>1, <1>2 DEF StopEffect

LEMMA ManagerWatches ==
    ASSUME AInv, ManagerStep \/ ManagerFails, phase' = phase
    PROVE  JobsKnown' /\ Watched'
<1> USE DEF AInv, BInv
<1>1. Effect /\ JobEffect /\ StopEffect
  BY ManagerEffect, ManagerJobs, ManagerStops
<1>2. unit[Lifecycle] \in {"activating", "deactivating"}
  BY <1>1, UnitNames DEF Effect, ManagerInUnit, BootTyped, UnitStates
<1>3. /\ \A u \in Units \ {Lifecycle} : unit'[u] = unit[u]
      /\ unit'[Lifecycle] \in {unit[Lifecycle], "inactive"}
  BY <1>1, UnitNames DEF Effect, Ends, GoesOn, BootTyped
<1>4. JobsKnown'
  <2>1. CASE job' = job
    BY <1>3, <2>1, UnitNames DEF JobsKnown
  <2>2. CASE \E u \in {Fm, Client}, j \in Jobs :
               /\ job' = [job EXCEPT ![u] = j]
               /\ phase = "shutting" => j # "start" /\ (unit[u] # "inactive" => j = "stop")
    BY <1>3, <2>2, UnitNames, MoreNames DEF JobsKnown
  <2>3. CASE job' = [job EXCEPT ![Lifecycle] = "none"] /\ unit' = [unit EXCEPT ![Lifecycle] = "inactive"]
    BY <2>3, UnitNames, MoreNames DEF JobsKnown, Jobs, BootTyped
  <2> QED
    BY <1>1, <2>1, <2>2, <2>3 DEF JobEffect
<1>5. Watched'
  <2>1. CASE unit[Lifecycle] = "deactivating"
    BY <1>1, <1>3, <2>1, UnitNames, MoreNames DEF Watched, StopEffect
  <2>2. CASE unit[Lifecycle] = "activating"
    <3>1. unit[LibvirtGuests] = "active" /\ unit'[LibvirtGuests] = "active"
      BY <1>3, <2>2, UnitNames, MoreNames DEF Watched
    <3>2. unit'[Libvirtd] # "active" => running' \subseteq asked'
      <4>1. unit[Libvirtd] # "active" => ~Launches \/ running' = running
        BY DEF Launches
      <4>2. ~Launches => running' = running
        BY DEF ManagerStep, ManagerFails, StartChecks, StartClaims, Saves, Asks, Released, Restores,
           Verifies, SystemctlQueues, SystemctlReturns
      <4> QED
        BY <1>1, <1>3, <4>1, <4>2, UnitNames, MoreNames DEF Watched, StopEffect
    <3> QED
      BY <1>3, <2>2, <3>1, <3>2 DEF Watched
  <2> QED
    BY <1>2, <2>1, <2>2
<1> QED
  BY <1>4, <1>5

LEMMA StartsWatches == ASSUME AInv, NEW u \in Units, Starts(u) PROVE JobsKnown' /\ Watched'
<1> USE DEF AInv, BInv
<1>1. /\ phase' = phase /\ asked' = asked /\ running' = running
      /\ job[u] = "start" /\ unit[u] = "inactive"
      /\ \A v \in After[u] : job[v] = "none"
  BY DEF Starts, MayStart, OnBoot
<1>2. \/ Becomes(u, "inactive", "none")
      \/ Becomes(u, "active", "none") /\ u # Lifecycle
      \/ /\ Becomes(u, "activating", "start")
         /\ u = Lifecycle => unit[LibvirtGuests] = "active"
         /\ u \notin {Libvirtd, LibvirtGuests}
  BY UnitNames, MoreNames DEF Starts, Required
<1>3. phase # "shutting"
  BY <1>1 DEF JobsKnown
<1>4. \A v \in Units \ {u} : unit'[v] = unit[v] /\ job'[v] = job[v]
  BY <1>2 DEF Becomes, BootTyped, JobsKnown
<1>5. /\ unit'[u] \in {"inactive", "activating", "active"} /\ job'[u] \in {"none", "start"}
      /\ job' \in [Units -> Jobs]
      /\ (u = Lifecycle => unit'[u] # "active" /\ (unit'[u] = "activating" => unit[LibvirtGuests] = "active"))
      /\ u \in {Libvirtd, LibvirtGuests} => unit'[u] # "activating"
  BY <1>1, <1>2 DEF Becomes, BootTyped, JobsKnown, Jobs
<1>6. JobsKnown'
  <2>1. job'[Libvirtd] # "stop"
    BY <1>3, <1>4, <1>5, UnitNames DEF JobsKnown
  <2>2. u = Lifecycle => job'[LibvirtGuests] # "stop"
    <3>1. u = Lifecycle => job[LibvirtGuests] = "none"
      BY <1>1, MoreNames
    <3> QED
      BY <1>4, <3>1, UnitNames
  <2>3. u # Lifecycle /\ job'[LibvirtGuests] = "stop" =>
            job[LibvirtGuests] = "stop" /\ unit'[Lifecycle] = unit[Lifecycle] /\ job'[Lifecycle] = job[Lifecycle]
    BY <1>4, <1>5, UnitNames
  <2> QED
    BY <1>1, <1>3, <1>5, <2>1, <2>2, <2>3 DEF JobsKnown
<1>7. Watched'
  <2>1. unit'[LibvirtGuests] # "active" => unit[LibvirtGuests] # "active"
    BY <1>1, <1>4, UnitNames
  <2>2. unit'[Libvirtd] # "active" => unit[Libvirtd] # "active"
    BY <1>1, <1>4, UnitNames
  <2>3. unit'[Lifecycle] = "deactivating" => script' \in Seq(StopOp)
    <3>1. u # Lifecycle => script' = script
      BY UnitNames, MoreNames DEF Starts
    <3>2. u = Lifecycle => unit'[Lifecycle] # "deactivating"
      BY <1>5
    <3>3. u # Lifecycle => unit'[Lifecycle] = unit[Lifecycle]
      BY <1>4, UnitNames
    <3> QED
      BY <3>1, <3>2, <3>3 DEF Watched
  <2>4. unit'[Lifecycle] = "activating" => unit'[LibvirtGuests] = "active"
    <3>1. unit[LibvirtGuests] = "active" => unit'[LibvirtGuests] = "active"
      BY <1>1, <1>4, UnitNames
    <3>2. u # Lifecycle => unit'[Lifecycle] = unit[Lifecycle]
      BY <1>4, UnitNames
    <3> QED
      BY <1>5, <3>1, <3>2 DEF Watched
  <2> QED
    BY <1>1, <2>1, <2>2, <2>3, <2>4 DEF Watched
<1> QED
  BY <1>6, <1>7

LEMMA StartedWatches == ASSUME AInv, NEW u \in Units, Started(u) PROVE JobsKnown' /\ Watched'
<1> USE DEF AInv, BInv
<1>1. /\ phase' = phase /\ asked' = asked /\ running' = running /\ script' = script
      /\ job[u] = "start" /\ unit[u] = "activating"
      /\ (u \in Guests \/ u = Lifecycle)
      /\ \E s \in {"active", "inactive"} : Becomes(u, s, "none")
  BY DEF Started
<1>2. phase # "shutting"
  BY <1>1 DEF JobsKnown
<1>3. /\ \A v \in Units \ {u} : unit'[v] = unit[v] /\ job'[v] = job[v]
      /\ unit'[u] \in {"active", "inactive"} /\ job'[u] = "none" /\ job' \in [Units -> Jobs]
  BY <1>1 DEF Becomes, BootTyped, JobsKnown, Jobs
<1>4. u = Lifecycle => job[LibvirtGuests] # "stop"
  BY <1>1 DEF JobsKnown
<1> QED
  BY <1>1, <1>2, <1>3, <1>4, UnitNames, MoreNames DEF JobsKnown, Watched

LEMMA StopsWatches ==
    ASSUME AInv, NEW u \in Units, Stops(u) \/ Stopped(u) PROVE JobsKnown' /\ Watched'
<1> USE DEF AInv, BInv
<1>1. /\ phase' = phase /\ running' = running
      /\ u # Lifecycle => script' = script
      /\ u # LibvirtGuests => asked' = asked
      /\ \/ unit' = [unit EXCEPT ![u] = "inactive"] /\ job' = [job EXCEPT ![u] = "none"]
         \/ /\ unit' = [unit EXCEPT ![u] = "deactivating"] /\ job' = [job EXCEPT ![u] = "stop"]
            /\ job[u] = "stop"
            /\ u = Lifecycle => script' = StopOps
  BY UnitNames, MoreNames DEF Stops, Stopped, Becomes, MayStop, Fails, Raises, UnitFails
<1>2. /\ \A v \in Units \ {u} : unit'[v] = unit[v] /\ job'[v] = job[v]
      /\ \/ unit'[u] = "inactive" /\ job'[u] = "none"
         \/ unit'[u] = "deactivating" /\ job'[u] = "stop" /\ job[u] = "stop"
      /\ job' \in [Units -> Jobs]
  <2>1. unit \in [Units -> UnitStates] /\ job \in [Units -> Jobs]
    BY DEF BootTyped, JobsKnown
  <2>2. CASE unit' = [unit EXCEPT ![u] = "inactive"] /\ job' = [job EXCEPT ![u] = "none"]
    BY <2>1, <2>2 DEF Jobs
  <2>3. CASE /\ unit' = [unit EXCEPT ![u] = "deactivating"] /\ job' = [job EXCEPT ![u] = "stop"]
             /\ job[u] = "stop"
    BY <2>1, <2>3 DEF Jobs
  <2> QED
    BY <1>1, <2>2, <2>3
<1>3. JobsKnown'
  BY <1>1, <1>2, UnitNames, MoreNames DEF JobsKnown
<1>4. ASSUME u = LibvirtGuests
      PROVE  unit[Lifecycle] # "activating" /\ running' \subseteq asked'
  <2>1. CASE Stopped(u)
    <3>1. unit[u] = "deactivating" /\ asked' = asked
      BY <2>1 DEF Stopped
    <3> QED
      BY <1>1, <1>4, <3>1 DEF Watched
  <2>2. CASE Stops(u)
    <3>1. job[LibvirtGuests] = "stop" /\ job[Lifecycle] # "stop"
      BY <1>4, <2>2, UnitNames, MoreNames DEF Stops, MayStop
    <3>2. CASE unit[u] = "active" /\ unit[Libvirtd] = "active"
      BY <1>1, <1>4, <2>2, <3>1, <3>2, MoreNames, UnitNames DEF Stops, Down, OnShutdown, JobsKnown
    <3>3. CASE unit[u] # "active" \/ unit[Libvirtd] # "active"
      <4>1. running \subseteq asked
        BY <1>4, <3>3 DEF Watched
      <4>2. running \subseteq asked'
        BY <1>4, <2>2, <4>1, MoreNames, UnitNames DEF Stops
      <4> QED
        BY <1>1, <3>1, <4>2 DEF JobsKnown
    <3> QED
      BY <3>2, <3>3
  <2> QED
    BY <2>1, <2>2
<1>5. ASSUME u = Libvirtd
      PROVE  running \subseteq asked
  <2>1. CASE Stopped(u)
    BY <1>5, <2>1 DEF Stopped, Watched
  <2>2. CASE Stops(u)
    <3>1. job[Libvirtd] = "stop" /\ job[LibvirtGuests] # "stop"
      BY <1>5, <2>2, UnitNames, MoreNames DEF Stops, MayStop
    <3>2. unit[LibvirtGuests] = "inactive"
      BY <3>1, UnitNames DEF JobsKnown
    <3> QED
      BY <3>2 DEF Watched
  <2> QED
    BY <2>1, <2>2
<1>6. Watched'
  <2>1. CASE u = LibvirtGuests
    BY <1>1, <1>2, <1>4, <2>1, UnitNames, MoreNames DEF Watched
  <2>2. CASE u = Libvirtd
    BY <1>1, <1>2, <1>5, <2>2, UnitNames, MoreNames DEF Watched
  <2>3. CASE u = Lifecycle
    BY <1>1, <1>2, <2>3, OpsTyped, UnitNames, MoreNames DEF Watched
  <2>4. CASE u \notin {LibvirtGuests, Libvirtd, Lifecycle}
    BY <1>1, <1>2, <2>4, UnitNames, MoreNames DEF Watched
  <2> QED
    BY <2>1, <2>2, <2>3, <2>4
<1> QED
  BY <1>3, <1>6

LEMMA OperatesWatches == ASSUME AInv, Operates PROVE JobsKnown' /\ Watched'
<1> USE DEF AInv, BInv
<1>1. UNCHANGED <<phase, unit, script, running, asked>> /\ phase = "up"
  BY DEF Operates
<1>2. CASE /\ unit[Lifecycle] = "inactive"
           /\ job' = [u \in Units |-> IF u \in Required(Lifecycle) \union {Lifecycle} /\ unit[u] = "inactive"
                                      THEN "start" ELSE job[u]]
  BY <1>1, <1>2, UnitNames, MoreNames DEF JobsKnown, Watched, Jobs
<1>3. CASE \E u \in Units \ {Libvirtd} :
              /\ unit[u] # "inactive"
              /\ job' = [v \in Units |-> IF (u = v \/ u \in Required(v)) /\ unit[v] # "inactive"
                                         THEN "stop" ELSE job[v]]
  <2> PICK u \in Units \ {Libvirtd} :
         job' = [v \in Units |-> IF (u = v \/ u \in Required(v)) /\ unit[v] # "inactive"
                                  THEN "stop" ELSE job[v]]
    BY <1>3
  <2>1. /\ Required(Libvirtd) = {} /\ Required(LibvirtGuests) = {}
        /\ LibvirtGuests \in Required(Lifecycle)
    BY MoreNames DEF Required
  <2>2. job' \in [Units -> Jobs]
    BY DEF JobsKnown, Jobs
  <2>3. job'[Libvirtd] = job[Libvirtd]
    BY <2>1, UnitNames
  <2>4. job'[LibvirtGuests] = "stop" /\ unit[Lifecycle] \in {"activating", "active"} =>
            job'[Lifecycle] = "stop"
    BY <2>1, UnitNames DEF JobsKnown
  <2> QED
    BY <1>1, <2>2, <2>3, <2>4 DEF JobsKnown, Watched
<1> QED
  BY <1>2, <1>3 DEF Operates

LEMMA HostWatches ==
    ASSUME AInv, GuestPowersOff \/ ShutsDown \/ PowersOff \/ Boots
    PROVE  JobsKnown' /\ Watched'
<1> USE DEF AInv, BInv
<1>1. CASE GuestPowersOff
  BY <1>1 DEF GuestPowersOff, JobsKnown, Watched
<1>2. CASE ShutsDown
  BY <1>2, UnitNames DEF ShutsDown, JobsKnown, Watched, Jobs
<1>3. CASE PowersOff
  BY <1>3, UnitNames DEF PowersOff, JobsKnown, Watched, Jobs
<1>4. CASE Boots
  <2>1. job' \in [Units -> {"none", "start"}]
    BY <1>4 DEF Boots, BootJobs
  <2>2. \A u \in Units : job'[u] # "stop" /\ unit'[u] = "inactive"
    BY <1>4, <2>1 DEF Boots, OffIsOff
  <2> QED
    BY <1>4, <2>1, <2>2, UnitNames DEF Boots, JobsKnown, Watched, Jobs, OffIsOff
<1> QED
  BY <1>1, <1>2, <1>3, <1>4

LEMMA NextAInv == AInv /\ [BootNext]_bootVars => AInv'
<1> SUFFICES ASSUME AInv, [BootNext]_bootVars PROVE JobsKnown' /\ Watched'
  BY NextBInv DEF AInv
<1>1. CASE ManagerStep \/ (ManagerFails /\ UNCHANGED <<linkVars, phase, suspended, service, boots>>)
  BY <1>1, ManagerWatches DEF ManagerStep
<1>2. CASE SystemdStep
  BY <1>2, StartsWatches, StartedWatches, StopsWatches DEF SystemdStep
<1>3. CASE Operates
  BY <1>3, OperatesWatches
<1>4. CASE GuestPowersOff \/ ShutsDown \/ PowersOff \/ Boots
  BY <1>4, HostWatches
<1>5. CASE UNCHANGED hostVars
  BY <1>5 DEF hostVars, AInv, JobsKnown, Watched
<1> QED
  BY <1>1, <1>2, <1>3, <1>4, <1>5 DEF BootNext, bootVars, HelperRuns

(* When libvirtd goes down with the host, every guest has been asked to power off: no
   guest is launched unless libvirt-guests is active, which asks those that run before
   it is down, and libvirtd waits for it (unit_text, policy_text). *)
THEOREM GuestsAreAskedFirst == BootSpec => []GuestsAreAsked
<1>1. AInv => GuestsAreAsked
  BY DEF AInv, Watched, GuestsAreAsked, Down
<1> QED
  BY <1>1, InitAInv, NextAInv, PTL DEF BootSpec

(* The manager waits for services that no unit is ordered with. *)
WaitsForServices == waiting # None => waiting[1] \in {Fm, Client}

LEMMA NextWaits == BInv /\ WaitsForServices /\ [BootNext]_bootVars => WaitsForServices'
<1> SUFFICES ASSUME BInv, WaitsForServices, [BootNext]_bootVars PROVE WaitsForServices'
  OBVIOUS
<1>1. CASE SystemctlQueues
  <2>1. waiting' = waiting \/ waiting' = None \/ \E j \in {"start", "stop"} : waiting' = <<Object, j>>
    BY <1>1 DEF SystemctlQueues, Proceeds, Fails, Raises
  <2>2. Object \in {Fm, Client}
    <3>1. script # <<>> /\ Head(script)[1] \in Systemctl
      BY <1>1 DEF SystemctlQueues, Doing, Systemctl
    <3>2. Head(script) \in Op
      BY <3>1 DEF BInv, BootTyped
    <3> QED
      BY <3>1, <3>2 DEF Object, Op, StopOp, Systemctl, Words
  <2> QED
    BY <2>1, <2>2 DEF WaitsForServices
<1>2. CASE waiting' \in {waiting, None}
  BY <1>2 DEF WaitsForServices
<1>3. CASE SystemdStep
  <2>1. waiting' \in {waiting, None}
    BY <1>3 DEF SystemdStep, Starts, Started, Stops, Stopped, Fails, Raises
  <2> QED
    BY <1>2, <2>1
<1>4. CASE ManagerStep /\ ~SystemctlQueues
  <2>1. waiting' \in {waiting, None}
    BY <1>4 DEF ManagerStep, StartChecks, StartClaims, Saves, Asks, Released, Restores, Launches, Verifies,
       SystemctlReturns, Proceeds, Continues, Fails, Raises
  <2> QED
    BY <1>2, <2>1
<1> QED
  BY <1>1, <1>2, <1>3, <1>4 DEF BootNext, bootVars, hostVars, GuestPowersOff, Operates, ShutsDown, PowersOff,
     Boots, HelperRuns, ManagerFails, Fails, Raises

(* The manager never waits for a job that waits for its own unit: the services it
   stops and starts are not ordered with any unit, its own included (unit_text). *)
THEOREM ManagerIsNotWaitedFor == BootSpec => []NoCyclicWait
<1>1. BootInit => WaitsForServices
  BY DEF BootInit, WaitsForServices
<1>2. WaitsForServices => NoCyclicWait
  <2> SUFFICES ASSUME waiting # None, waiting[1] \in {Fm, Client}
               PROVE  \E ahead \in SUBSET (Units \ {Lifecycle}) :
                          \A v \in ahead \union {waiting[1]} : Blocks(v) \subseteq ahead
    BY DEF WaitsForServices, NoCyclicWait
  <2>1. Blocks(waiting[1]) = {}
    <3>1. After[waiting[1]] = {}
      BY MoreNames DEF After, LibvirtGuests, Libvirtd, Lifecycle, Fm, Client
    <3>2. \A u \in Units : waiting[1] \notin After[u]
      BY MoreNames DEF After
    <3> QED
      BY <3>1, <3>2 DEF Blocks
  <2> QED
    BY <2>1
<1> QED
  BY <1>1, <1>2, NextWaits, BootInvariant, PTL DEF BootSpec
================================================================================
