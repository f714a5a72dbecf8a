----------------------------- MODULE CreateGuests ------------------------------
(* host/create-guests.py --execute: invocations that build the VNIC links, the
   management network and the CPU-only guests after a preflight. Nothing locks
   one against another and nothing is rolled back: an invocation can fail or be
   killed at any step, and the operator clears what he likes before a rerun.

   A resource passes the stages absent, torn (exists, content incomplete), plain
   (content whole, mode or owner not set yet; or defined, not started) and ready. *)
EXTENDS Naturals, Sequences, SequencesExt

CONSTANTS
    GuestNames,  \* the guests of the configuration, in order
    Runs,        \* invocations with --execute, by the same configuration
    None

Guests == ToSet(GuestNames)

(* validate_config() (97, 102) takes two guests, no two of one name. *)
ASSUME GuestNamesAssumption ==
    /\ GuestNames \in Seq(Guests) /\ GuestNames # << >>
    /\ IsInjective(GuestNames)

(* /usr/local/sbin/oci-kvm-ensure-link; the three files of network_files(); the
   enabled link unit with its VLAN interface; management-network.xml; the
   libvirt network; the directory of a guest with all its files; its domain; its
   UEFI variables, which libvirt makes when it first starts the domain. *)
Helper == <<"helper">>
Net(g) == <<"net", g>>
Link(g) == <<"link", g>>
NetXml == <<"network xml">>
Network == <<"network">>
Storage(g) == <<"storage", g>>
Domain(g) == <<"domain", g>>
Nvram(g) == <<"nvram", g>>

Each(Op(_)) == [i \in DOMAIN GuestNames |-> Op(GuestNames[i])]

(* The storage of a guest, then its domain, for one guest after the other. *)
StorageThenDomain ==
    [i \in 1 .. 2 * Len(GuestNames) |->
        IF i % 2 = 1 THEN Storage(GuestNames[(i + 1) \div 2]) ELSE Domain(GuestNames[i \div 2])]

(* execute(): what is built, in order. *)
Program == <<Helper>> \o Each(Net) \o Each(Link) \o <<NetXml, Network>> \o StorageThenDomain

OfGuest(g) == {Net(g), Link(g), Storage(g), Domain(g), Nvram(g)}
Built == {NetXml, Network} \union UNION {OfGuest(g) : g \in Guests}
Files == {Helper, NetXml} \union {Net(g) : g \in Guests} \union {Storage(g) : g \in Guests}
Defined == {Network} \union {Domain(g) : g \in Guests}
Links == {Link(g) : g \in Guests}

VARIABLES
    made,  \* the host: the stage of each resource and the invocation that made it
    run    \* invocation -> its place in the program; alone is history: no other
           \* invocation was past its preflight while this one was

vars == <<made, run>>

Missing(x) == made[x].stage = "absent"
Absent == [stage |-> "absent", by |-> None]

(* An earlier installation may have left its helper. *)
Init ==
    /\ \E helper \in {Absent, [stage |-> "ready", by |-> None]} :
          made = [x \in Built \union {Helper} |-> IF x = Helper THEN helper ELSE Absent]
    /\ run = [r \in Runs |-> [pc |-> "idle", at |-> 1, alone |-> TRUE]]

Executing(r) == run[r].pc = "executing"
At(r) == Program[run[r].at]
Ends(r, pc) == run' = [run EXCEPT ![r].pc = pc, ![r].at = 1]

Advances(r) ==
    IF run[r].at = Len(Program) THEN Ends(r, "done") ELSE run' = [run EXCEPT ![r].at = @ + 1]

Put(x, stage, r) == made' = [made EXCEPT ![x] = [stage |-> stage, by |-> r]]

(*********************************** preflight ***********************************)
(* Mutants: a resource that preflight does not look for. *)
ClearButNvram == \A x \in Built \ {Nvram(g) : g \in Guests} : Missing(x)
ClearButNetXml == \A x \in Built \ {NetXml} : Missing(x)
ClearButStorage == \A x \in Built \ {Storage(g) : g \in Guests} : Missing(x)

(* No requested domain, network, bridge, link, guest directory, UEFI variables or
   configuration file exists. *)
Clear == \A x \in Built : Missing(x)

(* A helper that exists has the bytes of the bundled one; its mode is not read. *)
HelperMatches == made[Helper].stage \in {"absent", "plain", "ready"}

Preflight(r) ==
    /\ run[r].pc = "idle"
    /\ IF Clear /\ HelperMatches
       THEN LET others == {s \in Runs : Executing(s)}
            IN run' = [s \in Runs |->
                          IF s = r THEN [pc |-> "executing", at |-> 1, alone |-> others = {}]
                          ELSE IF s \in others THEN [run[s] EXCEPT !.alone = FALSE] ELSE run[s]]
       ELSE Ends(r, "failed")
    /\ UNCHANGED made

(************************************ execute ************************************)
(* "if not LINK_HELPER.exists()" *)
SkipsHelper(r) ==
    /\ Executing(r) /\ At(r) = Helper
    /\ ~Missing(Helper) /\ made[Helper].by # r
    /\ Advances(r)
    /\ UNCHANGED made

(* open('x') of write_new(), mkdir() of the guest directory *)
Creates(r) ==
    /\ Executing(r) /\ At(r) \in Files
    /\ Missing(At(r))
    /\ Put(At(r), "torn", r)
    /\ UNCHANGED run

(* stream.write(); for a guest directory also qemu-img, cloud-localds *)
Fills(r) ==
    /\ Executing(r) /\ At(r) \in Files
    /\ made[At(r)] = [stage |-> "torn", by |-> r]
    /\ Put(At(r), "plain", r)
    /\ UNCHANGED run

(* path.chmod(); for a guest directory the chown() and chmod() of all in it *)
SetsMode(r) ==
    /\ Executing(r) /\ At(r) \in Files
    /\ made[At(r)] = [stage |-> "plain", by |-> r]
    /\ Put(At(r), "ready", r)
    /\ Advances(r)

(* virsh net-define, virsh define: libvirt refuses a name it knows. *)
Defines(r) ==
    /\ Executing(r) /\ At(r) \in Defined
    /\ Missing(At(r))
    /\ Put(At(r), "plain", r)
    /\ UNCHANGED run

(* virsh net-start and net-autostart, virsh start *)
Starts(r) ==
    /\ Executing(r) /\ At(r) \in Defined
    /\ made[At(r)] = [stage |-> "plain", by |-> r]
    /\ LET fresh == {Nvram(g) : g \in {h \in Guests : Domain(h) = At(r) /\ Missing(Nvram(h))}}
       IN made' = [x \in DOMAIN made |->
                      IF x = At(r) \/ x \in fresh THEN [stage |-> "ready", by |-> r] ELSE made[x]]
    /\ Advances(r)

(* systemctl enable --now of the link unit, which runs the helper *)
Enables(r) ==
    /\ Executing(r) /\ At(r) \in Links
    /\ IF made[Helper].stage = "ready"
       THEN Put(At(r), "ready", r) /\ Advances(r)
       ELSE Ends(r, "broken") /\ UNCHANGED made

(* What an exclusive creation or a definition meets already exists: for the
   helper, another run made it since "exists()" was evaluated. *)
Collides(r) ==
    /\ Executing(r) /\ At(r) \in Files \union Defined
    /\ At(r) = Helper => ~run[r].alone
    /\ ~Missing(At(r)) /\ made[At(r)].by # r
    /\ Ends(r, "collided")
    /\ UNCHANGED made

(* A command fails or the process is killed; the link may be added and not up. *)
Fails(r) ==
    /\ Executing(r)
    /\ \/ UNCHANGED made
       \/ At(r) \in Links /\ Missing(At(r)) /\ Put(At(r), "torn", r)
    /\ Ends(r, "failed")

Execute(r) ==
    \/ SkipsHelper(r) \/ Creates(r) \/ Fills(r) \/ SetsMode(r) \/ Defines(r) \/ Starts(r)
    \/ Enables(r) \/ Collides(r) \/ Fails(r)

(* "Inspect any partial resources before retrying." *)
OperatorRemoves(x) ==
    /\ \A r \in Runs : ~Executing(r)
    /\ ~Missing(x)
    /\ made' = [made EXCEPT ![x] = Absent]
    /\ UNCHANGED run

Next == (\E r \in Runs : Preflight(r) \/ Execute(r)) \/ (\E x \in DOMAIN made : OperatorRemoves(x))

Spec == Init /\ [][Next]_vars

(********************************** properties **********************************)
(* What stands on the host, the helper aside, was built by one invocation, though
   invocations overlap without a lock: the exclusive creation of the first file
   excludes all others, and a rerun builds nothing beside the remains of an
   earlier one ("refusing to overwrite or resume a partial build", line 324). *)
OneBuilder ==
    \A x, y \in Built : ~Missing(x) /\ ~Missing(y) => made[x].by = made[y].by

(* A guest is started by the run that built everything it uses, with the network,
   links and storage complete and with fresh UEFI variables. *)
StartedWhole ==
    [][\A g \in Guests :
          made[Domain(g)].stage # "ready" /\ made'[Domain(g)].stage = "ready" =>
              \A x \in OfGuest(g) \union {NetXml, Network} :
                  made'[x] = [stage |-> "ready", by |-> made'[Domain(g)].by]]_vars

(* "a complete preflight" (line 3): what preflight accepted, with no other run
   beside, never meets an existing resource half way. *)
NoDoomedBuild == \A r \in Runs : run[r].pc = "collided" => ~run[r].alone
================================================================================
