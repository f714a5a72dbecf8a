------------------------------- MODULE EnsureLink ------------------------------
(* network/ensure-vnic-link.sh: makes the VLAN link of a guest's VNIC, at each boot
   and whenever it is run. It reads the metadata of the VNICs, the addresses and the
   links of the host, one after the other, and then adds the link, if there is none,
   and sets it up. Runs may be killed, repeated, and overlap; links of others come
   and go.

   The kernel is external: it refuses a second link of one name, or of one tag on one
   parent. All links here are VLANs of the one physical NIC. *)
EXTENDS Naturals, FiniteSets

CONSTANTS
    Guests,     \* each stands for the link name and the VLAN tag configured for it, too
    Other,      \* another name or tag
    Runs,       \* runs of the helper
    For,        \* run -> the guest whose specification it was given
    MaxChanges  \* what others do, over a whole behaviour

ASSUME RunsAssumption == For \in [Runs -> Guests] /\ Other \notin Guests

(* right: the MAC and the MTU are those of the specification. *)
Link == [name : Guests \union {Other}, tag : Guests \union {Other}, right : BOOLEAN, up : BOOLEAN]

VARIABLES
    links,     \* the links
    matching,  \* the guests whose VNIC is in the metadata, as specified
    addressed, \* the names of links that have a host address
    at,        \* run -> the statement it is at
    addresses, \* run -> the addresses it has read
    changes    \* what others, and operators, did so far

linkVars == <<links, matching, addressed, at, addresses, changes>>

LinkInit ==
    /\ links = {} /\ addressed = {}
    /\ matching = Guests
    /\ at = [r \in Runs |-> "off"] /\ addresses = [r \in Runs |-> {}]
    /\ changes = 0

Specified(g) == [name : {g}, tag : {g}, right : {TRUE}, up : BOOLEAN]
Named(name) == {l \in links : l.name = name}
Free(l) == \A x \in links : x.name # l.name /\ x.tag # l.tag

Goto(r, place) == at' = [at EXCEPT ![r] = place]

Begins(r) ==
    /\ at[r] \in {"off", "done", "failed"}
    /\ Goto(r, "metadata")
    /\ UNCHANGED <<links, matching, addressed, addresses, changes>>

RunsByHand(r) ==
    /\ changes < MaxChanges /\ changes' = changes + 1
    /\ at[r] \in {"off", "done", "failed"}
    /\ Goto(r, "metadata")
    /\ UNCHANGED <<links, matching, addressed, addresses>>

(* "VNIC metadata identity changed; refusing link setup." *)
ReadsMetadata(r) ==
    /\ at[r] = "metadata"
    /\ Goto(r, IF For[r] \in matching THEN "addresses" ELSE "failed")
    /\ UNCHANGED <<links, matching, addressed, addresses, changes>>

ReadsAddresses(r) ==
    /\ at[r] = "addresses"
    /\ addresses' = [addresses EXCEPT ![r] = addressed]
    /\ Goto(r, "links")
    /\ UNCHANGED <<links, matching, addressed, changes>>

(* Mutant: a link that exists is taken for finished. *)
JudgesExistingDone(g, seen) ==
    IF \E l \in links : l.tag = g /\ l.name # g THEN "failed"
    ELSE IF Named(g) = {} THEN "add"
    ELSE IF Named(g) \subseteq Specified(g) /\ g \notin seen THEN "done" ELSE "failed"

(* Mutant: a link of the name is taken for the one specified. *)
JudgesByName(g, seen) ==
    IF \E l \in links : l.tag = g /\ l.name # g THEN "failed"
    ELSE IF Named(g) = {} THEN "add"
    ELSE IF g \notin seen THEN "up" ELSE "failed"

(* The loop over the links: nobody else has the tag; a link of the name is as
   specified and has no address. *)
Judges(g, seen) ==
    IF \E l \in links : l.tag = g /\ l.name # g THEN "failed"
    ELSE IF Named(g) = {} THEN "add"
    ELSE IF Named(g) \subseteq Specified(g) /\ g \notin seen THEN "up" ELSE "failed"

ReadsLinks(r) ==
    /\ at[r] = "links"
    /\ Goto(r, Judges(For[r], addresses[r]))
    /\ UNCHANGED <<links, matching, addressed, addresses, changes>>

(* ip link add *)
Adds(r) ==
    LET l == [name |-> For[r], tag |-> For[r], right |-> TRUE, up |-> FALSE]
    IN /\ at[r] = "add"
       /\ IF Free(l) THEN links' = links \union {l} /\ Goto(r, "up")
                     ELSE Goto(r, "failed") /\ UNCHANGED links
       /\ UNCHANGED <<matching, addressed, addresses, changes>>

(* ip link set dev NAME up *)
SetsUp(r) ==
    /\ at[r] = "up"
    /\ links' = {[l EXCEPT !.up = @ \/ l.name = For[r]] : l \in links}
    /\ Goto(r, IF Named(For[r]) = {} THEN "failed" ELSE "done")
    /\ UNCHANGED <<matching, addressed, addresses, changes>>

HelperDies(r) ==
    /\ at[r] \notin {"off", "done", "failed"}
    /\ Goto(r, "failed")
    /\ UNCHANGED <<links, matching, addressed, addresses, changes>>

HelperStep(r) == ReadsMetadata(r) \/ ReadsAddresses(r) \/ ReadsLinks(r) \/ Adds(r) \/ SetsUp(r)

(* Others add links and remove those they added, give a link an address, and detach or
   attach VNICs. They do not remove links that are as specified. *)
OthersChange ==
    /\ changes < MaxChanges /\ changes' = changes + 1
    /\ \/ /\ \E l \in Link : Free(l) /\ links' = links \union {l}
          /\ UNCHANGED <<matching, addressed>>
       \/ /\ \E l \in links : l \notin Specified(l.name) /\ links' = links \ {l}
          /\ UNCHANGED <<matching, addressed>>
       \/ /\ \E l \in links : addressed' = addressed \union {l.name}
          /\ UNCHANGED <<links, matching>>
       \/ /\ \E g \in Guests : matching' = IF g \in matching THEN matching \ {g}
                                           ELSE matching \union {g}
          /\ UNCHANGED <<links, addressed>>
    /\ UNCHANGED <<at, addresses>>

(* The link of guest g as it is specified, and up. *)
LinkUp(g) == \E l \in links : l \in Specified(g) /\ l.up

(********************************** properties **********************************)
(* No run changes a link that is not the one specified. *)
ForeignLinksUntouched ==
    [][(\E r \in Runs : at'[r] \notin {at[r], "off"}) =>
           links \ UNION {Specified(g) : g \in Guests} \subseteq links']_linkVars
================================================================================
