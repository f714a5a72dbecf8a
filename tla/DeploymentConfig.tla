---------------------------- MODULE DeploymentConfig ---------------------------
(* lib/config.py: validate_config() over the identifiers that a configuration
   gives to its guests. Every guest claims identifiers one after the other; sets
   of what was seen refuse the second claim of one. The CPUs of the emulators and
   the NUMA nodes are compared after both guests.

   The forms of the values (lengths, patterns, ranges, subnets) are abstracted to
   the choice that any of them may be refused. *)
EXTENDS Naturals, Sequences

CONSTANTS
    Kinds,    \* name, cpu, partition, bdf, uuid, vnic, tag, ip, mac
    Ids,      \* the identifiers of each kind
    Cpus,     \* those of kind "cpu"
    Nodes,    \* NUMA nodes
    HostIds,  \* claimed by the host: its addresses, the BDFs of the NVSwitches
    Configs   \* the configurations presented: sequences of guests

(* claims: <<kind, identifier>> in the order validate_config() meets them, the
   cpu_pins among them with kind "cpu"; emulators, nodes and memory: emulator_cpus,
   numa_nodes and memory_mib. *)
Claim == Kinds \X Ids
Guest == [claims : Seq(Claim), emulators : SUBSET Cpus, nodes : Seq(Nodes), memory : Nat]

ASSUME HostIdsAssumption == HostIds \subseteq Claim
ASSUME ConfigsAssumption == Configs \subseteq Seq(Guest)

VARIABLES
    config,   \* the configuration read
    g, n,     \* the guest and the claim whose turn it is
    seen,     \* allocated_cpus, bdfs, uuids, names, macs, addresses, tags, vnics, partitions
    verdict   \* "pending", "refused" or "valid"

vars == <<config, g, n, seen, verdict>>

Pins(guest) == {c \in Cpus : \E i \in DOMAIN guest.claims : guest.claims[i] = <<"cpu", c>>}

Init ==
    /\ config \in Configs
    /\ g = 1 /\ n = 1
    /\ seen = HostIds
    /\ verdict = "pending"

Refuses == verdict' = "refused" /\ UNCHANGED <<config, g, n, seen>>

(* A value of the wrong form, anywhere. *)
RefusesForm == verdict = "pending" /\ Refuses

(* "require(x not in seen); seen.add(x)" *)
Claims ==
    /\ verdict = "pending" /\ g \in DOMAIN config /\ n \in DOMAIN config[g].claims
    /\ IF config[g].claims[n] \in seen
       THEN Refuses
       ELSE /\ seen' = seen \union {config[g].claims[n]}
            /\ n' = n + 1
            /\ UNCHANGED <<config, g, verdict>>

(* Mutant: the sets start anew for every guest. *)
NextGuestForgets ==
    /\ verdict = "pending" /\ g \in DOMAIN config /\ n \notin DOMAIN config[g].claims
    /\ g' = g + 1 /\ n' = 1 /\ seen' = HostIds
    /\ UNCHANGED <<config, verdict>>

NextGuest ==
    /\ verdict = "pending" /\ g \in DOMAIN config /\ n \notin DOMAIN config[g].claims
    /\ g' = g + 1 /\ n' = 1
    /\ UNCHANGED <<config, seen, verdict>>

(* Mutant: each emulator is compared with the pins of the next guest only. *)
EmulatorsApartOneWay ==
    \A i, j \in DOMAIN config : i < j =>
        config[i].emulators \intersect (Pins(config[j]) \union config[j].emulators) = {}

(* "for guest, other in ((0, 1), (1, 0))" *)
EmulatorsApart ==
    \A i, j \in DOMAIN config : i # j =>
        config[i].emulators \intersect (Pins(config[j]) \union config[j].emulators) = {}

NodeSet(guest) == {guest.nodes[i] : i \in DOMAIN guest.nodes}
NodesApart ==
    \A i, j \in DOMAIN config : i # j => NodeSet(config[i]) \intersect NodeSet(config[j]) = {}

Concludes ==
    /\ verdict = "pending" /\ g \notin DOMAIN config
    /\ IF EmulatorsApart /\ NodesApart
       THEN verdict' = "valid" /\ UNCHANGED <<config, g, n, seen>>
       ELSE Refuses

Next == RefusesForm \/ Claims \/ NextGuest \/ Concludes

Spec == Init /\ [][Next]_vars

(********************************** properties **********************************)
TypeOK ==
    /\ config \in Configs
    /\ g \in Nat \ {0} /\ n \in Nat \ {0}
    /\ seen \subseteq Claim
    /\ verdict \in {"pending", "refused", "valid"}

(* In an accepted configuration no GPU, address, MAC, VLAN tag, VNIC, partition or
   pinned CPU is given twice, to two guests or to one, or to a guest and the host
   (lines 98 to 150). *)
ClaimsApart ==
    verdict = "valid" =>
        \A i, j \in DOMAIN config :
            \A k \in DOMAIN config[i].claims, l \in DOMAIN config[j].claims :
                /\ config[i].claims[k] \notin HostIds
                /\ config[i].claims[k] = config[j].claims[l] => i = j /\ k = l

(* No CPU works for two guests, whether a vCPU is pinned to it or an emulator
   (lines 109 and 151 to 152). *)
CpusApart ==
    verdict = "valid" =>
        \A i, j \in DOMAIN config : i # j =>
            (Pins(config[i]) \union config[i].emulators)
              \intersect (Pins(config[j]) \union config[j].emulators) = {}

================================================================================
