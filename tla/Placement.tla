------------------------------- MODULE Placement -------------------------------
(* host/create-guests.py over lib/config.py: the configuration that main() reads is
   validated, preflight() checks its placement against the host, and each guest's
   definition is rendered from both. Three programs of checks written apart; what
   they establish together is stated here. *)
EXTENDS DeploymentConfig, Topology

CONSTANTS
    Deployments  \* configurations, each with what read_topology() finds on the host

ASSUME DeploymentsAssumption ==
    \A d \in Deployments :
        /\ d.config \in Configs
        /\ IsFiniteSet(DOMAIN d.host.free) /\ DOMAIN d.host.free # {}
        /\ d.host.free \in [DOMAIN d.host.free -> Nat]
        /\ d.host.reserve \in Int

VARIABLES
    host,     \* [node, siblings, free, available, reserve]
    placed,   \* "pending", "refused" or "placed"
    domains   \* the definitions rendered, one for each guest

placementVars == <<config, g, n, seen, verdict, host, placed, domains>>

(* cpu_pins, in the order given *)
PinList(guest) ==
    LET cpus == {i \in DOMAIN guest.claims : guest.claims[i][1] = "cpu"}
        nth(v) == CHOOSE i \in cpus : Cardinality({j \in cpus : j <= i}) = v
    IN [v \in 1 .. Cardinality(cpus) |-> guest.claims[nth(v)][2]]

Request(guest) == [pins |-> PinList(guest), emulators |-> guest.emulators,
                   nodes |-> guest.nodes, memory |-> guest.memory]

Deployment ==
    [guests |-> [i \in DOMAIN config |-> Request(config[i])],
     node |-> host.node, siblings |-> host.siblings, free |-> host.free,
     available |-> host.available, reserve |-> host.reserve]

PlacementInit ==
    /\ \E d \in Deployments : config = d.config /\ host = d.host
    /\ Init
    /\ placed = "pending" /\ domains = <<>>

(* main(): root_config() *)
Validates == Next /\ UNCHANGED <<host, placed, domains>>

(* preflight(): check_topology(), then render_domain() of every guest *)
Places ==
    /\ verdict = "valid" /\ placed = "pending"
    /\ IF Accepts(Deployment)
       THEN /\ placed' = "placed"
            /\ domains' = [i \in DOMAIN config |-> Domain(Deployment, Request(config[i]))]
       ELSE placed' = "refused" /\ UNCHANGED domains
    /\ UNCHANGED <<vars, host>>

PlacementNext == Validates \/ Places

PlacementSpec == PlacementInit /\ [][PlacementNext]_placementVars

(********************************** properties **********************************)
(* The cores that a guest's vCPUs run on, with all their threads. *)
Cores(d) == UNION {host.siblings[c] : c \in ToSet(d.pin)}

(* No core of the host is shared: what runs for one guest, vCPU or emulator, is on
   no thread of a core of another's vCPUs, and a guest has every thread of its cores
   (create-guests.py 83 to 108). *)
CoresApart ==
    \A i, j \in DOMAIN domains :
        /\ Cores(domains[i]) = ToSet(domains[i].pin)
        /\ i # j => Cores(domains[i])
                      \intersect (Cores(domains[j]) \union domains[j].emulators) = {}

(* Of a definition on a host with these nodes and siblings: vCPUs 2k-1 and 2k are the
   two threads of one core; every vCPU is in one NUMA cell, pinned to a CPU of the node
   which that cell's memory is bound to; no two cells are bound to one node. *)
ShowsTopology(d, node, siblings) ==
    /\ \A k \in 1 .. Len(d.pin) \div 2 :
          LET pair == {d.pin[2 * k - 1], d.pin[2 * k]}
          IN Cardinality(pair) = 2 /\ \A c \in pair : siblings[c] = pair
    /\ DOMAIN d.memnode = DOMAIN d.cells /\ IsInjective(d.memnode)
    /\ \A v \in DOMAIN d.pin : \E c \in DOMAIN d.cells :
          /\ v \in d.cells[c].cpus /\ node[d.pin[v]] = d.memnode[c]
          /\ \A b \in DOMAIN d.cells \ {c} : v \notin d.cells[b].cpus

(* So it is of every definition written. *)
CellsAreTheHosts == \A i \in DOMAIN domains : ShowsTopology(domains[i], host.node, host.siblings)

(* The topology a guest is shown is the host's, and its cells hold all of its memory
   (97 to 100, 216 to 222). *)
GuestTopologyIsTheHosts ==
    /\ CellsAreTheHosts
    /\ \A i \in DOMAIN domains :
          SumFunction([c \in DOMAIN domains[i].cells |-> domains[i].cells[c].memory])
              = domains[i].memory

(* The guests bind their memory strictly to their nodes. Starting them all leaves no
   node short, and when they use every node the nodes still hold the host's reserve
   between them, however it divides (109 to 118). *)
ReserveIsKept ==
    placed = "placed" =>
        LET taken(node) == SumFunction([i \in DOMAIN domains |->
                               IF node \in ToSet(domains[i].memnode)
                               THEN domains[i].cells[1].memory ELSE 0])
            left == [node \in DOMAIN host.free |-> host.free[node] - taken(node)]
        IN /\ \A node \in DOMAIN left : left[node] >= 0
           /\ DOMAIN left = UNION {ToSet(domains[i].memnode) : i \in DOMAIN domains} =>
                  SumFunction(left) >= host.reserve
================================================================================
