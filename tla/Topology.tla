-------------------------------- MODULE Topology -------------------------------
(* host/create-guests.py: check_topology(), which accepts the placement of the
   guests on the CPUs and NUMA nodes of the host before anything is built, and the
   part of render_domain() that writes the placement into a guest's definition.

   A placement q: q.guests, a sequence of [pins, emulators, nodes, memory], of which
   pins and nodes are sequences; what read_topology() found: q.node and q.siblings,
   the node and the SMT siblings of each CPU online, q.free, the free memory of each
   node, q.available, that of the host as a whole; q.reserve, what is to be left to
   the host. vCPUs and cells are numbered from 1 here, from 0 in the code. *)
EXTENDS Integers, Sequences, FiniteSets, FiniteSetsExt, SequencesExt

PinSet(g) == ToSet(g.pins)
Online(q) == DOMAIN q.node
HostNodes(q) == DOMAIN q.free
CeilDiv(a, b) == (a + b - 1) \div b
FloorDiv(a, b) == a \div b

(* What guest g takes from each of its nodes. *)
PerNode(g) == g.memory \div Len(g.nodes)
Required(q, node) ==
    SumFunction([i \in DOMAIN q.guests |->
                    IF node \in ToSet(q.guests[i].nodes) THEN PerNode(q.guests[i]) ELSE 0])

(* reserve_per_node: an equal share of the reserve, rounded up *)
ReservePerNodeFloor(q) == FloorDiv(q.reserve, Cardinality(HostNodes(q)))
ReservePerNode(q) == CeilDiv(q.reserve, Cardinality(HostNodes(q)))

(* node_vcpus: the vCPUs on each node *)
NodeVcpus(q, g) == [node \in ToSet(g.nodes) |-> {v \in DOMAIN g.pins : q.node[g.pins[v]] = node}]

(* Mutant: pins come two by two, whichever they are. *)
WholeCoresCounted(q, g) == Cardinality(PinSet(g)) = Len(g.pins)

(* Consecutive pins are both threads of one core. *)
WholeCores(q, g) ==
    \A i \in 1 .. Len(g.pins) \div 2 :
        LET pair == {g.pins[2 * i - 1], g.pins[2 * i]}
        IN Cardinality(pair) = 2 /\ \A c \in pair : q.siblings[c] = pair

PinsAccepted(q, i) ==
    LET g == q.guests[i]
        nodes == ToSet(g.nodes)
    IN /\ g.pins # <<>> /\ Len(g.pins) % 2 = 0
       /\ \A j \in 1 .. i - 1 : PinSet(g) \intersect PinSet(q.guests[j]) = {}
       /\ g.nodes # <<>> /\ IsInjective(g.nodes) /\ nodes \subseteq HostNodes(q)
       /\ g.memory % Len(g.nodes) = 0
       /\ \A c \in PinSet(g) : c \in Online(q) /\ q.node[c] \in nodes
       /\ WholeCores(q, g)
       /\ \A node \in nodes : NodeVcpus(q, g)[node] # {}

EmulatorsAccepted(q, i) ==
    LET g == q.guests[i]
        others == (UNION {PinSet(q.guests[j]) : j \in DOMAIN q.guests}) \ PinSet(g)
        taken == UNION {q.guests[j].emulators : j \in 1 .. i - 1}
    IN /\ g.emulators # {} /\ g.emulators \intersect (others \union taken) = {}
       /\ \A c \in g.emulators : c \in Online(q) /\ q.node[c] \in ToSet(g.nodes)

MemoryAccepted(q) ==
    LET used == UNION {ToSet(q.guests[i].nodes) : i \in DOMAIN q.guests}
    IN /\ \A node \in used : q.free[node] >= Required(q, node) + ReservePerNode(q)
       /\ q.available >= SumFunction([node \in used |-> Required(q, node)]) + q.reserve

Accepts(q) ==
    /\ q.reserve > 0
    /\ \A i \in DOMAIN q.guests : PinsAccepted(q, i) /\ EmulatorsAccepted(q, i)
    /\ MemoryAccepted(q)

(* Mutant: the cells in the order of the configuration, the nodes they are bound to
   in ascending order. *)
DomainSorted(q, g) ==
    [pin |-> g.pins, emulators |-> g.emulators, memory |-> g.memory,
     cells |-> [c \in DOMAIN g.nodes |-> [cpus |-> NodeVcpus(q, g)[g.nodes[c]],
                                          memory |-> PerNode(g)]],
     memnode |-> SetToSortSeq(ToSet(g.nodes), <)]

(* render_domain(): vcpupin, emulatorpin, memory, one cell for each node and the
   node that each cell is bound to. *)
Domain(q, g) ==
    [pin |-> g.pins, emulators |-> g.emulators, memory |-> g.memory,
     cells |-> [c \in DOMAIN g.nodes |-> [cpus |-> NodeVcpus(q, g)[g.nodes[c]],
                                          memory |-> PerNode(g)]],
     memnode |-> g.nodes]
================================================================================
