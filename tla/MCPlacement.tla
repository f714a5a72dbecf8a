------------------------------- MODULE MCPlacement -----------------------------
(* Two guests. First, configurations that vary what is claimed, on one host; then,
   on a host of three SMT cores in two nodes, placements that vary the CPUs with the
   memory fixed, and the memory with the CPUs fixed. *)
EXTENDS Placement, TLC

(* TLC computes a function once when it is joined with another. *)
Computed(f) == f @@ <<>>

MCKinds == {"cpu", "bdf"}
MCIds == 0 .. 5
MCCpus == 0 .. 5
MCNodes == {0, 1}
MCHostIds == {<<"bdf", 0>>}

Claimants(ids, emulators, nodes) ==
    [claims : SeqOf(MCKinds \X ids, 2), emulators : emulators, nodes : nodes, memory : {2}]

(* Threads c and c + 1 of a core, or c and c + 3; two of the cores on node 0. *)
Neighbours == Computed([c \in MCCpus |-> {c - (c % 2), c - (c % 2) + 1}])
Halves == Computed([c \in MCCpus |-> {c % 3, (c % 3) + 3}])
NodeOf(siblings) ==
    Computed([c \in MCCpus |-> IF 1 \in siblings[c] \/ 2 \in siblings[c] THEN 0 ELSE 1])
Machine(siblings, free, available, reserve) ==
    [node |-> NodeOf(siblings), siblings |-> siblings, free |-> free, available |-> available,
     reserve |-> reserve]
Roomy(siblings) == Machine(siblings, (0 :> 9) @@ (1 :> 9), 18, 1)

PinLists ==
    {<<0, 1>>, <<0, 0>>, <<2, 3>>, <<4, 5>>, <<0, 3>>, <<1, 4>>, <<2, 5>>, <<1, 2>>,
     <<0, 1, 2, 3>>, <<0, 2, 1, 3>>, <<0, 3, 1, 4>>, <<2, 3, 4, 5>>, <<2, 3, 0, 1>>, <<2>>}
Pinned(pins) == Computed([i \in DOMAIN pins |-> <<"cpu", pins[i]>>])
OnCpus(pins, emulators, nodes) ==
    [claims |-> Pinned(pins), emulators |-> emulators, nodes |-> nodes, memory |-> 2]
Holding(pins, node, memory) ==
    [claims |-> Pinned(pins), emulators |-> {pins[1]}, nodes |-> <<node>>, memory |-> memory]

ClaimDeployments ==
    {[config |-> <<a, b>>, host |-> Roomy(Neighbours)] :
        a \in Claimants(0 .. 1, {{1}}, {<<0>>}),
        b \in Claimants(0 .. 2, {{}, {1}, {2}}, {<<0>>, <<1>>})}

CpuDeployments ==
    {[config |-> <<OnCpus(a, {e}, <<0>>), OnCpus(b, {f}, <<1>>)>>, host |-> Roomy(s)] :
        a \in PinLists, b \in PinLists, e \in {0, 3}, f \in {2, 4, 5},
        s \in {Neighbours, Halves}}

(* One guest over both nodes, in either order. *)
AloneDeployments ==
    {[config |-> <<OnCpus(a, {e}, m)>>, host |-> Roomy(s)] :
        a \in PinLists, e \in {0, 3}, m \in {<<0>>, <<0, 1>>, <<1, 0>>, <<0, 0>>},
        s \in {Neighbours, Halves}}

MemoryDeployments ==
    {[config |-> <<Holding(<<2, 3>>, 0, a), Holding(<<4, 5>>, 1, b)>>,
      host |-> Machine(Neighbours, (0 :> x) @@ (1 :> y), z, r)] :
     a \in 1 .. 3, b \in 1 .. 3, x \in 2 .. 6, y \in 2 .. 6, z \in {4, 7, 10, 12}, r \in 1 .. 3}

MCDeployments ==
    ClaimDeployments \union CpuDeployments \union AloneDeployments \union MemoryDeployments
MCConfigs == {d.config : d \in MCDeployments}
================================================================================
