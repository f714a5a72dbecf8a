---------------------------- MODULE PlacementProofs ----------------------------
(* What an accepted placement gives to the guests, for any number of guests, CPUs,
   cores and nodes. *)
EXTENDS Placement, FiniteSetTheorems, WellFoundedInduction, TLAPS

(******************************* the configuration ********************************)
(* What validate_config() promises of every configuration it accepts, for any
   number of guests, claims and identifiers. *)

(* The claim k of guest i has been met. *)
Met(i, k) == i < g \/ (i = g /\ k < n)

(* The claims met are in the sets, apart from one another and from the host's;
   and a verdict is reached only after the last guest. *)
IInv ==
    /\ TypeOK
    /\ g <= Len(config) + 1
    /\ HostIds \subseteq seen
    /\ \A i \in DOMAIN config : \A k \in DOMAIN config[i].claims :
          Met(i, k) => config[i].claims[k] \in seen \ HostIds
    /\ \A i, j \in DOMAIN config :
          \A k \in DOMAIN config[i].claims, l \in DOMAIN config[j].claims :
              Met(i, k) /\ Met(j, l) /\ config[i].claims[k] = config[j].claims[l] =>
                  i = j /\ k = l
    /\ verdict = "valid" => g \notin DOMAIN config /\ EmulatorsApart

(* A configuration is a sequence of guests, each with its sequence of claims. *)
LEMMA ConfigShape ==
    ASSUME TypeOK
    PROVE  /\ config \in Seq(Guest)
           /\ DOMAIN config = 1 .. Len(config) /\ Len(config) \in Nat
           /\ \A i \in DOMAIN config :
                 /\ config[i].claims \in Seq(Claim)
                 /\ DOMAIN config[i].claims = 1 .. Len(config[i].claims)
                 /\ Len(config[i].claims) \in Nat
<1>1. config \in Seq(Guest)
  BY ConfigsAssumption DEF TypeOK
<1>2. \A i \in DOMAIN config : config[i] \in Guest
  BY <1>1
<1>3. \A i \in DOMAIN config : config[i].claims \in Seq(Claim)
  BY <1>2 DEF Guest
<1> QED
  BY <1>1, <1>3

LEMMA InitIInv == Init => IInv
<1> SUFFICES ASSUME Init
             PROVE  IInv
  OBVIOUS
<1>1. TypeOK
  BY HostIdsAssumption DEF Init, TypeOK
<1>2. \A i \in DOMAIN config : \A k \in DOMAIN config[i].claims : ~Met(i, k)
  <2> TAKE i \in DOMAIN config
  <2> TAKE k \in DOMAIN config[i].claims
  <2>1. i \in 1 .. Len(config) /\ k \in 1 .. Len(config[i].claims)
    BY <1>1, ConfigShape
  <2>2. Len(config) \in Nat /\ Len(config[i].claims) \in Nat
    BY <1>1, ConfigShape
  <2> QED
    BY <2>1, <2>2 DEF Met, Init
<1>3. g <= Len(config) + 1
  BY <1>1, ConfigShape DEF Init
<1> QED
  BY <1>1, <1>2, <1>3 DEF IInv, Init

LEMMA NextIInv == IInv /\ [Next]_vars => IInv'
<1> SUFFICES ASSUME IInv, [Next]_vars
             PROVE  IInv'
  OBVIOUS
<1> USE DEF IInv
<1>0. /\ DOMAIN config = 1 .. Len(config) /\ Len(config) \in Nat
      /\ \A i \in DOMAIN config :
            /\ config[i].claims \in Seq(Claim)
            /\ DOMAIN config[i].claims = 1 .. Len(config[i].claims)
            /\ Len(config[i].claims) \in Nat
  BY ConfigShape
<1>1. CASE RefusesForm
  BY <1>1 DEF RefusesForm, Refuses, TypeOK, Met, EmulatorsApart, Pins
<1>2. CASE Claims
  <2>1. CASE config[g].claims[n] \in seen
    BY <1>2, <2>1 DEF Claims, Refuses, TypeOK, Met
  <2>2. CASE config[g].claims[n] \notin seen
    <3> DEFINE c == config[g].claims[n]
    <3>1. /\ g \in DOMAIN config /\ n \in DOMAIN config[g].claims
          /\ seen' = seen \union {c} /\ n' = n + 1
          /\ config' = config /\ g' = g /\ verdict' = verdict /\ verdict = "pending"
      BY <1>2, <2>2 DEF Claims
    <3>2. c \in Claim
      BY <3>1, <1>0
    <3>3. TypeOK'
      BY <3>1, <3>2 DEF TypeOK
    <3>4. \A i \in DOMAIN config : \A k \in DOMAIN config[i].claims :
             Met(i, k)' => Met(i, k) \/ (i = g /\ k = n)
      <4> TAKE i \in DOMAIN config
      <4> TAKE k \in DOMAIN config[i].claims
      <4>1. k \in 1 .. Len(config[i].claims) /\ Len(config[i].claims) \in Nat
        BY <1>0
      <4>2. n \in Nat
        BY DEF TypeOK
      <4> QED
        BY <4>1, <4>2, <3>1 DEF Met
    <3>5. \A i \in DOMAIN config : \A k \in DOMAIN config[i].claims :
             Met(i, k)' => config[i].claims[k] \in seen' \ HostIds
      BY <3>1, <3>4, <2>2
    <3>6. ASSUME NEW i \in DOMAIN config, NEW j \in DOMAIN config,
                 NEW k \in DOMAIN config[i].claims, NEW l \in DOMAIN config[j].claims,
                 Met(i, k)', Met(j, l)', config[i].claims[k] = config[j].claims[l]
          PROVE  i = j /\ k = l
      <4>1. CASE Met(i, k) /\ Met(j, l)
        BY <4>1, <3>6
      <4>2. CASE Met(i, k) /\ j = g /\ l = n
        BY <4>2, <3>6, <2>2
      <4>3. CASE i = g /\ k = n /\ Met(j, l)
        BY <4>3, <3>6, <2>2
      <4>4. CASE i = g /\ k = n /\ j = g /\ l = n
        BY <4>4
      <4> QED
        BY <4>1, <4>2, <4>3, <4>4, <3>4, <3>6
    <3> QED
      BY <3>1, <3>3, <3>5, <3>6
  <2> QED
    BY <2>1, <2>2
<1>3. CASE NextGuest
  <2>1. /\ g \in DOMAIN config /\ n \notin DOMAIN config[g].claims
        /\ g' = g + 1 /\ n' = 1
        /\ config' = config /\ seen' = seen /\ verdict' = verdict /\ verdict = "pending"
    BY <1>3 DEF NextGuest
  <2>2. TypeOK' /\ g' <= Len(config) + 1
    BY <2>1, <1>0 DEF TypeOK
  <2>3. \A i \in DOMAIN config : \A k \in DOMAIN config[i].claims : Met(i, k)' => Met(i, k)
    BY <2>1, <1>0 DEF Met, TypeOK
  <2> QED
    BY <2>1, <2>2, <2>3
<1>4. CASE Concludes
  BY <1>4 DEF Concludes, Refuses, TypeOK, Met, EmulatorsApart, Pins
<1>5. CASE UNCHANGED vars
  BY <1>5 DEF vars, TypeOK, Met, EmulatorsApart, Pins
<1> QED
  BY <1>1, <1>2, <1>3, <1>4, <1>5 DEF Next

THEOREM Invariant == Spec => []IInv
  BY InitIInv, NextIInv, PTL DEF Spec

LEMMA IInvClaimsApart == IInv => ClaimsApart
<1> SUFFICES ASSUME IInv, verdict = "valid"
             PROVE  \A i, j \in DOMAIN config :
                      \A k \in DOMAIN config[i].claims, l \in DOMAIN config[j].claims :
                          /\ config[i].claims[k] \notin HostIds
                          /\ config[i].claims[k] = config[j].claims[l] => i = j /\ k = l
  BY DEF ClaimsApart
<1>1. DOMAIN config = 1 .. Len(config) /\ Len(config) \in Nat
  BY ConfigShape DEF IInv
<1>2. \A i \in DOMAIN config : i < g
  BY <1>1 DEF IInv, TypeOK
<1>3. \A i \in DOMAIN config : \A k \in DOMAIN config[i].claims : Met(i, k)
  BY <1>2 DEF Met
<1> QED
  BY <1>3 DEF IInv

LEMMA IInvCpusApart == IInv => CpusApart
<1> SUFFICES ASSUME IInv, verdict = "valid",
                    NEW i \in DOMAIN config, NEW j \in DOMAIN config, i # j,
                    NEW c \in Pins(config[i]) \union config[i].emulators,
                    c \in Pins(config[j]) \union config[j].emulators
             PROVE  FALSE
  BY DEF CpusApart
<1>1. CASE c \in Pins(config[i]) /\ c \in Pins(config[j])
  BY <1>1, IInvClaimsApart DEF Pins, ClaimsApart
<1>2. CASE c \in config[i].emulators
  BY <1>2 DEF IInv, EmulatorsApart
<1>3. CASE c \in config[j].emulators
  BY <1>3 DEF IInv, EmulatorsApart
<1> QED
  BY <1>1, <1>2, <1>3

(* validate_config() (config.py:98-150) accepts no configuration in which an
   identifier is given twice or is the host's. *)
THEOREM AcceptedClaimsApart == Spec => []ClaimsApart
  BY Invariant, IInvClaimsApart, PTL

(* ... nor one in which a CPU works for two guests (109, 151-152). *)
THEOREM AcceptedCpusApart == Spec => []CpusApart
  BY Invariant, IInvCpusApart, PTL

(************************************* sums ***************************************)
(* SumFunction of the community modules is a recursive function over the subsets of
   its domain. What it computes is proved by induction over their size; the induction
   itself comes from the well-foundedness of < , whose theorem is about sets of
   naturals. *)

(* Every set of naturals that is not empty has a least element; *)
LEMMA LeastNat ==
    ASSUME NEW T \in SUBSET Nat, T # {} PROVE \E x \in T : \A y \in T : x <= y
<1>1. IsWellFoundedOn(OpToRel(<, Nat), Nat)
  BY NatLessThanWellFounded
<1>2. PICK x \in T : \A y \in T : ~ (<<y, x>> \in OpToRel(<, Nat))
  BY <1>1, WFMin
<1>3. \A y \in T : ~ (y < x)
  BY <1>2, Zenon DEF OpToRel
<1> QED
  BY <1>3

(* so a set with 0 and each successor is Nat. *)
LEMMA Induction ==
    ASSUME NEW T \in SUBSET Nat, 0 \in T, \A m \in T : m + 1 \in T PROVE T = Nat
<1> SUFFICES ASSUME Nat \ T # {} PROVE FALSE
  OBVIOUS
<1>1. PICK x \in Nat \ T : \A y \in Nat \ T : x <= y
  BY LeastNat
<1>2. x - 1 \in T
  BY <1>1
<1> QED
  BY <1>1, <1>2

(* The sums it[s] of f over the subsets s of S: those of one summand and of the rest. *)
One(s) == CHOOSE x \in s : TRUE
Rest(f, it, s) == IF s = {} THEN 0 ELSE f[One(s)] + it[s \ {One(s)}]

Sums(f, it, S) == it = [s \in SUBSET S |-> Rest(f, it, s)]

LEMMA SumIsChosen ==
    ASSUME NEW f, NEW S
    PROVE  SumFunctionOnSet(f, S) = (CHOOSE it : Sums(f, it, S))[S]
BY DEF SumFunctionOnSet, FoldFunctionOnSet, MapThenFoldSet, Sums, Rest, One

(* The subsets of at most m elements. *)
Sized(S, m) == {s \in SUBSET S : IsFiniteSet(s) /\ Cardinality(s) <= m}

LEMMA Smaller ==
    ASSUME NEW s, IsFiniteSet(s), s # {}
    PROVE  /\ One(s) \in s /\ IsFiniteSet(s \ {One(s)})
           /\ Cardinality(s \ {One(s)}) = Cardinality(s) - 1
           /\ Cardinality(s) \in Nat \ {0}
<1>1. One(s) \in s
  BY DEF One
<1>2. Cardinality(s) \in Nat /\ Cardinality(s) # 0
  BY FS_CardinalityType, FS_EmptySet
<1> QED
  BY <1>1, <1>2, FS_RemoveElement

LEMMA SizedRest ==
    ASSUME NEW S, NEW m \in Nat, NEW s \in Sized(S, m + 1), s # {} PROVE s \ {One(s)} \in Sized(S, m)
<1>1. IsFiniteSet(s) /\ Cardinality(s) <= m + 1 /\ s \in SUBSET S
  BY DEF Sized
<1>2. IsFiniteSet(s \ {One(s)}) /\ Cardinality(s \ {One(s)}) = Cardinality(s) - 1 /\ Cardinality(s) \in Nat
  BY <1>1, Smaller
<1> QED
  BY <1>1, <1>2 DEF Sized

LEMMA SizedGrows ==
    ASSUME NEW S, NEW m \in Nat PROVE Sized(S, m) \subseteq Sized(S, m + 1)
<1> SUFFICES ASSUME NEW s \in Sized(S, m) PROVE s \in Sized(S, m + 1)
  OBVIOUS
<1>1. Cardinality(s) \in Nat
  BY FS_CardinalityType DEF Sized
<1> QED
  BY <1>1 DEF Sized

(* The sums of the sets up to a size exist, *)
LEMMA SumsExist ==
    ASSUME NEW f, NEW S, IsFiniteSet(S) PROVE \E it : Sums(f, it, S)
<1> DEFINE T == {m \in Nat : \E it : it = [s \in Sized(S, m) |-> Rest(f, it, s)]}
<1>1. 0 \in T
  <2> DEFINE it == [s \in Sized(S, 0) |-> 0]
  <2>1. \A s \in Sized(S, 0) : s = {}
    BY FS_EmptySet, FS_CardinalityType DEF Sized
  <2>2. it = [s \in Sized(S, 0) |-> Rest(f, it, s)]
    BY <2>1 DEF Rest
  <2> QED
    BY <2>2
<1>2. ASSUME NEW m \in T PROVE m + 1 \in T
  <2>1. PICK it : it = [s \in Sized(S, m) |-> Rest(f, it, s)]
    OBVIOUS
  <2> DEFINE up == [s \in Sized(S, m + 1) |-> Rest(f, it, s)]
  <2>2. Sized(S, m) \subseteq Sized(S, m + 1)
    BY SizedGrows
  <2>3. \A s \in Sized(S, m) : up[s] = it[s]
    BY <2>1, <2>2
  <2>4. ASSUME NEW s \in Sized(S, m + 1) PROVE Rest(f, it, s) = Rest(f, up, s)
    <3>1. CASE s # {}
      <4> DEFINE x == One(s)
      <4>1. s \ {x} \in Sized(S, m)
        BY <3>1, SizedRest
      <4>2. up[s \ {x}] = it[s \ {x}]
        BY <2>3, <4>1
      <4> HIDE DEF up
      <4> QED
        BY <3>1, <4>2 DEF Rest
    <3> QED
      BY <3>1 DEF Rest
  <2>5. up = [s \in Sized(S, m + 1) |-> Rest(f, up, s)]
    BY <2>4
  <2> HIDE DEF up
  <2>6. \E jt : jt = [s \in Sized(S, m + 1) |-> Rest(f, jt, s)]
    BY <2>5
  <2> QED
    BY <2>6
<1>3. Cardinality(S) \in T
  <2>1. T = Nat
    <3> HIDE DEF T
    <3>1. T \subseteq Nat
      BY DEF T
    <3> QED
      BY <1>1, <1>2, <3>1, Induction
  <2> QED
    BY <2>1, FS_CardinalityType
<1>4. Sized(S, Cardinality(S)) = SUBSET S
  BY FS_Subset DEF Sized
<1> QED
  BY <1>3, <1>4 DEF Sums

(* and are the same whatever set they are part of. *)
LEMMA SumsAgree ==
    ASSUME NEW f, NEW S, NEW T, NEW it, NEW jt, Sums(f, it, S), Sums(f, jt, T),
           NEW u, u \subseteq S, u \subseteq T, IsFiniteSet(u)
    PROVE  it[u] = jt[u]
<1> DEFINE U == {m \in Nat : \A s \in Sized(u, m) : it[s] = jt[s]}
<1>0. \A s \in SUBSET u : it[s] = Rest(f, it, s) /\ jt[s] = Rest(f, jt, s)
  BY DEF Sums
<1>1. 0 \in U
  <2>1. \A s \in Sized(u, 0) : s = {}
    BY FS_EmptySet, FS_CardinalityType DEF Sized
  <2> QED
    BY <1>0, <2>1 DEF Rest, Sized
<1>2. ASSUME NEW m \in U PROVE m + 1 \in U
  <2> SUFFICES ASSUME NEW s \in Sized(u, m + 1) PROVE it[s] = jt[s]
    OBVIOUS
  <2>1. CASE s # {}
    <3> DEFINE x == One(s)
    <3>1. s \ {x} \in Sized(u, m)
      BY <2>1, SizedRest
    <3>2. it[s \ {x}] = jt[s \ {x}]
      BY <3>1
    <3>3. s \in SUBSET u
      BY DEF Sized
    <3> QED
      BY <1>0, <2>1, <3>2, <3>3 DEF Rest
  <2>2. CASE s = {}
    BY <1>0, <2>2 DEF Rest
  <2> QED
    BY <2>1, <2>2
<1>3. u \in Sized(u, Cardinality(u)) /\ Cardinality(u) \in Nat
  BY FS_CardinalityType DEF Sized
<1>4. U = Nat
  <2> HIDE DEF U
  <2>1. U \subseteq Nat
    BY DEF U
  <2> QED
    BY <1>1, <1>2, <2>1, Induction
<1> QED
  BY <1>3, <1>4

(* So the sum over a set is that of one element and the rest. *)
LEMMA SumOfRest ==
    ASSUME NEW f, NEW S, IsFiniteSet(S)
    PROVE  /\ S = {} => SumFunctionOnSet(f, S) = 0
           /\ S # {} => SumFunctionOnSet(f, S) = f[One(S)] + SumFunctionOnSet(f, S \ {One(S)})
<1> DEFINE it == CHOOSE it : Sums(f, it, S)
<1>1. Sums(f, it, S)
  BY SumsExist
<1>2. it[S] = Rest(f, it, S)
  BY <1>1 DEF Sums
<1>3. SumFunctionOnSet(f, S) = it[S]
  BY SumIsChosen
<1>4. ASSUME S # {}
      PROVE  SumFunctionOnSet(f, S) = f[One(S)] + SumFunctionOnSet(f, S \ {One(S)})
  <2> DEFINE x == One(S)
  <2> DEFINE jt == CHOOSE jt : Sums(f, jt, S \ {x})
  <2>1. IsFiniteSet(S \ {x})
    BY <1>4, Smaller
  <2>2. Sums(f, jt, S \ {x})
    BY <2>1, SumsExist
  <2>3. SumFunctionOnSet(f, S \ {x}) = jt[S \ {x}]
    BY SumIsChosen
  <2> HIDE DEF it, jt
  <2>4. it[S \ {x}] = jt[S \ {x}]
    BY <1>1, <2>1, <2>2, SumsAgree
  <2> QED
    BY <1>2, <1>3, <1>4, <2>3, <2>4 DEF Rest
<1> HIDE DEF it
<1> QED
  BY <1>2, <1>3, <1>4 DEF Rest

(* Summands that are at least, or all, k. *)
LEMMA SumBounds ==
    ASSUME NEW f, NEW S, IsFiniteSet(S), NEW k \in Int, \A x \in S : f[x] \in Int
    PROVE  /\ SumFunctionOnSet(f, S) \in Int
           /\ (\A x \in S : f[x] >= k) => SumFunctionOnSet(f, S) >= k * Cardinality(S)
           /\ (\A x \in S : f[x] = k) => SumFunctionOnSet(f, S) = k * Cardinality(S)
<1> DEFINE Holds(s) == /\ SumFunctionOnSet(f, s) \in Int
                       /\ (\A x \in S : f[x] >= k) => SumFunctionOnSet(f, s) >= k * Cardinality(s)
                       /\ (\A x \in S : f[x] = k) => SumFunctionOnSet(f, s) = k * Cardinality(s)
           T == {m \in Nat : \A s \in SUBSET S : IsFiniteSet(s) /\ Cardinality(s) = m => Holds(s)}
<1>1. 0 \in T
  <2> SUFFICES ASSUME NEW s \in SUBSET S, IsFiniteSet(s), Cardinality(s) = 0 PROVE Holds(s)
    OBVIOUS
  <2>1. SumFunctionOnSet(f, s) = 0
    BY FS_EmptySet, SumOfRest
  <2>2. k * Cardinality(s) = 0
    OBVIOUS
  <2> QED
    BY <2>1, <2>2
<1>2. ASSUME NEW m \in T PROVE m + 1 \in T
  <2> SUFFICES ASSUME NEW s \in SUBSET S, IsFiniteSet(s), Cardinality(s) = m + 1 PROVE Holds(s)
    OBVIOUS
  <2> DEFINE x == One(s)
             r == s \ {x}
  <2>1. s # {}
    BY FS_EmptySet
  <2>2. x \in s /\ IsFiniteSet(r) /\ Cardinality(r) = m /\ r \in SUBSET S
    BY <2>1, Smaller
  <2>3. SumFunctionOnSet(f, s) = f[x] + SumFunctionOnSet(f, r)
    BY <2>1, SumOfRest
  <2>4. Holds(r)
    BY <2>2
  <2>5. k * (m + 1) = k * m + k /\ k * m \in Int
    OBVIOUS
  <2>6. f[x] \in Int
    BY <2>2
  <2> HIDE DEF x, r
  <2> QED
    BY <2>2, <2>3, <2>4, <2>5, <2>6
<1>3. T = Nat
  <2> HIDE DEF T
  <2>1. T \subseteq Nat
    BY DEF T
  <2> QED
    BY <1>1, <1>2, <2>1, Induction
<1>4. Cardinality(S) \in Nat
  BY FS_CardinalityType
<1> QED
  BY <1>3, <1>4

(******************************* the topology *************************************)
Sequences(q) ==
    /\ DOMAIN q.guests \subseteq Nat \ {0}
    /\ \A i \in DOMAIN q.guests : /\ Len(q.guests[i].pins) \in Nat
                                  /\ DOMAIN q.guests[i].pins = 1 .. Len(q.guests[i].pins)

LEMMA Half ==
    ASSUME NEW size \in Nat, size % 2 = 0, NEW m \in 1 .. size
    PROVE  \E k \in 1 .. size \div 2 :
               (m = 2 * k - 1 \/ m = 2 * k) /\ 2 * k - 1 \in 1 .. size /\ 2 * k \in 1 .. size
<1>1. CASE m % 2 = 0
  <2>1. m \div 2 \in 1 .. size \div 2 /\ m = 2 * (m \div 2) /\ m - 1 \in 1 .. size
    BY <1>1
  <2> QED
    BY <2>1
<1>2. CASE m % 2 = 1
  <2>1. (m + 1) \div 2 \in 1 .. size \div 2 /\ m = 2 * ((m + 1) \div 2) - 1
       /\ m + 1 \in 1 .. size
    BY <1>2
  <2> QED
    BY <2>1
<1> QED
  BY <1>1, <1>2

(* Each pinned thread is pinned with the other thread of its core. *)
LEMMA CoresWhole ==
    ASSUME NEW q, NEW i \in DOMAIN q.guests, Sequences(q), PinsAccepted(q, i)
    PROVE  \A c \in PinSet(q.guests[i]) :
               c \in q.siblings[c] /\ q.siblings[c] \subseteq PinSet(q.guests[i])
<1> DEFINE pins == q.guests[i].pins
<1>1. Len(pins) \in Nat /\ DOMAIN pins = 1 .. Len(pins)
  BY DEF Sequences
<1>2. PinSet(q.guests[i]) = {pins[m] : m \in 1 .. Len(pins)}
  BY <1>1 DEF PinSet, ToSet
<1>3. Len(pins) % 2 = 0 /\ WholeCores(q, q.guests[i])
  BY DEF PinsAccepted
<1>4. ASSUME NEW m \in 1 .. Len(pins)
      PROVE  pins[m] \in q.siblings[pins[m]] /\ q.siblings[pins[m]] \subseteq PinSet(q.guests[i])
  <2>1. PICK k \in 1 .. Len(pins) \div 2 :
           /\ m = 2 * k - 1 \/ m = 2 * k
           /\ 2 * k - 1 \in 1 .. Len(pins) /\ 2 * k \in 1 .. Len(pins)
    BY <1>1, <1>3, Half
  <2>3. \A c \in {pins[2 * k - 1], pins[2 * k]} : q.siblings[c] = {pins[2 * k - 1], pins[2 * k]}
    BY <1>3 DEF WholeCores
  <2> QED
    BY <2>1, <2>3, <1>2
<1> QED
  BY <1>2, <1>4

(* What one guest's vCPUs are pinned to is nothing of another's. *)
LEMMA GuestsApart ==
    ASSUME NEW q, Sequences(q), Accepts(q), NEW i \in DOMAIN q.guests, NEW j \in DOMAIN q.guests, i # j
    PROVE  PinSet(q.guests[i]) \intersect (PinSet(q.guests[j]) \union q.guests[j].emulators) = {}
<1>1. \A k \in DOMAIN q.guests : PinsAccepted(q, k) /\ EmulatorsAccepted(q, k)
  BY DEF Accepts
<1>2. i \in Nat \ {0} /\ j \in Nat \ {0}
  BY DEF Sequences
<1>a. \A k \in DOMAIN q.guests : \A l \in 1 .. k - 1 :
         PinSet(q.guests[k]) \intersect PinSet(q.guests[l]) = {}
  BY <1>1 DEF PinsAccepted
<1>3. PinSet(q.guests[i]) \intersect PinSet(q.guests[j]) = {}
  <2>1. CASE i < j
    <3>1. PinSet(q.guests[j]) \intersect PinSet(q.guests[i]) = {}
      BY <1>a, <1>2, <2>1
    <3> QED
      BY <3>1
  <2>2. CASE j < i
    BY <1>a, <1>2, <2>2
  <2> QED
    BY <1>2, <2>1, <2>2
<1>4. PinSet(q.guests[i]) \intersect q.guests[j].emulators = {}
  <2> DEFINE others == (UNION {PinSet(q.guests[k]) : k \in DOMAIN q.guests}) \ PinSet(q.guests[j])
  <2>1. q.guests[j].emulators \intersect others = {}
    BY <1>1 DEF EmulatorsAccepted
  <2>2. PinSet(q.guests[i]) \subseteq others
    <3> SUFFICES ASSUME NEW c \in PinSet(q.guests[i]) PROVE c \in others
      OBVIOUS
    <3>1. c \in UNION {PinSet(q.guests[k]) : k \in DOMAIN q.guests}
      OBVIOUS
    <3>2. c \notin PinSet(q.guests[j])
      BY <1>3
    <3> QED
      BY <3>1, <3>2, Zenon
  <2> QED
    BY <2>1, <2>2
<1> QED
  BY <1>3, <1>4

(* The definition of one accepted guest shows it the host's topology. *)
LEMMA CellsOfOne ==
    ASSUME NEW q, Sequences(q), Accepts(q), NEW i \in DOMAIN q.guests
    PROVE  ShowsTopology(Domain(q, q.guests[i]), q.node, q.siblings)
<1> DEFINE guest == q.guests[i]
           d == Domain(q, guest)
<1>1. PinsAccepted(q, i)
  BY DEF Accepts
<1>2. /\ d.pin = guest.pins /\ d.memnode = guest.nodes
      /\ d.cells = [c \in DOMAIN guest.nodes |->
                       [cpus |-> NodeVcpus(q, guest)[guest.nodes[c]], memory |-> PerNode(guest)]]
  BY DEF Domain
<1>3. \A c \in DOMAIN guest.nodes :
         d.cells[c].cpus = {v \in DOMAIN guest.pins : q.node[guest.pins[v]] = guest.nodes[c]}
  <2> TAKE c \in DOMAIN guest.nodes
  <2>1. guest.nodes[c] \in ToSet(guest.nodes)
    BY DEF ToSet
  <2>2. NodeVcpus(q, guest)[guest.nodes[c]]
           = {v \in DOMAIN guest.pins : q.node[guest.pins[v]] = guest.nodes[c]}
    BY <2>1 DEF NodeVcpus
  <2> QED
    BY <1>2, <2>2
<1>4. WholeCores(q, guest) /\ IsInjective(guest.nodes)
  BY <1>1 DEF PinsAccepted
<1>5. \A v \in DOMAIN guest.pins : \E c \in DOMAIN guest.nodes : q.node[guest.pins[v]] = guest.nodes[c]
  <2> TAKE v \in DOMAIN guest.pins
  <2>1. guest.pins[v] \in PinSet(guest)
    BY DEF PinSet, ToSet
  <2>2. q.node[guest.pins[v]] \in ToSet(guest.nodes)
    BY <1>1, <2>1 DEF PinsAccepted
  <2> QED
    BY <2>2 DEF ToSet
<1>6. \A b, c \in DOMAIN guest.nodes : guest.nodes[b] = guest.nodes[c] => b = c
  BY <1>4 DEF IsInjective
<1> HIDE DEF guest, d
<1>7. \A v \in DOMAIN d.pin : \E c \in DOMAIN d.cells :
          /\ v \in d.cells[c].cpus /\ q.node[d.pin[v]] = d.memnode[c]
          /\ \A b \in DOMAIN d.cells \ {c} : v \notin d.cells[b].cpus
  <2> TAKE v \in DOMAIN d.pin
  <2>1. PICK c \in DOMAIN guest.nodes : q.node[guest.pins[v]] = guest.nodes[c]
    BY <1>2, <1>5
  <2>2. c \in DOMAIN d.cells /\ v \in d.cells[c].cpus /\ q.node[d.pin[v]] = d.memnode[c]
    BY <1>2, <1>3, <2>1
  <2>3. ASSUME NEW b \in DOMAIN d.cells \ {c} PROVE v \notin d.cells[b].cpus
    <3>1. b \in DOMAIN guest.nodes /\ b # c
      BY <1>2
    <3>2. guest.nodes[b] # q.node[guest.pins[v]]
      BY <1>6, <2>1, <3>1
    <3> QED
      BY <1>3, <3>1, <3>2
  <2> QED
    BY <2>2, <2>3
<1>8. \A k \in 1 .. Len(d.pin) \div 2 :
         LET pair == {d.pin[2 * k - 1], d.pin[2 * k]}
         IN Cardinality(pair) = 2 /\ \A c \in pair : q.siblings[c] = pair
  BY <1>2, <1>4 DEF WholeCores
<1>9. DOMAIN d.memnode = DOMAIN d.cells /\ IsInjective(d.memnode)
  BY <1>2, <1>4
<1> QED
  BY <1>7, <1>8, <1>9 DEF d, guest, ShowsTopology

(***************************** the specification **********************************)
(* Definitions are written for a placement that was accepted, of a configuration that
   was, and nothing changes afterwards. *)
Rendered ==
    /\ placed = "placed" => verdict = "valid" /\ Accepts(Deployment)
    /\ domains # <<>> => placed = "placed"
    /\ placed = "placed" => domains = [i \in DOMAIN config |-> Domain(Deployment, Request(config[i]))]

(* The host is one of those presented. *)
HostKnown ==
    /\ IsFiniteSet(DOMAIN host.free) /\ DOMAIN host.free # {}
    /\ host.free \in [DOMAIN host.free -> Nat] /\ host.reserve \in Int

PInv == IInv /\ Rendered /\ HostKnown

LEMMA InitPInv == PlacementInit => PInv
<1> SUFFICES ASSUME PlacementInit PROVE PInv
  OBVIOUS
<1>1. HostKnown
  <2>1. PICK d \in Deployments : host = d.host
    BY DEF PlacementInit
  <2> QED
    BY <2>1, DeploymentsAssumption DEF HostKnown
<1> QED
  BY <1>1, InitIInv DEF PlacementInit, PInv, Rendered

LEMMA NextPInv == PInv /\ [PlacementNext]_placementVars => PInv'
<1> SUFFICES ASSUME PInv, [PlacementNext]_placementVars PROVE PInv'
  OBVIOUS
<1>1. IInv'
  BY NextIInv DEF PInv, PlacementNext, Validates, Places, placementVars, vars
<1>5. HostKnown'
  <2>1. host' = host
    BY DEF PlacementNext, Validates, Places, placementVars
  <2> QED
    BY <2>1 DEF PInv, HostKnown
<1>2. CASE Validates
  <2>1. verdict = "pending" /\ UNCHANGED <<host, placed, domains>>
    BY <1>2 DEF Validates, Next, RefusesForm, Claims, NextGuest, Concludes
  <2> QED
    BY <1>1, <1>5, <2>1 DEF PInv, Rendered
<1>3. CASE Places
  <2>1. config' = config /\ host' = host /\ verdict' = verdict /\ verdict = "valid"
    BY <1>3 DEF Places, vars
  <2>2. Deployment' = Deployment
    BY <2>1 DEF Deployment
  <2>3. CASE Accepts(Deployment)
    <3>1. placed' = "placed" /\ domains' = [i \in DOMAIN config |-> Domain(Deployment, Request(config[i]))]
      BY <1>3, <2>3 DEF Places
    <3>2. Accepts(Deployment)'
      BY <2>2, <2>3
    <3> QED
      BY <1>1, <1>5, <2>1, <2>2, <3>1, <3>2 DEF PInv, Rendered
  <2>4. CASE ~Accepts(Deployment)
    <3>1. placed' = "refused" /\ domains' = domains /\ placed = "pending"
      BY <1>3, <2>4 DEF Places
    <3> QED
      BY <1>1, <1>5, <3>1 DEF PInv, Rendered
  <2> QED
    BY <2>3, <2>4
<1>4. CASE UNCHANGED placementVars
  <2>1. config' = config /\ host' = host /\ verdict' = verdict /\ placed' = placed /\ domains' = domains
    BY <1>4 DEF placementVars
  <2>2. Deployment' = Deployment
    BY <2>1 DEF Deployment
  <2>3. Accepts(Deployment)' <=> Accepts(Deployment)
    BY <2>2
  <2> QED
    BY <1>1, <1>5, <2>1, <2>2, <2>3 DEF PInv, Rendered
<1> QED
  BY <1>2, <1>3, <1>4 DEF PlacementNext

LEMMA PlacementInvariant == PlacementSpec => []PInv
BY InitPInv, NextPInv, PTL DEF PlacementSpec

LEMMA IsSequence ==
    ASSUME NEW size \in Nat, NEW f, f = [v \in 1 .. size |-> f[v]]
    PROVE  Len(f) \in Nat /\ DOMAIN f = 1 .. Len(f)
<1>1. f \in [1 .. size -> {f[v] : v \in 1 .. size}]
  OBVIOUS
<1>2. f \in Seq({f[v] : v \in 1 .. size})
  BY <1>1
<1> QED
  BY <1>2

(* The pins of a guest are a sequence, as its claims are. *)
LEMMA PlacedShape ==
    ASSUME PInv
    PROVE  Sequences(Deployment) /\ DOMAIN Deployment.guests = DOMAIN config
<1>1. config \in Seq(Guest) /\ DOMAIN config = 1 .. Len(config) /\ Len(config) \in Nat
  BY ConfigShape DEF PInv, IInv
<1>2. ASSUME NEW i \in DOMAIN config
      PROVE  LET pins == PinList(config[i]) IN Len(pins) \in Nat /\ DOMAIN pins = 1 .. Len(pins)
  <2> DEFINE claims == config[i].claims
             cpus == {k \in DOMAIN claims : claims[k][1] = "cpu"}
             pins == PinList(config[i])
  <2>1. DOMAIN claims = 1 .. Len(claims) /\ Len(claims) \in Nat
    BY ConfigShape DEF PInv, IInv
  <2>2. IsFiniteSet(cpus)
    <3>1. IsFiniteSet(1 .. Len(claims))
      BY <2>1, FS_Interval
    <3>2. cpus \subseteq 1 .. Len(claims)
      BY <2>1
    <3> QED
      BY <3>1, <3>2, FS_Subset
  <2>3. Cardinality(cpus) \in Nat
    BY <2>2, FS_CardinalityType
  <2>4. pins = [v \in 1 .. Cardinality(cpus) |-> pins[v]]
    BY DEF PinList
  <2> HIDE DEF pins
  <2>5. Len(pins) \in Nat /\ DOMAIN pins = 1 .. Len(pins)
    BY <2>3, <2>4, IsSequence
  <2> QED
    BY <2>5 DEF pins
<1> QED
  BY <1>1, <1>2 DEF Sequences, Deployment, Request

(* The definition written for guest i is that of an accepted placement. *)
LEMMA RenderedFor ==
    ASSUME PInv, NEW i \in DOMAIN domains
    PROVE  /\ i \in DOMAIN Deployment.guests /\ Accepts(Deployment) /\ Sequences(Deployment)
           /\ DOMAIN domains = DOMAIN Deployment.guests
           /\ domains[i] = Domain(Deployment, Deployment.guests[i])
<1>1. placed = "placed"
  <2>1. domains # <<>>
    OBVIOUS
  <2> QED
    BY <2>1 DEF PInv, Rendered
<1>2. domains = [j \in DOMAIN config |-> Domain(Deployment, Request(config[j]))]
  BY <1>1 DEF PInv, Rendered
<1>3. \A j \in DOMAIN config : Deployment.guests[j] = Request(config[j])
  BY DEF Deployment
<1> QED
  BY <1>1, <1>2, <1>3, PlacedShape DEF PInv, Rendered

(* In an accepted configuration no identifier is given twice, and no CPU works for two
   guests, also when its placement is refused (config.py 98 to 152). *)
THEOREM PlacedClaimsApart == PlacementSpec => [](ClaimsApart /\ CpusApart)
<1>1. PInv => ClaimsApart /\ CpusApart
  BY IInvClaimsApart, IInvCpusApart DEF PInv
<1> QED
  BY <1>1, PlacementInvariant, PTL

(* No core of the host is shared by guests, whatever list of pins and whatever sibling
   lists were accepted (create-guests.py 83 to 108). *)
THEOREM GuestsHaveTheirCores == PlacementSpec => []CoresApart
<1>1. ASSUME PInv, NEW i \in DOMAIN domains, NEW j \in DOMAIN domains
      PROVE  /\ Cores(domains[i]) = ToSet(domains[i].pin)
             /\ i # j => Cores(domains[i])
                           \intersect (Cores(domains[j]) \union domains[j].emulators) = {}
  <2>1. \A k \in DOMAIN domains :
           /\ Cores(domains[k]) = PinSet(Deployment.guests[k])
           /\ ToSet(domains[k].pin) = PinSet(Deployment.guests[k])
           /\ domains[k].emulators = Deployment.guests[k].emulators
    <3> TAKE k \in DOMAIN domains
    <3>1. /\ Accepts(Deployment) /\ Sequences(Deployment) /\ k \in DOMAIN Deployment.guests
          /\ domains[k] = Domain(Deployment, Deployment.guests[k])
      BY <1>1, RenderedFor
    <3>2. /\ domains[k].pin = Deployment.guests[k].pins
          /\ domains[k].emulators = Deployment.guests[k].emulators
      BY <3>1 DEF Domain
    <3>3. PinsAccepted(Deployment, k)
      BY <3>1 DEF Accepts
    <3>4. \A c \in PinSet(Deployment.guests[k]) :
             c \in host.siblings[c] /\ host.siblings[c] \subseteq PinSet(Deployment.guests[k])
      <4>1. Deployment.siblings = host.siblings
        BY DEF Deployment
      <4> QED
        BY <3>1, <3>3, <4>1, CoresWhole
    <3>5. ToSet(domains[k].pin) = PinSet(Deployment.guests[k])
      BY <3>2 DEF PinSet
    <3>6. Cores(domains[k]) = PinSet(Deployment.guests[k])
      BY <3>4, <3>5 DEF Cores
    <3> QED
      BY <3>2, <3>5, <3>6
  <2>2. i # j => PinSet(Deployment.guests[i])
                   \intersect (PinSet(Deployment.guests[j]) \union Deployment.guests[j].emulators) = {}
    BY <1>1, RenderedFor, GuestsApart
  <2> QED
    BY <2>1, <2>2
<1>2. PInv => CoresApart
  BY <1>1 DEF CoresApart
<1> QED
  BY <1>2, PlacementInvariant, PTL

(* The memory of a guest divides evenly over its cells. *)
LEMMA MemoryOfOne ==
    ASSUME NEW q, NEW i \in DOMAIN q.guests, PinsAccepted(q, i),
           q.guests[i].nodes \in Seq(Nodes), q.guests[i].memory \in Nat
    PROVE  LET d == Domain(q, q.guests[i])
           IN /\ SumFunction([c \in DOMAIN d.cells |-> d.cells[c].memory]) = d.memory
              /\ 1 \in DOMAIN d.cells /\ d.cells[1].memory = PerNode(q.guests[i])
              /\ PerNode(q.guests[i]) \in Nat
<1> DEFINE guest == q.guests[i]
           d == Domain(q, guest)
           f == [c \in DOMAIN d.cells |-> d.cells[c].memory]
           size == Len(guest.nodes)
<1>1. size \in Nat \ {0} /\ DOMAIN guest.nodes = 1 .. size /\ guest.memory % size = 0
  BY DEF PinsAccepted
<1>2. d.memory = guest.memory /\ DOMAIN d.cells = 1 .. size
  BY <1>1 DEF Domain
<1>3. \A c \in 1 .. size : f[c] = PerNode(guest) /\ d.cells[c].memory = PerNode(guest)
  BY <1>1 DEF Domain
<1>4. PerNode(guest) \in Nat /\ size * PerNode(guest) = guest.memory
  <2>1. guest.memory \in Nat
    OBVIOUS
  <2> HIDE DEF guest, size
  <2>2. PerNode(guest) = guest.memory \div size
    BY DEF PerNode, size
  <2>3. size * (guest.memory \div size) = guest.memory
    BY <1>1, <2>1
  <2>4. guest.memory \div size \in Nat
    BY <1>1, <2>1
  <2> QED
    BY <2>2, <2>3, <2>4
<1>5. IsFiniteSet(1 .. size) /\ Cardinality(1 .. size) = size
  BY <1>1, FS_Interval
<1>6. SumFunction(f) = SumFunctionOnSet(f, 1 .. size)
  BY <1>2 DEF SumFunction
<1> HIDE DEF f, size, d, guest
<1>7. SumFunctionOnSet(f, 1 .. size) = PerNode(guest) * Cardinality(1 .. size)
  <2> DEFINE k == PerNode(guest)
             S == 1 .. size
  <2>1. k \in Int /\ IsFiniteSet(S) /\ \A c \in S : f[c] = k
    BY <1>3, <1>4, <1>5
  <2> HIDE DEF k, S
  <2>2. \A c \in S : f[c] \in Int
    BY <2>1
  <2>3. SumFunctionOnSet(f, S) = k * Cardinality(S)
    BY <2>1, <2>2, SumBounds
  <2> QED
    BY <2>3 DEF k, S
<1>8. SumFunction(f) = d.memory
  BY <1>1, <1>2, <1>4, <1>5, <1>6, <1>7
<1>9. 1 \in DOMAIN d.cells
  BY <1>1, <1>2
<1> QED
  BY <1>1, <1>2, <1>3, <1>4, <1>8, <1>9 DEF f, d, guest

(* What the guests of a configuration ask for is of its form. *)
LEMMA RequestTyped ==
    ASSUME PInv, NEW i \in DOMAIN Deployment.guests
    PROVE  Deployment.guests[i].nodes \in Seq(Nodes) /\ Deployment.guests[i].memory \in Nat
<1>1. i \in DOMAIN config /\ config \in Seq(Guest)
  BY PlacedShape, ConfigShape DEF PInv, IInv
<1>2. config[i] \in Guest
  BY <1>1
<1>3. Deployment.guests[i] = Request(config[i])
  BY <1>1 DEF Deployment
<1> QED
  BY <1>2, <1>3 DEF Request, Guest

(* The cells and cores a guest is shown are those of the host, and its memory is in the
   cells (97 to 100, 216 to 222). *)
THEOREM GuestsSeeTheHost == PlacementSpec => []GuestTopologyIsTheHosts
<1>1. ASSUME PInv, NEW i \in DOMAIN domains
      PROVE  /\ ShowsTopology(domains[i], host.node, host.siblings)
             /\ SumFunction([c \in DOMAIN domains[i].cells |-> domains[i].cells[c].memory])
                    = domains[i].memory
  <2>1. Deployment.siblings = host.siblings /\ Deployment.node = host.node
    BY DEF Deployment
  <2>2. /\ Accepts(Deployment) /\ Sequences(Deployment) /\ i \in DOMAIN Deployment.guests
        /\ domains[i] = Domain(Deployment, Deployment.guests[i])
    BY <1>1, RenderedFor
  <2>3. ShowsTopology(domains[i], host.node, host.siblings)
    BY <2>1, <2>2, CellsOfOne
  <2>4. PinsAccepted(Deployment, i)
    BY <2>2 DEF Accepts
  <2>5. SumFunction([c \in DOMAIN domains[i].cells |-> domains[i].cells[c].memory]) = domains[i].memory
    BY <1>1, <2>2, <2>4, RequestTyped, MemoryOfOne
  <2> QED
    BY <2>3, <2>5
<1>2. PInv => GuestTopologyIsTheHosts
  BY <1>1 DEF GuestTopologyIsTheHosts, CellsAreTheHosts, ShowsTopology
<1> QED
  BY <1>2, PlacementInvariant, PTL

(* An equal share of the reserve for each node, rounded up, is the reserve at least. *)
LEMMA SharesCover ==
    ASSUME NEW reserve \in Int, reserve > 0, NEW nodes \in Nat \ {0}
    PROVE  /\ CeilDiv(reserve, nodes) \in Nat
           /\ CeilDiv(reserve, nodes) * nodes >= reserve
<1> DEFINE a == reserve + nodes - 1
<1>1. nodes * (a \div nodes) > a - nodes /\ a \div nodes \in Int
  OBVIOUS
<1>2. a \div nodes >= 0
  OBVIOUS
<1> QED
  BY <1>1, <1>2 DEF CeilDiv

(* What is required of a node is counted in whole, and is nothing if it is not used. *)
LEMMA RequiredCounts ==
    ASSUME NEW q, IsFiniteSet(DOMAIN q.guests), \A i \in DOMAIN q.guests : PerNode(q.guests[i]) \in Nat,
           NEW node
    PROVE  /\ Required(q, node) \in Int
           /\ (\A i \in DOMAIN q.guests : node \notin ToSet(q.guests[i].nodes)) => Required(q, node) = 0
<1> DEFINE f == [i \in DOMAIN q.guests |->
                    IF node \in ToSet(q.guests[i].nodes) THEN PerNode(q.guests[i]) ELSE 0]
<1>1. DOMAIN f = DOMAIN q.guests /\ \A i \in DOMAIN q.guests : f[i] \in Int
  OBVIOUS
<1>2. (\A i \in DOMAIN q.guests : node \notin ToSet(q.guests[i].nodes)) => \A i \in DOMAIN q.guests : f[i] = 0
  OBVIOUS
<1>3. Required(q, node) = SumFunctionOnSet(f, DOMAIN q.guests)
  BY DEF Required, SumFunction
<1>4. Cardinality(DOMAIN q.guests) \in Nat
  BY FS_CardinalityType
<1> HIDE DEF f
<1> QED
  BY <1>1, <1>2, <1>3, <1>4, SumBounds

(* The guests that were placed can all be started, and the host has its reserve left
   when they use all of its nodes (109 to 118). *)
THEOREM ReserveIsLeft == PlacementSpec => []ReserveIsKept
<1>1. ASSUME PInv, placed = "placed" PROVE ReserveIsKept
  <2> DEFINE q == Deployment
             used == UNION {ToSet(q.guests[i].nodes) : i \in DOMAIN q.guests}
             taken(node) == SumFunction([i \in DOMAIN domains |->
                               IF node \in ToSet(domains[i].memnode)
                               THEN domains[i].cells[1].memory ELSE 0])
             left == [node \in DOMAIN host.free |-> host.free[node] - taken(node)]
             share == ReservePerNode(q)
             nodes == Cardinality(DOMAIN host.free)
  <2>1. /\ Accepts(q) /\ Sequences(q) /\ DOMAIN q.guests = 1 .. Len(config) /\ Len(config) \in Nat
        /\ domains = [i \in DOMAIN q.guests |-> Domain(q, q.guests[i])]
    <3>1. domains = [i \in DOMAIN config |-> Domain(q, Request(config[i]))] /\ Accepts(q)
      BY <1>1 DEF PInv, Rendered
    <3>2. Sequences(q) /\ DOMAIN q.guests = DOMAIN config
      BY <1>1, PlacedShape
    <3>3. \A i \in DOMAIN config : q.guests[i] = Request(config[i])
      BY DEF Deployment
    <3>4. DOMAIN config = 1 .. Len(config) /\ Len(config) \in Nat
      BY <1>1, ConfigShape DEF PInv, IInv
    <3> HIDE DEF q
    <3> QED
      BY <3>1, <3>2, <3>3, <3>4
  <2>2. q.free = host.free /\ q.reserve = host.reserve
    BY DEF Deployment
  <2>3. \A i \in DOMAIN q.guests : PinsAccepted(q, i) /\ MemoryAccepted(q) /\ q.reserve > 0
    BY <2>1 DEF Accepts
  <2>4. \A i \in DOMAIN q.guests : q.guests[i].nodes \in Seq(Nodes) /\ q.guests[i].memory \in Nat
    BY <1>1, RequestTyped
  <2> HIDE DEF q
  <2>5. ASSUME NEW i \in DOMAIN q.guests
        PROVE  /\ domains[i].memnode = q.guests[i].nodes /\ PerNode(q.guests[i]) \in Nat
               /\ domains[i].cells[1].memory = PerNode(q.guests[i])
    <3>1. domains[i] = Domain(q, q.guests[i])
      BY <2>1
    <3>2. domains[i].memnode = q.guests[i].nodes
      BY <3>1 DEF Domain
    <3>3. PinsAccepted(q, i) /\ q.guests[i].nodes \in Seq(Nodes) /\ q.guests[i].memory \in Nat
      BY <2>3, <2>4
    <3>4. PerNode(q.guests[i]) \in Nat
          /\ Domain(q, q.guests[i]).cells[1].memory = PerNode(q.guests[i])
      BY <3>3, MemoryOfOne
    <3> QED
      BY <3>1, <3>2, <3>4
  <2>6. \A node : taken(node) = Required(q, node)
    <3> TAKE node
    <3>1. [i \in DOMAIN domains |-> IF node \in ToSet(domains[i].memnode)
                                     THEN domains[i].cells[1].memory ELSE 0]
          = [i \in DOMAIN q.guests |-> IF node \in ToSet(q.guests[i].nodes)
                                        THEN PerNode(q.guests[i]) ELSE 0]
      BY <2>1, <2>5
    <3> QED
      BY <3>1 DEF Required
  <2>7. IsFiniteSet(DOMAIN q.guests)
    BY <2>1, FS_Interval
  <2>8. ASSUME NEW node
        PROVE  Required(q, node) \in Int /\ (node \notin used => Required(q, node) = 0)
    <3>1. \A i \in DOMAIN q.guests : PerNode(q.guests[i]) \in Nat
      BY <2>5
    <3>2. /\ Required(q, node) \in Int
          /\ (\A i \in DOMAIN q.guests : node \notin ToSet(q.guests[i].nodes)) => Required(q, node) = 0
      BY <2>7, <3>1, RequiredCounts
    <3>3. node \notin used => \A i \in DOMAIN q.guests : node \notin ToSet(q.guests[i].nodes)
      OBVIOUS
    <3> QED
      BY <3>2, <3>3
  <2>9. /\ IsFiniteSet(DOMAIN host.free) /\ nodes \in Nat \ {0}
        /\ host.free \in [DOMAIN host.free -> Nat] /\ host.reserve \in Int
    BY <1>1, FS_CardinalityType, FS_EmptySet DEF PInv, HostKnown
  <2>10. host.reserve > 0
    BY <2>1, <2>2 DEF Accepts
  <2>11. share \in Nat /\ share * nodes >= host.reserve
    BY <2>2, <2>9, <2>10, SharesCover DEF ReservePerNode, HostNodes
  <2>12. \A node \in used : host.free[node] >= Required(q, node) + share
    BY <2>1, <2>2 DEF Accepts, MemoryAccepted
  <2> HIDE DEF taken, used, share, nodes
  <2>13. \A node \in DOMAIN host.free : left[node] = host.free[node] - Required(q, node)
    BY <2>6
  <2>14. DOMAIN left = DOMAIN host.free
    OBVIOUS
  <2> HIDE DEF left
  <2>15. \A node \in DOMAIN left : left[node] \in Int /\ left[node] >= 0
    <3> TAKE node \in DOMAIN left
    <3>1. left[node] = host.free[node] - Required(q, node) /\ host.free[node] \in Nat
      BY <2>9, <2>13, <2>14
    <3>2. Required(q, node) \in Int /\ (node \notin used => Required(q, node) = 0)
      BY <2>8
    <3>3. node \in used => host.free[node] >= Required(q, node) + share
      BY <2>12
    <3>4. share \in Nat
      BY <2>11
    <3> QED
      BY <3>1, <3>2, <3>3, <3>4
  <2>16. ASSUME DOMAIN left = used PROVE SumFunction(left) >= host.reserve
    <3>1. ASSUME NEW node \in DOMAIN left PROVE left[node] >= share
      <4>1. left[node] = host.free[node] - Required(q, node) /\ host.free[node] \in Nat
        BY <2>9, <2>13, <2>14
      <4>2. Required(q, node) \in Int /\ share \in Nat
        BY <2>8, <2>11
      <4>3. host.free[node] >= Required(q, node) + share
        BY <2>12, <2>16
      <4> QED
        BY <4>1, <4>2, <4>3
    <3>2. SumFunctionOnSet(left, DOMAIN left) >= share * nodes /\ SumFunctionOnSet(left, DOMAIN left) \in Int
      BY <2>9, <2>11, <2>14, <2>15, <3>1, SumBounds DEF nodes
    <3>3. SumFunction(left) = SumFunctionOnSet(left, DOMAIN left)
      BY DEF SumFunction
    <3>4. share * nodes \in Int
      BY <2>9, <2>11
    <3> QED
      BY <2>9, <2>11, <3>2, <3>3, <3>4
  <2>17. UNION {ToSet(domains[i].memnode) : i \in DOMAIN domains} = used
    BY <2>1, <2>5 DEF used
  <2> QED
    BY <2>14, <2>15, <2>16, <2>17 DEF ReserveIsKept, left, taken
<1>2. PInv => ReserveIsKept
  BY <1>1 DEF ReserveIsKept
<1> QED
  BY <1>2, PlacementInvariant, PTL
================================================================================
