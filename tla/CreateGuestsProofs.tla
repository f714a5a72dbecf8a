-------------------------- MODULE CreateGuestsProofs --------------------------
(* The properties of CreateGuests for every number of guests and of invocations. *)
EXTENDS CreateGuests, SequenceTheorems, TLAPS

(********************************** the program **********************************)
Resources == Built \union {Helper}

(* What every run that builds makes first, and exclusively. *)
First == Net(GuestNames[1])

LEMMA NamesShape ==
    /\ Len(GuestNames) \in Nat \ {0} /\ DOMAIN GuestNames = 1 .. Len(GuestNames)
    /\ \A i \in 1 .. Len(GuestNames) : GuestNames[i] \in Guests
    /\ \A g \in Guests : \E i \in 1 .. Len(GuestNames) : GuestNames[i] = g
<1>1. GuestNames \in Seq(Guests) /\ GuestNames # << >>
  BY GuestNamesAssumption
<1>2. Len(GuestNames) \in Nat \ {0} /\ DOMAIN GuestNames = 1 .. Len(GuestNames)
  BY <1>1, EmptySeq
<1>3. \A g \in Guests : \E i \in DOMAIN GuestNames : GuestNames[i] = g
  BY DEF Guests, ToSet
<1> QED
  BY <1>1, <1>2, <1>3

(* One sequence after another: the steps of each, in their places. *)
LEMMA Joined ==
    ASSUME NEW S, NEW s \in Seq(S), NEW t \in Seq(S)
    PROVE  /\ s \o t \in Seq(S) /\ Len(s \o t) = Len(s) + Len(t)
           /\ \A i \in 1 .. Len(s) : (s \o t)[i] = s[i]
           /\ \A i \in 1 .. Len(t) : (s \o t)[Len(s) + i] = t[i]
<1>1. /\ s \o t \in Seq(S) /\ Len(s \o t) = Len(s) + Len(t)
      /\ \A i \in 1 .. Len(s) + Len(t) : (s \o t)[i] = IF i <= Len(s) THEN s[i] ELSE t[i - Len(s)]
  BY ConcatProperties
<1>2. Len(s) \in Nat /\ Len(t) \in Nat
  OBVIOUS
<1> DEFINE st == s \o t
           k == Len(s)
           m == Len(t)
<1> HIDE DEF st, k, m
<1>3. k \in Nat /\ m \in Nat /\ \A i \in 1 .. k + m : st[i] = IF i <= k THEN s[i] ELSE t[i - k]
  BY <1>1, <1>2 DEF st, k, m
<1>4. (\A i \in 1 .. k : st[i] = s[i]) /\ \A i \in 1 .. m : st[k + i] = t[i]
  BY <1>3
<1> QED
  BY <1>1, <1>4 DEF st, k, m

(* Where each step of execute() is in the program. *)
LEMMA ProgramShape ==
    LET n == Len(GuestNames)
    IN /\ Program \in Seq(Resources) /\ Len(Program) = 4 * n + 3
       /\ Program[1] = Helper
       /\ \A i \in 1 .. n : /\ Program[1 + i] = Net(GuestNames[i])
                            /\ Program[1 + n + i] = Link(GuestNames[i])
                            /\ Program[2 * n + 2 + 2 * i] = Storage(GuestNames[i])
                            /\ Program[2 * n + 3 + 2 * i] = Domain(GuestNames[i])
       /\ Program[2 * n + 2] = NetXml /\ Program[2 * n + 3] = Network
<1> DEFINE n == Len(GuestNames)
           a == <<Helper>>
           b == Each(Net)
           c == Each(Link)
           d == <<NetXml, Network>>
           e == StorageThenDomain
<1>1. n \in Nat \ {0} /\ \A i \in 1 .. n : GuestNames[i] \in Guests
  BY NamesShape
<1>2. a \in Seq(Resources) /\ Len(a) = 1 /\ a[1] = Helper
  BY DEF Resources
<1>3. b \in Seq(Resources) /\ Len(b) = n /\ \A i \in 1 .. n : b[i] = Net(GuestNames[i])
  <2>1. b = [i \in 1 .. n |-> Net(GuestNames[i])]
    BY NamesShape DEF Each
  <2>2. \A i \in 1 .. n : Net(GuestNames[i]) \in Resources
    BY <1>1 DEF Resources, Built, OfGuest
  <2> HIDE DEF b
  <2> QED
    BY <1>1, <2>1, <2>2
<1>4. c \in Seq(Resources) /\ Len(c) = n /\ \A i \in 1 .. n : c[i] = Link(GuestNames[i])
  <2>1. c = [i \in 1 .. n |-> Link(GuestNames[i])]
    BY NamesShape DEF Each
  <2>2. \A i \in 1 .. n : Link(GuestNames[i]) \in Resources
    BY <1>1 DEF Resources, Built, OfGuest
  <2> HIDE DEF c
  <2> QED
    BY <1>1, <2>1, <2>2
<1>5. d \in Seq(Resources) /\ Len(d) = 2 /\ d[1] = NetXml /\ d[2] = Network
  <2>1. NetXml \in Resources /\ Network \in Resources
    BY DEF Resources, Built
  <2> QED
    BY <2>1
<1>6. e \in Seq(Resources) /\ Len(e) = 2 * n
      /\ \A i \in 1 .. n : e[2 * i - 1] = Storage(GuestNames[i]) /\ e[2 * i] = Domain(GuestNames[i])
  <2>1. e = [i \in 1 .. 2 * n |->
               IF i % 2 = 1 THEN Storage(GuestNames[(i + 1) \div 2]) ELSE Domain(GuestNames[i \div 2])]
    BY DEF StorageThenDomain
  <2>2. \A h \in Guests : Storage(h) \in Resources /\ Domain(h) \in Resources
    BY DEF Resources, Built, OfGuest
  <2>3. ASSUME NEW i \in 1 .. 2 * n PROVE e[i] \in Resources
    <3>1. CASE i % 2 = 1
      <4>1. (i + 1) \div 2 \in 1 .. n
        BY <1>1, <3>1
      <4> QED
        BY <1>1, <2>1, <2>2, <3>1, <4>1
    <3>2. CASE i % 2 # 1
      <4>1. i \div 2 \in 1 .. n
        BY <1>1, <3>2
      <4> QED
        BY <1>1, <2>1, <2>2, <3>2, <4>1
    <3> QED
      BY <3>1, <3>2
  <2>4. ASSUME NEW i \in 1 .. n
        PROVE  e[2 * i - 1] = Storage(GuestNames[i]) /\ e[2 * i] = Domain(GuestNames[i])
    <3>1. /\ 2 * i - 1 \in 1 .. 2 * n /\ (2 * i - 1) % 2 = 1 /\ ((2 * i - 1) + 1) \div 2 = i
          /\ 2 * i \in 1 .. 2 * n /\ (2 * i) % 2 # 1 /\ (2 * i) \div 2 = i
      BY <1>1
    <3> QED
      BY <2>1, <3>1
  <2> HIDE DEF e
  <2> QED
    BY <1>1, <2>1, <2>3, <2>4
<1>7. Program = (((a \o b) \o c) \o d) \o e
  BY DEF Program
<1> HIDE DEF a, b, c, d, e, n
<1> DEFINE ab == a \o b
           abc == ab \o c
           abcd == abc \o d
<1>8. ab \in Seq(Resources) /\ Len(ab) = 1 + n
      /\ ab[1] = Helper /\ \A i \in 1 .. n : ab[1 + i] = Net(GuestNames[i])
  <2>1. /\ ab \in Seq(Resources) /\ Len(ab) = Len(a) + Len(b)
        /\ \A i \in 1 .. Len(a) : ab[i] = a[i]
        /\ \A i \in 1 .. Len(b) : ab[Len(a) + i] = b[i]
    BY <1>2, <1>3, Joined
  <2> QED
    BY <1>1, <1>2, <1>3, <2>1
<1> HIDE DEF ab
<1>9. /\ abc \in Seq(Resources) /\ Len(abc) = 1 + n + n
      /\ \A i \in 1 .. 1 + n : abc[i] = ab[i]
      /\ \A i \in 1 .. n : abc[1 + n + i] = Link(GuestNames[i])
  <2>0. ab \in Seq(Resources) /\ c \in Seq(Resources)
    BY <1>4, <1>8
  <2>1. /\ abc \in Seq(Resources) /\ Len(abc) = Len(ab) + Len(c)
        /\ \A i \in 1 .. Len(ab) : abc[i] = ab[i]
        /\ \A i \in 1 .. Len(c) : abc[Len(ab) + i] = c[i]
    BY <2>0, Joined
  <2> QED
    BY <1>1, <1>4, <1>8, <2>1
<1> HIDE DEF abc
<1>10. abcd \in Seq(Resources) /\ Len(abcd) = 2 * n + 3
       /\ \A i \in 1 .. 1 + n + n : abcd[i] = abc[i]
       /\ abcd[2 * n + 2] = NetXml /\ abcd[2 * n + 3] = Network
  <2>0. abc \in Seq(Resources) /\ d \in Seq(Resources)
    BY <1>5, <1>9
  <2>1. /\ abcd \in Seq(Resources) /\ Len(abcd) = Len(abc) + Len(d)
        /\ \A i \in 1 .. Len(abc) : abcd[i] = abc[i]
        /\ \A i \in 1 .. Len(d) : abcd[Len(abc) + i] = d[i]
    BY <2>0, Joined
  <2>2. abcd[1 + n + n + 1] = NetXml /\ abcd[1 + n + n + 2] = Network
    BY <1>5, <1>9, <2>1
  <2>3. 1 + n + n + 1 = 2 * n + 2 /\ 1 + n + n + 2 = 2 * n + 3
    BY <1>1
  <2>4. abcd \in Seq(Resources) /\ Len(abcd) = 1 + n + n + 2
    BY <1>5, <1>9, <2>1
  <2>5. \A i \in 1 .. 1 + n + n : abcd[i] = abc[i]
    BY <1>9, <2>1
  <2> HIDE DEF abcd
  <2> QED
    BY <2>2, <2>3, <2>4, <2>5
<1> HIDE DEF abcd
<1>11. /\ Program \in Seq(Resources) /\ Len(Program) = 4 * n + 3
       /\ \A i \in 1 .. 2 * n + 3 : Program[i] = abcd[i]
       /\ \A i \in 1 .. 2 * n : Program[2 * n + 3 + i] = e[i]
  <2>1. Program = abcd \o e
    BY <1>7 DEF ab, abc, abcd
  <2>2. /\ Program \in Seq(Resources) /\ Len(Program) = Len(abcd) + Len(e)
        /\ \A i \in 1 .. Len(abcd) : Program[i] = abcd[i]
        /\ \A i \in 1 .. Len(e) : Program[Len(abcd) + i] = e[i]
    <3>1. abcd \in Seq(Resources) /\ e \in Seq(Resources)
      BY <1>6, <1>10
    <3> QED
      BY <2>1, <3>1, Joined
  <2> QED
    BY <1>1, <1>6, <1>10, <2>2
<1>12. ASSUME NEW i \in 1 .. n
       PROVE  /\ Program[1 + i] = Net(GuestNames[i])
              /\ Program[1 + n + i] = Link(GuestNames[i])
              /\ Program[2 * n + 2 + 2 * i] = Storage(GuestNames[i])
              /\ Program[2 * n + 3 + 2 * i] = Domain(GuestNames[i])
  <2>1. /\ 1 + i \in 1 .. 1 + n /\ 1 + i \in 1 .. 1 + n + n /\ 1 + i \in 1 .. 2 * n + 3
        /\ 1 + n + i \in 1 .. 1 + n + n /\ 1 + n + i \in 1 .. 2 * n + 3
        /\ 2 * i - 1 \in 1 .. 2 * n /\ 2 * i \in 1 .. 2 * n
        /\ 2 * n + 3 + (2 * i - 1) = 2 * n + 2 + 2 * i
    BY <1>1
  <2>2. Program[1 + i] = Net(GuestNames[i])
    BY <1>8, <1>9, <1>10, <1>11, <2>1
  <2>3. Program[1 + n + i] = Link(GuestNames[i])
    BY <1>9, <1>10, <1>11, <2>1
  <2>4. Program[2 * n + 2 + 2 * i] = Storage(GuestNames[i])
    BY <1>6, <1>11, <2>1
  <2>5. Program[2 * n + 3 + 2 * i] = Domain(GuestNames[i])
    BY <1>6, <1>11, <2>1
  <2> QED
    BY <2>2, <2>3, <2>4, <2>5
<1>13. Program[1] = Helper /\ Program[2 * n + 2] = NetXml /\ Program[2 * n + 3] = Network
  <2>1. /\ 1 \in 1 .. 1 + n /\ 1 \in 1 .. 1 + n + n
        /\ 1 \in 1 .. 2 * n + 3 /\ 2 * n + 2 \in 1 .. 2 * n + 3 /\ 2 * n + 3 \in 1 .. 2 * n + 3
    BY <1>1
  <2> QED
    BY <1>8, <1>9, <1>10, <1>11, <2>1
<1> QED
  BY <1>11, <1>12, <1>13 DEF n

(* Every place of the program, by what is built there. *)
LEMMA PlaceShape ==
    ASSUME NEW k \in 1 .. Len(Program)
    PROVE  LET n == Len(GuestNames)
           IN \/ k = 1
              \/ \E i \in 1 .. n : \/ k = 1 + i
                                   \/ k = 1 + n + i
                                   \/ k = 2 * n + 2 + 2 * i
                                   \/ k = 2 * n + 3 + 2 * i
              \/ k = 2 * n + 2
              \/ k = 2 * n + 3
<1> DEFINE n == Len(GuestNames)
<1>1. n \in Nat \ {0} /\ k \in 1 .. 4 * n + 3
  BY NamesShape, ProgramShape
<1> HIDE DEF n
<1>2. CASE k <= 1 + n
  <2>1. k = 1 \/ (k - 1 \in 1 .. n /\ k = 1 + (k - 1))
    BY <1>1, <1>2
  <2> QED
    BY <2>1 DEF n
<1>3. CASE 1 + n < k /\ k <= 1 + n + n
  <2>1. k - 1 - n \in 1 .. n /\ k = 1 + n + (k - 1 - n)
    BY <1>1, <1>3
  <2> QED
    BY <2>1 DEF n
<1>4. CASE k = 2 * n + 2 \/ k = 2 * n + 3
  BY <1>4 DEF n
<1>5. CASE 2 * n + 3 < k
  <2> DEFINE i == (k - 2 * n - 2) \div 2
  <2>1. i \in 1 .. n /\ (k = 2 * n + 2 + 2 * i \/ k = 2 * n + 3 + 2 * i)
    BY <1>1, <1>5
  <2> QED
    BY <2>1 DEF n
<1> QED
  BY <1>1, <1>2, <1>3, <1>4, <1>5

(* The kinds of resources are apart. *)
LEMMA Kinds ==
    /\ \A x \in Files : x \notin Links /\ x \notin Defined /\ \A g : x # Nvram(g) /\ x # Domain(g)
    /\ \A x \in Defined : x \notin Links /\ x # Helper /\ \A g : x # Nvram(g) /\ x # Net(g)
    /\ \A x \in Links : x # Helper /\ \A g : x # Nvram(g) /\ x # Domain(g) /\ x # Net(g)
    /\ Helper \notin Built /\ \A g : Helper # Nvram(g) /\ Helper # Domain(g) /\ Helper # Net(g)
    /\ \A g, h : Domain(g) = Domain(h) => g = h
    /\ \A g, h : Nvram(g) = Nvram(h) => g = h
    /\ \A g, h : Nvram(g) # Domain(h) /\ Nvram(g) # Net(h) /\ Nvram(g) # Storage(h)
                 /\ Nvram(g) # NetXml /\ Nvram(g) # Network /\ Nvram(g) # Link(h)
<1> USE DEF Helper, Net, Link, NetXml, Network, Storage, Domain, Nvram
<1>1. \A x \in Files : x \notin Links /\ x \notin Defined /\ \A g : x # Nvram(g) /\ x # Domain(g)
  <2>1. \A x \in Files : x[1] \in {"helper", "network xml", "net", "storage"}
    <3>1. \A x \in Files : x = Helper \/ x = NetXml \/ \E g \in Guests : x = Net(g) \/ x = Storage(g)
      BY DEF Files
    <3>2. Helper[1] = "helper" /\ NetXml[1] = "network xml" /\ \A g : Net(g)[1] = "net" /\ Storage(g)[1] = "storage"
      OBVIOUS
    <3> HIDE DEF Helper, NetXml, Net, Storage
    <3> QED
      BY <3>1, <3>2
  <2>2. \A x \in Links : x[1] = "link"
    BY DEF Links
  <2>3. \A x \in Defined : x[1] \in {"network", "domain"}
    BY DEF Defined
  <2>4. \A g : Nvram(g)[1] = "nvram" /\ Domain(g)[1] = "domain"
    OBVIOUS
  <2>5. \A x \in Files : x \notin Links
    BY <2>1, <2>2
  <2>6. \A x \in Files : x \notin Defined
    BY <2>1, <2>3
  <2>7. \A x \in Files : \A g : x # Nvram(g) /\ x # Domain(g)
    BY <2>1, <2>4
  <2> QED
    BY <2>5, <2>6, <2>7
<1>2. \A x \in Defined : x \notin Links /\ x # Helper /\ \A g : x # Nvram(g) /\ x # Net(g)
  BY DEF Links, Defined
<1>3. \A x \in Links : x # Helper /\ \A g : x # Nvram(g) /\ x # Domain(g) /\ x # Net(g)
  BY DEF Links
<1>4. Helper \notin Built
  BY DEF Built, OfGuest
<1>5. \A g : Helper # Nvram(g) /\ Helper # Domain(g) /\ Helper # Net(g)
  OBVIOUS
<1>6. \A g, h : (Domain(g) = Domain(h) => g = h) /\ (Nvram(g) = Nvram(h) => g = h)
  OBVIOUS
<1>7. \A g, h : Nvram(g) # Domain(h) /\ Nvram(g) # Net(h) /\ Nvram(g) # Storage(h)
                 /\ Nvram(g) # NetXml /\ Nvram(g) # Network /\ Nvram(g) # Link(h)
  OBVIOUS
<1> QED
  BY <1>1, <1>2, <1>3, <1>4, <1>5, <1>6, <1>7

(* The first step is the helper, the second the first file of the first guest; the
   links and domains come later. *)
LEMMA Places ==
    /\ Program \in Seq(Resources) /\ Len(Program) \in Nat /\ Len(Program) > 2
    /\ Program[1] = Helper /\ Program[2] = First /\ First \in Built
    /\ \A k \in 2 .. Len(Program) : Program[k] \in Built
    /\ \A k \in 1 .. Len(Program) : /\ Program[k] = Helper => k = 1
                                    /\ \A g : Program[k] # Nvram(g)
<1> DEFINE n == Len(GuestNames)
<1>1. /\ n \in Nat \ {0} /\ 1 \in 1 .. n
      /\ \A i \in 1 .. n : GuestNames[i] \in Guests
  BY NamesShape
<1>2. Program \in Seq(Resources) /\ Len(Program) \in Nat /\ Len(Program) > 2
  BY <1>1, ProgramShape
<1>3. Program[1] = Helper /\ Program[2] = First
  BY <1>1, ProgramShape DEF First
<1>4. \A g \in Guests : {Net(g), Link(g), Storage(g), Domain(g)} \subseteq Built
  BY DEF Built, OfGuest
<1>5. NetXml \in Built /\ Network \in Built
  BY DEF Built
<1>6. First \in Built
  BY <1>1, <1>4 DEF First
<1>7. ASSUME NEW k \in 1 .. Len(Program), k # 1
      PROVE  Program[k] \in Built /\ Program[k] # Helper /\ \A g : Program[k] # Nvram(g)
  <2>1. /\ Program[k] \in {NetXml, Network}
                             \union UNION {{Net(g), Link(g), Storage(g), Domain(g)} : g \in Guests}
    <3> HIDE DEF n
    <3>1. \/ \E i \in 1 .. n : k = 1 + i \/ k = 1 + n + i \/ k = 2 * n + 2 + 2 * i \/ k = 2 * n + 3 + 2 * i
          \/ k = 2 * n + 2 \/ k = 2 * n + 3
      BY <1>7, PlaceShape DEF n
    <3>2. \/ \E i \in 1 .. n : Program[k] \in {Net(GuestNames[i]), Link(GuestNames[i]),
                                                Storage(GuestNames[i]), Domain(GuestNames[i])}
          \/ Program[k] = NetXml \/ Program[k] = Network
      BY <3>1, ProgramShape DEF n
    <3> QED
      BY <1>1, <3>2
  <2>2. Program[k] \in Built
    BY <1>4, <1>5, <2>1
  <2>3. \A g : Program[k] # Nvram(g)
    BY <2>1, Kinds
  <2> QED
    BY <2>2, <2>3, Kinds
<1>8. \A g : Program[1] # Nvram(g)
  BY <1>3, Kinds
<1> QED
  BY <1>2, <1>3, <1>6, <1>7, <1>8

(* The links and what is defined come after the first file. *)
LEMMA LinksLater ==
    ASSUME NEW k \in 1 .. Len(Program), Program[k] \in Links \union Defined PROVE k > 2
<1>1. Program[k] # Helper /\ Program[k] # First
  BY Kinds DEF First
<1> QED
  BY <1>1, Places

(* The domain of a guest comes after all it uses. *)
LEMMA DomainLast ==
    ASSUME NEW k \in 1 .. Len(Program), NEW g \in Guests, Program[k] = Domain(g),
           NEW x \in {Net(g), Link(g), Storage(g), NetXml, Network}
    PROVE  \E j \in 2 .. k - 1 : Program[j] = x
<1> DEFINE n == Len(GuestNames)
<1>1. n \in Nat \ {0}
  BY NamesShape
<1>2. PICK i \in 1 .. n : k = 2 * n + 3 + 2 * i /\ Program[k] = Domain(GuestNames[i])
  <2> HIDE DEF n
  <2>1. \A h : Domain(g) # Net(h) /\ Domain(g) # Link(h) /\ Domain(g) # Storage(h)
    BY DEF Domain, Net, Link, Storage
  <2>2. Domain(g) # NetXml /\ Domain(g) # Network /\ Domain(g) # Helper
    BY DEF Domain, NetXml, Network, Helper
  <2>3. \/ k = 1
        \/ \E i \in 1 .. n : k = 1 + i \/ k = 1 + n + i \/ k = 2 * n + 2 + 2 * i \/ k = 2 * n + 3 + 2 * i
        \/ k = 2 * n + 2 \/ k = 2 * n + 3
    BY PlaceShape DEF n
  <2>4. /\ Program[1] = Helper /\ Program[2 * n + 2] = NetXml /\ Program[2 * n + 3] = Network
        /\ \A i \in 1 .. n : /\ Program[1 + i] = Net(GuestNames[i])
                             /\ Program[1 + n + i] = Link(GuestNames[i])
                             /\ Program[2 * n + 2 + 2 * i] = Storage(GuestNames[i])
                             /\ Program[2 * n + 3 + 2 * i] = Domain(GuestNames[i])
    BY ProgramShape DEF n
  <2> QED
    BY <2>1, <2>2, <2>3, <2>4
<1>3. GuestNames[i] = g
  BY <1>2, Kinds
<1>4. /\ Program[1 + i] = Net(g) /\ Program[1 + n + i] = Link(g) /\ Program[2 * n + 2 + 2 * i] = Storage(g)
      /\ Program[2 * n + 2] = NetXml /\ Program[2 * n + 3] = Network
  BY <1>3, ProgramShape
<1> HIDE DEF n
<1>5. {1 + i, 1 + n + i, 2 * n + 2 + 2 * i, 2 * n + 2, 2 * n + 3} \subseteq 2 .. k - 1
  BY <1>1, <1>2
<1> QED
  BY <1>4, <1>5

(********************************* the invariant *********************************)
TypeOK ==
    /\ made \in [Resources -> [stage : {"absent", "torn", "plain", "ready"}, by : Runs \union {None}]]
    /\ run \in [Runs -> [pc : {"idle", "executing", "done", "failed", "collided", "broken"},
                         at : 1 .. Len(Program), alone : BOOLEAN]]

Busy == \E r \in Runs : Executing(r)

(* While a run builds, all that stands is by the one that made the first file. *)
FirstDecides ==
    Busy => \A x \in Built : ~Missing(x) => ~Missing(First) /\ made[x].by = made[First].by

(* What a run has built on its way stands, whole and its own. *)
StepsStand ==
    \A r \in Runs : Executing(r) =>
        \A j \in 2 .. run[r].at - 1 : made[Program[j]] = [stage |-> "ready", by |-> r]

(* While a run builds, UEFI variables are there for a guest that was started only. *)
NvramOfStarted ==
    Busy => \A g \in Guests : ~Missing(Nvram(g)) => made[Domain(g)].stage = "ready"

(* All that stands beside a run that is alone is its own. *)
AloneBuilds ==
    \A r \in Runs : Executing(r) /\ run[r].alone =>
        /\ \A s \in Runs : Executing(s) => s = r
        /\ \A x \in Built : ~Missing(x) => made[x].by = r

IInv ==
    /\ TypeOK /\ FirstDecides /\ StepsStand /\ NvramOfStarted /\ AloneBuilds
    /\ OneBuilder /\ NoDoomedBuild

LEMMA Begins == Init => IInv
<1> SUFFICES ASSUME Init PROVE IInv
  OBVIOUS
<1>1. PICK helper \in {Absent, [stage |-> "ready", by |-> None]} :
         made = [x \in Resources |-> IF x = Helper THEN helper ELSE Absent]
  BY DEF Init, Resources
<1>2. run = [r \in Runs |-> [pc |-> "idle", at |-> 1, alone |-> TRUE]]
  BY DEF Init
<1>3. \A x \in Built : Missing(x)
  BY <1>1, Kinds DEF Missing, Absent, Resources
<1>4. \A r \in Runs : run[r].pc = "idle" /\ ~Executing(r)
  BY <1>2 DEF Executing
<1>5. 1 \in 1 .. Len(Program)
  BY Places
<1>6. TypeOK
  <2> DEFINE Record == [stage : {"absent", "torn", "plain", "ready"}, by : Runs \union {None}]
  <2>1. helper \in Record /\ Absent \in Record
    BY DEF Absent
  <2>2. made \in [Resources -> Record]
    <3> HIDE DEF Record
    <3> QED
      BY <1>1, <2>1
  <2> QED
    BY <1>2, <1>5, <2>2 DEF TypeOK
<1>7. FirstDecides /\ StepsStand /\ NvramOfStarted /\ AloneBuilds
  BY <1>4 DEF FirstDecides, StepsStand, NvramOfStarted, AloneBuilds, Busy
<1> QED
  BY <1>3, <1>4, <1>6, <1>7 DEF IInv, OneBuilder, NoDoomedBuild

LEMMA PreflightKeeps == ASSUME IInv, NEW r \in Runs, Preflight(r) PROVE IInv'
<1>1. /\ TypeOK /\ FirstDecides /\ StepsStand /\ NvramOfStarted /\ AloneBuilds
      /\ OneBuilder /\ NoDoomedBuild
  BY DEF IInv
<1>2. made' = made /\ run[r].pc = "idle"
  BY DEF Preflight
<1>3. 1 \in 1 .. Len(Program) /\ 2 \notin 2 .. 1 - 1
  BY Places
<1>4. CASE ~(Clear /\ HelperMatches)
  <2>1. run' = [run EXCEPT ![r].pc = "failed", ![r].at = 1]
    BY <1>4 DEF Preflight, Ends
  <2>2. \A s \in Runs : /\ run'[s].alone = run[s].alone
                        /\ s # r => run'[s] = run[s]
                        /\ run'[r].pc = "failed"
    BY <1>1, <2>1 DEF TypeOK
  <2>3. \A s \in Runs : Executing(s)' => Executing(s) /\ run'[s] = run[s]
    BY <2>2 DEF Executing
  <2>4. TypeOK'
    BY <1>1, <1>2, <1>3, <2>1 DEF TypeOK
  <2>5. Busy' => Busy
    BY <2>3 DEF Busy
  <2>6. FirstDecides' /\ NvramOfStarted' /\ OneBuilder'
    BY <1>1, <1>2, <2>5 DEF FirstDecides, NvramOfStarted, OneBuilder, Missing
  <2>7. StepsStand'
    BY <1>1, <1>2, <2>3 DEF StepsStand
  <2>8. AloneBuilds'
    BY <1>1, <1>2, <2>3 DEF AloneBuilds, Missing
  <2>9. NoDoomedBuild'
    BY <1>1, <2>2 DEF NoDoomedBuild
  <2> QED
    BY <2>4, <2>6, <2>7, <2>8, <2>9 DEF IInv
<1>5. CASE Clear /\ HelperMatches
  <2> DEFINE others == {s \in Runs : Executing(s)}
  <2>1. run' = [s \in Runs |->
                   IF s = r THEN [pc |-> "executing", at |-> 1, alone |-> others = {}]
                   ELSE IF s \in others THEN [run[s] EXCEPT !.alone = FALSE] ELSE run[s]]
    BY <1>5 DEF Preflight
  <2>2. \A x \in Built : Missing(x) /\ Missing(x)'
    BY <1>2, <1>5 DEF Clear, Missing
  <2>3. ASSUME NEW s \in Runs
        PROVE  /\ s # r => run'[s].pc = run[s].pc /\ run'[s].at = run[s].at
               /\ s # r => run'[s].alone = (run[s].alone /\ s \notin others)
               /\ run'[r].pc = "executing" /\ run'[r].at = 1 /\ run'[r].alone = (others = {})
               /\ run'[s] \in [pc : {"idle", "executing", "done", "failed", "collided", "broken"},
                               at : 1 .. Len(Program), alone : BOOLEAN]
    <3>1. CASE s = r
      BY <1>3, <2>1, <3>1
    <3>2. CASE s # r /\ s \in others
      BY <1>1, <2>1, <3>2 DEF TypeOK
    <3>3. CASE s # r /\ s \notin others
      BY <1>1, <2>1, <3>3 DEF TypeOK
    <3> QED
      BY <3>1, <3>2, <3>3
  <2>4. TypeOK'
    BY <1>1, <1>2, <2>1, <2>3 DEF TypeOK
  <2>5. FirstDecides' /\ NvramOfStarted' /\ OneBuilder'
    <3>1. \A g \in Guests : Nvram(g) \in Built
      BY DEF Built, OfGuest
    <3> QED
      BY <2>2, <3>1 DEF FirstDecides, NvramOfStarted, OneBuilder
  <2>6. StepsStand'
    BY <1>1, <1>2, <1>3, <2>3 DEF StepsStand, Executing
  <2>7. ASSUME NEW s \in Runs, Executing(s)', run'[s].alone PROVE \A t \in Runs : Executing(t)' => t = s
    <3>1. CASE s = r
      BY <2>3, <2>7, <3>1 DEF Executing
    <3>2. CASE s # r
      BY <2>3, <2>7, <3>2 DEF Executing
    <3> QED
      BY <3>1, <3>2
  <2>8. AloneBuilds'
    BY <2>2, <2>7 DEF AloneBuilds
  <2>9. NoDoomedBuild'
    BY <1>1, <2>3 DEF NoDoomedBuild
  <2> QED
    BY <2>4, <2>5, <2>6, <2>8, <2>9 DEF IInv
<1> QED
  BY <1>4, <1>5

LEMMA RemovalKeeps == ASSUME IInv, NEW x \in DOMAIN made, OperatorRemoves(x) PROVE IInv'
<1>1. TypeOK /\ OneBuilder /\ NoDoomedBuild
  BY DEF IInv
<1>2. /\ \A r \in Runs : ~Executing(r) /\ ~Executing(r)'
      /\ made' = [made EXCEPT ![x] = Absent] /\ run' = run
  BY DEF OperatorRemoves, Executing
<1>3. TypeOK'
  BY <1>1, <1>2 DEF TypeOK, Absent
<1>4. (FirstDecides /\ StepsStand /\ NvramOfStarted /\ AloneBuilds)'
  BY <1>2 DEF FirstDecides, StepsStand, NvramOfStarted, AloneBuilds, Busy
<1>5. \A y \in Built : ~Missing(y)' => ~Missing(y) /\ made'[y] = made[y]
  <2>1. \A y \in Built : y \in DOMAIN made
    BY <1>1 DEF TypeOK, Resources
  <2> QED
    BY <1>2, <2>1 DEF Missing, Absent
<1>6. OneBuilder'
  BY <1>1, <1>5 DEF OneBuilder
<1>7. NoDoomedBuild'
  BY <1>1, <1>2 DEF NoDoomedBuild
<1> QED
  BY <1>3, <1>4, <1>6, <1>7 DEF IInv

(* What a step of a run that builds does, whatever it is: it changes only what was
   missing or its own and makes it its own; the first file comes before all else; a
   run goes on to the next place when it has built what its place asks for. *)
Effect(r) ==
    /\ Executing(r) /\ TypeOK'
    /\ \A s \in Runs : s # r => run'[s] = run[s]
    /\ run'[r].alone = run[r].alone
    /\ \A x \in Resources : made'[x] # made[x] =>
          /\ Missing(x) \/ made[x].by = r
          /\ made'[x].by = r /\ ~Missing(x)'
          /\ x \in Built => x = First \/ run[r].at > 2
          /\ made[x].stage = "ready" => made'[x].stage = "ready"
    /\ \A g \in Guests : made'[Nvram(g)] # made[Nvram(g)] => made'[Domain(g)].stage = "ready"
    /\ Executing(r)' =>
          \/ run'[r].at = run[r].at
          \/ /\ run'[r].at = run[r].at + 1
             /\ run[r].at = 1 \/ made'[At(r)] = [stage |-> "ready", by |-> r]
    /\ run'[r].pc = "collided" =>
          ~Missing(At(r)) /\ made[At(r)].by # r /\ (At(r) = Helper => ~run[r].alone)

(* The place of a run. *)
LEMMA AtShape ==
    ASSUME TypeOK, NEW r \in Runs
    PROVE  /\ run[r].at \in 1 .. Len(Program) /\ At(r) = Program[run[r].at] /\ At(r) \in Resources
           /\ run[r].at \in Nat /\ Len(Program) \in Nat
           /\ At(r) \in Built => At(r) = First \/ run[r].at > 2
           /\ At(r) \in Links \union Defined => run[r].at > 2
           /\ At(r) = Helper \/ At(r) \in Built
           /\ At(r) = Helper => run[r].at = 1
           /\ \A g : At(r) # Nvram(g)
<1>1. run[r].at \in 1 .. Len(Program)
  BY DEF TypeOK
<1>2. At(r) = Program[run[r].at]
  BY DEF At
<1>3. At(r) \in Resources /\ run[r].at \in Nat /\ Len(Program) \in Nat
  BY <1>1, <1>2, Places
<1>4. At(r) \in Built => At(r) = First \/ run[r].at > 2
  <2>1. run[r].at = 1 => At(r) = Helper
    BY <1>2, Places
  <2>2. run[r].at = 2 => At(r) = First
    BY <1>2, Places
  <2> QED
    BY <1>1, <1>3, <2>1, <2>2, Kinds
<1>5. At(r) \in Links \union Defined => run[r].at > 2
  BY <1>1, <1>2, LinksLater
<1>6. (At(r) = Helper \/ At(r) \in Built) /\ (At(r) = Helper => run[r].at = 1) /\ \A g : At(r) # Nvram(g)
  BY <1>1, <1>2, <1>3, Places DEF Resources
<1> QED
  BY <1>1, <1>2, <1>3, <1>4, <1>5, <1>6

(* Going on, and ending. *)
LEMMA AdvanceShape ==
    ASSUME TypeOK, NEW r \in Runs, Executing(r), Advances(r)
    PROVE  /\ \A s \in Runs : s # r => run'[s] = run[s]
           /\ run'[r].alone = run[r].alone /\ run'[r].pc # "collided"
           /\ Executing(r)' => run'[r].at = run[r].at + 1
           /\ run' \in [Runs -> [pc : {"idle", "executing", "done", "failed", "collided", "broken"},
                                 at : 1 .. Len(Program), alone : BOOLEAN]]
<1>1. run[r].at \in 1 .. Len(Program) /\ Len(Program) \in Nat /\ 1 \in 1 .. Len(Program)
  BY AtShape
<1>2. CASE run[r].at = Len(Program)
  <2>1. run' = [run EXCEPT ![r].pc = "done", ![r].at = 1]
    BY <1>2 DEF Advances, Ends
  <2> QED
    BY <1>1, <2>1 DEF TypeOK, Executing
<1>3. CASE run[r].at # Len(Program)
  <2>1. run' = [run EXCEPT ![r].at = @ + 1]
    BY <1>3 DEF Advances
  <2>2. run[r].at + 1 \in 1 .. Len(Program)
    BY <1>1, <1>3
  <2>3. run[r].pc = "executing"
    BY DEF Executing
  <2> QED
    BY <1>1, <2>1, <2>2, <2>3 DEF TypeOK, Executing
<1> QED
  BY <1>2, <1>3

LEMMA EndShape ==
    ASSUME TypeOK, NEW r \in Runs, NEW pc \in {"failed", "collided", "broken"}, Ends(r, pc)
    PROVE  /\ \A s \in Runs : s # r => run'[s] = run[s]
           /\ run'[r].alone = run[r].alone /\ run'[r].pc = pc /\ ~Executing(r)'
           /\ run' \in [Runs -> [pc : {"idle", "executing", "done", "failed", "collided", "broken"},
                                 at : 1 .. Len(Program), alone : BOOLEAN]]
<1>1. run' = [run EXCEPT ![r].pc = pc, ![r].at = 1]
  BY DEF Ends
<1>2. 1 \in 1 .. Len(Program)
  BY AtShape
<1> QED
  BY <1>1, <1>2 DEF TypeOK, Executing

(* A stage given to what was missing, or to what is the run's own. *)
LEMMA PutShape ==
    ASSUME TypeOK, NEW r \in Runs, NEW stage \in {"torn", "plain", "ready"}, Put(At(r), stage, r)
    PROVE  /\ made' \in [Resources -> [stage : {"absent", "torn", "plain", "ready"}, by : Runs \union {None}]]
           /\ made'[At(r)] = [stage |-> stage, by |-> r]
           /\ \A x \in Resources : x # At(r) => made'[x] = made[x]
           /\ \A g \in Guests : made'[Nvram(g)] = made[Nvram(g)]
<1>1. made' = [made EXCEPT ![At(r)] = [stage |-> stage, by |-> r]]
  BY DEF Put
<1>2. At(r) \in Resources /\ \A g : At(r) # Nvram(g)
  BY AtShape
<1>3. \A g \in Guests : Nvram(g) \in Resources
  BY DEF Resources, Built, OfGuest
<1> QED
  BY <1>1, <1>2, <1>3 DEF TypeOK

(* A step that builds at its place, and goes on only when that is ready. *)
LEMMA BuildingEffect ==
    ASSUME TypeOK, NEW r \in Runs, Executing(r), NEW stage \in {"torn", "plain", "ready"},
           Put(At(r), stage, r), Missing(At(r)) \/ made[At(r)].by = r,
           made[At(r)].stage = "ready" => stage = "ready",
           run' = run \/ (stage = "ready" /\ Advances(r)) \/ Ends(r, "failed")
    PROVE  Effect(r)
<1>1. /\ made' \in [Resources -> [stage : {"absent", "torn", "plain", "ready"}, by : Runs \union {None}]]
      /\ made'[At(r)] = [stage |-> stage, by |-> r]
      /\ \A x \in Resources : x # At(r) => made'[x] = made[x]
      /\ \A g \in Guests : made'[Nvram(g)] = made[Nvram(g)]
  BY PutShape
<1>2. \A x \in Resources : made'[x] # made[x] =>
          /\ Missing(x) \/ made[x].by = r
          /\ made'[x].by = r /\ ~Missing(x)'
          /\ x \in Built => x = First \/ run[r].at > 2
          /\ made[x].stage = "ready" => made'[x].stage = "ready"
  BY <1>1, AtShape DEF Missing
<1>3. /\ \A s \in Runs : s # r => run'[s] = run[s]
      /\ run'[r].alone = run[r].alone /\ run'[r].pc # "collided"
      /\ Executing(r)' => run'[r].at = run[r].at \/ (run'[r].at = run[r].at + 1 /\ stage = "ready")
      /\ run' \in [Runs -> [pc : {"idle", "executing", "done", "failed", "collided", "broken"},
                            at : 1 .. Len(Program), alone : BOOLEAN]]
  <2>1. CASE run' = run
    BY <2>1 DEF TypeOK, Executing
  <2>2. CASE stage = "ready" /\ Advances(r)
    BY <2>2, AdvanceShape
  <2>3. CASE Ends(r, "failed")
    BY <2>3, EndShape
  <2> QED
    BY <2>1, <2>2, <2>3
<1>4. TypeOK'
  BY <1>1, <1>3 DEF TypeOK
<1> QED
  BY <1>1, <1>2, <1>3, <1>4 DEF Effect

(* A step that builds nothing. *)
LEMMA IdleEffect ==
    ASSUME TypeOK, NEW r \in Runs, Executing(r), made' = made,
           \/ At(r) = Helper /\ Advances(r)
           \/ \E pc \in {"failed", "broken"} : Ends(r, pc)
           \/ /\ Ends(r, "collided")
              /\ ~Missing(At(r)) /\ made[At(r)].by # r /\ (At(r) = Helper => ~run[r].alone)
    PROVE  Effect(r)
<1>1. /\ \A s \in Runs : s # r => run'[s] = run[s]
      /\ run'[r].alone = run[r].alone
      /\ Executing(r)' => At(r) = Helper /\ run'[r].at = run[r].at + 1
      /\ run' \in [Runs -> [pc : {"idle", "executing", "done", "failed", "collided", "broken"},
                            at : 1 .. Len(Program), alone : BOOLEAN]]
      /\ run'[r].pc = "collided" =>
            ~Missing(At(r)) /\ made[At(r)].by # r /\ (At(r) = Helper => ~run[r].alone)
  <2>1. CASE At(r) = Helper /\ Advances(r)
    BY <2>1, AdvanceShape
  <2>2. ASSUME NEW pc \in {"failed", "broken"}, Ends(r, pc)
        PROVE  /\ \A s \in Runs : s # r => run'[s] = run[s]
               /\ run'[r].alone = run[r].alone /\ ~Executing(r)' /\ run'[r].pc # "collided"
               /\ run' \in [Runs -> [pc : {"idle", "executing", "done", "failed", "collided", "broken"},
                                     at : 1 .. Len(Program), alone : BOOLEAN]]
    BY <2>2, EndShape
  <2>3. CASE /\ Ends(r, "collided")
             /\ ~Missing(At(r)) /\ made[At(r)].by # r /\ (At(r) = Helper => ~run[r].alone)
    BY <2>3, EndShape
  <2> QED
    BY <2>1, <2>2, <2>3
<1>2. TypeOK'
  BY <1>1 DEF TypeOK
<1>3. At(r) = Helper => run[r].at = 1
  BY AtShape
<1> QED
  BY <1>1, <1>2, <1>3 DEF Effect

LEMMA StartsEffect == ASSUME TypeOK, NEW r \in Runs, Starts(r) PROVE Effect(r)
<1> DEFINE fresh == {Nvram(g) : g \in {h \in Guests : Domain(h) = At(r) /\ Missing(Nvram(h))}}
           whole == [stage |-> "ready", by |-> r]
<1>1. /\ Executing(r) /\ At(r) \in Defined /\ made[At(r)] = [stage |-> "plain", by |-> r] /\ Advances(r)
      /\ made' = [x \in DOMAIN made |-> IF x = At(r) \/ x \in fresh THEN whole ELSE made[x]]
  BY DEF Starts
<1>2. DOMAIN made = Resources /\ At(r) \in Resources /\ run[r].at > 2
  BY <1>1, AtShape DEF TypeOK
<1>3. \A x \in fresh : Missing(x)
  OBVIOUS
<1>4. \A g \in Guests : Nvram(g) \in Resources /\ (Nvram(g) \in fresh => Domain(g) = At(r)) /\ At(r) # Nvram(g)
  <2>1. \A g \in Guests : Nvram(g) \in Resources
    BY DEF Resources, Built, OfGuest
  <2>2. \A g \in Guests : Nvram(g) \in fresh => Domain(g) = At(r)
    BY Kinds
  <2>3. \A g \in Guests : At(r) # Nvram(g)
    BY AtShape
  <2> QED
    BY <2>1, <2>2, <2>3
<1> HIDE DEF fresh
<1>5. \A x \in Resources : made'[x] = IF x = At(r) \/ x \in fresh THEN whole ELSE made[x]
  BY <1>1, <1>2
<1>6. /\ \A s \in Runs : s # r => run'[s] = run[s]
      /\ run'[r].alone = run[r].alone /\ run'[r].pc # "collided"
      /\ Executing(r)' => run'[r].at = run[r].at + 1
      /\ run' \in [Runs -> [pc : {"idle", "executing", "done", "failed", "collided", "broken"},
                            at : 1 .. Len(Program), alone : BOOLEAN]]
  BY <1>1, AdvanceShape
<1>7. TypeOK'
  <2>1. \A x \in Resources :
           made'[x] \in [stage : {"absent", "torn", "plain", "ready"}, by : Runs \union {None}]
    BY <1>5 DEF TypeOK
  <2>2. made' \in [Resources -> [stage : {"absent", "torn", "plain", "ready"}, by : Runs \union {None}]]
    BY <1>1, <1>2, <2>1
  <2> QED
    BY <1>6, <2>2 DEF TypeOK
<1>8. \A x \in Resources : made'[x] # made[x] =>
          /\ Missing(x) \/ made[x].by = r
          /\ made'[x].by = r /\ ~Missing(x)'
          /\ x \in Built => x = First \/ run[r].at > 2
          /\ made[x].stage = "ready" => made'[x].stage = "ready"
  BY <1>1, <1>2, <1>3, <1>5 DEF Missing
<1>9. \A g \in Guests : made'[Nvram(g)] # made[Nvram(g)] => made'[Domain(g)].stage = "ready"
  BY <1>2, <1>4, <1>5
<1>10. made'[At(r)] = [stage |-> "ready", by |-> r]
  BY <1>2, <1>5
<1> QED
  BY <1>1, <1>6, <1>7, <1>8, <1>9, <1>10 DEF Effect

(* While a run is past the first file, all that stands is its own. *)
LEMMA AllOwn ==
    ASSUME IInv, NEW r \in Runs, Executing(r), run[r].at > 2, NEW x \in Built
    PROVE  Missing(x) \/ made[x].by = r
<1>1. run[r].at \in Nat /\ Program[2] = First
  BY AtShape, Places DEF IInv
<1>2. made[First] = [stage |-> "ready", by |-> r]
  BY <1>1 DEF IInv, StepsStand
<1> QED
  BY <1>2 DEF IInv, FirstDecides, Busy

(* What each step of a run that builds does. *)
LEMMA Effects == ASSUME IInv, NEW r \in Runs, Execute(r) PROVE Effect(r)
<1>1. TypeOK
  BY DEF IInv
<1>2. CASE SkipsHelper(r)
  BY <1>1, <1>2, IdleEffect DEF SkipsHelper
<1>3. CASE Creates(r)
  <2>1. Executing(r) /\ Missing(At(r)) /\ Put(At(r), "torn", r) /\ run' = run
    BY <1>3 DEF Creates
  <2> QED
    BY <1>1, <2>1, BuildingEffect DEF Missing
<1>4. CASE Fills(r)
  <2>1. Executing(r) /\ made[At(r)] = [stage |-> "torn", by |-> r] /\ Put(At(r), "plain", r) /\ run' = run
    BY <1>4 DEF Fills
  <2> QED
    BY <1>1, <2>1, BuildingEffect
<1>5. CASE SetsMode(r)
  <2>1. Executing(r) /\ made[At(r)] = [stage |-> "plain", by |-> r] /\ Put(At(r), "ready", r) /\ Advances(r)
    BY <1>5 DEF SetsMode
  <2> QED
    BY <1>1, <2>1, BuildingEffect
<1>6. CASE Defines(r)
  <2>1. Executing(r) /\ Missing(At(r)) /\ Put(At(r), "plain", r) /\ run' = run
    BY <1>6 DEF Defines
  <2> QED
    BY <1>1, <2>1, BuildingEffect DEF Missing
<1>7. CASE Starts(r)
  BY <1>1, <1>7, StartsEffect
<1>8. CASE Enables(r)
  <2>1. Executing(r) /\ At(r) \in Links
    BY <1>8 DEF Enables
  <2>2. CASE made[Helper].stage = "ready"
    <3>1. Put(At(r), "ready", r) /\ Advances(r)
      BY <1>8, <2>2 DEF Enables
    <3>2. run[r].at > 2 /\ At(r) \in Built
      BY <1>1, <2>1, AtShape, Kinds
    <3>3. Missing(At(r)) \/ made[At(r)].by = r
      BY <2>1, <3>2, AllOwn
    <3> QED
      BY <1>1, <2>1, <3>1, <3>3, BuildingEffect
  <2>3. CASE made[Helper].stage # "ready"
    <3>1. Ends(r, "broken") /\ made' = made
      BY <1>8, <2>3 DEF Enables
    <3> QED
      BY <1>1, <2>1, <3>1, IdleEffect
  <2> QED
    BY <2>2, <2>3
<1>9. CASE Collides(r)
  BY <1>1, <1>9, IdleEffect DEF Collides
<1>10. CASE Fails(r)
  <2>1. Executing(r) /\ Ends(r, "failed")
    BY <1>10 DEF Fails
  <2>2. CASE UNCHANGED made
    BY <1>1, <2>1, <2>2, IdleEffect
  <2>3. CASE Missing(At(r)) /\ Put(At(r), "torn", r)
    BY <1>1, <2>1, <2>3, BuildingEffect DEF Missing
  <2> QED
    BY <1>10, <2>2, <2>3 DEF Fails
<1> QED
  BY <1>2, <1>3, <1>4, <1>5, <1>6, <1>7, <1>8, <1>9, <1>10 DEF Execute

LEMMA ExecuteKeeps == ASSUME IInv, NEW r \in Runs, Execute(r) PROVE IInv'
<1>1. Effect(r)
  BY Effects
<1>2. /\ TypeOK /\ FirstDecides /\ StepsStand /\ NvramOfStarted /\ AloneBuilds
      /\ OneBuilder /\ NoDoomedBuild
  BY DEF IInv
<1>3. Executing(r) /\ Busy /\ TypeOK' /\ First \in Built /\ Built \subseteq Resources
  BY <1>1, Places DEF Effect, Busy, Resources
<1>4. \A x \in Built : ~Missing(x)' => ~Missing(First)' /\ made'[x].by = made'[First].by
  <2> SUFFICES ASSUME NEW x \in Built, ~Missing(x)'
               PROVE  ~Missing(First)' /\ made'[x].by = made'[First].by
    OBVIOUS
  <2>1. made'[First] = made[First] \/ (made'[First].by = r /\ ~Missing(First)' /\ (Missing(First) \/ made[First].by = r))
    BY <1>1, <1>3 DEF Effect
  <2>2. CASE made'[x] = made[x]
    <3>1. ~Missing(First) /\ made[x].by = made[First].by
      BY <1>2, <1>3, <2>2 DEF FirstDecides, Missing
    <3> QED
      BY <2>1, <2>2, <3>1 DEF Missing
  <2>3. CASE made'[x] # made[x] /\ x = First
    BY <2>3
  <2>4. CASE made'[x] # made[x] /\ x # First
    <3>1. made'[x].by = r /\ run[r].at > 2
      BY <1>1, <1>3, <2>4 DEF Effect
    <3>2. made[First] = [stage |-> "ready", by |-> r]
      BY <1>2, <1>3, <3>1, AtShape, Places DEF StepsStand
    <3> QED
      BY <2>1, <3>1, <3>2 DEF Missing
  <2> QED
    BY <2>2, <2>3, <2>4
<1>5. FirstDecides' /\ OneBuilder'
  BY <1>4 DEF FirstDecides, OneBuilder
<1>6. StepsStand'
  <2> SUFFICES ASSUME NEW s \in Runs, Executing(s)', NEW j \in 2 .. run'[s].at - 1
               PROVE  made'[Program[j]] = [stage |-> "ready", by |-> s]
    BY DEF StepsStand
  <2>1. /\ run[s].at \in 1 .. Len(Program) /\ run'[s].at \in 1 .. Len(Program)
        /\ Len(Program) \in Nat
    BY <1>2, <1>3, Places DEF TypeOK
  <2>2. j \in 2 .. Len(Program) /\ Program[j] \in Resources
    BY <1>3, <2>1, Places
  <2>3. made'[Program[j]] \in [stage : {"absent", "torn", "plain", "ready"}, by : Runs \union {None}]
    BY <1>3, <2>2 DEF TypeOK
  <2>4. ASSUME Executing(s), j \in 2 .. run[s].at - 1
        PROVE  made'[Program[j]] = [stage |-> "ready", by |-> s]
    <3>1. made[Program[j]] = [stage |-> "ready", by |-> s]
      BY <1>2, <2>4 DEF StepsStand
    <3>2. made'[Program[j]] # made[Program[j]] => made[Program[j]].by = r /\ made'[Program[j]].by = r
                                                   /\ made'[Program[j]].stage = "ready"
      BY <1>1, <2>2, <3>1 DEF Effect, Missing
    <3> QED
      BY <2>3, <3>1, <3>2
  <2>5. CASE s # r
    <3>1. run'[s] = run[s]
      BY <1>1, <2>5 DEF Effect
    <3> QED
      BY <2>4, <3>1 DEF Executing
  <2>6. CASE s = r
    <3>1. \/ run'[r].at = run[r].at
          \/ /\ run'[r].at = run[r].at + 1
             /\ run[r].at = 1 \/ made'[At(r)] = [stage |-> "ready", by |-> r]
      BY <1>1, <2>6 DEF Effect
    <3>2. CASE j \in 2 .. run[r].at - 1
      BY <1>3, <2>4, <2>6, <3>2
    <3>3. CASE j \notin 2 .. run[r].at - 1
      <4>1. j = run[r].at /\ run'[r].at = run[r].at + 1 /\ run[r].at # 1
        BY <2>1, <2>6, <3>1, <3>3
      <4> QED
        BY <2>6, <3>1, <4>1, AtShape, <1>2
    <3> QED
      BY <3>2, <3>3
  <2> QED
    BY <2>5, <2>6
<1>7. NvramOfStarted'
  <2> SUFFICES ASSUME NEW g \in Guests, ~Missing(Nvram(g))' PROVE made'[Domain(g)].stage = "ready"
    BY DEF NvramOfStarted
  <2>1. CASE made'[Nvram(g)] # made[Nvram(g)]
    BY <1>1, <2>1 DEF Effect
  <2>2. CASE made'[Nvram(g)] = made[Nvram(g)]
    <3>1. made[Domain(g)].stage = "ready"
      BY <1>2, <1>3, <2>2 DEF NvramOfStarted, Missing
    <3>2. Domain(g) \in Resources
      BY DEF Resources, Built, OfGuest
    <3> QED
      BY <1>1, <3>1, <3>2 DEF Effect
  <2> QED
    BY <2>1, <2>2
<1>8. AloneBuilds'
  <2> SUFFICES ASSUME NEW s \in Runs, Executing(s)', run'[s].alone
               PROVE  /\ \A t \in Runs : Executing(t)' => t = s
                      /\ \A x \in Built : ~Missing(x)' => made'[x].by = s
    BY DEF AloneBuilds
  <2>1. \A t \in Runs : Executing(t)' => Executing(t)
    BY <1>1 DEF Effect, Executing
  <2>2. run[s].alone
    BY <1>1 DEF Effect
  <2>3. s = r
    BY <1>2, <1>3, <2>1, <2>2 DEF AloneBuilds
  <2>4. /\ \A t \in Runs : Executing(t) => t = s
        /\ \A x \in Built : ~Missing(x) => made[x].by = s
    BY <1>2, <2>1, <2>2 DEF AloneBuilds
  <2>5. ASSUME NEW x \in Built, ~Missing(x)' PROVE made'[x].by = s
    <3>1. made'[x] # made[x] => made'[x].by = r
      BY <1>1, <1>3 DEF Effect
    <3>2. made'[x] = made[x] => made'[x].by = s
      BY <2>4, <2>5 DEF Missing
    <3> QED
      BY <2>3, <3>1, <3>2
  <2> QED
    BY <2>1, <2>4, <2>5
<1>9. NoDoomedBuild'
  <2> SUFFICES ASSUME NEW s \in Runs, run'[s].pc = "collided" PROVE ~run'[s].alone
    BY DEF NoDoomedBuild
  <2>1. CASE s # r
    BY <1>1, <1>2, <2>1 DEF Effect, NoDoomedBuild
  <2>2. CASE s = r
    <3>1. /\ ~Missing(At(r)) /\ made[At(r)].by # r /\ (At(r) = Helper => ~run[r].alone)
          /\ run'[r].alone = run[r].alone
      BY <1>1, <2>2 DEF Effect
    <3>2. At(r) = Helper \/ At(r) \in Built
      BY <1>2, AtShape
    <3>3. At(r) \in Built => ~run[r].alone
      BY <1>2, <1>3, <3>1 DEF AloneBuilds
    <3> QED
      BY <2>2, <3>1, <3>2, <3>3
  <2> QED
    BY <2>1, <2>2
<1> QED
  BY <1>3, <1>5, <1>6, <1>7, <1>8, <1>9 DEF IInv

LEMMA StepKeeps == IInv /\ [Next]_vars => IInv'
<1> SUFFICES ASSUME IInv, [Next]_vars PROVE IInv'
  OBVIOUS
<1>1. ASSUME NEW r \in Runs, Preflight(r) PROVE IInv'
  BY <1>1, PreflightKeeps
<1>2. ASSUME NEW r \in Runs, Execute(r) PROVE IInv'
  BY <1>2, ExecuteKeeps
<1>3. ASSUME NEW x \in DOMAIN made, OperatorRemoves(x) PROVE IInv'
  BY <1>3, RemovalKeeps
<1>4. CASE UNCHANGED vars
  BY <1>4 DEF vars, IInv, TypeOK, FirstDecides, StepsStand, NvramOfStarted, AloneBuilds, OneBuilder,
              NoDoomedBuild, Busy, Executing, Missing
<1> QED
  BY <1>1, <1>2, <1>3, <1>4 DEF Next

LEMMA Invariance == Spec => []IInv
  BY Begins, StepKeeps, PTL DEF Spec

(********************************** the theorems *********************************)
(* What stands on the host was built by one invocation, for every number of guests and
   of invocations that overlap, fail and rerun: the exclusive creation of the first
   file (write_new, 384) excludes all others but one, and preflight (322 to 376) all
   remains of earlier ones. *)
THEOREM BuiltByOne == Spec => []OneBuilder
<1>1. IInv => OneBuilder
  BY DEF IInv
<1> QED
  BY <1>1, Invariance, PTL

(* What preflight accepted, with no other run beside, never meets an existing resource
   half way (write_new, 384; virsh define, 418). *)
THEOREM NoBuildIsDoomed == Spec => []NoDoomedBuild
<1>1. IInv => NoDoomedBuild
  BY DEF IInv
<1> QED
  BY <1>1, Invariance, PTL

(* A step that starts a guest, for the next theorem: it is virsh start, at the place of
   its domain, and all of the guest's is whole and of the same run. *)
LEMMA StartsAtDomain ==
    ASSUME IInv, [Next]_vars, NEW g \in Guests,
           made[Domain(g)].stage # "ready", made'[Domain(g)].stage = "ready"
    PROVE  \E r \in Runs : Starts(r) /\ At(r) = Domain(g)
<1>1. TypeOK /\ Domain(g) \in Resources
  BY DEF IInv, Resources, Built, OfGuest
<1>2. made' # made
  OBVIOUS
<1>3. ASSUME NEW x \in DOMAIN made, OperatorRemoves(x) PROVE FALSE
  <2>1. made' = [made EXCEPT ![x] = Absent]
    BY <1>3 DEF OperatorRemoves
  <2> QED
    BY <1>1, <2>1 DEF TypeOK, Absent
<1>4. PICK r \in Runs : Execute(r)
  BY <1>2, <1>3 DEF Next, Preflight, vars
<1>5. ASSUME NEW stage \in {"torn", "plain", "ready"}, Put(At(r), stage, r)
      PROVE  stage = "ready" /\ At(r) = Domain(g)
  <2>1. /\ made'[At(r)] = [stage |-> stage, by |-> r]
        /\ Domain(g) # At(r) => made'[Domain(g)] = made[Domain(g)]
    BY <1>1, <1>5, PutShape
  <2>2. At(r) = Domain(g)
    BY <2>1
  <2> QED
    BY <2>1, <2>2
<1>6. ~SkipsHelper(r) /\ ~Collides(r)
  BY <1>2 DEF SkipsHelper, Collides
<1>7. ~Creates(r)
  BY <1>5 DEF Creates
<1>8. ~Fills(r)
  BY <1>5 DEF Fills
<1>9. ~SetsMode(r)
  <2>1. SetsMode(r) => At(r) \in Files /\ At(r) = Domain(g)
    BY <1>5 DEF SetsMode
  <2> QED
    BY <2>1, Kinds
<1>10. ~Defines(r)
  BY <1>5 DEF Defines
<1>11. ~Enables(r)
  <2>1. Enables(r) => At(r) \in Links /\ At(r) = Domain(g)
    BY <1>2, <1>5 DEF Enables
  <2> QED
    BY <2>1, Kinds
<1>12. ~Fails(r)
  BY <1>2, <1>5 DEF Fails
<1>13. Starts(r)
  BY <1>4, <1>6, <1>7, <1>8, <1>9, <1>10, <1>11, <1>12 DEF Execute
<1>14. At(r) = Domain(g)
  <2> DEFINE fresh == {Nvram(h) : h \in {h \in Guests : Domain(h) = At(r) /\ Missing(Nvram(h))}}
  <2>1. made' = [x \in DOMAIN made |-> IF x = At(r) \/ x \in fresh
                                        THEN [stage |-> "ready", by |-> r] ELSE made[x]]
    BY <1>13 DEF Starts
  <2>2. Domain(g) \notin fresh
    BY Kinds
  <2> HIDE DEF fresh
  <2> QED
    BY <1>1, <2>1, <2>2 DEF TypeOK
<1> QED
  BY <1>13, <1>14

(* A guest is started (virsh start, 420) by the run that built everything it uses, with
   network, links and storage whole and with fresh UEFI variables. *)
THEOREM StartsAreWhole == Spec => StartedWhole
<1> DEFINE Whole ==
       \A g \in Guests :
          made[Domain(g)].stage # "ready" /\ made'[Domain(g)].stage = "ready" =>
              \A x \in OfGuest(g) \union {NetXml, Network} :
                  made'[x] = [stage |-> "ready", by |-> made'[Domain(g)].by]
<1>1. IInv /\ [Next]_vars => Whole
  <2> SUFFICES ASSUME IInv, [Next]_vars, NEW g \in Guests,
                      made[Domain(g)].stage # "ready", made'[Domain(g)].stage = "ready",
                      NEW x \in OfGuest(g) \union {NetXml, Network}
               PROVE  made'[x] = [stage |-> "ready", by |-> made'[Domain(g)].by]
    OBVIOUS
  <2>1. PICK r \in Runs : Starts(r) /\ At(r) = Domain(g)
    BY StartsAtDomain
  <2> DEFINE whole == [stage |-> "ready", by |-> r]
             fresh == {Nvram(h) : h \in {h \in Guests : Domain(h) = At(r) /\ Missing(Nvram(h))}}
  <2>2. /\ Executing(r) /\ TypeOK /\ Busy /\ run[r].at \in 1 .. Len(Program)
        /\ Program[run[r].at] = Domain(g)
    BY <2>1, AtShape DEF Starts, IInv, Busy
  <2>3. x \in Resources /\ Domain(g) \in Resources /\ DOMAIN made = Resources
    BY <2>2 DEF TypeOK, Resources, Built, OfGuest
  <2>4. \A y \in Resources : made'[y] = IF y = At(r) \/ y \in fresh THEN whole ELSE made[y]
    <3> HIDE DEF fresh
    <3>1. made' = [y \in DOMAIN made |-> IF y = At(r) \/ y \in fresh THEN whole ELSE made[y]]
      BY <2>1 DEF Starts, fresh
    <3> QED
      BY <2>3, <3>1
  <2>5. made'[Domain(g)] = whole
    BY <2>1, <2>3, <2>4
  <2>6. CASE x = Domain(g)
    BY <2>5, <2>6
  <2>7. CASE x = Nvram(g)
    <3>1. Missing(Nvram(g))
      BY <2>2 DEF IInv, NvramOfStarted
    <3>2. x \in fresh
      BY <2>1, <2>7, <3>1
    <3> QED
      BY <2>3, <2>4, <2>5, <3>2
  <2>8. CASE x \in {Net(g), Link(g), Storage(g), NetXml, Network}
    <3>1. PICK j \in 2 .. run[r].at - 1 : Program[j] = x
      BY <2>2, <2>8, DomainLast
    <3>2. made[x] = whole
      BY <2>2, <3>1 DEF IInv, StepsStand
    <3> QED
      BY <2>3, <2>4, <2>5, <3>2
  <2> QED
    BY <2>6, <2>7, <2>8 DEF OfGuest
<1> QED
  BY <1>1, Invariance, PTL DEF Spec, StartedWhole
================================================================================
