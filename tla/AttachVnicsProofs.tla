--------------------------- MODULE AttachVnicsProofs ---------------------------
(* Attachments of VNICs, for any number of guests, physical NICs, invocations and
   attachments, whatever is lost or late between an invocation and OCI, and whatever
   becomes of attachments and VNICs between two calls of an invocation. *)
EXTENDS AttachVnics, FiniteSetTheorems, TLAPS

Reading == {"read", "check"}
Asking == {"attach", "wait", "report", "print"}
Pcs == {"idle", "done", "failed"} \union Reading \union Asking
States == {"ATTACHING", "ATTACHED", "DETACHING", "DETACHED"}

Listings == UNION {[S -> [state : States, fit : BOOLEAN]] : S \in SUBSET Nat}

LocalState ==
    [pc : Pcs, nic : NicIndexes, active : Listings, seen : Nat,
     planned : [Guests -> Nat \union {None}], next : 1 .. Len(GuestNames),
     current : Nat \union {None}, got : BOOLEAN, reported : [Guests -> Nat \union {None}]]

Typed ==
    /\ att \in Seq(Attachment)
    /\ token \in [Tokens -> Nat \union {None}]
    /\ late \subseteq Tokens
    /\ run \in [Runs -> LocalState]

(* What a request asks for, and the attachments that answer it. *)
Key(as, a) == <<as[a].guest, as[a].nic>>
Answers(t) == {a \in DOMAIN att : att[a].state # "DETACHED" /\ Key(att, a) = t}

(* A token that OCI remembers leads to the only answer there can be. *)
TokenKnown ==
    \A t \in Tokens : token[t] # None =>
        /\ token[t] \in DOMAIN att /\ Key(att, token[t]) = t
        /\ Answers(t) \subseteq {token[t]}

(* An invocation that asks, when the turn comes to it, for what it did not find. *)
Wants(r, t) ==
    /\ run[r].nic = t[2]
    /\ \/ run[r].pc \in Reading /\ Matches(r, t[1]) = {}
       \/ run[r].pc \in Asking /\ run[r].planned[t[1]] = None

(* What will be made anew when OCI gets to it is not there. *)
NoneYet ==
    \A t \in Tokens : token[t] = None /\ (t \in late \/ \E r \in Runs : Wants(r, t)) => Answers(t) = {}

(* What an invocation listed is all that was there, and what it found settled is. *)
Listed(r) ==
    run[r].pc \in Reading =>
        /\ run[r].seen <= Len(att) /\ DOMAIN run[r].active \subseteq DOMAIN att
        /\ \A a \in Live(att) : a <= run[r].seen => a \in DOMAIN run[r].active
        /\ \A a \in DOMAIN run[r].active :
              run[r].active[a].state # "ATTACHING" => att[a].state # "ATTACHING"

(* The names it has been through are planned, and in order. *)
PlansFor(r, g) ==
    /\ Usable(r, g)
    /\ run[r].planned[g] = None => Matches(r, g) = {}
    /\ run[r].planned[g] # None => run[r].planned[g] \in Matches(r, g)
Planning(r) ==
    /\ run[r].pc \in {"idle", "read"} => run[r].next = 1
    /\ run[r].pc = "check" => \A i \in 1 .. run[r].next - 1 : PlansFor(r, GuestNames[i])

(* From then on no conflict is left of what was there. *)
Refused(r) ==
    run[r].pc \in Asking =>
        /\ run[r].seen <= Len(att)
        /\ \A a, b \in Live(att) : a <= run[r].seen /\ b <= run[r].seen =>
              /\ att[a].nic = run[r].nic /\ att[a].state # "ATTACHING"
              /\ att[a].guest = att[b].guest => a = b

(* The plan, and what it waits for and reports, are attachments of the right guests. *)
OfGuest(a, g) == a \in DOMAIN att /\ att[a].guest = g
Current(r) ==
    /\ run[r].pc \in Asking =>
          \A g \in Guests : run[r].planned[g] # None => OfGuest(run[r].planned[g], g)
    /\ run[r].pc \in {"wait", "report", "print"} => OfGuest(run[r].current, Guest(r))

Reported(r) ==
    /\ \A g \in Guests : run[r].reported[g] # None =>
          OfGuest(run[r].reported[g], g) /\ att[run[r].reported[g]].nic = run[r].nic
    /\ run[r].pc \in Asking =>
          \A i \in 1 .. run[r].next - 1 : run[r].reported[GuestNames[i]] # None
    /\ run[r].pc = "done" => \A g \in Guests : run[r].reported[g] # None

Sound(r) == Listed(r) /\ Planning(r) /\ Refused(r) /\ Current(r) /\ Reported(r)

VInv == Typed /\ OneAttachment /\ TokenKnown /\ NoneYet /\ \A r \in Runs : Sound(r)

LEMMA GuestOf ==
    ASSUME NEW i \in 1 .. Len(GuestNames) PROVE GuestNames[i] \in Guests
BY NamesAssumption DEF Guests, ToSet

LEMMA NameOf ==
    ASSUME NEW g \in Guests PROVE \E i \in 1 .. Len(GuestNames) : g = GuestNames[i]
BY NamesAssumption DEF Guests, ToSet

LEMMA EmptyListing == <<>> \in Listings
<1>1. <<>> \in [{} -> [state : States, fit : BOOLEAN]]
  OBVIOUS
<1> QED
  BY <1>1 DEF Listings

LEMMA LocalsTyped ==
    ASSUME NEW n \in NicIndexes, NEW pc \in Pcs
    PROVE  /\ Locals(pc, n) \in LocalState
           /\ Locals(pc, n).pc = pc /\ Locals(pc, n).nic = n /\ Locals(pc, n).next = 1
           /\ \A g \in Guests : Locals(pc, n).reported[g] = None
BY NamesAssumption, EmptyListing DEF Locals, LocalState

LEMMA InitVInv == Init => VInv
<1> SUFFICES ASSUME Init PROVE VInv
  OBVIOUS
<1>1. PICK found \in SUBSET [guest : Guests, nic : NicIndexes, state : {"ATTACHED"}, fit : {TRUE}] :
          /\ \A x, y \in found : x.guest = y.guest => x = y
          /\ att = SetToSeq(found)
  BY DEF Init
<1>2. IsFiniteSet(found)
  <2>1. IsFiniteSet(1 .. Len(GuestNames))
    BY NamesAssumption, FS_Interval
  <2> DEFINE s == [i \in 1 .. Len(GuestNames) |-> GuestNames[i]]
             f == [x \in found |-> x.guest]
  <2>2. s \in Surjection(1 .. Len(GuestNames), Guests)
    BY NamesAssumption DEF Guests, ToSet, Surjection, Range
  <2>3. IsFiniteSet(Guests)
    BY <2>1, <2>2, FS_Surjection
  <2>4. f \in Injection(found, Guests)
    BY <1>1 DEF Injection, IsInjective
  <2> QED
    BY <2>3, <2>4, FS_Injection DEF ExistsInjection
<1>3. /\ att \in [1 .. Cardinality(found) -> found] /\ Cardinality(found) \in Nat
      /\ \A a, b \in DOMAIN att : att[a] = att[b] => a = b
  <2>1. Cardinality(found) \in Nat /\ ExistsBijection(1 .. Cardinality(found), found)
    BY <1>2, FS_CardinalityType
  <2>2. PICK f \in Bijection(1 .. Cardinality(found), found) : TRUE
    BY <2>1 DEF ExistsBijection
  <2>3. f \in [1 .. Cardinality(found) -> found] /\ \A a, b \in DOMAIN f : f[a] = f[b] => a = b
    BY <2>2 DEF Bijection, Injection, IsInjective
  <2> QED
    BY <1>1, <2>1, <2>3 DEF SetToSeq, IsInjective
<1>4. att \in Seq(Attachment)
  <2>1. found \subseteq Attachment
    BY <1>1 DEF Attachment
  <2>2. att \in [1 .. Cardinality(found) -> Attachment]
    BY <1>3, <2>1
  <2> QED
    BY <1>3, <2>2
<1>5. OneAttachment
  BY <1>1, <1>3 DEF OneAttachment, Live
<1>6. /\ token = [t \in Tokens |-> None] /\ late = {}
      /\ \E nic \in NicChoices : run = [r \in Runs |-> Locals("idle", nic[r])]
  BY DEF Init
<1>7. PICK nic \in [Runs -> NicIndexes] : run = [r \in Runs |-> Locals("idle", nic[r])]
  BY <1>6, NicChoicesAssumption
<1>8. "idle" \in Pcs
  BY DEF Pcs
<1>9. Typed
  BY <1>4, <1>6, <1>7, <1>8, LocalsTyped DEF Typed
<1>10. \A r \in Runs : /\ run[r].pc = "idle" /\ run[r].next = 1
                        /\ \A g \in Guests : run[r].reported[g] = None
  BY <1>7, <1>8, LocalsTyped
<1>11. \A r \in Runs : Sound(r)
  BY <1>10 DEF Sound, Listed, Planning, Refused, Current, Reported, Reading, Asking
<1>12. TokenKnown /\ NoneYet
  BY <1>6, <1>10 DEF TokenKnown, NoneYet, Wants, Reading, Asking
<1> QED
  BY <1>5, <1>9, <1>11, <1>12 DEF VInv

(****************************** OCI and the operator ******************************)
(* What can happen to attachments: they keep what they are known by, none goes back to
   an earlier state, and new ones have new ids. *)
Aged ==
    /\ Len(att) <= Len(att')
    /\ \A a \in DOMAIN att :
          /\ att'[a].guest = att[a].guest /\ att'[a].nic = att[a].nic
          /\ att[a].state = "DETACHED" => att'[a].state = "DETACHED"
          /\ att[a].state # "ATTACHING" => att'[a].state # "ATTACHING"
Older == Aged /\ Len(att') = Len(att)

LEMMA RunTyped ==
    ASSUME Typed, NEW r \in Runs
    PROVE  /\ run[r].pc \in Pcs /\ run[r].nic \in NicIndexes /\ run[r].active \in Listings
           /\ run[r].seen \in Nat /\ run[r].planned \in [Guests -> Nat \union {None}]
           /\ run[r].next \in 1 .. Len(GuestNames) /\ run[r].current \in Nat \union {None}
           /\ run[r].got \in BOOLEAN /\ run[r].reported \in [Guests -> Nat \union {None}]
           /\ Guest(r) \in Guests /\ Token(r) \in Tokens
           /\ Token(r)[1] = Guest(r) /\ Token(r)[2] = run[r].nic
BY GuestOf DEF Typed, LocalState, Guest, Token, Tokens

(* Nothing that was there becomes a conflict again. *)
LEMMA RefusedStays ==
    ASSUME Typed, Typed', Aged, NEW r \in Runs, Refused(r), run[r].pc \in Asking,
           run'[r].seen = run[r].seen, run'[r].nic = run[r].nic
    PROVE  Refused(r)'
<1>1. /\ Len(att) \in Nat /\ Len(att') \in Nat /\ Len(att) <= Len(att')
      /\ DOMAIN att = 1 .. Len(att) /\ DOMAIN att' = 1 .. Len(att')
  BY DEF Typed, Aged
<1>2. run[r].seen \in Nat /\ run[r].seen <= Len(att)
  BY RunTyped DEF Refused
<1>3. \A a \in Live(att') : a <= run[r].seen => a \in Live(att) /\ a \in DOMAIN att
  BY <1>1, <1>2 DEF Live, Aged
<1> QED
  BY <1>1, <1>2, <1>3 DEF Refused, Aged

(* An invocation that does nothing meanwhile stays sound. *)
LEMMA SoundStays ==
    ASSUME Typed, Typed', Aged, NEW r \in Runs, Sound(r), run'[r] = run[r]
    PROVE  Sound(r)'
<1>1. /\ Len(att) \in Nat /\ Len(att') \in Nat /\ Len(att) <= Len(att')
      /\ DOMAIN att = 1 .. Len(att) /\ DOMAIN att' = 1 .. Len(att')
  BY DEF Typed, Aged
<1>2. run[r].seen \in Nat /\ run[r].next \in Nat
  BY RunTyped, NamesAssumption
<1>3. \A a \in Live(att') : a <= Len(att) => a \in Live(att)
  BY <1>1 DEF Aged, Live
<1>4. run[r].pc \in Reading => \A g \in Guests : Matches(r, g)' = Matches(r, g)
  <2>1. SUFFICES ASSUME run[r].pc \in Reading, NEW g \in Guests PROVE Matches(r, g)' = Matches(r, g)
    OBVIOUS
  <2>2. \A a \in DOMAIN run[r].active : att'[a].guest = att[a].guest
    BY <2>1 DEF Sound, Listed, Aged
  <2> QED
    BY <2>2 DEF Matches
<1>5. Listed(r)'
  <2> SUFFICES ASSUME run[r].pc \in Reading
               PROVE  /\ run[r].seen <= Len(att') /\ DOMAIN run[r].active \subseteq DOMAIN att'
                      /\ \A a \in Live(att') : a <= run[r].seen => a \in DOMAIN run[r].active
                      /\ \A a \in DOMAIN run[r].active :
                            run[r].active[a].state # "ATTACHING" => att'[a].state # "ATTACHING"
    BY DEF Listed
  <2>1. run[r].seen <= Len(att) /\ DOMAIN run[r].active \subseteq DOMAIN att
    BY DEF Sound, Listed
  <2>2. run[r].seen <= Len(att') /\ DOMAIN run[r].active \subseteq DOMAIN att'
    BY <1>1, <1>2, <2>1
  <2>3. \A a \in Live(att') : a <= run[r].seen => a \in DOMAIN run[r].active
    <3>1. \A a \in Live(att') : a \in Nat
      BY <1>1 DEF Live
    <3>2. \A a \in Live(att') : a <= run[r].seen => a \in Live(att)
      BY <1>1, <1>2, <1>3, <2>1, <3>1
    <3> QED
      BY <3>2 DEF Sound, Listed
  <2>4. \A a \in DOMAIN run[r].active :
            run[r].active[a].state # "ATTACHING" => att'[a].state # "ATTACHING"
    BY <2>1 DEF Sound, Listed, Aged
  <2> QED
    BY <2>2, <2>3, <2>4
<1>6. Planning(r)'
  <2>0. run[r].pc \in {"idle", "read"} => run[r].next = 1
    BY DEF Sound, Planning
  <2> SUFFICES ASSUME run[r].pc = "check", NEW i \in 1 .. run[r].next - 1
               PROVE  PlansFor(r, GuestNames[i])'
    BY <2>0 DEF Planning
  <2> DEFINE g == GuestNames[i]
  <2>1. g \in Guests
    BY <1>2, RunTyped, GuestOf
  <2>2. PlansFor(r, g) /\ Matches(r, g)' = Matches(r, g)
    BY <1>4, <2>1 DEF Sound, Planning, Reading
  <2>3. \A a \in Matches(r, g) : att'[a].nic = att[a].nic
    BY DEF Matches, Sound, Listed, Reading, Aged
  <2>4. Usable(r, g)'
    BY <2>2, <2>3 DEF PlansFor, Usable, Valid
  <2> QED
    BY <2>2, <2>4 DEF PlansFor
<1>7. Refused(r)'
  BY RefusedStays DEF Sound, Refused
<1>8. \A a, g : OfGuest(a, g) => OfGuest(a, g)' /\ att'[a].nic = att[a].nic
  BY <1>1 DEF OfGuest, Aged
<1>9. Current(r)'
  BY <1>8 DEF Sound, Current, Guest
<1>10. Reported(r)'
  <2>1. \A g \in Guests : run[r].reported[g] # None =>
          OfGuest(run[r].reported[g], g)' /\ att'[run[r].reported[g]].nic = run[r].nic
    BY <1>8 DEF Sound, Reported
  <2> QED
    BY <2>1 DEF Sound, Reported
<1> QED
  BY <1>5, <1>6, <1>7, <1>9, <1>10 DEF Sound

(* What it wants does not change either. *)
LEMMA WantsStay ==
    ASSUME Typed, Aged, NEW r \in Runs, Sound(r), run'[r] = run[r], NEW t \in Tokens, Wants(r, t)'
    PROVE  Wants(r, t)
<1>1. run[r].pc \in Reading => Matches(r, t[1])' = Matches(r, t[1])
  BY DEF Sound, Listed, Aged, Matches
<1> QED
  BY <1>1 DEF Wants

LEMMA NoNewAnswers ==
    ASSUME Typed, Older, Typed'
    PROVE  /\ \A t \in Tokens : Answers(t)' \subseteq Answers(t)
           /\ DOMAIN att' = DOMAIN att
           /\ OneAttachment => OneAttachment'
<1>1. DOMAIN att' = DOMAIN att
  BY DEF Older, Typed
<1>2. \A a \in DOMAIN att : att'[a].guest = att[a].guest /\ att'[a].nic = att[a].nic
  BY DEF Older, Aged
<1> QED
  BY <1>1, <1>2 DEF Older, Aged, Answers, Key, OneAttachment, Live

(* What OCI makes of a request that has no answer yet, or has one it remembers. *)
LEMMA MakeKeeps ==
    ASSUME VInv, NEW t \in Tokens, Make(t), token[t] = None => Answers(t) = {}
    PROVE  /\ Aged /\ att' \in Seq(Attachment) /\ OneAttachment' /\ TokenKnown'
           /\ token' \in [Tokens -> Nat \union {None}] /\ token'[t] # None
           /\ \A s \in Tokens : s # t => token'[s] = token[s] /\ Answers(s)' = Answers(s)
<1> USE DEF VInv
<1>1. CASE token[t] # None
  <2>1. UNCHANGED <<att, token>>
    BY <1>1 DEF Make
  <2> QED
    BY <1>1, <2>1 DEF Aged, Typed, OneAttachment, Live, TokenKnown, Answers, Key
<1>2. CASE token[t] = None
  <2> DEFINE new == [guest |-> t[1], nic |-> t[2], state |-> "ATTACHING", fit |-> FALSE]
             n == Len(att) + 1
  <2>1. att' = Append(att, new) /\ token' = [token EXCEPT ![t] = n]
    BY <1>2 DEF Make
  <2>2. new \in Attachment /\ t = <<new.guest, new.nic>>
    BY DEF Attachment, Tokens
  <2> HIDE DEF new
  <2>3. /\ att' \in Seq(Attachment) /\ Len(att') = n /\ DOMAIN att' = DOMAIN att \union {n}
        /\ n \in Nat /\ n \notin DOMAIN att /\ att'[n] = new
        /\ \A a \in DOMAIN att : att'[a] = att[a]
    BY <2>1, <2>2 DEF Typed
  <2> HIDE DEF n
  <2>4. /\ token' \in [Tokens -> Nat \union {None}] /\ token'[t] = n
        /\ \A s \in Tokens : s # t => token'[s] = token[s]
    BY <2>1, <2>3 DEF Typed
  <2>5. Aged
    BY <2>3 DEF Aged, Typed, n
  <2>6. /\ Key(att', n) = t /\ \A a \in DOMAIN att : Key(att', a) = Key(att, a)
    BY <2>2, <2>3 DEF Key
  <2>7. /\ \A s \in Tokens : s # t => Answers(s)' = Answers(s)
        /\ Answers(t)' \subseteq {n}
    BY <1>2, <2>3, <2>6 DEF Answers
  <2>8. TokenKnown'
    <3>1. ASSUME NEW s \in Tokens, s # t, token'[s] # None
          PROVE  token'[s] \in DOMAIN att' /\ Key(att', token'[s]) = s /\ Answers(s)' \subseteq {token'[s]}
      BY <2>3, <2>4, <2>6, <2>7, <3>1 DEF TokenKnown
    <3> QED
      BY <2>3, <2>4, <2>6, <2>7, <3>1 DEF TokenKnown
  <2>9. OneAttachment'
    <3> SUFFICES ASSUME NEW a \in Live(att'), NEW b \in Live(att'),
                        att'[a].guest = att'[b].guest, att'[a].nic = att'[b].nic
                 PROVE  a = b
      BY DEF OneAttachment
    <3>1. CASE a = n \/ b = n
      <4>1. Key(att', a) = t /\ Key(att', b) = t
        BY <2>6, <3>1 DEF Key
      <4>2. a \in Answers(t)' /\ b \in Answers(t)'
        BY <4>1 DEF Answers, Live
      <4> QED
        BY <2>7, <4>2
    <3>2. CASE a # n /\ b # n
      BY <2>3, <3>2 DEF OneAttachment, Live
    <3> QED
      BY <3>1, <3>2
  <2>10. token'[t] # None
    BY <2>3, <2>4, NamesAssumption
  <2> QED
    BY <2>3, <2>4, <2>5, <2>7, <2>8, <2>9, <2>10
<1> QED
  BY <1>1, <1>2

(* A step in which no invocation moves. *)
LEMMA InvocationsStay ==
    ASSUME VInv, Typed', Aged, OneAttachment', TokenKnown', UNCHANGED run, late' \subseteq late,
           \A t \in Tokens : \/ token'[t] # None
                             \/ Answers(t)' \subseteq Answers(t) /\ token'[t] = token[t]
                             \/ t \notin late /\ \A r \in Runs : ~Executing(r)
    PROVE  VInv'
<1> USE DEF VInv
<1>1. ASSUME NEW r \in Runs PROVE Sound(r)'
  BY SoundStays
<1>2. NoneYet'
  <2> SUFFICES ASSUME NEW t \in Tokens, token'[t] = None, t \in late' \/ \E r \in Runs : Wants(r, t)'
               PROVE  Answers(t)' = {}
    BY DEF NoneYet
  <2>1. t \in late \/ \E r \in Runs : Wants(r, t)
    BY WantsStay
  <2>2. \A r \in Runs : Wants(r, t) => Executing(r)
    BY DEF Wants, Executing, Reading, Asking
  <2> QED
    BY <2>1, <2>2 DEF NoneYet
<1> QED
  BY <1>1, <1>2

LEMMA CloudKeeps == ASSUME VInv, CloudStep PROVE VInv'
<1> USE DEF VInv
<1>1. CASE \E a \in DOMAIN att : Moves(a) \/ VnicChanges(a) \/ OperatorDetaches(a)
  <2> PICK a \in DOMAIN att : Moves(a) \/ VnicChanges(a) \/ OperatorDetaches(a)
    BY <1>1
  <2>1. PICK s \in States, f \in BOOLEAN :
            /\ att' = [att EXCEPT ![a].state = s, ![a].fit = f]
            /\ att[a].state # "DETACHED"
            /\ att[a].state # "ATTACHING" => s # "ATTACHING"
            /\ UNCHANGED <<token, late, run>>
    <3>1. att[a] \in Attachment
      BY DEF Typed
    <3> QED
      BY <3>1 DEF Moves, VnicChanges, OperatorDetaches, Become, States, Attachment
  <2>2. DOMAIN att' = DOMAIN att /\ \A b \in DOMAIN att : b # a => att'[b] = att[b]
    BY <2>1
  <2>3. /\ att'[a] \in Attachment /\ att'[a].guest = att[a].guest /\ att'[a].nic = att[a].nic
        /\ att'[a].state = s
    <3>1. att[a] \in Attachment
      BY DEF Typed
    <3>2. att'[a] = [att[a] EXCEPT !.state = s, !.fit = f]
      BY <2>1
    <3> QED
      BY <3>1, <3>2 DEF Attachment, States
  <2>4. Older /\ Typed'
    <3>1. att \in Seq(Attachment)
      BY DEF Typed
    <3>2. DOMAIN att = 1 .. Len(att) /\ Len(att) \in Nat
      BY <3>1
    <3>3. att' = [b \in 1 .. Len(att) |-> att'[b]]
      BY <2>1, <3>2
    <3>4. att' \in [1 .. Len(att) -> Attachment]
      <4>0. \A b \in DOMAIN att : att[b] \in Attachment
        BY <3>1
      <4>1. \A b \in 1 .. Len(att) : att'[b] \in Attachment
        BY ONLY <2>2, <2>3, <3>2, <4>0
      <4>2. [b \in 1 .. Len(att) |-> att'[b]] \in [1 .. Len(att) -> Attachment]
        BY <4>1
      <4> QED
        BY ONLY <3>3, <4>2
    <3>5. att' \in Seq(Attachment) /\ Len(att') = Len(att)
      BY <3>2, <3>4
    <3>6. Aged
      <4>1. Len(att) <= Len(att')
        BY <3>2, <3>5
      <4> QED
        BY ONLY <2>1, <2>2, <2>3, <4>1 DEF Aged
    <3> QED
      BY <2>1, <3>5, <3>6 DEF Typed, Older
  <2>5. (\A t \in Tokens : Answers(t)' \subseteq Answers(t)) /\ DOMAIN att' = DOMAIN att /\ OneAttachment'
    BY <2>4, NoNewAnswers
  <2>6. TokenKnown'
    BY <2>1, <2>4, <2>5 DEF TokenKnown, Older, Aged, Key
  <2> QED
    BY <2>1, <2>4, <2>5, <2>6, InvocationsStay DEF Older
<1>2. CASE \E t \in Tokens : NeverCarriedOut(t) \/ TokenExpires(t)
  <2> PICK t \in Tokens : NeverCarriedOut(t) \/ TokenExpires(t)
    BY <1>2
  <2>1. UNCHANGED <<att, run>> /\ late' \subseteq late /\ token' \in [Tokens -> Nat \union {None}]
    BY DEF NeverCarriedOut, TokenExpires, Typed
  <2>2. /\ Typed' /\ Aged /\ OneAttachment' /\ \A s \in Tokens : Answers(s)' = Answers(s)
    BY <2>1 DEF Typed, Aged, OneAttachment, Live, Key, Answers
  <2>3. TokenKnown'
    BY <2>1, <2>2 DEF TokenKnown, Key, NeverCarriedOut, TokenExpires, Typed
  <2>4. \A s \in Tokens : \/ Answers(s)' \subseteq Answers(s) /\ token'[s] = token[s]
                          \/ s \notin late /\ \A r \in Runs : ~Executing(r)
    BY <2>2 DEF NeverCarriedOut, TokenExpires, Typed
  <2> QED
    BY <2>1, <2>2, <2>3, <2>4, InvocationsStay
<1>3. CASE \E t \in Tokens : CarriedOut(t)
  <2> PICK t \in Tokens : t \in late /\ Make(t) /\ late' = late \ {t} /\ UNCHANGED run
    BY <1>3 DEF CarriedOut
  <2>1. token[t] = None => Answers(t) = {}
    BY DEF NoneYet
  <2>2. /\ Aged /\ att' \in Seq(Attachment) /\ OneAttachment' /\ TokenKnown'
        /\ token' \in [Tokens -> Nat \union {None}] /\ token'[t] # None
        /\ \A s \in Tokens : s # t => token'[s] = token[s] /\ Answers(s)' = Answers(s)
    BY <2>1, MakeKeeps
  <2>3. Typed'
    BY <2>2 DEF Typed
  <2> QED
    BY <2>2, <2>3, InvocationsStay
<1> QED
  BY <1>1, <1>2, <1>3 DEF CloudStep

(******************************* the invocations **********************************)
(* A step of one invocation that leaves OCI as it is. *)
LEMMA QuietKeeps ==
    ASSUME VInv, NEW r \in Runs, NEW l \in LocalState, run' = [run EXCEPT ![r] = l],
           UNCHANGED <<att, token, late>>, Sound(r)',
           \A t \in Tokens : Wants(r, t)' => Wants(r, t) \/ Answers(t) = {}
    PROVE  VInv'
<1> USE DEF VInv
<1>1. Typed' /\ \A q \in Runs \ {r} : run'[q] = run[q]
  BY DEF Typed
<1>2. Aged /\ OneAttachment' /\ TokenKnown' /\ \A t \in Tokens : Answers(t)' = Answers(t)
  BY DEF Aged, Typed, OneAttachment, Live, TokenKnown, Answers, Key
<1>3. \A q \in Runs : Sound(q)'
  <2>1. ASSUME NEW q \in Runs \ {r} PROVE Sound(q)'
    BY <1>1, <1>2, SoundStays
  <2> QED
    BY <2>1
<1>4. NoneYet'
  <2> SUFFICES ASSUME NEW t \in Tokens, token[t] = None, t \in late \/ \E q \in Runs : Wants(q, t)'
               PROVE  Answers(t) = {}
    BY <1>2 DEF NoneYet
  <2>1. ASSUME NEW q \in Runs \ {r}, Wants(q, t)' PROVE Wants(q, t)
    BY <1>1, <1>2, <2>1, WantsStay
  <2> QED
    BY <2>1 DEF NoneYet
<1> QED
  BY <1>1, <1>2, <1>3, <1>4

(* What is left of an invocation that is over: what it reported. *)
LEMMA OverSound ==
    ASSUME VInv, NEW r \in Runs, NEW pc \in {"failed", "done"},
           NEW reported \in [Guests -> Nat \union {None}],
           \A g \in Guests : /\ reported[g] # None =>
                                   OfGuest(reported[g], g) /\ att[reported[g]].nic = run[r].nic
                             /\ pc = "done" => reported[g] # None,
           run' = Ended(r, pc, reported), UNCHANGED att
    PROVE  /\ [Locals(pc, run[r].nic) EXCEPT !.reported = reported] \in LocalState
           /\ Sound(r)' /\ \A t \in Tokens : ~Wants(r, t)'
<1> USE DEF VInv
<1> DEFINE l == [Locals(pc, run[r].nic) EXCEPT !.reported = reported]
<1>1. pc \in Pcs /\ run[r].nic \in NicIndexes /\ pc \notin Reading /\ pc \notin Asking
  BY RunTyped DEF Pcs, Reading, Asking
<1>2. /\ Locals(pc, run[r].nic) \in LocalState
      /\ Locals(pc, run[r].nic).pc = pc /\ Locals(pc, run[r].nic).nic = run[r].nic
  BY <1>1, LocalsTyped
<1>3. l \in LocalState /\ l.pc = pc /\ l.nic = run[r].nic /\ l.reported = reported
  BY <1>2 DEF LocalState
<1>4. run'[r] = l
  BY DEF Ended, Typed
<1> HIDE DEF l
<1>5. Listed(r)' /\ Planning(r)' /\ Refused(r)' /\ Current(r)'
  BY <1>1, <1>3, <1>4 DEF Listed, Planning, Refused, Current, Reading, Asking
<1>6. Reported(r)'
  BY <1>1, <1>3, <1>4 DEF Reported, OfGuest
<1>7. \A t \in Tokens : ~Wants(r, t)'
  BY <1>1, <1>3, <1>4 DEF Wants
<1> QED
  BY <1>3, <1>5, <1>6, <1>7 DEF Sound, l

LEMMA FailsKeeps ==
    ASSUME VInv, NEW r \in Runs, Fails(r), UNCHANGED <<att, token, late>> PROVE VInv'
<1> USE DEF VInv
<1>1. run[r].reported \in [Guests -> Nat \union {None}]
  BY RunTyped
<1>2. \A g \in Guests : run[r].reported[g] # None =>
          OfGuest(run[r].reported[g], g) /\ att[run[r].reported[g]].nic = run[r].nic
  BY DEF Sound, Reported
<1>3. run' = Ended(r, "failed", run[r].reported)
  BY DEF Fails
<1>4. /\ [Locals("failed", run[r].nic) EXCEPT !.reported = run[r].reported] \in LocalState
      /\ Sound(r)' /\ \A t \in Tokens : ~Wants(r, t)'
  BY <1>1, <1>2, <1>3, OverSound
<1> QED
  BY <1>3, <1>4, QuietKeeps DEF Ended

LEMMA ListsKeeps == ASSUME VInv, NEW r \in Runs, Lists(r) PROVE VInv'
<1> USE DEF VInv
<1> DEFINE listing == [a \in Live(att) |-> [state |-> att[a].state, fit |-> FALSE]]
           l == [run[r] EXCEPT !.pc = "read", !.seen = Len(att), !.active = listing]
<1>1. /\ UNCHANGED <<att, token, late>> /\ run[r].pc = "idle"
      /\ run' = [run EXCEPT ![r] = l]
  BY DEF Lists, Typed
<1>2. Len(att) \in Nat /\ DOMAIN att = 1 .. Len(att) /\ \A a \in DOMAIN att : att[a] \in Attachment
  BY DEF Typed
<1>3. listing \in [Live(att) -> [state : States, fit : BOOLEAN]] /\ Live(att) \in SUBSET Nat
  BY <1>2 DEF Live, Attachment, States
<1>4. listing \in Listings
  BY <1>3 DEF Listings
<1>5. DOMAIN listing = Live(att) /\ \A a \in Live(att) : listing[a].state = att[a].state
  OBVIOUS
<1> HIDE DEF listing
<1>6. /\ l \in LocalState /\ l.pc = "read" /\ l.seen = Len(att) /\ l.active = listing
      /\ l.nic = run[r].nic /\ l.reported = run[r].reported /\ l.next = run[r].next
  BY <1>2, <1>4 DEF Typed, LocalState, Pcs, Reading
<1>7. run'[r] = l
  BY <1>1 DEF Typed
<1> HIDE DEF l
<1>8. Listed(r)'
  BY <1>1, <1>2, <1>5, <1>6, <1>7 DEF Listed, Live
<1>9. Planning(r)' /\ Refused(r)' /\ Current(r)'
  BY <1>1, <1>6, <1>7 DEF Sound, Planning, Refused, Current, Asking
<1>10. Reported(r)'
  BY <1>1, <1>6, <1>7 DEF Sound, Reported, OfGuest, Asking
<1>11. ASSUME NEW t \in Tokens, Wants(r, t)' PROVE Answers(t) = {}
  BY <1>1, <1>5, <1>6, <1>7, <1>11 DEF Wants, Asking, Matches, Live, Answers, Key
<1> QED
  BY <1>1, <1>6, <1>8, <1>9, <1>10, <1>11, QuietKeeps DEF Sound

LEMMA ReadsVnicsKeeps == ASSUME VInv, NEW r \in Runs, ReadsVnics(r) PROVE VInv'
<1> USE DEF VInv
<1> DEFINE old == run[r].active
           listing == [a \in DOMAIN old |-> [state |-> old[a].state,
                                             fit |-> old[a].state = "ATTACHED" /\ att[a].fit]]
           l == [run[r] EXCEPT !.pc = "check", !.active = listing]
<1>1. /\ UNCHANGED <<att, token, late>> /\ run[r].pc = "read"
      /\ run' = [run EXCEPT ![r] = l]
  BY DEF ReadsVnics, Typed
<1>2. Listed(r) /\ run[r].pc \in Reading
  BY <1>1 DEF Sound, Reading
<1>3. PICK S \in SUBSET Nat : old \in [S -> [state : States, fit : BOOLEAN]]
  BY RunTyped DEF Listings
<1>4. listing \in Listings
  <2>1. listing \in [S -> [state : States, fit : BOOLEAN]]
    <3>1. ASSUME NEW a \in S
          PROVE  [state |-> old[a].state, fit |-> old[a].state = "ATTACHED" /\ att[a].fit]
                     \in [state : States, fit : BOOLEAN]
      BY <1>3
    <3> QED
      BY <1>3, <3>1
  <2> QED
    BY <2>1 DEF Listings
<1>5. DOMAIN listing = DOMAIN old /\ \A a \in DOMAIN old : listing[a].state = old[a].state
  OBVIOUS
<1> HIDE DEF listing
<1>6. /\ l \in LocalState /\ l.pc = "check" /\ l.seen = run[r].seen /\ l.active = listing
      /\ l.nic = run[r].nic /\ l.reported = run[r].reported /\ l.next = run[r].next
  BY <1>4 DEF Typed, LocalState, Pcs, Reading
<1>7. run'[r] = l
  BY <1>1 DEF Typed
<1> HIDE DEF l
<1>8. Listed(r)'
  BY <1>1, <1>2, <1>5, <1>6, <1>7 DEF Listed, Live
<1>9. Planning(r)'
  <2>1. run[r].next = 1
    BY <1>1 DEF Sound, Planning
  <2> QED
    BY <1>6, <1>7, <2>1 DEF Planning
<1>10. Refused(r)' /\ Current(r)' /\ Reported(r)'
  BY <1>1, <1>6, <1>7 DEF Refused, Current, Sound, Reported, OfGuest, Asking
<1>11. ASSUME NEW t \in Tokens, Wants(r, t)' PROVE Wants(r, t)
  BY <1>1, <1>2, <1>5, <1>6, <1>7, <1>11 DEF Wants, Asking, Matches
<1> QED
  BY <1>1, <1>6, <1>8, <1>9, <1>10, <1>11, QuietKeeps DEF Sound

LEMMA ChecksKeeps == ASSUME VInv, NEW r \in Runs, Checks(r) PROVE VInv'
<1> USE DEF VInv
<1> DEFINE g == Guest(r)
           matches == Matches(r, g)
           choice == IF matches = {} THEN None ELSE CHOOSE a \in matches : TRUE
<1>0. UNCHANGED <<att, token, late>> /\ run[r].pc = "check" /\ run[r].pc \in Reading
  BY DEF Checks, Reading
<1>1. CASE ~Usable(r, g)
  BY <1>0, <1>1, FailsKeeps DEF Checks
<1>2. Listed(r) /\ g \in Guests /\ matches \subseteq DOMAIN att /\ DOMAIN att \subseteq Nat
  BY <1>0, RunTyped DEF Sound, Listed, Matches, Typed
<1>3. /\ choice \in Nat \union {None}
      /\ choice = None => matches = {}
      /\ choice # None => choice \in matches
  BY <1>2, NamesAssumption
<1>4. /\ run[r].planned \in [Guests -> Nat \union {None}] /\ run[r].next \in 1 .. Len(GuestNames)
      /\ Len(GuestNames) \in Nat
  BY RunTyped, NamesAssumption
<1> DEFINE planned == [run[r].planned EXCEPT ![g] = choice]
<1>5. /\ planned \in [Guests -> Nat \union {None}] /\ planned[g] = choice
      /\ \A h \in Guests \ {g} : planned[h] = run[r].planned[h]
  BY <1>2, <1>3, <1>4
<1> HIDE DEF planned, choice, matches, g
(* The names the run has been through, this one included, are planned. *)
<1>6. ASSUME Usable(r, g), NEW i \in 1 .. run[r].next
      PROVE  LET h == GuestNames[i]
             IN /\ h \in Guests /\ Usable(r, h)
                /\ planned[h] = None => Matches(r, h) = {}
                /\ planned[h] # None => planned[h] \in Matches(r, h)
  <2> DEFINE h == GuestNames[i]
  <2>1. h \in Guests
    BY <1>4, GuestOf
  <2>2. CASE h = g
    BY <1>3, <1>5, <1>6, <2>1, <2>2 DEF matches
  <2>3. CASE h # g
    <3>1. i # run[r].next
      BY <2>3 DEF g, Guest
    <3>2. i \in 1 .. run[r].next - 1
      BY <1>4, <3>1
    <3>3. PlansFor(r, h)
      BY <1>0, <3>2 DEF Sound, Planning
    <3>4. planned[h] = run[r].planned[h]
      BY <1>5, <2>1, <2>3
    <3> QED
      BY <2>1, <3>3, <3>4 DEF PlansFor
  <2> QED
    BY <2>2, <2>3
<1>7. CASE Usable(r, g) /\ ~LastTurn(r)
  <2> DEFINE l == [run[r] EXCEPT !.planned = planned, !.next = run[r].next + 1]
  <2>1. run' = [run EXCEPT ![r] = l]
    <3>1. run' = [[run EXCEPT ![r].planned[g] = choice] EXCEPT ![r].next = @ + 1]
      BY <1>0, <1>7 DEF Checks, Plans, choice, matches, g
    <3>2. DOMAIN run = Runs /\ run[r] \in LocalState
      BY DEF Typed
    <3>3. [run EXCEPT ![r].planned[g] = choice] = [run EXCEPT ![r] = [run[r] EXCEPT !.planned = planned]]
      BY DEF planned
    <3> DEFINE b == [run[r] EXCEPT !.planned = planned]
    <3>4. b.next = run[r].next /\ l = [b EXCEPT !.next = run[r].next + 1]
      BY <3>2 DEF LocalState
    <3> HIDE DEF b, l
    <3>5. run' = [[run EXCEPT ![r] = b] EXCEPT ![r].next = @ + 1]
      BY <3>1, <3>3 DEF b
    <3>6. run' = [[run EXCEPT ![r] = b] EXCEPT ![r] = [b EXCEPT !.next = b.next + 1]]
      BY <3>2, <3>5
    <3> QED
      BY <3>2, <3>4, <3>6
  <2>2. run[r].next + 1 \in 1 .. Len(GuestNames)
    BY <1>4, <1>7 DEF LastTurn
  <2>3. /\ l \in LocalState /\ l.pc = "check" /\ l.seen = run[r].seen /\ l.active = run[r].active
        /\ l.nic = run[r].nic /\ l.reported = run[r].reported /\ l.next = run[r].next + 1
        /\ l.planned = planned
    BY <1>0, <1>5, <2>2 DEF Typed, LocalState
  <2>4. run'[r] = l
    BY <2>1 DEF Typed
  <2> HIDE DEF l
  <2>5. Listed(r)'
    BY <1>0, <1>2, <2>3, <2>4 DEF Listed, Live
  <2>6. \A h \in Guests : Matches(r, h)' = Matches(r, h)
    BY <1>0, <2>3, <2>4 DEF Matches
  <2>7. Planning(r)'
    <3>1. ASSUME NEW i \in 1 .. run'[r].next - 1 PROVE PlansFor(r, GuestNames[i])'
      <4>1. i \in 1 .. run[r].next
        BY <1>4, <2>3, <2>4
      <4>2. /\ GuestNames[i] \in Guests /\ Usable(r, GuestNames[i])
            /\ planned[GuestNames[i]] = None => Matches(r, GuestNames[i]) = {}
            /\ planned[GuestNames[i]] # None => planned[GuestNames[i]] \in Matches(r, GuestNames[i])
        BY <1>6, <1>7, <4>1
      <4> QED
        BY <1>0, <2>3, <2>4, <2>6, <4>2 DEF PlansFor, Usable, Valid
    <3> QED
      BY <2>3, <2>4, <3>1 DEF Planning
  <2>8. Refused(r)' /\ Current(r)' /\ Reported(r)'
    BY <1>0, <2>3, <2>4 DEF Refused, Current, Sound, Reported, OfGuest, Asking
  <2>9. ASSUME NEW t \in Tokens, Wants(r, t)' PROVE Wants(r, t)
    BY <1>0, <2>3, <2>4, <2>9 DEF Wants, Asking, Matches
  <2> QED
    BY <1>0, <2>1, <2>3, <2>5, <2>7, <2>8, <2>9, QuietKeeps DEF Sound
<1>8. CASE Usable(r, g) /\ LastTurn(r)
  <2> DEFINE l == [run[r] EXCEPT !.planned = planned, !.pc = "attach", !.next = 1, !.active = <<>>]
  <2>1. run' = [run EXCEPT ![r] = l]
    BY <1>0, <1>8 DEF Checks, Plans, Typed, planned, choice, matches, g
  <2>3. /\ l \in LocalState /\ l.pc = "attach" /\ l.seen = run[r].seen
        /\ l.nic = run[r].nic /\ l.reported = run[r].reported /\ l.next = 1
        /\ l.planned = planned
    <3>1. "attach" \in Pcs /\ 1 \in 1 .. Len(GuestNames)
      BY <1>4 DEF Pcs, Asking
    <3>2. run[r] \in LocalState
      BY DEF Typed
    <3> QED
      BY <1>5, <3>1, <3>2, EmptyListing DEF LocalState
  <2>4. run'[r] = l
    BY <2>1 DEF Typed
  <2> HIDE DEF l
  <2>5. ASSUME NEW h \in Guests
        PROVE  /\ Usable(r, h)
               /\ planned[h] = None => Matches(r, h) = {}
               /\ planned[h] # None => planned[h] \in Matches(r, h)
    <3>1. PICK i \in 1 .. Len(GuestNames) : h = GuestNames[i]
      BY NameOf
    <3> QED
      BY <1>6, <1>8, <3>1 DEF LastTurn
  <2>6. Listed(r)' /\ Planning(r)'
    BY <2>3, <2>4 DEF Listed, Planning, Reading
  <2>7. Refused(r)'
    <3>1. ASSUME NEW a \in Live(att), a <= run[r].seen
          PROVE  /\ a \in Matches(r, att[a].guest) /\ att[a].guest \in Guests
                 /\ att[a].nic = run[r].nic /\ att[a].state # "ATTACHING"
      <4>1. a \in DOMAIN run[r].active /\ a \in DOMAIN att
        BY <1>0, <1>2, <3>1 DEF Listed, Live
      <4>2. att[a] \in Attachment
        BY <4>1 DEF Typed
      <4>3. att[a].guest \in Guests
        BY <4>2 DEF Attachment
      <4>4. a \in Matches(r, att[a].guest)
        BY <4>1 DEF Matches
      <4>5. att[a].nic = run[r].nic /\ run[r].active[a].state = "ATTACHED"
        BY <2>5, <4>3, <4>4 DEF Usable, Valid
      <4> QED
        BY <1>0, <1>2, <4>1, <4>3, <4>4, <4>5 DEF Listed
    <3>2. ASSUME NEW a \in Live(att), NEW b \in Live(att), a <= run[r].seen, b <= run[r].seen,
                 att[a].guest = att[b].guest
          PROVE  a = b
      BY <2>5, <3>1, <3>2 DEF Usable
    <3> QED
      BY <1>0, <1>2, <2>3, <2>4, <3>1, <3>2 DEF Refused, Listed
  <2>8. Current(r)'
    <3>1. \A h \in Guests : planned[h] # None => OfGuest(planned[h], h)
      BY <1>0, <1>2, <2>5 DEF OfGuest, Matches, Listed
    <3> QED
      BY <1>0, <2>3, <2>4, <3>1 DEF Current, OfGuest
  <2>9. Reported(r)'
    BY <1>0, <2>3, <2>4 DEF Sound, Reported, OfGuest
  <2>10. ASSUME NEW t \in Tokens, Wants(r, t)' PROVE Wants(r, t)
    <3>1. t[1] \in Guests
      BY DEF Tokens
    <3> QED
      BY <1>0, <2>3, <2>4, <2>5, <2>10, <3>1 DEF Wants, Reading
  <2> QED
    BY <1>0, <2>1, <2>3, <2>6, <2>7, <2>8, <2>9, <2>10, QuietKeeps DEF Sound
<1> QED
  BY <1>1, <1>7, <1>8

(* A step of an invocation that has its plan. *)
LEMMA AskingSound ==
    ASSUME VInv, NEW r \in Runs, Typed', Aged, run[r].pc \in Asking, run'[r].pc \in Asking,
           run'[r].nic = run[r].nic, run'[r].seen = run[r].seen, run'[r].planned = run[r].planned,
           run'[r].pc # "attach" => OfGuest(run[r].current, Guest(r))',
           Reported(r)'
    PROVE  Sound(r)' /\ \A t \in Tokens : Wants(r, t)' => Wants(r, t)
<1> USE DEF VInv
<1>1. Listed(r)' /\ Planning(r)'
  BY DEF Listed, Planning, Reading, Asking
<1>2. Refused(r)'
  BY RefusedStays DEF Sound
<1>3. Current(r)'
  <2>1. DOMAIN att \subseteq DOMAIN att'
    BY DEF Typed, Aged
  <2>2. \A g \in Guests : (run[r].planned[g] # None => OfGuest(run[r].planned[g], g))'
    BY <2>1 DEF Sound, Current, OfGuest, Aged
  <2>3. run'[r].pc \in {"wait", "report", "print"} => run'[r].pc # "attach"
    OBVIOUS
  <2> QED
    BY <2>2, <2>3 DEF Current
<1>4. \A t \in Tokens : Wants(r, t)' => Wants(r, t)
  BY DEF Wants, Reading, Asking
<1> QED
  BY <1>1, <1>2, <1>3, <1>4 DEF Sound

LEMMA AskingKeeps ==
    ASSUME VInv, NEW r \in Runs, NEW l \in LocalState, run' = [run EXCEPT ![r] = l],
           UNCHANGED <<att, token, late>>, run[r].pc \in Asking, l.pc \in Asking,
           l.nic = run[r].nic, l.seen = run[r].seen, l.planned = run[r].planned,
           l.pc # "attach" => OfGuest(l.current, GuestNames[l.next]), 
           \A g \in Guests : l.reported[g] # None =>
               OfGuest(l.reported[g], g) /\ att[l.reported[g]].nic = l.nic,
           \A i \in 1 .. l.next - 1 : l.reported[GuestNames[i]] # None
    PROVE  VInv'
<1> USE DEF VInv
<1>1. run'[r] = l /\ Typed' /\ Aged
  BY DEF Typed, Aged
<1>2. Reported(r)'
  BY <1>1 DEF Reported, OfGuest, Asking
<1>3. Sound(r)' /\ \A t \in Tokens : Wants(r, t)' => Wants(r, t)
  <2>1. run'[r].pc # "attach" => OfGuest(run[r].current, Guest(r))'
    BY <1>1 DEF OfGuest, Guest
  <2> QED
    BY <1>1, <1>2, <2>1, AskingSound
<1> QED
  BY <1>3, QuietKeeps

(* Steps between two calls, in which nothing is reported. *)
LEMMA ReuseKeeps == ASSUME VInv, NEW r \in Runs, Reuse(r) PROVE VInv'
<1> USE DEF VInv
<1> DEFINE l == [run[r] EXCEPT !.pc = "report", !.current = run[r].planned[Guest(r)]]
<1>1. /\ UNCHANGED <<att, token, late>> /\ run[r].pc = "attach" /\ run[r].planned[Guest(r)] # None
      /\ run' = [run EXCEPT ![r] = l]
  BY DEF Reuse, Typed
<1>2. run[r].pc \in Asking /\ "report" \in Asking /\ "report" \in Pcs
  BY <1>1 DEF Asking, Pcs
<1>3. OfGuest(run[r].planned[Guest(r)], Guest(r)) /\ run[r].planned[Guest(r)] \in Nat \union {None}
  BY <1>1, <1>2, RunTyped DEF Sound, Current
<1>4. /\ l \in LocalState /\ l.pc = "report" /\ l.seen = run[r].seen /\ l.nic = run[r].nic
      /\ l.planned = run[r].planned /\ l.reported = run[r].reported /\ l.next = run[r].next
      /\ l.current = run[r].planned[Guest(r)]
  BY <1>2, <1>3 DEF Typed, LocalState
<1> HIDE DEF l
<1>6. /\ \A g \in Guests : l.reported[g] # None =>
            OfGuest(l.reported[g], g) /\ att[l.reported[g]].nic = l.nic
      /\ \A i \in 1 .. l.next - 1 : l.reported[GuestNames[i]] # None
  BY <1>2, <1>4 DEF Sound, Reported
<1>7. OfGuest(l.current, GuestNames[l.next])
  BY <1>3, <1>4 DEF Guest
<1> QED
  BY <1>1, <1>2, <1>4, <1>6, <1>7, AskingKeeps

LEMMA AttachedKeeps == ASSUME VInv, NEW r \in Runs, Attached(r) PROVE VInv'
<1> USE DEF VInv
<1> DEFINE l == [run[r] EXCEPT !.pc = "report"]
<1>1. /\ UNCHANGED <<att, token, late>> /\ run[r].pc = "wait"
      /\ run' = [run EXCEPT ![r] = l]
  BY DEF Attached, Typed
<1>2. run[r].pc \in Asking /\ "report" \in Asking /\ "report" \in Pcs
  BY <1>1 DEF Asking, Pcs
<1>3. OfGuest(run[r].current, Guest(r))
  BY <1>1 DEF Sound, Current
<1>4. /\ l \in LocalState /\ l.pc = "report" /\ l.seen = run[r].seen /\ l.nic = run[r].nic
      /\ l.planned = run[r].planned /\ l.reported = run[r].reported /\ l.next = run[r].next
      /\ l.current = run[r].current
  BY <1>2 DEF Typed, LocalState
<1> HIDE DEF l
<1>6. /\ \A g \in Guests : l.reported[g] # None =>
            OfGuest(l.reported[g], g) /\ att[l.reported[g]].nic = l.nic
      /\ \A i \in 1 .. l.next - 1 : l.reported[GuestNames[i]] # None
  BY <1>2, <1>4 DEF Sound, Reported
<1>7. OfGuest(l.current, GuestNames[l.next])
  BY <1>3, <1>4 DEF Guest
<1> QED
  BY <1>1, <1>2, <1>4, <1>6, <1>7, AskingKeeps

LEMMA GetsVnicKeeps == ASSUME VInv, NEW r \in Runs, GetsVnic(r) PROVE VInv'
<1> USE DEF VInv
<1> DEFINE l == [run[r] EXCEPT !.pc = "print", !.got = att[run[r].current].fit]
<1>1. /\ UNCHANGED <<att, token, late>> /\ run[r].pc = "report"
      /\ run' = [run EXCEPT ![r] = l]
  BY DEF GetsVnic, Typed
<1>2. run[r].pc \in Asking /\ "print" \in Asking /\ "print" \in Pcs
  BY <1>1 DEF Asking, Pcs
<1>3. OfGuest(run[r].current, Guest(r))
  BY <1>1 DEF Sound, Current
<1>4. att[run[r].current].fit \in BOOLEAN
  <2>1. att[run[r].current] \in Attachment
    BY <1>3 DEF OfGuest, Typed
  <2> QED
    BY <2>1 DEF Attachment
<1>5. /\ l \in LocalState /\ l.pc = "print" /\ l.seen = run[r].seen /\ l.nic = run[r].nic
      /\ l.planned = run[r].planned /\ l.reported = run[r].reported /\ l.next = run[r].next
      /\ l.current = run[r].current
  BY <1>2, <1>4 DEF Typed, LocalState
<1> HIDE DEF l
<1>6. /\ \A g \in Guests : l.reported[g] # None =>
            OfGuest(l.reported[g], g) /\ att[l.reported[g]].nic = l.nic
      /\ \A i \in 1 .. l.next - 1 : l.reported[GuestNames[i]] # None
  BY <1>2, <1>5 DEF Sound, Reported
<1>7. OfGuest(l.current, GuestNames[l.next])
  BY <1>3, <1>5 DEF Guest
<1> QED
  BY <1>1, <1>2, <1>5, <1>6, <1>7, AskingKeeps

LEMMA PrintsKeeps == ASSUME VInv, NEW r \in Runs, Prints(r) PROVE VInv'
<1> USE DEF VInv
<1> DEFINE a == run[r].current
           reported == [run[r].reported EXCEPT ![Guest(r)] = a]
<1>0. UNCHANGED <<att, token, late>> /\ run[r].pc = "print" /\ run[r].pc \in Asking
  BY DEF Prints, Asking
<1>1. CASE Fails(r)
  BY <1>0, <1>1, FailsKeeps
<1>2. CASE Valid(r, a, "ATTACHED", run[r].got)
  <2>1. OfGuest(a, Guest(r)) /\ att[a].nic = run[r].nic /\ a \in Nat
    BY <1>0, <1>2 DEF Sound, Current, Valid, OfGuest, Typed
  <2>2. /\ reported \in [Guests -> Nat \union {None}] /\ reported[Guest(r)] = a /\ a # None
        /\ \A h \in Guests \ {Guest(r)} : reported[h] = run[r].reported[h]
    BY <2>1, RunTyped, NamesAssumption
  <2>3. \A g \in Guests : reported[g] # None => OfGuest(reported[g], g) /\ att[reported[g]].nic = run[r].nic
    BY <2>1, <2>2 DEF Sound, Reported
  <2>4. \A i \in 1 .. run[r].next : reported[GuestNames[i]] # None
    <3> SUFFICES ASSUME NEW i \in 1 .. run[r].next PROVE reported[GuestNames[i]] # None
      OBVIOUS
    <3>0. run[r].next \in 1 .. Len(GuestNames) /\ Len(GuestNames) \in Nat
      BY RunTyped, NamesAssumption
    <3>1. GuestNames[i] \in Guests
      BY <3>0, GuestOf
    <3>2. CASE GuestNames[i] = Guest(r)
      BY <2>2, <3>2
    <3>3. CASE GuestNames[i] # Guest(r)
      <4>1. i \in 1 .. run[r].next - 1
        BY <3>0, <3>3 DEF Guest
      <4>2. run[r].reported[GuestNames[i]] # None
        BY <1>0, <4>1 DEF Sound, Reported
      <4> QED
        BY <2>2, <3>1, <3>3, <4>2
    <3> QED
      BY <3>2, <3>3
  <2> HIDE DEF reported
  <2>5. CASE LastTurn(r)
    <3>1. run' = Ended(r, "done", reported)
      BY <1>2, <2>5 DEF Prints, reported
    <3>2. \A g \in Guests : reported[g] # None
      BY <2>4, <2>5, NameOf DEF LastTurn
    <3>3. /\ [Locals("done", run[r].nic) EXCEPT !.reported = reported] \in LocalState
          /\ Sound(r)' /\ \A t \in Tokens : ~Wants(r, t)'
      BY <1>0, <2>2, <2>3, <3>1, <3>2, OverSound
    <3> QED
      BY <1>0, <3>1, <3>3, QuietKeeps DEF Ended
  <2>6. CASE ~LastTurn(r)
    <3> DEFINE l == [run[r] EXCEPT !.pc = "attach", !.next = run[r].next + 1, !.current = None,
                                   !.got = FALSE, !.reported = reported]
    <3>1. run' = [run EXCEPT ![r] = l]
      BY <1>2, <2>6 DEF Prints, reported, Typed
    <3>2. /\ run[r].next + 1 \in 1 .. Len(GuestNames) /\ run[r].next \in Nat
          /\ "attach" \in Pcs /\ "attach" \in Asking
      BY <2>6, RunTyped, NamesAssumption DEF LastTurn, Pcs, Asking
    <3>3. run[r] \in LocalState
      BY DEF Typed
    <3>4. /\ l \in LocalState /\ l.pc = "attach" /\ l.seen = run[r].seen /\ l.nic = run[r].nic
          /\ l.planned = run[r].planned /\ l.reported = reported /\ l.next = run[r].next + 1
      BY <2>2, <3>2, <3>3 DEF LocalState
    <3> HIDE DEF l
    <3>5. \A i \in 1 .. l.next - 1 : l.reported[GuestNames[i]] # None
      BY <2>4, <3>2, <3>4
    <3> QED
      BY <1>0, <2>3, <3>1, <3>2, <3>4, <3>5, AskingKeeps
  <2> QED
    BY <2>5, <2>6
<1> QED
  BY <1>1, <1>2 DEF Prints

LEMMA AttachKeeps == ASSUME VInv, NEW r \in Runs, Attach(r) PROVE VInv'
<1> USE DEF VInv
<1> DEFINE t == Token(r)
<1>1. run[r].pc = "attach" /\ run[r].planned[Guest(r)] = None /\ run[r].pc \in Asking
  BY DEF Attach, Asking
<1>2. t \in Tokens /\ t[1] = Guest(r) /\ t[2] = run[r].nic
  BY RunTyped
<1>3. token[t] = None => Answers(t) = {}
  BY <1>1, <1>2 DEF Wants, NoneYet
<1> HIDE DEF t
<1>4. CASE /\ Make(t) /\ late' = late
           /\ run' = [run EXCEPT ![r].pc = "wait", ![r].current = token'[t]]
  <2> DEFINE l == [run[r] EXCEPT !.pc = "wait", !.current = token'[t]]
  <2>1. /\ Aged /\ att' \in Seq(Attachment) /\ OneAttachment' /\ TokenKnown'
        /\ token' \in [Tokens -> Nat \union {None}] /\ token'[t] # None
        /\ \A s \in Tokens : s # t => token'[s] = token[s] /\ Answers(s)' = Answers(s)
    BY <1>2, <1>3, <1>4, MakeKeeps
  <2>2. run'[r] = l /\ run' = [run EXCEPT ![r] = l] /\ \A q \in Runs \ {r} : run'[q] = run[q]
    BY <1>4 DEF Typed
  <2>3. "wait" \in Pcs /\ "wait" \in Asking /\ token'[t] \in Nat \union {None}
    BY <1>2, <2>1 DEF Pcs, Asking
  <2>4. /\ l \in LocalState /\ l.pc = "wait" /\ l.seen = run[r].seen /\ l.nic = run[r].nic
        /\ l.planned = run[r].planned /\ l.reported = run[r].reported /\ l.next = run[r].next
        /\ l.current = token'[t]
    BY <2>3 DEF Typed, LocalState
  <2> HIDE DEF l
  <2>5. Typed'
    BY <1>4, <2>1, <2>2, <2>4 DEF Typed
  <2>6. OfGuest(run[r].current, Guest(r))'
    <3>1. Guest(r)' = Guest(r) /\ run'[r].current = token'[t]
      BY <2>2, <2>4 DEF Guest
    <3>2. token'[t] \in DOMAIN att' /\ att'[token'[t]].guest = t[1]
      BY <1>2, <2>1 DEF TokenKnown, Key
    <3> QED
      BY <1>2, <3>1, <3>2 DEF OfGuest
  <2>7. DOMAIN att \subseteq DOMAIN att'
    BY <2>1 DEF Aged, Typed
  <2>8. Reported(r)'
    BY <1>1, <2>1, <2>2, <2>3, <2>4, <2>7 DEF Sound, Reported, OfGuest, Aged
  <2>9. Sound(r)' /\ \A s \in Tokens : Wants(r, s)' => Wants(r, s)
    BY <1>1, <2>1, <2>2, <2>3, <2>4, <2>5, <2>6, <2>8, AskingSound
  <2>10. \A q \in Runs \ {r} : Sound(q)' /\ \A s \in Tokens : Wants(q, s)' => Wants(q, s)
    BY <2>1, <2>2, <2>5, SoundStays, WantsStay
  <2>11. NoneYet'
    BY <1>4, <2>1, <2>9, <2>10 DEF NoneYet
  <2> QED
    BY <2>1, <2>5, <2>9, <2>10, <2>11
<1>5. CASE late' = late \union {t} /\ Fails(r) /\ UNCHANGED <<att, token>>
  <2>1. /\ run[r].reported \in [Guests -> Nat \union {None}]
        /\ \A g \in Guests : run[r].reported[g] # None =>
              OfGuest(run[r].reported[g], g) /\ att[run[r].reported[g]].nic = run[r].nic
    BY RunTyped DEF Sound, Reported
  <2>2. /\ [Locals("failed", run[r].nic) EXCEPT !.reported = run[r].reported] \in LocalState
        /\ Sound(r)' /\ \A s \in Tokens : ~Wants(r, s)'
    BY <1>5, <2>1, OverSound DEF Fails
  <2>3. Typed' /\ \A q \in Runs \ {r} : run'[q] = run[q]
    BY <1>2, <1>5, <2>2 DEF Typed, Fails, Ended
  <2>4. Aged /\ OneAttachment' /\ TokenKnown' /\ \A s \in Tokens : Answers(s)' = Answers(s)
    BY <1>5 DEF Aged, Typed, OneAttachment, Live, TokenKnown, Answers, Key
  <2>5. \A q \in Runs \ {r} : Sound(q)' /\ \A s \in Tokens : Wants(q, s)' => Wants(q, s)
    BY <2>3, <2>4, SoundStays, WantsStay
  <2>6. NoneYet'
    BY <1>3, <1>5, <2>2, <2>4, <2>5 DEF NoneYet
  <2> QED
    BY <2>2, <2>3, <2>4, <2>5, <2>6
<1> QED
  BY <1>4, <1>5 DEF Attach, t

LEMMA NextVInv == VInv /\ [Next]_vars => VInv'
<1> SUFFICES ASSUME VInv, [Next]_vars PROVE VInv'
  OBVIOUS
<1>1. CASE CloudStep
  BY <1>1, CloudKeeps
<1>2. CASE \E r \in Runs : RunStep(r)
  <2> PICK r \in Runs : RunStep(r)
    BY <1>2
  <2>1. CASE WaitTimesOut(r) \/ CallFails(r)
    BY <2>1, FailsKeeps DEF WaitTimesOut, CallFails
  <2> QED
    BY <2>1, ListsKeeps, ReadsVnicsKeeps, ChecksKeeps, ReuseKeeps, AttachKeeps, AttachedKeeps,
       GetsVnicKeeps, PrintsKeeps DEF RunStep
<1>3. CASE UNCHANGED vars
  <2>1. Typed' /\ Aged /\ OneAttachment' /\ TokenKnown' /\ UNCHANGED <<run, late, token>>
    BY <1>3 DEF vars, VInv, Typed, Aged, OneAttachment, Live, TokenKnown, Answers, Key
  <2>2. \A t \in Tokens : Answers(t)' = Answers(t)
    BY <1>3 DEF vars, Answers, Key
  <2> QED
    BY <2>1, <2>2, InvocationsStay
<1> QED
  BY <1>1, <1>2, <1>3 DEF Next

LEMMA AttachInvariant == Spec => []VInv
BY InitVInv, NextVInv, PTL DEF Spec

(* No request is answered by two live attachments, however many invocations repeat it,
   at once or after one that heard no answer (lines 90 to 93). *)
THEOREM RequestsAreAnsweredOnce == Spec => []OneAttachment
<1>1. VInv => OneAttachment
  BY DEF VInv
<1> QED
  BY <1>1, AttachInvariant, PTL

(* No invocation asks for an attachment of either guest while one that was there when it
   listed is doubled, on the other NIC or still being made, whatever became of them and of
   their VNICs between the listing, the reads, the checks of both names and the request
   (lines 47 to 76). *)
THEOREM NoRequestBesideAConflict == Spec => []ConflictsAreRefused
<1>1. VInv => ConflictsAreRefused
  BY DEF VInv, Sound, Refused, ConflictsAreRefused, Asking
<1> QED
  BY <1>1, AttachInvariant, PTL

(* An invocation that ends well has reported an attachment of its own for every guest,
   on the NIC asked for, and no two invocations report different ones that are both there
   (lines 83 to 105). *)
THEOREM ReportsAreConsistent == Spec => []ReportsAgree
<1>1. VInv => ReportsAgree
  <2> SUFFICES ASSUME VInv PROVE ReportsAgree
    OBVIOUS
  <2>1. \A r \in Runs : Reported(r)
    BY DEF VInv, Sound
  <2>2. ASSUME NEW r \in Runs, NEW s \in Runs, NEW g \in Guests,
               {run[r].reported[g], run[s].reported[g]} \subseteq Live(att), run[r].nic = run[s].nic
        PROVE  run[r].reported[g] = run[s].reported[g]
    <3>1. run[r].reported[g] # None /\ run[s].reported[g] # None
      BY <2>2, NamesAssumption DEF VInv, Typed, Live
    <3> QED
      BY <2>1, <2>2, <3>1 DEF Reported, OfGuest, VInv, OneAttachment
  <2> QED
    BY <2>1, <2>2 DEF Reported, OfGuest, ReportsAgree
<1> QED
  BY <1>1, AttachInvariant, PTL
================================================================================
