------------------------------ MODULE AttachVnics ------------------------------
(* network/attach-vnics.py: invocations that attach one private VNIC to the
   host for each of two guests, through a cloud whose answers can be lost or
   come late, beside an operator who changes attachments meanwhile.

   OCI is external. An attach request carries a retry token: a second request
   with the token of an earlier one returns the attachment that one made, or is
   refused when that attachment has changed since. A token is forgotten after a
   day, far beyond the life of an invocation (its calls time out after 30
   seconds, its wait after 180). The VNIC of an attachment has a state of its own: it
   can be ready before or after the attachment, still be there while that is being
   detached, or be changed by the operator; it is deleted with the attachment. *)
EXTENDS Naturals, Sequences, FiniteSets, SequencesExt

CONSTANTS
    GuestNames,      \* --guest-names, in the order given
    NicIndexes,      \* the values of --nic-index
    Runs,            \* invocations with --execute; they may overlap
    NicChoices,      \* the --nic-index of each: a set of functions
    MaxAttachments,  \* bound: attachments in the history of the host
    None

ASSUME NamesAssumption ==
    /\ Len(GuestNames) \in Nat \ {0} /\ DOMAIN GuestNames = 1 .. Len(GuestNames)
    /\ None \notin Nat

ASSUME NicChoicesAssumption == NicChoices \subseteq [Runs -> NicIndexes]

VARIABLES
    att,     \* OCI: the attachments with their VNICs, oldest first; an id is an index
    token,   \* OCI: retry token -> the attachment it made, or None
    late,    \* tokens of unanswered requests that OCI may still carry out
    run      \* invocation -> its locals

vars == <<att, token, late, run>>

Guests == ToSet(GuestNames)
Tokens == Guests \X NicIndexes  \* instance and subnet are the same for all runs

(* fit: whether the VNIC is as line 58 (AVAILABLE) and lines 60-62 (private, in the
   subnet asked for) of validate() want it. *)
Attachment == [guest : Guests, nic : NicIndexes,
               state : {"ATTACHING", "ATTACHED", "DETACHING", "DETACHED"}, fit : BOOLEAN]

(* The locals of an invocation: the attachments it listed, with their states and what it
   read of their VNICs, and how many there had been by then; the plan; the guest whose
   turn it is, that guest's attachment and what was last read of its VNIC; and what it
   has reported. *)
Locals(pc, nic) ==
    [pc |-> pc, nic |-> nic, active |-> <<>>, seen |-> 0, planned |-> [g \in Guests |-> None],
     next |-> 1, current |-> None, got |-> FALSE, reported |-> [g \in Guests |-> None]]

Live(as) == {a \in DOMAIN as : as[a].state # "DETACHED"}
Executing(r) == run[r].pc \notin {"idle", "done", "failed"}

(* A host may hold attachments of either name, made by hand or by earlier runs. *)
Init ==
    /\ \E found \in SUBSET [guest : Guests, nic : NicIndexes, state : {"ATTACHED"},
                            fit : {TRUE}] :
          /\ \A x, y \in found : x.guest = y.guest => x = y
          /\ att = SetToSeq(found)
    /\ token = [t \in Tokens |-> None]
    /\ late = {}
    /\ \E nic \in NicChoices : run = [r \in Runs |-> Locals("idle", nic[r])]

(******************************* OCI, the operator *******************************)
(* What the request with token t leads to, and the id it answers with. *)
Make(t) ==
    IF token[t] = None
    THEN /\ Len(att) < MaxAttachments
         /\ att' = Append(att, [guest |-> t[1], nic |-> t[2], state |-> "ATTACHING",
                                fit |-> FALSE])
         /\ token' = [token EXCEPT ![t] = Len(att) + 1]
    ELSE UNCHANGED <<att, token>>

Refuses(t) == token[t] # None /\ att[token[t]].state \in {"DETACHING", "DETACHED"}

Become(a, state, fit) ==
    /\ att' = [att EXCEPT ![a].state = state, ![a].fit = fit]
    /\ UNCHANGED <<token, late, run>>

Moves(a) ==
    \/ att[a].state = "ATTACHING" /\ Become(a, "ATTACHED", att[a].fit)
    \/ att[a].state \in {"ATTACHING", "DETACHING"} /\ Become(a, "DETACHED", FALSE)

VnicChanges(a) == att[a].state # "DETACHED" /\ Become(a, att[a].state, ~att[a].fit)

OperatorDetaches(a) == att[a].state = "ATTACHED" /\ Become(a, "DETACHING", att[a].fit)

CarriedOut(t) == t \in late /\ Make(t) /\ late' = late \ {t} /\ UNCHANGED run

NeverCarriedOut(t) == t \in late /\ late' = late \ {t} /\ UNCHANGED <<att, token, run>>

TokenExpires(t) ==
    /\ token[t] # None /\ t \notin late
    /\ \A r \in Runs : ~Executing(r)
    /\ token' = [token EXCEPT ![t] = None]
    /\ UNCHANGED <<att, late, run>>

(********************************* an invocation *********************************)
(* What has been reported is printed, whatever comes of the run. *)
Ended(r, pc, reported) ==
    [run EXCEPT ![r] = [Locals(pc, run[r].nic) EXCEPT !.reported = reported]]

Fails(r) == run' = Ended(r, "failed", run[r].reported)

Guest(r) == GuestNames[run[r].next]
LastTurn(r) == run[r].next = Len(GuestNames)
Token(r) == <<Guest(r), run[r].nic>>

(* validate(a, v): what was last seen of the attachment's state and of its VNIC *)
Valid(r, a, state, fit) == state = "ATTACHED" /\ fit /\ att[a].nic = run[r].nic

(* list_vnic_attachments(); names and NICs never change, so the ids stand for them *)
Lists(r) ==
    /\ run[r].pc = "idle"
    /\ run' = [run EXCEPT ![r].pc = "read", ![r].seen = Len(att),
               ![r].active = [a \in Live(att) |-> [state |-> att[a].state, fit |-> FALSE]]]
    /\ UNCHANGED <<att, token, late>>

(* get_vnic() of those that were listed as attached *)
ReadsVnics(r) ==
    /\ run[r].pc = "read"
    /\ run' = [run EXCEPT ![r].pc = "check",
               ![r].active = LET listed == run[r].active
                             IN [a \in DOMAIN listed |->
                                    [state |-> listed[a].state,
                                     fit |-> listed[a].state = "ATTACHED" /\ att[a].fit]]]
    /\ UNCHANGED <<att, token, late>>

(* The listed attachments of the name of g. *)
Matches(r, g) == {a \in DOMAIN run[r].active : att[a].guest = g}

(* What the loop requires of them. *)
Usable(r, g) ==
    \A a, b \in Matches(r, g) :
        a = b /\ Valid(r, a, run[r].active[a].state, run[r].active[a].fit)

Plans(r) ==
    LET matches == Matches(r, Guest(r))
        plan == [run EXCEPT ![r].planned[Guest(r)] =
                     IF matches = {} THEN None ELSE CHOOSE a \in matches : TRUE]
    IN run' = IF LastTurn(r)
              THEN [plan EXCEPT ![r].pc = "attach", ![r].next = 1, ![r].active = <<>>]
              ELSE [plan EXCEPT ![r].next = @ + 1]

(* Mutant: what is listed for the last guest is not looked at. *)
ChecksAllButLast(r) ==
    /\ run[r].pc = "check"
    /\ IF LastTurn(r) \/ Usable(r, Guest(r)) THEN Plans(r) ELSE Fails(r)
    /\ UNCHANGED <<att, token, late>>

(* One turn of the loop that checks the names before either VNIC is created. *)
Checks(r) ==
    /\ run[r].pc = "check"
    /\ IF Usable(r, Guest(r)) THEN Plans(r) ELSE Fails(r)
    /\ UNCHANGED <<att, token, late>>

(* Mutant: only what is attached anew is reported. *)
ReuseUnreported(r) ==
    /\ run[r].pc = "attach"
    /\ run[r].planned[Guest(r)] # None
    /\ run' = IF LastTurn(r) THEN Ended(r, "done", run[r].reported)
              ELSE [run EXCEPT ![r].next = @ + 1]
    /\ UNCHANGED <<att, token, late>>

(* A guest with a planned attachment goes on to its report. *)
Reuse(r) ==
    /\ run[r].pc = "attach"
    /\ run[r].planned[Guest(r)] # None
    /\ run' = [run EXCEPT ![r].pc = "report", ![r].current = run[r].planned[Guest(r)]]
    /\ UNCHANGED <<att, token, late>>

(* Mutant: every request has a token of its own. *)
AttachWithFreshToken(r) ==
    /\ run[r].pc = "attach"
    /\ run[r].planned[Guest(r)] = None
    /\ Len(att) < MaxAttachments
    /\ att' = Append(att, [guest |-> Guest(r), nic |-> run[r].nic, state |-> "ATTACHING",
                           fit |-> FALSE])
    /\ run' = [run EXCEPT ![r].pc = "wait", ![r].current = Len(att) + 1]
    /\ UNCHANGED <<token, late>>

(* attach_vnic(), answered, or ended by an exception that leaves open whether
   the attachment was created. *)
Attach(r) ==
    /\ run[r].pc = "attach"
    /\ run[r].planned[Guest(r)] = None
    /\ LET t == Token(r)
       IN \/ /\ ~Refuses(t)
             /\ Make(t)
             /\ run' = [run EXCEPT ![r].pc = "wait", ![r].current = token'[t]]
             /\ UNCHANGED late
          \/ /\ late' = late \union {t}
             /\ Fails(r)
             /\ UNCHANGED <<att, token>>

(* wait_until() returns when the attachment is seen ATTACHED. *)
Attached(r) ==
    /\ run[r].pc = "wait"
    /\ att[run[r].current].state = "ATTACHED"
    /\ run' = [run EXCEPT ![r].pc = "report"]
    /\ UNCHANGED <<att, token, late>>

(* Mutant: the wait goes on while the attachment is still being made. *)
WaitTimesOutWhenGone(r) ==
    /\ run[r].pc = "wait"
    /\ att[run[r].current].state = "DETACHED"
    /\ Fails(r)
    /\ UNCHANGED <<att, token, late>>

(* wait_until() raises after max_wait_seconds. *)
WaitTimesOut(r) ==
    /\ run[r].pc = "wait"
    /\ Fails(r)
    /\ UNCHANGED <<att, token, late>>

(* get_vnic() *)
GetsVnic(r) ==
    /\ run[r].pc = "report"
    /\ run' = [run EXCEPT ![r].pc = "print", ![r].got = att[run[r].current].fit]
    /\ UNCHANGED <<att, token, late>>

(* validate() and the report of this guest. The attachment is as it was listed or
   waited for, that is, ATTACHED, whatever has become of it since. *)
Prints(r) ==
    /\ run[r].pc = "print"
    /\ LET a == run[r].current
           reported == [run[r].reported EXCEPT ![Guest(r)] = a]
       IN IF ~Valid(r, a, "ATTACHED", run[r].got) THEN Fails(r)
          ELSE run' = IF LastTurn(r) THEN Ended(r, "done", reported)
                      ELSE [run EXCEPT ![r].pc = "attach", ![r].next = @ + 1,
                                       ![r].current = None, ![r].got = FALSE,
                                       ![r].reported = reported]
    /\ UNCHANGED <<att, token, late>>

(* Any other call can fail; none is retried. *)
CallFails(r) ==
    /\ run[r].pc \in {"idle", "read", "report"}
    /\ Fails(r)
    /\ UNCHANGED <<att, token, late>>

RunStep(r) == \/ Lists(r) \/ ReadsVnics(r) \/ Checks(r) \/ Reuse(r) \/ Attach(r) \/ Attached(r)
              \/ WaitTimesOut(r) \/ GetsVnic(r) \/ Prints(r) \/ CallFails(r)

CloudStep ==
    \/ \E a \in DOMAIN att : Moves(a) \/ VnicChanges(a) \/ OperatorDetaches(a)
    \/ \E t \in Tokens : CarriedOut(t) \/ NeverCarriedOut(t) \/ TokenExpires(t)

Next == CloudStep \/ \E r \in Runs : RunStep(r)

Spec == Init /\ [][Next]_vars

(* A process that runs goes on; nothing is assumed of OCI or the operator. *)
FairSpec == Spec /\ \A r \in Runs : WF_vars(RunStep(r))

(********************************** properties **********************************)
(* However requests are lost, late or repeated by overlapping and later runs, a
   guest never has two live attachments for the same request: the token is
   derived from the request (lines 90-93), so a rerun that lists too early to
   see the attachment gets the same one. *)
OneAttachment ==
    \A a, b \in Live(att) :
        att[a].guest = att[b].guest /\ att[a].nic = att[b].nic => a = b

(* "It refuses conflicting attachments" (docs/deployment.md:48), of either guest before
   it asks for any (line 67): from its first request on, no live attachment of the host
   that was there when the run listed is doubled, on the other NIC, or still being made,
   whatever the operator and other runs did meanwhile. What was made since the listing
   the run cannot know. *)
ConflictsAreRefused ==
    \A r \in Runs : run[r].pc \in {"attach", "wait", "report", "print"} =>
        \A a, b \in Live(att) : a <= run[r].seen /\ b <= run[r].seen =>
            /\ att[a].nic = run[r].nic /\ att[a].state # "ATTACHING"
            /\ att[a].guest = att[b].guest => a = b

(* The guests are configured from the reports. A run that ends well has reported an
   attachment of its own for every guest, on the NIC asked for; and whatever runs reported
   for a guest, at once or one after the other, reusing or attaching, is the same
   attachment as long as what they reported is there. (Not that it is still attached: its
   state is judged as it was listed or waited for, lines 58 and 101.) *)
ReportsAgree ==
    /\ \A r \in Runs, g \in Guests :
          LET a == run[r].reported[g]
          IN /\ run[r].pc = "done" => a # None
             /\ a # None => att[a].guest = g /\ att[a].nic = run[r].nic
    /\ \A r, s \in Runs, g \in Guests :
          {run[r].reported[g], run[s].reported[g]} \subseteq Live(att) /\ run[r].nic = run[s].nic
              => run[r].reported[g] = run[s].reported[g]

(* Every invocation ends, though OCI may never finish an attachment. *)
EveryRunEnds == \A r \in Runs : <>(run[r].pc \in {"done", "failed"})
================================================================================
