------------------------------ MODULE AtomicRecord -----------------------------
(* What atomic_json() promises of the file it writes, without file system: a reader
   finds one content or the next, never something between; the content changes at one
   moment of the call that changes it; and once the call has returned, no loss of
   power takes the content back. GpuVmManager relies on no more than this. *)
CONSTANTS
    Writes,  \* the calls, each with a content of its own
    None

VARIABLES
    value,   \* what a reader finds: the call that wrote it, or None
    kept,    \* what a loss of power leaves at least
    writer   \* the call that is going on, or None

recordVars == <<value, kept, writer>>

Init == value = None /\ kept = None /\ writer = None

Begins(w) == writer = None /\ writer' = w /\ UNCHANGED <<value, kept>>

Changes(w) == writer = w /\ value' = w /\ UNCHANGED <<kept, writer>>

Returns(w) == writer = w /\ value = w /\ kept' = w /\ writer' = None /\ UNCHANGED value

(* The call ends without having returned; what it changed stays changed. *)
Stops == writer # None /\ writer' = None /\ UNCHANGED <<value, kept>>

LosesPower ==
    /\ value' \in {value, kept} /\ kept' = value'
    /\ writer' = None

Next ==
    \/ Stops \/ LosesPower
    \/ \E w \in Writes : Begins(w) \/ Changes(w) \/ Returns(w)

Spec == Init /\ [][Next]_recordVars
================================================================================
