------------------------------ MODULE Listing -------------------------------
(***************************************************************************)
(* What readdir promises its callers, for a directory that other clients   *)
(* change meanwhile: it returns a set of names, or throws.  Every name     *)
(* that was in the directory all the time is in the set, and every name in *)
(* the set was in the directory at some time since the listing began.      *)
(* Pages, cookies and verifiers are no part of the promise.                *)
(***************************************************************************)
CONSTANT Names     \* names in the directory

VARIABLES
    phase,         \* "start", "listing", "returned", "thrown"
    present,       \* the names in the directory
    stayed,        \* names in the directory since the listing began
    seen,          \* names in the directory at some time since the listing began
    result         \* the names returned

vars == <<phase, present, stayed, seen, result>>

Init ==
    /\ phase = "start"
    /\ present \in SUBSET Names
    /\ stayed = {} /\ seen = {} /\ result = {}

Begin ==
    /\ phase = "start"
    /\ phase' = "listing"
    /\ stayed' = present
    /\ seen' = present
    /\ UNCHANGED <<present, result>>

\* Another client creates or removes a name.
Modify ==
    /\ phase = "listing"
    /\ \E n \in Names :
          \/ n \notin present /\ present' = present \cup {n}
          \/ n \in present /\ present' = present \ {n}
    /\ stayed' = stayed \cap present'
    /\ seen' = seen \cup present'
    /\ UNCHANGED <<phase, result>>

Return ==
    /\ phase = "listing"
    /\ phase' = "returned"
    /\ result' \in {S \in SUBSET seen : stayed \subseteq S}
    /\ UNCHANGED <<present, stayed, seen>>

Throw ==
    /\ phase = "listing"
    /\ phase' = "thrown"
    /\ UNCHANGED <<present, stayed, seen, result>>

Next == Begin \/ Modify \/ Return \/ Throw

Spec == Init /\ [][Next]_vars
=============================================================================
