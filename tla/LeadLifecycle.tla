--------------------------- MODULE LeadLifecycle ---------------------------
(***************************************************************************)
(* What lead-service promises of the life of a lead, without transactions: *)
(* a lead is announced at most once, before it can be seen; it is settled  *)
(* by whoever looked at it while it was pending, each settlement replaces  *)
(* the status and adds one entry to the journal; and nobody who comes      *)
(* later touches it.                                                       *)
(***************************************************************************)
EXTENDS Sequences

CONSTANTS
    Req,        \* those who may look at leads and settle them
    Lead,
    None

Terminal == {"converted", "cancelled"}

VARIABLES
    status,     \* what a reader sees of each lead
    journal,    \* the settlements of each lead, in the order they took effect
    announced,  \* the leads an event was published of
    looking     \* the pending lead each request has looked at

vars == <<status, journal, announced, looking>>

Init ==
    /\ status = [l \in Lead |-> "absent"]
    /\ journal = [l \in Lead |-> <<>>]
    /\ announced = {}
    /\ looking = [r \in Req |-> None]

Announce(l) ==
    /\ status[l] = "absent" /\ l \notin announced
    /\ announced' = announced \cup {l}
    /\ UNCHANGED <<status, journal, looking>>

Appear(l) ==
    /\ status[l] = "absent"
    /\ status' = [status EXCEPT ![l] = "pending"]
    /\ UNCHANGED <<journal, announced, looking>>

Look(r, l) ==
    /\ looking[r] = None /\ status[l] = "pending"
    /\ looking' = [looking EXCEPT ![r] = l]
    /\ UNCHANGED <<status, journal, announced>>

Decide(r, l, s) ==
    /\ looking[r] = l
    /\ status' = [status EXCEPT ![l] = s]
    /\ journal' = [journal EXCEPT ![l] = Append(@, s)]
    /\ looking' = [looking EXCEPT ![r] = None]
    /\ UNCHANGED announced

Leave(r) ==
    /\ looking[r] # None
    /\ looking' = [looking EXCEPT ![r] = None]
    /\ UNCHANGED <<status, journal, announced>>

Next ==
    \/ \E l \in Lead : Announce(l) \/ Appear(l)
    \/ \E r \in Req : Leave(r)
    \/ \E r \in Req, l \in Lead : Look(r, l) \/ \E s \in Terminal : Decide(r, l, s)

Spec == Init /\ [][Next]_vars
=============================================================================
