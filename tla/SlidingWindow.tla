--------------------------- MODULE SlidingWindow ---------------------------
(***************************************************************************)
(* What the rate limiter of sms-service promises, without Redis, expiries  *)
(* and requests in flight: a request passes a check at one moment, and     *)
(* only if fewer than the limit have passed it in the window that ends     *)
(* then.                                                                   *)
(***************************************************************************)
EXTENDS Integers, FiniteSets

CONSTANTS
    Gates,      \* number of checks
    Limit,      \* per check
    Window      \* per check, in ticks

Gate == 1..Gates

VARIABLES
    now,        \* the clock
    passed      \* the stamps of what passed each check

vars == <<now, passed>>

Init == now = 0 /\ passed = [g \in Gate |-> {}]

Recent(g) == {s \in passed[g] : s > now - Window[g]}

\* A stamp was read from the clock earlier, and passes a check at most once.
Pass(g, s) ==
    /\ s \in 0..(now - 1) /\ s \notin passed[g]
    /\ Cardinality(Recent(g)) < Limit[g]
    /\ passed' = [passed EXCEPT ![g] = @ \cup {s}]

Next ==
    \/ now' = now + 1 /\ UNCHANGED passed
    \/ now' \in {now, now + 1} /\ \E g \in Gate, s \in 0..(now - 1) : Pass(g, s)

Spec == Init /\ [][Next]_vars
=============================================================================
