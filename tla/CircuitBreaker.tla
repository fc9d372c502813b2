--------------------------- MODULE CircuitBreaker ---------------------------
(***************************************************************************)
(* The circuit breaker of sms-service's provider factory: one in-memory    *)
(* circuit per channel.  The functions of the factory run without an       *)
(* await, so each is one operator on a circuit.  `count' stops at the      *)
(* threshold: the code only compares it with that.  `since', the ticks     *)
(* since the last recorded failure, stops at the recovery timeout; it is   *)
(* read of open circuits only, and reset with the count.                   *)
(***************************************************************************)
EXTENDS Integers

CONSTANTS
    Threshold,  \* failure_threshold of the policy
    Recovery    \* recovery_timeout, in ticks

ASSUME BreakerAssumption == Threshold \in Nat \ {0} /\ Recovery \in Nat \ {0}

Circuit == [count : 0..Threshold, open : BOOLEAN, since : 0..Recovery]

Closed == [count |-> 0, open |-> FALSE, since |-> Recovery]

\* A circuit is open exactly when its failures reached the threshold.
WellFormed(c) == c \in Circuit /\ (c.open <=> c.count = Threshold)

\* get_provider: an open circuit is closed again after the recovery timeout.
HalfOpened(c) ==
    IF c.open /\ c.since >= Recovery THEN Closed ELSE c

\* Mutant of Failed: the circuit opens one failure late.
Failed_Late(c) ==
    LET n == IF c.count < Threshold THEN c.count + 1 ELSE Threshold IN
    [count |-> n, open |-> c.open \/ c.count >= Threshold, since |-> 0]

\* record_provider_failure
Failed(c) ==
    LET n == IF c.count < Threshold THEN c.count + 1 ELSE Threshold IN
    [count |-> n, open |-> c.open \/ n >= Threshold, since |-> 0]

\* record_provider_success
Succeeded(c) == Closed

Aged(c) == [c EXCEPT !.since = IF @ < Recovery THEN @ + 1 ELSE Recovery]
=============================================================================
