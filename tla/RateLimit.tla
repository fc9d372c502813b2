----------------------------- MODULE RateLimit -----------------------------
(***************************************************************************)
(* The rate limits an SMS request passes before it is sent: sms-service    *)
(* checks, one after the other, sliding windows per phone and per IP, each *)
(* a Redis sorted set of time stamps.  The requests here are those of one  *)
(* phone and one IP, so that there is one sorted set per check.            *)
(*                                                                         *)
(* A check reads the clock, sends one MULTI/EXEC (drop what left the       *)
(* window, count, add itself, EXPIRE) and, when refused, takes its entry   *)
(* out again in a later command; other requests run in between.  The read  *)
(* of the oldest entry before that, for the Retry-After header, changes    *)
(* nothing and is left out.                                                *)
(***************************************************************************)
EXTENDS Integers, FiniteSets

CONSTANTS
    Req,        \* the requests that may be in flight together
    Gates,      \* number of checks: phone/minute, phone/day, ip/minute, ip/day
    Limit,      \* per check
    Window,     \* per check, in ticks
    MaxTime     \* bound: the clock is not read or advanced beyond it

Gate == 1..Gates

ASSUME GateAssumption ==
    /\ Gates \in Nat \ {0}
    /\ Limit \in [Gate -> Nat \ {0}]
    /\ Window \in [Gate -> Nat \ {0}]
    /\ MaxTime \in Nat

VARIABLES
    now,        \* the clock; it advances at every reading, so readings differ
    zset,       \* sms:rl:...: the stamps in each sorted set
    deadline,   \* when each key expires as a whole
    req,        \* where each request stands
    passed,     \* history: the stamps that passed each check
    died        \* history: some request stopped before it answered

vars == <<now, zset, deadline, req, passed, died>>

Request == [pc : {"idle", "check", "remove"}, gate : Gate, stamp : Nat]

Idle == [pc |-> "idle", gate |-> 1, stamp |-> 0]

TypeOK ==
    /\ now \in Nat
    /\ zset \in [Gate -> SUBSET Nat]
    /\ deadline \in [Gate -> Nat]
    /\ req \in [Req -> Request]
    /\ passed \in [Gate -> SUBSET Nat]
    /\ died \in BOOLEAN

Init ==
    /\ now = 0
    /\ zset = [g \in Gate |-> {}]
    /\ deadline = [g \in Gate |-> 0]
    /\ req = [r \in Req |-> Idle]
    /\ passed = [g \in Gate |-> {}]
    /\ died = FALSE

\* The stamps of S that are inside the window of check g at time t.
Within(S, g, t) == {s \in S : s > t - Window[g]}

\* Mutant of Begin: the checks are counted from 0.
Begin_FromZero(g) == [pc |-> "check", gate |-> g - 1, stamp |-> now]

\* check_rate_limit of gate g begins with time.time().
Begin(g) == [pc |-> "check", gate |-> g, stamp |-> now]

Arrive(r) ==
    /\ now < MaxTime
    /\ req[r].pc = "idle"
    /\ req' = [req EXCEPT ![r] = Begin(1)]
    /\ now' = now + 1
    /\ UNCHANGED <<zset, deadline, passed, died>>

\* What Redis still holds of a key.
Members(g) == IF now < deadline[g] THEN zset[g] ELSE {}

\* The pipeline of request r: what it counts, and what it leaves in the set.
Counted(r) == Within(Members(req[r].gate), req[r].gate, req[r].stamp)

Queue(r) ==
    /\ zset' = [zset EXCEPT ![req[r].gate] = Counted(r) \cup {req[r].stamp}]
    /\ deadline' = [deadline EXCEPT ![req[r].gate] = now + Window[req[r].gate] + 1]

CheckRefused(r) ==
    /\ req[r].pc = "check"
    /\ Cardinality(Counted(r)) >= Limit[req[r].gate]
    /\ Queue(r)
    /\ req' = [req EXCEPT ![r].pc = "remove"]
    /\ UNCHANGED <<now, passed, died>>

\* The next check reads the clock again; after the last one the SMS is sent.
CheckPassed(r) ==
    LET q == req[r] IN
    /\ q.pc = "check"
    /\ Cardinality(Counted(r)) < Limit[q.gate]
    /\ Queue(r)
    /\ passed' = [passed EXCEPT ![q.gate] = @ \cup {q.stamp}]
    /\ \/ /\ q.gate < Gates /\ now < MaxTime
          /\ req' = [req EXCEPT ![r] = Begin(q.gate + 1)]
          /\ now' = now + 1
       \/ /\ q.gate = Gates
          /\ req' = [req EXCEPT ![r] = Idle]
          /\ UNCHANGED now
    /\ UNCHANGED died

\* Mutant of Withdraw: ZREMRANGEBYSCORE key 0 now.
Withdraw_UpTo(S, stamp) == {s \in S : s > stamp}

\* ZREMRANGEBYSCORE key now now
Withdraw(S, stamp) == S \ {stamp}

\* Mutant of Remove: the refused request stays in the set.
Remove_Not(r) ==
    /\ req[r].pc = "remove"
    /\ req' = [req EXCEPT ![r] = Idle]
    /\ UNCHANGED <<now, zset, deadline, passed, died>>

\* A refused request leaves the set; then the endpoint answers 429.
Remove(r) ==
    /\ req[r].pc = "remove"
    /\ zset' = [zset EXCEPT ![req[r].gate] = Withdraw(Members(req[r].gate), req[r].stamp)]
    /\ req' = [req EXCEPT ![r] = Idle]
    /\ UNCHANGED <<now, deadline, passed, died>>

\* The process dies or the client is gone.
Crash(r) ==
    /\ req[r].pc # "idle"
    /\ req' = [req EXCEPT ![r] = Idle]
    /\ died' = TRUE
    /\ UNCHANGED <<now, zset, deadline, passed>>

Tick ==
    /\ now < MaxTime
    /\ now' = now + 1
    /\ UNCHANGED <<zset, deadline, req, passed, died>>

RequestStep(r) ==
    \/ Arrive(r)
    \/ CheckRefused(r)
    \/ CheckPassed(r)
    \/ Remove(r)
    \/ Crash(r)

Next == Tick \/ \E r \in Req : RequestStep(r)

Spec == Init /\ [][Next]_vars

----------------------------------------------------------------------------
(* Properties.                                                             *)

\* The point of the limiter: at no time have more than Limit requests passed a
\* check within its window, however the steps of requests interleave, however
\* late a pipeline runs after its clock reading, and whoever dies on the way.
RateKept == \A g \in Gate : Cardinality(Within(passed[g], g, now)) <= Limit[g]

\* The promise behind it: every pass is one of SlidingWindow, at the moment of its
\* pipeline, though its clock was read before that.
Promise == INSTANCE SlidingWindow
Limiter == Promise!Spec

\* The other requests that check r's gate has refused and that still sit in its set.
Leaving(r) == {x \in Req \ {r} : req[x].pc = "remove" /\ req[x].gate = req[r].gate}

\* Nobody is refused for nothing: unless another refusal is just being taken out
\* again, or a refused request died before that, Limit requests have passed the
\* check in the window of the one it turns away.
RefusedForCause ==
    [][\A r \in Req :
          LET g == req[r].gate IN
          req[r].pc = "check" /\ req'[r].pc = "remove" /\ Leaving(r) = {} /\ ~died
            => Cardinality(Within(passed[g], g, req[r].stamp)) >= Limit[g]]_vars
=============================================================================
