----------------------------- MODULE RedisKeys -----------------------------
(***************************************************************************)
(* Redis string keys as the services under src/ use them.  Time is counted *)
(* down: an entry holds the ticks it has left, Redis's TTL, so that no     *)
(* clock has to be bounded.  `keep' marks a key without an expiry, as INCR *)
(* leaves one that it creates.  Each operator is one Redis command, which  *)
(* the server executes atomically.                                         *)
(***************************************************************************)
EXTENDS Integers

Ticks(n) == 0..n

Entry(Val, Ttl) == [val : Val, ttl : Ttl, keep : BOOLEAN]

\* The key does not exist: a GET answers nil.
Missing == [val |-> 0, ttl |-> 0, keep |-> FALSE]

Live(e) == e.keep \/ e.ttl > 0

\* SET key v EX t
SetEx(v, t) == [val |-> v, ttl |-> t, keep |-> FALSE]

\* INCR key: a missing key counts as 0 and is created without an expiry.
Incr(e) == IF Live(e) THEN [e EXCEPT !.val = @ + 1]
                      ELSE [val |-> 1, ttl |-> 0, keep |-> TRUE]

\* EXPIRE key t: no effect on a missing key.
Expire(e, t) == IF Live(e) THEN SetEx(e.val, t) ELSE e

\* One tick of time.
Elapse(e) == IF e.keep THEN e
             ELSE IF e.ttl > 1 THEN [e EXCEPT !.ttl = @ - 1] ELSE Missing

\* TTL key, of a key that expires in t ticks.  Redis rounds to the nearest
\* second, so a key in its last half second is alive and still answers 0.
TtlReplies(t) == CASE t = 0 -> {-2}
                   [] t = 1 -> {0, 1}
                   [] OTHER -> {t}
=============================================================================
