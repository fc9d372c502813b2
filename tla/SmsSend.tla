------------------------------ MODULE SmsSend ------------------------------
(***************************************************************************)
(* Sending an SMS in sms-service, after the rate limits: the idempotency   *)
(* key sms:idempotency:{request_id} in Redis, the sms_records table with   *)
(* its unique request_id, the provider call and the circuit breaker that   *)
(* chooses the channel.                                                    *)
(*                                                                         *)
(* A handler's database session is one transaction, committed when the     *)
(* endpoint returns and rolled back when it raises; Redis and the circuits *)
(* are outside it.  Each action ends at an await that others can overtake. *)
(***************************************************************************)
EXTENDS Integers, FiniteSets, CircuitBreaker

CONSTANTS
    Req,        \* handler slots: the requests that may be in flight together
    Rid,        \* request ids chosen by clients
    Channel,
    Fallback,   \* per channel, the fallback its policy names, or None
    Id,         \* bound: the record ids that the sequence hands out
    None

ASSUME SendAssumption ==
    /\ None \notin Rid \cup Id \cup Channel
    /\ Fallback \in [Channel -> Channel \cup {None}]

VARIABLES
    circuit,    \* _circuits
    idem,       \* sms:idempotency:{request_id}, a record id
    rows,       \* sms_records; an id is never handed out again
    req,        \* where each handler stands
    delivered   \* history: messages the subscriber got for a request id, up to 2

vars == <<circuit, idem, rows, req, delivered>>

Opt(S) == S \cup {None}

\* "flushed": inserted by a transaction that has not ended.
Row == [st : {"unborn", "flushed", "SENT", "FAILED", "gone"}, rid : Opt(Rid)]

\* `again' is history: the request began when its message had been sent, the
\* record was committed and the idempotency key was there.
Request ==
    [pc : {"idle", "select", "route", "sending", "flush", "setidem", "finish"},
     kind : {"send", "code"}, rid : Opt(Rid), ch : Opt(Channel), via : Opt(Channel),
     id : Opt(Id), ok : BOOLEAN, again : BOOLEAN]

Idle == [pc |-> "idle", kind |-> "send", rid |-> None, ch |-> None, via |-> None,
         id |-> None, ok |-> FALSE, again |-> FALSE]

\* Types; a circuit is open exactly from its Threshold-th failure in a row on.
TypeOK ==
    /\ circuit \in [Channel -> Circuit]
    /\ \A c \in Channel : WellFormed(circuit[c])
    /\ idem \in [Rid -> Opt(Id)]
    /\ rows \in [Id -> Row]
    /\ req \in [Req -> Request]
    /\ delivered \in [Rid -> 0..2]

Init ==
    /\ circuit = [c \in Channel |-> Closed]
    /\ idem = [k \in Rid |-> None]
    /\ rows = [i \in Id |-> [st |-> "unborn", rid |-> None]]
    /\ req = [r \in Req |-> Idle]
    /\ delivered = [k \in Rid |-> 0]

Committed(i) == rows[i].st \in {"SENT", "FAILED"}

----------------------------------------------------------------------------
(* The handler.                                                            *)

\* /send: GET of the idempotency key, when the client chose a request id.
Send(r, k, c) ==
    LET i == IF k = None THEN None ELSE idem[k] IN
    /\ req[r].pc = "idle"
    /\ req' = [req EXCEPT ![r] = [Idle EXCEPT !.pc = IF i = None THEN "route" ELSE "select",
                                    !.rid = k, !.ch = c, !.id = i,
                                    !.again = /\ i # None
                                              /\ \E j \in Id : rows[j] = [st |-> "SENT", rid |-> k]]]
    /\ UNCHANGED <<circuit, idem, rows, delivered>>

\* /send-code: after SET sms:verify:{phone}, it sends without a request id.
SendCode(r, c) ==
    /\ req[r].pc = "idle"
    /\ req' = [req EXCEPT ![r] = [Idle EXCEPT !.pc = "route", !.kind = "code", !.ch = c]]
    /\ UNCHANGED <<circuit, idem, rows, delivered>>

\* SELECT of the record the key names; when it is there, it is the answer.
Select(r) ==
    /\ req[r].pc = "select"
    /\ req' = [req EXCEPT ![r] = IF Committed(@.id) THEN Idle
                                 ELSE [@ EXCEPT !.pc = "route", !.id = None]]
    /\ UNCHANGED <<circuit, idem, rows, delivered>>

\* The channel an attempt on c uses, given its circuit.
RouteOf(c, state) ==
    IF state.open /\ Fallback[c] \notin {None, c} THEN Fallback[c] ELSE c

\* get_provider, and the request goes out to the provider.
Route(r) ==
    LET c == req[r].ch
        state == HalfOpened(circuit[c]) IN
    /\ req[r].pc = "route"
    /\ circuit' = [circuit EXCEPT ![c] = state]
    /\ req' = [req EXCEPT ![r].pc = "sending", ![r].via = RouteOf(c, state)]
    /\ UNCHANGED <<idem, rows, delivered>>

More(n) == IF n < 2 THEN n + 1 ELSE 2

\* The provider's answer, or its timeout: a message may be delivered and the
\* call fail all the same.  The result is booked on the channel that was asked
\* for, whichever channel sent.
Answer(r, ok, arrived) ==
    LET q == req[r] IN
    /\ q.pc = "sending"
    /\ ok => arrived
    /\ circuit' = [circuit EXCEPT ![q.ch] = IF ok THEN Succeeded(@) ELSE Failed(@)]
    /\ delivered' = IF arrived /\ q.rid # None THEN [delivered EXCEPT ![q.rid] = More(@)]
                                               ELSE delivered
    /\ req' = [req EXCEPT ![r].pc = "flush", ![r].ok = ok]
    /\ UNCHANGED <<idem, rows>>

\* Mutant of Holders: request_id is an index, not a unique one.
Holders_None(k) == {}

\* The rows an insert with request id k collides with.
Holders(k) == {i \in Id : k # None /\ rows[i].rid = k /\ rows[i].st \in {"flushed", "SENT", "FAILED"}}

\* INSERT.  It waits while a row of the same request id is uncommitted.
Flush(r, i) ==
    LET q == req[r] IN
    /\ q.pc = "flush" /\ Holders(q.rid) = {}
    /\ rows[i].st = "unborn"
    /\ rows' = [rows EXCEPT ![i] = [st |-> "flushed", rid |-> q.rid]]
    /\ req' = [req EXCEPT ![r].id = i, ![r].pc = IF q.rid = None THEN "finish" ELSE "setidem"]
    /\ UNCHANGED <<circuit, idem, delivered>>

\* The INSERT fails on the unique index: the endpoint raises, with the message
\* sent and no record of it.
FlushConflict(r) ==
    /\ req[r].pc = "flush"
    /\ \E i \in Holders(req[r].rid) : Committed(i)
    /\ req' = [req EXCEPT ![r] = Idle]
    /\ UNCHANGED <<circuit, idem, rows, delivered>>

\* SET sms:idempotency:{request_id}, before the transaction ends.
SetIdem(r) ==
    /\ req[r].pc = "setidem"
    /\ idem' = [idem EXCEPT ![req[r].rid] = req[r].id]
    /\ req' = [req EXCEPT ![r].pc = "finish"]
    /\ UNCHANGED <<circuit, rows, delivered>>

\* Mutant of Outcome: /send catches the RuntimeError, as /send-code does.
Outcome_Caught(q) == IF q.ok THEN "SENT" ELSE "FAILED"

\* A failure rolls /send back; /send-code catches it, and the row is committed.
Outcome(q) == IF q.ok THEN "SENT" ELSE IF q.kind = "code" THEN "FAILED" ELSE "gone"

\* COMMIT or ROLLBACK, then the answer.
Finish(r) ==
    /\ req[r].pc = "finish"
    /\ rows' = [rows EXCEPT ![req[r].id].st = Outcome(req[r])]
    /\ req' = [req EXCEPT ![r] = Idle]
    /\ UNCHANGED <<circuit, idem, delivered>>

\* A database or Redis command fails, the COMMIT included: get_db rolls the
\* transaction back and the endpoint answers 500.
Fail(r) ==
    /\ req[r].pc \notin {"idle", "sending"}
    /\ rows' = IF req[r].pc \in {"setidem", "finish"}
               THEN [rows EXCEPT ![req[r].id].st = "gone"] ELSE rows
    /\ req' = [req EXCEPT ![r] = Idle]
    /\ UNCHANGED <<circuit, idem, delivered>>

----------------------------------------------------------------------------
(* What happens around the handlers.                                       *)

\* The 24 hours of a key are over; no handler takes that long.
ExpireIdem(k) ==
    /\ idem[k] # None
    /\ \A r \in Req : req[r].rid # k
    /\ idem' = [idem EXCEPT ![k] = None]
    /\ UNCHANGED <<circuit, rows, req, delivered>>

\* DELETE /records/{id}, or the clean-up of old records.
DeleteRecord(i) ==
    /\ Committed(i)
    /\ rows' = [rows EXCEPT ![i].st = "gone"]
    /\ req' = [r \in Req |-> IF req[r].rid = rows[i].rid THEN [req[r] EXCEPT !.again = FALSE]
                                                         ELSE req[r]]
    /\ UNCHANGED <<circuit, idem, delivered>>

\* The process dies: open transactions are rolled back, the circuits forgotten.
Crash ==
    /\ \E r \in Req : req[r].pc # "idle"
    /\ circuit' = [c \in Channel |-> Closed]
    /\ rows' = [i \in Id |-> IF rows[i].st = "flushed" THEN [rows[i] EXCEPT !.st = "gone"]
                                                       ELSE rows[i]]
    /\ req' = [r \in Req |-> Idle]
    /\ UNCHANGED <<idem, delivered>>

Tick ==
    /\ circuit' = [c \in Channel |-> Aged(circuit[c])]
    /\ UNCHANGED <<idem, rows, req, delivered>>

HandlerStep(r) ==
    \/ \E k \in Opt(Rid), c \in Channel : Send(r, k, c)
    \/ \E c \in Channel : SendCode(r, c)
    \/ Select(r)
    \/ Route(r)
    \/ \E ok \in BOOLEAN, arrived \in BOOLEAN : Answer(r, ok, arrived)
    \/ \E i \in Id : Flush(r, i)
    \/ FlushConflict(r)
    \/ SetIdem(r)
    \/ Finish(r)
    \/ Fail(r)

Next ==
    \/ \E r \in Req : HandlerStep(r)
    \/ \E k \in Rid : ExpireIdem(k)
    \/ \E i \in Id : DeleteRecord(i)
    \/ Crash
    \/ Tick

Spec == Init /\ [][Next]_vars

----------------------------------------------------------------------------
(* Properties.                                                             *)

\* The record a duplicate is answered with is always that request's own and
\* always a success: send_sms writes the key before it knows whether its row
\* will survive, and a key that names a rolled-back row must find nothing.
HitIsSent ==
    \A k \in Rid : idem[k] # None /\ Committed(idem[k])
                     => rows[idem[k]] = [st |-> "SENT", rid |-> k]

\* A request that begins when its message was sent, recorded and remembered is
\* not sent again, whatever overlapping requests with the same id wrote to the
\* key before and after that record was committed.
AgainNotSent == \A r \in Req : req[r].again => req[r].pc = "select"

\* The product requirements: request_id and Redis ensure that one request is not
\* sent twice (docs/src/content/docs/05-services/sms-service/prd.md:82).
DeliveredOnce == \A k \in Rid : delivered[k] <= 1

\* The README of sms-service: an open circuit stays with the fallback until the
\* recovery timeout has passed (services/sms-service/README.md:128); a restart resets it.
OpenUntilRecovery ==
    [][Crash \/ \A c \in Channel : circuit[c].open /\ ~circuit'[c].open
                                     => circuit[c].since >= Recovery]_vars
=============================================================================
