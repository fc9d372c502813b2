------------------------------- MODULE Leads -------------------------------
(***************************************************************************)
(* lead-service: submitting, converting and cancelling leads.  A request   *)
(* is one READ COMMITTED transaction of its own, committed when the        *)
(* endpoint returns; an uncommitted UPDATE holds the row, and a second one *)
(* waits for it and then overwrites what it did.                           *)
(*                                                                         *)
(* Requests that change nothing are left out: a submission answered with   *)
(* the lead it repeats, a 404, a 409 on a lead seen in a terminal status,  *)
(* a 422 on products that product-service rejects.                         *)
(***************************************************************************)
EXTENDS Sequences

CONSTANTS
    Req,        \* handler slots: the requests that may be in flight together
    Lead,       \* bound: the lead ids that are generated
    Key,        \* a phone number with a sorted list of products
    Order,      \* orders a conversion may name
    None

ASSUME LeadAssumption == None \notin Key \cup Lead \cup Order

Terminal == {"converted", "cancelled"}

VARIABLES
    leads,      \* lead_order
    log,        \* lead_status_log: to_status, in the order of the commits
    announced,  \* the leads lead.submitted was published of
    req         \* where each handler stands

vars == <<leads, log, announced, req>>

Opt(S) == S \cup {None}

\* "flushed": inserted by a transaction that has not ended; "gone": rolled back.
\* `fresh' while created_at is less than a minute ago.  `peers' is history: the
\* leads of the same key that were there when the submission ran its SELECT.
LeadRow ==
    [st : {"unborn", "flushed", "pending", "gone"} \cup Terminal, key : Opt(Key),
     fresh : BOOLEAN, order : Opt(Order), peers : SUBSET Lead]

Request ==
    [pc : {"idle", "insert", "publish", "commit", "update", "settle"}, key : Opt(Key),
     lead : Opt(Lead), to : Terminal, order : Opt(Order), peers : SUBSET Lead]

Unborn == [st |-> "unborn", key |-> None, fresh |-> FALSE, order |-> None, peers |-> {}]

Idle == [pc |-> "idle", key |-> None, lead |-> None, to |-> "cancelled", order |-> None,
         peers |-> {}]

Stored == {l \in Lead : leads[l].st \in {"pending"} \cup Terminal}

\* Types; the log has an entry of a lead from its first settlement on.
TypeOK ==
    /\ leads \in [Lead -> LeadRow]
    /\ log \in [Lead -> Seq(Terminal)]
    /\ announced \subseteq Lead
    /\ req \in [Req -> Request]
    /\ \A l \in Lead : log[l] # <<>> <=> leads[l].st \in Terminal

Init ==
    /\ leads = [l \in Lead |-> Unborn]
    /\ log = [l \in Lead |-> <<>>]
    /\ announced = {}
    /\ req = [r \in Req |-> Idle]

----------------------------------------------------------------------------
(* POST /leads: SELECT, INSERT, publish, COMMIT.                           *)

\* Mutant of Repeats: the comparison with one_minute_ago is turned round.
Repeats_Old(k) == {l \in Lead : leads[l].st = "pending" /\ leads[l].key = k /\ ~leads[l].fresh}

\* What the SELECT finds: the leads that a submission of k would repeat.
Repeats(k) == {l \in Lead : leads[l].st = "pending" /\ leads[l].key = k /\ leads[l].fresh}

Submit(r, k) ==
    /\ req[r].pc = "idle"
    /\ Repeats(k) = {}
    /\ req' = [req EXCEPT ![r] = [Idle EXCEPT !.pc = "insert", !.key = k,
                                    !.peers = {l \in Stored : leads[l].key = k}]]
    /\ UNCHANGED <<leads, log, announced>>

Insert(r, l) ==
    /\ req[r].pc = "insert"
    /\ leads[l].st = "unborn"
    /\ leads' = [leads EXCEPT ![l] = [st |-> "flushed", key |-> req[r].key, fresh |-> TRUE,
                                      order |-> None, peers |-> req[r].peers]]
    /\ req' = [req EXCEPT ![r].pc = "publish", ![r].lead = l]
    /\ UNCHANGED <<log, announced>>

\* lead.submitted goes out while the lead is uncommitted; a failure to publish
\* is logged and forgotten.
Publish(r) ==
    /\ req[r].pc = "publish"
    /\ announced' \in {announced, announced \cup {req[r].lead}}
    /\ req' = [req EXCEPT ![r].pc = "commit"]
    /\ UNCHANGED <<leads, log>>

Commit(r) ==
    /\ req[r].pc = "commit"
    /\ leads' = [leads EXCEPT ![req[r].lead].st = "pending"]
    /\ req' = [req EXCEPT ![r] = Idle]
    /\ UNCHANGED <<log, announced>>

----------------------------------------------------------------------------
(* PATCH /leads/{id}/convert and /cancel: SELECT, UPDATE, COMMIT.          *)

\* Mutant of Settleable: a cancelled lead can be settled again.
Settleable_Cancelled(st) == st \in {"pending", "cancelled"}

\* The status check of convert_lead and cancel_lead.
Settleable(st) == st = "pending"

\* Only a conversion names an order.
Open(r, l, to, o) ==
    /\ req[r].pc = "idle"
    /\ Settleable(leads[l].st)
    /\ to = "cancelled" => o = None
    /\ req' = [req EXCEPT ![r] = [Idle EXCEPT !.pc = "update", !.lead = l, !.to = to, !.order = o]]
    /\ UNCHANGED <<leads, log, announced>>

Locked(l) == \E r \in Req : req[r].pc = "settle" /\ req[r].lead = l

\* The flush: UPDATE of the row, once it is free, and INSERT into the log.
Update(r) ==
    /\ req[r].pc = "update"
    /\ ~Locked(req[r].lead)
    /\ req' = [req EXCEPT ![r].pc = "settle"]
    /\ UNCHANGED <<leads, log, announced>>

\* Mutant of Written: the UPDATE writes every column as the SELECT read it.
Written_Whole(row, q) == [row EXCEPT !.st = q.to, !.order = q.order]

\* The row after the UPDATE, which names the columns that were assigned only.
Written(row, q) == [row EXCEPT !.st = q.to, !.order = IF q.order = None THEN @ ELSE q.order]

\* Mutant of Logged: cancel_lead adds no entry.
Logged_Conversions(s, to) == IF to = "converted" THEN Append(s, to) ELSE s

\* The log after the INSERT.
Logged(s, to) == Append(s, to)

Settle(r) ==
    LET l == req[r].lead IN
    /\ req[r].pc = "settle"
    /\ leads' = [leads EXCEPT ![l] = Written(@, req[r])]
    /\ log' = [log EXCEPT ![l] = Logged(@, req[r].to)]
    /\ req' = [req EXCEPT ![r] = Idle]
    /\ UNCHANGED announced

----------------------------------------------------------------------------
(* What happens around the handlers.                                       *)

\* A command fails, the client leaves or the process dies: ROLLBACK.
Fail(r) ==
    /\ req[r].pc # "idle"
    /\ leads' = IF req[r].pc \in {"publish", "commit"}
                THEN [leads EXCEPT ![req[r].lead].st = "gone"] ELSE leads
    /\ req' = [req EXCEPT ![r] = Idle]
    /\ UNCHANGED <<log, announced>>

\* A minute has passed since created_at.
Age(l) ==
    /\ leads[l].fresh
    /\ leads' = [leads EXCEPT ![l].fresh = FALSE]
    /\ UNCHANGED <<log, announced, req>>

HandlerStep(r) ==
    \/ \E k \in Key : Submit(r, k)
    \/ \E l \in Lead : Insert(r, l)
    \/ Publish(r)
    \/ Commit(r)
    \/ \E l \in Lead, to \in Terminal, o \in Opt(Order) : Open(r, l, to, o)
    \/ Update(r)
    \/ Settle(r)
    \/ Fail(r)

Next == (\E r \in Req : HandlerStep(r)) \/ \E l \in Lead : Age(l)

Spec == Init /\ [][Next]_vars

----------------------------------------------------------------------------
(* Properties.                                                             *)

Visible(st) == IF st \in {"pending"} \cup Terminal THEN st ELSE "absent"

LookingAt(q) == IF q.pc \in {"update", "settle"} THEN q.lead ELSE None

Life == INSTANCE LeadLifecycle WITH
            status <- [l \in Lead |-> Visible(leads[l].st)],
            journal <- log,
            looking <- [r \in Req |-> LookingAt(req[r])]

\* The transactions of convert_lead, cancel_lead and create_lead implement the
\* life of a lead in LeadLifecycle: rows and log entries take effect together,
\* events come first, and a settled lead is touched by nobody who comes later.
Lifecycle == Life!Spec

\* The idempotency of create_lead, as far as it goes: two pending leads of one
\* key, both less than a minute old, were submitted by requests that overlapped.
TwinsOverlapped ==
    \A l, m \in Lead :
        /\ l # m
        /\ leads[l].st = "pending" /\ leads[l].fresh
        /\ leads[m].st = "pending" /\ leads[m].fresh
        /\ leads[l].key = leads[m].key
        => l \notin leads[m].peers

\* An order that a conversion recorded is not lost to a cancellation, or to
\* another conversion, that was waiting for the row.
OrderKept == [][\A l \in Lead : leads[l].order # None => leads'[l].order # None]_vars

\* services/lead-service/README.md:23 calls converted and cancelled final.
FinalStays == [][\A l \in Lead : leads[l].st \in Terminal => leads'[l].st = leads[l].st]_vars
=============================================================================
