------------------------------ MODULE Completion ------------------------------
(***************************************************************************)
(* ai-service's POST /complete/raw and /complete/template: the per-minute  *)
(* counters of one calling service, the cache of answers, the provider     *)
(* call and the call log.                                                  *)
(*                                                                         *)
(* Each element of Req is one request.  Its Redis commands and its provider*)
(* call are steps of their own; its row of call_log is inserted by the     *)
(* COMMIT.  The prompts stand for what the request hash covers; provider,  *)
(* model, format and costs are left out, and so are the repetitions inside *)
(* the provider client, of which the handler sees the last.                *)
(*                                                                         *)
(* Whatever text a request has for its caller, the caller gets 500: the    *)
(* answer holds the call_id, a UUID, which JSONResponse cannot write, and  *)
(* get_db rolls the row back.  Counters and cache keep what was written.   *)
(***************************************************************************)
EXTENDS Integers, FiniteSets

CONSTANTS
    Req,       \* requests of one caller_service
    Prompt,    \* prompts, as the request hash tells them apart
    Ttl,       \* cache_ttl_seconds, by sign: 0 switches the cache off, SETEX refuses -1
    Tokens,    \* total_tokens of an answer
    RATE_LIMIT_RPM,
    MaxMinute, \* bound: minute buckets
    None

CompletionAssumption ==
    /\ Ttl \subseteq -1..1 /\ Tokens \subseteq Nat /\ None \notin Req \cup Prompt \cup 0..MaxMinute
    /\ RATE_LIMIT_RPM \in Nat /\ MaxMinute \in Nat

Minute == 0..MaxMinute

VARIABLES
    minute,  \* int(time.time()) // 60
    rpm,     \* rl:rpm:{caller}:{minute}
    tpm,     \* rl:tpm:{caller}:{minute}
    cache,   \* cache:{request_hash}: the request whose answer it holds, or None
    req,     \* where each request stands
    calllog, \* call_log: the requests that have a row
    answer   \* the HTTP status of each request, 0 before it

vars == <<minute, rpm, tpm, cache, req, calllog, answer>>

Handler == [pc : {"start", "count", "lookup", "call", "recount", "store", "commit", "done"},
            prompt : Prompt \cup {None}, ttl : Ttl \cup {0},
            bucket : Minute,               \* that of the clock it read last
            tokens : Tokens \cup {0}, empty : BOOLEAN, failed : BOOLEAN,
            admitted : Minute \cup {None}, \* history: the bucket in which it was admitted,
            counted : Minute \cup {None}]  \* and the one in which its answer was counted

Started == [pc |-> "start", prompt |-> None, ttl |-> 0, bucket |-> 0, tokens |-> 0,
            empty |-> FALSE, failed |-> FALSE, admitted |-> None, counted |-> None]

TypeOK ==
    /\ minute \in Minute /\ rpm \in [Minute -> Nat] /\ tpm \in [Minute -> Nat]
    /\ cache \in [Prompt -> Req \cup {None}]
    /\ req \in [Req -> Handler]
    /\ calllog \subseteq Req
    /\ answer \in [Req -> {0, 429, 500, 502}]
    /\ \A q \in Req : answer[q] = 0 <=> req[q].pc # "done"

Init ==
    /\ minute = 0
    /\ rpm = [m \in Minute |-> 0] /\ tpm = [m \in Minute |-> 0]
    /\ cache = [p \in Prompt |-> None]
    /\ req = [q \in Req |-> Started]
    /\ calllog = {} /\ answer = [q \in Req |-> 0]

At(q, pc) == req[q].pc = pc

Goto(q, h) == req' = [req EXCEPT ![q] = h] /\ UNCHANGED <<minute, calllog, answer>>

\* The transaction ends, with the row or without.
Ended(q, rows, code) ==
    /\ req' = [req EXCEPT ![q] = [Started EXCEPT !.pc = "done", !.prompt = req[q].prompt, !.tokens = req[q].tokens,
                                                 !.admitted = req[q].admitted, !.counted = req[q].counted]]
    /\ calllog' = calllog \cup rows /\ answer' = [answer EXCEPT ![q] = code]
    /\ UNCHANGED minute

----------------------------------------------------------------------------
(* check_and_increment: the clock, then one pipeline.                      *)

\* Mutant of RpmExceeded: the request that reaches the limit is let through one late.
RpmExceeded_Late(n) == n > RATE_LIMIT_RPM + 1

RpmExceeded(n) == n > RATE_LIMIT_RPM

\* The counters of a refused request stay increased.
Increment(m, t) ==
    /\ rpm' = [rpm EXCEPT ![m] = @ + 1]
    /\ tpm' = [tpm EXCEPT ![m] = @ + t]

----------------------------------------------------------------------------
Start(q, p, t) ==
    /\ At(q, "start")
    /\ Goto(q, [req[q] EXCEPT !.pc = "count", !.prompt = p, !.ttl = t, !.bucket = minute])
    /\ UNCHANGED <<rpm, tpm, cache>>

\* The first count, without tokens: it is only ever refused for the requests.
Admit(q) ==
    LET h == req[q] IN
    /\ At(q, "count") /\ ~RpmExceeded(rpm[h.bucket] + 1)
    /\ Increment(h.bucket, 0)
    /\ Goto(q, [h EXCEPT !.pc = IF h.ttl # 0 THEN "lookup" ELSE "call", !.admitted = h.bucket])
    /\ UNCHANGED cache

\* 429: nothing is logged.
Refuse(q) ==
    /\ At(q, "count") /\ RpmExceeded(rpm[req[q].bucket] + 1)
    /\ Increment(req[q].bucket, 0)
    /\ Ended(q, {}, 429)
    /\ UNCHANGED cache

\* A hit spares the call.
Lookup(q) ==
    LET h == req[q] IN
    /\ At(q, "lookup")
    /\ Goto(q, [h EXCEPT !.pc = IF cache[h.prompt] = None THEN "call" ELSE "commit"])
    /\ UNCHANGED <<rpm, tpm, cache>>

AfterAnswer(h) == IF h.ttl # 0 /\ ~h.empty THEN "store" ELSE "commit"

\* The provider answers t tokens; without any, the counters are not consulted again.
Answered(q, t, empty) ==
    LET h == [req[q] EXCEPT !.empty = empty, !.tokens = t] IN
    /\ At(q, "call")
    /\ Goto(q, IF t > 0 THEN [h EXCEPT !.pc = "recount", !.bucket = minute]
               ELSE [h EXCEPT !.pc = AfterAnswer(h)])
    /\ UNCHANGED <<rpm, tpm, cache>>

ProviderFails(q) ==
    /\ At(q, "call")
    /\ Goto(q, [req[q] EXCEPT !.pc = "commit", !.failed = TRUE])
    /\ UNCHANGED <<rpm, tpm, cache>>

\* The second count of the request, and the tokens'.  What it says of the limits
\* only changes the status of a row that is rolled back.
Recount(q) ==
    LET h == req[q] IN
    /\ At(q, "recount")
    /\ Increment(h.bucket, h.tokens)
    /\ Goto(q, [h EXCEPT !.pc = AfterAnswer(h), !.counted = h.bucket])
    /\ UNCHANGED cache

\* SETEX; the later of two answers to one prompt stays.
Store(q) ==
    LET h == req[q] IN
    /\ At(q, "store") /\ h.ttl > 0
    /\ cache' = [cache EXCEPT ![h.prompt] = q]
    /\ Goto(q, [h EXCEPT !.pc = "commit"])
    /\ UNCHANGED <<rpm, tpm>>

\* Mutant of KeptRows: the row of a failed call is rolled back like the others.
KeptRows_None(q) == {}

\* The rows that are committed: the 502 of a failed call is returned and not
\* raised; any other answer raises.
KeptRows(q) == IF req[q].failed THEN {q} ELSE {}

Commit(q) ==
    /\ At(q, "commit")
    /\ Ended(q, KeptRows(q), IF req[q].failed THEN 502 ELSE 500)
    /\ UNCHANGED <<rpm, tpm, cache>>

\* Redis or PostgreSQL fails, or SETEX refuses the ttl, or the provider is unknown:
\* 500, and the row is rolled back.
Fail(q) ==
    /\ ~At(q, "start") /\ ~At(q, "done")
    /\ Ended(q, {}, 500)
    /\ UNCHANGED <<rpm, tpm, cache>>

Expire(p) ==
    /\ cache[p] # None /\ cache' = [cache EXCEPT ![p] = None]
    /\ UNCHANGED <<minute, rpm, tpm, req, calllog, answer>>

Tick ==
    /\ minute < MaxMinute /\ minute' = minute + 1
    /\ UNCHANGED <<rpm, tpm, cache, req, calllog, answer>>

Next ==
    \/ \E q \in Req :
         \/ \E p \in Prompt, t \in Ttl : Start(q, p, t)
         \/ Admit(q) \/ Refuse(q) \/ Lookup(q)
         \/ \E t \in Tokens, empty \in BOOLEAN : Answered(q, t, empty)
         \/ ProviderFails(q) \/ Recount(q) \/ Store(q) \/ Commit(q) \/ Fail(q)
    \/ \E p \in Prompt : Expire(p)
    \/ Tick

Spec == Init /\ [][Next]_vars

----------------------------------------------------------------------------
(* Properties.                                                             *)

AdmittedIn(m) == {q \in Req : req[q].admitted = m}
CountedIn(m) == {q \in Req : req[q].counted = m}

\* Of a step: a request is let through only while the requests let through in its
\* minute and the answers counted in that minute, which share one counter, are
\* within RATE_LIMIT_RPM together, whatever requests overlap and however late an
\* answer is counted (check_and_increment).
KeepsLimit ==
    \A m \in Minute : AdmittedIn(m)' # AdmittedIn(m) =>
        Cardinality(AdmittedIn(m)') + Cardinality(CountedIn(m)) <= RATE_LIMIT_RPM

\* A request has its row if and only if it was answered 502, and a text that is in
\* the cache was made by a call for that prompt, never by one that is logged as
\* failed (_run_completion).
CallsLogged ==
    /\ \A q \in Req : q \in calllog <=> answer[q] = 502
    /\ \A p \in Prompt : cache[p] # None => req[cache[p]].prompt = p /\ cache[p] \notin calllog

\* What the requirements say of the call log, and what does not hold: a call that
\* cost tokens has its row.
PaidCallsLogged == \A q \in Req : At(q, "done") /\ req[q].tokens > 0 => q \in calllog
=============================================================================
