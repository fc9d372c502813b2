---------------------------- MODULE AuthSession ----------------------------
(***************************************************************************)
(* The session protocol of auth-service and the API gateway: access tokens *)
(* (JWTs that carry the account's auth version), opaque refresh tokens     *)
(* (rt:{token} in Redis) and the version counter user_perm_ver:{biz_id}    *)
(* that the gateway compares with a token's version.                       *)
(*                                                                         *)
(* A request is a coroutine that touches Redis one command at a time; each *)
(* action below is the stretch of one handler up to and including one      *)
(* command, so requests interleave exactly at the awaits.  Password checks *)
(* and the login audit are upstream of this module: a login enters it once *)
(* its credential was accepted.                                            *)
(***************************************************************************)
EXTENDS Integers, FiniteSets, RedisKeys

CONSTANTS
    Req,        \* handler slots: the requests that may be in flight together
    RT,         \* refresh token strings; each is generated at most once
    Account,    \* credentials, of any account type
    Biz,        \* business ids
    BizOf,      \* the business id of an account; types may share one
    Sliding,    \* the accounts of type consumer
    None,       \* no token, no account
    AccessTTL,  \* ticks an access token is valid (2 h)
    VerTTL,     \* ticks user_perm_ver lives after it is set (24 h)
    RtTTL,      \* ticks a refresh token lives (30 days, both kinds)
    ReqMax,     \* ticks a handler may take
    MaxVer      \* bound: INCR is not taken beyond this version

\* An access token and the handler that mints it are gone before the counter
\* written when the handler was running expires: 2 h and some seconds < 24 h.
ASSUME TimeAssumption ==
    /\ AccessTTL \in Nat \ {0} /\ VerTTL \in Nat \ {0} /\ RtTTL \in Nat \ {0}
    /\ ReqMax \in Nat /\ MaxVer \in Nat
    /\ AccessTTL + ReqMax <= VerTTL

ASSUME AccountAssumption ==
    /\ BizOf \in [Account -> Biz]
    /\ Sliding \subseteq Account
    /\ None \notin Account /\ None \notin RT

VARIABLES
    ver,        \* user_perm_ver:{biz_id}
    rts,        \* rt:{token}, with the history of each token
    tokens,     \* the unexpired access tokens that were issued
    req         \* where each handler stands, and its locals

vars == <<ver, rts, tokens, req>>

Opt(S) == S \cup {None}

Replies == -2..RtTTL

Fixed == Account \ Sliding

(***************************************************************************)
(* `window' (what is left of the period that began at the login), `drift'  *)
(* (ticks the chain spent inside exchanges) and `late' (some exchange read *)
(* a TTL of 0) are history: no handler reads them.  So are `parent', and   *)
(* `revoked' of an access token: "asked" once a logout of its business id  *)
(* has raised the counter, "claimed" when that is done, and "sound" if     *)
(* Superseded held then.                                                   *)
(***************************************************************************)
RefreshToken ==
    [st : {"unborn", "live", "gone"}, acct : Opt(Account), ttl : Ticks(RtTTL),
     window : Ticks(RtTTL), drift : Nat, late : BOOLEAN, parent : Opt(RT)]

AccessToken ==
    [acct : Account, ver : Nat, left : 1..AccessTTL,
     revoked : {"no", "asked", "claimed", "sound"}]

Request ==
    [pc : {"idle", "getver", "initver", "store", "xget", "xdel", "expire", "lodel"},
     acct : Opt(Account), rt : Opt(RT), ver : Nat, reply : Replies,
     window : Ticks(RtTTL), drift : Nat, late : BOOLEAN, age : Ticks(ReqMax), stale : BOOLEAN]

Unborn == [st |-> "unborn", acct |-> None, ttl |-> 0, window |-> 0, drift |-> 0,
           late |-> FALSE, parent |-> None]

Idle == [pc |-> "idle", acct |-> None, rt |-> None, ver |-> 0, reply |-> 0, window |-> 0,
         drift |-> 0, late |-> FALSE, age |-> 0, stale |-> FALSE]

\* Types; a refresh token is in Redis exactly while it has time left, and has
\* an account once it was issued.
TypeOK ==
    /\ ver \in [Biz -> Entry(Nat, Ticks(VerTTL))]
    /\ rts \in [RT -> RefreshToken]
    /\ tokens \subseteq AccessToken
    /\ req \in [Req -> Request]
    /\ \A i \in RT : /\ rts[i].st = "live" <=> rts[i].ttl > 0
                     /\ rts[i].st = "unborn" <=> rts[i].acct = None

Init ==
    /\ ver = [b \in Biz |-> Missing]
    /\ rts = [i \in RT |-> Unborn]
    /\ tokens = {}
    /\ req = [r \in Req |-> Idle]

KeyOf(r) == BizOf[req[r].acct]

\* The refresh tokens some client has been given, live or not.
HandedOut == {i \in RT : rts[i].st # "unborn"}

\* The gateway's version check of an unexpired token (user_status and the
\* permission cache are AccessControl's).  A missing counter accepts.
Accepts(a) ==
    LET key == ver[BizOf[a.acct]] IN Live(key) => key.val = a.ver

\* A handler stops where it stands: the process dies or the client is gone.
Crash(r) ==
    /\ req[r].pc # "idle"
    /\ req' = [req EXCEPT ![r] = Idle]
    /\ UNCHANGED <<ver, rts, tokens>>

----------------------------------------------------------------------------
(* The version counter, read by every login and every exchange.            *)

\* GET user_perm_ver:{biz_id}: where handler q goes on.
ReadVersion(q) ==
    LET key == ver[BizOf[q.acct]] IN
    IF Live(key) THEN [q EXCEPT !.pc = "store", !.ver = key.val]
                 ELSE [q EXCEPT !.pc = "initver"]

\* SET user_perm_ver:{biz_id} 0 EX 24h, a command later than the GET.
InitVersion(r) ==
    /\ req[r].pc = "initver"
    /\ ver' = [ver EXCEPT ![KeyOf(r)] = SetEx(0, VerTTL)]
    /\ req' = [req EXCEPT ![r].pc = "store"]
    /\ UNCHANGED <<rts, tokens>>

----------------------------------------------------------------------------
(* Issuing tokens.                                                         *)

\* Mutant of StoredTtl: every token gets a whole period.
StoredTtl_AlwaysWhole(a, fixed) == RtTTL

\* The expiry _store_refresh_token gives a token of account a.
StoredTtl(a, fixed) == IF a \in Sliding THEN RtTTL ELSE fixed

\* Mutant of KeptTtl: no fallback.
KeptTtl_Unchecked(reply) == reply

\* What an exchange asks for: the remaining time, or a whole period when the
\* TTL command answered nothing positive.
KeptTtl(reply) == IF reply > 0 THEN reply ELSE RtTTL

Minted(q) == [acct |-> q.acct, ver |-> q.ver, left |-> AccessTTL,
              revoked |-> IF q.stale THEN "sound" ELSE "no"]

\* create_access_token, then SET rt:{new} EX ttl; the response follows.
Issue(r, i, token) ==
    /\ rts[i].st = "unborn"
    /\ rts' = [rts EXCEPT ![i] = token]
    /\ tokens' = tokens \cup {Minted(req[r])}
    /\ req' = [req EXCEPT ![r] = Idle]
    /\ UNCHANGED ver

\* A login whose credential was accepted reads the version first.
LoginVersion(r, a) ==
    /\ req[r].pc = "idle"
    /\ req' = [req EXCEPT ![r] = ReadVersion([Idle EXCEPT !.acct = a])]
    /\ UNCHANGED <<ver, rts, tokens>>

LoginStore(r, i) ==
    /\ req[r].pc = "store" /\ req[r].rt = None
    /\ Issue(r, i, [st |-> "live", acct |-> req[r].acct,
                    ttl |-> StoredTtl(req[r].acct, RtTTL), window |-> RtTTL,
                    drift |-> 0, late |-> FALSE, parent |-> None])

----------------------------------------------------------------------------
(* Exchanging a refresh token: TTL, GET, DELETE, the version, SET.         *)

\* TTL rt:{i}.  The client presents any token it was ever given.
ExchangeTtl(r, i) ==
    /\ req[r].pc = "idle"
    /\ i \in HandedOut
    /\ \E reply \in TtlReplies(rts[i].ttl) :
         req' = [req EXCEPT ![r] = [Idle EXCEPT !.pc = "xget", !.rt = i, !.reply = reply,
                                        !.window = rts[i].window, !.drift = rts[i].drift,
                                        !.late = rts[i].late \/ reply <= 0]]
    /\ UNCHANGED <<ver, rts, tokens>>

\* GET rt:{i}; nil answers 401.
ExchangeGet(r) ==
    LET t == rts[req[r].rt] IN
    /\ req[r].pc = "xget"
    /\ req' = [req EXCEPT ![r] = IF t.st = "live" THEN [@ EXCEPT !.pc = "xdel", !.acct = t.acct]
                                                  ELSE Idle]
    /\ UNCHANGED <<ver, rts, tokens>>

Gone(t) == [t EXCEPT !.st = "gone", !.ttl = 0, !.window = 0, !.drift = 0, !.late = FALSE]

\* Mutant of ExchangeDelete: the old token stays.
ExchangeDelete_Keeps(r) ==
    /\ req[r].pc = "xdel"
    /\ req' = [req EXCEPT ![r].pc = "getver"]
    /\ UNCHANGED <<ver, rts, tokens>>

\* DEL rt:{i}, whatever another request did to the key since the GET.
ExchangeDelete(r) ==
    /\ req[r].pc = "xdel"
    /\ rts' = [rts EXCEPT ![req[r].rt] = Gone(@)]
    /\ req' = [req EXCEPT ![r].pc = "getver"]
    /\ UNCHANGED <<ver, tokens>>

ExchangeVersion(r) ==
    /\ req[r].pc = "getver"
    /\ req' = [req EXCEPT ![r] = ReadVersion(@)]
    /\ UNCHANGED <<ver, rts, tokens>>

ExchangeStore(r, i) ==
    LET q == req[r]
        slides == q.acct \in Sliding IN
    /\ q.pc = "store" /\ q.rt # None
    /\ Issue(r, i, [st |-> "live", acct |-> q.acct, ttl |-> StoredTtl(q.acct, KeptTtl(q.reply)),
                    window |-> IF slides THEN RtTTL ELSE q.window,
                    drift |-> IF slides THEN 0 ELSE q.drift + q.age,
                    late |-> ~slides /\ q.late, parent |-> q.rt])

----------------------------------------------------------------------------
(* Logging out: INCR, EXPIRE, and DELETE when the client names its token.  *)

Ask(a, b) == IF BizOf[a.acct] = b /\ a.revoked = "no"
             THEN [a EXCEPT !.revoked = "asked"] ELSE a

\* INCR user_perm_ver:{biz_id}, for a token with a good signature and expiry.
LogoutIncr(r, a, i) ==
    LET b == BizOf[a.acct] IN
    /\ req[r].pc = "idle"
    /\ a \in tokens
    /\ ver[b].val < MaxVer
    /\ ver' = [ver EXCEPT ![b] = Incr(@)]
    /\ tokens' = {Ask(x, b) : x \in tokens}
    /\ req' = [req EXCEPT ![r] = [Idle EXCEPT !.pc = "expire", !.acct = a.acct, !.rt = i]]
    /\ UNCHANGED rts

\* Holds of a version v of business id b when the counter is there, beyond v,
\* and no handler that found it missing is still to write its 0.
Superseded(b, v) ==
    /\ Live(ver[b]) /\ v < ver[b].val
    /\ \A r \in Req : req[r].pc = "initver" => KeyOf(r) # b

MarkToken(a, b) ==
    IF BizOf[a.acct] = b /\ Superseded(b, a.ver) THEN [a EXCEPT !.revoked = "sound"]
    ELSE IF BizOf[a.acct] = b /\ a.revoked = "asked" THEN [a EXCEPT !.revoked = "claimed"]
    ELSE a

\* A handler that has read its version and not yet minted its token.
MarkRequest(q, b) ==
    IF q.pc = "store" /\ BizOf[q.acct] = b /\ Superseded(b, q.ver)
    THEN [q EXCEPT !.stale = TRUE] ELSE q

\* Mutant of Prolonged: the EXPIRE is left out.
Prolonged_Not(key) == key

\* EXPIRE user_perm_ver:{biz_id} 24h
Prolonged(key) == Expire(key, VerTTL)

LogoutExpire(r) ==
    LET b == KeyOf(r) IN
    /\ req[r].pc = "expire"
    /\ ver' = [ver EXCEPT ![b] = Prolonged(@)]
    /\ tokens' = {MarkToken(a, b) : a \in tokens}
    /\ req' = [x \in Req |->
                 IF x # r THEN MarkRequest(req[x], b)
                 ELSE IF req[r].rt = None THEN Idle ELSE [req[r] EXCEPT !.pc = "lodel"]]
    /\ UNCHANGED rts

\* DEL rt:{refresh_token}
LogoutDelete(r) ==
    /\ req[r].pc = "lodel"
    /\ rts' = [rts EXCEPT ![req[r].rt] = Gone(@)]
    /\ req' = [req EXCEPT ![r] = Idle]
    /\ UNCHANGED <<ver, tokens>>

----------------------------------------------------------------------------
(* Time.                                                                   *)

Less(n) == IF n > 0 THEN n - 1 ELSE 0

ElapseRefresh(t) ==
    IF t.st # "live" THEN t
    ELSE IF t.ttl > 1 THEN [t EXCEPT !.ttl = @ - 1, !.window = Less(@)]
    ELSE Gone(t)

ElapseRequest(q) ==
    IF q.pc = "idle" THEN q ELSE [q EXCEPT !.age = @ + 1, !.window = Less(@)]

\* No handler outlives ReqMax: its upstream calls time out after 5 s.
Tick ==
    /\ \A r \in Req : req[r].pc = "idle" \/ req[r].age < ReqMax
    /\ ver' = [b \in Biz |-> Elapse(ver[b])]
    /\ rts' = [i \in RT |-> ElapseRefresh(rts[i])]
    /\ tokens' = {[a EXCEPT !.left = @ - 1] : a \in {x \in tokens : x.left > 1}}
    /\ req' = [r \in Req |-> ElapseRequest(req[r])]

RequestStep(r) ==
    \/ \E a \in Account : LoginVersion(r, a)
    \/ \E i \in RT : LoginStore(r, i)
    \/ InitVersion(r)
    \/ \E i \in RT : ExchangeTtl(r, i)
    \/ ExchangeGet(r)
    \/ ExchangeDelete(r)
    \/ ExchangeVersion(r)
    \/ \E i \in RT : ExchangeStore(r, i)
    \/ \E a \in tokens, i \in Opt(HandedOut) : LogoutIncr(r, a, i)
    \/ LogoutExpire(r)
    \/ LogoutDelete(r)
    \/ Crash(r)

Next == Tick \/ \E r \in Req : RequestStep(r)

Spec == Init /\ [][Next]_vars

----------------------------------------------------------------------------
(* Properties.                                                             *)

\* logout_token raises the counter so that the gateway refuses what was issued
\* before.  Where the counter was there and nobody was about to reset it, the
\* refusal lasts until the token expires by itself, whatever logins, exchanges,
\* logouts and crashes follow; and it also covers the tokens of handlers that
\* had read the old version and were still running.
SoundLogoutSticks == \A a \in tokens : a.revoked = "sound" => ~Accepts(a)

\* exchange_refresh_token keeps a fixed window: a refresh token of a chain never
\* outlives the period opened by the chain's login by more than the time the
\* chain's exchanges were in flight (the TTL is read before the SET), unless an
\* exchange was served in its token's last half second (`late').
WindowKept ==
    \A i \in RT : rts[i].st = "live" /\ rts[i].acct \in Fixed /\ ~rts[i].late
                    => rts[i].ttl <= rts[i].window + rts[i].drift

\* An exchange that answers has already deleted the token it was given: a
\* client that retries with it, or a second holder, finds nothing.
RotatedParentGone ==
    \A i \in RT : rts[i].parent # None => rts[rts[i].parent].st = "gone"

\* The API reference says of a logout that every access token issued so far is
\* invalid at once (docs/src/content/docs/03-api-reference/auth.md:215).
LogoutInvalidates == \A a \in tokens : a.revoked \in {"claimed", "sound"} => ~Accepts(a)

\* exchange_refresh_token calls its DELETE a "rotation -- one-time use": a
\* refresh token buys one successor.
RotationOneTime ==
    \A i, j \in RT : i # j /\ rts[i].parent # None => rts[i].parent # rts[j].parent
=============================================================================
