-------------------------- MODULE AuthTokens_proofs --------------------------
(***************************************************************************)
(* What holds of the tokens that are out there, for every number of        *)
(* handlers, accounts and tokens and all periods that TimeAssumption       *)
(* allows: a logout that found the counter in place, with nobody about to  *)
(* reset it, is final (SoundLogoutSticks), and a chain of refresh tokens   *)
(* keeps to its fixed window (WindowKept).                                 *)
(***************************************************************************)
EXTENDS AuthSession_proofs

----------------------------------------------------------------------------
(* SoundLogoutSticks.                                                      *)

\* The counter e is beyond version n and will be there for h more ticks.
Ahead(e, n, h) == Live(e) /\ n < e.val /\ (e.keep \/ h <= e.ttl)

\* Handler q is not about to reset the counter of business id b.
Quiet(q, b) == q.pc = "initver" => BizOf[q.acct] # b

\* With counters v and handlers m, version n of b is refused for h more ticks.
Safe(v, m, b, n, h) == Ahead(v[b], n, h) /\ \A r \in Req : Quiet(m[r], b)

SoundToken(v, m, a) == a.revoked = "sound" => Safe(v, m, BizOf[a.acct], a.ver, a.left)

\* What is left of a running handler, and then the life of its access token.
Horizon(q) == ReqMax - q.age + AccessTTL

SoundRequest(v, m, q) ==
    q.stale => q.pc = "store" /\ Safe(v, m, BizOf[q.acct], q.ver, Horizon(q))

SoundInv == /\ TypeInv
            /\ \A a \in tokens : SoundToken(ver, req, a)
            /\ \A r \in Req : SoundRequest(ver, req, req[r])

\* A step that lets no refusal lapse.
Persists ==
    \A b \in Biz, n \in Nat, h \in Nat :
        h <= VerTTL /\ Safe(ver, req, b, n, h) => Safe(ver', req', b, n, h)

LEMMA SoundInit == Init => SoundInv
  BY InitTypes DEF Init, SoundInv, SoundRequest, Idle

LEMMA TokenTypes ==
    ASSUME NEW a \in AccessToken
    PROVE  /\ BizOf[a.acct] \in Biz /\ a.ver \in Nat
           /\ a.left \in Nat /\ a.left > 0 /\ a.left <= AccessTTL /\ a.left <= VerTTL
  BY PeriodTypes, AccountAssumption DEF AccessToken

LEMMA HorizonTypes ==
    ASSUME NEW q \in Request
    PROVE  Horizon(q) \in Nat /\ AccessTTL <= Horizon(q) /\ Horizon(q) <= VerTTL
<1>1. q.age \in Ticks(ReqMax)
  BY DEF Request
<1>2. q.age \in Nat /\ q.age <= ReqMax
  BY <1>1, PeriodTypes DEF Ticks
<1> QED BY <1>2, PeriodTypes DEF Horizon

LEMMA TypeInvParts ==
    TypeInv => /\ ver \in [Biz -> Counter] /\ rts \in [RT -> RefreshToken]
               /\ tokens \subseteq AccessToken /\ req \in [Req -> Request] /\ StoreInv(rts)
               /\ \A r \in Req : Locals(req[r], rts)
  BY TypeOKParts DEF TypeInv, LocalsInv

\* A step that lets no refusal lapse keeps the invariant if what it makes sound
\* or stale, or changes of a stale handler, is refused afterwards.
LEMMA SoundKept ==
    ASSUME SoundInv, TypeInv', Persists,
           \A a \in tokens' : a \in tokens \/ SoundToken(ver', req', a),
           \A r \in Req : req'[r] = req[r] \/ SoundRequest(ver', req', req'[r])
    PROVE  SoundInv'
<1>1. ASSUME NEW a \in tokens, a.revoked = "sound" PROVE SoundToken(ver', req', a)
  <2>1. a \in AccessToken /\ Safe(ver, req, BizOf[a.acct], a.ver, a.left)
    BY <1>1, TypeInvParts DEF SoundInv, SoundToken
  <2> QED BY <2>1, TokenTypes DEF Persists, SoundToken
<1>2. ASSUME NEW r \in Req, req[r].stale PROVE SoundRequest(ver', req', req[r])
  <2>1. /\ req[r] \in Request /\ req[r].acct \in Account /\ req[r].pc = "store"
        /\ Safe(ver, req, BizOf[req[r].acct], req[r].ver, Horizon(req[r]))
    BY <1>2, TypeInvParts DEF SoundInv, SoundRequest, Locals
  <2>2. BizOf[req[r].acct] \in Biz /\ req[r].ver \in Nat
    BY <2>1, AccountAssumption DEF Request
  <2> QED BY <2>1, <2>2, HorizonTypes DEF Persists, SoundRequest
<1>3. \A a \in tokens' : SoundToken(ver', req', a)
  BY <1>1 DEF SoundToken
<1>4. \A r \in Req : SoundRequest(ver', req', req'[r])
  BY <1>2 DEF SoundRequest
<1> QED BY <1>3, <1>4 DEF SoundInv

\* A step that leaves the counters alone, and after which only handlers that
\* were already about to reset a counter, or whose counter is missing, are.
LEMMA QuietPersists ==
    ASSUME ver' = ver,
           \A r \in Req : \/ req'[r].pc # "initver"
                          \/ req'[r].pc = req[r].pc /\ req'[r].acct = req[r].acct
                          \/ ~Live(ver[BizOf[req'[r].acct]])
    PROVE  Persists
  BY DEF Persists, Safe, Ahead, Quiet

\* A handler that read the version is about to reset it only if it is missing.
LEMMA ReadVersionQuiet ==
    ASSUME NEW q \in Request, q.acct \in Account, ver \in [Biz -> Counter], ~q.stale
    PROVE  /\ ReadVersion(q).pc = "initver" => ~Live(ver[BizOf[ReadVersion(q).acct]])
           /\ ~ReadVersion(q).stale
<1> DEFINE key == ver[BizOf[q.acct]]
<1>1. CASE Live(key)
  <2>1. ReadVersion(q) = [q EXCEPT !.pc = "store", !.ver = key.val]
    BY <1>1 DEF ReadVersion
  <2> HIDE DEF key
  <2> QED BY <2>1 DEF Request
<1>2. CASE ~Live(key)
  <2>1. ReadVersion(q) = [q EXCEPT !.pc = "initver"]
    BY <1>2 DEF ReadVersion
  <2>2. ReadVersion(q).acct = q.acct /\ ReadVersion(q).stale = q.stale
    BY <2>1 DEF Request
  <2> QED BY <1>2, <2>2
<1> QED BY <1>1, <1>2

----------------------------------------------------------------------------

\* What a handler mints: the token of a stale handler is refused at once.
LEMMA IssueSound ==
    ASSUME SoundInv, TypeInv', NEW r \in Req, NEW i \in RT, NEW t, Issue(r, i, t),
           req[r].acct \in Account, req[r].pc = "store"
    PROVE  SoundInv'
<1>1. /\ req \in [Req -> Request] /\ req[r] \in Request /\ SoundRequest(ver, req, req[r])
      /\ BizOf[req[r].acct] \in Biz /\ req[r].ver \in Nat
  BY TypeInvParts, AccountAssumption DEF SoundInv, Request
<1>2. ver' = ver /\ req' = [req EXCEPT ![r] = Idle] /\ tokens' = tokens \cup {Minted(req[r])}
  BY DEF Issue
<1>3. Persists
  BY <1>1, <1>2, QuietPersists DEF Idle
<1>4. SoundToken(ver', req', Minted(req[r]))
  <2> DEFINE a == Minted(req[r])
  <2>1. SUFFICES ASSUME a.revoked = "sound"
                 PROVE  Safe(ver', req', BizOf[a.acct], a.ver, a.left)
    BY DEF SoundToken
  <2>2. a.acct = req[r].acct /\ a.ver = req[r].ver /\ a.left = AccessTTL
    BY DEF Minted
  <2>3. req[r].stale
    BY <2>1 DEF Minted
  <2>4. Safe(ver, req, BizOf[req[r].acct], req[r].ver, Horizon(req[r]))
    BY <1>1, <2>3 DEF SoundRequest
  <2>5. Safe(ver', req', BizOf[req[r].acct], req[r].ver, Horizon(req[r]))
    BY <1>1, <1>3, <2>4, HorizonTypes DEF Persists
  <2>6. ver'[BizOf[req[r].acct]] \in Counter
    BY <1>1, <1>2, TypeInvParts DEF SoundInv
  <2>7. ver'[BizOf[req[r].acct]].ttl \in Ticks(VerTTL)
    BY <2>6 DEF Counter, Entry
  <2>8. ver'[BizOf[req[r].acct]].ttl \in Nat
    BY <2>7, PeriodTypes, TickTypes
  <2> QED BY <1>1, <2>2, <2>5, <2>8, HorizonTypes, PeriodTypes DEF Safe, Ahead
<1>5. \A x \in Req : req'[x] = req[x] \/ SoundRequest(ver', req', req'[x])
  BY <1>1, <1>2 DEF SoundRequest, Idle
<1> QED BY <1>2, <1>3, <1>4, <1>5, SoundKept

\* A step of handler r to q that leaves the counters and access tokens alone.
LEMMA HandlerSound ==
    ASSUME SoundInv, TypeInv', UNCHANGED <<ver, tokens>>, NEW r \in Req, NEW q,
           req' = [req EXCEPT ![r] = q], ~q.stale,
           q.pc = "initver" => ~Live(ver[BizOf[q.acct]])
    PROVE  SoundInv'
<1>1. req \in [Req -> Request]
  BY TypeInvParts DEF SoundInv
<1>2. Persists
  BY <1>1, QuietPersists
<1>3. \A x \in Req : req'[x] = req[x] \/ SoundRequest(ver', req', req'[x])
  BY <1>1 DEF SoundRequest
<1> QED BY <1>2, <1>3, SoundKept

LEMMA InitVersionSound ==
    ASSUME SoundInv, TypeInv', NEW r \in Req, InitVersion(r)
    PROVE  SoundInv'
<1> DEFINE q == [req[r] EXCEPT !.pc = "store"]
<1>1. /\ req \in [Req -> Request] /\ req[r] \in Request /\ ver \in [Biz -> Counter]
      /\ SoundRequest(ver, req, req[r])
  BY TypeInvParts DEF SoundInv
<1>2. /\ req[r].pc = "initver" /\ req' = [req EXCEPT ![r] = q] /\ tokens' = tokens
      /\ \A b \in Biz : b # BizOf[req[r].acct] => ver'[b] = ver[b]
  BY <1>1 DEF InitVersion, KeyOf
<1>3. q.pc = "store" /\ ~q.stale
  BY <1>1, <1>2 DEF SoundRequest, Request
<1> HIDE DEF q
<1>4. Persists
  <2> SUFFICES ASSUME NEW b \in Biz, NEW n \in Nat, NEW h \in Nat, Safe(ver, req, b, n, h)
               PROVE  Safe(ver', req', b, n, h)
    BY DEF Persists
  <2>1. b # BizOf[req[r].acct]
    BY <1>2 DEF Safe, Quiet
  <2>2. ver'[b] = ver[b]
    BY <1>2, <2>1
  <2>3. \A x \in Req : Quiet(req'[x], b)
    BY <1>1, <1>2, <1>3 DEF Safe, Quiet
  <2> QED BY <2>2, <2>3 DEF Safe
<1>5. \A x \in Req : req'[x] = req[x] \/ SoundRequest(ver', req', req'[x])
  BY <1>1, <1>2, <1>3 DEF SoundRequest
<1> QED BY <1>2, <1>4, <1>5, SoundKept

LEMMA LogoutIncrSound ==
    ASSUME SoundInv, TypeInv', NEW r \in Req, NEW a \in tokens, NEW i, LogoutIncr(r, a, i)
    PROVE  SoundInv'
<1> DEFINE c == BizOf[a.acct]
           q == [Idle EXCEPT !.pc = "expire", !.acct = a.acct, !.rt = i]
<1>1. /\ req \in [Req -> Request] /\ ver \in [Biz -> Counter] /\ tokens \subseteq AccessToken
      /\ c \in Biz
  BY TypeInvParts, TokenTypes DEF SoundInv
<1>2. /\ ver' = [ver EXCEPT ![c] = Incr(ver[c])] /\ tokens' = {Ask(x, c) : x \in tokens}
      /\ req' = [req EXCEPT ![r] = q]
  BY <1>1 DEF LogoutIncr
<1>3. q.pc = "expire" /\ ~q.stale
  BY DEF Idle
<1> HIDE DEF c, q
<1>4. Persists
  <2> SUFFICES ASSUME NEW b \in Biz, NEW n \in Nat, NEW h \in Nat, Safe(ver, req, b, n, h)
               PROVE  Safe(ver', req', b, n, h)
    BY DEF Persists
  <2>1. Ahead(ver[b], n, h) /\ ver[b] \in Counter
    BY <1>1 DEF Safe
  <2>2. CASE b = c
    <3>1. ver'[b] = [ver[b] EXCEPT !.val = ver[b].val + 1]
      BY <1>1, <1>2, <2>1, <2>2 DEF Incr, Ahead, Counter, Entry
    <3>2. /\ ver'[b].val = ver[b].val + 1 /\ ver'[b].keep = ver[b].keep
          /\ ver'[b].ttl = ver[b].ttl /\ ver[b].val \in Nat
      BY <2>1, <3>1 DEF Counter, Entry
    <3>3. Ahead(ver'[b], n, h)
      BY <2>1, <3>2 DEF Ahead, Live
    <3>4. \A x \in Req : Quiet(req'[x], b)
      BY <1>1, <1>2, <1>3 DEF Safe, Quiet
    <3> QED BY <3>3, <3>4 DEF Safe
  <2>3. CASE b # c
    BY <1>1, <1>2, <1>3, <2>3 DEF Safe, Quiet
  <2> QED BY <2>2, <2>3
<1>5. ASSUME NEW x \in tokens' PROVE x \in tokens \/ SoundToken(ver', req', x)
  <2>1. PICK y \in tokens : x = Ask(y, c)
    BY <1>2
  <2>2. x = y \/ x = [y EXCEPT !.revoked = "asked"]
    BY <2>1 DEF Ask
  <2> QED BY <1>1, <2>2 DEF AccessToken, SoundToken
<1>6. \A x \in Req : req'[x] = req[x] \/ SoundRequest(ver', req', req'[x])
  BY <1>1, <1>2, <1>3 DEF SoundRequest
<1> QED BY <1>4, <1>5, <1>6, SoundKept

\* EXPIRE on a counter that is there gives it a whole period.
LEMMA ProlongedAhead ==
    ASSUME NEW e \in Counter, NEW n \in Nat, NEW h \in Nat, h <= VerTTL, Live(e), n < e.val
    PROVE  Ahead(Prolonged(e), n, h)
  BY PeriodTypes DEF Ahead, Prolonged, Expire, SetEx, Live

LEMMA LogoutExpireSound ==
    ASSUME SoundInv, TypeInv', NEW r \in Req, LogoutExpire(r)
    PROVE  SoundInv'
<1> DEFINE c == KeyOf(r)
<1>1. /\ req \in [Req -> Request] /\ ver \in [Biz -> Counter] /\ tokens \subseteq AccessToken
      /\ req[r] \in Request /\ req[r].pc = "expire" /\ req[r].acct \in Account
      /\ SoundRequest(ver, req, req[r])
  BY TypeInvParts DEF SoundInv, LogoutExpire, Locals
<1>2. c \in Biz
  BY <1>1, AccountAssumption DEF KeyOf
<1>3. /\ ver' = [ver EXCEPT ![c] = Prolonged(ver[c])]
      /\ tokens' = {MarkToken(a, c) : a \in tokens}
      /\ req' = [x \in Req |->
                   IF x # r THEN MarkRequest(req[x], c)
                   ELSE IF req[r].rt = None THEN Idle ELSE [req[r] EXCEPT !.pc = "lodel"]]
  BY <1>1 DEF LogoutExpire
<1> HIDE DEF c
<1>4. req'[r].pc # "initver" /\ ~req'[r].stale
  <2>1. ~req[r].stale
    BY <1>1 DEF SoundRequest
  <2>2. req'[r] = Idle \/ req'[r] = [req[r] EXCEPT !.pc = "lodel"]
    BY <1>3
  <2> QED BY <1>1, <2>1, <2>2 DEF Idle, Request
<1>5. ASSUME NEW x \in Req, x # r
      PROVE  req'[x] = req[x] \/ /\ req'[x] = [req[x] EXCEPT !.stale = TRUE]
                                 /\ req[x].pc = "store" /\ BizOf[req[x].acct] = c
                                 /\ Superseded(c, req[x].ver)
  BY <1>3, <1>5 DEF MarkRequest
<1>6. ASSUME NEW x \in Req
      PROVE  req'[x].pc = "initver" => req[x].pc = "initver" /\ req'[x].acct = req[x].acct
  <2>1. req[x] \in Request
    BY <1>1
  <2> QED BY <1>4, <1>5, <2>1 DEF Request
<1>7. ASSUME NEW b \in Biz, \A x \in Req : Quiet(req[x], b)
      PROVE  \A x \in Req : Quiet(req'[x], b)
  BY <1>6, <1>7 DEF Quiet
<1>8. Persists
  <2> SUFFICES ASSUME NEW b \in Biz, NEW n \in Nat, NEW h \in Nat, h <= VerTTL,
                      Safe(ver, req, b, n, h)
               PROVE  Safe(ver', req', b, n, h)
    BY DEF Persists
  <2>1. Ahead(ver[b], n, h) /\ \A x \in Req : Quiet(req'[x], b)
    BY <1>7 DEF Safe
  <2>2. CASE b = c
    BY <1>1, <1>2, <1>3, <2>1, <2>2, ProlongedAhead DEF Safe, Ahead
  <2>3. CASE b # c
    BY <1>1, <1>2, <1>3, <2>1, <2>3 DEF Safe
  <2> QED BY <2>2, <2>3
\* What Superseded says makes the refusal last for any horizon within a period.
<1>9. ASSUME NEW n \in Nat, NEW h \in Nat, h <= VerTTL, Superseded(c, n)
      PROVE  Safe(ver', req', c, n, h)
  <2>1. Live(ver[c]) /\ n < ver[c].val /\ \A x \in Req : Quiet(req[x], c)
    BY <1>9 DEF Superseded, Quiet, KeyOf
  <2>2. Ahead(ver'[c], n, h)
    BY <1>1, <1>2, <1>3, <1>9, <2>1, ProlongedAhead
  <2> QED BY <1>2, <1>7, <2>1, <2>2 DEF Safe
<1>10. ASSUME NEW x \in tokens' PROVE x \in tokens \/ SoundToken(ver', req', x)
  <2>1. PICK y \in tokens : x = MarkToken(y, c)
    BY <1>3
  <2>2. y \in AccessToken
    BY <1>1
  <2>3. CASE BizOf[y.acct] = c /\ Superseded(c, y.ver)
    <3>1. x = [y EXCEPT !.revoked = "sound"]
      BY <2>1, <2>3 DEF MarkToken
    <3>2. x.acct = y.acct /\ x.ver = y.ver /\ x.left = y.left
      BY <2>2, <3>1 DEF AccessToken
    <3> QED BY <1>9, <2>2, <2>3, <3>2, TokenTypes DEF SoundToken
  <2>4. CASE ~(BizOf[y.acct] = c /\ Superseded(c, y.ver))
    <3>1. x = y \/ x = [y EXCEPT !.revoked = "claimed"]
      BY <2>1, <2>4 DEF MarkToken
    <3> QED BY <2>2, <3>1 DEF AccessToken, SoundToken
  <2> QED BY <2>3, <2>4
<1>11. ASSUME NEW x \in Req PROVE req'[x] = req[x] \/ SoundRequest(ver', req', req'[x])
  <2>1. CASE x = r
    BY <1>4, <2>1 DEF SoundRequest
  <2>2. CASE x # r /\ req'[x] # req[x]
    <3>1. /\ req'[x] = [req[x] EXCEPT !.stale = TRUE] /\ req[x] \in Request
          /\ req[x].pc = "store" /\ BizOf[req[x].acct] = c /\ Superseded(c, req[x].ver)
      BY <1>1, <1>5, <2>2
    <3>2. /\ req'[x].pc = "store" /\ req'[x].acct = req[x].acct /\ req'[x].ver = req[x].ver
          /\ req'[x].age = req[x].age /\ req[x].ver \in Nat
      BY <3>1 DEF Request
    <3>3. Horizon(req'[x]) = Horizon(req[x])
      BY <3>2 DEF Horizon
    <3> QED BY <1>9, <3>1, <3>2, <3>3, HorizonTypes DEF SoundRequest
  <2> QED BY <2>1, <2>2
<1> QED BY <1>8, <1>10, <1>11, SoundKept

\* Over a tick the horizons of what is refused shrink with the counters' time.
LEMMA ElapseAhead ==
    ASSUME NEW e \in Counter, NEW n, NEW h \in Nat, Ahead(e, n, h), h > 1
    PROVE  Ahead(Elapse(e), n, h - 1)
<1>1. e.ttl \in Ticks(VerTTL)
  BY DEF Counter, Entry
<1>2. e.ttl \in Nat
  BY <1>1, PeriodTypes, TickTypes
<1>3. CASE e.keep
  BY <1>3 DEF Elapse, Ahead
<1>4. CASE ~e.keep
  <2>1. e.ttl > 1
    BY <1>2, <1>4 DEF Ahead
  <2>2. Elapse(e) = [e EXCEPT !.ttl = e.ttl - 1]
    BY <1>4, <2>1 DEF Elapse
  <2>3. /\ Elapse(e).ttl = e.ttl - 1 /\ Elapse(e).val = e.val
    BY <2>2 DEF Counter, Entry
  <2> QED BY <1>2, <1>4, <2>1, <2>3 DEF Ahead, Live
<1> QED BY <1>3, <1>4

LEMMA TickSound ==
    ASSUME SoundInv, TypeInv', Tick
    PROVE  SoundInv'
<1>1. /\ ver' = [b \in Biz |-> Elapse(ver[b])]
      /\ tokens' = {[a EXCEPT !.left = @ - 1] : a \in {x \in tokens : x.left > 1}}
      /\ req' = [r \in Req |-> ElapseRequest(req[r])]
      /\ \A r \in Req : req[r].pc = "idle" \/ req[r].age < ReqMax
  BY DEF Tick
<1>2. ver \in [Biz -> Counter] /\ req \in [Req -> Request] /\ tokens \subseteq AccessToken
  BY TypeInvParts DEF SoundInv
<1>3. ASSUME NEW r \in Req
      PROVE  /\ req'[r].pc = req[r].pc /\ req'[r].acct = req[r].acct /\ req'[r].ver = req[r].ver
             /\ req'[r].stale = req[r].stale
             /\ req[r].pc # "idle" => req'[r].age = req[r].age + 1
  BY <1>1, <1>2 DEF ElapseRequest, Request
<1>4. ASSUME NEW b \in Biz, NEW n, NEW h \in Nat, h > 1, Safe(ver, req, b, n, h)
      PROVE  Safe(ver', req', b, n, h - 1)
  <2>1. Ahead(ver'[b], n, h - 1)
    BY <1>1, <1>2, <1>4, ElapseAhead DEF Safe
  <2>2. \A r \in Req : Quiet(req'[r], b)
    BY <1>3, <1>4 DEF Safe, Quiet
  <2> QED BY <2>1, <2>2 DEF Safe
<1>5. ASSUME NEW a \in tokens' PROVE SoundToken(ver', req', a)
  <2>1. PICK y \in tokens : y.left > 1 /\ a = [y EXCEPT !.left = y.left - 1]
    BY <1>1
  <2>2. y \in AccessToken /\ SoundToken(ver, req, y)
    BY <1>2 DEF SoundInv
  <2>3. a.acct = y.acct /\ a.ver = y.ver /\ a.revoked = y.revoked /\ a.left = y.left - 1
    BY <2>1, <2>2 DEF AccessToken
  <2> QED BY <1>4, <2>1, <2>2, <2>3, TokenTypes DEF SoundToken
<1>6. ASSUME NEW r \in Req PROVE SoundRequest(ver', req', req'[r])
  <2> SUFFICES ASSUME req'[r].stale
               PROVE  /\ req'[r].pc = "store"
                      /\ Safe(ver', req', BizOf[req'[r].acct], req'[r].ver, Horizon(req'[r]))
    BY DEF SoundRequest
  <2>1. /\ req[r] \in Request /\ req[r].pc = "store" /\ req[r].acct \in Account
        /\ Safe(ver, req, BizOf[req[r].acct], req[r].ver, Horizon(req[r]))
    BY <1>3, TypeInvParts DEF SoundInv, SoundRequest, Locals
  <2>2. BizOf[req[r].acct] \in Biz /\ req[r].age \in Ticks(ReqMax) /\ req[r].age < ReqMax
    BY <1>1, <2>1, AccountAssumption DEF Request
  <2>3. req[r].age \in Nat
    BY <2>2, PeriodTypes, TickTypes
  <2>4. Horizon(req[r]) \in Nat /\ Horizon(req[r]) > 1 /\ Horizon(req'[r]) = Horizon(req[r]) - 1
    BY <1>3, <2>1, <2>2, <2>3, PeriodTypes DEF Horizon
  <2> QED BY <1>3, <1>4, <2>1, <2>2, <2>4
<1> QED BY <1>5, <1>6 DEF SoundInv

LEMMA IdleSound == ~Idle.stale /\ Idle.pc = "idle"
  BY DEF Idle

LEMMA NextSound ==
    ASSUME SoundInv, [Next]_vars
    PROVE  SoundInv'
<1>1. TypeInv'
  BY NextTypes DEF SoundInv
<1>2. /\ ver \in [Biz -> Counter] /\ req \in [Req -> Request]
  BY TypeInvParts DEF SoundInv
<1>3. ASSUME NEW r \in Req
      PROVE  req[r] \in Request /\ Locals(req[r], rts) /\ (req[r].pc # "store" => ~req[r].stale)
  BY TypeInvParts DEF SoundInv, SoundRequest
<1>4. CASE UNCHANGED vars
  BY <1>1, <1>4 DEF vars, SoundInv
<1>5. CASE Tick
  BY <1>1, <1>5, TickSound
<1>6. ASSUME NEW r \in Req, NEW a \in Account, LoginVersion(r, a) PROVE SoundInv'
  <2> DEFINE q == [Idle EXCEPT !.acct = a]
  <2>1. q \in Request /\ q.acct = a /\ ~q.stale
    BY PeriodTypes, OptTypes DEF Idle, Request
  <2>2. req' = [req EXCEPT ![r] = ReadVersion(q)] /\ UNCHANGED <<ver, tokens>>
    BY <1>6 DEF LoginVersion
  <2> HIDE DEF q
  <2> QED BY <1>1, <1>2, <2>1, <2>2, ReadVersionQuiet, HandlerSound
<1>7. ASSUME NEW r \in Req, NEW i \in RT, LoginStore(r, i) PROVE SoundInv'
  BY <1>1, <1>3, <1>7, IssueSound DEF LoginStore, Locals
<1>8. ASSUME NEW r \in Req, NEW i \in RT, ExchangeTtl(r, i) PROVE SoundInv'
  <2>1. PICK reply \in TtlReplies(rts[i].ttl) :
          req' = [req EXCEPT ![r] = [Idle EXCEPT !.pc = "xget", !.rt = i, !.reply = reply,
                                        !.window = rts[i].window, !.drift = rts[i].drift,
                                        !.late = rts[i].late \/ reply <= 0]]
    BY <1>8 DEF ExchangeTtl
  <2> DEFINE q == [Idle EXCEPT !.pc = "xget", !.rt = i, !.reply = reply,
                       !.window = rts[i].window, !.drift = rts[i].drift,
                       !.late = rts[i].late \/ reply <= 0]
  <2>2. ~q.stale /\ q.pc = "xget"
    BY DEF Idle
  <2>3. req' = [req EXCEPT ![r] = q]
    BY <2>1
  <2> HIDE DEF q
  <2> QED BY <1>1, <1>8, <2>2, <2>3, HandlerSound DEF ExchangeTtl
<1>9. ASSUME NEW r \in Req, ExchangeGet(r) PROVE SoundInv'
  <2> DEFINE t == rts[req[r].rt]
             q == IF t.st = "live" THEN [req[r] EXCEPT !.pc = "xdel", !.acct = t.acct] ELSE Idle
  <2>1. req' = [req EXCEPT ![r] = q]
    BY <1>2, <1>9 DEF ExchangeGet
  <2>2. ~q.stale /\ q.pc # "initver"
    BY <1>3, <1>9 DEF ExchangeGet, Idle, Request
  <2> HIDE DEF q
  <2> QED BY <1>1, <1>9, <2>1, <2>2, HandlerSound DEF ExchangeGet
<1>10. ASSUME NEW r \in Req, ExchangeDelete(r) PROVE SoundInv'
  <2> DEFINE q == [req[r] EXCEPT !.pc = "getver"]
  <2>1. req' = [req EXCEPT ![r] = q] /\ ~q.stale /\ q.pc # "initver"
    BY <1>2, <1>3, <1>10 DEF ExchangeDelete, Request
  <2> HIDE DEF q
  <2> QED BY <1>1, <1>10, <2>1, HandlerSound DEF ExchangeDelete
<1>11. ASSUME NEW r \in Req, ExchangeVersion(r) PROVE SoundInv'
  <2>1. req[r] \in Request /\ req[r].acct \in Account /\ ~req[r].stale
    BY <1>3, <1>11 DEF ExchangeVersion, Locals
  <2>2. req' = [req EXCEPT ![r] = ReadVersion(req[r])]
    BY <1>2, <1>11 DEF ExchangeVersion
  <2> QED BY <1>1, <1>2, <1>11, <2>1, <2>2, ReadVersionQuiet, HandlerSound DEF ExchangeVersion
<1>12. ASSUME NEW r \in Req, NEW i \in RT, ExchangeStore(r, i) PROVE SoundInv'
  BY <1>1, <1>3, <1>12, IssueSound DEF ExchangeStore, Locals
<1>13. ASSUME NEW r \in Req, LogoutDelete(r) PROVE SoundInv'
  BY <1>1, <1>13, IdleSound, HandlerSound DEF LogoutDelete
<1>14. ASSUME NEW r \in Req, Crash(r) PROVE SoundInv'
  BY <1>1, <1>14, IdleSound, HandlerSound DEF Crash
<1> QED BY <1>1, <1>4, <1>5, <1>6, <1>7, <1>8, <1>9, <1>10, <1>11, <1>12, <1>13, <1>14,
           InitVersionSound, LogoutIncrSound, LogoutExpireSound DEF Next, RequestStep

\* Whatever a logout has revoked stays refused, for requests in flight too
\* (logout, refresh_token).
THEOREM SoundInvariant == Spec => []SoundInv
<1>1. SoundInv /\ [Next]_vars => SoundInv'
  BY NextSound
<1> QED BY <1>1, SoundInit, PTL DEF Spec

\* A logout that found the counter in place, with nobody about to reset it, is
\* final for every access token it covers, whatever follows.
THEOREM SoundLogoutSticksHolds == Spec => []SoundLogoutSticks
<1>1. SoundInv => SoundLogoutSticks
  <2> SUFFICES ASSUME SoundInv, NEW a \in tokens, a.revoked = "sound"
               PROVE  ~Accepts(a)
    BY DEF SoundLogoutSticks
  <2>1. a \in AccessToken /\ Ahead(ver[BizOf[a.acct]], a.ver, a.left) /\ ver \in [Biz -> Counter]
    BY TypeInvParts DEF SoundInv, SoundToken, Safe
  <2>2. ver[BizOf[a.acct]].val \in Nat /\ a.ver \in Nat
    BY <2>1, TokenTypes DEF Counter, Entry
  <2> QED BY <2>1, <2>2 DEF Ahead, Accepts
<1> QED BY <1>1, SoundInvariant, PTL

----------------------------------------------------------------------------
(* WindowKept.                                                             *)

TokenInWindow(t) ==
    t.st = "live" /\ t.acct \in Fixed /\ ~t.late => t.ttl <= t.window + t.drift

\* A handler that exchanges one of the tokens s of a fixed account keeps, in
\* `reply', no more than the window left plus the time the chain was in flight.
ReplyInWindow(q, s) ==
    /\ q.pc \in {"xget", "xdel", "getver", "initver", "store"} /\ q.rt \in RT
    /\ s[q.rt].acct \in Fixed /\ ~q.late
    => q.reply > 0 /\ q.reply <= q.window + q.drift + q.age

WindowInv == /\ TypeInv
             /\ \A i \in RT : TokenInWindow(rts[i])
             /\ \A r \in Req : ReplyInWindow(req[r], rts)

LEMMA WindowInit == Init => WindowInv
  BY InitTypes DEF Init, WindowInv, TokenInWindow, ReplyInWindow, Idle, Unborn

LEMMA Parts ==
    TypeInv => /\ ver \in [Biz -> Counter] /\ rts \in [RT -> RefreshToken]
               /\ req \in [Req -> Request] /\ StoreInv(rts)
               /\ \A r \in Req : Locals(req[r], rts)
  BY TypeOKParts DEF TypeInv, LocalsInv

LEMMA TokenNumbers ==
    ASSUME NEW t \in RefreshToken
    PROVE  t.ttl \in Nat /\ t.window \in Nat /\ t.drift \in Nat /\ t.ttl \in Ticks(RtTTL)
<1>1. t.ttl \in Ticks(RtTTL) /\ t.window \in Ticks(RtTTL) /\ t.drift \in Nat
  BY DEF RefreshToken
<1> QED BY <1>1, PeriodTypes, TickTypes

LEMMA RequestNumbers ==
    ASSUME NEW q \in Request
    PROVE  q.reply \in Int /\ q.window \in Nat /\ q.drift \in Nat /\ q.age \in Nat
<1>1. /\ q.reply \in Replies /\ q.window \in Ticks(RtTTL) /\ q.drift \in Nat
      /\ q.age \in Ticks(ReqMax)
  BY DEF Request
<1>2. q.window \in Nat /\ q.age \in Nat
  BY <1>1, PeriodTypes, TickTypes
<1> QED BY <1>1, <1>2, PeriodTypes DEF Replies

\* Accounts of tokens do not change, so a handler that stands still stays in its window.
LEMMA ReplyLater ==
    ASSUME NEW s, NEW s2, Later(s, s2), NEW q, Locals(q, s), ReplyInWindow(q, s)
    PROVE  ReplyInWindow(q, s2)
  BY DEF Later, Locals, ReplyInWindow

LEMMA WindowStays ==
    ASSUME WindowInv, TypeInv', Later(rts, rts'),
           \A i \in RT : TokenInWindow(rts'[i]) \/ rts'[i] = rts[i],
           \A r \in Req : ReplyInWindow(req'[r], rts') \/ req'[r] = req[r]
    PROVE  WindowInv'
<1>1. ASSUME NEW r \in Req PROVE ReplyInWindow(req'[r], rts')
  <2>1. ReplyInWindow(req[r], rts) /\ Locals(req[r], rts)
    BY Parts DEF WindowInv
  <2> QED BY <2>1, ReplyLater
<1> QED BY <1>1 DEF WindowInv

LEMMA IdleInWindow == \A s : ReplyInWindow(Idle, s)
  BY DEF ReplyInWindow, Idle

LEMMA GoneInWindow ==
    ASSUME NEW t \in RefreshToken
    PROVE  TokenInWindow(Gone(t))
  BY GoneTypes DEF TokenInWindow

\* Reading the version changes nothing the window depends on.
LEMMA ReadVersionInWindow ==
    ASSUME NEW q \in Request, NEW s, q.acct \in Account, ver \in [Biz -> Counter],
           q.rt \in RT => q.pc = "getver" /\ ReplyInWindow(q, s)
    PROVE  ReplyInWindow(ReadVersion(q), s)
<1> DEFINE key == ver[BizOf[q.acct]]
<1>1. ReadVersion(q) = [q EXCEPT !.pc = "store", !.ver = key.val]
         \/ ReadVersion(q) = [q EXCEPT !.pc = "initver"]
  BY DEF ReadVersion
<1> HIDE DEF key
<1> QED BY <1>1 DEF ReplyInWindow, Request

LEMMA IssueInWindow ==
    ASSUME WindowInv, TypeInv', Later(rts, rts'),
           NEW r \in Req, NEW i \in RT, NEW t, Issue(r, i, t), TokenInWindow(t)
    PROVE  WindowInv'
<1>1. rts \in [RT -> RefreshToken] /\ req \in [Req -> Request]
  BY Parts DEF WindowInv
<1>2. \A j \in RT : TokenInWindow(rts'[j]) \/ rts'[j] = rts[j]
  BY <1>1 DEF Issue
<1>3. \A x \in Req : ReplyInWindow(req'[x], rts') \/ req'[x] = req[x]
  BY <1>1, IdleInWindow DEF Issue
<1> QED BY <1>2, <1>3, WindowStays

LEMMA ExchangeStoreInWindow ==
    ASSUME WindowInv, TypeInv', Later(rts, rts'), NEW r \in Req, NEW i \in RT, ExchangeStore(r, i)
    PROVE  WindowInv'
<1> DEFINE q == req[r]
           slides == q.acct \in Sliding
           t == [st |-> "live", acct |-> q.acct, ttl |-> StoredTtl(q.acct, KeptTtl(q.reply)),
                 window |-> IF slides THEN RtTTL ELSE q.window,
                 drift |-> IF slides THEN 0 ELSE q.drift + q.age,
                 late |-> ~slides /\ q.late, parent |-> q.rt]
<1>1. Issue(r, i, t) /\ q.pc = "store" /\ q.rt # None
  BY DEF ExchangeStore
<1>2. /\ q \in Request /\ Locals(q, rts) /\ ReplyInWindow(q, rts)
  BY Parts DEF WindowInv
<1>3. q.rt \in RT /\ q.acct = rts[q.rt].acct
  <2>1. q.rt \in Opt(RT)
    BY <1>2 DEF Request
  <2>2. q.rt \in RT
    BY <1>1, <2>1, OptTypes
  <2> QED BY <1>1, <1>2, <2>2 DEF Locals
<1>4. TokenInWindow(t)
  <2>1. SUFFICES ASSUME q.acct \in Fixed, ~t.late
                 PROVE  t.ttl <= t.window + t.drift
    BY DEF TokenInWindow
  <2>2. ~slides /\ ~q.late
    BY <2>1 DEF Fixed
  <2>3. q.reply > 0 /\ q.reply <= q.window + q.drift + q.age
    BY <1>1, <1>2, <1>3, <2>1, <2>2 DEF ReplyInWindow
  <2>4. t.ttl = q.reply
    BY <2>2, <2>3 DEF StoredTtl, KeptTtl
  <2>5. t.window = q.window /\ t.drift = q.drift + q.age
    BY <2>2
  <2> HIDE DEF q, t
  <2> QED BY <1>2, <2>3, <2>4, <2>5, RequestNumbers
<1> HIDE DEF t
<1> QED BY <1>1, <1>4, IssueInWindow

LEMMA ExchangeTtlInWindow ==
    ASSUME WindowInv, TypeInv', Later(rts, rts'), NEW r \in Req, NEW i \in RT, ExchangeTtl(r, i)
    PROVE  WindowInv'
<1>1. PICK reply \in TtlReplies(rts[i].ttl) :
        req' = [req EXCEPT ![r] = [Idle EXCEPT !.pc = "xget", !.rt = i, !.reply = reply,
                                      !.window = rts[i].window, !.drift = rts[i].drift,
                                      !.late = rts[i].late \/ reply <= 0]]
  BY DEF ExchangeTtl
<1> DEFINE q == [Idle EXCEPT !.pc = "xget", !.rt = i, !.reply = reply,
                     !.window = rts[i].window, !.drift = rts[i].drift,
                     !.late = rts[i].late \/ reply <= 0]
<1>2. rts' = rts /\ req' = [req EXCEPT ![r] = q]
  BY <1>1 DEF ExchangeTtl
<1>3. /\ req \in [Req -> Request] /\ rts[i] \in RefreshToken /\ Stored(rts[i])
      /\ TokenInWindow(rts[i])
  BY Parts DEF WindowInv, StoreInv
<1>4. /\ q.rt = i /\ q.reply = reply /\ q.age = 0 /\ q.window = rts[i].window
      /\ q.drift = rts[i].drift /\ q.late = (rts[i].late \/ reply <= 0)
  BY DEF Idle
<1>5. reply \in Int /\ (reply > 0 => reply = rts[i].ttl)
  BY <1>3, TokenNumbers, TtlReplyTypes DEF Replies
<1> HIDE DEF q
<1>6. ReplyInWindow(q, rts)
  <2>1. SUFFICES ASSUME rts[i].acct \in Fixed, ~(rts[i].late \/ reply <= 0)
                 PROVE  reply > 0 /\ reply <= rts[i].window + rts[i].drift + 0
    BY <1>4 DEF ReplyInWindow
  <2>2. reply > 0 /\ reply = rts[i].ttl /\ rts[i].st = "live"
    BY <1>3, <1>5, <2>1 DEF Stored
  <2> QED BY <1>3, <2>1, <2>2, TokenNumbers DEF TokenInWindow
<1>7. \A x \in Req : ReplyInWindow(req'[x], rts') \/ req'[x] = req[x]
  BY <1>2, <1>3, <1>6
<1> QED BY <1>2, <1>7, WindowStays

LEMMA TickInWindow ==
    ASSUME WindowInv, TypeInv', Later(rts, rts'), Tick
    PROVE  WindowInv'
<1>1. /\ rts' = [i \in RT |-> ElapseRefresh(rts[i])]
      /\ req' = [r \in Req |-> ElapseRequest(req[r])]
  BY DEF Tick
<1>2. ASSUME NEW i \in RT PROVE TokenInWindow(rts'[i])
  <2> DEFINE t == rts[i]
  <2>1. t \in RefreshToken /\ TokenInWindow(t)
    BY Parts DEF WindowInv
  <2>2. rts'[i] = ElapseRefresh(t)
    BY <1>1
  <2> HIDE DEF t
  <2>3. CASE t.st # "live"
    BY <2>1, <2>2, <2>3 DEF ElapseRefresh
  <2>4. CASE t.st = "live" /\ ~(t.ttl > 1)
    BY <2>1, <2>2, <2>4, GoneInWindow DEF ElapseRefresh
  <2>5. CASE t.st = "live" /\ t.ttl > 1
    <3>1. ElapseRefresh(t) = [t EXCEPT !.ttl = t.ttl - 1, !.window = Less(t.window)]
      BY <2>5 DEF ElapseRefresh
    <3> DEFINE u == ElapseRefresh(t)
    <3>2. /\ u.ttl = t.ttl - 1 /\ u.window = Less(t.window) /\ u.drift = t.drift
          /\ u.st = t.st /\ u.acct = t.acct /\ u.late = t.late
      BY <2>1, <3>1 DEF RefreshToken
    <3> HIDE DEF u
    <3>3. TokenInWindow(u)
      BY <2>1, <3>2, TokenNumbers DEF TokenInWindow, Less
    <3> QED BY <2>2, <3>3 DEF u
  <2> QED BY <2>3, <2>4, <2>5
<1>3. ASSUME NEW r \in Req PROVE ReplyInWindow(req'[r], rts')
  <2> DEFINE q == req[r]
  <2>1. q \in Request /\ Locals(q, rts) /\ ReplyInWindow(q, rts)
    BY Parts DEF WindowInv
  <2>2. ReplyInWindow(q, rts')
    BY <2>1, ReplyLater
  <2>3. req'[r] = ElapseRequest(q)
    BY <1>1
  <2> HIDE DEF q
  <2>4. CASE q.pc = "idle"
    BY <2>2, <2>3, <2>4 DEF ElapseRequest
  <2>5. CASE q.pc # "idle"
    <3>1. req'[r] = [q EXCEPT !.age = q.age + 1, !.window = Less(q.window)]
      BY <2>3, <2>5 DEF ElapseRequest
    <3>2. /\ req'[r].age = q.age + 1 /\ req'[r].window = Less(q.window)
          /\ req'[r].drift = q.drift /\ req'[r].reply = q.reply /\ req'[r].pc = q.pc
          /\ req'[r].rt = q.rt /\ req'[r].late = q.late
      BY <2>1, <3>1 DEF Request
    <3> QED BY <2>1, <2>2, <3>2, RequestNumbers DEF ReplyInWindow, Less
  <2> QED BY <2>4, <2>5
<1> QED BY <1>2, <1>3, WindowStays

LEMMA NextInWindow ==
    ASSUME WindowInv, [Next]_vars
    PROVE  WindowInv'
<1>1. TypeInv' /\ Later(rts, rts')
  BY NextTypes DEF WindowInv
<1>2. /\ ver \in [Biz -> Counter] /\ rts \in [RT -> RefreshToken] /\ req \in [Req -> Request]
  BY Parts DEF WindowInv
<1>3. ASSUME NEW r \in Req
      PROVE  req[r] \in Request /\ Locals(req[r], rts) /\ ReplyInWindow(req[r], rts)
  BY Parts DEF WindowInv
\* Steps that delete a token, or none, and move one handler on.
<1>4. ASSUME NEW r \in Req, NEW q, req' = [req EXCEPT ![r] = q], ReplyInWindow(q, rts), Locals(q, rts),
             rts' = rts \/ /\ req[r].rt \in RT
                           /\ rts' = [rts EXCEPT ![req[r].rt] = Gone(rts[req[r].rt])]
      PROVE  WindowInv'
  <2>1. ReplyInWindow(q, rts')
    BY <1>1, <1>4, ReplyLater
  <2>2. \A x \in Req : ReplyInWindow(req'[x], rts') \/ req'[x] = req[x]
    BY <1>2, <1>4, <2>1
  <2>3. \A i \in RT : TokenInWindow(rts'[i]) \/ rts'[i] = rts[i]
    BY <1>2, <1>4, GoneInWindow
  <2> QED BY <1>1, <2>2, <2>3, WindowStays
<1>5. CASE UNCHANGED vars
  BY <1>1, <1>5, WindowStays DEF vars
<1>6. CASE Tick
  BY <1>1, <1>6, TickInWindow
<1>7. ASSUME NEW r \in Req, NEW a \in Account, LoginVersion(r, a) PROVE WindowInv'
  <2> DEFINE q == [Idle EXCEPT !.acct = a]
  <2>1. q \in Request /\ q.acct = a /\ q.rt = None
    BY PeriodTypes, OptTypes DEF Idle, Request
  <2>2. req' = [req EXCEPT ![r] = ReadVersion(q)] /\ UNCHANGED rts
    BY <1>7 DEF LoginVersion
  <2> HIDE DEF q
  <2>3. ReplyInWindow(ReadVersion(q), rts)
    BY <1>2, <2>1, ReadVersionInWindow, AccountAssumption
  <2>4. Locals(ReadVersion(q), rts)
    BY <1>2, <2>1, ReadVersionTypes, AccountAssumption DEF Locals
  <2> QED BY <1>4, <2>2, <2>3, <2>4
<1>8. ASSUME NEW r \in Req, NEW i \in RT, LoginStore(r, i) PROVE WindowInv'
  <2> DEFINE t == [st |-> "live", acct |-> req[r].acct,
                   ttl |-> StoredTtl(req[r].acct, RtTTL), window |-> RtTTL,
                   drift |-> 0, late |-> FALSE, parent |-> None]
  <2>1. Issue(r, i, t)
    BY <1>8 DEF LoginStore
  <2>2. TokenInWindow(t)
    BY StoredTtlTypes, PeriodTypes DEF TokenInWindow
  <2> HIDE DEF t
  <2> QED BY <1>1, <2>1, <2>2, IssueInWindow
<1>9. ASSUME NEW r \in Req, InitVersion(r) PROVE WindowInv'
  <2> DEFINE q == [req[r] EXCEPT !.pc = "store"]
  <2>1. ReplyInWindow(q, rts) /\ Locals(q, rts)
    BY <1>3, <1>9 DEF InitVersion, ReplyInWindow, Request, Locals
  <2>2. req' = [req EXCEPT ![r] = q] /\ rts' = rts
    BY <1>2, <1>9 DEF InitVersion
  <2> HIDE DEF q
  <2> QED BY <1>4, <2>1, <2>2
<1>10. ASSUME NEW r \in Req, NEW i \in RT, ExchangeTtl(r, i) PROVE WindowInv'
  BY <1>1, <1>10, ExchangeTtlInWindow
<1>11. ASSUME NEW r \in Req, ExchangeGet(r) PROVE WindowInv'
  <2>1. rts' = rts
    BY <1>11 DEF ExchangeGet
  <2>2. ASSUME NEW x \in Req PROVE ReplyInWindow(req'[x], rts') \/ req'[x] = req[x]
    <3>1. req'[x] \in {req[x], Idle,
                       [req[r] EXCEPT !.pc = "xdel", !.acct = rts[req[r].rt].acct]}
      BY <1>2, <1>11 DEF ExchangeGet
    <3>2. req[r].pc = "xget"
      BY <1>11 DEF ExchangeGet
    <3> DEFINE q == [req[r] EXCEPT !.pc = "xdel", !.acct = rts[req[r].rt].acct]
    <3>3. /\ q.pc = "xdel" /\ q.rt = req[r].rt /\ q.late = req[r].late /\ q.reply = req[r].reply
          /\ q.window = req[r].window /\ q.drift = req[r].drift /\ q.age = req[r].age
      BY <1>3 DEF Request
    <3> HIDE DEF q
    <3>4. ReplyInWindow(q, rts)
      BY <1>3, <3>2, <3>3 DEF ReplyInWindow
    <3> QED BY <2>1, <3>1, <3>4, IdleInWindow DEF q
  <2> QED BY <1>1, <2>1, <2>2, WindowStays
<1>12. ASSUME NEW r \in Req, ExchangeDelete(r) PROVE WindowInv'
  <2> DEFINE q == [req[r] EXCEPT !.pc = "getver"]
  <2>1. ReplyInWindow(q, rts) /\ Locals(q, rts) /\ req[r].rt \in RT
    BY <1>3, <1>12 DEF ExchangeDelete, ReplyInWindow, Request, Locals
  <2>2. req' = [req EXCEPT ![r] = q] /\ rts' = [rts EXCEPT ![req[r].rt] = Gone(rts[req[r].rt])]
    BY <1>2, <1>12 DEF ExchangeDelete
  <2> HIDE DEF q
  <2> QED BY <1>4, <2>1, <2>2
<1>13. ASSUME NEW r \in Req, ExchangeVersion(r) PROVE WindowInv'
  <2>1. req[r] \in Request /\ req[r].acct \in Account /\ req[r].pc = "getver"
    BY <1>3, <1>13 DEF ExchangeVersion, Locals
  <2>2. ReplyInWindow(ReadVersion(req[r]), rts)
    BY <1>2, <1>3, <2>1, ReadVersionInWindow
  <2>3. Locals(ReadVersion(req[r]), rts)
    BY <1>2, <1>3, <2>1, ReadVersionTypes DEF Locals
  <2>4. req' = [req EXCEPT ![r] = ReadVersion(req[r])] /\ rts' = rts
    BY <1>2, <1>13 DEF ExchangeVersion
  <2> QED BY <1>4, <2>2, <2>3, <2>4
<1>14. ASSUME NEW r \in Req, NEW i \in RT, ExchangeStore(r, i) PROVE WindowInv'
  BY <1>1, <1>14, ExchangeStoreInWindow
<1>15. ASSUME NEW r \in Req, NEW a \in tokens, NEW i \in Opt(HandedOut), LogoutIncr(r, a, i)
       PROVE  WindowInv'
  <2>1. \A x \in Req : req'[x] = req[x] \/ req'[x].pc = "expire"
    BY <1>2, <1>15 DEF LogoutIncr, Idle
  <2> QED BY <1>1, <1>15, <2>1, WindowStays DEF LogoutIncr, ReplyInWindow
<1>16. ASSUME NEW r \in Req, LogoutExpire(r) PROVE WindowInv'
  <2>1. ASSUME NEW x \in Req PROVE ReplyInWindow(req'[x], rts)
    <3>1. /\ req[x] \in Request /\ ReplyInWindow(req[x], rts) /\ req[r] \in Request
      BY <1>3
    <3>2. req'[x] = req[x] \/ req'[x] = [req[x] EXCEPT !.stale = TRUE]
             \/ req'[x] = Idle \/ req'[x] = [req[r] EXCEPT !.pc = "lodel"]
      BY <1>16 DEF LogoutExpire, MarkRequest
    <3> QED BY <3>1, <3>2, IdleInWindow DEF ReplyInWindow, Request
  <2> QED BY <1>1, <1>16, <2>1, WindowStays DEF LogoutExpire
<1>17. ASSUME NEW r \in Req, LogoutDelete(r) PROVE WindowInv'
  <2>1. req[r].rt \in RT
    BY <1>3, <1>17 DEF LogoutDelete, Locals
  <2>2. req' = [req EXCEPT ![r] = Idle] /\ rts' = [rts EXCEPT ![req[r].rt] = Gone(rts[req[r].rt])]
    BY <1>2, <1>17 DEF LogoutDelete
  <2> QED BY <1>4, <2>1, <2>2, IdleInWindow, IdleTypes
<1>18. ASSUME NEW r \in Req, Crash(r) PROVE WindowInv'
  BY <1>4, <1>18, IdleInWindow, IdleTypes DEF Crash
<1> QED BY <1>5, <1>6, <1>7, <1>8, <1>9, <1>10, <1>11, <1>12, <1>13, <1>14, <1>15, <1>16, <1>17,
           <1>18 DEF Next, RequestStep

\* Tokens and handlers of fixed-window accounts keep no more than the window left
\* (refresh_token).
THEOREM WindowInvariant == Spec => []WindowInv
<1>1. WindowInv /\ [Next]_vars => WindowInv'
  BY NextInWindow
<1> QED BY <1>1, WindowInit, PTL DEF Spec

\* A chain of refresh tokens of a fixed account does not outlive the period its
\* login opened, but for the time its exchanges were in flight.
THEOREM WindowKeptHolds == Spec => []WindowKept
<1>1. WindowInv => WindowKept
  BY DEF WindowInv, WindowKept, TokenInWindow
<1> QED BY <1>1, WindowInvariant, PTL
=============================================================================
