------------------------- MODULE AuthSession_proofs -------------------------
(***************************************************************************)
(* Proofs about AuthSession, for every number of handlers, accounts and    *)
(* tokens and every choice of the periods that TimeAssumption allows.      *)
(***************************************************************************)
EXTENDS AuthSession, TLAPS

Counter == Entry(Nat, Ticks(VerTTL))

LEMMA TickTypes ==
    ASSUME NEW n \in Nat
    PROVE  /\ 0 \in Ticks(n) /\ n \in Ticks(n) /\ Ticks(n) \subseteq Nat
           /\ \A x \in Ticks(n) : x > 0 => x - 1 \in Ticks(n)
           /\ \A x \in Ticks(n) : Less(x) \in Ticks(n)
           /\ \A x \in Ticks(n) : x < n => x + 1 \in Ticks(n)
  BY DEF Ticks, Less

\* What the periods are.
LEMMA PeriodTypes ==
    /\ VerTTL \in Nat /\ RtTTL \in Nat /\ ReqMax \in Nat /\ AccessTTL \in Nat /\ MaxVer \in Nat
    /\ VerTTL > 0 /\ RtTTL > 0 /\ AccessTTL > 0
    /\ AccessTTL + ReqMax <= VerTTL
    /\ 0 \in Replies /\ 0 \in Ticks(RtTTL) /\ RtTTL \in Ticks(RtTTL) /\ 0 \in Ticks(ReqMax)
    /\ VerTTL \in Ticks(VerTTL) /\ 0 \in Ticks(VerTTL)
  BY TimeAssumption DEF Ticks, Replies

\* The values of an entry stay in its type under every command used here.
LEMMA EntryTypes ==
    ASSUME NEW e \in Counter
    PROVE  /\ SetEx(0, VerTTL) \in Counter
           /\ Incr(e) \in Counter
           /\ Prolonged(e) \in Counter
           /\ Elapse(e) \in Counter
  BY TimeAssumption
  DEF Counter, Entry, Ticks, SetEx, Incr, Prolonged, Expire, Elapse, Missing, Live

\* A TTL command answers -2, 0 or the ticks left.
LEMMA TtlReplyTypes ==
    ASSUME NEW t \in Ticks(RtTTL), NEW reply \in TtlReplies(t)
    PROVE  /\ reply \in Replies
           /\ reply > 0 => reply = t
<1>1. t = 0 => TtlReplies(t) = {-2}
  BY DEF TtlReplies
<1>2. t = 1 => TtlReplies(t) = {0, 1}
  BY DEF TtlReplies
<1>3. t # 0 /\ t # 1 => TtlReplies(t) = {t}
  BY DEF TtlReplies
<1> QED BY <1>1, <1>2, <1>3, TimeAssumption DEF Ticks, Replies

\* Every refresh token a handler stores expires, within a period.
LEMMA StoredTtlTypes ==
    ASSUME NEW a, NEW reply \in Replies
    PROVE  /\ StoredTtl(a, KeptTtl(reply)) \in Ticks(RtTTL)
           /\ StoredTtl(a, KeptTtl(reply)) > 0
           /\ StoredTtl(a, RtTTL) = RtTTL
  BY TimeAssumption DEF StoredTtl, KeptTtl, Ticks, Replies

----------------------------------------------------------------------------
(* What a handler's locals are at each of its program counters, given the  *)
(* refresh tokens s.                                                       *)

Locals(q, s) ==
    /\ q.pc \notin {"idle", "xget"} => q.acct \in Account
    /\ q.pc \in {"xget", "xdel", "getver", "lodel"} => q.rt \in RT
    /\ q.rt \in RT => s[q.rt].st # "unborn"
    /\ q.pc \in {"xdel", "getver", "initver", "store"} /\ q.rt \in RT
          => q.acct = s[q.rt].acct

LocalsInv == \A r \in Req : Locals(req[r], rts)

\* Refresh tokens s2 come after s: tokens are not unmade, nor revived.
Later(s, s2) ==
    \A i \in RT : /\ s[i].st # "unborn" => s2[i].st # "unborn" /\ s2[i].acct = s[i].acct
                  /\ s[i].st = "gone" => s2[i].st = "gone"

Stored(t) == /\ t.st = "live" <=> t.ttl > 0
             /\ t.st = "unborn" <=> t.acct = None

StoreInv(s) == \A i \in RT : Stored(s[i])

LEMMA TypeOKParts ==
    TypeOK <=> /\ ver \in [Biz -> Counter]
               /\ rts \in [RT -> RefreshToken]
               /\ tokens \subseteq AccessToken
               /\ req \in [Req -> Request]
               /\ StoreInv(rts)
  BY DEF TypeOK, Counter, StoreInv, Stored

LEMMA OptTypes ==
    /\ Account \subseteq Opt(Account) /\ None \in Opt(Account)
    /\ RT \subseteq Opt(RT) /\ None \in Opt(RT)
    /\ \A x \in Opt(RT) : x # None => x \in RT
    /\ \A x \in Opt(Account) : x # None => x \in Account
  BY DEF Opt

LEMMA IdleTypes ==
    /\ Idle \in Request
    /\ \A s : Locals(Idle, s)
  BY PeriodTypes, AccountAssumption, OptTypes DEF Idle, Request, Locals

LEMMA LocalsLater ==
    ASSUME NEW s, NEW s2, Later(s, s2), NEW q, Locals(q, s)
    PROVE  Locals(q, s2)
  BY DEF Later, Locals

\* A step that only moves handler r, to q.
LEMMA OneHandler ==
    ASSUME req \in [Req -> Request], LocalsInv, Later(rts, rts'),
           NEW r \in Req, NEW q \in Request, Locals(q, rts'),
           req' = [req EXCEPT ![r] = q]
    PROVE  req' \in [Req -> Request] /\ LocalsInv'
<1>1. req' \in [Req -> Request]
  OBVIOUS
<1>2. ASSUME NEW x \in Req PROVE Locals(req'[x], rts')
  <2>1. CASE x = r
    BY <2>1
  <2>2. CASE x # r
    <3>1. req'[x] = req[x] /\ Locals(req[x], rts)
      BY <2>2 DEF LocalsInv
    <3> QED BY <3>1, LocalsLater
  <2> QED BY <2>1, <2>2
<1> QED BY <1>1, <1>2 DEF LocalsInv

\* A step that only puts refresh token i into state t.
LEMMA OneRefreshToken ==
    ASSUME rts \in [RT -> RefreshToken], StoreInv(rts),
           NEW i \in RT, NEW t \in RefreshToken, Stored(t), t.st # "unborn",
           rts[i].st # "unborn" => t.acct = rts[i].acct,
           rts[i].st = "gone" => t.st = "gone",
           rts' = [rts EXCEPT ![i] = t]
    PROVE  rts' \in [RT -> RefreshToken] /\ StoreInv(rts') /\ Later(rts, rts')
  BY DEF StoreInv, Later

LEMMA GoneTypes ==
    ASSUME NEW t \in RefreshToken
    PROVE  /\ Gone(t) \in RefreshToken
           /\ Gone(t).st = "gone" /\ Gone(t).ttl = 0
           /\ Gone(t).acct = t.acct /\ Gone(t).parent = t.parent
  BY PeriodTypes DEF Gone, RefreshToken

LEMMA MintedTypes ==
    ASSUME NEW q \in Request, q.acct \in Account
    PROVE  Minted(q) \in AccessToken
  BY PeriodTypes DEF Minted, Request, AccessToken

\* Reading the version yields a handler that is about to write the missing
\* counter or to issue its tokens.
LEMMA ReadVersionTypes ==
    ASSUME ver \in [Biz -> Counter], NEW q \in Request, q.acct \in Account
    PROVE  /\ ReadVersion(q) \in Request
           /\ ReadVersion(q).pc \in {"store", "initver"}
           /\ ReadVersion(q).acct = q.acct /\ ReadVersion(q).rt = q.rt
<1> DEFINE key == ver[BizOf[q.acct]]
<1>1. key \in Counter /\ key.val \in Nat
  BY AccountAssumption DEF Counter, Entry
<1> HIDE DEF key
<1>2. CASE Live(key)
  <2>1. ReadVersion(q) = [q EXCEPT !.pc = "store", !.ver = key.val]
    BY <1>2 DEF ReadVersion, key
  <2> QED BY <1>1, <2>1 DEF Request
<1>3. CASE ~Live(key)
  <2>1. ReadVersion(q) = [q EXCEPT !.pc = "initver"]
    BY <1>3 DEF ReadVersion, key
  <2> QED BY <2>1 DEF Request
<1> QED BY <1>2, <1>3

----------------------------------------------------------------------------

TypeInv == TypeOK /\ LocalsInv

LEMMA InitTypes == Init => TypeInv
  BY PeriodTypes, AccountAssumption, OptTypes
  DEF Init, TypeInv, TypeOK, LocalsInv, Locals, Entry, Missing, RefreshToken, Unborn, Request, Idle

\* Issuing refresh token i ends the handler.
LEMMA IssueTypes ==
    ASSUME TypeInv, NEW r \in Req, NEW i \in RT, NEW t \in RefreshToken,
           t.st = "live", t.ttl > 0, t.acct \in Account, req[r].acct \in Account, Issue(r, i, t)
    PROVE  TypeInv' /\ Later(rts, rts')
<1> USE TypeOKParts DEF TypeInv
<1>1. rts' \in [RT -> RefreshToken] /\ StoreInv(rts') /\ Later(rts, rts')
  BY OneRefreshToken, AccountAssumption DEF Issue, Stored
<1>2. tokens' \subseteq AccessToken
  BY MintedTypes DEF Issue
<1>3. req' \in [Req -> Request] /\ LocalsInv'
  BY <1>1, IdleTypes, OneHandler DEF Issue
<1>4. ver' \in [Biz -> Counter]
  BY DEF Issue
<1>5. TypeOK'
  BY <1>1, <1>2, <1>3, <1>4 DEF TypeOK, Counter, StoreInv, Stored
<1> QED BY <1>1, <1>3, <1>5

LEMMA LoginVersionTypes ==
    ASSUME TypeInv, NEW r \in Req, NEW a \in Account, LoginVersion(r, a)
    PROVE  TypeInv' /\ Later(rts, rts')
<1> DEFINE q == [Idle EXCEPT !.acct = a]
<1>1. q \in Request /\ q.acct = a /\ q.rt = None
  BY PeriodTypes, OptTypes DEF Idle, Request
<1>2. req' = [req EXCEPT ![r] = ReadVersion(q)] /\ UNCHANGED <<ver, rts, tokens>>
  BY DEF LoginVersion
<1> HIDE DEF q
<1>3. ReadVersion(q) \in Request /\ Locals(ReadVersion(q), rts')
  BY <1>1, ReadVersionTypes, AccountAssumption, TypeOKParts DEF TypeInv, Locals
<1>4. Later(rts, rts')
  BY <1>2 DEF Later
<1>5. req' \in [Req -> Request] /\ LocalsInv'
  BY <1>2, <1>3, <1>4, OneHandler, TypeOKParts DEF TypeInv
<1> QED BY <1>2, <1>4, <1>5 DEF TypeInv, TypeOK

LEMMA LoginStoreTypes ==
    ASSUME TypeInv, NEW r \in Req, NEW i \in RT, LoginStore(r, i)
    PROVE  TypeInv' /\ Later(rts, rts')
<1> DEFINE t == [st |-> "live", acct |-> req[r].acct,
                 ttl |-> StoredTtl(req[r].acct, RtTTL), window |-> RtTTL,
                 drift |-> 0, late |-> FALSE, parent |-> None]
<1>1. req[r] \in Request /\ req[r].acct \in Account
  BY TypeOKParts DEF TypeInv, LocalsInv, Locals, LoginStore
<1>2. t \in RefreshToken /\ t.st = "live" /\ t.ttl > 0
  BY <1>1, PeriodTypes, OptTypes, StoredTtlTypes DEF RefreshToken
<1>3. Issue(r, i, t)
  BY DEF LoginStore
<1> QED BY <1>1, <1>2, <1>3, IssueTypes

LEMMA ExchangeStoreTypes ==
    ASSUME TypeInv, NEW r \in Req, NEW i \in RT, ExchangeStore(r, i)
    PROVE  TypeInv' /\ Later(rts, rts')
<1> DEFINE q == req[r]
           slides == q.acct \in Sliding
           t == [st |-> "live", acct |-> q.acct, ttl |-> StoredTtl(q.acct, KeptTtl(q.reply)),
                 window |-> IF slides THEN RtTTL ELSE q.window,
                 drift |-> IF slides THEN 0 ELSE q.drift + q.age,
                 late |-> ~slides /\ q.late, parent |-> q.rt]
<1>1. q \in Request /\ q.acct \in Account /\ q.age \in Nat
  BY TypeOKParts, PeriodTypes, TickTypes DEF TypeInv, LocalsInv, Locals, ExchangeStore, Request
<1>2. /\ q.reply \in Replies /\ q.window \in Ticks(RtTTL) /\ q.drift + q.age \in Nat
      /\ q.rt \in Opt(RT) /\ (~slides /\ q.late) \in BOOLEAN
  BY <1>1 DEF Request
<1>3. Issue(r, i, t)
  BY DEF ExchangeStore
<1> HIDE DEF q
<1>4. t \in RefreshToken /\ t.st = "live" /\ t.ttl > 0
  <2>1. /\ StoredTtl(q.acct, KeptTtl(q.reply)) \in Ticks(RtTTL)
        /\ StoredTtl(q.acct, KeptTtl(q.reply)) > 0
    BY <1>2, StoredTtlTypes
  <2>2. (IF slides THEN RtTTL ELSE q.window) \in Ticks(RtTTL)
    BY <1>2, PeriodTypes
  <2>3. (IF slides THEN 0 ELSE q.drift + q.age) \in Nat
    BY <1>2
  <2> QED BY <1>1, <1>2, <2>1, <2>2, <2>3, OptTypes DEF RefreshToken
<1> QED BY <1>1, <1>3, <1>4, IssueTypes DEF q

LEMMA InitVersionTypes ==
    ASSUME TypeInv, NEW r \in Req, InitVersion(r)
    PROVE  TypeInv' /\ Later(rts, rts')
<1> DEFINE q == [req[r] EXCEPT !.pc = "store"]
<1>1. q \in Request /\ Locals(q, rts)
  BY TypeOKParts DEF TypeInv, LocalsInv, Locals, InitVersion, Request
<1>2. req' = [req EXCEPT ![r] = q] /\ UNCHANGED <<rts, tokens>>
  BY TypeOKParts DEF TypeInv, InitVersion
<1>3. Later(rts, rts')
  BY <1>2 DEF Later
<1>4. req' \in [Req -> Request] /\ LocalsInv'
  BY <1>1, <1>2, <1>3, OneHandler, TypeOKParts DEF TypeInv
<1>5. ver' \in [Biz -> Counter]
  BY TypeOKParts, PeriodTypes DEF TypeInv, InitVersion, SetEx, Counter, Entry
<1> QED BY <1>2, <1>3, <1>4, <1>5 DEF TypeInv, TypeOK, Counter

LEMMA ExchangeTtlTypes ==
    ASSUME TypeInv, NEW r \in Req, NEW i \in RT, ExchangeTtl(r, i)
    PROVE  TypeInv' /\ Later(rts, rts')
<1>1. PICK reply \in TtlReplies(rts[i].ttl) :
        req' = [req EXCEPT ![r] = [Idle EXCEPT !.pc = "xget", !.rt = i, !.reply = reply,
                                      !.window = rts[i].window, !.drift = rts[i].drift,
                                      !.late = rts[i].late \/ reply <= 0]]
  BY DEF ExchangeTtl
<1>2. rts[i] \in RefreshToken
  BY TypeOKParts DEF TypeInv
<1>3. reply \in Replies
  BY <1>2, TtlReplyTypes DEF RefreshToken
<1> DEFINE q == [Idle EXCEPT !.pc = "xget", !.rt = i, !.reply = reply,
                     !.window = rts[i].window, !.drift = rts[i].drift,
                     !.late = rts[i].late \/ reply <= 0]
<1>4. q \in Request
  BY <1>2, <1>3, PeriodTypes, OptTypes DEF Idle, Request, RefreshToken
<1>5. Locals(q, rts)
  BY DEF Idle, Locals, ExchangeTtl, HandedOut
<1>6. req' = [req EXCEPT ![r] = q] /\ UNCHANGED <<ver, rts, tokens>>
  BY <1>1 DEF ExchangeTtl
<1> HIDE DEF q
<1>7. Later(rts, rts')
  BY <1>6 DEF Later
<1>8. req' \in [Req -> Request] /\ LocalsInv'
  BY <1>4, <1>5, <1>6, <1>7, OneHandler, TypeOKParts DEF TypeInv
<1> QED BY <1>6, <1>7, <1>8 DEF TypeInv, TypeOK

LEMMA ExchangeGetTypes ==
    ASSUME TypeInv, NEW r \in Req, ExchangeGet(r)
    PROVE  TypeInv' /\ Later(rts, rts')
<1> DEFINE t == rts[req[r].rt]
           q == IF t.st = "live" THEN [req[r] EXCEPT !.pc = "xdel", !.acct = t.acct] ELSE Idle
<1>1. req[r] \in Request /\ Locals(req[r], rts) /\ req[r].pc = "xget" /\ req[r].rt \in RT
  BY TypeOKParts DEF TypeInv, LocalsInv, Locals, ExchangeGet
<1>2. t \in RefreshToken /\ Stored(t)
  BY <1>1, TypeOKParts DEF TypeInv, StoreInv
<1>3. req' = [req EXCEPT ![r] = q] /\ UNCHANGED <<ver, rts, tokens>>
  BY TypeOKParts DEF TypeInv, ExchangeGet
<1>4. q \in Request /\ Locals(q, rts)
  <2>1. CASE t.st = "live"
    <3>1. q = [req[r] EXCEPT !.pc = "xdel", !.acct = t.acct]
      BY <2>1
    <3>4. t.acct \in Opt(Account) /\ t.acct # None
      BY <1>2, <2>1 DEF Stored, RefreshToken
    <3>3. t.acct \in Account
      BY <3>4, OptTypes
    <3> HIDE DEF q
    <3>2. q \in Request /\ q.pc = "xdel" /\ q.rt = req[r].rt /\ q.acct = t.acct
      BY <1>1, <3>4, <3>1 DEF Request
    <3> QED BY <1>1, <2>1, <3>2, <3>3 DEF Locals
  <2>2. CASE t.st # "live"
    BY <2>2, IdleTypes
  <2> QED BY <2>1, <2>2
<1> HIDE DEF q
<1>5. Later(rts, rts')
  BY <1>3 DEF Later
<1>6. req' \in [Req -> Request] /\ LocalsInv'
  BY <1>3, <1>4, <1>5, OneHandler, TypeOKParts DEF TypeInv
<1> QED BY <1>3, <1>5, <1>6 DEF TypeInv, TypeOK

\* Deleting a refresh token while handler r goes on as q.
LEMMA DeleteTypes ==
    ASSUME TypeInv, NEW r \in Req, NEW q \in Request, Locals(q, rts), req[r].rt \in RT,
           rts[req[r].rt].st # "unborn",
           rts' = [rts EXCEPT ![req[r].rt] = Gone(@)], req' = [req EXCEPT ![r] = q],
           UNCHANGED <<ver, tokens>>
    PROVE  TypeInv' /\ Later(rts, rts')
<1> DEFINE i == req[r].rt
<1>1. rts[i] \in RefreshToken /\ Stored(rts[i])
  BY TypeOKParts DEF TypeInv, StoreInv
<1>2. Gone(rts[i]) \in RefreshToken /\ Stored(Gone(rts[i])) /\ Gone(rts[i]).acct = rts[i].acct
      /\ Gone(rts[i]).st = "gone"
  BY <1>1, GoneTypes DEF Stored
<1>3. rts' = [rts EXCEPT ![i] = Gone(rts[i])]
  BY TypeOKParts DEF TypeInv
<1> HIDE DEF i
<1>4. rts' \in [RT -> RefreshToken] /\ StoreInv(rts') /\ Later(rts, rts')
  BY <1>2, <1>3, OneRefreshToken, TypeOKParts DEF TypeInv, i
<1>5. Locals(q, rts')
  BY <1>4, LocalsLater
<1>6. req' \in [Req -> Request] /\ LocalsInv'
  BY <1>4, <1>5, OneHandler, TypeOKParts DEF TypeInv
<1> QED BY <1>4, <1>6 DEF TypeInv, TypeOK, StoreInv, Stored

LEMMA ExchangeDeleteTypes ==
    ASSUME TypeInv, NEW r \in Req, ExchangeDelete(r)
    PROVE  TypeInv' /\ Later(rts, rts')
<1> DEFINE q == [req[r] EXCEPT !.pc = "getver"]
<1>1. req[r] \in Request /\ Locals(req[r], rts) /\ req[r].pc = "xdel"
  BY TypeOKParts DEF TypeInv, LocalsInv, ExchangeDelete
<1>2. q \in Request /\ Locals(q, rts)
  BY <1>1 DEF Request, Locals
<1>3. req' = [req EXCEPT ![r] = q]
  BY TypeOKParts DEF TypeInv, ExchangeDelete
<1> HIDE DEF q
<1> QED BY <1>1, <1>2, <1>3, DeleteTypes DEF ExchangeDelete, Locals

LEMMA LogoutDeleteTypes ==
    ASSUME TypeInv, NEW r \in Req, LogoutDelete(r)
    PROVE  TypeInv' /\ Later(rts, rts')
<1>1. req[r] \in Request /\ Locals(req[r], rts) /\ req[r].pc = "lodel"
  BY TypeOKParts DEF TypeInv, LocalsInv, LogoutDelete
<1> QED BY <1>1, IdleTypes, DeleteTypes DEF LogoutDelete, Locals

LEMMA ExchangeVersionTypes ==
    ASSUME TypeInv, NEW r \in Req, ExchangeVersion(r)
    PROVE  TypeInv' /\ Later(rts, rts')
<1> DEFINE q == ReadVersion(req[r])
<1>1. /\ req[r] \in Request /\ Locals(req[r], rts)
      /\ req[r].pc = "getver" /\ req[r].acct \in Account
  BY TypeOKParts DEF TypeInv, LocalsInv, Locals, ExchangeVersion
<1>2. q \in Request /\ Locals(q, rts)
  BY <1>1, ReadVersionTypes, TypeOKParts DEF TypeInv, Locals
<1>3. req' = [req EXCEPT ![r] = q] /\ UNCHANGED <<ver, rts, tokens>>
  BY TypeOKParts DEF TypeInv, ExchangeVersion
<1> HIDE DEF q
<1>4. Later(rts, rts')
  BY <1>3 DEF Later
<1>5. req' \in [Req -> Request] /\ LocalsInv'
  BY <1>2, <1>3, <1>4, OneHandler, TypeOKParts DEF TypeInv
<1> QED BY <1>3, <1>4, <1>5 DEF TypeInv, TypeOK

LEMMA LogoutIncrTypes ==
    ASSUME TypeInv, NEW r \in Req, NEW a \in tokens, NEW i \in Opt(HandedOut), LogoutIncr(r, a, i)
    PROVE  TypeInv' /\ Later(rts, rts')
<1> DEFINE q == [Idle EXCEPT !.pc = "expire", !.acct = a.acct, !.rt = i]
           b == BizOf[a.acct]
<1>1. a \in AccessToken /\ a.acct \in Account /\ b \in Biz
  BY TypeOKParts, AccountAssumption DEF TypeInv, AccessToken
<1>2. q \in Request /\ Locals(q, rts)
  BY <1>1, PeriodTypes, OptTypes, AccountAssumption DEF Idle, Request, Locals, HandedOut, Opt
<1>3. req' = [req EXCEPT ![r] = q] /\ UNCHANGED rts
  BY DEF LogoutIncr
<1>4. ver' \in [Biz -> Counter]
  BY <1>1, EntryTypes, TypeOKParts DEF TypeInv, LogoutIncr
<1>5. tokens' \subseteq AccessToken
  BY TypeOKParts DEF TypeInv, LogoutIncr, Ask, AccessToken
<1> HIDE DEF q
<1>6. Later(rts, rts')
  BY <1>3 DEF Later
<1>7. req' \in [Req -> Request] /\ LocalsInv'
  BY <1>2, <1>3, <1>6, OneHandler, TypeOKParts DEF TypeInv
<1> QED BY <1>3, <1>4, <1>5, <1>6, <1>7 DEF TypeInv, TypeOK, Counter

LEMMA CrashTypes ==
    ASSUME TypeInv, NEW r \in Req, Crash(r)
    PROVE  TypeInv' /\ Later(rts, rts')
<1>1. Later(rts, rts')
  BY DEF Later, Crash
<1>2. req' \in [Req -> Request] /\ LocalsInv'
  BY <1>1, IdleTypes, OneHandler, TypeOKParts DEF TypeInv, Crash
<1> QED BY <1>1, <1>2 DEF TypeInv, TypeOK, Crash

LEMMA LogoutExpireTypes ==
    ASSUME TypeInv, NEW r \in Req, LogoutExpire(r)
    PROVE  TypeInv' /\ Later(rts, rts')
<1> DEFINE b == KeyOf(r)
<1>1. req[r] \in Request /\ Locals(req[r], rts) /\ req[r].pc = "expire" /\ req[r].acct \in Account
  BY TypeOKParts DEF TypeInv, LocalsInv, Locals, LogoutExpire
<1>2. b \in Biz /\ ver[b] \in Counter
  BY <1>1, AccountAssumption, TypeOKParts DEF TypeInv, KeyOf
<1>3. /\ ver' = [ver EXCEPT ![b] = Prolonged(@)]
      /\ tokens' = {MarkToken(a, b) : a \in tokens}
      /\ req' = [x \in Req |->
                   IF x # r THEN MarkRequest(req[x], b)
                   ELSE IF req[r].rt = None THEN Idle ELSE [req[r] EXCEPT !.pc = "lodel"]]
      /\ rts' = rts
  BY DEF LogoutExpire
<1> HIDE DEF b
<1>4. ver' \in [Biz -> Counter]
  BY <1>2, <1>3, EntryTypes, TypeOKParts DEF TypeInv
<1>5. tokens' \subseteq AccessToken
  BY <1>3, TypeOKParts DEF TypeInv, MarkToken, AccessToken
<1>6. Later(rts, rts')
  BY <1>3 DEF Later
<1>7. ASSUME NEW x \in Req PROVE req'[x] \in Request /\ Locals(req'[x], rts)
  <2>1. req[x] \in Request /\ Locals(req[x], rts)
    BY TypeOKParts DEF TypeInv, LocalsInv
  <2>2. CASE x # r
    <3>1. req'[x] = req[x] \/ req'[x] = [req[x] EXCEPT !.stale = TRUE]
      BY <1>3, <2>2 DEF MarkRequest
    <3> QED BY <2>1, <3>1 DEF Request, Locals
  <2>3. CASE x = r /\ req[r].rt = None
    BY <1>3, <2>3, IdleTypes
  <2>4. CASE x = r /\ req[r].rt # None
    <3>1. req'[x] = [req[r] EXCEPT !.pc = "lodel"]
      BY <1>3, <2>4
    <3>2. req[r].rt \in Opt(RT)
      BY <1>1 DEF Request
    <3>3. req[r].rt \in RT
      BY <3>2, <2>4, OptTypes
    <3> QED BY <1>1, <3>1, <3>3 DEF Request, Locals
  <2> QED BY <2>2, <2>3, <2>4
<1>8. req' \in [Req -> Request] /\ LocalsInv'
  BY <1>3, <1>7 DEF LocalsInv
<1> QED BY <1>3, <1>4, <1>5, <1>6, <1>8 DEF TypeInv, TypeOK, Counter

\* A tick ages one refresh token, and ends it when its time is up.
LEMMA ElapseRefreshTypes ==
    ASSUME NEW t \in RefreshToken, Stored(t)
    PROVE  /\ ElapseRefresh(t) \in RefreshToken /\ Stored(ElapseRefresh(t))
           /\ t.st # "unborn" => ElapseRefresh(t).st # "unborn"
           /\ ElapseRefresh(t).acct = t.acct /\ ElapseRefresh(t).parent = t.parent
           /\ t.st = "gone" => ElapseRefresh(t).st = "gone"
<1>1. t.ttl \in Ticks(RtTTL) /\ t.window \in Ticks(RtTTL) /\ t.ttl \in Nat
  BY PeriodTypes, TickTypes DEF RefreshToken
<1>2. Less(t.window) \in Ticks(RtTTL) /\ (t.ttl > 0 => t.ttl - 1 \in Ticks(RtTTL))
  BY <1>1, PeriodTypes, TickTypes
<1>3. CASE t.st # "live"
  BY <1>3 DEF ElapseRefresh
<1>4. CASE t.st = "live" /\ t.ttl > 1
  <2>1. ElapseRefresh(t) = [t EXCEPT !.ttl = t.ttl - 1, !.window = Less(t.window)]
    BY <1>4 DEF ElapseRefresh, RefreshToken
  <2>2. t.ttl - 1 \in Ticks(RtTTL) /\ t.ttl - 1 > 0
    BY <1>1, <1>2, <1>4
  <2> QED BY <1>2, <1>4, <2>1, <2>2 DEF RefreshToken, Stored
<1>5. CASE t.st = "live" /\ ~(t.ttl > 1)
  <2>1. ElapseRefresh(t) = Gone(t)
    BY <1>5 DEF ElapseRefresh
  <2> QED BY <1>5, <2>1, GoneTypes DEF Stored
<1> QED BY <1>3, <1>4, <1>5

LEMMA ElapseRequestTypes ==
    ASSUME NEW q \in Request, NEW s, Locals(q, s), q.pc = "idle" \/ q.age < ReqMax
    PROVE  ElapseRequest(q) \in Request /\ Locals(ElapseRequest(q), s)
<1>1. q.age \in Ticks(ReqMax) /\ q.window \in Ticks(RtTTL)
  BY DEF Request
<1>2. Less(q.window) \in Ticks(RtTTL) /\ (q.age < ReqMax => q.age + 1 \in Ticks(ReqMax))
  BY <1>1, PeriodTypes, TickTypes
<1>3. CASE q.pc = "idle"
  BY <1>3 DEF ElapseRequest
<1>4. CASE q.pc # "idle"
  <2>1. ElapseRequest(q) = [q EXCEPT !.age = q.age + 1, !.window = Less(q.window)]
    BY <1>4 DEF ElapseRequest
  <2> QED BY <1>2, <1>4, <2>1 DEF Request, Locals
<1> QED BY <1>3, <1>4

LEMMA TickStepTypes ==
    ASSUME TypeInv, Tick
    PROVE  TypeInv' /\ Later(rts, rts')
<1>1. /\ ver' = [b \in Biz |-> Elapse(ver[b])]
      /\ rts' = [i \in RT |-> ElapseRefresh(rts[i])]
      /\ tokens' = {[a EXCEPT !.left = @ - 1] : a \in {x \in tokens : x.left > 1}}
      /\ req' = [r \in Req |-> ElapseRequest(req[r])]
      /\ \A r \in Req : req[r].pc = "idle" \/ req[r].age < ReqMax
  BY DEF Tick
<1>2. ver' \in [Biz -> Counter]
  BY <1>1, EntryTypes, TypeOKParts DEF TypeInv
<1>3. rts' \in [RT -> RefreshToken] /\ StoreInv(rts') /\ Later(rts, rts')
  BY <1>1, ElapseRefreshTypes, TypeOKParts DEF TypeInv, StoreInv, Later
<1>4. tokens' \subseteq AccessToken
  BY <1>1, PeriodTypes, TypeOKParts DEF TypeInv, AccessToken
<1>5. ASSUME NEW r \in Req PROVE req'[r] \in Request /\ Locals(req'[r], rts')
  <2>1. req[r] \in Request /\ Locals(req[r], rts)
    BY TypeOKParts DEF TypeInv, LocalsInv
  <2>2. ElapseRequest(req[r]) \in Request /\ Locals(ElapseRequest(req[r]), rts)
    BY <1>1, <2>1, ElapseRequestTypes
  <2> QED BY <1>1, <1>3, <2>2, LocalsLater
<1>6. req' \in [Req -> Request] /\ LocalsInv'
  BY <1>1, <1>5 DEF LocalsInv
<1> QED BY <1>2, <1>3, <1>4, <1>6 DEF TypeInv, TypeOK, Counter, StoreInv, Stored

LEMMA NextTypes ==
    ASSUME TypeInv, [Next]_vars
    PROVE  TypeInv' /\ Later(rts, rts')
<1>1. CASE UNCHANGED vars
  BY <1>1 DEF vars, TypeInv, TypeOK, LocalsInv, Locals, Later
<1>2. CASE Tick
  BY <1>2, TickStepTypes
<1>3. ASSUME NEW r \in Req, RequestStep(r) PROVE TypeInv' /\ Later(rts, rts')
  BY <1>3, LoginVersionTypes, LoginStoreTypes, InitVersionTypes, ExchangeTtlTypes, ExchangeGetTypes,
     ExchangeDeleteTypes, ExchangeVersionTypes, ExchangeStoreTypes, LogoutIncrTypes,
     LogoutExpireTypes, LogoutDeleteTypes, CrashTypes DEF RequestStep
<1> QED BY <1>1, <1>2, <1>3 DEF Next

\* The state of auth-service keeps its types, and every handler's locals are
\* those its next command needs.
THEOREM TypeInvariant == Spec => []TypeInv
<1>1. Init => TypeInv
  BY InitTypes
<1>2. TypeInv /\ [Next]_vars => TypeInv'
  BY NextTypes
<1> QED BY <1>1, <1>2, PTL DEF Spec

\* TypeOK, the type invariant the runs check.
THEOREM TypeCorrect == Spec => []TypeOK
<1>1. TypeInv => TypeOK
  BY DEF TypeInv
<1> QED BY <1>1, TypeInvariant, PTL

----------------------------------------------------------------------------
(* An exchange that answered has deleted the token it was given.           *)

\* A handler past its DELETE holds a token that is gone.
Spent(q, s) ==
    q.pc \in {"getver", "initver", "store"} /\ q.rt # None => q.rt \in RT /\ s[q.rt].st = "gone"

Descends(p, s) == p # None => p \in RT /\ s[p].st = "gone"

LineageInv == /\ TypeInv
              /\ \A r \in Req : Spent(req[r], rts)
              /\ \A i \in RT : Descends(rts[i].parent, rts)

LEMMA LineageInit == Init => LineageInv
  BY InitTypes DEF Init, LineageInv, Spent, Descends, Idle, Unborn

\* What is gone stays gone, so only what a step changes needs a look.
LEMMA SpentLater ==
    ASSUME NEW s, NEW s2, Later(s, s2), NEW q, Spent(q, s)
    PROVE  Spent(q, s2)
  BY DEF Later, Spent

LEMMA DescendsLater ==
    ASSUME NEW s, NEW s2, Later(s, s2), NEW p, Descends(p, s)
    PROVE  Descends(p, s2)
  BY DEF Later, Descends

\* A step in which no token gets a parent and handler r goes on as q.
LEMMA LineageKept ==
    ASSUME LineageInv, TypeInv', Later(rts, rts'),
           \A i \in RT : Descends(rts'[i].parent, rts) \/ rts'[i].parent = rts[i].parent,
           \A r \in Req : Spent(req'[r], rts') \/ req'[r] = req[r]
    PROVE  LineageInv'
<1>1. ASSUME NEW i \in RT PROVE Descends(rts'[i].parent, rts')
  <2>1. Descends(rts[i].parent, rts)
    BY DEF LineageInv
  <2> QED BY <2>1, DescendsLater
<1>2. ASSUME NEW r \in Req PROVE Spent(req'[r], rts')
  <2>1. Spent(req[r], rts)
    BY DEF LineageInv
  <2> QED BY <2>1, SpentLater
<1> QED BY <1>1, <1>2 DEF LineageInv

LEMMA IdleSpent == \A s : Spent(Idle, s)
  BY DEF Spent, Idle

LEMMA ReadVersionSpent ==
    ASSUME NEW q \in Request, NEW s, q.acct \in Account, ver \in [Biz -> Counter],
           q.rt # None => q.rt \in RT /\ s[q.rt].st = "gone"
    PROVE  Spent(ReadVersion(q), s)
  BY ReadVersionTypes DEF Spent

\* The handler's token is gone when it issues the next one.
LEMMA IssueLineage ==
    ASSUME LineageInv, TypeInv', Later(rts, rts'),
           NEW r \in Req, NEW i \in RT, NEW t, Issue(r, i, t),
           Descends(t.parent, rts)
    PROVE  LineageInv'
<1>1. rts \in [RT -> RefreshToken] /\ req \in [Req -> Request]
  BY TypeOKParts DEF LineageInv, TypeInv
<1>2. ASSUME NEW j \in RT
      PROVE  Descends(rts'[j].parent, rts) \/ rts'[j].parent = rts[j].parent
  BY <1>1 DEF Issue
<1>3. ASSUME NEW x \in Req PROVE Spent(req'[x], rts') \/ req'[x] = req[x]
  BY <1>1, IdleSpent DEF Issue
<1> QED BY <1>2, <1>3, LineageKept

LEMMA NextLineage ==
    ASSUME LineageInv, [Next]_vars
    PROVE  LineageInv'
<1>1. TypeInv' /\ Later(rts, rts')
  BY NextTypes DEF LineageInv
<1>2. /\ rts \in [RT -> RefreshToken] /\ req \in [Req -> Request] /\ ver \in [Biz -> Counter]
      /\ StoreInv(rts)
  BY TypeOKParts DEF LineageInv, TypeInv
<1>3. ASSUME NEW r \in Req
      PROVE  req[r] \in Request /\ Locals(req[r], rts) /\ Spent(req[r], rts)
  BY <1>2 DEF LineageInv, TypeInv, LocalsInv
<1>4. CASE UNCHANGED vars
  BY <1>1, <1>4, LineageKept DEF vars
<1>5. CASE Tick
  <2>1. ASSUME NEW i \in RT PROVE rts'[i].parent = rts[i].parent
    BY <1>2, <1>5, ElapseRefreshTypes DEF Tick, StoreInv
  <2>2. ASSUME NEW r \in Req PROVE Spent(req'[r], rts')
    <3>1. Spent(req[r], rts') /\ req[r] \in Request
      BY <1>1, <1>3, SpentLater
    <3>2. req'[r] = ElapseRequest(req[r])
      BY <1>5 DEF Tick
    <3> QED BY <3>1, <3>2 DEF ElapseRequest, Spent, Request
  <2> QED BY <1>1, <2>1, <2>2, LineageKept
<1>6. ASSUME NEW r \in Req, NEW a \in Account, LoginVersion(r, a) PROVE LineageInv'
  <2> DEFINE q == [Idle EXCEPT !.acct = a]
  <2>1. q \in Request /\ q.acct = a /\ q.rt = None
    BY PeriodTypes, OptTypes DEF Idle, Request
  <2>2. req' = [req EXCEPT ![r] = ReadVersion(q)] /\ UNCHANGED rts
    BY <1>6 DEF LoginVersion
  <2> HIDE DEF q
  <2>3. Spent(ReadVersion(q), rts')
    BY <1>2, <2>1, ReadVersionSpent
  <2> QED BY <1>1, <1>2, <2>2, <2>3, LineageKept
<1>7. ASSUME NEW r \in Req, NEW i \in RT, LoginStore(r, i) PROVE LineageInv'
  BY <1>1, <1>7, IssueLineage DEF LoginStore, Descends
<1>8. ASSUME NEW r \in Req, InitVersion(r) PROVE LineageInv'
  <2>1. Spent([req[r] EXCEPT !.pc = "store"], rts)
    BY <1>3, <1>8 DEF InitVersion, Spent, Request
  <2> QED BY <1>1, <1>2, <1>8, <2>1, LineageKept DEF InitVersion
<1>9. ASSUME NEW r \in Req, NEW i \in RT, ExchangeTtl(r, i) PROVE LineageInv'
  <2>1. \A x \in Req : req'[x] = req[x] \/ req'[x].pc = "xget"
    BY <1>2, <1>9 DEF ExchangeTtl, Idle
  <2> QED BY <1>1, <1>9, <2>1, LineageKept DEF ExchangeTtl, Spent
<1>10. ASSUME NEW r \in Req, ExchangeGet(r) PROVE LineageInv'
  <2>1. \A x \in Req : req'[x] = req[x] \/ req'[x].pc \in {"idle", "xdel"}
    <3>1. req[r] \in Request
      BY <1>3
    <3>2. [req[r] EXCEPT !.pc = "xdel", !.acct = rts[req[r].rt].acct].pc = "xdel"
      BY <3>1 DEF Request
    <3> QED BY <1>2, <1>10, <3>2 DEF ExchangeGet, Idle
  <2> QED BY <1>1, <1>10, <2>1, LineageKept DEF ExchangeGet, Spent
<1>11. ASSUME NEW r \in Req, ExchangeDelete(r) PROVE LineageInv'
  <2>1. req[r].pc = "xdel" /\ req[r].rt \in RT /\ rts[req[r].rt] \in RefreshToken
    BY <1>2, <1>3, <1>11 DEF ExchangeDelete, Locals
  <2>2. rts' = [rts EXCEPT ![req[r].rt] = Gone(rts[req[r].rt])]
    BY <1>2, <1>11 DEF ExchangeDelete
  <2>3. rts'[req[r].rt].st = "gone" /\ \A i \in RT : rts'[i].parent = rts[i].parent
    BY <1>2, <2>1, <2>2, GoneTypes
  <2>4. Spent([req[r] EXCEPT !.pc = "getver"], rts')
    BY <1>3, <2>1, <2>3 DEF Spent, Request
  <2> QED BY <1>1, <1>2, <1>11, <2>3, <2>4, LineageKept DEF ExchangeDelete
<1>12. ASSUME NEW r \in Req, ExchangeVersion(r) PROVE LineageInv'
  <2>1. Spent(ReadVersion(req[r]), rts)
    BY <1>2, <1>3, <1>12, ReadVersionSpent DEF ExchangeVersion, Spent, Locals
  <2> QED BY <1>1, <1>2, <1>12, <2>1, LineageKept DEF ExchangeVersion
<1>13. ASSUME NEW r \in Req, NEW i \in RT, ExchangeStore(r, i) PROVE LineageInv'
  <2> DEFINE q == req[r]
             slides == q.acct \in Sliding
             t == [st |-> "live", acct |-> q.acct, ttl |-> StoredTtl(q.acct, KeptTtl(q.reply)),
                   window |-> IF slides THEN RtTTL ELSE q.window,
                   drift |-> IF slides THEN 0 ELSE q.drift + q.age,
                   late |-> ~slides /\ q.late, parent |-> q.rt]
  <2>1. Issue(r, i, t) /\ t.parent = req[r].rt /\ req[r].pc = "store"
    BY <1>13 DEF ExchangeStore
  <2> HIDE DEF t
  <2>2. Descends(t.parent, rts)
    BY <1>3, <2>1 DEF Spent, Descends
  <2> QED BY <1>1, <2>1, <2>2, IssueLineage
<1>14. ASSUME NEW r \in Req, NEW a \in tokens, NEW i \in Opt(HandedOut), LogoutIncr(r, a, i)
       PROVE  LineageInv'
  <2>1. \A x \in Req : req'[x] = req[x] \/ req'[x].pc = "expire"
    BY <1>2, <1>14 DEF LogoutIncr, Idle
  <2> QED BY <1>1, <1>14, <2>1, LineageKept DEF LogoutIncr, Spent
<1>15. ASSUME NEW r \in Req, LogoutExpire(r) PROVE LineageInv'
  <2>1. ASSUME NEW x \in Req PROVE Spent(req'[x], rts')
    <3>1. Spent(req[x], rts) /\ req[x] \in Request /\ req[r] \in Request /\ rts' = rts
      BY <1>3, <1>15 DEF LogoutExpire
    <3>2. CASE x # r
      <4>1. req'[x] = req[x] \/ req'[x] = [req[x] EXCEPT !.stale = TRUE]
        BY <1>15, <3>2 DEF LogoutExpire, MarkRequest
      <4> QED BY <3>1, <4>1 DEF Spent, Request
    <3>3. CASE x = r
      <4>1. req'[x] = Idle \/ req'[x] = [req[r] EXCEPT !.pc = "lodel"]
        BY <1>15, <3>3 DEF LogoutExpire
      <4> QED BY <3>1, <4>1, IdleSpent DEF Spent, Request
    <3> QED BY <3>2, <3>3
  <2> QED BY <1>1, <1>15, <2>1, LineageKept DEF LogoutExpire
<1>16. ASSUME NEW r \in Req, LogoutDelete(r) PROVE LineageInv'
  <2>1. req[r].pc = "lodel" /\ req[r].rt \in RT /\ rts[req[r].rt] \in RefreshToken
    BY <1>2, <1>3, <1>16 DEF LogoutDelete, Locals
  <2>2. rts' = [rts EXCEPT ![req[r].rt] = Gone(rts[req[r].rt])]
    BY <1>2, <1>16 DEF LogoutDelete
  <2>3. \A i \in RT : rts'[i].parent = rts[i].parent
    BY <1>2, <2>1, <2>2, GoneTypes
  <2> QED BY <1>1, <1>2, <1>16, <2>3, IdleSpent, LineageKept DEF LogoutDelete
<1>17. ASSUME NEW r \in Req, Crash(r) PROVE LineageInv'
  BY <1>1, <1>2, <1>17, IdleSpent, LineageKept DEF Crash
<1> QED BY <1>4, <1>5, <1>6, <1>7, <1>8, <1>9, <1>10, <1>11, <1>12, <1>13, <1>14, <1>15, <1>16,
           <1>17 DEF Next, RequestStep

\* A refresh token has a gone parent, and a handler past its DELETE holds a gone
\* token (refresh_token).
THEOREM LineageInvariant == Spec => []LineageInv
<1>1. LineageInv /\ [Next]_vars => LineageInv'
  BY NextLineage
<1> QED BY <1>1, LineageInit, PTL DEF Spec

\* An exchange that answered has deleted the token it was given.
THEOREM RotatedParentGoneHolds == Spec => []RotatedParentGone
<1>1. LineageInv => RotatedParentGone
  BY DEF LineageInv, RotatedParentGone, Descends
<1> QED BY <1>1, LineageInvariant, PTL
=============================================================================
