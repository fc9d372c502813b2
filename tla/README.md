# OpenShop in TLA+

A verification project for OpenShop, a set of Python (FastAPI) microservices for a local-life
shop: TLA+ modules translated from the source, TLC configurations that check them on small
instances, and proofs that TLAPS checks for every value of the constants.

OpenShop's services are ordinary asyncio programs: one process per service, each request a
coroutine that gives way to the others at every `await`, state in PostgreSQL (one transaction per
request, committed when the endpoint returns) and in Redis (one command at a time, never a script;
`MULTI/EXEC` in one place). What is hard to test in them is therefore what happens *between* the
commands of one handler. All modules take that view: an action is the stretch of a handler up to
and including one command that others can observe.

Paths below are relative to the repository's root.

## 1. The system

| Component | State | Operations | What is hard | What makes it correct |
|---|---|---|---|---|
| auth-service, sessions (`services/auth-service/app/services/auth_service.py`) | Redis `rt:{token}`, `user_perm_ver:{biz_id}`; JWTs in clients' hands | login (password, SMS), exchange of a refresh token, logout | every handler is 2 to 5 Redis commands; keys expire; a crash leaves half of it done | a logout sticks; a refresh token is used once; the fixed window is not stretched |
| auth-service, credentials | `auth_credentials`, `login_logs` | register, set password, SMS login with auto-registration, audit | check-then-insert; the audit row shares the transaction that a refusal rolls back | one account per identity; every attempt leaves a trace |
| api-gateway, access control (`bff/api-gateway/app/core/auth.py`) | none; reads Redis `user_perm_ver`, `user_status`, `user_permissions` | verify a JWT, resolve permissions | reads keys that no service writes, so the token alone decides | a token holds nothing that was revoked before its login |
| api-gateway, proxy and crypto middleware | the public routes loaded at the start, a cached private key | forward by longest prefix; decrypt, verify, encrypt | services that are down at the start; two layers that both read the body | a request that brings what the code asks for is not refused |
| sms-service, rate limits (`services/sms-service/app/core/rate_limiter.py`) | Redis sorted sets per phone and IP | four checks in a row before a send | clock read before the pipeline; a refused request sits in the set until it is withdrawn | no window lets more than its limit pass |
| sms-service, sending (`services/sms-service/app/services/sms_service.py`, `app/providers/`) | Redis `sms:idempotency:{id}`, table `sms_records`, in-memory circuits | send, send-code, delete and clean up records | key, provider, row and circuit change at different moments | a repeated request is answered, not sent again; a failing channel is left alone |
| sms-service, verification codes | Redis `sms:verify:{phone}` | set, compare and delete | GET, then DELETE | a code is accepted once |
| sms-service, administration | templates, policies, channels, client keys | CRUD, one default channel, defaults made at the start | clear-then-set of the default; count-then-delete of a policy | sends of one caller run under one policy |
| captcha-service | Redis challenges and pass tokens | create, verify, verify token | GET, then SET of `used`; passes when Redis is down | one answer per challenge; a machine's gesture fails |
| lead-service | `lead_order`, `lead_status_log`, event `lead.submitted` (RabbitMQ) | submit, convert, cancel | check-then-write; publish before commit | one terminal status; the log tells the life of the lead |
| seo-service | cities, districts, `generation_job`, `seo_page`, the ARQ queue | edit places, trigger, batch, worker | commit, then enqueue; worker retries; pages are found by names that change | a job ends; one page per place and service, about that place |
| ai-service | minute buckets, result cache, call log, template versions | complete, manage templates | two limit checks around the provider call; answers that cannot be written | a minute's limit is kept; a failed call is logged |
| admin-service | admins, roles, permissions, Redis `admin_permissions`, `admin_status` | CRUD, assign, bootstrap | the cache is written before the commit; roles and permissions are read in three statements | the cache agrees with the tables; the bootstrap repairs |
| consumer-service | profiles, points, addresses | CRUD, adjust points | read-modify-write; clear-then-set | points never lost; one default address |
| product-service | category tree, products, groups | CRUD, publish, bind | check-then-delete; a parent that goes | no product loses its category; the tree is a tree |
| git-aggregator-service | repositories, commits | webhook upserts | deliveries repeat and overlap | a delivery that is answered is stored, once |
| merchant-service | tables | none is mounted: constant answers | | |
| notification-service, order-orchestration, BFFs, order-, location-, virtual-number-service | none | forwarding and constant answers | | |

How they interact: a client reaches the services through the gateway, which compares the version
inside the JWT with the counter auth-service keeps in the shared Redis. auth-service asks
sms-service to check a verification code, consumer-service to find or make a consumer, and
admin-service for an admin's permissions. notification-service forwards to sms-service.
lead-service asks product-service whether a product exists and publishes to RabbitMQ.
seo-service asks ai-service for texts from its worker. There is no outbox,
no distributed transaction and no lock: coordination is by unique indexes and single Redis
commands only.

Every hazard found in reading the code is listed in `PROJECT.json` at its line, with the
properties that cover it, or why none does.

## 2. The modules

| Module | Models | Checked with |
|---|---|---|
| `RedisKeys` | Redis string keys with an expiry: SET EX, INCR, EXPIRE, TTL, the passing of time | through `AuthSession` |
| `AuthSession` | login, exchange, logout and the gateway's version check | `MCAuthSession`, `AuthSession.cfg`, `AuthLogout.cfg`, `AuthRotation.cfg` (by hand) |
| `SlidingWindow` | abstract: what the rate limiter promises, without Redis and requests in flight | `RateLimiter.cfg` (by hand) |
| `RateLimit` | the chain of sliding windows of sms-service | `MCRateLimit`, `RateLimit.cfg` |
| `CircuitBreaker` | the provider factory's circuits, as operators | through `SmsSend` |
| `SmsSend` | `/send` and `/send-code` after the limits, record deletion; composed with `CircuitBreaker` | `MCSmsSend`, `SmsSend.cfg`, `SmsOnce.cfg`, `SmsBreaker.cfg` |
| `AuthSession_proofs`, `AuthTokens_proofs` | proofs about `AuthSession` | `tlapm` |
| `RateLimit_proofs`, `SmsSend_proofs` | proofs about `RateLimit`, which implements `SlidingWindow`, and `SmsSend` | `tlapm` |
| `LeadLifecycle` | abstract: what lead-service promises of the life of a lead | as a property of `Leads` |
| `Leads` | lead-service's transactions: submit, convert, cancel | `MCLeads`, `Leads.cfg`, `LeadFinal.cfg` |
| `Leads_proofs` | proofs about `Leads`, and that it implements `LeadLifecycle` | `tlapm` |
| `SeoJobs` | seo-service: the job API, the ARQ queue and worker, editors | `MCSeoJobs`, `SeoJobs.cfg`, `SeoEnds.cfg`, `SeoSteps.cfg` (by hand) |
| `SeoJobs_proofs` | proofs about `SeoJobs` | `tlapm` |
| `AccessControl` | admin-service with its bootstrap and cache, the admin login of auth-service, the gateway's permission check | `MCAccessControl`, `AccessControl.cfg` |
| `AccessControl_proofs` | proofs about `AccessControl` | `tlapm` |
| `Services_proofs` | proofs about `Accounts`, `SmsAdmin`, `Consumers`, `Captcha`, `Completion`, `Catalog`, `GitPush`, `SeoCatalog`, `Gateway` | `tlapm` |
| `Accounts` | verification codes of sms-service, credentials of auth-service, consumers of consumer-service, composed by the SMS login | `MCServices`, `Services.cfg` |
| `SmsAdmin` | sms-service: channels, policies, client keys, start-up defaults | as above |
| `Consumers` | consumer-service: points and addresses | as above |
| `Captcha`, `CaptchaScore` | captcha-service: challenges and tokens; the judgement of a gesture | as above |
| `Completion` | ai-service: limits, cache, provider call, call log | as above |
| `Catalog` | product-service: categories, products, groups | as above |
| `PushStore` | abstract: an answered push event is stored at one moment | as a property of the part git of `MCServices` |
| `GitPush` | git-aggregator-service: push events | as above |
| `SeoCatalog` | seo-service: the names pages are found and inserted under | as above |
| `Gateway` | api-gateway: one request through the middleware and the proxy | as above |
| `MCGateway` | the prefixes and permissions that api-gateway ships, and operations of its `API.md` | `GatewayDocs.cfg` (by hand) |

**RedisKeys.** Time is counted *down*: an entry is a value and the ticks it has left, so no clock
grows. `TtlReplies` is what the TTL command may answer: Redis rounds to the nearest second, so a key in
its last half second is alive and still answers 0. This is modelled because
`exchange_refresh_token` acts on it.

**AuthSession.** `ver` is `user_perm_ver`, `rts` the refresh tokens, `tokens` the unexpired access
tokens anyone holds, `req` the handlers in flight with their locals. `_get_user_perm_ver` is
`ReadVersion` (GET) and `InitVersion` (SET 0, a command later). A login is `LoginVersion`,
possibly `InitVersion`, `LoginStore`; an exchange is `ExchangeTtl`, `ExchangeGet`, `ExchangeDelete`,
`ExchangeVersion`, possibly `InitVersion`, `ExchangeStore`; a logout is `LogoutIncr`, `LogoutExpire`
and, when the client names its refresh token, `LogoutDelete`. `Crash` stops any handler anywhere.
`Accepts` is the gateway's comparison. The counter is per *business id*: account types with equal
ids share it, and the instance checked has a consumer and a merchant that do. The fields `window`, `drift`, `late`, `parent`, `revoked`, `stale` and
`age` are history: no guard reads them but `Tick`'s bound on a handler's age.

**RateLimit.** One sorted set per check. `Arrive` reads the clock, `CheckPassed` and
`CheckRefused` are the MULTI/EXEC of `check_rate_limit`, `Remove` is the withdrawal of a refused
request. The clock advances at each reading, so readings differ (see "not modelled" for equal
readings). `SlidingWindow` has nothing but the clock and the stamps of what passed: a request passes a check at
one moment, and only while fewer than the limit have. `RateLimit` maps to it by its history variable `passed`.

**SmsSend.** `Send` (GET of the key) / `SendCode`, `Select` (the record the key names), `Route`
(`get_provider`), `Answer` (the provider's result with `record_provider_failure` or `_success`),
`Flush` or `FlushConflict` (INSERT under the unique `request_id`; it waits for an uncommitted row
of the same id, as PostgreSQL does), `SetIdem`, `Finish` (COMMIT or ROLLBACK). `Fail` is a
database or Redis error anywhere in between, `Crash` the death of the process, `ExpireIdem` the
end of the 24 hours, `DeleteRecord` the two endpoints that delete records. A
provider call may fail although the message arrives: the HTTP clients time out.

**LeadLifecycle and Leads.** `LeadLifecycle` has no transactions: a lead is announced, appears, is
looked at while pending, and decided by somebody who looked. `Leads` has them. A submission is
`Submit` (the idempotency SELECT), `Insert` (INSERT, flushed), `Publish` (the event, before the
commit) and `Commit`; a settlement is `Open` (SELECT and the status check), `Update` (the flush,
which waits while another transaction holds the row) and `Settle` (COMMIT). `Fail` rolls back
anywhere, `Age` ends the minute of `create_lead`. The refinement mapping shows of a row what another
transaction sees (`Visible`) and of a handler the lead it has looked at (`LookingAt`). Requests that
change nothing are left out. The log is kept in the order of the commits; the
service lists it by `created_at`, which is the start of the transaction.

**SeoJobs.** `Trigger` commits a job, `Enqueue` or `EnqueueFails` follows. The worker's function is
`Start`, then for a batch `Visit` before each page and `Finish` after the last, and for each page
`Skip` or `Load`, `Generate` (one call of the AI service; repeated), `Save` or `Conflict`. `Book` is
where the single task and the batch differ: the first is done with its page in one commit, the second
counts it and goes on. ARQ is external and modelled from how it is used: `Acknowledge`, `Raise`,
`GiveUp`, `Crash`. An editor's PATCH is `OpenPage` (SELECT) and `PatchPage` (UPDATE); both it and
the worker write only the columns they changed, as the ORM does. `generation_count` and
`error_log` decide nothing and are left out. `text`, `reviewed`, `raced` and `touched` are history.

**AccessControl.** Requests that only commit one change are one action each (`CreateAdmin`,
`UpdateRole`, `DeletePermission`, ...). An assignment is `AssignRead`, `AssignFlush` (under the foreign keys and
the primary key), `AssignCache` (SET `admin_permissions:{id}`, before the commit) and `AssignCommit`; `Fail` rolls
back and leaves what went to Redis. The bootstrap is `SeedBegin` (what it finds) and `SeedCommit` (insert what was not
found, repair links and status). An admin's login is `LoginAccount`, `LoginRoles` and `LoginIssue`: three SELECTs
without a snapshot, between which everything may change. `could`, `held`, `granted`, `overlap` and
`excused` are history. `excused` grows with the known reasons for a wrong cache: a failed or overlapped
assignment, and the writes that do not refresh it (delete, rename, bootstrap).

**Accounts.** Three services without a common transaction. `SendCode`, `CheckCode` (GET) and `SpendCode`
(DELETE) are sms-service; `SmsLookup`, `FindConsumer`, `CreateConsumer`, `InsertCredential`, `Commit` the SMS
login, which may fail after each; `Conflict` is the unique index. `Register` and `PasswordLogin`
complete auth-service, `SignUpConsumer` is consumer-service's own endpoint. All four account types log
in here, since they share the table and the lookup.

**SmsAdmin.** `ReadChannel`, `SelectOthers`, `WriteChannel` are upsert and patch of a channel: the flush
writes the columns that differ from what was read. `ReadPolicy`, `CountReferences`, `DeletePolicy` delete a
policy; `StartSelect` and `StartCommit` are `_ensure_defaults` of a starting process. `ResolvedPolicies`
is how a send finds the policy it runs under, for every default row the database may return first.

**Consumers.** `ReadPoints`, `WritePoints`; `Begin`, `ClearDefault` and `TakeDefaults` (an UPDATE that
waits for rows its snapshot shows, then looks at them again), `WriteAddress`. Locks are `held`.

**Captcha, CaptchaScore.** `Fetch`, `ConsumeGet`, `ConsumeSet`, `Score`, `StoreToken`: every Redis
command may fail, with or without effect, and the code goes on. The score is computed with
reals; `FloorOf` and `CeilingOf` bound it from what a track decides exactly (steps back, pauses, equal
speeds), and `Scores` is the whole range between them, so that what holds of it holds of the code.

**Completion.** `Start` and `Admit` or `Refuse` (`check_and_increment`), `Lookup`, `Answered` or
`ProviderFails`, `Recount` (the second call of `check_and_increment`, which increments the same request counter), `Store`, `Commit`.
A text for the caller always ends as 500 (see the findings), and its row is rolled back.
The counters' expiry (120 s) is left out: it would matter only to a pipeline that stalls for more than the minute its key names.

**Catalog.** `BeginCategory`, `InsertCategory` (the parent is read before, and may be gone);
`BeginDelete`, `CountProducts`, `DeleteCategory`; `Bind`, `CreateSpu`, `MoveSpu`, `SetStatus`, and groups with
their items. `used` is the sequence of ids, which never repeat.

**GitPush.** `Receive`, `UpsertRepository` (which holds the repository's row to the end, so pushes to one
repository queue up), `InsertCommit` for each commit, in the order of the push, `Commit` or `Fail`. A platform repeats
deliveries as it likes. `PushStore` has no transactions: a delivery is stored at one moment, and takes what is new then.
`Commit` implements that step and every other action a stutter, which needs that nobody else has inserted, or counted,
what this transaction has.

**SeoCatalog.** Where `SeoJobs` takes the pages of a job as given, this module has the names they are found by:
`WriteCity` (create, or change of the pinyin), `CreateDistrict`, `Start` (the task loads its places and keeps
them), `Look`, `Rewrite`, `Insert` or `Conflict`, `Skip`, `End`.

**Gateway.** One request at a time, since requests share nothing but a cached key: `Decrypt`, `VerifySign`,
`Proxy`, `Forward`, `Return`, each with its refusals, named by their reason. `Restart` and `FetchSpec` are the
start, when the public routes are loaded, with services going `up` and down at any time. Routes with tags are
those `API.md` describes; the catch-all the code ships has none. A route also says which service it goes to, or none (404), and which
permission it `needs`, and a token is the set of permissions it carries (`"*"` is all of them); `Incoming` is the set of requests
looked at. `MCGateway` fills `ROUTE_MAP` and `PERMISSION_MAP` in as they are shipped, and takes from `API.md` the requests it describes.

**MCServices.** Nine parts that share no state: a behaviour is one of one part, chosen in the initial state, while the
variables of the others stay `None`. States add up instead of multiplying, and since no part reads another's variables, nothing that
their interleaving could show is lost. The parts that do interact are composed inside one module
(`Accounts`, `AccessControl`).

## 3. What is checked

Only `EveryJobEnds` assumes fairness: weak fairness of the worker's steps of each job. The code
justifies it: the worker polls the queue, the call of the AI service has a timeout of 60 s
(`services/seo-service/app/services/ai_generator.py`), and no other await waits for anybody. Nothing
is assumed of the API, the editors, or of what the AI service answers; the worker may die at every
step, up to ARQ's number of tries. All other properties are invariants and action properties, so a
handler or the clock may stop anywhere.

| Run | Instance | Shows |
|---|---|---|
| `auth` | 2 handlers, 2 refresh tokens, 2 accounts that share a business id | `TypeOK`; `SoundLogoutSticks`; `WindowKept`; `RotatedParentGone` |
| `rate` | 3 handlers, 2 windows (1 in 6 ticks, 2 in 7), clock up to 9 | `TypeOK`; `RateKept`; `RefusedForCause` |
| `send` | 2 handlers, 1 request id, 1 channel with a fallback, 3 records | `TypeOK`; `HitIsSent`; `AgainNotSent` |
| `leads` | 3 requests, 2 leads of one key, 1 order | `TypeOK`; `TwinsOverlapped`; `OrderKept`; `Lifecycle` (the refinement) |
| `seo` | 2 jobs, one tried twice; 2 pages; 1 retry; 1 editor | `TypeOK`; `Accounted`; `PublishedReviewed`; `ContentKept` |
| `seo_ends` | 1 job tried three times, 2 pages, 2 retries | `EveryJobEnds` |
| `access` | 2 handlers, 1 admin, 2 roles, 2 permissions, codes `*` and another; 3 commits | `TypeOK`; `LoginFresh`; `CacheAgrees`; `SeedRepairs` |
| `services` | 2 or 3 handlers in each of nine parts (bounds below) | 11 invariants, 5 action properties and a refinement, one to three of each part |
| `auth_logout` | 1 handler, 3 refresh tokens | `LogoutInvalidates` does **not** hold |
| `send_once` | as `send` | `DeliveredOnce` does **not** hold |
| `breaker` | 1 handler, recovery after 3 ticks | `OpenUntilRecovery` does **not** hold |
| `lead_final` | 2 requests, 1 lead | `FinalStays` does **not** hold |

The bounds. Every race in these handlers needs two of them: two slots give every interleaving of
two handlers, and since a slot is used again and again, any number of handlers one after the
other. `RateLimit` has three because a refused request, one that passes and one that is refused
by the first's entry are three. Two refresh tokens make a chain of two (a parent and its
successor), which is what `RotatedParentGone` speaks about; the successor competition of
`RotationOneTime` needs three. Tick counts keep the order of the real periods where it matters:
`AccessTTL + ReqMax <= VerTTL` (2 h plus seconds, 24 h); the 30 days of a refresh token are scaled
to 2 ticks, since the code compares them with nothing else. `MaxVer` and `MaxTime` stop the
counter and the clock; `Id` the record sequence. The symmetry sets permute handlers, tokens and
record ids, which appear in no constant expression; account types and channels are not permuted.
`Leads` has three requests, so that two settlements of a lead overlap with a third; two leads make a
pair of twins. In `SeoJobs` two jobs and two pages give a batch that meets a single job, or another
batch, on a page before and after its own; both kinds, forced and not, are chosen by `Trigger`.
One of the two jobs is restarted: which one is indifferent, since either may be of any kind.
The editor moves pages to `draft` and `published`; `needs_review` differs from `draft` in no guard.
`seo_ends` has one job because jobs wait for each other nowhere. `SeoJobs.cfg` and `SeoEnds.cfg` switch
deadlock checking off because everything may be done; `RateLimit.cfg` switches deadlock checking off because the clock stops at `MaxTime`.

`access` has one admin because nothing relates two but the unique username, and two roles and permissions so that a code can
come by the one while it is taken from the other; three commits are what it takes to create what the fourth request then reads: with
the bootstrap, which creates three rows at once, all of them are there after one. In `services`, `SmsAdmin` has two channels, the one that a
start makes and one more, two policies, three commits; `Consumers` three addresses and a balance up to 3; `Captcha` one challenge with up to two
tokens and every track of two or three of four points, which has rests, repeated and equal times, and steps back;
`Completion` three requests, two minutes, a limit of 3 that two answered requests exceed; `Catalog` three categories on
two levels, one product, one group; `GitPush` two repositories, two commits, three deliveries, pushes of up to two commits,
the same one twice included; `Accounts` three handlers on one phone, two account types, two sends; `SeoCatalog` two
cities, either of which may be named as the other, one district slug, two jobs, three edits; `Gateway` two services, every
combination of tags, paths that no prefix fits, a permission that a route needs or not, and requests with that permission, a token without it, or no token. Three handlers are given where a third can meet two that overlap (`Completion`'s counter, `Accounts`'
one code for two logins). The bounds `MaxEdits`, `MaxSends`, `MaxDeliveries`, `MaxMinute`, `MaxTokens`, `MaxPoints` and `MaxSum` stop
what grows. The parts of `services` end where everything is bounded, so `Services.cfg` switches deadlock checking off. Handlers are permuted, and roles and permissions.

`rate` shows with `RefusedForCause` that nobody is turned away for nothing: unless another refusal is just being withdrawn, or its
handler died before it was, `Limit` requests have passed in the window. Two configurations are for running by hand, next to the
proofs: `RateLimiter.cfg` (module `MCRateLimit`) checks that `RateLimit` implements `SlidingWindow`, `SeoSteps.cfg` (`MCSeoJobs`) that the
number of steps a job has left goes down (`WorkShrinks`) and that the worker can always take one (`NeverStuck`).

What the properties of `access` and `services` say:

* `LoginFresh`: what a token may do was granted, while its login ran, to a role the admin held while it ran.
  `CacheAgrees`: a cached permission set is what the tables say unless there is a known reason. `SeedRepairs`: after an undisturbed
  bootstrap the root admin can do everything, whatever was deleted or renamed before.
* `OnePolicy`: all sends of a caller run under one policy until channel writes overlap. `BalanceTrue`,
  `OneDefaultAddress`, `NoProductLeft`: what holds until two requests overlap in the way named; `DefaultAddressKept` holds even then.
* `TokensSound`: one token for a challenge, which can then not be answered, unless two verifications overlap.
  `MachinesFail`: a gesture of one speed that never steps back fails, whatever the curves give.
* `WithinLimits`: requests are let through only while those let through and the answers counted are within the
  limit. `CallsLogged`: a call whose provider failed is logged, and a cached text is that of its own prompt.
* `DeliveriesAtomic`: however deliveries repeat and overlap, each is as if stored at the moment of its COMMIT (`PushStore`); so an
  answered one left its rows, and each row was counted by one answer (`Delivered`).
* `CodeOnce`: a code is accepted again only by a check that overlaps. `CredentialsNameConsumers`: a credential made by an SMS
  login names an existing consumer of that phone. `ConflictsOverlap`: a login that is alone is not refused by an index, whatever earlier ones left half done.
* `PageAbout`, `AloneSucceeds`: a page shows its own place's text, and a job that is alone does not fail on an index, as long as cities keep names of their own.
* `EntitledServed`: a request for a prefix that `ROUTE_MAP` has, with the body, signature and permission that the code asks for there, is
  not refused, whichever other services were down at the start. It does not say that the code asks for what `API.md` says: it does not.

### What the failing runs show

* **`auth_logout`.** `user_perm_ver` is created as 0 with 24 hours by a first login and not prolonged by
  the next ones. Once it is gone, the `INCR` of a logout recreates it as 1. A token issued
  after an *earlier* logout carries just that version and goes on being accepted:
  `docs/src/content/docs/03-api-reference/auth.md:215` says all access tokens die at once.
  `SoundLogoutSticks` is the promise the code does keep: where the counter was there and nobody
  was about to write its 0, the refusal lasts as long as the tokens.
* **`RotationOneTime`** (run by hand: `tlc -config AuthRotation.cfg MCAuthSession`). TTL, GET and DELETE are three commands and the number of deleted keys is
  ignored, so two overlapping exchanges of a token both succeed; the comment at
  `auth_service.py:440` calls it one-time use.
* **`send_once`.** The idempotency key is written after the provider call; overlapping requests
  with one `request_id` are both delivered. `docs/src/content/docs/05-services/sms-service/prd.md:82`
  says the opposite. `AgainNotSent` is what does hold: once sent, recorded and remembered, a
  request is not sent again while the record exists.
* **`breaker`.** Results are booked on the channel that was asked for even when the fallback sent, so the
  fallback's first success closes the failing channel's circuit before its recovery timeout.
* **`lead_final`.** `convert_lead` and `cancel_lead` check the status they have read and then UPDATE by
  id. Of two that both read `pending` the later replaces the terminal status of the earlier, against
  `services/lead-service/README.md:23`. `Lifecycle` and `OrderKept` are what does hold: nobody who
  *reads* a terminal status touches the lead, the log has both entries, and the order of a
  conversion survives a cancellation.

Properties stated in the modules that TLC refutes as soon as a cfg names them, each a finding in `PROJECT.json` without a
run of its own:

* **`Completion!PaidCallsLogged`.** `JSONResponse` gets a UUID (`complete.py:234`, `:281`) or a datetime
  (`templates.py:29-188`, `logs.py:60`, `:134`) and raises after the flush: completions are answered 500, no paid call is logged, no
  template is ever stored.
* **`AccessControl!DisabledRefused`.** The gateway reads `user_status` and `user_permissions`; admin-service writes
  `admin_status` and `admin_permissions`, so disabling an admin does not reach the gateway.
* **`SmsAdmin!UsedPolicyStays`.** The policy `default`, used by channels without one, can be deleted.
* **`SeoCatalog!PageAboutAlways`.** A pinyin may be another city's slug, and may change: pages are overwritten by another
  city's text, or cannot be inserted any more.
* **`Gateway!DecryptedForwarded`.** A decrypted body is forwarded with the length of the encrypted one.
* **`MCGateway!DescribedMapped`.** `API.md:320-338` lists fifteen prefixes that are forwarded. `ROUTE_MAP` has three of them
  (`/api/auth`, `/api/admins`, `/api/v1/ai`; `router.py:21-48`), and the others, roles and permissions among them, are answered 404.
* **`MCGateway!ToldSuffices`.** For the list of admins `API.md:496` names the permission `user:list`, `auth.py:11` asks for
  `admin.admins.view`: 403. Roles and permissions differ in the same way.
  Both are run by hand with `tlc -continue -config GatewayDocs.cfg MCGateway`; `EntitledServed` holds there too.

Divergences met in reading that need no run:

* `auth_service.py:421-422` says the fixed window is never extended; line 464 gives a whole
  period when TTL answers 0. `WindowKept` names the exception (`late`).
* The failed-login rows of `auth_service.py:100` are rolled back by the 401 that follows. A password login to an account made by
  SMS, which has no hash, raises (500).
* merchant-service mounts only its stub router, so the logins of merchant sub-accounts and staff (`auth_service.py:479`,
  `:509`) always meet a 404.
* ai-service: the token limit never refuses, since its result is ignored for the answer at hand and the first check passes no tokens
  (`rate_limiter.py:49`), and an answered call counts as two requests (`complete.py:148`); `docs/src/content/docs/11-requirements/ai-service.md:311-314`
  says otherwise.
* api-gateway: `API.md:86` calls `/api/auth/login` public, a path auth-service does not have, so it is answered 401; so is `/metrics`
  (`API.md:95`), which the gateway does not serve. `setup_rate_limiting` (`middleware/rate_limit.py:11`) is never called, so the limits of `API.md:99-100` are not applied.
* captcha-service: `scorer.py:128` says a score above the threshold passes; the code lets one equal to it pass. A verification
  without Redis passes without a token, and a token may be checked more than once.
* product-service: creating a product does not look at its category (`docs/src/content/docs/11-requirements/product-service.md:42`); deleting
  a category leaves its children; one with bound attributes cannot be deleted.
* git-aggregator-service: the statistics query joins two one-to-many tables and counts products of rows
  (`commit_service.py:151-167`); time zones are dropped (line 51); a sha that a second repository also has is skipped.
* seo-service's migration gives a JSONB column the default `"'[]'"`, which renders as a string with quotes (read, not run).
* `docs/.../sms-service/prd.md:42-43` puts the idempotency check before the rate limits; the code
  does it after. `prd.md:91` keeps the circuit state in Redis; the code keeps it in memory, per
  process.
* `services/lead-service/README.md:92` promises one lead per phone and products within a minute;
  overlapping submissions create two. `TwinsOverlapped` is what holds.
* `docs/src/content/docs/11-requirements/seo-service.md:49` says that a failed page does not stop the
  others; when another job has inserted the page meanwhile, the unique index makes the whole batch raise
  (`Conflict`), and the job says `running` for ever. Line 41 says that a fresh page is a draft; a PATCH
  to `published` during a forced generation leaves the new text published (`raced`).
* `sms_service.py:174-176` handles a fallback provider in a branch that cannot be reached.

## 4. What is proved

Each theorem holds for every value of the constants that satisfies the module's assumptions.

| Module | Theorem | Inductive invariant |
|---|---|---|
| `AuthSession_proofs` | `TypeCorrect`: `Spec => []TypeOK`; `RotatedParentGoneHolds` | `TypeInv`; `LineageInv` |
| `AuthTokens_proofs` | `SoundLogoutSticksHolds`, `WindowKeptHolds` | `SoundInv`, `WindowInv` |
| `RateLimit_proofs` | `RateKeptHolds`, `RateTypes`; `RefusedForCauseHolds`; `LimiterImplements` | `RateInv`; `OwnedInv`; both |
| `SmsSend_proofs` | `HitIsSentHolds`, `AgainNotSentHolds`, `SendTypes`; `PrimaryStarves` | `SendInv`; `TypeOK` |
| `Leads_proofs` | `LeadTypes`, `TwinsOverlappedHolds`, `OrderKeptHolds`, `LeadsImplementLifecycle` | `LeadInv` |
| `SeoJobs_proofs` | `JobTypes`, `AccountedHolds`, `PublishedReviewedHolds`, `ContentKeptHolds`; `WorkShrinksHolds`, `WorkProgress` | `JobsInv` |
| `AccessControl_proofs` | `AccessTypes`, `LoginFreshHolds`, `CacheAgreesHolds`, `SeedRepairsHolds` | `TypeInv`, `FreshInv`, `CacheInv`, `SeedInv` |
| `Services_proofs`: accounts | `CredentialsNameConsumersHolds`, `CodeOnceHolds`, `ConflictsOverlapHolds` | `AccountsInv` |
| places and pages | `PageAboutHolds`, `AloneSucceedsHolds` | `SeoInv` |
| captchas | `TokensSoundHolds`, `MachinesFailHolds`; `PreprocessClean`, `EveryGestureJudged` | `CaptchaInv`; none |
| consumers | `BalanceTrueHolds`, `OneDefaultAddressHolds`, `DefaultAddressKeptHolds` | `ConsumersInv` |
| pushes | `DeliveredHolds`, `GitPushImplements`, `DeliveriesAtomicHolds` | `GitInv` |
| gateway | `EntitledServedHolds` | `GatewayInv` |
| SMS administration | `OnePolicyHolds` | `SmsInv` |
| completions | `CallsLoggedHolds`, `WithinLimitsHolds` | `CompletionInv`, `CountInv` |
| catalog | `TreeSoundHolds`, `NoProductLeftHolds` | `CatalogInv` |
| all nine | `TypesHold` | all of these, `SeoRows` |

* **`TypeInv`** adds to `TypeOK` what the locals of a handler are at each program counter (a
  handler past its GET has an account, one that exchanges names a token that was handed out);
  without it a step could store a token without an account.
* **`LineageInv`** adds that a handler past its DELETE names a token that is gone, and what is
  gone stays gone because token strings are generated once.
* **`SoundInv`** is the deep one. `SoundLogoutSticks` speaks of tokens that exist; a handler that
  has read an old version will mint another. So the invariant covers handlers as well, and it looks
  ahead: `Safe(ver, req, b, n, h)` says that for the next `h` ticks the counter of `b` is there,
  beyond `n`, and nobody is about to reset it. A token needs that for as long as it has left, a
  handler for `AccessTTL` plus what it may still run. `AccessTTL + ReqMax <= VerTTL` is exactly
  what makes an `EXPIRE` enough.
* **`WindowInv`** relates a token's time to its chain's window, and the TTL a handler has read
  to the window it has carried along since.
* **`RateInv`** says that what passed recently is in the sorted set (`RecentInv`), or else its
  key could drop it early; the EXPIRE of window + 1 is what makes that hold although the pipeline runs
  later than the clock was read. `OwnedInv` says that what is in a set and has not passed has a request that will take it out;
  so a full set in which no refusal is waiting to be withdrawn is full of what passed (`RefusedForCauseHolds`).
  `LimiterImplements` is the refinement: what the pipeline counts is never less than what `SlidingWindow` counts.
* **`SendInv`** ties the rows, their owners (an uncommitted row belongs to exactly one handler), the
  handlers' locals and the idempotency key together: a key names a row of its own request id,
  which is `SENT` once its transaction has ended, or gone. `PrimaryStarves` is the other side of the run `breaker`: failures of the
  fallback, too, are booked on the channel that was asked for, so as long as they come sooner than the recovery timeout
  the channel is not tried again, however well it is.
* **`LeadInv`** says what a handler's locals are worth at each of its commands: one that
  inserts or publishes owns an uncommitted row of its key and nobody else does, one that settles holds a
  lead that is there. For the twins it adds that a row's `peers` are settled or
  older than a minute, and stay so (`Spent`). `LeadsImplementLifecycle` maps every action to one of `LeadLifecycle` or to a
  stutter: `Commit` is `Appear`, `Publish` is `Announce` or nothing, `Open` is `Look`, `Settle` is
  `Decide`; the invariant is what makes an announced lead one that cannot be seen yet.
* **`JobsInv`** counts. A task on the n-th page of its plan has booked the n - 1 before it, and as many as
  it calls created or skipped are there (`There`, `CountFits`); since pages never go away, that survives
  whatever other jobs and editors do, and a restart begins with an empty count (`RowFits` keeps what the row said
  before). `SeenFits` says what the session still knows of the page it has loaded: a page it saw is there, a job
  that does not force saw none, and one that has turned published since is marked `raced`. The first gives
  `Accounted`, the second `ContentKept` (an INSERT meets the unique index), the third `PublishedReviewed`.
* **`StepsLeft`** is the measure behind `EveryJobEnds`: the tries a job has left, times what a try may take, and what is
  left of the current one. `WorkShrinksHolds` says that every step of the worker, its death included, takes from it and nothing
  gives to it; the invariant is what makes it a number. `WorkProgress` adds weak fairness: a queued job leaves, or comes to have
  fewer steps. Its hypothesis `[]NeverStuck` is about `ENABLED` and stays with TLC (`SeoSteps.cfg`), as does the last step, from
  "always fewer" to "in the end none", which is an induction over temporal formulas.
* **`AccessControl`** needs four. `TypeInv` says that an assignment past its flush names rows that are
  there (`Holds`): its row locks make every deletion wait, which is why the foreign keys hold when it commits. One
  lemma says what the end of any transaction does to the other requests (`EndsAs`), one lemma per transaction what it
  does to the rows. `FreshInv` says that a login in flight knows all its admin holds and all its roles are granted
  (`Watches`), so that what it reads last was granted to a role that was held. `CacheInv` says that of two writers at
  work both know it (`Overlaps`), and that an undisturbed assignment between its SET and its COMMIT has written what
  its COMMIT will make true (`Ahead`); admins it does not affect keep their codes. `SeedInv` says that what an
  undisturbed bootstrap has read is still true when it commits. The ids of different tables are taken to be
  different values, which they are as pairs of table and id.
* **`AccountsInv`** says that of two handlers of one phone at work at once the later knows of the earlier (`Met`),
  that what a handler has read is still so while it is alone (`KnowsRows`), and that the code Redis keeps is the
  last one sent, not used up (`Codes`). A refused registration therefore had company, which is `ConflictsOverlap`.
* **`SeoInv`** says that what a job has looked up is of its own place unless a name was shared, and that the
  rows one that is alone has missed are still missing.
* **`CaptchaInv`** says that a handler past its SET works for a challenge that is over, and that one that was alone
  all along is the first to be given a token for its challenge.
* **The score** is a recursive function of the track, and `MachinesFailHolds`, `PreprocessClean` and `EveryGestureJudged` hold for
  tracks of any length. The induction is over a set of numbers (`AllNumbers`, from the least element of its complement), so no
  theorem with an operator as a parameter is needed: `KeptPicks` says that what deduplication keeps is an
  increasing choice of positions, neighbours of which differ. `MachinesFailHolds` assumes `PassScore > 60`: one speed and no step back
  leave at most 60 of the 100 points to be earned. The default is 70 (`services/captcha-service/app/core/config.py`).
* **`ConsumersInv`** says that a request that is alone knows the balance it adds to, and the default it clears.
* **`GitInv`** says that what a delivery has inserted and not committed nobody else has, and that every commit it
  has gone past has a row, or will have one with the transaction; what a delivery has inserted is of its own push and is counted
  by nobody yet, which makes its COMMIT the one step of `PushStore` (`MineIsNew`, `GitStepMaps`).
* **`GatewayInv`** says that a service which is there from the start of a load to its end has been loaded or is
  still to be asked, and that an entitled request has met no refusal on its way (`Served`).
* **`SmsInv`** says that an undisturbed channel request still knows its row and the other defaults (`KnowsChannels`).
* **`CompletionInv`** says that only a failed call is about to be logged, and that it has stored nothing (`Cached`).
  `CountInv` says that a minute's counter is at least the number of requests admitted and answers counted in it, and
  that no request is either before it has come so far: with that, `Admit`'s bound on the counter bounds the requests.
* **`CatalogInv`** says that a row is sound before it is inserted, since ids are never given twice (`RowSound`), and that
  a category counted empty is empty unless somebody came in between (`KnowsCatalog`).

`Services_proofs` extends `MCServices`: for each part it shows that the part's own specification keeps the invariant
(`AccountsInvariant`, `SeoInvariant`, ...), that this stays so where the other parts rest, and from there the
properties of the run `services`, word for word. `TypesHold` gathers the type invariants; for `SeoCatalog` it needs one
more, `SeoRows`: no row that a page, a district or a job refers to goes away.

Assumptions: the theorems about a part's own specification take its assumption as a hypothesis. The others rest on
`LeadAssumption` (`Leads`), `TimeAssumption`, `AccountAssumption` (`AuthSession`), `GateAssumption` (`RateLimit`),
`BreakerAssumption` (`CircuitBreaker`), `SendAssumption` (`SmsSend`), `SeoAssumption` (`SeoJobs`), `AccessAssumption`
(`AccessControl`) and `PartsAssumption` (`MCServices`, those of its nine parts). TLC evaluates each of them in the
passing runs.

Only model-checked: `EveryJobEnds` (`SeoJobs`), whose measure and induction step are proved; that the worker is never stuck; the
refuted properties. Out of the prover's reach: `ENABLED`, the induction over temporal formulas that turns a measure into termination,
and the library's induction theorems that take an operator as a parameter (an induction over a set of numbers does their work where the proofs need one).

## 5. Plan

What is left, in this order.

1. Abstract specifications, in the way of `PushStore`, for `Consumers` (the point account) and `Accounts` (the one-time code), and that they are implemented.
2. The recovery of a circuit when traffic pauses for the timeout: the liveness that `PrimaryStarves` leaves, under fairness of traffic and of the clock.
3. SKUs of product-service and message templates of sms-service, if they come to have state that something reads.
4. ai-service's prompt templates and merchant-service's roles, once their writes are kept and their routes mounted.

## 6. What is not modelled

* **Code that changes nothing.** Queries and statistics; ai-service's templates, whose every write is rolled back;
  merchant-service, where only constant answers are mounted; the placeholders (order, location, virtual number, orchestration) and the BFFs
  and notification-service, which forward one call and keep nothing.
* **Rows nothing reads**: login log, audit log, texts of profiles, addresses, pages and message templates, SKUs.
* **Data**: the cryptography itself, the vendors' HTTP signing, the reals of the captcha score (bounded, see `CaptchaScore`), the web
  front ends, deployment files and the documentation site.
* **Equal clock readings.** Two requests with equal readings share one member of the rate limiter's sorted set; the
  model's readings differ, as `time.time()` readings practically do.
* **Failures of storage.** Redis is one server that executes commands in order; its loss of data in a failover is not
  modelled, nor is a database that loses committed rows.
