----------------------------- MODULE MCServices -----------------------------
(***************************************************************************)
(* Nine parts of the system that share no state, checked in one run: a    *)
(* behaviour is one of one part, chosen in the initial state, while the    *)
(* others rest.  Its states are the sum of the parts' states and not their *)
(* product, and no interleaving of two parts could violate a property of   *)
(* one.                                                                    *)
(***************************************************************************)
EXTENDS Integers, Sequences, TLC

CONSTANTS
    Req, Crowd, None, \* two handlers, or three
    Channel, Underline, Policy, Default, Given, Key, MaxEdits,  \* SmsAdmin
    Addr, Earn, Spend, MaxPoints, MaxSum,                       \* Consumers
    Challenge, Tracks, Durations, MinGesture, MaxGesture, PauseSpeed, PassScore, RejectScore, MaxTokens, \* Captcha
    Prompt, Ttl, Tokens, RATE_LIMIT_RPM, MaxMinute,             \* Completion
    Cat, Spu, Group, Root, MAX_CATEGORY_LEVEL,                  \* Catalog
    Repo, Sha, MaxDeliveries,                                   \* GitPush
    Phone, Elsewhere, Kind, Asking, MaxSends,                   \* Accounts
    City, Pinyin, Slug,                                         \* SeoCatalog
    Service, Permission, Incoming                               \* Gateway

VARIABLES
    part, \* the part that runs
    req,  \* its handlers
    channels, policies, keys,                                   \* SmsAdmin
    points, sum, addrs, skewed,                                 \* Consumers
    challenge, tokens, issued, ended, unsaved, overlapped,      \* Captcha
    minute, rpm, tpm, cache, calllog, answer,                   \* Completion
    cat, spu, group, item, bound,                               \* Catalog
    repos, commits, saved, acked, answered,                     \* GitPush
    cred, consumers, code, sends, spent,                        \* Accounts
    cities, districts, pages,                                   \* SeoCatalog
    up, unasked, loaded, steady, key, call,                     \* Gateway
    clash,                                                      \* SmsAdmin or Consumers
    edits,                                                      \* SmsAdmin or SeoCatalog
    used                                                        \* Catalog or SeoCatalog

smsVars == <<channels, policies, keys>>
consumerVars == <<points, sum, addrs, skewed>>
captchaVars == <<challenge, tokens, issued, ended, unsaved, overlapped>>
completionVars == <<minute, rpm, tpm, cache, calllog, answer>>
catalogVars == <<cat, spu, group, item, bound>>
gitVars == <<repos, commits, saved, acked, answered>>
accountVars == <<cred, consumers, code, sends, spent>>
seoVars == <<cities, districts, pages>>
gatewayVars == <<up, unasked, loaded, steady, key, call>>

vars == <<part, req, smsVars, consumerVars, captchaVars, completionVars, catalogVars, gitVars, accountVars, seoVars,
          gatewayVars, clash, edits, used>>

SA == INSTANCE SmsAdmin
CO == INSTANCE Consumers
CA == INSTANCE Captcha
CM == INSTANCE Completion WITH Req <- Crowd
CT == INSTANCE Catalog
GP == INSTANCE GitPush
PS == INSTANCE PushStore
AU == INSTANCE Accounts WITH Req <- Crowd
SE == INSTANCE SeoCatalog
GW == INSTANCE Gateway

ASSUME PartsAssumption ==
    /\ SA!SmsAdminAssumption /\ CO!ConsumersAssumption
    /\ CA!ScoreAssumption /\ CA!CaptchaAssumption
    /\ CM!CompletionAssumption /\ CT!CatalogAssumption /\ GP!GitAssumption
    /\ AU!AccountsAssumption /\ SE!SeoCatalogAssumption
    /\ GW!GatewayAssumption

\* Every track of two or three of these points: rests, repeated and equal times,
\* steps of one or two pixels, sideways and back.
Points == {[t |-> 5, x |-> 0, y |-> 0], [t |-> 6, x |-> 1, y |-> 0], [t |-> 7, x |-> 2, y |-> 0],
           [t |-> 7, x |-> 0, y |-> 1]}
MCTracks == UNION {[1..n -> Points] : n \in 2..3}

\* Requests for every combination of tags, where permissions do not matter; for routes that
\* need one; and for paths that no prefix fits.
MCIncoming ==
    LET Tagged == [service : Service, public : BOOLEAN, tags : SUBSET GW!Tags, needs : {None}]
        Guarded == [service : Service, public : BOOLEAN, tags : {{}}, needs : Permission]
        Unmapped == [service : {None}, public : {FALSE}, tags : {{}}, needs : Permission \cup {None}] IN
    [route : Tagged, token : {None, {}}, body : {"plain", "envelope"},
     over : {"plain", "envelope", "nothing"}, timely : BOOLEAN]
    \cup [route : Guarded \cup Unmapped, token : {None} \cup SUBSET Permission, body : {"plain"},
          over : {"nothing"}, timely : {FALSE}]

\* The parts share model values, so that the group stays small.
Symmetry == Permutations(Req) \cup Permutations(Crowd)

Parts == {"sms", "consumer", "captcha", "completion", "catalog", "git", "accounts", "seo", "gateway"}

\* The variables of the parts that do not run are None, and stay so.
Init ==
    /\ part \in Parts
    /\ IF part = "sms" THEN SA!Init
       ELSE channels = None /\ policies = None /\ keys = None
    /\ IF part = "consumer" THEN CO!Init
       ELSE points = None /\ sum = None /\ addrs = None /\ skewed = None
    /\ IF part = "captcha" THEN CA!Init
       ELSE challenge = None /\ tokens = None /\ issued = None /\ ended = None /\ unsaved = None /\ overlapped = None
    /\ IF part = "completion" THEN CM!Init
       ELSE minute = None /\ rpm = None /\ tpm = None /\ cache = None /\ calllog = None /\ answer = None
    /\ IF part = "catalog" THEN CT!Init
       ELSE cat = None /\ spu = None /\ group = None /\ item = None /\ bound = None
    /\ IF part = "git" THEN GP!Init
       ELSE repos = None /\ commits = None /\ saved = None /\ acked = None /\ answered = None
    /\ IF part = "accounts" THEN AU!Init
       ELSE cred = None /\ consumers = None /\ code = None /\ sends = None /\ spent = None
    /\ IF part = "seo" THEN SE!Init
       ELSE cities = None /\ districts = None /\ pages = None
    /\ IF part = "gateway" THEN GW!Init
       ELSE up = None /\ unasked = None /\ loaded = None /\ steady = None /\ key = None /\ call = None
    /\ part = "gateway" => req = None
    /\ part \notin {"sms", "consumer"} => clash = None
    /\ part \notin {"sms", "seo"} => edits = None
    /\ part \notin {"catalog", "seo"} => used = None

\* The variables that are not of part p stay as they are.
OthersRest(p) ==
    /\ UNCHANGED part
    /\ p # "sms" => UNCHANGED smsVars
    /\ p # "consumer" => UNCHANGED consumerVars
    /\ p # "captcha" => UNCHANGED captchaVars
    /\ p # "completion" => UNCHANGED completionVars
    /\ p # "catalog" => UNCHANGED catalogVars
    /\ p # "git" => UNCHANGED gitVars
    /\ p # "accounts" => UNCHANGED accountVars
    /\ p # "seo" => UNCHANGED seoVars
    /\ p # "gateway" => UNCHANGED gatewayVars
    /\ p \notin {"sms", "consumer"} => UNCHANGED clash
    /\ p \notin {"sms", "seo"} => UNCHANGED edits
    /\ p \notin {"catalog", "seo"} => UNCHANGED used

Next ==
    \/ part = "sms" /\ SA!Next /\ OthersRest("sms")
    \/ part = "consumer" /\ CO!Next /\ OthersRest("consumer")
    \/ part = "captcha" /\ CA!Next /\ OthersRest("captcha")
    \/ part = "completion" /\ CM!Next /\ OthersRest("completion")
    \/ part = "catalog" /\ CT!Next /\ OthersRest("catalog")
    \/ part = "git" /\ GP!Next /\ OthersRest("git")
    \/ part = "accounts" /\ AU!Next /\ OthersRest("accounts")
    \/ part = "seo" /\ SE!Next /\ OthersRest("seo")
    \/ part = "gateway" /\ GW!Next /\ OthersRest("gateway") /\ UNCHANGED req

Spec == Init /\ [][Next]_vars

----------------------------------------------------------------------------
(* The properties of the parts; each module says what its own are about.   *)

\* The rows, keys and handlers of the part are what its module says: foreign
\* keys lead somewhere, locked rows are locked once, balances are not negative,
\* and the category tree of product-service is a tree.
TypesOK ==
    /\ part = "sms" => SA!TypeOK
    /\ part = "consumer" => CO!TypeOK
    /\ part = "captcha" => CA!TypeOK
    /\ part = "completion" => CM!TypeOK
    /\ part = "catalog" => CT!TypeOK /\ CT!TreeSound
    /\ part = "git" => GP!TypeOK
    /\ part = "accounts" => AU!TypeOK
    /\ part = "seo" => SE!TypeOK
    /\ part = "gateway" => GW!TypeOK

\* sms-service: sends of one caller run under one policy (upsert_channel).
OnePolicy == part = "sms" => SA!OnePolicy

\* consumer-service: the balance is the sum of the adjustments (adjust_points).
BalanceTrue == part = "consumer" => CO!BalanceTrue

\* consumer-service: at most one default address (_clear_default) ...
OneDefaultAddress == part = "consumer" => CO!OneDefaultAddress

\* ... and one that is there does not get lost (set_default_address).
DefaultAddressKept == [][part = "consumer" => CO!KeepsDefault]_vars

\* captcha-service: one token for a challenge, which is used up (consume_challenge).
TokensSound == part = "captcha" => CA!TokensSound

\* captcha-service: a machine-made gesture does not pass (compute_score).
MachinesFail == part = "captcha" => CA!MachinesFail

\* ai-service: the answers of a minute count against its limit (check_and_increment).
WithinLimits == [][part = "completion" => CM!KeepsLimit]_vars

\* ai-service: a failed call has its row of call_log, and only its text is missing (_run_completion).
CallsLogged == part = "completion" => CM!CallsLogged

\* product-service: no category is deleted under its products (delete_category).
NoProductLeft == [][part = "catalog" => CT!LeavesNoProduct]_vars

\* git-aggregator-service: a delivery that is answered is stored once (save_push_event) ...
Delivered == part = "git" => GP!Delivered

\* ... and at one moment, whatever else is stored meanwhile: its transaction implements
\* PushStore, with its COMMIT as Deliver.
DeliveriesAtomic ==
    /\ part = "git" => PS!Init
    /\ [][part = "git" => [PS!Next]_(PS!vars)]_vars

\* auth-service: a credential made by an SMS login names a consumer (_find_or_create_consumer).
CredentialsNameConsumers == part = "accounts" => AU!CredentialsNameConsumers

\* sms-service: a code is accepted once (verify_code).
CodeOnce == [][part = "accounts" => AU!AcceptsOnce]_vars

\* auth-service: a login that is alone is not refused by a unique index (login_by_sms).
ConflictsOverlap == [][part = "accounts" => AU!RefusesOverlaps]_vars

\* seo-service: a page shows its own city's text, as long as no two cities have had
\* one name (generate_single_page).
PageAbout == part = "seo" => SE!PageAbout

\* seo-service: a job that is alone does not fail on a unique index, as long as the
\* cities keep names of their own (generate_batch_pages).
AloneSucceeds == part = "seo" => SE!AloneSucceeds

\* api-gateway: a request that brings what the code asks of it is not refused (proxy, dispatch).
EntitledServed == part = "gateway" => GW!EntitledServed
=============================================================================
