------------------------------ MODULE Gateway ------------------------------
(***************************************************************************)
(* What api-gateway does with a request: decrypt it, verify its signature, *)
(* ask for a token unless the route is public, forward it, and encrypt the *)
(* answer.  Which routes are public it asks its services when it starts.   *)
(*                                                                         *)
(* A request is answered by name of the reason: several share a status.    *)
(* The tags are those that API.md offers, on routes that forward as proxy  *)
(* does; the one route of the code, the catch-all, has no tag.             *)
(* Requests write nothing that they share but the cached key, and one at a *)
(* time is enough.  A token is what it lets its bearer do; which tokens    *)
(* are refused altogether is AuthSession's and AccessControl's.            *)
(***************************************************************************)
CONSTANTS
    Service, \* the services of ROUTE_MAP
    Permission,
    Incoming, \* the requests looked at
    None

Tags == {"sign", "decrypt", "encrypt"}

\* The service, or None if no prefix of ROUTE_MAP fits, whether it tags the route as
\* public, the tags here, and the code that PERMISSION_MAP asks for, or None.
Route == [service : Service \cup {None}, public : BOOLEAN, tags : SUBSET Tags, needs : Permission \cup {None}]

\* `body' is what the request carries now, `over' what its X-Sign was made of,
\* `timely' that its X-Timestamp is at most 300 s off.  `token' is what its token
\* allows, which is everything if that is `*', or None without a valid one.
Request == [route : Route, token : {None} \cup SUBSET Permission, body : {"plain", "envelope"},
            over : {"plain", "envelope", "nothing"}, timely : BOOLEAN]

GatewayAssumption == None \notin Service \cup Permission /\ Incoming \subseteq Request

VARIABLES
    up,      \* the services that can be reached
    unasked, \* the services that the start has still to ask
    loaded,  \* public_routes_registry: the services whose routes it has
    steady,  \* history: the services that could be reached all through the last start
    key,     \* CryptoMiddleware._private_key, or unread
    call     \* the request

vars == <<up, unasked, loaded, steady, key, call>>

Reasons == {"keyless", "undecrypted", "unsigned", "denied", "forbidden", "unknown", "unavailable", "timeout",
            "length", "broken", "ok"}

Steps == {"decrypt", "sign", "route", "forward", "return"}

Rest == [pc |-> "rest"]

\* `got' is the request as it came, `key' that the session key has been read.
Call == [pc : Steps \cup {"answered"}, got : Request, body : {"plain", "envelope"}, key : BOOLEAN,
         answer : Reasons \cup {None}, secret : BOOLEAN]

\* Only a route that asks for it has an encrypted answer, and only to a client
\* that sent a key.
TypeOK ==
    /\ up \subseteq Service /\ unasked \subseteq Service
    /\ loaded \subseteq Service /\ steady \subseteq Service
    /\ key \in {"unread", "none", "read"}
    /\ call \in Call \cup {Rest}
    /\ unasked # {} => call = Rest
    /\ call # Rest /\ call.secret => "encrypt" \in call.got.route.tags /\ call.got.body = "envelope"

Starting == loaded = {} /\ key = "unread" /\ call = Rest

Init ==
    /\ up \in SUBSET Service
    /\ unasked = Service /\ steady = up
    /\ Starting

----------------------------------------------------------------------------
(* The start.                                                              *)

\* A service comes or goes.
Toggle(s) ==
    /\ up' = IF s \in up THEN up \ {s} ELSE up \cup {s}
    /\ steady' = IF unasked # {} THEN steady \ {s} ELSE steady
    /\ UNCHANGED <<unasked, loaded, key, call>>

\* The gateway is started again, and the request is lost.
Restart ==
    /\ unasked' = Service /\ loaded' = {} /\ key' = "unread" /\ call' = Rest
    /\ steady' = up
    /\ UNCHANGED up

\* Mutant of AskedNext: the first spec that cannot be fetched ends the loop.
AskedNext_Stop(s) == IF s \in up THEN unasked \ {s} ELSE {}

AskedNext(s) == unasked \ {s}

\* The spec of one service is fetched, or skipped.
FetchSpec(s) ==
    /\ s \in unasked
    /\ loaded' = IF s \in up THEN loaded \cup {s} ELSE loaded
    /\ unasked' = AskedNext(s)
    /\ UNCHANGED <<up, steady, key, call>>

----------------------------------------------------------------------------
(* The request.                                                            *)

Receive(r) ==
    /\ unasked = {} /\ call = Rest
    /\ call' = [pc |-> "decrypt", got |-> r, body |-> r.body, key |-> FALSE, answer |-> None,
                secret |-> FALSE]
    /\ UNCHANGED <<up, unasked, loaded, steady, key>>

Tagged(tag) == tag \in call.got.route.tags

\* The crypto middleware refuses the request itself.
Stop(reason) == call' = [call EXCEPT !.pc = "answered", !.answer = reason]

\* The envelope holds the session key for the gateway and the body for that key;
\* anything else does not open.
Opens(body) == body = "envelope"

\* The private key is read once, when it is first needed; without one, or with
\* one that cannot be parsed, every such request fails.
Decrypt ==
    /\ call.pc = "decrypt"
    /\ \/ /\ ~Tagged("decrypt")
          /\ call' = [call EXCEPT !.pc = "sign"]
          /\ UNCHANGED key
       \/ /\ Tagged("decrypt")
          /\ key' \in IF key = "unread" THEN {"none", "read"} ELSE {key}
          /\ \/ key' = "none" /\ Stop("keyless")
             \/ key' = "read" /\ ~Opens(call.body) /\ Stop("undecrypted")
             \/ /\ key' = "read" /\ Opens(call.body)
                /\ call' = [call EXCEPT !.pc = "sign", !.body = "plain", !.key = TRUE]
    /\ UNCHANGED <<up, unasked, loaded, steady>>

\* Mutant of Signed: the signature is verified over the body as it came.
Signed_Raw == call.got.timely /\ call.got.over = call.got.body

\* Over the body as it is now.
Signed == call.got.timely /\ call.got.over = call.body

VerifySign ==
    /\ call.pc = "sign"
    /\ \/ /\ Tagged("sign") => Signed
          /\ call' = [call EXCEPT !.pc = "route"]
       \/ Tagged("sign") /\ ~Signed /\ Stop("unsigned")
    /\ UNCHANGED <<up, unasked, loaded, steady, key>>

\* The route's handler answers, and the answer goes back through the middleware.
Answer(reason) == call' = [call EXCEPT !.pc = "return", !.answer = reason]

Public(route) == route.public /\ route.service \in loaded

\* _resolve_permission, and what becomes of it.
Allowed(r) == r.route.needs = None \/ r.route.needs \in r.token

\* is_public, verify_request and _resolve_upstream.
Proxy ==
    /\ call.pc = "route"
    /\ \/ ~Public(call.got.route) /\ call.got.token = None /\ Answer("denied")
       \/ ~Public(call.got.route) /\ call.got.token # None /\ ~Allowed(call.got) /\ Answer("forbidden")
       \/ /\ Public(call.got.route) \/ (call.got.token # None /\ Allowed(call.got))
          /\ \/ call.got.route.service = None /\ Answer("unknown")
             \/ /\ call.got.route.service # None
                /\ call' = [call EXCEPT !.pc = "forward"]
    /\ UNCHANGED <<up, unasked, loaded, steady, key>>

\* The request is sent with the header Content-Length that it came with: h11
\* raises when the body has been decrypted since, and so is shorter.  A service
\* may be slow, or the connection break; nobody catches the latter.
Forward ==
    /\ call.pc = "forward"
    /\ \/ call.got.route.service \notin up /\ Answer("unavailable")
       \/ Answer("timeout")
       \/ /\ call.got.route.service \in up
          /\ \/ call.body # call.got.body /\ Stop("length")
             \/ call.body = call.got.body /\ Answer("ok")
             \/ Stop("broken")
    /\ UNCHANGED <<up, unasked, loaded, steady, key>>

\* The answer is encrypted for the session key, if the request brought one.
Encrypted == Tagged("encrypt") /\ call.key

Return ==
    /\ call.pc = "return"
    /\ call' = [call EXCEPT !.pc = "answered", !.secret = Encrypted]
    /\ UNCHANGED <<up, unasked, loaded, steady, key>>

Done == call.pc = "answered" /\ call' = Rest /\ UNCHANGED <<up, unasked, loaded, steady, key>>

Handle == Decrypt \/ VerifySign \/ Proxy \/ Forward \/ Return \/ Done

Next ==
    \/ \E s \in Service : Toggle(s) \/ FetchSpec(s)
    \/ Restart
    \/ \E r \in Incoming : Receive(r)
    \/ Handle

Spec == Init /\ [][Next]_vars

----------------------------------------------------------------------------
(* Properties.                                                             *)

\* The request is for a route that ROUTE_MAP has and brings what the code asks for there:
\* an envelope if the body is to be decrypted, a signature over what is in it, and a token with
\* the code of PERMISSION_MAP unless the service says that the route is public and could be
\* reached all the time while the gateway started.
Entitled(r) ==
    /\ r.route.service # None
    /\ r.body = IF "decrypt" \in r.route.tags THEN "envelope" ELSE "plain"
    /\ "sign" \in r.route.tags => r.over = "plain" /\ r.timely
    /\ (r.token # None /\ Allowed(r)) \/ (r.route.public /\ r.route.service \in steady)

\* The answers of a request that the gateway forwards, or fails to for want of a
\* key, a service or a header.
Unrefused == {"ok", "keyless", "unavailable", "timeout", "length", "broken"}

\* An entitled request is not refused: the layers that read its body one after the other
\* agree on it, and services that were down at the start cost the others no public route.
\* This is less than API.md says, see MCGateway.
EntitledServed == call.pc = "answered" /\ Entitled(call.got) => call.answer \in Unrefused

\* The routes that decrypt forward what they have decrypted.
DecryptedForwarded == call.pc = "answered" => call.answer # "length"
=============================================================================
