----------------------------- MODULE MCGateway -----------------------------
(***************************************************************************)
(* The routes that api-gateway ships, against the operations that its      *)
(* API.md describes.                                                       *)
(***************************************************************************)
EXTENDS Gateway, TLC

\* The prefixes that are not commented out.
ROUTE_MAP == "/api/auth" :> "auth-service" @@ "/api/admins" :> "admin-service" @@ "/api/v1/ai" :> "ai-service"

\* For the operations below
PERMISSION_MAP ==
    <<"GET", "/api/admins">> :> "admin.admins.view" @@ <<"GET", "/api/roles">> :> "admin.roles.view"
    @@ <<"GET", "/api/permissions">> :> "admin.permissions.view"

At(map, x) == IF x \in DOMAIN map THEN map[x] ELSE None

\* What API.md says of some operations: the login of an admin and the logout (:401, :455), the
\* lists of admins, roles and permissions with the permission they need (:492, :814, :1089),
\* sms-service and ai-service (:337, :338).
Described ==
    {[method |-> "POST", prefix |-> "/api/auth", public |-> TRUE, told |-> None],
     [method |-> "POST", prefix |-> "/api/auth", public |-> FALSE, told |-> None],
     [method |-> "GET", prefix |-> "/api/admins", public |-> FALSE, told |-> "user:list"],
     [method |-> "GET", prefix |-> "/api/roles", public |-> FALSE, told |-> "role:list"],
     [method |-> "GET", prefix |-> "/api/permissions", public |-> FALSE, told |-> "permission:list"],
     [method |-> "POST", prefix |-> "/api/v1/sms", public |-> FALSE, told |-> None],
     [method |-> "POST", prefix |-> "/api/v1/ai", public |-> FALSE, told |-> None]}

RouteOf(op) == [service |-> At(ROUTE_MAP, op.prefix), public |-> op.public, tags |-> {},
                needs |-> At(PERMISSION_MAP, <<op.method, op.prefix>>)]

\* The operation is asked for with the permission that API.md names, and without a token
\* where it names none.
AsTold(op) == [route |-> RouteOf(op), token |-> IF op.public THEN None ELSE {op.told} \ {None},
               body |-> "plain", over |-> "nothing", timely |-> FALSE]

MCService == {At(ROUTE_MAP, x) : x \in DOMAIN ROUTE_MAP}
MCPermission == {At(PERMISSION_MAP, x) : x \in DOMAIN PERMISSION_MAP} \cup ({op.told : op \in Described} \ {None})
MCIncoming == {AsTold(op) : op \in Described}

----------------------------------------------------------------------------
(* Properties.                                                             *)

\* API.md forwards each of these prefixes to a service (bff/api-gateway/API.md:320).
\* proxy answers 404 where the prefix is commented out in ROUTE_MAP.
DescribedMapped == call # Rest => call.answer # "unknown"

\* API.md names the permission an operation needs (bff/api-gateway/API.md:496).
\* verify_request asks for the code of PERMISSION_MAP, which is another one.
ToldSuffices == call # Rest => call.answer # "forbidden"
=============================================================================
