------------------------------ MODULE Accounts ------------------------------
(***************************************************************************)
(* How an account comes to be and is logged in: the one-time codes that    *)
(* sms-service keeps in Redis, the credentials and the login log of        *)
(* auth-service, and the consumer rows of consumer-service, written by     *)
(* three services that share no transaction.                               *)
(*                                                                         *)
(* A consumer is identified with the phone it was created with: phones are *)
(* unique, never change, and no request deletes a consumer.  A credential  *)
(* is always active: the column has no writer.  Tokens belong to           *)
(* AuthSession; the rows of the login log are left out.                    *)
(***************************************************************************)
EXTENDS Integers

CONSTANTS
    Req,       \* handler slots of auth-service
    Phone,     \* identities, and the ids of the consumers created with them
    Elsewhere, \* any other biz_id
    Kind,      \* account types
    Asking,    \* those whose login asks another service about the account
    MaxSends,  \* bound: codes sent
    None

AccountsAssumption ==
    /\ "consumer" \in Kind \ Asking /\ Asking \subseteq Kind
    /\ MaxSends \in Nat
    /\ Elsewhere \notin Phone /\ None \notin Phone \cup {Elsewhere}

VARIABLES
    cred,      \* auth_credential by identity and account type, committed
    consumers, \* consumer_account: the phones that have a row
    code,      \* sms:verify:{phone}: which send it is from, 0 without a key
    req,       \* where each handler stands
    sends,     \* how many codes have been sent
    spent      \* history: the sends of which a check has ended

vars == <<cred, consumers, code, req, sends, spent>>

Biz == Phone \cup {Elsewhere}

\* `pw': it was registered with a password, not made by an SMS login.
AuthCredential == [biz : Biz, pw : BOOLEAN]

Handler ==
    [pc : {"idle", "delete", "lookup", "find", "create", "insert", "fetch", "issue", "commit"},
     phone : Phone \cup {None}, kind : Kind, send : 0..MaxSends,
     row : AuthCredential \cup {None},   \* the credential it works with
     new : BOOLEAN,                      \* it has inserted that credential
     login : BOOLEAN,                    \* it is a login, not a registration
     overlap : BOOLEAN]                  \* history: something else touched this phone

Idle == [pc |-> "idle", phone |-> None, kind |-> "consumer", send |-> 0, row |-> None,
         new |-> FALSE, login |-> TRUE, overlap |-> FALSE]

TypeOK ==
    /\ cred \in [Phone -> [Kind -> AuthCredential \cup {None}]]
    /\ consumers \subseteq Phone
    /\ code \in [Phone -> 0..MaxSends] /\ sends \in 0..MaxSends /\ spent \subseteq 1..MaxSends
    /\ req \in [Req -> Handler]
    /\ \A q, r \in Req : req[q].new /\ req[r].new /\ req[q].phone = req[r].phone => q = r

\* Credentials of the other account types are put there by hand.
Init ==
    /\ cred \in {f \in [Phone -> [Kind -> {None} \cup {[biz |-> Elsewhere, pw |-> TRUE]}]] :
                   \A p \in Phone : f[p]["consumer"] = None}
    /\ consumers = {}
    /\ code = [p \in Phone |-> 0]
    /\ req = [q \in Req |-> Idle]
    /\ sends = 0 /\ spent = {}

\* A handler of phone p begins as h.
Begin(q, p, h) ==
    /\ req[q].pc = "idle"
    /\ req' = [[r \in Req |-> IF req[r].phone = p THEN [req[r] EXCEPT !.overlap = TRUE] ELSE req[r]]
               EXCEPT ![q] = [h EXCEPT !.phone = p, !.overlap = \E r \in Req : req[r].phone = p]]

Goto(q, h) == req' = [req EXCEPT ![q] = h]

----------------------------------------------------------------------------
(* One-time codes.                                                         *)

\* send_verification_code: SET with the policy's lifetime, then the message.
SendCode(p) ==
    /\ sends < MaxSends /\ sends' = sends + 1
    /\ code' = [code EXCEPT ![p] = sends']
    /\ UNCHANGED <<cred, consumers, req, spent>>

ExpireCode(p) ==
    /\ code[p] # 0 /\ code' = [code EXCEPT ![p] = 0]
    /\ UNCHANGED <<cred, consumers, req, sends, spent>>

\* verify_code, GET: the code given is the one stored.
CheckCode(q, p) ==
    /\ code[p] # 0
    /\ Begin(q, p, [Idle EXCEPT !.pc = "delete", !.send = code[p]])
    /\ UNCHANGED <<cred, consumers, code, sends, spent>>

\* Mutant of Consumed: the code stays until it expires.
Consumed_Kept(p) == code

\* DELETE, of whatever the key holds by now.
Consumed(p) == [code EXCEPT ![p] = 0]

SpendCode(q) ==
    /\ req[q].pc = "delete"
    /\ code' = Consumed(req[q].phone)
    /\ spent' = spent \cup {req[q].send}
    /\ Goto(q, [req[q] EXCEPT !.pc = "lookup"])
    /\ UNCHANGED <<cred, consumers, sends>>

----------------------------------------------------------------------------
(* Login or registration by SMS.                                           *)

\* Mutant of Lookup: a row of any account type will do.
Lookup_AnyKind(p, k) ==
    IF \E x \in Kind : cred[p][x] # None THEN cred[p][CHOOSE x \in Kind : cred[p][x] # None] ELSE None

\* _lookup_credential
Lookup(p, k) == cred[p][k]

SmsLookup(q) ==
    LET row == Lookup(req[q].phone, "consumer") IN
    /\ req[q].pc = "lookup"
    /\ Goto(q, [req[q] EXCEPT !.pc = IF row = None THEN "find" ELSE "issue", !.row = row])
    /\ UNCHANGED <<cred, consumers, code, sends, spent>>

OfConsumer(h) == [h EXCEPT !.pc = "insert", !.row = [biz |-> h.phone, pw |-> FALSE]]

\* Mutant of Known: the consumer is not looked for, only created.
Known_Never(p) == FALSE

\* GET /internal/consumers/by-phone finds a row.
Known(p) == p \in consumers

FindConsumer(q) ==
    /\ req[q].pc = "find"
    /\ Goto(q, IF Known(req[q].phone) THEN OfConsumer(req[q]) ELSE [req[q] EXCEPT !.pc = "create"])
    /\ UNCHANGED <<cred, consumers, code, sends, spent>>

\* POST /internal/consumers: a transaction of consumer-service.
CreateConsumer(q) ==
    /\ req[q].pc = "create" /\ req[q].phone \notin consumers
    /\ consumers' = consumers \cup {req[q].phone}
    /\ \/ Goto(q, OfConsumer(req[q]))
       \/ Goto(q, Idle)                    \* committed, but the answer is late
    /\ UNCHANGED <<cred, code, sends, spent>>

\* POST /api/consumers, by anybody.
SignUpConsumer(p) ==
    /\ p \notin consumers
    /\ consumers' = consumers \cup {p}
    /\ req' = [r \in Req |-> IF req[r].phone = p THEN [req[r] EXCEPT !.overlap = TRUE] ELSE req[r]]
    /\ UNCHANGED <<cred, code, sends, spent>>

\* Mutant of NoTwin: the index ignores the identity.
NoTwin_Always(p) == TRUE

\* The unique index makes an INSERT wait for another one's transaction.
NoTwin(p) == \A r \in Req : ~(req[r].new /\ req[r].phone = p)

\* The INSERT into auth_credential
InsertCredential(q) ==
    LET h == req[q] IN
    /\ h.pc = "insert"
    /\ cred[h.phone]["consumer"] = None
    /\ NoTwin(h.phone)
    /\ Goto(q, [h EXCEPT !.pc = IF h.login THEN "issue" ELSE "commit", !.new = TRUE])
    /\ UNCHANGED <<cred, consumers, code, sends, spent>>

\* A unique index refuses the row: 500 or 503.
Refused(q) ==
    \/ req[q].pc = "create" /\ req[q].phone \in consumers
    \/ req[q].pc = "insert" /\ cred[req[q].phone]["consumer"] # None

Conflict(q) ==
    /\ Refused(q) /\ Goto(q, Idle)
    /\ UNCHANGED <<cred, consumers, code, sends, spent>>

----------------------------------------------------------------------------
(* Registration and login with a password.                                 *)

\* register_consumer: the biz_id is the caller's.
Register(q, p, b) ==
    /\ Lookup(p, "consumer") = None
    /\ Begin(q, p, [Idle EXCEPT !.pc = "insert", !.row = [biz |-> b, pw |-> TRUE], !.login = FALSE])
    /\ UNCHANGED <<cred, consumers, code, sends, spent>>

\* The five password logins.  A row without a password cannot be matched.  Sub-
\* accounts, staff and admins are asked about at their own service.
PasswordLogin(q, p, k) ==
    LET row == Lookup(p, k) IN
    /\ row # None /\ row.pw
    /\ Begin(q, p, [Idle EXCEPT !.pc = IF k \in Asking THEN "fetch" ELSE "issue", !.kind = k, !.row = row])
    /\ UNCHANGED <<cred, consumers, code, sends, spent>>

Fetch(q) ==
    /\ req[q].pc = "fetch" /\ Goto(q, [req[q] EXCEPT !.pc = "issue"])
    /\ UNCHANGED <<cred, consumers, code, sends, spent>>

----------------------------------------------------------------------------
(* The end of a login.                                                     *)

\* SET refresh_token:{token}, and the INSERT of the log row
Issue(q) ==
    /\ req[q].pc = "issue" /\ Goto(q, [req[q] EXCEPT !.pc = "commit"])
    /\ UNCHANGED <<cred, consumers, code, sends, spent>>

\* get_db commits once the endpoint has returned.
Commit(q) ==
    LET h == req[q] IN
    /\ h.pc = "commit"
    /\ cred' = IF h.new THEN [cred EXCEPT ![h.phone]["consumer"] = h.row] ELSE cred
    /\ Goto(q, Idle)
    /\ UNCHANGED <<consumers, code, sends, spent>>

\* An error rolls back the credential and the log row, never what another
\* service or Redis has been told.  A failed login ends like this, too: its
\* log row is rolled back by the 401 or 403.
Fail(q) ==
    /\ req[q].pc # "idle" /\ Goto(q, Idle)
    /\ UNCHANGED <<cred, consumers, code, sends, spent>>

HandlerStep(q) ==
    \/ \E p \in Phone : CheckCode(q, p) \/ (\E b \in Biz : Register(q, p, b))
                          \/ (\E k \in Kind : PasswordLogin(q, p, k))
    \/ SpendCode(q) \/ SmsLookup(q) \/ FindConsumer(q) \/ CreateConsumer(q) \/ InsertCredential(q)
    \/ Conflict(q) \/ Fetch(q) \/ Issue(q) \/ Commit(q) \/ Fail(q)

Next ==
    \/ \E q \in Req : HandlerStep(q)
    \/ \E p \in Phone : SendCode(p) \/ ExpireCode(p) \/ SignUpConsumer(p)

Spec == Init /\ [][Next]_vars

----------------------------------------------------------------------------
(* Properties.                                                             *)

\* A credential that an SMS login made names the consumer of that phone, which
\* exists, whatever the registrations, sign-ups and late answers in between; and
\* no account type's login is answered from another's credential.
CredentialsNameConsumers ==
    /\ \A p \in Phone : LET row == cred[p]["consumer"] IN
         row # None /\ ~row.pw => row.biz = p /\ p \in consumers
    /\ \A q \in Req : LET h == req[q] IN
         h.pc \in {"fetch", "issue", "commit"} /\ ~h.new /\ h.login => h.row = cred[h.phone][h.kind]

\* Of a step: verify_code: a code is not accepted again once a check of it has ended, even
\* by a check of another login; only overlapping checks share one.
AcceptsOnce ==
    \A q \in Req : req[q].pc # "delete" /\ req'[q].pc = "delete" => req'[q].send \notin spent

CodeOnce == [][AcceptsOnce]_vars

\* Of a step: a login that is alone with its phone is not refused by a unique index, whatever
\* earlier logins left half done: a consumer without a credential is found again.
RefusesOverlaps == \A q \in Req : Refused(q) /\ req'[q].pc = "idle" => req[q].overlap

ConflictsOverlap == [][RefusesOverlaps]_vars
=============================================================================
