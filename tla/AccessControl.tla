--------------------------- MODULE AccessControl ---------------------------
(***************************************************************************)
(* Who may do what in the back office: admin-service's accounts, roles and *)
(* permissions with its Redis caches, the bootstrap that seeds them, the   *)
(* admin login of auth-service, which copies the permissions into the      *)
(* token, and the gateway, which reads them back.                          *)
(*                                                                         *)
(* A writing request is one transaction at READ COMMITTED.  Those that do  *)
(* several things others can observe are split at the awaits where they    *)
(* can be overtaken; the others are one action.  Names, paths and role     *)
(* status are left out: nothing here reads them.                           *)
(***************************************************************************)
EXTENDS Integers

CONSTANTS
    Req,      \* handler slots
    Admin,    \* ids of admin_account
    Role,     \* ids of admin_role
    Perm,     \* ids of admin_permission
    Code,     \* permission codes
    Star,     \* the wildcard code "*"
    Defaults, \* the codes of DEFAULT_PERMISSIONS
    MaxEdits, \* bound: transactions that commit
    None

ASSUME AccessAssumption ==
    /\ MaxEdits \in Nat /\ Star \in Code \ Defaults /\ Defaults \subseteq Code
    /\ None \notin Code \cup Admin \cup Role
    /\ Admin \cap Role = {} /\ (Admin \cup Role) \cap Perm = {}

VARIABLES
    admins,   \* admin_account
    roles,    \* admin_role
    code,     \* admin_permission: the code of a row, None without a row
    links,    \* admin_account_role and admin_role_permission
    cache,    \* admin_permissions:{id}: a set of codes, or {None} when missing
    req,      \* where each handler stands
    edits,    \* bound: how many transactions have committed
    session,  \* the refresh token of one admin login, or NoSession
    excused   \* history: admins whose cache has a known reason to be wrong

tables == <<admins, roles, code, links>>
vars == <<admins, roles, code, links, cache, req, edits, session, excused>>

Opt(S) == S \cup {None}
NoCache == {None}

\* `root' says that the row's unique username is the one the bootstrap uses,
\* `super' that its unique role_code is.
AccountRow == [here : BOOLEAN, root : BOOLEAN, active : BOOLEAN]
RoleRow == [here : BOOLEAN, super : BOOLEAN, sys : BOOLEAN]

NoAccount == [here |-> FALSE, root |-> FALSE, active |-> FALSE]
NoRole == [here |-> FALSE, super |-> FALSE, sys |-> FALSE]

Link == (Admin \X Role) \cup (Role \X Perm)

\* A refresh token of an admin and all it is exchanged for: an exchange copies
\* the permissions.  `could' is history: those of them that a role the admin held
\* while the login ran was granted while it ran.
Session == [who : Opt(Admin), perms : SUBSET Code, could : SUBSET Code]
NoSession == [who |-> None, perms |-> {}, could |-> {}]

Handler ==
    [pc : {"idle", "flush", "cache", "commit", "delete", "seed", "account", "roles"},
     who : Opt(Admin \cup Role), want : SUBSET (Role \cup Perm), old : SUBSET (Admin \cup Role \cup Perm),
     active : BOOLEAN, overlap : BOOLEAN, held : SUBSET Role, granted : SUBSET (Role \X Code)]

Idle == [pc |-> "idle", who |-> None, want |-> {}, old |-> {}, active |-> FALSE, overlap |-> FALSE,
         held |-> {}, granted |-> {}]

Roles == {r \in Role : roles[r].here}
Perms == {p \in Perm : code[p] # None}
Owners == {a \in Admin : admins[a].here} \cup Roles

\* Types; foreign keys are kept and the unique names are unique.
RowsTyped ==
    /\ admins \in [Admin -> AccountRow] /\ roles \in [Role -> RoleRow]
    /\ code \in [Perm -> Opt(Code)] /\ links \subseteq Link
ForeignKeys == \A l \in links : l[1] \in Owners /\ l[2] \in Roles \cup Perms
UniqueNames ==
    /\ \A p, q \in Perms : p # q => code[p] # code[q]
    /\ \A r, s \in Role : roles[r].super /\ roles[s].super => r = s
TypeOK ==
    /\ RowsTyped /\ ForeignKeys /\ UniqueNames
    /\ cache \in [Admin -> SUBSET Opt(Code)]
    /\ req \in [Req -> Handler] /\ session \in Session /\ edits \in 0..MaxEdits /\ excused \subseteq Admin

\* The migration creates the tables empty.
Init ==
    /\ admins = [a \in Admin |-> NoAccount]
    /\ roles = [r \in Role |-> NoRole]
    /\ code = [p \in Perm |-> None]
    /\ links = {}
    /\ cache = [a \in Admin |-> NoCache]
    /\ req = [q \in Req |-> Idle]
    /\ edits = 0
    /\ session = NoSession
    /\ excused = {}

Targets(o, ls) == {l[2] : l \in {x \in ls : x[1] = o}}

CodesOfRoles(rs, ls, cs) == {cs[p] : p \in UNION {Targets(r, ls) : r \in rs}}
CodesOf(a, ls, cs) == CodesOfRoles(Targets(a, ls), ls, cs)

Grants(ls, cs) == UNION {{<<r, cs[p]>> : p \in Targets(r, ls)} : r \in Role}

Writers == {q \in Req : req[q].pc \in {"flush", "cache", "commit", "seed"}}

\* What the requests in flight notice of a transaction that ends with links ls
\* and codes cs: history only.
Noticed(rq, ls, cs) ==
    [q \in Req |->
       IF rq[q].pc = "idle" THEN rq[q]
       ELSE IF rq[q].pc \in {"account", "roles"}
            THEN [rq[q] EXCEPT !.held = @ \cup Targets(rq[q].who, ls), !.granted = @ \cup Grants(ls, cs)]
            ELSE [rq[q] EXCEPT !.overlap = TRUE]]

\* A transaction that changes links and codes to ls and cs, and no cache, ends
\* and leaves the handlers at rq.
Ended(rq, ls, cs) ==
    /\ links' = ls /\ code' = cs
    /\ edits < MaxEdits /\ edits' = edits + 1
    /\ req' = Noticed(rq, ls, cs)
    /\ excused' = excused \cup {a \in Admin : CodesOf(a, ls, cs) # CodesOf(a, links, code)}
    /\ UNCHANGED <<cache, session>>

Edited(ls, cs) == Ended(req, ls, cs)

\* An id that no request remembers is as good as a new one.
Fresh(x) == \A q \in Req : x # req[q].who /\ x \notin req[q].want \cup req[q].old

\* The transactions that have written links and not ended hold locks on them,
\* and, through the foreign keys, on the rows they name.
Flushed == {q \in Req : req[q].pc \in {"cache", "commit"}}
Changed(q) == (req[q].old \ req[q].want) \cup (req[q].want \ req[q].old)
Locked(x) == \E q \in Flushed : x \in Changed(q) \/ (x = req[q].who /\ Changed(q) # {})

\* Mutant of Without: no ON DELETE CASCADE.
Without_Kept(x) == links

\* Both foreign keys cascade.
Without(x) == {l \in links : x \notin {l[1], l[2]}}

----------------------------------------------------------------------------
(* Accounts.                                                               *)

NameTaken(root) == root /\ \E a \in Admin : admins[a].root

CreateAdmin(a, root, active) ==
    /\ ~admins[a].here /\ Fresh(a) /\ ~NameTaken(root)
    /\ admins' = [admins EXCEPT ![a] = [here |-> TRUE, root |-> root, active |-> active]]
    /\ UNCHANGED roles /\ Edited(links, code)

\* PUT: any column, the status included; the status key is not written.
UpdateAdmin(a, root, active) ==
    /\ admins[a].here
    /\ root # admins[a].root => ~NameTaken(root) /\ ~Locked(a)
    /\ admins' = [admins EXCEPT ![a] = [here |-> TRUE, root |-> root, active |-> active]]
    /\ admins' # admins
    /\ UNCHANGED roles /\ Edited(links, code)

DeleteAdmin(a) ==
    /\ admins[a].here /\ ~Locked(a)
    /\ admins' = [admins EXCEPT ![a] = NoAccount]
    /\ UNCHANGED roles /\ Edited(Without(a), code)

\* POST /status: UPDATE, SET admin_status:{id}, COMMIT.  Nobody reads that key,
\* so what it holds when the COMMIT fails is not kept here.
UpdateStatus(a, active) ==
    /\ admins[a].here /\ admins[a].active # active
    /\ admins' = [admins EXCEPT ![a].active = active]
    /\ UNCHANGED roles /\ Edited(links, code)

----------------------------------------------------------------------------
(* Roles and permissions.                                                  *)

CreateRole(r, super, sys) ==
    /\ ~roles[r].here /\ Fresh(r)
    /\ super => \A s \in Role : ~roles[s].super
    /\ roles' = [roles EXCEPT ![r] = [here |-> TRUE, super |-> super, sys |-> sys]]
    /\ UNCHANGED admins /\ Edited(links, code)

\* PUT may change the role code; is_system it cannot.
UpdateRole(r, super) ==
    /\ roles[r].here /\ roles[r].super # super /\ ~Locked(r)
    /\ super => \A s \in Role : ~roles[s].super
    /\ roles' = [roles EXCEPT ![r].super = super]
    /\ UNCHANGED admins /\ Edited(links, code)

\* System roles are refused.
Deletable(row) == row.here /\ ~row.sys

\* delete_role: SELECT and the check, then DELETE of the row it has read.
DeleteRoleRead(q, r) ==
    /\ req[q].pc = "idle" /\ Deletable(roles[r])
    /\ req' = [req EXCEPT ![q] = [Idle EXCEPT !.pc = "delete", !.who = r]]
    /\ UNCHANGED <<tables, cache, edits, session, excused>>

DeleteRole(q) ==
    LET r == req[q].who IN
    /\ req[q].pc = "delete" /\ ~Locked(r)
    /\ roles' = [roles EXCEPT ![r] = NoRole]
    /\ UNCHANGED admins
    /\ Ended([req EXCEPT ![q] = Idle], Without(r), code)

CodeTaken(c) == \E p \in Perm : code[p] = c

CreatePermission(p, c) ==
    /\ code[p] = None /\ Fresh(p) /\ ~CodeTaken(c)
    /\ UNCHANGED <<admins, roles>> /\ Edited(links, [code EXCEPT ![p] = c])

\* PUT may change the code of a permission that roles have been granted.
UpdatePermission(p, c) ==
    /\ p \in Perms /\ ~CodeTaken(c) /\ ~Locked(p)
    /\ UNCHANGED <<admins, roles>> /\ Edited(links, [code EXCEPT ![p] = c])

DeletePermission(p) ==
    /\ p \in Perms /\ ~Locked(p)
    /\ UNCHANGED <<admins, roles>> /\ Edited(Without(p), [code EXCEPT ![p] = None])

----------------------------------------------------------------------------
(* Assigning roles to an admin and permissions to a role.                  *)

\* SELECT of the owner with its links, SELECT of the targets that exist.
AssignRead(q, o, wanted) ==
    /\ req[q].pc = "idle" /\ o \in Owners
    /\ req' = [[x \in Req |-> IF x \in Writers THEN [req[x] EXCEPT !.overlap = TRUE] ELSE req[x]]
               EXCEPT ![q] = [Idle EXCEPT !.pc = "flush", !.who = o, !.old = Targets(o, links),
                                          !.want = wanted \cap (IF o \in Admin THEN Roles ELSE Perms),
                                          !.overlap = Writers # {}]]
    /\ UNCHANGED <<tables, cache, edits, session, excused>>

\* The flush: DELETE what is no longer wanted, INSERT what is new, under the
\* foreign keys and the primary key; a row that another transaction has just
\* changed is waited for, and a violation is a Fail.
AssignFlush(q) ==
    LET new == req[q].want \ req[q].old IN
    /\ req[q].pc = "flush"
    /\ req[q].who \in Owners /\ new \subseteq Roles \cup Perms
    /\ \A x \in new : <<req[q].who, x>> \notin links
    /\ \A p \in Flushed : req[p].who = req[q].who => Changed(p) \cap Changed(q) = {}
    /\ req' = [req EXCEPT ![q].pc = "cache"]
    /\ UNCHANGED <<tables, cache, edits, session, excused>>

\* The links as this transaction sees them after its flush.
Rewritten(q) ==
    (links \ {<<req[q].who, x>> : x \in req[q].old \ req[q].want})
        \cup {<<req[q].who, x>> : x \in req[q].want \ req[q].old}

\* Mutant of Affected: only the admin's own assignment refreshes the cache.
Affected_Own(o, ls) == {a \in Admin : a = o}

\* The admins whose cache an assignment to o writes.
Affected(o, ls) == {a \in Admin : a = o \/ <<a, o>> \in ls}

\* SET admin_permissions:{id} for each, before the COMMIT.
AssignCache(q) ==
    LET touched == Affected(req[q].who, links) IN
    /\ req[q].pc = "cache"
    /\ cache' = [a \in Admin |-> IF a \in touched THEN CodesOf(a, Rewritten(q), code) ELSE cache[a]]
    /\ req' = [req EXCEPT ![q].pc = "commit", ![q].held = {}]
    /\ excused' = excused \cup touched
    /\ UNCHANGED <<tables, edits, session>>

AssignCommit(q) ==
    LET touched == Affected(req[q].who, links) IN
    /\ req[q].pc = "commit"
    /\ links' = Rewritten(q)
    /\ edits < MaxEdits /\ edits' = edits + 1
    /\ UNCHANGED <<admins, roles, code, cache, session>>
    /\ req' = Noticed([req EXCEPT ![q] = Idle], Rewritten(q), code)
    /\ excused' = IF req[q].overlap
                  THEN excused \cup {a \in Admin : a \in touched \/ CodesOf(a, Rewritten(q), code) # CodesOf(a, links, code)}
                  ELSE excused \ touched

\* Any error rolls a transaction back; what it wrote to Redis stays.
Fail(q) ==
    /\ req[q].pc # "idle"
    /\ req' = [req EXCEPT ![q] = Idle]
    /\ UNCHANGED <<tables, cache, edits, session, excused>>

\* 24 hours later.
ExpireCache(a) ==
    /\ cache[a] # NoCache
    /\ cache' = [cache EXCEPT ![a] = NoCache]
    /\ UNCHANGED <<tables, req, edits, session, excused>>

----------------------------------------------------------------------------
(* The bootstrap: permissions, the system role with "*" alone, the root    *)
(* admin with that role; found rows are kept, missing ones are inserted.   *)

\* The row an upsert works on: the one with the name, or a new one.
Upserted(named, free) == IF named # {} THEN named ELSE free

\* _upsert_wildcard_perm
SeedPerm == Upserted({p \in Perm : code[p] = Star}, {p \in Perm : code[p] = None /\ Fresh(p)})
\* seed_role finds its role by role_code.
SeedRole == Upserted({r \in Role : roles[r].super}, {r \in Role : ~roles[r].here /\ Fresh(r)})
\* seed_admin finds its account by username.
SeedAdmin == Upserted({a \in Admin : admins[a].root}, {a \in Admin : ~admins[a].here /\ Fresh(a)})

\* The SELECTs: `old' are the rows found, `granted' the default codes found,
\* `held' says that the admin has the role, `active' that it is not disabled.
SeedBegin(q, a, r, p) ==
    /\ req[q].pc = "idle"
    /\ a \in SeedAdmin /\ r \in SeedRole /\ p \in SeedPerm
    /\ req' = [[x \in Req |-> IF x \in Writers THEN [req[x] EXCEPT !.overlap = TRUE] ELSE req[x]]
               EXCEPT ![q] = [Idle EXCEPT !.pc = "seed", !.who = a, !.want = {r, p},
                                          !.old = {a, r, p} \cap (Owners \cup Perms),
                                          !.held = {r} \cap Targets(a, links),
                                          !.granted = {r} \X {c \in Defaults : CodeTaken(c)},
                                          !.active = admins[a].active, !.overlap = Writers # {}]]
    /\ UNCHANGED <<tables, cache, edits, session, excused>>

\* What was not found is inserted, unless somebody has just taken the name;
\* what was found must be there for the links to be inserted.
Insertable(x, found, taken) == IF x \in found THEN x \in Owners \cup Perms ELSE ~taken

\* seed_permissions: the tables with a new row for each of the codes cs.
SeededCodes(cs) ==
    {f \in [Perm -> Opt(Code)] :
       /\ \A p \in Perm : IF p \in Perms THEN f[p] = code[p] ELSE f[p] \in Opt(cs) /\ (f[p] = None \/ Fresh(p) \/ f[p] = Star)
       /\ \A c \in cs : \E p \in Perm : {x \in Perm : f[x] = c} = {p}}

\* Mutant of SeededLinks: the links of a role that is there are left alone.
SeededLinks_New(a, r, p, found, linked) ==
    IF r \in found THEN links \cup {<<a, r>>} ELSE links \cup {<<r, p>>, <<a, r>>}

\* The role has "*" and nothing else; the admin gets the role if it was not
\* seen to have it.
SeededLinks(a, r, p, found, linked) ==
    {l \in links : l[1] # r} \cup {<<r, p>>} \cup (IF linked THEN {} ELSE {<<a, r>>})

\* The flush and the COMMIT.  A status found to be 1 is not written again, so an
\* account found complete may have been deleted meanwhile.
SeedCommit(q) ==
    LET a == req[q].who
        found == req[q].old
        linked == req[q].held # {} IN
    /\ req[q].pc = "seed"
    /\ \E r \in req[q].want \cap Role, p \in req[q].want \cap Perm :
         /\ ~Locked(a) /\ ~Locked(r) /\ ~Locked(p)
         /\ Insertable(p, found, CodeTaken(Star))
         /\ Insertable(r, found, \E s \in Role : roles[s].super)
         /\ Insertable(a, found, NameTaken(TRUE)) \/ (linked /\ req[q].active)
         /\ linked \/ <<a, r>> \notin links
         /\ roles' = [roles EXCEPT ![r] = [here |-> TRUE, super |-> r \in found => @.super, sys |-> TRUE]]
         /\ admins' = IF a \in found \ Owners THEN admins
                       ELSE [admins EXCEPT ![a] = [here |-> TRUE, root |-> a \in found => @.root,
                                                   active |-> req[q].active => @.active]]
         /\ \E cs \in SeededCodes((Defaults \ {g[2] : g \in req[q].granted})
                                    \cup (IF p \in found THEN {} ELSE {Star})) :
              /\ p \notin found => cs[p] = Star
              /\ Ended([req EXCEPT ![q] = Idle], SeededLinks(a, r, p, found, linked), cs)

----------------------------------------------------------------------------
(* The login of an admin, and the gateway.                                 *)

\* The credential is accepted and admin-service finds the account, whatever
\* its status.
LoginAccount(q, a) ==
    /\ req[q].pc = "idle" /\ admins[a].here
    /\ req' = [req EXCEPT ![q] = [Idle EXCEPT !.pc = "account", !.who = a,
                                              !.held = Targets(a, links), !.granted = Grants(links, code)]]
    /\ UNCHANGED <<tables, cache, edits, session, excused>>

\* selectinload(roles), a SELECT of its own
LoginRoles(q) ==
    /\ req[q].pc = "account"
    /\ req' = [req EXCEPT ![q].pc = "roles", ![q].want = Targets(req[q].who, links)]
    /\ UNCHANGED <<tables, cache, edits, session, excused>>

\* Mutant of Carried: the permissions come from Redis when they are there.
Carried_Cached(a, rs) == IF cache[a] # NoCache THEN cache[a] ELSE CodesOfRoles(rs, links, code)

\* selectinload(permissions) of those roles: neither status counts.
Carried(a, rs) == CodesOfRoles(rs, links, code)

\* The permissions go into the access token and the refresh token.
LoginIssue(q) ==
    /\ req[q].pc = "roles"
    /\ session' = [who |-> req[q].who, perms |-> Carried(req[q].who, req[q].want),
                   could |-> Carried(req[q].who, req[q].want)
                               \cap {g[2] : g \in {x \in req[q].granted : x[1] \in req[q].held}}]
    /\ req' = [req EXCEPT ![q] = Idle]
    /\ UNCHANGED <<tables, cache, edits, excused>>

\* The token is gone, by logout or in time.
EndSession ==
    /\ session # NoSession
    /\ session' = NoSession
    /\ UNCHANGED <<tables, cache, req, edits, excused>>

\* verify_request of a path that needs permission c.  It reads user_status and
\* user_permissions, which nobody writes, so the token alone decides.
Admits(s, c) == Star \in s.perms \/ c \in s.perms

Edit ==
    \/ \E a \in Admin, root \in BOOLEAN, active \in BOOLEAN :
         CreateAdmin(a, root, active) \/ UpdateAdmin(a, root, active)
    \/ \E a \in Admin : DeleteAdmin(a)
    \/ \E a \in Admin, active \in BOOLEAN : UpdateStatus(a, active)
    \/ \E r \in Role, super \in BOOLEAN, sys \in BOOLEAN : CreateRole(r, super, sys)
    \/ \E r \in Role, super \in BOOLEAN : UpdateRole(r, super)
    \/ \E p \in Perm, c \in Code : CreatePermission(p, c) \/ UpdatePermission(p, c)
    \/ \E p \in Perm : DeletePermission(p)

HandlerStep(q) ==
    \/ \E r \in Role : DeleteRoleRead(q, r)
    \/ DeleteRole(q)
    \/ \E a \in Admin, wanted \in SUBSET Role : AssignRead(q, a, wanted)
    \/ \E r \in Role, wanted \in SUBSET Perm : AssignRead(q, r, wanted)
    \/ AssignFlush(q) \/ AssignCache(q) \/ AssignCommit(q)
    \/ \E a \in Admin, r \in Role, p \in Perm : SeedBegin(q, a, r, p)
    \/ SeedCommit(q)
    \/ \E a \in Admin : LoginAccount(q, a)
    \/ LoginRoles(q) \/ LoginIssue(q)
    \/ Fail(q)

Next ==
    \/ Edit
    \/ \E q \in Req : HandlerStep(q)
    \/ \E a \in Admin : ExpireCache(a)
    \/ EndSession

Spec == Init /\ [][Next]_vars

----------------------------------------------------------------------------
(* Properties.                                                             *)

\* get_admin_permissions reads accounts, roles and permissions in three
\* statements, without a snapshot.  All the same, what the gateway lets a token
\* do was granted, while its login ran, to a role the admin held while it ran:
\* a permission or a role that was revoked before is not in it.
LoginFresh ==
    \A c \in Code : Admits(session, c) => {c, Star} \cap session.could # {}

\* assign_roles_to_admin and assign_permissions_to_role keep admin_permissions:{id}
\* true: where it is there, it says what the tables say, unless an assignment
\* failed after writing it, assignments overlapped, or a deletion, a renaming
\* or the bootstrap, which do not refresh it, changed the tables.
CacheAgrees ==
    \A a \in Admin : cache[a] # NoCache /\ a \notin excused => cache[a] = CodesOf(a, links, code)

\* run_seed repairs: whatever rows were deleted, renamed or reassigned before,
\* the root admin can do everything after a run that nobody disturbed.
SeedRepairs ==
    [][\A q \in Req : req[q].pc = "seed" /\ ~req[q].overlap /\ edits' # edits /\ req'[q].pc = "idle"
         => \E a \in Admin : admins'[a].root /\ admins'[a].active /\ Star \in CodesOf(a, links', code')]_vars

\* The documentation: a disabled account's requests are refused at once
\* (docs/src/content/docs/05-services/admin-service/rbac.md:200).
DisabledRefused ==
    \A c \in Code : session.who # None /\ ~admins[session.who].active => ~Admits(session, c)
=============================================================================
