------------------------ MODULE AccessControl_proofs ------------------------
(***************************************************************************)
(* What the run `access' checks of the back office, for any number of      *)
(* requests, admins, roles, permissions and codes: the tables stay sound,  *)
(* a token carries nothing that was revoked before its login, the cache is *)
(* wrong only for a known reason, and the bootstrap repairs.               *)
(***************************************************************************)
EXTENDS AccessControl, TLAPS

\* What a handler's locals are at each of its commands.
Fits(h) ==
    /\ h.pc \in {"flush", "cache", "commit"} =>
         \/ h.who \in Admin /\ h.want \cup h.old \subseteq Role
         \/ h.who \in Role /\ h.want \cup h.old \subseteq Perm
    /\ h.pc = "delete" => h.who \in Role
    /\ h.pc \in {"seed", "account", "roles"} => h.who \in Admin
    /\ h.pc = "roles" => h.want \subseteq Role

\* What a transaction has written keeps the rows it names.
Holds(q) ==
    q \in Flushed /\ Changed(q) # {} =>
        req[q].who \in Owners /\ req[q].want \ req[q].old \subseteq Roles \cup Perms

\* The inductive type invariant.
TypeInv ==
    /\ TypeOK
    /\ \A q \in Req : Fits(req[q]) /\ Holds(q)

----------------------------------------------------------------------------
(* The operators.                                                          *)

\* The links of an admin lead to roles, those of a role to permissions.
LEMMA TargetsTyped ==
    ASSUME NEW ls, ls \subseteq Link, NEW o
    PROVE  /\ o \in Admin => Targets(o, ls) \subseteq Role
           /\ o \in Role => Targets(o, ls) \subseteq Perm
  BY AccessAssumption DEF AccessAssumption, Targets, Link

\* Codes are codes, and as long as the links lead to rows, none of them is None.
LEMMA CodesTyped ==
    ASSUME NEW ls, ls \subseteq Link, NEW cs \in [Perm -> Opt(Code)], NEW rs, rs \subseteq Role
    PROVE  /\ CodesOfRoles(rs, ls, cs) \subseteq Opt(Code)
           /\ (\A l \in ls : l[2] \in Perm => cs[l[2]] # None) => CodesOfRoles(rs, ls, cs) \subseteq Code
<1>1. \A r \in rs : \A p \in Targets(r, ls) : p \in Perm /\ \E l \in ls : l[2] = p
  BY TargetsTyped DEF Targets
<1>2. \A c \in CodesOfRoles(rs, ls, cs) : \E p \in Perm : c = cs[p] /\ \E l \in ls : l[2] = p
  BY <1>1 DEF CodesOfRoles
<1> QED
  BY <1>2 DEF Opt

\* Grants pair roles with codes.
LEMMA GrantsTyped ==
    ASSUME NEW ls, ls \subseteq Link, NEW cs \in [Perm -> Opt(Code)],
           \A l \in ls : l[2] \in Perm => cs[l[2]] # None
    PROVE  Grants(ls, cs) \subseteq Role \X Code
<1>1. ASSUME NEW r \in Role, NEW p \in Targets(r, ls)
      PROVE  p \in Perm /\ cs[p] \in Code
  BY TargetsTyped DEF Targets, Opt
<1> QED
  BY <1>1 DEF Grants

\* Noticing a transaction changes history only.
LEMMA NoticedTyped ==
    ASSUME NEW ls, ls \subseteq Link, NEW cs \in [Perm -> Opt(Code)],
           \A l \in ls : l[2] \in Perm => cs[l[2]] # None,
           NEW rq \in [Req -> Handler], \A q \in Req : Fits(rq[q])
    PROVE  /\ Noticed(rq, ls, cs) \in [Req -> Handler]
           /\ \A q \in Req : LET h == Noticed(rq, ls, cs)[q] IN
                /\ h.pc = rq[q].pc /\ h.who = rq[q].who /\ h.want = rq[q].want
                /\ h.old = rq[q].old /\ h.active = rq[q].active /\ Fits(h)
<1> DEFINE N(q) ==
       IF rq[q].pc = "idle" THEN rq[q]
       ELSE IF rq[q].pc \in {"account", "roles"}
            THEN [rq[q] EXCEPT !.held = @ \cup Targets(rq[q].who, ls), !.granted = @ \cup Grants(ls, cs)]
            ELSE [rq[q] EXCEPT !.overlap = TRUE]
<1>1. \A q \in Req : Noticed(rq, ls, cs)[q] = N(q)
  BY DEF Noticed
<1>2. ASSUME NEW q \in Req
      PROVE  /\ N(q) \in Handler
             /\ N(q).pc = rq[q].pc /\ N(q).who = rq[q].who /\ N(q).want = rq[q].want
             /\ N(q).old = rq[q].old /\ N(q).active = rq[q].active
  <2>1. CASE rq[q].pc = "idle"
    BY <2>1
  <2>2. CASE rq[q].pc \in {"account", "roles"}
    <3>1. rq[q].who \in Admin
      BY <2>2 DEF Fits
    <3>2. Targets(rq[q].who, ls) \subseteq Role /\ Grants(ls, cs) \subseteq Role \X Code
      BY <3>1, TargetsTyped, GrantsTyped
    <3> QED
      BY <2>2, <3>2 DEF Handler
  <2>3. CASE rq[q].pc \notin {"idle", "account", "roles"}
    BY <2>3 DEF Handler
  <2> QED
    BY <2>1, <2>2, <2>3
<1>3. Noticed(rq, ls, cs) \in [Req -> Handler]
  BY <1>1, <1>2 DEF Noticed
<1> HIDE DEF N
<1> QED
  BY <1>1, <1>2, <1>3 DEF Fits

\* A free slot is a handler at rest.
LEMMA IdleFits == Idle \in Handler /\ Fits(Idle) /\ Idle.pc = "idle"
  BY DEF Idle, Handler, Opt, Fits

\* Empty tables are sound.
LEMMA InitType == Init => TypeInv
<1> SUFFICES ASSUME Init PROVE TypeInv
  OBVIOUS
<1>1. RowsTyped /\ ForeignKeys /\ UniqueNames
  BY DEF Init, RowsTyped, ForeignKeys, UniqueNames, Perms, NoAccount, AccountRow, NoRole, RoleRow, Opt
<1>2. cache \in [Admin -> SUBSET Opt(Code)] /\ session \in Session /\ edits \in 0..MaxEdits /\ excused \subseteq Admin
  BY AccessAssumption DEF AccessAssumption, Init, NoCache, Opt, NoSession, Session
<1>3. req \in [Req -> Handler] /\ \A q \in Req : Fits(req[q]) /\ Holds(q)
  BY IdleFits DEF Init, Holds, Flushed
<1> QED
  BY <1>1, <1>2, <1>3 DEF TypeInv, TypeOK

----------------------------------------------------------------------------
(* Transactions that end.                                                  *)

\* What every such step does, but for the rows: rq is req without the handler
\* whose transaction it was.
EndsAs(rq) ==
    /\ rq = req \/ \E q \in Req : rq = [req EXCEPT ![q] = Idle]
    /\ req' = Noticed(rq, links', code')
    /\ edits < MaxEdits /\ edits' = edits + 1
    /\ UNCHANGED <<cache, session>>

\* Ended says what EndsAs says, and what the tables become.
LEMMA EndedEndsAs ==
    ASSUME TypeInv, NEW ls, NEW cs, NEW rq,
           rq = req \/ \E q \in Req : rq = [req EXCEPT ![q] = Idle],
           Ended(rq, ls, cs)
    PROVE  EndsAs(rq) /\ links' = ls /\ code' = cs /\ excused' \subseteq Admin
  BY DEF Ended, EndsAs, TypeInv, TypeOK

\* Codes that a link leads to are there.
LEMMA LinkedCodes ==
    ASSUME RowsTyped, ForeignKeys
    PROVE  \A l \in links : l[2] \in Perm => code[l[2]] # None
  BY AccessAssumption DEF AccessAssumption, RowsTyped, ForeignKeys, Roles, Perms

\* The end of a transaction leaves every other handler its place and its locals.
LEMMA HandlersAfter ==
    ASSUME TypeInv, NEW rq, EndsAs(rq), RowsTyped', ForeignKeys'
    PROVE  /\ req' \in [Req -> Handler]
           /\ rq \in [Req -> Handler]
           /\ \A q \in Req : /\ Fits(req'[q]) /\ req'[q].pc = rq[q].pc /\ req'[q].who = rq[q].who
                             /\ req'[q].want = rq[q].want /\ req'[q].old = rq[q].old /\ req'[q].active = rq[q].active
           /\ \A q \in Req : rq[q] = req[q] \/ rq[q] = Idle
<1>1. rq \in [Req -> Handler] /\ \A q \in Req : Fits(rq[q]) /\ (rq[q] = req[q] \/ rq[q] = Idle)
  BY IdleFits DEF EndsAs, TypeInv, TypeOK
<1>2. links' \subseteq Link /\ code' \in [Perm -> Opt(Code)]
  BY DEF RowsTyped
<1>3. \A l \in links' : l[2] \in Perm => code'[l[2]] # None
  BY LinkedCodes, AccessAssumption DEF AccessAssumption, RowsTyped, ForeignKeys, Roles, Perms
<1>4. req' = Noticed(rq, links', code')
  BY DEF EndsAs
<1> QED
  BY <1>1, <1>2, <1>3, <1>4, NoticedTyped

\* The rows that are locked are still there.
Survive == \A x \in Owners \cup Perms : Locked(x) => x \in Owners' \cup Perms'

\* A transaction that keeps the rows typed, the keys and the locked rows keeps the
\* invariant: the handlers need no more.
LEMMA EndedType ==
    ASSUME TypeInv, NEW rq, EndsAs(rq), excused' \subseteq Admin,
           RowsTyped', ForeignKeys', UniqueNames', Survive
    PROVE  TypeInv'
<1>1. /\ req' \in [Req -> Handler]
      /\ \A q \in Req : Fits(req'[q]) /\ (req'[q].pc # "idle" =>
           /\ req'[q].pc = req[q].pc /\ req'[q].who = req[q].who
           /\ req'[q].want = req[q].want /\ req'[q].old = req[q].old)
  BY HandlersAfter, IdleFits
<1>2. ASSUME NEW q \in Req PROVE Holds(q)'
  <2>1. SUFFICES ASSUME q \in Flushed', Changed(q)' # {}
                 PROVE  req'[q].who \in Owners' /\ req'[q].want \ req'[q].old \subseteq Roles' \cup Perms'
    BY DEF Holds
  <2>2. /\ q \in Flushed /\ Changed(q) # {}
        /\ req'[q].pc = req[q].pc /\ req'[q].who = req[q].who
        /\ req'[q].want = req[q].want /\ req'[q].old = req[q].old
    BY <1>1, <2>1 DEF Flushed, Changed
  <2>3. req[q].who \in Owners /\ req[q].want \ req[q].old \subseteq Roles \cup Perms
    BY <2>2 DEF TypeInv, Holds
  <2>4. Locked(req[q].who) /\ \A x \in req[q].want \ req[q].old : Locked(x)
    BY <2>2 DEF Locked, Changed
  <2>5. req[q].who \in Admin \cup Role /\ req[q].want \subseteq Role \cup Perm
    BY <2>2 DEF TypeInv, Fits, Flushed
  <2>6. /\ \A x \in Owners' \cup Perms' : x \in Admin \cup Role => x \in Owners'
        /\ \A x \in Owners' \cup Perms' : x \in Role \cup Perm => x \in Roles' \cup Perms'
    BY AccessAssumption DEF AccessAssumption, Owners, Roles, Perms
  <2>7. Roles \subseteq Owners
    BY DEF Owners
  <2> QED
    BY <2>2, <2>3, <2>4, <2>5, <2>6, <2>7 DEF Survive
<1>3. edits' \in 0..MaxEdits
  BY AccessAssumption DEF AccessAssumption, EndsAs, TypeInv, TypeOK
<1>4. cache' \in [Admin -> SUBSET Opt(Code)] /\ session' \in Session
  BY DEF EndsAs, TypeInv, TypeOK
<1> QED
  BY <1>1, <1>2, <1>3, <1>4 DEF TypeInv, TypeOK

----------------------------------------------------------------------------
(* One lemma for each transaction.                                         *)

\* POST /admins: a new row, its name not taken.
LEMMA CreateAdminType ==
    ASSUME TypeInv, NEW a \in Admin, NEW root \in BOOLEAN, NEW active \in BOOLEAN, CreateAdmin(a, root, active)
    PROVE  TypeInv'
<1>1. EndsAs(req) /\ links' = links /\ code' = code /\ excused' \subseteq Admin
  BY EndedEndsAs DEF CreateAdmin, Edited
<1>2. RowsTyped /\ ForeignKeys /\ UniqueNames
  BY DEF TypeInv, TypeOK
<1>3. RowsTyped'
  BY <1>1, <1>2 DEF CreateAdmin, RowsTyped, AccountRow
<1>4. ForeignKeys'
  BY <1>1, <1>2 DEF CreateAdmin, ForeignKeys, Owners, Roles, Perms
<1>5. UniqueNames'
  BY <1>1, <1>2 DEF CreateAdmin, UniqueNames, Perms
<1>6. Survive
  BY <1>1, <1>2 DEF CreateAdmin, Survive, Owners, Roles, Perms
<1> QED
  BY <1>1, <1>3, <1>4, <1>5, <1>6, EndedType

\* PUT /admins/{id}: the name is free, or the row keeps its own.
LEMMA UpdateAdminType ==
    ASSUME TypeInv, NEW a \in Admin, NEW root \in BOOLEAN, NEW active \in BOOLEAN, UpdateAdmin(a, root, active)
    PROVE  TypeInv'
<1>1. EndsAs(req) /\ links' = links /\ code' = code /\ excused' \subseteq Admin
  BY EndedEndsAs DEF UpdateAdmin, Edited
<1>2. RowsTyped /\ ForeignKeys /\ UniqueNames
  BY DEF TypeInv, TypeOK
<1>3. RowsTyped'
  BY <1>1, <1>2 DEF UpdateAdmin, RowsTyped, AccountRow
<1>4. ForeignKeys'
  BY <1>1, <1>2 DEF UpdateAdmin, ForeignKeys, Owners, Roles, Perms
<1>5. UniqueNames'
  BY <1>1, <1>2 DEF UpdateAdmin, UniqueNames, Perms
<1>6. Survive
  BY <1>1, <1>2 DEF UpdateAdmin, Survive, Owners, Roles, Perms
<1> QED
  BY <1>1, <1>3, <1>4, <1>5, <1>6, EndedType

\* DELETE /admins/{id}: the links go with the row.
LEMMA DeleteAdminType ==
    ASSUME TypeInv, NEW a \in Admin, DeleteAdmin(a)
    PROVE  TypeInv'
<1>1. EndsAs(req) /\ links' = Without(a) /\ code' = code /\ excused' \subseteq Admin
  BY EndedEndsAs DEF DeleteAdmin, Edited
<1>2. RowsTyped /\ ForeignKeys /\ UniqueNames
  BY DEF TypeInv, TypeOK
<1>3. RowsTyped'
  BY <1>1, <1>2 DEF DeleteAdmin, RowsTyped, AccountRow, NoAccount, Without
<1>4. ForeignKeys'
  BY <1>1, <1>2 DEF DeleteAdmin, ForeignKeys, Owners, Roles, Perms, Without
<1>5. UniqueNames'
  BY <1>1, <1>2 DEF DeleteAdmin, UniqueNames, Perms
<1>6. Survive
  BY <1>1, <1>2 DEF DeleteAdmin, Survive, Owners, Roles, Perms
<1> QED
  BY <1>1, <1>3, <1>4, <1>5, <1>6, EndedType

\* POST /admins/{id}/status: one column that no key is about.
LEMMA UpdateStatusType ==
    ASSUME TypeInv, NEW a \in Admin, NEW active \in BOOLEAN, UpdateStatus(a, active)
    PROVE  TypeInv'
<1>1. EndsAs(req) /\ links' = links /\ code' = code /\ excused' \subseteq Admin
  BY EndedEndsAs DEF UpdateStatus, Edited
<1>2. RowsTyped /\ ForeignKeys /\ UniqueNames
  BY DEF TypeInv, TypeOK
<1>3. RowsTyped'
  BY <1>1, <1>2 DEF UpdateStatus, RowsTyped, AccountRow
<1>4. ForeignKeys'
  BY <1>1, <1>2 DEF UpdateStatus, ForeignKeys, Owners, Roles, Perms
<1>5. UniqueNames'
  BY <1>1, <1>2 DEF UpdateStatus, UniqueNames, Perms
<1>6. Survive
  BY <1>1, <1>2 DEF UpdateStatus, Survive, Owners, Roles, Perms
<1> QED
  BY <1>1, <1>3, <1>4, <1>5, <1>6, EndedType

\* POST /roles.
LEMMA CreateRoleType ==
    ASSUME TypeInv, NEW r \in Role, NEW super \in BOOLEAN, NEW sys \in BOOLEAN, CreateRole(r, super, sys)
    PROVE  TypeInv'
<1>1. EndsAs(req) /\ links' = links /\ code' = code /\ excused' \subseteq Admin
  BY EndedEndsAs DEF CreateRole, Edited
<1>2. RowsTyped /\ ForeignKeys /\ UniqueNames
  BY DEF TypeInv, TypeOK
<1>3. RowsTyped'
  BY <1>1, <1>2 DEF CreateRole, RowsTyped, RoleRow
<1>4. ForeignKeys'
  BY <1>1, <1>2 DEF CreateRole, ForeignKeys, Owners, Roles, Perms
<1>5. UniqueNames'
  BY <1>1, <1>2 DEF CreateRole, UniqueNames, Perms
<1>6. Survive
  BY <1>1, <1>2 DEF CreateRole, Survive, Owners, Roles, Perms
<1> QED
  BY <1>1, <1>3, <1>4, <1>5, <1>6, EndedType

\* PUT /roles/{id}.
LEMMA UpdateRoleType ==
    ASSUME TypeInv, NEW r \in Role, NEW super \in BOOLEAN, UpdateRole(r, super)
    PROVE  TypeInv'
<1>1. EndsAs(req) /\ links' = links /\ code' = code /\ excused' \subseteq Admin
  BY EndedEndsAs DEF UpdateRole, Edited
<1>2. RowsTyped /\ ForeignKeys /\ UniqueNames
  BY DEF TypeInv, TypeOK
<1>3. RowsTyped'
  BY <1>1, <1>2 DEF UpdateRole, RowsTyped, RoleRow
<1>4. ForeignKeys'
  BY <1>1, <1>2 DEF UpdateRole, ForeignKeys, Owners, Roles, Perms
<1>5. UniqueNames'
  BY <1>1, <1>2 DEF UpdateRole, UniqueNames, Perms
<1>6. Survive
  BY <1>1, <1>2 DEF UpdateRole, Survive, Owners, Roles, Perms
<1> QED
  BY <1>1, <1>3, <1>4, <1>5, <1>6, EndedType

\* POST /permissions: the code is not taken.
LEMMA CreatePermissionType ==
    ASSUME TypeInv, NEW p \in Perm, NEW c \in Code, CreatePermission(p, c)
    PROVE  TypeInv'
<1>1. EndsAs(req) /\ links' = links /\ code' = [code EXCEPT ![p] = c] /\ excused' \subseteq Admin
  BY EndedEndsAs DEF CreatePermission, Edited
<1>2. RowsTyped /\ ForeignKeys /\ UniqueNames
  BY DEF TypeInv, TypeOK
<1>3. RowsTyped'
  BY <1>1, <1>2 DEF CreatePermission, RowsTyped, Opt
<1>4. ForeignKeys'
  BY <1>1, <1>2 DEF CreatePermission, ForeignKeys, Owners, Roles, Perms
<1>5. UniqueNames'
  BY <1>1, <1>2 DEF CreatePermission, UniqueNames, Perms, CodeTaken
<1>6. Survive
  BY <1>1, <1>2 DEF CreatePermission, Survive, Owners, Roles, Perms
<1> QED
  BY <1>1, <1>3, <1>4, <1>5, <1>6, EndedType

\* PUT /permissions/{id}: the new code is not taken.
LEMMA UpdatePermissionType ==
    ASSUME TypeInv, NEW p \in Perm, NEW c \in Code, UpdatePermission(p, c)
    PROVE  TypeInv'
<1>1. EndsAs(req) /\ links' = links /\ code' = [code EXCEPT ![p] = c] /\ excused' \subseteq Admin
  BY EndedEndsAs DEF UpdatePermission, Edited
<1>2. RowsTyped /\ ForeignKeys /\ UniqueNames
  BY DEF TypeInv, TypeOK
<1>3. RowsTyped'
  BY <1>1, <1>2 DEF UpdatePermission, RowsTyped, Opt
<1>4. ForeignKeys'
  BY <1>1, <1>2, AccessAssumption DEF AccessAssumption, UpdatePermission, ForeignKeys, Owners, Roles, Perms
<1>5. UniqueNames'
  BY <1>1, <1>2 DEF UpdatePermission, UniqueNames, Perms, CodeTaken
<1>6. Survive
  BY <1>1, <1>2 DEF UpdatePermission, Survive, Owners, Roles, Perms
<1> QED
  BY <1>1, <1>3, <1>4, <1>5, <1>6, EndedType

\* DELETE /permissions/{id}: the grants go with the row.
LEMMA DeletePermissionType ==
    ASSUME TypeInv, NEW p \in Perm, DeletePermission(p)
    PROVE  TypeInv'
<1>1. EndsAs(req) /\ links' = Without(p) /\ code' = [code EXCEPT ![p] = None] /\ excused' \subseteq Admin
  BY EndedEndsAs DEF DeletePermission, Edited
<1>2. RowsTyped /\ ForeignKeys /\ UniqueNames
  BY DEF TypeInv, TypeOK
<1>3. RowsTyped'
  BY <1>1, <1>2 DEF DeletePermission, RowsTyped, Opt, Without
<1>4. ForeignKeys'
  BY <1>1, <1>2 DEF DeletePermission, ForeignKeys, Owners, Roles, Perms, Without
<1>5. UniqueNames'
  BY <1>1, <1>2 DEF DeletePermission, UniqueNames, Perms
<1>6. Survive
  BY <1>1, <1>2 DEF DeletePermission, Survive, Owners, Roles, Perms
<1> QED
  BY <1>1, <1>3, <1>4, <1>5, <1>6, EndedType

\* DELETE /roles/{id}: it waits for the rows that a flushed assignment names.
LEMMA DeleteRoleType ==
    ASSUME TypeInv, NEW q \in Req, DeleteRole(q)
    PROVE  TypeInv'
<1> DEFINE r == req[q].who
           rq == [req EXCEPT ![q] = Idle]
<1>1. EndsAs(rq) /\ links' = Without(r) /\ code' = code /\ excused' \subseteq Admin
  BY EndedEndsAs DEF DeleteRole
<1>2. RowsTyped /\ ForeignKeys /\ UniqueNames /\ r \in Role
  BY DEF TypeInv, TypeOK, DeleteRole, Fits
<1>3. roles' = [roles EXCEPT ![r] = NoRole] /\ admins' = admins /\ ~Locked(r)
  BY DEF DeleteRole
<1> HIDE DEF r, rq
<1>4. RowsTyped'
  BY <1>1, <1>2, <1>3 DEF RowsTyped, RoleRow, NoRole, Without
<1>5. ForeignKeys'
  BY <1>1, <1>2, <1>3 DEF ForeignKeys, Owners, Roles, Perms, Without
<1>6. UniqueNames'
  BY <1>1, <1>2, <1>3 DEF RowsTyped, UniqueNames, Perms, NoRole
<1>7. Survive
  BY <1>1, <1>2, <1>3 DEF RowsTyped, Survive, Owners, Roles, Perms, NoRole
<1> QED
  BY <1>1, <1>4, <1>5, <1>6, <1>7, EndedType

\* An assignment that has been flushed may end at any time: the rows it needs
\* are locked.
LEMMA AssignCommitType ==
    ASSUME TypeInv, NEW q \in Req, AssignCommit(q)
    PROVE  TypeInv'
<1> DEFINE rq == [req EXCEPT ![q] = Idle]
<1>1. EndsAs(rq) /\ links' = Rewritten(q) /\ UNCHANGED <<admins, roles, code>>
  BY DEF AssignCommit, EndsAs
<1>2. excused' \subseteq Admin
  BY DEF AssignCommit, TypeInv, TypeOK
<1>3. RowsTyped /\ ForeignKeys /\ UniqueNames
  BY DEF TypeInv, TypeOK
<1>4. /\ \/ req[q].who \in Admin /\ req[q].want \subseteq Role
         \/ req[q].who \in Role /\ req[q].want \subseteq Perm
      /\ req[q].want \ req[q].old # {} => req[q].who \in Owners
      /\ req[q].want \ req[q].old \subseteq Roles \cup Perms
  BY DEF TypeInv, Fits, Holds, Flushed, Changed, AssignCommit
<1>5. RowsTyped'
  BY <1>1, <1>3, <1>4 DEF RowsTyped, Rewritten, Link
<1>6. ForeignKeys'
  BY <1>1, <1>3, <1>4 DEF ForeignKeys, Rewritten, Owners, Roles, Perms
<1>7. UniqueNames' /\ Survive
  BY <1>1, <1>3 DEF UniqueNames, Survive, Owners, Roles, Perms
<1> HIDE DEF rq
<1> QED
  BY <1>1, <1>2, <1>5, <1>6, <1>7, EndedType

\* The codes that the bootstrap adds are new, and each is added once.
LEMMA SeededUnique ==
    ASSUME RowsTyped, UniqueNames, NEW cs, cs \subseteq Code, NEW f \in SeededCodes(cs)
    PROVE  /\ f \in [Perm -> Opt(Code)]
           /\ \A p \in Perms : f[p] = code[p]
           /\ \A p, q \in Perm : f[p] # None /\ f[p] = f[q] => p = q
<1>1. /\ f \in [Perm -> Opt(Code)]
      /\ \A p \in Perm : IF p \in Perms THEN f[p] = code[p] ELSE f[p] \in Opt(cs)
      /\ \A c \in cs : \E p \in Perm : {x \in Perm : f[x] = c} = {p}
  <2>1. \A p \in Perm : f[p] \in Opt(Code)
    BY AccessAssumption DEF SeededCodes, RowsTyped, Opt
  <2> QED
    BY <2>1 DEF SeededCodes
<1>2. ASSUME NEW p \in Perm, NEW q \in Perm, f[p] # None, f[p] = f[q] PROVE p = q
  <2>1. CASE p \in Perms /\ q \in Perms
    BY <2>1, <1>1, <1>2 DEF UniqueNames
  <2>2. CASE p \notin Perms \/ q \notin Perms
    <3>1. f[p] \in cs
      BY <2>2, <1>1, <1>2 DEF Opt
    <3>2. PICK x \in Perm : {y \in Perm : f[y] = f[p]} = {x}
      BY <3>1, <1>1
    <3> QED
      BY <3>2, <1>2
  <2> QED
    BY <2>1, <2>2
<1>3. \A p \in Perms : f[p] = code[p]
  BY <1>1 DEF Perms
<1> QED
  BY <1>1, <1>2, <1>3

\* run_seed: what it links is there, what it names nobody else has.
LEMMA SeedCommitType ==
    ASSUME TypeInv, NEW q \in Req, SeedCommit(q)
    PROVE  TypeInv' /\ EndsAs([req EXCEPT ![q] = Idle])
<1> DEFINE a == req[q].who
           found == req[q].old
           linked == req[q].held # {}
           rq == [req EXCEPT ![q] = Idle]
<1>1. PICK r \in req[q].want \cap Role, p \in req[q].want \cap Perm :
         /\ Insertable(p, found, CodeTaken(Star))
         /\ Insertable(r, found, \E s \in Role : roles[s].super)
         /\ Insertable(a, found, NameTaken(TRUE)) \/ (linked /\ req[q].active)
         /\ roles' = [roles EXCEPT ![r] = [here |-> TRUE, super |-> r \in found => @.super, sys |-> TRUE]]
         /\ admins' = IF a \in found \ Owners THEN admins
                       ELSE [admins EXCEPT ![a] = [here |-> TRUE, root |-> a \in found => @.root,
                                                   active |-> req[q].active => @.active]]
         /\ \E cs \in SeededCodes((Defaults \ {g[2] : g \in req[q].granted})
                                    \cup (IF p \in found THEN {} ELSE {Star})) :
              /\ p \notin found => cs[p] = Star
              /\ Ended(rq, SeededLinks(a, r, p, found, linked), cs)
  BY DEF SeedCommit
<1> DEFINE new == (Defaults \ {g[2] : g \in req[q].granted}) \cup (IF p \in found THEN {} ELSE {Star})
<1>2. PICK cs \in SeededCodes(new) :
         /\ p \notin found => cs[p] = Star
         /\ Ended(rq, SeededLinks(a, r, p, found, linked), cs)
  BY <1>1
<1>3. RowsTyped /\ ForeignKeys /\ UniqueNames /\ a \in Admin /\ r \in Role /\ p \in Perm /\ req[q].active \in BOOLEAN
  BY DEF TypeInv, TypeOK, SeedCommit, Fits, Handler
<1>4. /\ EndsAs(rq) /\ excused' \subseteq Admin
      /\ links' = SeededLinks(a, r, p, found, linked) /\ code' = cs
  BY <1>2, EndedEndsAs
<1>5. new \subseteq Code /\ Star # None /\ Star \in Code
  BY AccessAssumption DEF AccessAssumption
<1> HIDE DEF new
<1>6. /\ cs \in [Perm -> Opt(Code)]
      /\ \A x \in Perms : cs[x] = code[x]
      /\ \A x, y \in Perm : cs[x] # None /\ cs[x] = cs[y] => x = y
  BY <1>2, <1>3, <1>5, SeededUnique
<1>7. p \in Perms' /\ Perms \subseteq Perms'
  BY <1>1, <1>2, <1>3, <1>4, <1>5, <1>6, AccessAssumption
     DEF AccessAssumption, Insertable, Perms, Owners, Roles
<1>8. r \in Roles' /\ Roles \subseteq Roles' /\ Owners \subseteq Owners' /\ (~linked => a \in Owners')
  BY <1>1, <1>3, AccessAssumption
     DEF AccessAssumption, RowsTyped, AccountRow, RoleRow, Owners, Roles, Perms, Insertable
<1>9. RowsTyped'
  BY <1>1, <1>3, <1>4, <1>6 DEF RowsTyped, AccountRow, RoleRow, SeededLinks, Link
<1>10. ForeignKeys'
  BY <1>3, <1>4, <1>7, <1>8 DEF ForeignKeys, SeededLinks, Owners
<1>11. UniqueNames'
  <2>1. \A x, y \in Perms' : x # y => code'[x] # code'[y]
    BY <1>4, <1>6 DEF Perms
  <2>2. ASSUME NEW x \in Role, NEW y \in Role, roles'[x].super, roles'[y].super PROVE x = y
    <3>1. r \notin found => \A s \in Role : ~roles[s].super
      BY <1>1 DEF Insertable
    <3>2. r \in found => \A s \in Role : roles'[s].super = roles[s].super
      BY <1>1, <1>3 DEF RowsTyped, RoleRow
    <3>3. \A s \in Role : s # r => roles'[s] = roles[s]
      BY <1>1, <1>3 DEF RowsTyped
    <3> QED
      BY <1>3, <2>2, <3>1, <3>2, <3>3 DEF UniqueNames
  <2> QED
    BY <2>1, <2>2 DEF UniqueNames
<1>12. Survive
  BY <1>7, <1>8 DEF Survive
<1> QED
  BY <1>4, <1>9, <1>10, <1>11, <1>12, EndedType

----------------------------------------------------------------------------
(* Steps that leave the tables alone.                                      *)

\* The tables being as they were, only the handlers and the cache are in question.
LEMMA HandlerType ==
    ASSUME TypeInv, UNCHANGED tables, req' \in [Req -> Handler],
           \A q \in Req : Fits(req'[q]) /\ Holds(q)',
           cache' \in [Admin -> SUBSET Opt(Code)], session' \in Session,
           edits' \in 0..MaxEdits, excused' \subseteq Admin
    PROVE  TypeInv'
  BY DEF TypeInv, TypeOK, tables, RowsTyped, ForeignKeys, UniqueNames, Owners, Roles, Perms

\* Most of them change one handler's place, and nothing that is held.
LEMMA OneHandlerType ==
    ASSUME TypeInv, UNCHANGED <<tables, edits>>,
           NEW q \in Req, NEW h \in Handler, Fits(h), req' = [req EXCEPT ![q] = h],
           h.pc \notin {"cache", "commit"},
           cache' \in [Admin -> SUBSET Opt(Code)], session' \in Session, excused' \subseteq Admin
    PROVE  TypeInv'
<1>1. req' \in [Req -> Handler] /\ \A r \in Req : Fits(req'[r])
  BY DEF TypeInv, TypeOK
<1>2. ASSUME NEW r \in Req PROVE Holds(r)'
  BY DEF TypeInv, TypeOK, Holds, Flushed, Changed, tables, Owners, Roles, Perms
<1> QED
  BY <1>1, <1>2, HandlerType DEF TypeInv, TypeOK

\* A deletion remembers a role.
LEMMA DeleteRoleReadType ==
    ASSUME TypeInv, NEW q \in Req, NEW r \in Role, DeleteRoleRead(q, r)
    PROVE  TypeInv'
<1> DEFINE h == [Idle EXCEPT !.pc = "delete", !.who = r]
<1>1. h \in Handler /\ Fits(h) /\ h.pc = "delete"
  BY DEF Idle, Handler, Opt, Fits
<1>2. UNCHANGED <<tables, edits>> /\ req' = [req EXCEPT ![q] = h] /\ UNCHANGED <<cache, session, excused>>
  BY DEF DeleteRoleRead
<1> HIDE DEF h
<1> QED
  BY <1>1, <1>2, OneHandlerType DEF TypeInv, TypeOK

\* A rollback forgets the locals.
LEMMA FailType ==
    ASSUME TypeInv, NEW q \in Req, Fail(q)
    PROVE  TypeInv'
  BY IdleFits, OneHandlerType DEF Fail, TypeInv, TypeOK

\* A writer that begins marks those that are at work.
LEMMA JoinType ==
    ASSUME TypeInv, NEW q \in Req, NEW h \in Handler, Fits(h), h.pc \notin {"cache", "commit"},
           req' = [[x \in Req |-> IF x \in Writers THEN [req[x] EXCEPT !.overlap = TRUE] ELSE req[x]] EXCEPT ![q] = h],
           UNCHANGED <<tables, cache, edits, session, excused>>
    PROVE  TypeInv'
<1>1. \A x \in Req : [req[x] EXCEPT !.overlap = TRUE] \in Handler
  BY DEF TypeInv, TypeOK, Handler
<1>2. \A x \in Req : /\ req'[x] \in Handler
                     /\ x # q => /\ req'[x].pc = req[x].pc /\ req'[x].who = req[x].who
                                 /\ req'[x].want = req[x].want /\ req'[x].old = req[x].old
  BY <1>1 DEF TypeInv, TypeOK, Handler
<1>3. req'[q] = h
  OBVIOUS
<1>4. req' \in [Req -> Handler] /\ \A x \in Req : Fits(req'[x])
  BY <1>2, <1>3 DEF TypeInv, Fits
<1>5. ASSUME NEW x \in Req PROVE Holds(x)'
  BY <1>2, <1>3 DEF TypeInv, Holds, Flushed, Changed, tables, Owners, Roles, Perms
<1> QED
  BY <1>4, <1>5, HandlerType DEF TypeInv, TypeOK

\* An assignment remembers links of the right kind.
LEMMA AssignReadType ==
    ASSUME TypeInv, NEW q \in Req, NEW o, NEW wanted, AssignRead(q, o, wanted),
           (o \in Admin /\ wanted \subseteq Role) \/ (o \in Role /\ wanted \subseteq Perm)
    PROVE  TypeInv'
<1> DEFINE w == wanted \cap (IF o \in Admin THEN Roles ELSE Perms)
           h == [Idle EXCEPT !.pc = "flush", !.who = o, !.old = Targets(o, links), !.want = w, !.overlap = Writers # {}]
<1>1. \/ o \in Admin /\ w \cup Targets(o, links) \subseteq Role
      \/ o \in Role /\ w \cup Targets(o, links) \subseteq Perm
  BY TargetsTyped, AccessAssumption DEF AccessAssumption, TypeInv, TypeOK, RowsTyped
<1> HIDE DEF w
<1>2. h \in Handler /\ Fits(h) /\ h.pc = "flush"
  BY <1>1 DEF Idle, Handler, Opt, Fits
<1> HIDE DEF h
<1>3. /\ req' = [[x \in Req |-> IF x \in Writers THEN [req[x] EXCEPT !.overlap = TRUE] ELSE req[x]] EXCEPT ![q] = h]
      /\ UNCHANGED <<tables, cache, edits, session, excused>>
  BY DEF AssignRead, h, w
<1> QED
  BY <1>2, <1>3, JoinType

\* The bootstrap remembers an admin, a role and a permission.
LEMMA SeedBeginType ==
    ASSUME TypeInv, NEW q \in Req, NEW a \in Admin, NEW r \in Role, NEW p \in Perm, SeedBegin(q, a, r, p)
    PROVE  TypeInv'
<1> DEFINE h == [Idle EXCEPT !.pc = "seed", !.who = a, !.want = {r, p},
                             !.old = {a, r, p} \cap (Owners \cup Perms),
                             !.held = {r} \cap Targets(a, links),
                             !.granted = {r} \X {c \in Defaults : CodeTaken(c)},
                             !.active = admins[a].active, !.overlap = Writers # {}]
<1>1. admins[a].active \in BOOLEAN /\ {r} \X {c \in Defaults : CodeTaken(c)} \subseteq Role \X Code
  BY AccessAssumption DEF AccessAssumption, TypeInv, TypeOK, RowsTyped, AccountRow
<1>2. h \in Handler /\ Fits(h) /\ h.pc = "seed"
  BY <1>1 DEF Idle, Handler, Opt, Fits
<1> HIDE DEF h
<1>3. /\ req' = [[x \in Req |-> IF x \in Writers THEN [req[x] EXCEPT !.overlap = TRUE] ELSE req[x]] EXCEPT ![q] = h]
      /\ UNCHANGED <<tables, cache, edits, session, excused>>
  BY DEF SeedBegin, h
<1> QED
  BY <1>2, <1>3, JoinType

\* The flush finds the rows it names, and from then on they are locked.
LEMMA AssignFlushType ==
    ASSUME TypeInv, NEW q \in Req, AssignFlush(q)
    PROVE  TypeInv'
<1>1. /\ req' = [req EXCEPT ![q].pc = "cache"] /\ req[q].pc = "flush"
      /\ UNCHANGED <<tables, cache, edits, session, excused>>
      /\ req[q].who \in Owners /\ req[q].want \ req[q].old \subseteq Roles \cup Perms
  BY DEF AssignFlush
<1>2. \A x \in Req : /\ req'[x] \in Handler
                     /\ x # q => req'[x] = req[x]
                     /\ req'[x].who = req[x].who /\ req'[x].want = req[x].want /\ req'[x].old = req[x].old
  BY <1>1 DEF TypeInv, TypeOK, Handler
<1>3. req'[q].pc = "cache"
  BY <1>1 DEF TypeInv, TypeOK, Handler
<1>4. req' \in [Req -> Handler] /\ \A x \in Req : Fits(req'[x])
  BY <1>1, <1>2, <1>3 DEF TypeInv, TypeOK, Fits
<1>5. ASSUME NEW x \in Req PROVE Holds(x)'
  BY <1>1, <1>2 DEF TypeInv, Holds, Flushed, Changed, tables, Owners, Roles, Perms
<1> QED
  BY <1>1, <1>4, <1>5, HandlerType DEF TypeInv, TypeOK

\* A flush writes links of the right kind.
LEMMA RewrittenTyped ==
    ASSUME TypeInv, NEW q \in Flushed
    PROVE  Rewritten(q) \subseteq Link
  BY DEF TypeInv, TypeOK, RowsTyped, Fits, Flushed, Rewritten, Link

\* The SET writes sets of codes.
LEMMA AssignCacheType ==
    ASSUME TypeInv, NEW q \in Req, AssignCache(q)
    PROVE  TypeInv'
<1> DEFINE touched == Affected(req[q].who, links)
<1>1. /\ req' = [req EXCEPT ![q].pc = "commit", ![q].held = {}] /\ req[q].pc = "cache"
      /\ cache' = [a \in Admin |-> IF a \in touched THEN CodesOf(a, Rewritten(q), code) ELSE cache[a]]
      /\ excused' = excused \cup touched
      /\ UNCHANGED <<tables, edits, session>>
  BY DEF AssignCache
<1>2. \A x \in Req : /\ req'[x] \in Handler
                     /\ x # q => req'[x] = req[x]
                     /\ req'[x].who = req[x].who /\ req'[x].want = req[x].want /\ req'[x].old = req[x].old
  BY <1>1 DEF TypeInv, TypeOK, Handler
<1>3. req'[q].pc = "commit"
  BY <1>1 DEF TypeInv, TypeOK, Handler
<1>4. req' \in [Req -> Handler] /\ \A x \in Req : Fits(req'[x])
  BY <1>1, <1>2, <1>3 DEF TypeInv, TypeOK, Fits
<1>5. ASSUME NEW x \in Req PROVE Holds(x)'
  BY <1>1, <1>2 DEF TypeInv, Holds, Flushed, Changed, tables, Owners, Roles, Perms
<1>6. ASSUME NEW a \in Admin PROVE CodesOf(a, Rewritten(q), code) \subseteq Opt(Code)
  <2>1. Rewritten(q) \subseteq Link
    BY <1>1, RewrittenTyped DEF Flushed
  <2>2. code \in [Perm -> Opt(Code)]
    BY DEF TypeInv, TypeOK, RowsTyped
  <2> QED
    BY <2>1, <2>2, TargetsTyped, CodesTyped DEF CodesOf
<1>7. cache' \in [Admin -> SUBSET Opt(Code)]
  BY <1>1, <1>6 DEF TypeInv, TypeOK
<1>8. excused' \subseteq Admin
  BY <1>1 DEF TypeInv, TypeOK, Affected
<1> QED
  BY <1>1, <1>4, <1>5, <1>7, <1>8, HandlerType DEF TypeInv, TypeOK

\* A login remembers an admin.
LEMMA LoginAccountType ==
    ASSUME TypeInv, NEW q \in Req, NEW a \in Admin, LoginAccount(q, a)
    PROVE  TypeInv'
<1> DEFINE h == [Idle EXCEPT !.pc = "account", !.who = a,
                             !.held = Targets(a, links), !.granted = Grants(links, code)]
<1>1. Targets(a, links) \subseteq Role /\ Grants(links, code) \subseteq Role \X Code
  BY TargetsTyped, GrantsTyped, LinkedCodes DEF TypeInv, TypeOK, RowsTyped
<1>2. h \in Handler /\ Fits(h) /\ h.pc = "account"
  BY <1>1 DEF Idle, Handler, Opt, Fits
<1> HIDE DEF h
<1>3. req' = [req EXCEPT ![q] = h] /\ UNCHANGED <<tables, cache, edits, session, excused>>
  BY DEF LoginAccount, h
<1> QED
  BY <1>2, <1>3, OneHandlerType DEF TypeInv, TypeOK

\* A login reads roles.
LEMMA LoginRolesType ==
    ASSUME TypeInv, NEW q \in Req, LoginRoles(q)
    PROVE  TypeInv'
<1> DEFINE h == [req[q] EXCEPT !.pc = "roles", !.want = Targets(req[q].who, links)]
<1>1. req[q].who \in Admin /\ Targets(req[q].who, links) \subseteq Role
  BY TargetsTyped DEF TypeInv, TypeOK, RowsTyped, Fits, LoginRoles
<1>2. h \in Handler /\ Fits(h) /\ h.pc = "roles"
  BY <1>1 DEF TypeInv, TypeOK, Handler, Fits
<1>3. req' = [req EXCEPT ![q] = h] /\ UNCHANGED <<tables, cache, edits, session, excused>>
  BY DEF LoginRoles, TypeInv, TypeOK, Handler
<1> HIDE DEF h
<1> QED
  BY <1>2, <1>3, OneHandlerType DEF TypeInv, TypeOK

\* A token carries codes of permissions that are there.
LEMMA LoginIssueType ==
    ASSUME TypeInv, NEW q \in Req, LoginIssue(q)
    PROVE  TypeInv'
<1>1. req[q].want \subseteq Role /\ CodesOfRoles(req[q].want, links, code) \subseteq Code
  BY CodesTyped, LinkedCodes DEF TypeInv, TypeOK, RowsTyped, Fits, LoginIssue
<1>2. req[q].who \in Admin
  BY DEF TypeInv, Fits, LoginIssue
<1>3. session' \in Session
  BY <1>1, <1>2 DEF LoginIssue, Session, Carried, Opt
<1>4. req' = [req EXCEPT ![q] = Idle] /\ UNCHANGED <<tables, cache, edits, excused>>
  BY DEF LoginIssue
<1> QED
  BY <1>3, <1>4, IdleFits, OneHandlerType DEF TypeInv, TypeOK

\* Expiry and logout touch neither tables nor handlers.
LEMMA RestType ==
    ASSUME TypeInv, \/ \E a \in Admin : ExpireCache(a)
                    \/ EndSession
                    \/ UNCHANGED vars
    PROVE  TypeInv'
<1>1. UNCHANGED <<tables, req, edits, excused>>
  BY DEF ExpireCache, EndSession, vars, tables
<1>2. cache' \in [Admin -> SUBSET Opt(Code)] /\ session' \in Session
  BY DEF ExpireCache, EndSession, vars, TypeInv, TypeOK, NoCache, NoSession, Session, Opt
<1>3. \A q \in Req : Fits(req'[q]) /\ Holds(q)'
  BY <1>1 DEF TypeInv, Holds, Flushed, Changed, tables, Owners, Roles, Perms
<1> QED
  BY <1>1, <1>2, <1>3, HandlerType DEF TypeInv, TypeOK

\* Every step keeps the type invariant.
LEMMA NextType == TypeInv /\ [Next]_vars => TypeInv'
<1> SUFFICES ASSUME TypeInv, [Next]_vars PROVE TypeInv'
  OBVIOUS
<1>1. CASE Edit
  <2>1. CASE \E a \in Admin, root \in BOOLEAN, active \in BOOLEAN :
               CreateAdmin(a, root, active) \/ UpdateAdmin(a, root, active)
    BY <2>1, CreateAdminType, UpdateAdminType
  <2>2. CASE \E a \in Admin : DeleteAdmin(a)
    BY <2>2, DeleteAdminType
  <2>3. CASE \E a \in Admin, active \in BOOLEAN : UpdateStatus(a, active)
    BY <2>3, UpdateStatusType
  <2>4. CASE \E r \in Role, super \in BOOLEAN, sys \in BOOLEAN : CreateRole(r, super, sys)
    BY <2>4, CreateRoleType
  <2>5. CASE \E r \in Role, super \in BOOLEAN : UpdateRole(r, super)
    BY <2>5, UpdateRoleType
  <2>6. CASE \E p \in Perm, c \in Code : CreatePermission(p, c) \/ UpdatePermission(p, c)
    BY <2>6, CreatePermissionType, UpdatePermissionType
  <2>7. CASE \E p \in Perm : DeletePermission(p)
    BY <2>7, DeletePermissionType
  <2> QED
    BY <1>1, <2>1, <2>2, <2>3, <2>4, <2>5, <2>6, <2>7 DEF Edit
<1>2. ASSUME NEW q \in Req, HandlerStep(q) PROVE TypeInv'
  <2>1. CASE \E r \in Role : DeleteRoleRead(q, r)
    BY <2>1, DeleteRoleReadType
  <2>2. CASE \/ \E a \in Admin, wanted \in SUBSET Role : AssignRead(q, a, wanted)
             \/ \E r \in Role, wanted \in SUBSET Perm : AssignRead(q, r, wanted)
    BY <2>2, AssignReadType
  <2>3. CASE \E a \in Admin, r \in Role, p \in Perm : SeedBegin(q, a, r, p)
    BY <2>3, SeedBeginType
  <2>4. CASE \E a \in Admin : LoginAccount(q, a)
    BY <2>4, LoginAccountType
  <2>5. CASE AssignFlush(q) \/ AssignCache(q) \/ AssignCommit(q)
    BY <2>5, AssignFlushType, AssignCacheType, AssignCommitType
  <2>6. CASE DeleteRole(q) \/ SeedCommit(q)
    BY <2>6, DeleteRoleType, SeedCommitType
  <2>7. CASE LoginRoles(q) \/ LoginIssue(q) \/ Fail(q)
    BY <2>7, LoginRolesType, LoginIssueType, FailType
  <2> QED
    BY <1>2, <2>1, <2>2, <2>3, <2>4, <2>5, <2>6, <2>7 DEF HandlerStep
<1>3. CASE (\E a \in Admin : ExpireCache(a)) \/ EndSession \/ UNCHANGED vars
  BY <1>3, RestType
<1> QED
  BY <1>1, <1>2, <1>3 DEF Next

\* The tables stay typed and their keys hold, and so do the handlers' locals.
THEOREM AccessTypeInvariant == Spec => []TypeInv
<1> QED
  BY InitType, NextType, PTL DEF Spec

\* Types, foreign keys and unique names in every state.
THEOREM AccessTypes == Spec => []TypeOK
<1>1. TypeInv => TypeOK
  BY DEF TypeInv
<1> QED
  BY <1>1, AccessTypeInvariant, PTL

----------------------------------------------------------------------------
(* What a token carries.                                                   *)

\* A login knows, at each of its statements, everything its admin holds, and
\* whatever it has read belongs to that.
Watches(q) ==
    /\ req[q].pc \in {"account", "roles"} =>
         /\ Targets(req[q].who, links) \subseteq req[q].held
         /\ Grants(links, code) \subseteq req[q].granted
    /\ req[q].pc = "roles" => req[q].want \subseteq req[q].held

\* The inductive invariant of LoginFresh.
FreshInv ==
    /\ \A q \in Req : Watches(q)
    /\ session.perms \subseteq session.could

\* A login notices every transaction that ends while it runs.
LEMMA NoticedWatches ==
    ASSUME TypeInv, FreshInv, NEW rq, EndsAs(rq), RowsTyped', ForeignKeys'
    PROVE  FreshInv'
<1>1. ASSUME NEW q \in Req PROVE Watches(q)'
  <2>1. SUFFICES ASSUME req'[q].pc \in {"account", "roles"} PROVE Watches(q)'
    BY DEF Watches
  <2>2. /\ rq \in [Req -> Handler] /\ req'[q].pc = rq[q].pc /\ rq[q] = req[q]
        /\ req'[q].who = req[q].who /\ req'[q].want = req[q].want
    BY <2>1, HandlersAfter, IdleFits
  <2>3. req'[q] = [req[q] EXCEPT !.held = @ \cup Targets(req[q].who, links'),
                                 !.granted = @ \cup Grants(links', code')]
    BY <2>1, <2>2 DEF EndsAs, Noticed
  <2>4. /\ req'[q].held = req[q].held \cup Targets(req[q].who, links')
        /\ req'[q].granted = req[q].granted \cup Grants(links', code')
    BY <2>3 DEF TypeInv, TypeOK, Handler
  <2> QED
    BY <2>1, <2>2, <2>4 DEF Watches, FreshInv
<1> QED
  BY <1>1 DEF FreshInv, EndsAs

\* The admins for whom the tables say something new.
Moved == {a \in Admin : CodesOf(a, links', code') # CodesOf(a, links, code)}

\* Every edit that does not refresh the cache excuses the admins it moves.
LEMMA TransactionEnds ==
    ASSUME TypeInv, \/ Edit
                    \/ \E q \in Req : DeleteRole(q) \/ SeedCommit(q)
    PROVE  \E rq \in [Req -> Handler] : EndsAs(rq) /\ excused' = excused \cup Moved
<1>1. CASE Edit
  <2>1. \E ls, cs : Ended(req, ls, cs)
    BY <1>1 DEF Edit, CreateAdmin, UpdateAdmin, DeleteAdmin, UpdateStatus, CreateRole, UpdateRole,
                CreatePermission, UpdatePermission, DeletePermission, Edited
  <2> QED
    BY <2>1 DEF Ended, EndsAs, Moved, TypeInv, TypeOK
<1>2. ASSUME NEW q \in Req, DeleteRole(q) \/ SeedCommit(q)
      PROVE  \E rq \in [Req -> Handler] : EndsAs(rq) /\ excused' = excused \cup Moved
  <2>1. \E ls, cs : Ended([req EXCEPT ![q] = Idle], ls, cs)
    BY <1>2 DEF DeleteRole, SeedCommit
  <2>2. [req EXCEPT ![q] = Idle] \in [Req -> Handler]
    BY IdleFits DEF TypeInv, TypeOK
  <2> QED
    BY <2>1, <2>2 DEF Ended, EndsAs, Moved
<1> QED
  BY <1>1, <1>2

\* A step that changes no table and no login.
LEMMA SameWatches ==
    ASSUME FreshInv, UNCHANGED <<tables, session>>,
           \A x \in Req : req'[x].pc \in {"account", "roles"} => req'[x] = req[x]
    PROVE  FreshInv'
  BY DEF FreshInv, Watches, tables

\* A step of one login that changes no table.
LEMMA AloneWatches ==
    ASSUME TypeInv, FreshInv, UNCHANGED tables, NEW q \in Req, NEW h, req' = [req EXCEPT ![q] = h],
           Watches(q)', session'.perms \subseteq session'.could
    PROVE  FreshInv'
  BY DEF TypeInv, TypeOK, FreshInv, Watches, tables

\* A writer that begins marks the writers at work, itself if there are any, and
\* nobody else.
LEMMA Joins ==
    ASSUME TypeInv, NEW q \in Req,
           \/ \E o, wanted : AssignRead(q, o, wanted)
           \/ \E a \in Admin, r \in Role, p \in Perm : SeedBegin(q, a, r, p)
    PROVE  /\ UNCHANGED <<tables, cache, edits, session, excused>>
           /\ req'[q].pc = (IF \E o, wanted : AssignRead(q, o, wanted) THEN "flush" ELSE "seed")
           /\ Writers # {} => req'[q].overlap = TRUE
           /\ \A x \in Req : x # q => /\ req'[x].pc = req[x].pc /\ req'[x].want = req[x].want
                                      /\ x \in Writers => req'[x].overlap = TRUE
                                      /\ x \notin Writers => req'[x] = req[x]
<1> DEFINE Marked == [x \in Req |-> IF x \in Writers THEN [req[x] EXCEPT !.overlap = TRUE] ELSE req[x]]
<1>1. \A x \in Req : /\ Marked[x].pc = req[x].pc /\ Marked[x].want = req[x].want
                     /\ x \in Writers => Marked[x].overlap = TRUE
                     /\ x \notin Writers => Marked[x] = req[x]
  BY DEF TypeInv, TypeOK, Handler
<1>2. \E h : /\ h.pc = (IF \E o, wanted : AssignRead(q, o, wanted) THEN "flush" ELSE "seed")
             /\ Writers # {} => h.overlap = TRUE
             /\ req' = [Marked EXCEPT ![q] = h]
  <2>1. CASE \E o, wanted : AssignRead(q, o, wanted)
    <3>1. PICK o, wanted : AssignRead(q, o, wanted)
      BY <2>1
    <3> DEFINE h == [Idle EXCEPT !.pc = "flush", !.who = o, !.old = Targets(o, links),
                                 !.want = wanted \cap (IF o \in Admin THEN Roles ELSE Perms),
                                 !.overlap = Writers # {}]
    <3>2. h.pc = "flush" /\ h.overlap = (Writers # {})
      BY DEF Idle
    <3>3. req' = [Marked EXCEPT ![q] = h]
      BY <3>1 DEF AssignRead
    <3> HIDE DEF h, Marked
    <3> QED
      BY <2>1, <3>2, <3>3
  <2>2. CASE ~\E o, wanted : AssignRead(q, o, wanted)
    <3>1. PICK a \in Admin, r \in Role, p \in Perm : SeedBegin(q, a, r, p)
      BY <2>2
    <3> DEFINE h == [Idle EXCEPT !.pc = "seed", !.who = a, !.want = {r, p},
                                 !.old = {a, r, p} \cap (Owners \cup Perms),
                                 !.held = {r} \cap Targets(a, links),
                                 !.granted = {r} \X {c \in Defaults : CodeTaken(c)},
                                 !.active = admins[a].active, !.overlap = Writers # {}]
    <3>2. h.pc = "seed" /\ h.overlap = (Writers # {})
      BY DEF Idle
    <3>3. req' = [Marked EXCEPT ![q] = h]
      BY <3>1 DEF SeedBegin
    <3> HIDE DEF h, Marked
    <3> QED
      BY <2>2, <3>2, <3>3
  <2> QED
    BY <2>1, <2>2
<1>3. UNCHANGED <<tables, cache, edits, session, excused>>
  BY DEF AssignRead, SeedBegin
<1>4. /\ DOMAIN Marked = Req
      /\ \A h : [Marked EXCEPT ![q] = h][q] = h /\ \A x \in Req : x # q => [Marked EXCEPT ![q] = h][x] = Marked[x]
  OBVIOUS
<1> HIDE DEF Marked
<1> QED
  BY <1>1, <1>2, <1>3, <1>4

\* Writers join, flush, cache and fail without touching a login.
LEMMA OthersWatch ==
    ASSUME TypeInv, FreshInv, NEW q \in Req,
           \/ \E r \in Role : DeleteRoleRead(q, r)
           \/ \E o, wanted : AssignRead(q, o, wanted)
           \/ \E a \in Admin, r \in Role, p \in Perm : SeedBegin(q, a, r, p)
           \/ AssignFlush(q) \/ AssignCache(q) \/ Fail(q)
    PROVE  FreshInv'
<1>1. CASE \E r \in Role : DeleteRoleRead(q, r)
  <2>1. PICK r \in Role : DeleteRoleRead(q, r)
    BY <1>1
  <2> DEFINE h == [Idle EXCEPT !.pc = "delete", !.who = r]
  <2>2. h.pc = "delete"
    BY DEF Idle
  <2>3. req' = [req EXCEPT ![q] = h] /\ UNCHANGED <<tables, session>>
    BY <2>1 DEF DeleteRoleRead
  <2> HIDE DEF h
  <2> QED
    BY <2>2, <2>3, SameWatches DEF TypeInv, TypeOK
<1>2. CASE \/ \E o, wanted : AssignRead(q, o, wanted)
           \/ \E a \in Admin, r \in Role, p \in Perm : SeedBegin(q, a, r, p)
  BY <1>2, Joins, SameWatches DEF Writers
<1>3. CASE AssignFlush(q) \/ AssignCache(q) \/ Fail(q)
  <2>1. UNCHANGED <<tables, session>> /\ \A x \in Req : x # q => req'[x] = req[x]
    BY <1>3 DEF TypeInv, TypeOK, AssignFlush, AssignCache, Fail
  <2>2. req'[q].pc \notin {"account", "roles"}
    BY <1>3, IdleFits DEF TypeInv, TypeOK, Handler, AssignFlush, AssignCache, Fail
  <2> QED
    BY <2>1, <2>2, SameWatches
<1> QED
  BY <1>1, <1>2, <1>3

\* What a login reads was there when it read it.
LEMMA LoginsWatch ==
    ASSUME TypeInv, FreshInv, NEW q \in Req,
           (\E a \in Admin : LoginAccount(q, a)) \/ LoginRoles(q)
    PROVE  FreshInv'
<1>1. CASE \E a \in Admin : LoginAccount(q, a)
  <2>1. PICK a \in Admin : LoginAccount(q, a)
    BY <1>1
  <2> DEFINE h == [Idle EXCEPT !.pc = "account", !.who = a,
                               !.held = Targets(a, links), !.granted = Grants(links, code)]
  <2>2. h.pc = "account" /\ h.who = a /\ h.held = Targets(a, links) /\ h.granted = Grants(links, code)
    BY DEF Idle
  <2>3. req' = [req EXCEPT ![q] = h] /\ UNCHANGED <<tables, session>>
    BY <2>1 DEF LoginAccount
  <2> HIDE DEF h
  <2>4. Watches(q)'
    BY <2>2, <2>3 DEF Watches, tables, TypeInv, TypeOK
  <2> QED
    BY <2>3, <2>4, AloneWatches DEF FreshInv
<1>2. CASE LoginRoles(q)
  <2> DEFINE h == [req[q] EXCEPT !.pc = "roles", !.want = Targets(req[q].who, links)]
  <2>1. req' = [req EXCEPT ![q] = h] /\ UNCHANGED <<tables, session>> /\ req[q].pc = "account"
    BY <1>2 DEF LoginRoles, TypeInv, TypeOK, Handler
  <2>2. /\ h.pc = "roles" /\ h.who = req[q].who /\ h.held = req[q].held /\ h.granted = req[q].granted
        /\ h.want = Targets(req[q].who, links)
    BY DEF TypeInv, TypeOK, Handler
  <2> HIDE DEF h
  <2>3. Watches(q)'
    BY <2>1, <2>2 DEF FreshInv, Watches, tables, TypeInv, TypeOK
  <2> QED
    BY <2>1, <2>3, AloneWatches DEF FreshInv
<1> QED
  BY <1>1, <1>2

\* What the last statement reads was granted to a role that was held.
LEMMA IssueFresh ==
    ASSUME TypeInv, FreshInv, NEW q \in Req, LoginIssue(q)
    PROVE  FreshInv'
<1>1. req[q].pc = "roles" /\ UNCHANGED tables /\ req' = [req EXCEPT ![q] = Idle]
  BY DEF LoginIssue
<1>2. req[q].want \subseteq req[q].held /\ Grants(links, code) \subseteq req[q].granted /\ req[q].want \subseteq Role
  BY <1>1 DEF TypeInv, Fits, FreshInv, Watches
<1>3. ASSUME NEW c \in Carried(req[q].who, req[q].want)
      PROVE  c \in {g[2] : g \in {x \in req[q].granted : x[1] \in req[q].held}}
  <2>1. PICK r \in req[q].want : \E p \in Targets(r, links) : c = code[p]
    BY DEF Carried, CodesOfRoles
  <2>2. <<r, c>> \in Grants(links, code)
    BY <1>2, <2>1 DEF Grants
  <2> QED
    BY <1>2, <2>1, <2>2
<1>4. session'.perms \subseteq session'.could
  BY <1>3 DEF LoginIssue
<1>5. Watches(q)'
  BY <1>1, IdleFits DEF Watches, TypeInv, TypeOK
<1> QED
  BY <1>1, <1>4, <1>5, AloneWatches

\* Every step keeps FreshInv.
LEMMA NextFresh == TypeInv /\ TypeInv' /\ FreshInv /\ [Next]_vars => FreshInv'
<1> SUFFICES ASSUME TypeInv, TypeInv', FreshInv, [Next]_vars PROVE FreshInv'
  OBVIOUS
<1>1. RowsTyped' /\ ForeignKeys'
  BY DEF TypeInv, TypeOK
<1>2. CASE Edit \/ \E q \in Req : DeleteRole(q) \/ SeedCommit(q)
  BY <1>1, <1>2, TransactionEnds, NoticedWatches
<1>3. ASSUME NEW q \in Req, AssignCommit(q) PROVE FreshInv'
  <2>1. EndsAs([req EXCEPT ![q] = Idle])
    BY <1>3 DEF AssignCommit, EndsAs
  <2> QED
    BY <1>1, <2>1, NoticedWatches
<1>4. ASSUME NEW q \in Req, HandlerStep(q), ~(DeleteRole(q) \/ SeedCommit(q) \/ AssignCommit(q))
      PROVE  FreshInv'
  BY <1>4, OthersWatch, LoginsWatch, IssueFresh DEF HandlerStep
<1>5. CASE (\E a \in Admin : ExpireCache(a)) \/ EndSession \/ UNCHANGED vars
  BY <1>5 DEF ExpireCache, EndSession, vars, tables, FreshInv, Watches, NoSession
<1> QED
  BY <1>2, <1>3, <1>4, <1>5 DEF Next

\* A login notices all that is granted while it runs, and a token carries no more
\* (get_admin_permissions).
THEOREM FreshInvariant == Spec => []FreshInv
<1>1. Init => FreshInv
  BY DEF Init, FreshInv, Watches, Idle, NoSession
<1> QED
  BY <1>1, NextFresh, AccessTypeInvariant, PTL DEF Spec

\* What the gateway lets a token do was granted, while its login ran, to a role
\* its admin held (get_admin_permissions, _fetch_admin_permissions).
THEOREM LoginFreshHolds == Spec => []LoginFresh
<1>1. FreshInv => LoginFresh
  BY DEF FreshInv, LoginFresh, Admits
<1> QED
  BY <1>1, FreshInvariant, PTL

----------------------------------------------------------------------------
(* What the cache says.                                                    *)

\* Of two writers at work, both know it.
Overlaps == \A q, p \in Writers : q # p => req[q].overlap = TRUE

\* What an undisturbed assignment has written to Redis is what its COMMIT makes
\* true.
Ahead(q) ==
    req[q].pc = "commit" /\ req[q].overlap # TRUE =>
        \A a \in Affected(req[q].who, links) :
            cache[a] # NoCache => cache[a] = CodesOf(a, Rewritten(q), code)

\* The inductive invariant of CacheAgrees.
CacheInv == CacheAgrees /\ Overlaps /\ \A q \in Req : Ahead(q)

\* Nothing an undisturbed assignment has written is overwritten by a step that
\* changes no table and at most empties the cache.
LEMMA SameAhead ==
    ASSUME NEW q \in Req, Ahead(q), UNCHANGED tables,
           req'[q].pc = "commit" => req'[q] = req[q],
           \A a \in Admin : cache'[a] \in {NoCache, cache[a]}
    PROVE  Ahead(q)'
<1> SUFFICES ASSUME req'[q].pc = "commit", req'[q].overlap # TRUE,
                    NEW a \in Affected(req[q].who, links), cache'[a] # NoCache
             PROVE  cache'[a] = CodesOf(a, Rewritten(q)', code)
  BY DEF Ahead, tables
<1>1. Rewritten(q)' = Rewritten(q)
  BY DEF Rewritten, tables
<1>2. a \in Admin
  BY DEF Affected
<1> QED
  BY <1>1, <1>2 DEF Ahead

\* A transaction that ends is noticed by every writer at work.
LEMMA NoticedOverlaps ==
    ASSUME TypeInv, NEW rq, EndsAs(rq), RowsTyped', ForeignKeys'
    PROVE  \A q \in Req : q \in Writers' => req'[q].overlap = TRUE
<1> SUFFICES ASSUME NEW q \in Req, q \in Writers' PROVE req'[q].overlap = TRUE
  OBVIOUS
<1>1. /\ rq \in [Req -> Handler] /\ req'[q].pc = rq[q].pc
      /\ req'[q].pc \in {"flush", "cache", "commit", "seed"}
  BY HandlersAfter DEF Writers
<1>2. req'[q] = [rq[q] EXCEPT !.overlap = TRUE]
  BY <1>1 DEF EndsAs, Noticed
<1> QED
  BY <1>1, <1>2 DEF Handler

\* The codes of an admin an assignment does not affect stay as they are.
LEMMA UnaffectedCodes ==
    ASSUME TypeInv, NEW q \in Req, NEW a \in Admin, a \notin Affected(req[q].who, links)
    PROVE  CodesOf(a, Rewritten(q), code) = CodesOf(a, links, code)
<1>1. a # req[q].who /\ <<a, req[q].who>> \notin links
  BY DEF Affected
<1>2. \A o : o # req[q].who => Targets(o, Rewritten(q)) = Targets(o, links)
  BY DEF Targets, Rewritten
<1>3. \A r \in Targets(a, links) : r # req[q].who
  <2>1. \A l \in links : l = <<l[1], l[2]>>
    BY DEF TypeInv, TypeOK, RowsTyped, Link
  <2> QED
    BY <1>1, <2>1 DEF Targets
<1>4. \A r \in Targets(a, links) : Targets(r, Rewritten(q)) = Targets(r, links)
  BY <1>2, <1>3
<1>5. Targets(a, Rewritten(q)) = Targets(a, links)
  BY <1>1, <1>2
<1>6. UNION {Targets(r, Rewritten(q)) : r \in Targets(a, links)} = UNION {Targets(r, links) : r \in Targets(a, links)}
  BY <1>4
<1> QED
  BY <1>5, <1>6 DEF CodesOf, CodesOfRoles

\* Transactions that do not refresh the cache excuse the admins they move.
LEMMA EndedCache ==
    ASSUME TypeInv, CacheInv, NEW rq, EndsAs(rq), excused' = excused \cup Moved, RowsTyped', ForeignKeys'
    PROVE  CacheInv'
<1>1. CacheAgrees'
  BY DEF CacheInv, CacheAgrees, EndsAs, Moved
<1>2. Overlaps' /\ \A q \in Req : Ahead(q)'
  BY NoticedOverlaps DEF Overlaps, Ahead, Writers
<1> QED
  BY <1>1, <1>2 DEF CacheInv

\* The COMMIT makes what was written true, or everybody it concerns is excused.
LEMMA AssignCommitCache ==
    ASSUME TypeInv, CacheInv, NEW q \in Req, AssignCommit(q), RowsTyped', ForeignKeys'
    PROVE  CacheInv'
<1> DEFINE touched == Affected(req[q].who, links)
<1>1. /\ req[q].pc = "commit" /\ links' = Rewritten(q) /\ UNCHANGED <<code, cache>>
      /\ EndsAs([req EXCEPT ![q] = Idle])
      /\ excused' = IF req[q].overlap
                    THEN excused \cup {a \in Admin : a \in touched \/ CodesOf(a, Rewritten(q), code) # CodesOf(a, links, code)}
                    ELSE excused \ touched
      /\ req[q].overlap \in BOOLEAN
  BY DEF AssignCommit, EndsAs, TypeInv, TypeOK, Handler
<1>2. CacheAgrees'
  <2>1. SUFFICES ASSUME NEW a \in Admin, cache[a] # NoCache, a \notin excused'
                 PROVE  cache[a] = CodesOf(a, Rewritten(q), code)
    BY <1>1 DEF CacheAgrees
  <2>2. CASE req[q].overlap
    BY <1>1, <2>1, <2>2 DEF CacheInv, CacheAgrees
  <2>3. CASE ~req[q].overlap /\ a \in touched
    BY <1>1, <2>1, <2>3 DEF CacheInv, Ahead
  <2>4. CASE ~req[q].overlap /\ a \notin touched
    BY <1>1, <2>1, <2>4, UnaffectedCodes DEF CacheInv, CacheAgrees
  <2> QED
    BY <2>2, <2>3, <2>4
<1>3. Overlaps' /\ \A x \in Req : Ahead(x)'
  BY <1>1, NoticedOverlaps DEF Overlaps, Ahead, Writers
<1> QED
  BY <1>2, <1>3 DEF CacheInv

\* Between the SET and the COMMIT the cache is ahead, and excused.
LEMMA AssignCacheCache ==
    ASSUME TypeInv, CacheInv, NEW q \in Req, AssignCache(q)
    PROVE  CacheInv'
<1> DEFINE touched == Affected(req[q].who, links)
<1>1. /\ req' = [req EXCEPT ![q].pc = "commit", ![q].held = {}] /\ req[q].pc = "cache"
      /\ cache' = [a \in Admin |-> IF a \in touched THEN CodesOf(a, Rewritten(q), code) ELSE cache[a]]
      /\ excused' = excused \cup touched
      /\ UNCHANGED tables
  BY DEF AssignCache
<1>2. \A x \in Req : x # q => req'[x] = req[x]
  BY <1>1 DEF TypeInv, TypeOK
<1>3. /\ req'[q].pc = "commit" /\ req'[q].who = req[q].who /\ req'[q].want = req[q].want
      /\ req'[q].old = req[q].old /\ req'[q].overlap = req[q].overlap
  BY <1>1 DEF TypeInv, TypeOK, Handler
<1>4. Writers' = Writers /\ q \in Writers
  BY <1>1, <1>2, <1>3 DEF Writers
<1>5. CacheAgrees'
  BY <1>1 DEF CacheInv, CacheAgrees, tables
<1>6. Overlaps'
  BY <1>2, <1>3, <1>4 DEF CacheInv, Overlaps, Writers
<1>7. ASSUME NEW x \in Req PROVE Ahead(x)'
  <2>1. CASE x = q
    <3>1. Rewritten(q)' = Rewritten(q)
      BY <1>1, <1>3 DEF Rewritten, tables
    <3>2. /\ Affected(req'[q].who, links') = touched /\ touched \subseteq Admin
          /\ code' = code
      <4>1. links' = links /\ code' = code
        BY <1>1 DEF tables
      <4>2. touched \subseteq Admin
        BY DEF Affected
      <4> QED
        BY <1>3, <4>1, <4>2
    <3> HIDE DEF touched
    <3>3. \A a \in touched : cache'[a] = CodesOf(a, Rewritten(q)', code')
      BY <1>1, <3>1, <3>2
    <3> QED
      BY <2>1, <3>2, <3>3 DEF Ahead
  <2>2. CASE x # q
    <3>1. req'[x] = req[x] /\ (req[x].pc = "commit" => req[x].overlap = TRUE)
      BY <1>2, <1>4, <2>2 DEF CacheInv, Overlaps, Writers
    <3> QED
      BY <3>1 DEF Ahead
  <2> QED
    BY <2>1, <2>2
<1> QED
  BY <1>5, <1>6, <1>7 DEF CacheInv

\* Steps that leave the tables and the cache alone and add no undisturbed writer.
LEMMA SameCache ==
    ASSUME CacheInv, UNCHANGED <<tables, cache, excused>>,
           \A x \in Writers' : \/ x \in Writers /\ req'[x] = req[x] /\ Writers' \subseteq Writers
                               \/ req'[x].overlap = TRUE
                               \/ Writers' = {x} /\ req'[x].pc # "commit"
    PROVE  CacheInv'
<1>1. CacheAgrees'
  BY DEF CacheInv, CacheAgrees, tables
<1>2. Overlaps'
  BY DEF CacheInv, Overlaps
<1>3. ASSUME NEW x \in Req PROVE Ahead(x)'
  <2>1. CASE req'[x].pc = "commit" => req'[x] = req[x]
    BY <2>1, SameAhead DEF CacheInv
  <2>2. CASE req'[x].pc = "commit" /\ req'[x] # req[x]
    BY <2>2 DEF Ahead, Writers
  <2> QED
    BY <2>1, <2>2
<1> QED
  BY <1>1, <1>2, <1>3 DEF CacheInv

\* These do not write, or have ended.
LEMMA BystandersPlace ==
    ASSUME TypeInv, NEW q \in Req,
           \/ \E r \in Role : DeleteRoleRead(q, r)
           \/ \E a \in Admin : LoginAccount(q, a)
           \/ LoginRoles(q) \/ LoginIssue(q) \/ Fail(q)
    PROVE  req'[q].pc \in {"idle", "delete", "account", "roles"}
<1>1. CASE \E r \in Role : DeleteRoleRead(q, r)
  BY <1>1 DEF TypeInv, TypeOK, DeleteRoleRead, Idle
<1>2. CASE \E a \in Admin : LoginAccount(q, a)
  <2>1. PICK a \in Admin : LoginAccount(q, a)
    BY <1>2
  <2> DEFINE h == [Idle EXCEPT !.pc = "account", !.who = a,
                               !.held = Targets(a, links), !.granted = Grants(links, code)]
  <2>2. h.pc = "account"
    BY DEF Idle
  <2>3. req' = [req EXCEPT ![q] = h]
    BY <2>1 DEF LoginAccount
  <2> HIDE DEF h
  <2> QED
    BY <2>2, <2>3 DEF TypeInv, TypeOK
<1>3. CASE LoginRoles(q)
  BY <1>3 DEF TypeInv, TypeOK, Handler, LoginRoles
<1>4. CASE LoginIssue(q) \/ Fail(q)
  BY <1>4, IdleFits DEF TypeInv, TypeOK, LoginIssue, Fail
<1> QED
  BY <1>1, <1>2, <1>3, <1>4

\* Logins, deletions that begin and failures.
LEMMA OthersCache ==
    ASSUME TypeInv, CacheInv, NEW q \in Req,
           \/ \E r \in Role : DeleteRoleRead(q, r)
           \/ \E a \in Admin : LoginAccount(q, a)
           \/ LoginRoles(q) \/ LoginIssue(q) \/ Fail(q)
    PROVE  CacheInv'
<1>1. UNCHANGED <<tables, cache, excused>> /\ \A x \in Req : x # q => req'[x] = req[x]
  BY DEF TypeInv, TypeOK, DeleteRoleRead, LoginAccount, LoginRoles, LoginIssue, Fail
<1>2. req'[q].pc \in {"idle", "delete", "account", "roles"}
  BY BystandersPlace
<1> QED
  BY <1>1, <1>2, SameCache DEF Writers

\* Writers that begin or flush.
LEMMA WritersCache ==
    ASSUME TypeInv, CacheInv, NEW q \in Req,
           \/ \E o, wanted : AssignRead(q, o, wanted)
           \/ \E a \in Admin, r \in Role, p \in Perm : SeedBegin(q, a, r, p)
           \/ AssignFlush(q)
    PROVE  CacheInv'
<1>1. CASE \/ \E o, wanted : AssignRead(q, o, wanted)
           \/ \E a \in Admin, r \in Role, p \in Perm : SeedBegin(q, a, r, p)
  <2>1. Writers' = Writers \cup {q}
    BY <1>1, Joins DEF Writers
  <2> QED
    BY <1>1, <2>1, Joins, SameCache DEF Writers
<1>2. CASE AssignFlush(q)
  <2>1. /\ req[q].pc = "flush" /\ UNCHANGED <<tables, cache, excused>>
        /\ req'[q].pc = "cache" /\ req'[q].overlap = req[q].overlap
        /\ \A x \in Req : x # q => req'[x] = req[x]
    BY <1>2 DEF TypeInv, TypeOK, Handler, AssignFlush
  <2>2. Writers' = Writers /\ q \in Writers
    BY <2>1 DEF Writers
  <2>3. CacheAgrees' /\ Overlaps'
    BY <2>1, <2>2 DEF CacheInv, CacheAgrees, Overlaps, Writers, tables
  <2>4. ASSUME NEW x \in Req PROVE Ahead(x)'
    BY <2>1, SameAhead DEF CacheInv
  <2> QED
    BY <2>3, <2>4 DEF CacheInv
<1> QED
  BY <1>1, <1>2

\* Every step keeps CacheInv.
LEMMA NextCache == TypeInv /\ TypeInv' /\ CacheInv /\ [Next]_vars => CacheInv'
<1> SUFFICES ASSUME TypeInv, TypeInv', CacheInv, [Next]_vars PROVE CacheInv'
  OBVIOUS
<1>1. RowsTyped' /\ ForeignKeys'
  BY DEF TypeInv, TypeOK
<1>2. CASE Edit \/ \E q \in Req : DeleteRole(q) \/ SeedCommit(q)
  BY <1>1, <1>2, TransactionEnds, EndedCache
<1>3. ASSUME NEW q \in Req, HandlerStep(q), ~(DeleteRole(q) \/ SeedCommit(q))
      PROVE  CacheInv'
  BY <1>1, <1>3, AssignCommitCache, AssignCacheCache, OthersCache, WritersCache DEF HandlerStep
<1>4. CASE \E a \in Admin : ExpireCache(a)
  <2>1. PICK a \in Admin : cache' = [cache EXCEPT ![a] = NoCache]
    BY <1>4 DEF ExpireCache
  <2>2. UNCHANGED <<tables, req, excused>> /\ \A x \in Admin : cache'[x] # NoCache => cache'[x] = cache[x]
    BY <1>4, <2>1 DEF ExpireCache, TypeInv, TypeOK
  <2>3. CacheAgrees' /\ Overlaps'
    BY <2>2 DEF CacheInv, CacheAgrees, Overlaps, Writers, tables
  <2>4. ASSUME NEW q \in Req PROVE Ahead(q)'
    BY <2>1, <2>2, SameAhead DEF CacheInv, TypeInv, TypeOK
  <2> QED
    BY <2>3, <2>4 DEF CacheInv
<1>5. CASE EndSession \/ UNCHANGED vars
  BY <1>5, SameCache DEF EndSession, vars, Writers, tables
<1> QED
  BY <1>2, <1>3, <1>4, <1>5 DEF Next

\* The cache agrees, every pair of overlapping writers knows it, and an
\* undisturbed assignment is ahead by what it will commit.
THEOREM CacheInvariant == Spec => []CacheInv
<1>1. Init => CacheInv
  <2> SUFFICES ASSUME Init PROVE CacheInv
    OBVIOUS
  <2>1. \A q \in Req : req[q].pc = "idle"
    BY DEF Init, Idle
  <2>2. \A a \in Admin : cache[a] = NoCache
    BY DEF Init
  <2> QED
    BY <2>1, <2>2 DEF CacheInv, CacheAgrees, Overlaps, Ahead, Writers
<1> QED
  BY <1>1, NextCache, AccessTypeInvariant, PTL DEF Spec

\* Where admin_permissions:{id} is there, it says what the tables say, unless one
\* of the named reasons applies (assign_roles_to_admin, assign_permissions_to_role).
THEOREM CacheAgreesHolds == Spec => []CacheAgrees
<1>1. CacheInv => CacheAgrees
  BY DEF CacheInv
<1> QED
  BY <1>1, CacheInvariant, PTL

----------------------------------------------------------------------------
(* What the bootstrap repairs.                                             *)

\* What an undisturbed bootstrap has read is still true when it commits.
StillTrue(q, r, p) ==
    LET a == req[q].who IN
    /\ a \in req[q].old => admins[a].here /\ admins[a].root
    /\ p \in req[q].old => code[p] = Star
    /\ req[q].held # {} => <<a, r>> \in links
    /\ req[q].active => admins[a].active

SeedKnows(q) ==
    req[q].pc = "seed" =>
        \E r \in Role, p \in Perm :
            req[q].want = {r, p} /\ (req[q].overlap # TRUE => StillTrue(q, r, p))

\* The inductive invariant of SeedRepairs.
SeedInv == \A q \in Req : SeedKnows(q)

\* A bootstrap that has noticed a step, or not been touched by it, knows as much.
LEMMA SeedKept ==
    ASSUME NEW q \in Req, SeedKnows(q), req'[q].pc = "seed" => req[q].pc = "seed",
           req'[q].pc = "seed" =>
              \/ UNCHANGED tables /\ req'[q] = req[q]
              \/ req'[q].overlap = TRUE /\ req'[q].want = req[q].want
    PROVE  SeedKnows(q)'
<1> SUFFICES ASSUME req'[q].pc = "seed" PROVE SeedKnows(q)'
  BY DEF SeedKnows
<1>1. PICK r \in Role, p \in Perm : req[q].want = {r, p} /\ (req[q].overlap # TRUE => StillTrue(q, r, p))
  BY DEF SeedKnows
<1>2. CASE UNCHANGED tables /\ req'[q] = req[q]
  BY <1>1, <1>2 DEF SeedKnows, StillTrue, tables
<1>3. CASE req'[q].overlap = TRUE /\ req'[q].want = req[q].want
  BY <1>1, <1>3 DEF SeedKnows
<1> QED
  BY <1>2, <1>3

\* What the bootstrap remembers is what it has just read.
LEMMA SeedBeginKnows ==
    ASSUME TypeInv, NEW q \in Req, \E a \in Admin, r \in Role, p \in Perm : SeedBegin(q, a, r, p)
    PROVE  SeedKnows(q)'
<1>1. PICK a \in Admin, r \in Role, p \in Perm : SeedBegin(q, a, r, p)
  OBVIOUS
<1> DEFINE h == [Idle EXCEPT !.pc = "seed", !.who = a, !.want = {r, p},
                             !.old = {a, r, p} \cap (Owners \cup Perms),
                             !.held = {r} \cap Targets(a, links),
                             !.granted = {r} \X {c \in Defaults : CodeTaken(c)},
                             !.active = admins[a].active, !.overlap = Writers # {}]
<1>2. /\ h.who = a /\ h.want = {r, p} /\ h.old = {a, r, p} \cap (Owners \cup Perms)
      /\ h.held = {r} \cap Targets(a, links) /\ h.active = admins[a].active
  BY DEF Idle
<1>3. req'[q] = h /\ UNCHANGED tables
  BY <1>1 DEF SeedBegin
<1> HIDE DEF h
<1>4. a \in SeedAdmin /\ p \in SeedPerm /\ a \notin Perm /\ a \notin Role /\ p \notin Admin /\ p \notin Role
  BY <1>1, AccessAssumption DEF AccessAssumption, SeedBegin
<1>5. a \in h.old => admins[a].here /\ admins[a].root
  BY <1>2, <1>4 DEF SeedAdmin, Upserted, Owners, Roles, Perms
<1>6. p \in h.old => code[p] = Star
  BY <1>2, <1>4 DEF SeedPerm, Upserted, Owners, Roles, Perms
<1>7. h.held # {} => <<a, r>> \in links
  <2>1. \A l \in links : l = <<l[1], l[2]>>
    BY DEF TypeInv, TypeOK, RowsTyped, Link
  <2> QED
    BY <1>2, <2>1 DEF Targets
<1> QED
  BY <1>2, <1>3, <1>5, <1>6, <1>7 DEF SeedKnows, StillTrue, tables

\* Every step keeps SeedInv.
LEMMA NextSeed == TypeInv /\ TypeInv' /\ SeedInv /\ [Next]_vars => SeedInv'
<1> SUFFICES ASSUME TypeInv, TypeInv', SeedInv, [Next]_vars, NEW x \in Req PROVE SeedKnows(x)'
  BY DEF SeedInv
<1>1. SeedKnows(x)
  BY DEF SeedInv
<1>2. ASSUME NEW rq, EndsAs(rq) PROVE SeedKnows(x)'
  <2>1. RowsTyped' /\ ForeignKeys'
    BY DEF TypeInv, TypeOK
  <2>2. req'[x].pc = "seed" => req'[x].overlap = TRUE
    BY <1>2, <2>1, NoticedOverlaps DEF Writers
  <2>3. req'[x].pc = "seed" => req[x].pc = "seed" /\ req'[x].want = req[x].want
    BY <1>2, <2>1, HandlersAfter, IdleFits
  <2> QED
    BY <1>1, <2>2, <2>3, SeedKept
<1>3. CASE Edit \/ \E q \in Req : DeleteRole(q) \/ SeedCommit(q)
  BY <1>2, <1>3, TransactionEnds
<1>4. CASE \E q \in Req : AssignCommit(q)
  <2>1. \E rq : EndsAs(rq)
    BY <1>4 DEF AssignCommit, EndsAs
  <2> QED
    BY <1>2, <2>1
<1>5. ASSUME NEW q \in Req,
             \/ \E o, wanted : AssignRead(q, o, wanted)
             \/ \E a \in Admin, r \in Role, p \in Perm : SeedBegin(q, a, r, p)
      PROVE  SeedKnows(x)'
  <2>1. CASE x # q
    BY <1>1, <1>5, <2>1, Joins, SeedKept DEF Writers
  <2>2. CASE x = q /\ \E a \in Admin, r \in Role, p \in Perm : SeedBegin(q, a, r, p)
    BY <2>2, SeedBeginKnows
  <2>3. CASE x = q /\ \E o, wanted : AssignRead(q, o, wanted)
    BY <2>3, Joins DEF SeedKnows
  <2> QED
    BY <1>5, <2>1, <2>2, <2>3
<1>6. ASSUME NEW q \in Req,
             \/ \E r \in Role : DeleteRoleRead(q, r)
             \/ \E a \in Admin : LoginAccount(q, a)
             \/ LoginRoles(q) \/ LoginIssue(q) \/ Fail(q)
             \/ AssignFlush(q) \/ AssignCache(q)
      PROVE  SeedKnows(x)'
  <2>1. UNCHANGED tables /\ (x # q => req'[x] = req[x])
    BY <1>6 DEF TypeInv, TypeOK, DeleteRoleRead, LoginAccount, LoginRoles, LoginIssue, Fail, AssignFlush, AssignCache
  <2>2. req'[q].pc # "seed"
    <3>1. CASE \/ \E r \in Role : DeleteRoleRead(q, r)
               \/ \E a \in Admin : LoginAccount(q, a)
               \/ LoginRoles(q) \/ LoginIssue(q) \/ Fail(q)
      BY <3>1, BystandersPlace
    <3>2. CASE AssignFlush(q) \/ AssignCache(q)
      BY <3>2 DEF TypeInv, TypeOK, Handler, AssignFlush, AssignCache
    <3> QED
      BY <1>6, <3>1, <3>2
  <2> QED
    BY <1>1, <2>1, <2>2, SeedKept
<1>7. CASE (\E a \in Admin : ExpireCache(a)) \/ EndSession \/ UNCHANGED vars
  BY <1>1, <1>7, SeedKept DEF ExpireCache, EndSession, vars, tables
<1> QED
  BY <1>3, <1>4, <1>5, <1>6, <1>7 DEF Next, HandlerStep

\* The bootstrap that commits undisturbed leaves a root admin who can do everything.
LEMMA SeedCommitRepairs ==
    ASSUME TypeInv, SeedInv, NEW q \in Req, SeedCommit(q), ~req[q].overlap
    PROVE  \E a \in Admin : admins'[a].root /\ admins'[a].active /\ Star \in CodesOf(a, links', code')
<1> DEFINE a == req[q].who
           found == req[q].old
           linked == req[q].held # {}
<1>1. PICK r \in Role, p \in Perm : req[q].want = {r, p} /\ StillTrue(q, r, p)
  BY DEF SeedInv, SeedKnows, SeedCommit
<1>2. req[q].want \cap Role = {r} /\ req[q].want \cap Perm = {p}
  BY <1>1, AccessAssumption DEF AccessAssumption
<1>3. /\ admins' = IF a \in found \ Owners THEN admins
                    ELSE [admins EXCEPT ![a] = [here |-> TRUE, root |-> a \in found => @.root,
                                                active |-> req[q].active => @.active]]
      /\ \E cs \in SeededCodes((Defaults \ {g[2] : g \in req[q].granted})
                                 \cup (IF p \in found THEN {} ELSE {Star})) :
           /\ p \notin found => cs[p] = Star
           /\ links' = SeededLinks(a, r, p, found, linked) /\ code' = cs
  BY <1>2 DEF SeedCommit, Ended
<1>4. a \in Admin /\ admins \in [Admin -> AccountRow] /\ links \subseteq Link
  BY DEF TypeInv, TypeOK, RowsTyped, Fits, SeedCommit
<1>5. a \in found => a \in Owners
  BY <1>1, <1>4 DEF StillTrue, Owners
<1>6. admins'[a].root /\ admins'[a].active
  <2>1. admins'[a] = [here |-> TRUE, root |-> a \in found => admins[a].root,
                      active |-> req[q].active => admins[a].active]
    BY <1>3, <1>4, <1>5
  <2>2. admins'[a].root = (a \in found => admins[a].root) /\ admins'[a].active = (req[q].active => admins[a].active)
    BY ONLY <2>1
  <2>3. (a \in found => admins[a].root) /\ (req[q].active => admins[a].active)
    BY <1>1 DEF StillTrue
  <2> HIDE DEF a, found
  <2> QED
    BY <2>2, <2>3, Zenon
<1>7. code'[p] = Star
  <2>1. p \in found => p \in Perms
    BY <1>1, AccessAssumption DEF AccessAssumption, StillTrue, Perms
  <2> QED
    BY <1>1, <1>3, <2>1 DEF StillTrue, SeededCodes
<1>8. <<a, r>> \in links' /\ <<r, p>> \in links'
  <2>1. a # r
    BY <1>4, AccessAssumption DEF AccessAssumption
  <2> QED
    BY <1>1, <1>3, <2>1 DEF StillTrue, SeededLinks
<1>9. r \in Targets(a, links') /\ p \in Targets(r, links')
  BY <1>8 DEF Targets
<1>10. Star \in CodesOf(a, links', code')
  BY <1>7, <1>9 DEF CodesOf, CodesOfRoles
<1> QED
  BY <1>4, <1>6, <1>10

\* Only its own commit ends a bootstrap with a change.
LEMMA OnlyCommitEnds ==
    ASSUME TypeInv, TypeInv', NEW q \in Req, req[q].pc = "seed", edits' # edits, req'[q].pc = "idle", [Next]_vars
    PROVE  SeedCommit(q)
<1>1. RowsTyped' /\ ForeignKeys'
  BY DEF TypeInv, TypeOK
<1>2. ASSUME NEW rq, EndsAs(rq), rq[q] = req[q] PROVE FALSE
  BY <1>1, <1>2, HandlersAfter
<1>3. CASE Edit
  <2>1. \E ls, cs : Ended(req, ls, cs)
    BY <1>3 DEF Edit, CreateAdmin, UpdateAdmin, DeleteAdmin, UpdateStatus, CreateRole, UpdateRole,
                CreatePermission, UpdatePermission, DeletePermission, Edited
  <2>2. EndsAs(req)
    BY <2>1 DEF Ended, EndsAs
  <2> QED
    BY <1>2, <2>2
<1>4. ASSUME NEW p \in Req, DeleteRole(p) \/ AssignCommit(p) \/ SeedCommit(p) PROVE SeedCommit(q)
  <2>1. EndsAs([req EXCEPT ![p] = Idle])
    BY <1>4 DEF DeleteRole, AssignCommit, SeedCommit, Ended, EndsAs
  <2>2. CASE p # q
    BY <1>2, <2>1, <2>2 DEF TypeInv, TypeOK
  <2>3. CASE p = q
    BY <1>4, <2>3 DEF DeleteRole, AssignCommit
  <2> QED
    BY <2>2, <2>3
<1>5. ASSUME NEW p \in Req, HandlerStep(p), ~(DeleteRole(p) \/ AssignCommit(p) \/ SeedCommit(p)) PROVE FALSE
  BY <1>5 DEF HandlerStep, DeleteRoleRead, AssignRead, AssignFlush, AssignCache, SeedBegin, LoginAccount,
              LoginRoles, LoginIssue, Fail
<1>6. CASE (\E a \in Admin : ExpireCache(a)) \/ EndSession \/ UNCHANGED vars
  BY <1>6 DEF ExpireCache, EndSession, vars
<1> QED
  BY <1>3, <1>4, <1>5, <1>6 DEF Next

\* run_seed repairs, whatever was deleted, renamed or reassigned before.
THEOREM SeedRepairsHolds == Spec => SeedRepairs
<1>1. Init => SeedInv
  BY DEF Init, SeedInv, SeedKnows, Idle
<1>2. TypeInv /\ TypeInv' /\ SeedInv /\ [Next]_vars =>
        [\A q \in Req : req[q].pc = "seed" /\ ~req[q].overlap /\ edits' # edits /\ req'[q].pc = "idle"
           => \E a \in Admin : admins'[a].root /\ admins'[a].active /\ Star \in CodesOf(a, links', code')]_vars
  BY OnlyCommitEnds, SeedCommitRepairs
<1> QED
  BY <1>1, <1>2, NextSeed, AccessTypeInvariant, PTL DEF Spec, SeedRepairs
=============================================================================
