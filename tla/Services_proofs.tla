--------------------------- MODULE Services_proofs ---------------------------
(***************************************************************************)
(* What the run `services' checks of the parts it puts side by side, for   *)
(* any number of handlers, rows and keys.                                  *)
(***************************************************************************)
EXTENDS MCServices, FiniteSetTheorems, WellFoundedInduction, TLAPS

----------------------------------------------------------------------------
(* Accounts.                                                               *)

\* What a login or registration knows of the rows of its phone.
KnowsRows(h, cr, co) ==
    /\ h.pc = "idle" <=> h.phone = None
    /\ h.new => h.pc \in {"issue", "commit"} /\ h.kind = "consumer" /\ cr[h.phone]["consumer"] = None
    /\ h.pc \in {"delete", "lookup", "find", "create"} => h.login
    /\ h.pc \in {"delete", "lookup", "find", "create", "insert"} => h.kind = "consumer"
    /\ h.pc = "insert" \/ h.new => /\ h.row \in AU!AuthCredential
                                   /\ ~h.row.pw => h.row.biz = h.phone /\ h.phone \in co
    /\ h.pc \in {"fetch", "issue", "commit"} /\ ~h.new /\ h.login =>
         h.row = cr[h.phone][h.kind] /\ h.row # None
    /\ h.pc \in {"fetch", "issue", "commit"} => h.new \/ h.login
    /\ h.pc \in {"find", "create", "insert"} /\ ~h.overlap => cr[h.phone]["consumer"] = None
    /\ h.pc = "create" /\ ~h.overlap => h.phone \notin co

\* The code a check has read is one that was sent to its phone.
KnowsCode(h, cd, s) ==
    h.pc = "delete" => h.send \in 1..s /\ \A p \in Phone : cd[p] = h.send => p = h.phone

\* A code in Redis is the last one sent to its phone, and nobody has used it up.
Codes ==
    /\ spent \subseteq 1..sends
    /\ \A p \in Phone : code[p] <= sends /\ code[p] \notin spent
    /\ \A p, r \in Phone : code[p] = code[r] /\ code[p] # 0 => p = r

\* Handlers of one phone know of each other.
Met == \A q, r \in Crowd : q # r /\ req[q].pc # "idle" /\ req[q].phone = req[r].phone => req[q].overlap

Named == \A p \in Phone : LET row == cred[p]["consumer"] IN
             row # None /\ ~row.pw => row.biz = p /\ p \in consumers

\* The inductive invariant.
AccountsInv ==
    /\ AU!TypeOK
    /\ \A q \in Crowd : KnowsRows(req[q], cred, consumers) /\ KnowsCode(req[q], code, sends)
    /\ Codes /\ Met /\ Named

\* It holds at first: nobody is at work and no code was sent.
LEMMA AccountsInit == ASSUME AU!AccountsAssumption, AU!Init PROVE AccountsInv
<1>1. "consumer" \in Kind /\ MaxSends \in Nat /\ None \notin Phone
  BY DEF AU!AccountsAssumption
<1>2. /\ AU!Idle \in AU!Handler /\ AU!Idle.pc = "idle" /\ AU!Idle.phone = None /\ ~AU!Idle.new
  BY <1>1 DEF AU!Idle, AU!Handler
<1>3. /\ cred \in [Phone -> [Kind -> AU!AuthCredential \cup {None}]]
      /\ \A p \in Phone : cred[p]["consumer"] = None
  <2> DEFINE given == [biz |-> Elsewhere, pw |-> TRUE]
             S == [Phone -> [Kind -> {None} \cup {given}]]
  <2>1. given \in AU!AuthCredential
    BY DEF AU!AuthCredential, AU!Biz
  <2>2. cred \in S /\ \A p \in Phone : cred[p]["consumer"] = None
    BY DEF AU!Init
  <2> HIDE DEF given
  <2>3. \A p \in Phone : cred[p] \in [Kind -> AU!AuthCredential \cup {None}]
    BY <2>1, <2>2
  <2> QED
    BY <2>2, <2>3
<1>4. AU!TypeOK
  BY <1>1, <1>2, <1>3 DEF AU!Init, AU!TypeOK
<1>5. Codes /\ Met /\ Named
  BY <1>1, <1>2, <1>3 DEF AU!Init, Codes, Met, Named
<1>6. \A q \in Crowd : KnowsRows(req[q], cred, consumers) /\ KnowsCode(req[q], code, sends)
  BY <1>2 DEF AU!Init, KnowsRows, KnowsCode
<1> QED
  BY <1>4, <1>5, <1>6 DEF AccountsInv

\* One handler goes on as h; what the others know stays true.
LEMMA AccountsMove ==
    ASSUME AccountsInv, NEW q \in Crowd, NEW h \in AU!Handler, req' = [req EXCEPT ![q] = h],
           req[q].pc # "idle",
           h.phone \in {req[q].phone, None}, h.phone = None \/ h.overlap = req[q].overlap,
           KnowsRows(h, cred', consumers'), KnowsCode(h, code', sends'),
           h.new => req[q].new \/ AU!NoTwin(req[q].phone),
           \A r \in Crowd \ {q} : KnowsRows(req[r], cred', consumers') /\ KnowsCode(req[r], code', sends'),
           cred' \in [Phone -> [Kind -> AU!AuthCredential \cup {None}]], consumers' \subseteq Phone,
           code' \in [Phone -> 0..MaxSends], sends' \in 0..MaxSends, spent' \subseteq 1..MaxSends,
           Codes', Named'
    PROVE  AccountsInv'
<1>1. req'[q] = h /\ \A r \in Crowd : r # q => req'[r] = req[r]
  BY DEF AccountsInv, AU!TypeOK
<1>2. \A r \in Crowd : KnowsRows(req'[r], cred', consumers') /\ KnowsCode(req'[r], code', sends')
  BY <1>1
<1>3. h.pc # "idle" => h.phone = req[q].phone /\ h.overlap = req[q].overlap
  BY DEF KnowsRows
<1>4. Met'
  <2> SUFFICES ASSUME NEW x \in Crowd, NEW y \in Crowd, x # y, req'[x].pc # "idle", req'[x].phone = req'[y].phone
               PROVE  req'[x].overlap
    BY DEF Met
  <2>1. req'[y].pc # "idle"
    BY <1>2 DEF KnowsRows
  <2>2. \A z \in {x, y} : req[z].pc # "idle" /\ req[z].phone = req'[z].phone /\ req[z].overlap = req'[z].overlap
    BY <1>1, <1>3, <2>1
  <2> QED
    BY <2>2 DEF AccountsInv, Met
<1>5. \A x, y \in Crowd : req'[x].new /\ req'[y].new /\ req'[x].phone = req'[y].phone => x = y
  <2> SUFFICES ASSUME NEW y \in Crowd, y # q, h.new, req[y].new, h.phone = req[y].phone PROVE FALSE
    BY <1>1 DEF AccountsInv, AU!TypeOK
  <2>1. h.phone = req[q].phone
    BY <1>3 DEF KnowsRows
  <2>2. ~req[q].new
    BY <2>1 DEF AccountsInv, AU!TypeOK
  <2> QED
    BY <2>1, <2>2 DEF AU!NoTwin
<1>6. AU!TypeOK'
  <2>1. req' \in [Crowd -> AU!Handler]
    BY DEF AccountsInv, AU!TypeOK
  <2> QED
    BY <1>5, <2>1 DEF AU!TypeOK
<1> QED
  BY <1>2, <1>4, <1>6 DEF AccountsInv

\* A handler goes on by itself.
LEMMA AccountsGoto ==
    ASSUME AccountsInv, NEW q \in Crowd, NEW h \in AU!Handler, AU!Goto(q, h),
           UNCHANGED <<cred, consumers, code, sends, spent>>,
           req[q].pc # "idle",
           h.phone \in {req[q].phone, None}, h.phone = None \/ h.overlap = req[q].overlap,
           KnowsRows(h, cred, consumers), KnowsCode(h, code, sends),
           h.new => req[q].new \/ AU!NoTwin(req[q].phone)
    PROVE  AccountsInv'
<1>1. Codes' /\ Named'
  BY DEF AccountsInv, Codes, Named
<1>2. req' = [req EXCEPT ![q] = h]
  BY DEF AU!Goto
<1>3. \A r \in Crowd : KnowsRows(req[r], cred', consumers') /\ KnowsCode(req[r], code', sends')
  BY DEF AccountsInv
<1>4. KnowsRows(h, cred', consumers') /\ KnowsCode(h, code', sends')
  OBVIOUS
<1> QED
  BY <1>1, <1>2, <1>3, <1>4, AccountsMove DEF AccountsInv, AU!TypeOK

\* A handler that ends knows nothing.
LEMMA IdleKnows ==
    ASSUME AU!AccountsAssumption
    PROVE  /\ AU!Idle \in AU!Handler /\ AU!Idle.phone = None /\ ~AU!Idle.new
           /\ \A cr, co : KnowsRows(AU!Idle, cr, co)
           /\ \A cd, s : KnowsCode(AU!Idle, cd, s)
<1>1. "consumer" \in Kind /\ MaxSends \in Nat
  BY DEF AU!AccountsAssumption
<1>2. AU!Idle \in AU!Handler /\ AU!Idle.pc = "idle" /\ AU!Idle.phone = None /\ ~AU!Idle.new
  BY <1>1 DEF AU!Idle, AU!Handler
<1> QED
  BY <1>2 DEF KnowsRows, KnowsCode

\* Handlers that others meet know what they knew.
LEMMA AccountsMeet ==
    ASSUME AccountsInv, NEW p \in Phone, NEW r \in Crowd
    PROVE  LET h == IF req[r].phone = p THEN [req[r] EXCEPT !.overlap = TRUE] ELSE req[r] IN
           /\ h \in AU!Handler /\ h.pc = req[r].pc /\ h.phone = req[r].phone /\ (h.new => req[r].new)
           /\ req[r].phone = p => h.overlap = TRUE
           /\ req[r].overlap => h.overlap = TRUE
           /\ \A co : (consumers \subseteq co /\ co \subseteq consumers \cup {p}) => KnowsRows(h, cred, co)
           /\ KnowsCode(h, code, sends)
<1> DEFINE x == req[r]
           h == IF x.phone = p THEN [x EXCEPT !.overlap = TRUE] ELSE x
<1>1. x \in AU!Handler /\ KnowsRows(x, cred, consumers) /\ KnowsCode(x, code, sends)
  BY DEF AccountsInv, AU!TypeOK
<1>2. x.new \in BOOLEAN /\ x.login \in BOOLEAN /\ x.overlap \in BOOLEAN
  BY <1>1 DEF AU!Handler
<1> HIDE DEF x
<1>3. /\ h \in AU!Handler /\ h.pc = x.pc /\ h.phone = x.phone /\ h.kind = x.kind /\ h.send = x.send
      /\ h.row = x.row /\ h.new = x.new /\ h.login = x.login
      /\ (x.phone = p => h.overlap = TRUE) /\ (x.overlap => h.overlap = TRUE)
      /\ h.overlap = TRUE \/ h.overlap = FALSE
      /\ x.phone # p => h.overlap = x.overlap
  BY <1>1, <1>2 DEF AU!Handler
<1> HIDE DEF h
<1>4. ASSUME NEW co, consumers \subseteq co, co \subseteq consumers \cup {p} PROVE KnowsRows(h, cred, co)
  BY <1>1, <1>2, <1>3, <1>4 DEF KnowsRows
<1>5. KnowsCode(h, code, sends)
  BY <1>1, <1>3 DEF KnowsCode
<1> QED
  BY <1>3, <1>4, <1>5 DEF h, x

\* A request begins as h.
LEMMA AccountsBegin ==
    ASSUME AccountsInv, AU!AccountsAssumption, NEW q \in Crowd, NEW p \in Phone, NEW g \in AU!Handler, AU!Begin(q, p, g),
           UNCHANGED <<cred, consumers, code, sends, spent>>, g.pc # "idle", ~g.new,
           \A h \in AU!Handler :
             h.pc = g.pc /\ h.phone = p /\ h.kind = g.kind /\ h.send = g.send /\ h.row = g.row /\ ~h.new
             /\ (g.login => h.login) =>
             KnowsRows(h, cred, consumers) /\ KnowsCode(h, code, sends)
    PROVE  AccountsInv'
<1> DEFINE o == \E r \in Crowd : req[r].phone = p
           h == [g EXCEPT !.phone = p, !.overlap = o]
           Met1(r) == IF req[r].phone = p THEN [req[r] EXCEPT !.overlap = TRUE] ELSE req[r]
<1>1. /\ req[q].pc = "idle" /\ req'[q] = h /\ \A r \in Crowd : r # q => req'[r] = Met1(r)
      /\ req' = [r \in Crowd |-> IF r = q THEN h ELSE Met1(r)]
  BY DEF AU!Begin
<1>2. /\ o \in BOOLEAN /\ h \in AU!Handler /\ h.pc = g.pc /\ h.phone = p /\ h.kind = g.kind /\ h.send = g.send
      /\ h.row = g.row /\ ~h.new /\ (g.login => h.login) /\ (o => h.overlap)
  BY DEF AU!Handler
<1>3. KnowsRows(h, cred, consumers) /\ KnowsCode(h, code, sends)
  BY <1>2
<1>4. \A r \in Crowd : /\ Met1(r) \in AU!Handler /\ Met1(r).pc = req[r].pc /\ Met1(r).phone = req[r].phone
                       /\ Met1(r).new => req[r].new
                       /\ req[r].phone = p => Met1(r).overlap = TRUE
                       /\ req[r].overlap => Met1(r).overlap = TRUE
                       /\ KnowsRows(Met1(r), cred, consumers) /\ KnowsCode(Met1(r), code, sends)
  BY AccountsMeet
<1>5. o <=> \E r \in Crowd : req[r].phone = p
  OBVIOUS
<1> HIDE DEF o, h, Met1
<1>6. Met'
  <2> SUFFICES ASSUME NEW x \in Crowd, NEW y \in Crowd, x # y, req'[x].pc # "idle", req'[x].phone = req'[y].phone
               PROVE  req'[x].overlap
    BY DEF Met
  <2>1. CASE x = q
    BY <1>1, <1>2, <1>4, <1>5, <2>1
  <2>2. CASE x # q /\ y = q
    BY <1>1, <1>2, <1>4, <2>2
  <2>3. CASE x # q /\ y # q
    <3>1. req'[x] = Met1(x) /\ req'[y] = Met1(y)
      BY <1>1, <2>3
    <3>2. req[x].pc # "idle" /\ req[x].phone = req[y].phone
      BY <1>4, <3>1
    <3>3. req[x].overlap
      BY <3>2 DEF AccountsInv, Met
    <3> QED
      BY <1>4, <3>1, <3>3
  <2> QED
    BY <2>1, <2>2, <2>3
<1>7. AU!TypeOK'
  <2>1. req' \in [Crowd -> AU!Handler]
    BY <1>1, <1>2, <1>4
  <2>2. \A x, y \in Crowd : req'[x].new /\ req'[y].new /\ req'[x].phone = req'[y].phone => x = y
    <3>1. ~req'[q].new
      BY <1>1, <1>2
    <3>2. ASSUME NEW x \in Crowd, req'[x].new PROVE req[x].new /\ req'[x].phone = req[x].phone
      <4>1. req'[x] = Met1(x)
        BY <1>1, <3>1, <3>2
      <4> QED
        BY <1>4, <3>2, <4>1
    <3> QED
      BY <3>2 DEF AccountsInv, AU!TypeOK
  <2> QED
    BY <2>1, <2>2 DEF AccountsInv, AU!TypeOK
<1>8. Codes' /\ Named'
  BY DEF AccountsInv, Codes, Named
<1>9. \A r \in Crowd : KnowsRows(req'[r], cred, consumers) /\ KnowsCode(req'[r], code, sends)
  BY <1>1, <1>3, <1>4
<1> QED
  BY <1>6, <1>7, <1>8, <1>9 DEF AccountsInv

\* The requests that begin.
LEMMA AccountsBegins ==
    ASSUME AccountsInv, AU!AccountsAssumption, NEW q \in Crowd, NEW p \in Phone,
           \/ AU!CheckCode(q, p)
           \/ \E b \in AU!Biz : AU!Register(q, p, b)
           \/ \E k \in Kind : AU!PasswordLogin(q, p, k)
    PROVE  AccountsInv'
<1>0. AU!Idle \in AU!Handler /\ AU!Idle.kind = "consumer" /\ ~AU!Idle.new /\ AU!Idle.login
  BY IdleKnows DEF AU!Idle
<1>1. /\ "consumer" \in Kind /\ MaxSends \in Nat /\ None \notin Phone
      /\ code \in [Phone -> 0..MaxSends] /\ cred \in [Phone -> [Kind -> AU!AuthCredential \cup {None}]]
      /\ \A x \in Phone : code[x] <= sends /\ code[x] \in 0..MaxSends /\ sends \in 0..MaxSends
      /\ \A x, y \in Phone : code[x] = code[y] /\ code[x] # 0 => x = y
  BY DEF AU!AccountsAssumption, AccountsInv, AU!TypeOK, Codes
<1>2. ASSUME AU!CheckCode(q, p) PROVE AccountsInv'
  <2> DEFINE g == [AU!Idle EXCEPT !.pc = "delete", !.send = code[p]]
  <2>1. /\ code[p] # 0 /\ AU!Begin(q, p, g) /\ UNCHANGED <<cred, consumers, code, sends, spent>>
    BY <1>2 DEF AU!CheckCode
  <2>2. g \in AU!Handler /\ g.pc = "delete" /\ ~g.new /\ g.kind = "consumer" /\ g.send = code[p] /\ g.login
    BY <1>0, <1>1 DEF AU!Handler
  <2> HIDE DEF g
  <2>3. code[p] \in 1..sends
    BY <1>1, <2>1
  <2>4. ASSUME NEW h \in AU!Handler, h.pc = g.pc, h.phone = p, h.kind = g.kind, h.send = g.send, h.row = g.row,
               ~h.new, g.login => h.login
        PROVE  KnowsRows(h, cred, consumers) /\ KnowsCode(h, code, sends)
    BY <1>1, <2>1, <2>3, <2>2, <2>4 DEF KnowsRows, KnowsCode
  <2> QED
    BY <2>1, <2>2, <2>4, AccountsBegin
<1>3. ASSUME NEW b \in AU!Biz, AU!Register(q, p, b) PROVE AccountsInv'
  <2> DEFINE row == [biz |-> b, pw |-> TRUE]
             g == [AU!Idle EXCEPT !.pc = "insert", !.row = row, !.login = FALSE]
  <2>1. /\ cred[p]["consumer"] = None /\ AU!Begin(q, p, g) /\ UNCHANGED <<cred, consumers, code, sends, spent>>
    BY <1>3 DEF AU!Register, AU!Lookup
  <2>2. row \in AU!AuthCredential /\ row.pw = TRUE
    BY DEF AU!AuthCredential
  <2> HIDE DEF row
  <2>3. g \in AU!Handler /\ g.pc = "insert" /\ ~g.new /\ g.kind = "consumer" /\ g.row = row
    BY <1>0, <2>2 DEF AU!Handler
  <2> HIDE DEF g
  <2>4. ASSUME NEW h \in AU!Handler, h.pc = g.pc, h.phone = p, h.kind = g.kind, h.send = g.send, h.row = g.row,
               ~h.new, g.login => h.login
        PROVE  KnowsRows(h, cred, consumers) /\ KnowsCode(h, code, sends)
    BY <1>1, <2>1, <2>2, <2>3, <2>4 DEF KnowsRows, KnowsCode
  <2> QED
    BY <2>1, <2>3, <2>4, AccountsBegin
<1>4. ASSUME NEW k \in Kind, AU!PasswordLogin(q, p, k) PROVE AccountsInv'
  <2> DEFINE row == cred[p][k]
             pc == IF k \in Asking THEN "fetch" ELSE "issue"
             g == [AU!Idle EXCEPT !.pc = pc, !.kind = k, !.row = row]
  <2>1. /\ row # None /\ AU!Begin(q, p, g) /\ UNCHANGED <<cred, consumers, code, sends, spent>>
    BY <1>4 DEF AU!PasswordLogin, AU!Lookup
  <2>2. row \in AU!AuthCredential \cup {None} /\ pc \in {"fetch", "issue"}
    BY <1>1
  <2>3. row = cred[p][k]
    OBVIOUS
  <2> HIDE DEF row, pc
  <2>4. g \in AU!Handler /\ g.pc = pc /\ ~g.new /\ g.kind = k /\ g.row = row /\ g.login
    BY <1>0, <2>2 DEF AU!Handler
  <2> HIDE DEF g
  <2>5. ASSUME NEW h \in AU!Handler, h.pc = g.pc, h.phone = p, h.kind = g.kind, h.send = g.send, h.row = g.row,
               ~h.new, g.login => h.login
        PROVE  KnowsRows(h, cred, consumers) /\ KnowsCode(h, code, sends)
    BY <1>1, <2>1, <2>2, <2>3, <2>4, <2>5 DEF KnowsRows, KnowsCode
  <2> QED
    BY <2>1, <2>2, <2>4, <2>5, AccountsBegin
<1> QED
  BY <1>2, <1>3, <1>4

\* What a handler at work is, in parts.
LEMMA AccountsParts ==
    ASSUME AccountsInv, AU!AccountsAssumption, NEW q \in Crowd, req[q].pc # "idle"
    PROVE  /\ req[q] \in AU!Handler /\ req[q].phone \in Phone
           /\ KnowsRows(req[q], cred, consumers) /\ KnowsCode(req[q], code, sends)
           /\ cred \in [Phone -> [Kind -> AU!AuthCredential \cup {None}]] /\ consumers \subseteq Phone
           /\ "consumer" \in Kind /\ MaxSends \in Nat
<1>1. req[q] \in AU!Handler /\ KnowsRows(req[q], cred, consumers) /\ KnowsCode(req[q], code, sends)
  BY DEF AccountsInv, AU!TypeOK
<1>2. req[q].phone \in Phone
  BY <1>1 DEF AU!Handler, KnowsRows
<1> QED
  BY <1>1, <1>2 DEF AccountsInv, AU!TypeOK, AU!AccountsAssumption

\* Any handler may end.
LEMMA AccountsEnd ==
    ASSUME AccountsInv, AU!AccountsAssumption, NEW q \in Crowd, AU!Conflict(q) \/ AU!Fail(q)
    PROVE  AccountsInv'
<1>1. /\ AU!Goto(q, AU!Idle) /\ req[q].pc # "idle" /\ UNCHANGED <<cred, consumers, code, sends, spent>>
  BY DEF AU!Conflict, AU!Refused, AU!Fail
<1> QED
  BY <1>1, IdleKnows, AccountsGoto

\* A handler's commands that write nothing others see.
LEMMA AccountsWork ==
    ASSUME AccountsInv, AU!AccountsAssumption, NEW q \in Crowd,
           AU!SmsLookup(q) \/ AU!FindConsumer(q) \/ AU!InsertCredential(q) \/ AU!Fetch(q) \/ AU!Issue(q)
    PROVE  AccountsInv'
<1> DEFINE x == req[q]
<1>1. UNCHANGED <<cred, consumers, code, sends, spent>> /\ x.pc # "idle"
  BY DEF AU!SmsLookup, AU!FindConsumer, AU!InsertCredential, AU!Fetch, AU!Issue
<1>2. /\ x \in AU!Handler /\ x.phone \in Phone
      /\ KnowsRows(x, cred, consumers) /\ cred \in [Phone -> [Kind -> AU!AuthCredential \cup {None}]]
      /\ "consumer" \in Kind
  BY <1>1, AccountsParts
<1>3. ASSUME AU!SmsLookup(q) PROVE AccountsInv'
  <2> DEFINE row == cred[x.phone]["consumer"]
             pc == IF row = None THEN "find" ELSE "issue"
             h == [x EXCEPT !.pc = pc, !.row = row]
  <2>1. x.pc = "lookup" /\ AU!Goto(q, h)
    BY <1>3 DEF AU!SmsLookup, AU!Lookup
  <2>2. row \in AU!AuthCredential \cup {None} /\ pc \in {"find", "issue"}
        /\ (pc = "find" <=> row = None) /\ row = cred[x.phone]["consumer"]
    BY <1>2
  <2> HIDE DEF row, pc
  <2>3. /\ h \in AU!Handler /\ h.pc = pc /\ h.row = row /\ h.phone = x.phone /\ h.kind = x.kind
        /\ h.overlap = x.overlap /\ (h.new => x.new) /\ (x.login => h.login)
    BY <1>2, <2>2 DEF AU!Handler
  <2>4. ~x.new /\ x.kind = "consumer" /\ x.login /\ x.phone # None
    BY <1>2, <2>1 DEF KnowsRows
  <2> HIDE DEF x, h
  <2>5. KnowsRows(h, cred, consumers) /\ KnowsCode(h, code, sends)
    BY <1>2, <2>2, <2>3, <2>4 DEF KnowsRows, KnowsCode
  <2> QED
    BY <1>1, <2>1, <2>3, <2>4, <2>5, AccountsGoto DEF x
<1>4. ASSUME AU!FindConsumer(q) PROVE AccountsInv'
  <2> DEFINE row == [biz |-> x.phone, pw |-> FALSE]
             a == [x EXCEPT !.pc = "insert", !.row = row]
             b == [x EXCEPT !.pc = "create"]
  <2>1. x.pc = "find" /\ AU!Goto(q, IF x.phone \in consumers THEN a ELSE b)
    BY <1>4 DEF AU!FindConsumer, AU!OfConsumer, AU!Known
  <2>2. row \in AU!AuthCredential /\ row.biz = x.phone
    BY <1>2 DEF AU!AuthCredential, AU!Biz
  <2> HIDE DEF row
  <2>3. /\ a \in AU!Handler /\ a.pc = "insert" /\ a.row = row /\ a.phone = x.phone /\ a.kind = x.kind
        /\ a.overlap = x.overlap /\ (a.new => x.new) /\ (x.login => a.login)
    BY <1>2, <2>2 DEF AU!Handler
  <2>4. /\ b \in AU!Handler /\ b.pc = "create" /\ b.phone = x.phone /\ b.kind = x.kind
        /\ b.overlap = x.overlap /\ (b.new => x.new) /\ (x.login => b.login)
    BY <1>2 DEF AU!Handler
  <2>5. ~x.new /\ x.kind = "consumer" /\ x.login /\ (~x.overlap => cred[x.phone]["consumer"] = None)
    BY <1>2, <2>1 DEF KnowsRows
  <2>6. x.pc # "idle" /\ x.phone # None
    BY <1>2, <2>1 DEF KnowsRows
  <2> HIDE DEF x, a, b
  <2>7. CASE x.phone \in consumers
    <3>1. KnowsRows(a, cred, consumers) /\ KnowsCode(a, code, sends)
      BY <2>2, <2>3, <2>5, <2>6, <2>7 DEF KnowsRows, KnowsCode
    <3>2. AU!Goto(q, a)
      BY <2>1, <2>7
    <3> QED
      BY <1>1, <2>3, <2>5, <3>1, <3>2, AccountsGoto DEF x
  <2>8. CASE x.phone \notin consumers
    <3>1. KnowsRows(b, cred, consumers) /\ KnowsCode(b, code, sends)
      BY <2>4, <2>5, <2>6, <2>8 DEF KnowsRows, KnowsCode
    <3>2. AU!Goto(q, b)
      BY <2>1, <2>8
    <3> QED
      BY <1>1, <2>4, <2>5, <3>1, <3>2, AccountsGoto DEF x
  <2> QED
    BY <2>7, <2>8
<1>5. ASSUME AU!InsertCredential(q) PROVE AccountsInv'
  <2> DEFINE pc == IF x.login THEN "issue" ELSE "commit"
             h == [x EXCEPT !.pc = pc, !.new = TRUE]
  <2>1. x.pc = "insert" /\ cred[x.phone]["consumer"] = None /\ AU!NoTwin(x.phone) /\ AU!Goto(q, h)
    BY <1>5 DEF AU!InsertCredential
  <2>2. pc \in {"issue", "commit"}
    OBVIOUS
  <2> HIDE DEF pc
  <2>3. /\ h \in AU!Handler /\ h.pc = pc /\ h.row = x.row /\ h.phone = x.phone /\ h.kind = x.kind
        /\ h.overlap = x.overlap /\ h.new = TRUE
    BY <1>2, <2>2 DEF AU!Handler
  <2> HIDE DEF h
  <2>4. KnowsRows(h, cred, consumers) /\ KnowsCode(h, code, sends)
    BY <1>2, <2>1, <2>2, <2>3 DEF KnowsRows, KnowsCode
  <2> QED
    BY <1>1, <2>1, <2>3, <2>4, AccountsGoto
<1>6. ASSUME NEW pc \in {"issue", "commit"}, x.pc \in {"fetch", "issue"}, AU!Goto(q, [x EXCEPT !.pc = pc])
      PROVE  AccountsInv'
  <2> DEFINE h == [x EXCEPT !.pc = pc]
  <2>1. /\ h \in AU!Handler /\ h.pc = pc /\ h.row = x.row /\ h.phone = x.phone /\ h.kind = x.kind
        /\ h.overlap = x.overlap /\ (h.new <=> x.new) /\ (h.login <=> x.login)
    BY <1>2 DEF AU!Handler
  <2>2. AU!Goto(q, h)
    BY <1>6
  <2> HIDE DEF h
  <2>3. KnowsRows(h, cred, consumers) /\ KnowsCode(h, code, sends)
    BY <1>2, <1>6, <2>1 DEF KnowsRows, KnowsCode
  <2> QED
    BY <1>1, <2>1, <2>2, <2>3, AccountsGoto
<1>7. ASSUME AU!Fetch(q) PROVE AccountsInv'
  BY <1>6, <1>7 DEF AU!Fetch
<1>8. ASSUME AU!Issue(q) PROVE AccountsInv'
  BY <1>6, <1>8 DEF AU!Issue
<1> QED
  BY <1>3, <1>4, <1>5, <1>7, <1>8

\* The code is used up, for this check and for those that overlap it.
LEMMA AccountsSpend ==
    ASSUME AccountsInv, AU!AccountsAssumption, NEW q \in Crowd, AU!SpendCode(q)
    PROVE  AccountsInv'
<1> DEFINE x == req[q]
           h == [x EXCEPT !.pc = "lookup"]
<1>1. /\ x.pc = "delete" /\ AU!Goto(q, h) /\ UNCHANGED <<cred, consumers, sends>>
      /\ code' = [code EXCEPT ![x.phone] = 0] /\ spent' = spent \cup {x.send}
  BY DEF AU!SpendCode, AU!Consumed
<1>2. /\ x \in AU!Handler /\ x.phone \in Phone /\ KnowsRows(x, cred, consumers) /\ KnowsCode(x, code, sends)
      /\ MaxSends \in Nat
  BY <1>1, AccountsParts
<1>3. /\ h \in AU!Handler /\ h.pc = "lookup" /\ h.phone = x.phone /\ h.kind = x.kind /\ h.overlap = x.overlap
      /\ (h.new => x.new) /\ (x.login => h.login)
  BY <1>2 DEF AU!Handler
<1> HIDE DEF h
<1>4. KnowsRows(h, cred', consumers') /\ KnowsCode(h, code', sends')
  BY <1>1, <1>2, <1>3 DEF KnowsRows, KnowsCode
<1>5. /\ x.send \in 1..sends /\ \A p \in Phone : code[p] = x.send => p = x.phone
      /\ code \in [Phone -> 0..MaxSends] /\ sends \in 0..MaxSends /\ spent \subseteq 1..sends
      /\ \A p \in Phone : code[p] <= sends /\ code[p] \notin spent
      /\ \A p, r \in Phone : code[p] = code[r] /\ code[p] # 0 => p = r
  BY <1>1, <1>2 DEF KnowsCode, AccountsInv, AU!TypeOK, Codes
<1> HIDE DEF x
<1>6. \A p \in Phone : code'[p] = IF p = x.phone THEN 0 ELSE code[p]
  BY <1>1, <1>5
<1>7. code' \in [Phone -> 0..MaxSends] /\ spent' \subseteq 1..sends /\ spent' \subseteq 1..MaxSends
  <2>1. 0 \in 0..MaxSends /\ 1..sends \subseteq 1..MaxSends
    BY <1>2, <1>5
  <2>2. code' \in [Phone -> 0..MaxSends]
    BY <1>1, <1>5, <2>1
  <2>3. spent' \subseteq 1..sends
    BY <1>1, <1>5
  <2> QED
    BY <2>1, <2>2, <2>3
<1>8. Codes'
  <2>1. \A p \in Phone : code'[p] <= sends /\ code'[p] \notin spent'
    BY <1>1, <1>5, <1>6, <1>7
  <2>2. \A p, r \in Phone : code'[p] = code'[r] /\ code'[p] # 0 => p = r
    BY <1>5, <1>6
  <2> QED
    BY <1>1, <1>7, <2>1, <2>2 DEF Codes
<1>9. \A r \in Crowd : KnowsRows(req[r], cred', consumers') /\ KnowsCode(req[r], code', sends')
  <2> SUFFICES ASSUME NEW r \in Crowd PROVE KnowsRows(req[r], cred', consumers') /\ KnowsCode(req[r], code', sends')
    OBVIOUS
  <2>1. KnowsRows(req[r], cred, consumers) /\ KnowsCode(req[r], code, sends)
    BY DEF AccountsInv
  <2>2. KnowsCode(req[r], code', sends)
    BY <1>2, <1>5, <1>6, <2>1 DEF KnowsCode
  <2> QED
    BY <1>1, <2>1, <2>2
<1>10. Named' /\ cred' \in [Phone -> [Kind -> AU!AuthCredential \cup {None}]] /\ consumers' \subseteq Phone
  BY <1>1 DEF AccountsInv, AU!TypeOK, Named
<1>11. req' = [req EXCEPT ![q] = h] /\ req[q].pc # "idle" /\ sends' \in 0..MaxSends
  BY <1>1, <1>5 DEF AU!Goto, x
<1>12. h.phone = req[q].phone /\ h.overlap = req[q].overlap /\ (h.new => req[q].new)
  BY <1>3 DEF x
<1> QED
  BY <1>3, <1>4, <1>7, <1>8, <1>9, <1>10, <1>11, <1>12, AccountsMove

\* A consumer appears: only handlers that have met another had not found it.
LEMMA AccountsCreate ==
    ASSUME AccountsInv, AU!AccountsAssumption, NEW q \in Crowd, AU!CreateConsumer(q)
    PROVE  AccountsInv'
<1> DEFINE x == req[q]
           row == [biz |-> x.phone, pw |-> FALSE]
           a == [x EXCEPT !.pc = "insert", !.row = row]
<1>1. /\ x.pc = "create" /\ consumers' = consumers \cup {x.phone} /\ UNCHANGED <<cred, code, sends, spent>>
      /\ AU!Goto(q, a) \/ AU!Goto(q, AU!Idle)
  BY DEF AU!CreateConsumer, AU!OfConsumer
<1>2. /\ x \in AU!Handler /\ x.phone \in Phone /\ KnowsRows(x, cred, consumers) /\ consumers \subseteq Phone
  BY <1>1, AccountsParts
<1>3. row \in AU!AuthCredential /\ row.biz = x.phone
  BY <1>2 DEF AU!AuthCredential, AU!Biz
<1> HIDE DEF row
<1>4. /\ a \in AU!Handler /\ a.pc = "insert" /\ a.row = row /\ a.phone = x.phone /\ a.kind = x.kind
      /\ a.overlap = x.overlap /\ (a.new => x.new) /\ (x.login => a.login)
  BY <1>2, <1>3 DEF AU!Handler
<1>5. ~x.new /\ x.kind = "consumer" /\ x.phone # None /\ (~x.overlap => cred[x.phone]["consumer"] = None)
  BY <1>1, <1>2 DEF KnowsRows
<1> HIDE DEF a
<1>6. KnowsRows(a, cred', consumers') /\ KnowsCode(a, code', sends')
  BY <1>1, <1>3, <1>4, <1>5 DEF KnowsRows, KnowsCode
<1>7. \A r \in Crowd \ {q} : KnowsRows(req[r], cred', consumers') /\ KnowsCode(req[r], code', sends')
  <2> SUFFICES ASSUME NEW r \in Crowd, r # q
               PROVE  KnowsRows(req[r], cred', consumers') /\ KnowsCode(req[r], code', sends')
    OBVIOUS
  <2>1. KnowsRows(req[r], cred, consumers) /\ KnowsCode(req[r], code, sends)
    BY DEF AccountsInv
  <2>2. req[r].pc # "idle" /\ req[r].phone = x.phone => req[r].overlap
    BY DEF AccountsInv, Met
  <2> HIDE DEF x
  <2>3. KnowsRows(req[r], cred, consumers')
    BY <1>1, <2>1, <2>2 DEF KnowsRows
  <2> QED
    BY <1>1, <2>1, <2>3
<1>8. /\ cred' \in [Phone -> [Kind -> AU!AuthCredential \cup {None}]] /\ consumers' \subseteq Phone
      /\ code' \in [Phone -> 0..MaxSends] /\ sends' \in 0..MaxSends /\ spent' \subseteq 1..MaxSends /\ Codes' /\ Named'
  BY <1>1, <1>2 DEF AccountsInv, AU!TypeOK, Codes, Named
<1>9. ASSUME AU!Goto(q, a) PROVE AccountsInv'
  <2>1. req' = [req EXCEPT ![q] = a] /\ req[q].pc # "idle" /\ a.phone = req[q].phone /\ a.overlap = req[q].overlap
        /\ ~a.new
    BY <1>1, <1>4, <1>5, <1>9 DEF AU!Goto, x
  <2> HIDE DEF x
  <2> QED
    BY <1>4, <1>6, <1>7, <1>8, <2>1, AccountsMove
<1>10. ASSUME AU!Goto(q, AU!Idle) PROVE AccountsInv'
  <2>1. req' = [req EXCEPT ![q] = AU!Idle] /\ req[q].pc # "idle"
    BY <1>1, <1>10 DEF AU!Goto
  <2> HIDE DEF x
  <2> QED
    BY <1>7, <1>8, <2>1, IdleKnows, AccountsMove
<1> QED
  BY <1>1, <1>9, <1>10

\* A transaction commits, and its credential can be seen.
LEMMA AccountsCommit ==
    ASSUME AccountsInv, AU!AccountsAssumption, NEW q \in Crowd, AU!Commit(q)
    PROVE  AccountsInv'
<1> DEFINE x == req[q]
           kinds == [cred[x.phone] EXCEPT !["consumer"] = x.row]
<1>1. /\ x.pc = "commit" /\ AU!Goto(q, AU!Idle) /\ UNCHANGED <<consumers, code, sends, spent>>
      /\ cred' = IF x.new THEN [cred EXCEPT ![x.phone] = kinds] ELSE cred
  BY DEF AU!Commit
<1>2. /\ x \in AU!Handler /\ x.phone \in Phone /\ KnowsRows(x, cred, consumers)
      /\ cred \in [Phone -> [Kind -> AU!AuthCredential \cup {None}]] /\ "consumer" \in Kind
  BY <1>1, AccountsParts
<1>3. /\ req' = [req EXCEPT ![q] = AU!Idle] /\ req[q].pc # "idle"
      /\ code' \in [Phone -> 0..MaxSends] /\ sends' \in 0..MaxSends /\ spent' \subseteq 1..MaxSends
      /\ consumers' \subseteq Phone /\ Codes'
  BY <1>1 DEF AU!Goto, AccountsInv, AU!TypeOK, Codes
<1>4. x.new => /\ kinds \in [Kind -> AU!AuthCredential \cup {None}] /\ kinds["consumer"] = x.row
               /\ \A k \in Kind : k # "consumer" => kinds[k] = cred[x.phone][k]
               /\ cred[x.phone]["consumer"] = None /\ (~x.row.pw => x.row.biz = x.phone /\ x.phone \in consumers)
  <2>1. x.new => x.row \in AU!AuthCredential /\ cred[x.phone]["consumer"] = None
                 /\ (~x.row.pw => x.row.biz = x.phone /\ x.phone \in consumers)
    BY <1>2 DEF KnowsRows
  <2> HIDE DEF x
  <2> QED
    BY <1>2, <2>1
<1> HIDE DEF kinds
<1>5. cred' \in [Phone -> [Kind -> AU!AuthCredential \cup {None}]]
  BY <1>1, <1>2, <1>4
<1>6. Named'
  BY <1>1, <1>2, <1>4 DEF Named, AccountsInv
<1>7. \A r \in Crowd \ {q} : KnowsRows(req[r], cred', consumers') /\ KnowsCode(req[r], code', sends')
  <2> SUFFICES ASSUME NEW r \in Crowd, r # q
               PROVE  KnowsRows(req[r], cred', consumers') /\ KnowsCode(req[r], code', sends')
    OBVIOUS
  <2>1. /\ KnowsRows(req[r], cred, consumers) /\ KnowsCode(req[r], code, sends) /\ req[r] \in AU!Handler
        /\ x.new /\ req[r].new => req[r].phone # x.phone
    BY DEF AccountsInv, AU!TypeOK
  <2>2. req[r].pc # "idle" /\ req[r].phone = x.phone => req[r].overlap
    BY DEF AccountsInv, Met
  <2>3. req[r].kind \in Kind /\ (req[r].pc # "idle" => req[r].phone \in Phone)
    BY <2>1 DEF AU!Handler, KnowsRows
  <2> HIDE DEF x
  <2>4. CASE x.new
    <3>1. \A p \in Phone : cred'[p] = IF p = x.phone THEN kinds ELSE cred[p]
      BY <1>1, <1>2, <2>4
    <3>2. KnowsRows(req[r], cred', consumers)
      BY <1>4, <2>1, <2>2, <2>3, <2>4, <3>1 DEF KnowsRows
    <3> QED
      BY <1>1, <2>1, <3>2
  <2>5. CASE ~x.new
    BY <1>1, <2>1, <2>5
  <2> QED
    BY <2>4, <2>5
<1> HIDE DEF x
<1> QED
  BY <1>3, <1>5, <1>6, <1>7, IdleKnows, AccountsMove

\* A code is sent, or expires.
LEMMA AccountsCodes ==
    ASSUME AccountsInv, AU!AccountsAssumption, NEW p \in Phone, AU!SendCode(p) \/ AU!ExpireCode(p)
    PROVE  AccountsInv'
<1>1. /\ UNCHANGED <<cred, consumers, req, spent>> /\ MaxSends \in Nat
      /\ code \in [Phone -> 0..MaxSends] /\ sends \in 0..MaxSends /\ spent \subseteq 1..sends
      /\ \A x \in Phone : code[x] <= sends /\ code[x] \notin spent
      /\ \A x, y \in Phone : code[x] = code[y] /\ code[x] # 0 => x = y
  BY DEF AU!SendCode, AU!ExpireCode, AccountsInv, AU!TypeOK, Codes, AU!AccountsAssumption
<1>2. PICK n : /\ code' = [code EXCEPT ![p] = n]
               /\ \/ n = sends + 1 /\ sends' = sends + 1 /\ sends < MaxSends
                  \/ n = 0 /\ sends' = sends
  BY DEF AU!SendCode, AU!ExpireCode
<1>3. n \in 0..MaxSends /\ sends' \in 0..MaxSends /\ n <= sends' /\ sends <= sends' /\ 1..sends \subseteq 1..sends'
      /\ n \notin 1..sends
  BY <1>1, <1>2
<1>4. code' \in [Phone -> 0..MaxSends] /\ \A x \in Phone : code'[x] = IF x = p THEN n ELSE code[x]
  BY <1>1, <1>2, <1>3
<1>5. Codes'
  <2>1. spent' \subseteq 1..sends'
    BY <1>1, <1>3
  <2>2. \A x \in Phone : code'[x] <= sends' /\ code'[x] \notin spent'
    BY <1>1, <1>3, <1>4
  <2>3. \A x, y \in Phone : code'[x] = code'[y] /\ code'[x] # 0 => x = y
    BY <1>1, <1>2, <1>4
  <2> QED
    BY <2>1, <2>2, <2>3 DEF Codes
<1>6. ASSUME NEW q \in Crowd PROVE KnowsRows(req'[q], cred', consumers') /\ KnowsCode(req'[q], code', sends')
  <2>1. KnowsRows(req[q], cred, consumers) /\ KnowsCode(req[q], code, sends)
    BY DEF AccountsInv
  <2>2. KnowsCode(req[q], code', sends')
    BY <1>3, <1>4, <2>1 DEF KnowsCode
  <2> QED
    BY <1>1, <2>1, <2>2
<1>7. AU!TypeOK' /\ Met' /\ Named'
  BY <1>1, <1>3, <1>4 DEF AccountsInv, AU!TypeOK, Met, Named
<1> QED
  BY <1>5, <1>6, <1>7 DEF AccountsInv

\* Somebody signs up, whom the handlers of that phone have met.
LEMMA AccountsSignUp ==
    ASSUME AccountsInv, AU!AccountsAssumption, NEW p \in Phone, AU!SignUpConsumer(p)
    PROVE  AccountsInv'
<1> DEFINE Met1(r) == IF req[r].phone = p THEN [req[r] EXCEPT !.overlap = TRUE] ELSE req[r]
<1>1. /\ UNCHANGED <<cred, code, sends, spent>> /\ consumers' = consumers \cup {p}
      /\ req' = [r \in Crowd |-> Met1(r)]
  BY DEF AU!SignUpConsumer
<1>2. \A r \in Crowd : /\ Met1(r) \in AU!Handler /\ Met1(r).pc = req[r].pc /\ Met1(r).phone = req[r].phone
                       /\ Met1(r).new => req[r].new
                       /\ req[r].overlap => Met1(r).overlap = TRUE
                       /\ KnowsRows(Met1(r), cred, consumers') /\ KnowsCode(Met1(r), code, sends)
  BY <1>1, AccountsMeet
<1> HIDE DEF Met1
<1>3. \A r \in Crowd : req'[r] = Met1(r)
  BY <1>1
<1>4. req' \in [Crowd -> AU!Handler]
  BY <1>1, <1>2
<1>5. \A x, y \in Crowd : req'[x].new /\ req'[y].new /\ req'[x].phone = req'[y].phone => x = y
  BY <1>2, <1>3 DEF AccountsInv, AU!TypeOK
<1>6. Met'
  BY <1>2, <1>3 DEF AccountsInv, Met
<1>7. AU!TypeOK' /\ Codes' /\ Named'
  BY <1>1, <1>4, <1>5 DEF AccountsInv, AU!TypeOK, Codes, Named
<1>8. \A r \in Crowd : KnowsRows(req'[r], cred', consumers') /\ KnowsCode(req'[r], code', sends')
  BY <1>1, <1>2, <1>3
<1> QED
  BY <1>6, <1>7, <1>8 DEF AccountsInv

\* Every step keeps the invariant.
LEMMA AccountsNext == ASSUME AccountsInv, AU!AccountsAssumption, [AU!Next]_(AU!vars) PROVE AccountsInv'
<1>1. ASSUME NEW q \in Crowd, AU!HandlerStep(q) PROVE AccountsInv'
  BY <1>1, AccountsBegins, AccountsSpend, AccountsWork, AccountsCreate, AccountsEnd, AccountsCommit DEF AU!HandlerStep
<1>2. ASSUME UNCHANGED AU!vars PROVE AccountsInv'
  BY <1>2 DEF AU!vars, AccountsInv, AU!TypeOK, Codes, Met, Named
<1> QED
  BY <1>1, <1>2, AccountsCodes, AccountsSignUp DEF AU!Next

\* Every step keeps it, and so does a step of another part.
LEMMA AccountsKept == ASSUME AU!AccountsAssumption PROVE AccountsInv /\ [AU!Next]_(AU!vars) => AccountsInv'
BY AccountsNext

\* Every reachable state satisfies the invariant above: handlers of one phone know of each
\* other, and one that is alone with its phone has read what is still so.
THEOREM AccountsInvariant == ASSUME AU!AccountsAssumption PROVE AU!Spec => []AccountsInv
BY AccountsInit, AccountsKept, PTL DEF AU!Spec

\* The same where it is one of nine parts: the others leave its variables alone.
LEMMA AccountsRun == Spec => [](part = "accounts" => AccountsInv)
<1>1. AU!AccountsAssumption
  BY PartsAssumption DEF PartsAssumption
<1>2. Init => (part = "accounts" => AccountsInv)
  BY <1>1, AccountsInit DEF Init
<1>3. ASSUME part = "accounts" => AccountsInv, [Next]_vars PROVE (part = "accounts" => AccountsInv)'
  <2>1. part' = part
    BY <1>3 DEF Next, OthersRest, vars
  <2>2. part = "accounts" => [AU!Next]_(AU!vars)
    BY <1>3 DEF Next, vars, accountVars, AU!vars
  <2> QED
    BY <1>1, <1>3, <2>1, <2>2, AccountsKept
<1> QED
  BY <1>2, <1>3, PTL DEF Spec

\* A credential made by an SMS login names the consumer of its phone, who exists, although
\* three services write without a common transaction.
THEOREM CredentialsNameConsumersHolds == Spec => []CredentialsNameConsumers
<1>1. AccountsInv => AU!CredentialsNameConsumers
  BY DEF AccountsInv, Named, KnowsRows, AU!CredentialsNameConsumers
<1>2. (part = "accounts" => AccountsInv) => CredentialsNameConsumers
  BY <1>1 DEF CredentialsNameConsumers
<1> QED
  BY <1>2, AccountsRun, PTL

\* Only the beginning of a check takes a handler to the deletion of a code: a step to
\* anything else does not,
LEMMA AccountsGoElse ==
    ASSUME AccountsInv, NEW q \in Crowd, NEW h, AU!Goto(q, h), h.pc # "delete"
    PROVE  \A x \in Crowd : req'[x].pc = "delete" => req[x].pc = "delete"
BY DEF AU!Goto, AccountsInv, AU!TypeOK

\* nor does the beginning of anything else,
LEMMA AccountsBeginElse ==
    ASSUME AccountsInv, NEW q \in Crowd, NEW p \in Phone, NEW g \in AU!Handler, AU!Begin(q, p, g), NEW x \in Crowd,
           req[x].pc # "delete", req'[x].pc = "delete"
    PROVE  x = q /\ req'[x].pc = g.pc /\ req'[x].send = g.send
<1>1. x # q => req'[x].pc = req[x].pc
  BY DEF AU!Begin, AccountsInv, AU!TypeOK, AU!Handler
<1>2. req'[q].pc = g.pc /\ req'[q].send = g.send
  BY DEF AU!Begin, AU!Handler
<1> QED
  BY <1>1, <1>2

\* and a check begins with a code that is still there.
LEMMA AccountsAccept ==
    ASSUME AccountsInv, AU!AccountsAssumption, NEW q \in Crowd, AU!HandlerStep(q), NEW x \in Crowd,
           req[x].pc # "delete", req'[x].pc = "delete"
    PROVE  req'[x].send \notin spent
<1>0. AU!Idle \in AU!Handler /\ AU!Idle.pc = "idle" /\ req[q] \in AU!Handler
  BY IdleKnows DEF AU!Idle, AccountsInv, AU!TypeOK
<1>1. ASSUME NEW p \in Phone, AU!CheckCode(q, p) PROVE req'[x].send \notin spent
  <2> DEFINE g == [AU!Idle EXCEPT !.pc = "delete", !.send = code[p]]
  <2>1. AU!Begin(q, p, g) /\ g \in AU!Handler /\ g.send = code[p]
    BY <1>0, <1>1 DEF AU!CheckCode, AU!Handler, AccountsInv, AU!TypeOK
  <2> HIDE DEF g
  <2>2. req'[x].send = code[p]
    BY <2>1, AccountsBeginElse
  <2> QED
    BY <2>2 DEF AccountsInv, Codes
<1>2. ASSUME NEW p \in Phone, NEW b \in AU!Biz, AU!Register(q, p, b) PROVE FALSE
  <2> DEFINE row == [biz |-> b, pw |-> TRUE]
             g == [AU!Idle EXCEPT !.pc = "insert", !.row = row, !.login = FALSE]
  <2>1. AU!Begin(q, p, g) /\ row \in AU!AuthCredential
    BY <1>2 DEF AU!Register, AU!AuthCredential
  <2> HIDE DEF row
  <2>2. g \in AU!Handler /\ g.pc = "insert"
    BY <1>0, <2>1 DEF AU!Handler
  <2> HIDE DEF g
  <2> QED
    BY <2>1, <2>2, AccountsBeginElse
<1>3. ASSUME NEW p \in Phone, NEW k \in Kind, AU!PasswordLogin(q, p, k) PROVE FALSE
  <2> DEFINE row == cred[p][k]
             pc == IF k \in Asking THEN "fetch" ELSE "issue"
             g == [AU!Idle EXCEPT !.pc = pc, !.kind = k, !.row = row]
  <2>1. AU!Begin(q, p, g)
    BY <1>3 DEF AU!PasswordLogin, AU!Lookup
  <2>2. row \in AU!AuthCredential \cup {None} /\ pc \in {"fetch", "issue"}
    BY DEF AccountsInv, AU!TypeOK
  <2> HIDE DEF row, pc
  <2>3. g \in AU!Handler /\ g.pc = pc
    BY <1>0, <2>2 DEF AU!Handler
  <2> HIDE DEF g
  <2> QED
    BY <2>1, <2>2, <2>3, AccountsBeginElse
<1>4. ASSUME AU!SmsLookup(q) \/ AU!FindConsumer(q) \/ AU!CreateConsumer(q) PROVE FALSE
  <2> DEFINE row == AU!Lookup(req[q].phone, "consumer")
  <2>1. ASSUME AU!SmsLookup(q) PROVE FALSE
    <3> DEFINE h == [req[q] EXCEPT !.pc = IF row = None THEN "find" ELSE "issue", !.row = row]
    <3>1. AU!Goto(q, h)
      BY <2>1 DEF AU!SmsLookup
    <3>2. h.pc # "delete"
      BY <1>0 DEF AU!Handler
    <3> HIDE DEF h
    <3> QED
      BY <3>1, <3>2, AccountsGoElse
  <2>2. AU!OfConsumer(req[q]).pc = "insert"
    BY <1>0 DEF AU!OfConsumer, AU!Handler
  <2>3. [req[q] EXCEPT !.pc = "create"].pc = "create"
    BY <1>0 DEF AU!Handler
  <2>4. AU!FindConsumer(q) \/ AU!CreateConsumer(q) =>
          \/ AU!Goto(q, AU!OfConsumer(req[q])) \/ AU!Goto(q, AU!Idle)
          \/ AU!Goto(q, [req[q] EXCEPT !.pc = "create"])
    BY Zenon DEF AU!FindConsumer, AU!CreateConsumer
  <2> HIDE DEF row
  <2> QED
    BY <1>0, <1>4, <2>1, <2>2, <2>3, <2>4, AccountsGoElse, Zenon
<1>5. ASSUME AU!SpendCode(q) \/ AU!InsertCredential(q) \/ AU!Fetch(q) \/ AU!Issue(q) PROVE FALSE
  <2>1. ASSUME AU!SpendCode(q) PROVE FALSE
    <3> DEFINE h == [req[q] EXCEPT !.pc = "lookup"]
    <3>1. AU!Goto(q, h)
      BY <2>1 DEF AU!SpendCode
    <3>2. h.pc # "delete"
      BY <1>0 DEF AU!Handler
    <3> HIDE DEF h
    <3> QED
      BY <3>1, <3>2, AccountsGoElse
  <2>2. ASSUME AU!InsertCredential(q) PROVE FALSE
    <3> DEFINE h == [req[q] EXCEPT !.pc = IF req[q].login THEN "issue" ELSE "commit", !.new = TRUE]
    <3>1. AU!Goto(q, h)
      BY <2>2 DEF AU!InsertCredential
    <3>2. h.pc # "delete"
      BY <1>0 DEF AU!Handler
    <3> HIDE DEF h
    <3> QED
      BY <3>1, <3>2, AccountsGoElse
  <2>3. ASSUME AU!Fetch(q) PROVE FALSE
    <3> DEFINE h == [req[q] EXCEPT !.pc = "issue"]
    <3>1. AU!Goto(q, h)
      BY <2>3 DEF AU!Fetch
    <3>2. h.pc # "delete"
      BY <1>0 DEF AU!Handler
    <3> HIDE DEF h
    <3> QED
      BY <3>1, <3>2, AccountsGoElse
  <2>4. ASSUME AU!Issue(q) PROVE FALSE
    <3> DEFINE h == [req[q] EXCEPT !.pc = "commit"]
    <3>1. AU!Goto(q, h)
      BY <2>4 DEF AU!Issue
    <3>2. h.pc # "delete"
      BY <1>0 DEF AU!Handler
    <3> HIDE DEF h
    <3> QED
      BY <3>1, <3>2, AccountsGoElse
  <2> QED
    BY <1>5, <2>1, <2>2, <2>3, <2>4
<1>6. ASSUME AU!Conflict(q) \/ AU!Commit(q) \/ AU!Fail(q) PROVE FALSE
  <2>1. AU!Goto(q, AU!Idle)
    BY <1>6 DEF AU!Conflict, AU!Commit, AU!Fail
  <2> QED
    BY <1>0, <2>1, AccountsGoElse
<1> QED
  BY <1>1, <1>2, <1>3, <1>4, <1>5, <1>6 DEF AU!HandlerStep

\* A code is not accepted again once a check of it has ended.
THEOREM CodeOnceHolds == Spec => CodeOnce
<1>0. AU!AccountsAssumption
  BY PartsAssumption DEF PartsAssumption
<1> USE <1>0
<1>1. ASSUME AccountsInv, AU!Next PROVE AU!AcceptsOnce
  <2>1. ASSUME NEW q \in Crowd, AU!HandlerStep(q) PROVE AU!AcceptsOnce
    BY <1>1, <2>1, AccountsAccept DEF AU!AcceptsOnce
  <2>2. ASSUME NEW p \in Phone, AU!SendCode(p) \/ AU!ExpireCode(p) PROVE AU!AcceptsOnce
    BY <2>2 DEF AU!SendCode, AU!ExpireCode, AU!AcceptsOnce
  <2>3. ASSUME NEW p \in Phone, AU!SignUpConsumer(p) PROVE AU!AcceptsOnce
    <3>1. \A r \in Crowd : req'[r].pc = req[r].pc
      BY <1>1, <2>3 DEF AU!SignUpConsumer, AccountsInv, AU!TypeOK, AU!Handler
    <3> QED
      BY <3>1 DEF AU!AcceptsOnce
  <2> QED
    BY <1>1, <2>1, <2>2, <2>3 DEF AU!Next
<1>2. ASSUME part = "accounts" => AccountsInv, [Next]_vars PROVE [part = "accounts" => AU!AcceptsOnce]_vars
  <2>1. part = "accounts" /\ Next => AU!Next
    BY DEF Next
  <2> QED
    BY <1>1, <1>2, <2>1
<1> QED
  BY <1>2, AccountsRun, PTL DEF Spec, CodeOnce

\* A login that is alone with its phone is not refused by a unique index.
THEOREM ConflictsOverlapHolds == Spec => ConflictsOverlap
<1>1. AccountsInv => AU!RefusesOverlaps
  BY DEF AccountsInv, KnowsRows, AU!RefusesOverlaps, AU!Refused
<1>2. (part = "accounts" => AccountsInv) /\ [Next]_vars => [part = "accounts" => AU!RefusesOverlaps]_vars
  BY <1>1
<1> QED
  BY <1>2, AccountsRun, PTL DEF Spec, ConflictsOverlap

----------------------------------------------------------------------------
(* SeoCatalog.                                                             *)

\* Two cities of u share a name; one has two.
SharedIn(u) == \E x, y \in u : x[1] # y[1] /\ x[2] = y[2]
RenamedIn(u) == \E x, y \in u : x[1] = y[1] /\ x[2] # y[2]

\* A page to generate is of a district of its city, by a name the city has had.
KnownPlace(t, u) ==
    /\ t \in SE!Place /\ t.of.city = t.city
    /\ <<t.city, t.name>> \in u

Under(ps, t) == {p \in ps : p.name = t.name /\ p.of.slug = t.of.slug}

\* A page of ps: unless a name was shared, it shows the text of its own place.
KnownPage(p, u) ==
    /\ p \in SE!Page /\ p.of.city = p.city
    /\ <<p.city, p.name>> \in u
    /\ SharedIn(u) \/ p.about = <<p.city, p.of>>

\* What a job knows of the page it has looked up: if it is there, it is of the
\* same place, and if it is not, nobody but another job can have put it there.
KnowsPage(j, ps, u) ==
    j.pc = "save" =>
      /\ KnownPlace(j.at, u)
      /\ j.seen # None => SharedIn(u) \/ j.seen = <<j.at.city, j.at.of>>
      /\ j.seen = None => j.overlapped \/ Under(ps, j.at) = {}

JobFits(j, ps, u) ==
    /\ j.pc \in {"walk", "save"} => \A t \in j.todo : KnownPlace(t, u)
    /\ KnowsPage(j, ps, u)
    /\ j.pc = "refused" => j.overlapped \/ RenamedIn(u) \/ SharedIn(u)

\* The inductive invariant.
SeoInv ==
    /\ cities \in [City -> Pinyin \cup {None, SE!Absent}]
    /\ req \in [Req -> SE!Job \cup SE!RefusedJob \cup {SE!NoJob}]
    /\ \A c \in SE!Born : <<c, SE!NameOf(c)>> \in used
    /\ districts \subseteq SE!District
    /\ \A p \in pages : KnownPage(p, used)
    /\ \A r \in Req : JobFits(req[r], pages, used)
    /\ \A q, r \in Req : q # r /\ q \in SE!Running /\ r \in SE!Running => req[q].overlapped

\* A name that was shared, or changed, stays so.
LEMMA SeoStays ==
    ASSUME NEW u, NEW v, u \subseteq v
    PROVE  (SharedIn(u) => SharedIn(v)) /\ (RenamedIn(u) => RenamedIn(v))
BY DEF SharedIn, RenamedIn

LEMMA SeoKinds ==
    ASSUME NEW j \in SE!Job \cup SE!RefusedJob \cup {SE!NoJob}
    PROVE  /\ j.pc \in {"walk", "save"} => j \in SE!Job
           /\ j.pc = "refused" => j \in SE!RefusedJob
BY DEF SE!Job, SE!RefusedJob, SE!NoJob

\* No page is there and no job runs.
LEMMA SeoInit == ASSUME SE!Init PROVE SeoInv
<1>1. SE!NoJob.pc = "idle" /\ req = [r \in Req |-> SE!NoJob]
  BY DEF SE!NoJob, SE!Init
<1>2. \A r \in Req : JobFits(req[r], pages, used) /\ r \notin SE!Running
  BY <1>1 DEF JobFits, KnowsPage, SE!Running
<1>3. req \in [Req -> SE!Job \cup SE!RefusedJob \cup {SE!NoJob}]
  BY <1>1
<1> QED
  BY <1>2, <1>3 DEF SE!Init, SeoInv

\* A job that runs goes on as j, or ends; the others that run overlap with it.
LEMMA SeoMove ==
    ASSUME SeoInv, NEW r \in SE!Running, NEW j \in SE!Job \cup SE!RefusedJob \cup {SE!NoJob},
           req' = [req EXCEPT ![r] = j], UNCHANGED <<cities, districts, used>>,
           j.pc \in {"walk", "save"} => j.overlapped = req[r].overlapped,
           JobFits(j, pages', used), \A p \in pages' : KnownPage(p, used)
    PROVE  SeoInv'
<1>1. r \in Req /\ req'[r] = j /\ \A q \in Req : q # r => req'[q] = req[q]
  BY DEF SeoInv, SE!Running
<1>2. \A q \in Req : JobFits(req'[q], pages', used)
  <2> SUFFICES ASSUME NEW q \in Req, q # r PROVE JobFits(req[q], pages', used)
    BY <1>1
  <2>1. JobFits(req[q], pages, used)
    BY DEF SeoInv
  <2>2. q \in SE!Running => req[q].overlapped
    BY <1>1 DEF SeoInv
  <2> QED
    BY <2>1, <2>2 DEF JobFits, KnowsPage, SE!Running
<1>3. \A p, q \in Req : p # q /\ p \in SE!Running' /\ q \in SE!Running' => req'[p].overlapped
  <2> SUFFICES ASSUME NEW p \in Req, NEW q \in Req, p # q, p \in SE!Running', q \in SE!Running'
               PROVE  req'[p].overlapped
    OBVIOUS
  <2>1. p \in SE!Running /\ q \in SE!Running
    BY <1>1 DEF SE!Running
  <2>2. req[p].overlapped
    BY <2>1 DEF SeoInv
  <2>3. req'[p].pc \in {"walk", "save"}
    BY DEF SE!Running
  <2> QED
    BY <1>1, <2>2, <2>3
<1>4. req' \in [Req -> SE!Job \cup SE!RefusedJob \cup {SE!NoJob}]
  BY <1>1 DEF SeoInv
<1>5. \A c \in SE!Born' : <<c, SE!NameOf(c)'>> \in used'
  BY DEF SeoInv, SE!Born, SE!NameOf, SE!Named
<1> QED
  BY <1>2, <1>3, <1>4, <1>5 DEF SeoInv

LEMMA SeoLook == ASSUME SeoInv, SE!SeoCatalogAssumption, NEW r \in Req, SE!Look(r) PROVE SeoInv'
<1> DEFINE x == req[r]
<1>1. /\ x.pc = "walk" /\ x \in SE!Job /\ JobFits(x, pages, used) /\ r \in SE!Running
      /\ UNCHANGED <<cities, districts, pages, used>>
  BY SeoKinds DEF SE!Look, SeoInv, SE!Running
<1>2. PICK t \in x.todo :
        \/ req' = [req EXCEPT ![r].todo = @ \ {t}]
        \/ \E p \in IF SE!Present(t) = {} THEN {None} ELSE SE!Present(t) :
             req' = [req EXCEPT ![r].pc = "save", ![r].at = t, ![r].seen = p]
  BY DEF SE!Look
<1>3. ASSUME req' = [req EXCEPT ![r].todo = @ \ {t}] PROVE SeoInv'
  <2> DEFINE j == [x EXCEPT !.todo = @ \ {t}]
  <2>1. req' = [req EXCEPT ![r] = j]
    BY <1>3
  <2>2. /\ j \in SE!Job /\ j.pc = "walk" /\ j.todo \subseteq x.todo /\ j.overlapped = x.overlapped
    BY <1>1 DEF SE!Job
  <2> HIDE DEF j
  <2>3. JobFits(j, pages', used)
    BY <1>1, <2>2 DEF JobFits, KnowsPage
  <2> QED
    BY <1>1, <2>1, <2>2, <2>3, SeoMove DEF SeoInv
<1>4. ASSUME NEW p \in IF SE!Present(t) = {} THEN {None} ELSE SE!Present(t),
             req' = [req EXCEPT ![r].pc = "save", ![r].at = t, ![r].seen = p]
      PROVE  SeoInv'
  <2> DEFINE j == [x EXCEPT !.pc = "save", !.at = t, !.seen = p]
  <2>1. req' = [req EXCEPT ![r] = j]
    BY <1>4
  <2>2. KnownPlace(t, used) /\ t \in SE!Place
    BY <1>1 DEF JobFits, KnownPlace
  <2>3. ASSUME p \in SE!Present(t)
        PROVE  p \in City \X SE!District /\ p # None /\ (SharedIn(used) \/ p = <<t.city, t.of>>)
    <3>1. PICK g \in pages : p = <<g.city, g.of>> /\ g.name = t.name /\ g.of.slug = t.of.slug
      BY <2>3 DEF SE!Present, SE!Found
    <3>2. KnownPage(g, used)
      BY DEF SeoInv
    <3>3. g.city \in City /\ g.of \in SE!District /\ t.city \in City /\ t.of \in SE!District
      BY <2>2, <3>2 DEF KnownPage, SE!Page, SE!Place
    <3>4. p \in City \X SE!District
      BY <3>1, <3>3
    <3>5. p # None
      BY <3>4 DEF SE!SeoCatalogAssumption, SE!District
    <3>6. g.city # t.city => SharedIn(used)
      BY <2>2, <3>1, <3>2 DEF KnownPage, KnownPlace, SharedIn
    <3>7. g.city = t.city => g.of = t.of
      BY <2>2, <3>1, <3>2, <3>3 DEF KnownPage, KnownPlace, SE!District
    <3> QED
      BY <3>1, <3>4, <3>5, <3>6, <3>7
  <2>4. p = None \/ p \in City \X SE!District
    BY <1>4, <2>3
  <2>5. /\ j \in SE!Job /\ j.pc = "save" /\ j.at = t /\ j.seen = p /\ j.todo = x.todo
        /\ j.overlapped = x.overlapped
    BY <1>1, <2>2, <2>4 DEF SE!Job
  <2>6. p = None => Under(pages, t) = {}
    <3>1. p = None => SE!Present(t) = {}
      BY <1>4, <2>3
    <3> QED
      BY <3>1 DEF SE!Present, SE!Found, Under
  <2>7. p # None => SharedIn(used) \/ p = <<t.city, t.of>>
    BY <1>4, <2>3
  <2> HIDE DEF j
  <2>8. KnowsPage(j, pages', used)
    BY <1>1, <2>2, <2>5, <2>6, <2>7 DEF KnowsPage
  <2>9. JobFits(j, pages', used)
    BY <1>1, <2>5, <2>8 DEF JobFits
  <2> QED
    BY <1>1, <2>1, <2>5, <2>9, SeoMove DEF SeoInv
<1> QED
  BY <1>2, <1>3, <1>4

\* A job goes on to its next page.
LEMMA SeoPassed ==
    ASSUME SeoInv, NEW r \in Req, req[r].pc = "save", SE!Passed(r), UNCHANGED <<cities, districts, used>>,
           \A p \in pages' : KnownPage(p, used)
    PROVE  SeoInv'
<1> DEFINE x == req[r]
           rest == x.todo \ {x.at}
           j == [x EXCEPT !.pc = "walk", !.todo = rest, !.at = None, !.seen = None]
<1>1. x \in SE!Job /\ JobFits(x, pages, used) /\ r \in SE!Running
  BY SeoKinds DEF SeoInv, SE!Running
<1>2. req' = [req EXCEPT ![r] = j]
  BY DEF SE!Passed
<1>3. rest \subseteq x.todo
  OBVIOUS
<1> HIDE DEF rest
<1>4. j \in SE!Job /\ j.pc = "walk" /\ j.todo = rest /\ j.overlapped = x.overlapped
  BY <1>1, <1>3 DEF SE!Job
<1> HIDE DEF j
<1>5. JobFits(j, pages', used)
  BY <1>1, <1>3, <1>4 DEF JobFits, KnowsPage
<1> QED
  BY <1>1, <1>2, <1>4, <1>5, SeoMove

LEMMA SeoRewrite == ASSUME SeoInv, NEW r \in Req, SE!Rewrite(r) PROVE SeoInv'
<1> DEFINE t == req[r].at
           New(p) == IF <<p.city, p.of>> = req[r].seen THEN [p EXCEPT !.about = <<t.city, t.of>>] ELSE p
<1>1. /\ req[r].pc = "save" /\ SE!Passed(r) /\ UNCHANGED <<cities, districts, used>>
      /\ req[r].seen # None /\ pages' = {New(p) : p \in pages}
  BY DEF SE!Rewrite
<1>2. KnownPlace(t, used) /\ (SharedIn(used) \/ req[r].seen = <<t.city, t.of>>)
  BY <1>1 DEF SeoInv, JobFits, KnowsPage
<1>3. ASSUME NEW p \in pages PROVE KnownPage(New(p), used)
  <2>1. KnownPage(p, used) /\ p \in SE!Page /\ t.city \in City /\ t.of \in SE!District
    BY <1>2 DEF SeoInv, KnownPage, KnownPlace, SE!Place
  <2> DEFINE g == [p EXCEPT !.about = <<t.city, t.of>>]
  <2>2. g \in SE!Page /\ g.city = p.city /\ g.of = p.of /\ g.name = p.name /\ g.about = <<t.city, t.of>>
    BY <2>1 DEF SE!Page
  <2>3. New(p) = p \/ (New(p) = g /\ <<p.city, p.of>> = req[r].seen)
    OBVIOUS
  <2> HIDE DEF g, New, t
  <2>4. <<p.city, p.of>> = req[r].seen => KnownPage(g, used)
    BY <1>2, <2>1, <2>2 DEF KnownPage
  <2> QED
    BY <2>1, <2>3, <2>4
<1> HIDE DEF New
<1>4. \A p \in pages' : KnownPage(p, used)
  BY <1>1, <1>3
<1> QED
  BY <1>1, <1>4, SeoPassed

LEMMA SeoInsert == ASSUME SeoInv, NEW r \in Req, SE!Insert(r) PROVE SeoInv'
<1> DEFINE t == req[r].at
           g == [city |-> t.city, of |-> t.of, name |-> t.name, about |-> <<t.city, t.of>>]
<1>1. /\ req[r].pc = "save" /\ SE!Passed(r) /\ UNCHANGED <<cities, districts, used>>
      /\ pages' = pages \cup {g}
  BY DEF SE!Insert
<1>2. KnownPlace(t, used)
  BY <1>1 DEF SeoInv, JobFits, KnowsPage
<1>3. KnownPage(g, used)
  BY <1>2 DEF KnownPage, KnownPlace, SE!Place, SE!Page
<1>4. \A p \in pages' : KnownPage(p, used)
  BY <1>1, <1>3 DEF SeoInv
<1> QED
  BY <1>1, <1>4, SeoPassed

\* A job that is refused has met another, or its city another name.
LEMMA SeoConflict == ASSUME SeoInv, NEW r \in Req, SE!Conflict(r) PROVE SeoInv'
<1> DEFINE x == req[r]
           j == [pc |-> "refused", overlapped |-> x.overlapped]
<1>1. /\ x.pc = "save" /\ x.seen = None /\ ~SE!Insertable(x.at) /\ x \in SE!Job
      /\ UNCHANGED <<cities, districts, pages, used>> /\ JobFits(x, pages, used) /\ r \in SE!Running
      /\ req' = [req EXCEPT ![r] = j]
  BY SeoKinds DEF SE!Conflict, SeoInv, SE!Running
<1>2. j \in SE!RefusedJob /\ j.pc = "refused" /\ j.overlapped = x.overlapped
  BY <1>1 DEF SE!Job, SE!RefusedJob
<1>3. x.overlapped \/ RenamedIn(used)
  <2> SUFFICES ASSUME ~x.overlapped PROVE RenamedIn(used)
    OBVIOUS
  <2>1. KnownPlace(x.at, used) /\ Under(pages, x.at) = {}
    BY <1>1 DEF JobFits, KnowsPage
  <2>2. SE!Found(x.at) = {}
    BY <2>1 DEF SE!Found, Under
  <2>3. PICK p \in pages : p.city = x.at.city /\ p.of = x.at.of
    BY <1>1, <2>2 DEF SE!Insertable
  <2>4. KnownPage(p, used)
    BY DEF SeoInv
  <2>5. p.name # x.at.name
    BY <2>1, <2>3 DEF Under
  <2> QED
    BY <2>1, <2>3, <2>4, <2>5 DEF KnownPage, KnownPlace, RenamedIn
<1> HIDE DEF j
<1>4. JobFits(j, pages', used)
  BY <1>2, <1>3 DEF JobFits, KnowsPage
<1>5. \A p \in pages' : KnownPage(p, used)
  BY <1>1 DEF SeoInv
<1> QED
  BY <1>1, <1>2, <1>4, <1>5, SeoMove

LEMMA SeoEnd == ASSUME SeoInv, NEW r \in Req, SE!Skip(r) \/ SE!End(r) PROVE SeoInv'
<1>1. \A p \in pages' : KnownPage(p, used)
  BY DEF SE!Skip, SE!End, SeoInv
<1>2. SE!Skip(r) => SeoInv'
  BY <1>1, SeoPassed DEF SE!Skip
<1>3. SE!NoJob.pc = "idle"
  BY DEF SE!NoJob
<1>4. JobFits(SE!NoJob, pages', used)
  BY <1>3 DEF JobFits, KnowsPage
<1>5. SE!End(r) => SeoInv'
  BY <1>1, <1>3, <1>4, SeoMove DEF SE!End
<1> QED
  BY <1>2, <1>5

\* The worker starts a job: all that run overlap with it.
LEMMA SeoStart ==
    ASSUME SeoInv, NEW r \in Req, NEW chosen, NEW force \in BOOLEAN, SE!Start(r, chosen, force)
    PROVE  SeoInv'
<1> DEFINE todo == {[city |-> t[1], of |-> t[2], name |-> SE!NameOf(t[1])] : t \in chosen}
           o == SE!Running # {}
           n == [pc |-> "walk", force |-> force, at |-> None, seen |-> None, todo |-> todo, overlapped |-> o]
           Other(q) == IF q \in SE!Running THEN [req[q] EXCEPT !.overlapped = TRUE] ELSE req[q]
<1>1. /\ r \notin SE!Running /\ chosen \subseteq SE!Born \X districts /\ UNCHANGED <<cities, districts, pages, used>>
      /\ \A t \in chosen : t[2] \in SE!DistrictsOf(t[1])
      /\ req' = [x \in Req |-> IF x = r THEN n ELSE Other(x)]
  BY DEF SE!Start
<1>2. \A t \in todo : KnownPlace(t, used)
  <2> SUFFICES ASSUME NEW c \in chosen, NEW t, t = [city |-> c[1], of |-> c[2], name |-> SE!NameOf(c[1])]
               PROVE  KnownPlace(t, used)
    OBVIOUS
  <2>1. c[1] \in SE!Born /\ c[1] \in City /\ c[2] \in SE!District /\ c[2].city = c[1]
    BY <1>1 DEF SeoInv, SE!Born, SE!DistrictsOf
  <2>2. SE!NameOf(c[1]) \in City \cup Pinyin /\ <<c[1], SE!NameOf(c[1])>> \in used
    BY <2>1 DEF SeoInv, SE!Born, SE!NameOf, SE!Named
  <2> QED
    BY <2>1, <2>2 DEF KnownPlace, SE!Place
<1>3. todo \in SUBSET SE!Place /\ o \in BOOLEAN
  BY <1>2 DEF KnownPlace
<1>4. o <=> SE!Running # {}
  OBVIOUS
<1> HIDE DEF todo, o
<1>5. n \in SE!Job /\ n.pc = "walk" /\ n.todo = todo /\ n.overlapped = o
  BY <1>3 DEF SE!Job
<1> HIDE DEF n
<1>6. JobFits(n, pages, used)
  BY <1>2, <1>5 DEF JobFits, KnowsPage
<1>7. ASSUME NEW q \in Req
      PROVE  /\ Other(q) \in SE!Job \cup SE!RefusedJob \cup {SE!NoJob} /\ Other(q).pc = req[q].pc
             /\ q \in SE!Running => Other(q).overlapped = TRUE
             /\ JobFits(Other(q), pages, used)
  <2>1. JobFits(req[q], pages, used) /\ req[q] \in SE!Job \cup SE!RefusedJob \cup {SE!NoJob}
    BY DEF SeoInv
  <2> DEFINE g == [req[q] EXCEPT !.overlapped = TRUE]
  <2>2. ASSUME q \in SE!Running
        PROVE  /\ g \in SE!Job /\ g.pc = req[q].pc /\ g.at = req[q].at /\ g.seen = req[q].seen
               /\ g.todo = req[q].todo /\ g.overlapped = TRUE /\ g.pc \in {"walk", "save"}
    <3>1. req[q] \in SE!Job /\ req[q].pc \in {"walk", "save"}
      BY <2>1, <2>2, SeoKinds DEF SE!Running
    <3> QED
      BY <3>1 DEF SE!Job
  <2> HIDE DEF g
  <2>3. q \in SE!Running => JobFits(g, pages, used)
    BY <2>1, <2>2 DEF JobFits, KnowsPage
  <2>4. Other(q) = IF q \in SE!Running THEN g ELSE req[q]
    BY DEF g
  <2> HIDE DEF Other
  <2> QED
    BY <2>1, <2>2, <2>3, <2>4
<1> HIDE DEF Other
<1>8. \A q \in Req : req'[q] = IF q = r THEN n ELSE Other(q)
  BY <1>1
<1>9. req' \in [Req -> SE!Job \cup SE!RefusedJob \cup {SE!NoJob}]
  BY <1>1, <1>5, <1>7
<1>10. \A q \in Req : JobFits(req'[q], pages', used')
  BY <1>1, <1>6, <1>7, <1>8
<1>11. \A p, q \in Req : p # q /\ p \in SE!Running' /\ q \in SE!Running' => req'[p].overlapped
  <2> SUFFICES ASSUME NEW p \in Req, NEW q \in Req, p # q, p \in SE!Running', q \in SE!Running'
               PROVE  req'[p].overlapped
    OBVIOUS
  <2>1. \A y \in {p, q} : y # r => y \in SE!Running
    BY <1>7, <1>8 DEF SE!Running
  <2>2. p = r => o
    BY <1>4, <2>1
  <2> QED
    BY <1>5, <1>7, <1>8, <2>1, <2>2
<1>12. \A c \in SE!Born' : <<c, SE!NameOf(c)'>> \in used'
  BY <1>1 DEF SeoInv, SE!Born, SE!NameOf, SE!Named
<1> QED
  BY <1>1, <1>9, <1>10, <1>11, <1>12 DEF SeoInv

\* An editor writes: what has been shared or renamed stays so.
LEMMA SeoEdit == ASSUME SeoInv, SE!EditorStep PROVE SeoInv'
<1>1. UNCHANGED <<pages, req>> /\ used \subseteq used'
  BY DEF SE!EditorStep, SE!WriteCity, SE!CreateDistrict, SE!Edited
<1>2. \A t : KnownPlace(t, used) => KnownPlace(t, used')
  BY <1>1 DEF KnownPlace
<1>3. \A p \in pages' : KnownPage(p, used')
  BY <1>1, SeoStays DEF SeoInv, KnownPage
<1>4. \A r \in Req : JobFits(req'[r], pages', used')
  <2> SUFFICES ASSUME NEW r \in Req PROVE JobFits(req[r], pages, used')
    BY <1>1
  <2>1. JobFits(req[r], pages, used)
    BY DEF SeoInv
  <2>2. KnowsPage(req[r], pages, used')
    BY <1>1, <1>2, <2>1, SeoStays DEF JobFits, KnowsPage
  <2> QED
    BY <1>1, <1>2, <2>1, <2>2, SeoStays DEF JobFits
<1>5. /\ cities' \in [City -> Pinyin \cup {None, SE!Absent}] /\ districts' \subseteq SE!District
      /\ \A c \in SE!Born' : <<c, SE!NameOf(c)'>> \in used'
  <2>1. ASSUME NEW c \in City, NEW pinyin \in Pinyin \cup {None}, SE!WriteCity(c, pinyin) PROVE <1>5
    BY <2>1 DEF SE!WriteCity, SeoInv, SE!Born, SE!NameOf, SE!Named
  <2>2. ASSUME NEW d \in SE!District, SE!CreateDistrict(d) PROVE <1>5
    BY <2>2 DEF SE!CreateDistrict, SeoInv, SE!Born, SE!NameOf, SE!Named
  <2> QED
    BY <2>1, <2>2 DEF SE!EditorStep
<1>6. \A p, q \in Req : p # q /\ p \in SE!Running' /\ q \in SE!Running' => req'[p].overlapped
  BY <1>1 DEF SeoInv, SE!Running
<1> QED
  BY <1>1, <1>3, <1>4, <1>5, <1>6 DEF SeoInv

\* Every step keeps it, and so does a step of another part.
LEMMA SeoKept == ASSUME SE!SeoCatalogAssumption PROVE SeoInv /\ [SE!Next]_(SE!vars) => SeoInv'
<1>1. ASSUME SeoInv, SE!Next PROVE SeoInv'
  <2>1. ASSUME NEW r \in Req, SE!JobStep(r) PROVE SeoInv'
    BY <1>1, <2>1, SeoLook, SeoRewrite, SeoInsert, SeoConflict, SeoEnd, SeoStart DEF SE!JobStep
  <2> QED
    BY <1>1, <2>1, SeoEdit DEF SE!Next
<1>2. ASSUME SeoInv, UNCHANGED SE!vars PROVE SeoInv'
  BY <1>2 DEF SE!vars, SeoInv, SE!Born, SE!NameOf, SE!Named, SE!Running
<1> QED
  BY <1>1, <1>2

\* What a job has looked up is of its own place, unless cities have shared a name, and
\* what it has not found is not there, unless another job ran at the same time.
THEOREM SeoInvariant == ASSUME SE!SeoCatalogAssumption PROVE SE!Spec => []SeoInv
BY SeoInit, SeoKept, PTL DEF SE!Spec

\* The same where it is one of nine parts: the others leave its variables alone.
LEMMA SeoRun == Spec => [](part = "seo" => SeoInv)
<1>1. SE!SeoCatalogAssumption
  BY PartsAssumption DEF PartsAssumption
<1>2. Init => (part = "seo" => SeoInv)
  BY <1>1, SeoInit DEF Init
<1>3. ASSUME part = "seo" => SeoInv, [Next]_vars PROVE (part = "seo" => SeoInv)'
  <2>1. part' = part
    BY <1>3 DEF Next, OthersRest, vars
  <2>2. part = "seo" => [SE!Next]_(SE!vars)
    BY <1>3 DEF Next, vars, seoVars, SE!vars
  <2> QED
    BY <1>1, <1>3, <2>1, <2>2, SeoKept
<1> QED
  BY <1>2, <1>3, PTL DEF Spec

\* No row a page, a job or a district refers to goes away.
SeoRows ==
    /\ edits \in 0..MaxEdits
    /\ \A d \in districts : d.city \in SE!Born
    /\ \A p \in pages : p.of \in districts
    /\ \A r \in SE!Running : /\ \A t \in req[r].todo : t.of \in districts
                             /\ req[r].pc = "save" => req[r].at.of \in districts

\* Rows are only added, ...
LEMMA SeoRowsStay ==
    ASSUME SE!SeoCatalogAssumption, SeoInv, SeoRows, [SE!Next]_(SE!vars)
    PROVE  /\ edits' \in 0..MaxEdits
           /\ districts \subseteq districts' /\ \A d \in districts' : d.city \in SE!Born'
<1>1. ASSUME NEW c \in City, NEW pinyin \in Pinyin \cup {None}, SE!WriteCity(c, pinyin)
      PROVE  SE!Born \subseteq SE!Born' /\ districts' = districts /\ edits' = edits + 1 /\ edits < MaxEdits
  <2>1. cities' = [cities EXCEPT ![c] = pinyin] /\ pinyin # <<>>
    BY <1>1 DEF SE!WriteCity, SE!SeoCatalogAssumption
  <2> QED
    BY <1>1, <2>1 DEF SE!WriteCity, SE!Edited, SE!Born, SE!Absent, SeoInv
<1>2. ASSUME NEW d \in SE!District, SE!CreateDistrict(d)
      PROVE  /\ SE!Born' = SE!Born /\ districts' = districts \cup {d} /\ d.city \in SE!Born
             /\ edits' = edits + 1 /\ edits < MaxEdits
  BY <1>2 DEF SE!CreateDistrict, SE!Edited, SE!Born
<1>3. ASSUME NEW r \in Req, SE!JobStep(r) PROVE UNCHANGED <<cities, districts, edits>>
  BY <1>3 DEF SE!JobStep, SE!Start, SE!Look, SE!Rewrite, SE!Insert, SE!Conflict, SE!Skip, SE!End
<1>4. UNCHANGED <<cities, districts, edits>> => SE!Born' = SE!Born
  BY DEF SE!Born
<1>5. MaxEdits \in Nat
  BY DEF SE!SeoCatalogAssumption
<1>6. CASE SE!EditorStep
  BY <1>1, <1>2, <1>5, <1>6 DEF SE!EditorStep, SeoRows
<1>7. CASE UNCHANGED <<cities, districts, edits>>
  BY <1>4, <1>7 DEF SeoRows
<1> QED
  BY <1>3, <1>6, <1>7 DEF SE!Next, SE!vars

\* ... pages are of districts that are there, ...
LEMMA SeoPagesStay ==
    ASSUME SE!SeoCatalogAssumption, SeoInv, SeoRows, [SE!Next]_(SE!vars)
    PROVE  \A p \in pages' : p.of \in districts'
<1>1. districts \subseteq districts'
  BY SeoRowsStay
<1>2. ASSUME NEW r \in Req, SE!Rewrite(r) PROVE \A p \in pages' : \E g \in pages : p.of = g.of
  <2> DEFINE t == req[r].at
             New(p) == IF <<p.city, p.of>> = req[r].seen THEN [p EXCEPT !.about = <<t.city, t.of>>] ELSE p
  <2>1. pages' = {New(p) : p \in pages}
    BY <1>2 DEF SE!Rewrite
  <2>2. ASSUME NEW p \in pages PROVE New(p).of = p.of
    <3>1. p \in SE!Page
      BY DEF SeoInv, KnownPage
    <3> QED
      BY <3>1 DEF SE!Page
  <2> HIDE DEF New
  <2> QED
    BY <2>1, <2>2
<1>3. ASSUME NEW r \in Req, SE!Insert(r) PROVE \A p \in pages' : p \in pages \/ p.of = req[r].at.of
  BY <1>3 DEF SE!Insert
<1>4. ASSUME NEW r \in Req, SE!Insert(r) PROVE req[r].at.of \in districts
  BY <1>4 DEF SE!Insert, SeoRows, SE!Running
<1>5. SE!Next => pages' = pages \/ \E r \in Req : SE!Rewrite(r) \/ SE!Insert(r)
  BY DEF SE!Next, SE!EditorStep, SE!WriteCity, SE!CreateDistrict, SE!Edited, SE!JobStep, SE!Start, SE!Look,
     SE!Conflict, SE!Skip, SE!End
<1> QED
  BY <1>1, <1>2, <1>3, <1>4, <1>5 DEF SeoRows, SE!vars

\* ... and so are the places of the jobs.
LEMMA SeoJobsStay ==
    ASSUME SE!SeoCatalogAssumption, SeoInv, SeoRows, [SE!Next]_(SE!vars), NEW q \in Req, q \in SE!Running'
    PROVE  /\ \A t \in req'[q].todo : t.of \in districts'
           /\ req'[q].pc = "save" => req'[q].at.of \in districts'
<1> DEFINE Fits(j) == j.pc \in {"walk", "save"} => /\ \A t \in j.todo : t.of \in districts
                                                   /\ j.pc = "save" => j.at.of \in districts
<1>1. districts \subseteq districts' /\ Fits(req[q])
  BY SeoRowsStay DEF SeoRows, SE!Running
<1>2. req' \in [Req -> SE!Job \cup SE!RefusedJob \cup {SE!NoJob}] /\ req'[q].pc \in {"walk", "save"}
  <2>1. SeoInv'
    BY SeoKept
  <2> QED
    BY <2>1 DEF SeoInv, SE!Running
<1>3. ASSUME NEW r \in Req, NEW chosen, NEW force \in BOOLEAN, SE!Start(r, chosen, force) PROVE Fits(req'[q])
  <2> DEFINE todo == {[city |-> t[1], of |-> t[2], name |-> SE!NameOf(t[1])] : t \in chosen}
             n == [pc |-> "walk", force |-> force, at |-> None, seen |-> None, todo |-> todo,
                   overlapped |-> SE!Running # {}]
  <2>1. req' = [x \in Req |-> IF x = r THEN n
                              ELSE IF x \in SE!Running THEN [req[x] EXCEPT !.overlapped = TRUE] ELSE req[x]]
    BY <1>3 DEF SE!Start
  <2>2. \A t \in todo : t.of \in districts
    BY <1>3 DEF SE!Start, SE!DistrictsOf
  <2>3. n.pc = "walk" /\ n.todo = todo
    OBVIOUS
  <2> HIDE DEF todo
  <2>4. Fits(n)
    BY <2>2, <2>3
  <2>5. ASSUME q \in SE!Running PROVE Fits([req[q] EXCEPT !.overlapped = TRUE])
    <3>1. req[q] \in SE!Job
      BY <2>5, SeoKinds DEF SeoInv, SE!Running
    <3> QED
      BY <1>1, <3>1 DEF SE!Job
  <2> HIDE DEF n, Fits
  <2> QED
    BY <1>1, <2>1, <2>4, <2>5
<1>4. ASSUME NEW r \in Req, SE!Look(r) PROVE Fits(req'[q])
  <2>1. req[r].pc = "walk" /\ req[r] \in SE!Job /\ Fits(req[r])
    BY <1>4, SeoKinds DEF SE!Look, SeoInv, SeoRows, SE!Running
  <2>2. PICK t \in req[r].todo :
          \/ req' = [req EXCEPT ![r].todo = @ \ {t}]
          \/ \E p : req' = [req EXCEPT ![r].pc = "save", ![r].at = t, ![r].seen = p]
    BY <1>4 DEF SE!Look
  <2>3. Fits([req[r] EXCEPT !.todo = @ \ {t}])
    BY <2>1 DEF SE!Job
  <2>4. ASSUME NEW p PROVE Fits([req[r] EXCEPT !.pc = "save", !.at = t, !.seen = p])
    BY <2>1, <2>2 DEF SE!Job
  <2>5. PICK j : Fits(j) /\ req' = [req EXCEPT ![r] = j]
    <3>1. CASE req' = [req EXCEPT ![r].todo = @ \ {t}]
      BY <2>3, <3>1
    <3>2. ASSUME NEW p, req' = [req EXCEPT ![r].pc = "save", ![r].at = t, ![r].seen = p]
          PROVE  \E j : Fits(j) /\ req' = [req EXCEPT ![r] = j]
      <4> DEFINE j == [req[r] EXCEPT !.pc = "save", !.at = t, !.seen = p]
      <4>1. Fits(j)
        BY <2>4
      <4>2. req' = [req EXCEPT ![r] = j]
        BY <3>2
      <4> HIDE DEF Fits, j
      <4> QED
        BY <4>1, <4>2
    <3> QED
      BY <2>2, <3>1, <3>2
  <2> HIDE DEF Fits
  <2> QED
    BY <1>1, <2>5 DEF SeoInv
<1>5. ASSUME NEW r \in Req, req[r].pc = "save", SE!Passed(r) PROVE Fits(req'[q])
  <2> DEFINE j == [req[r] EXCEPT !.pc = "walk", !.todo = @ \ {req[r].at}, !.at = None, !.seen = None]
  <2>1. req[r] \in SE!Job /\ Fits(req[r])
    BY <1>5, SeoKinds DEF SeoInv, SeoRows, SE!Running
  <2>2. Fits(j)
    BY <1>5, <2>1 DEF SE!Job
  <2>3. req' = [req EXCEPT ![r] = j]
    BY <1>5 DEF SE!Passed
  <2> HIDE DEF Fits, j
  <2> QED
    BY <1>1, <2>2, <2>3 DEF SeoInv
<1>6. ASSUME NEW r \in Req, NEW j, j.pc \notin {"walk", "save"}, req' = [req EXCEPT ![r] = j] PROVE Fits(req'[q])
  BY <1>1, <1>6 DEF SeoInv
<1>7. ASSUME NEW r \in Req, SE!Conflict(r) PROVE Fits(req'[q])
  BY <1>6, <1>7 DEF SE!Conflict
<1>8. ASSUME NEW r \in Req, SE!End(r) PROVE Fits(req'[q])
  BY <1>6, <1>8 DEF SE!End, SE!NoJob
<1>9. ASSUME NEW r \in Req, SE!JobStep(r) PROVE Fits(req'[q])
  <2> HIDE DEF Fits
  <2> QED
    BY <1>3, <1>4, <1>5, <1>7, <1>8, <1>9 DEF SE!JobStep, SE!Rewrite, SE!Insert, SE!Skip
<1>10. SE!EditorStep \/ UNCHANGED SE!vars => req' = req
  BY DEF SE!EditorStep, SE!WriteCity, SE!CreateDistrict, SE!Edited, SE!vars
<1>11. Fits(req'[q])
  BY <1>1, <1>9, <1>10 DEF SE!Next
<1> QED
  BY <1>1, <1>2, <1>11

\* Together they are what the module says of its rows.
LEMMA SeoTypes == Spec => [](part = "seo" => SE!TypeOK)
<1>1. SE!SeoCatalogAssumption
  BY PartsAssumption DEF PartsAssumption
<1>2. Init => (part = "seo" => SeoRows)
  <2>1. SE!Init => SeoRows
    BY <1>1 DEF SE!Init, SeoRows, SE!SeoCatalogAssumption, SE!Running, SE!NoJob
  <2> QED
    BY <2>1 DEF Init
<1>3. ASSUME part = "seo" => SeoInv, part = "seo" => SeoRows, [Next]_vars PROVE (part = "seo" => SeoRows)'
  <2>1. part' = part
    BY <1>3 DEF Next, OthersRest, vars
  <2>2. part = "seo" => [SE!Next]_(SE!vars)
    BY <1>3 DEF Next, vars, seoVars, SE!vars
  <2>3. ASSUME SeoInv, SeoRows, [SE!Next]_(SE!vars) PROVE SeoRows'
    <3>1. /\ edits' \in 0..MaxEdits
          /\ \A d \in districts' : d.city \in SE!Born'
          /\ \A p \in pages' : p.of \in districts'
      BY <1>1, <2>3, SeoRowsStay, SeoPagesStay
    <3>2. \A q \in SE!Running' : /\ \A t \in req'[q].todo : t.of \in districts'
                                 /\ req'[q].pc = "save" => req'[q].at.of \in districts'
      <4>1. \A q \in SE!Running' : q \in Req
        BY DEF SE!Running
      <4> QED
        BY <1>1, <2>3, <4>1, SeoJobsStay
    <3> QED
      BY <3>1, <3>2 DEF SeoRows
  <2> QED
    BY <1>3, <2>1, <2>2, <2>3
<1>4. SeoInv /\ SeoRows => SE!TypeOK
  BY DEF SeoInv, SeoRows, SE!TypeOK, KnownPage
<1> QED
  BY <1>2, <1>3, <1>4, SeoRun, PTL DEF Spec

\* A page shows the text of its own city and district as long as no two cities have had
\* one name (tasks.py 65-110).
THEOREM PageAboutHolds == Spec => []PageAbout
<1>1. SeoInv => SE!PageAbout
  BY DEF SeoInv, KnownPage, SharedIn, SE!Shared, SE!PageAbout
<1>2. (part = "seo" => SeoInv) => PageAbout
  BY <1>1 DEF PageAbout
<1> QED
  BY <1>2, SeoRun, PTL

\* A job that is alone does not fail on a unique index, as long as every city keeps its name
\* and has it to itself.
THEOREM AloneSucceedsHolds == Spec => []AloneSucceeds
<1>1. SeoInv => SE!AloneSucceeds
  BY DEF SeoInv, JobFits, SharedIn, RenamedIn, SE!Shared, SE!Renamed, SE!AloneSucceeds
<1>2. (part = "seo" => SeoInv) => AloneSucceeds
  BY <1>1 DEF AloneSucceeds
<1> QED
  BY <1>2, SeoRun, PTL

----------------------------------------------------------------------------
(* Captcha.                                                                *)

Over == {"used", "absent"}

\* A handler past its SET works for a challenge that is over, and one that is alone
\* with its challenge is the first to get a token for it.
HandlerFits(h, ch, is, ov) ==
    /\ h.pc = "idle" <=> h.id = None
    /\ h.pc \in {"score", "store"} => ch[h.id] \in Over
    /\ h.pc # "idle" => is[h.id] = 0 \/ h.id \in ov

\* The tokens of t are among those that were issued.
Issued(t, is) == \A x \in t : x \in CA!Token /\ x[2] <= is[x[1]]

\* The inductive invariant.
CaptchaInv ==
    /\ CA!TypeOK
    /\ \A q \in Req : HandlerFits(req[q], challenge, issued, overlapped)
    /\ \A q, r \in Req : q # r /\ req[q].pc # "idle" /\ req[q].id = req[r].id => req[q].id \in overlapped
    /\ \A c \in Challenge : /\ issued[c] > 0 => challenge[c] \in Over
                            /\ issued[c] > 1 => c \in overlapped
    /\ Issued(tokens, issued) /\ Issued(ended, issued)

LEMMA CaptchaIdle ==
    ASSUME CA!CaptchaAssumption
    PROVE  /\ CA!Idle \in CA!Handler /\ CA!Idle.pc = "idle"
           /\ \A ch, is, ov : HandlerFits(CA!Idle, ch, is, ov)
<1>1. CA!Idle \in CA!Handler /\ CA!Idle.pc = "idle" /\ CA!Idle.id = None
  BY DEF CA!Idle, CA!Handler
<1> QED
  BY <1>1 DEF HandlerFits

\* Nothing was issued and nobody is at work.
LEMMA CaptchaInit == ASSUME CA!CaptchaAssumption, CA!Init PROVE CaptchaInv
<1>1. req = [q \in Req |-> CA!Idle] /\ MaxTokens \in Nat
  BY DEF CA!Init, CA!CaptchaAssumption
<1>2. \A q \in Req : req[q].pc = "idle" /\ HandlerFits(req[q], challenge, issued, overlapped)
  BY <1>1, CaptchaIdle
<1>3. CA!TypeOK
  BY <1>1, <1>2, CaptchaIdle DEF CA!Init, CA!TypeOK
<1> QED
  BY <1>2, <1>3 DEF CA!Init, CaptchaInv, Issued

\* A handler goes on, for the same challenge, or ends.
LEMMA CaptchaGoto ==
    ASSUME CaptchaInv, NEW q \in Req, NEW h \in CA!Handler, CA!Goto(q, h), req[q].pc # "idle",
           h.id \in {req[q].id, None}, HandlerFits(h, challenge, issued, overlapped),
           UNCHANGED <<challenge, tokens, issued, ended, unsaved, overlapped>>
    PROVE  CaptchaInv'
<1>1. req'[q] = h /\ \A r \in Req : r # q => req'[r] = req[r]
  BY DEF CA!Goto, CaptchaInv, CA!TypeOK
<1>2. req' \in [Req -> CA!Handler]
  BY DEF CA!Goto, CaptchaInv, CA!TypeOK
<1>3. h.pc # "idle" => h.id = req[q].id
  BY DEF HandlerFits
<1>4. \A r \in Req : HandlerFits(req'[r], challenge', issued', overlapped')
  BY <1>1 DEF CaptchaInv
<1>5. \A x, y \in Req : x # y /\ req'[x].pc # "idle" /\ req'[x].id = req'[y].id => req'[x].id \in overlapped'
  <2> SUFFICES ASSUME NEW x \in Req, NEW y \in Req, x # y, req'[x].pc # "idle", req'[x].id = req'[y].id
               PROVE  req'[x].id \in overlapped
    OBVIOUS
  <2>1. req'[y].pc # "idle"
    BY <1>4 DEF HandlerFits
  <2>2. \A z \in {x, y} : req[z].pc # "idle" /\ req[z].id = req'[z].id
    BY <1>1, <1>3, <2>1
  <2> QED
    BY <2>2 DEF CaptchaInv
<1>6. \A x \in Req : req'[x].pc \in {"score", "store"} => challenge'[req'[x].id] \in {"used", "absent"}
  BY <1>4 DEF HandlerFits, Over
<1> QED
  BY <1>2, <1>4, <1>5, <1>6 DEF CaptchaInv, CA!TypeOK

\* Challenges that go on in one way: what is over stays over.
LEMMA CaptchaChallenge ==
    ASSUME CaptchaInv, challenge' \in [Challenge -> {"new", "fresh", "used", "absent"}],
           \A c \in Challenge : challenge[c] \in Over => challenge'[c] \in Over,
           UNCHANGED <<tokens, issued, ended, unsaved, req, overlapped>>
    PROVE  CaptchaInv'
<1>1. \A r \in Req : HandlerFits(req[r], challenge', issued, overlapped)
  <2> SUFFICES ASSUME NEW r \in Req PROVE HandlerFits(req[r], challenge', issued, overlapped)
    OBVIOUS
  <2>1. req[r] \in CA!Handler /\ HandlerFits(req[r], challenge, issued, overlapped)
    BY DEF CaptchaInv, CA!TypeOK
  <2>2. req[r].pc # "idle" => req[r].id \in Challenge
    BY <2>1 DEF HandlerFits, CA!Handler
  <2> QED
    BY <2>1, <2>2 DEF HandlerFits
<1>2. CA!TypeOK'
  BY <1>1 DEF CaptchaInv, CA!TypeOK, HandlerFits, Over
<1> QED
  BY <1>1, <1>2 DEF CaptchaInv

LEMMA CaptchaFetch ==
    ASSUME CaptchaInv, CA!CaptchaAssumption, NEW q \in Req, NEW c \in Challenge, CA!Fetch(q, c)
    PROVE  CaptchaInv'
<1> DEFINE h == [CA!Idle EXCEPT !.pc = "consume", !.id = c]
<1>1. /\ req[q].pc = "idle" /\ challenge[c] = "fresh" /\ req' = [req EXCEPT ![q] = h]
      /\ overlapped' = IF \E r \in Req : req[r].id = c THEN overlapped \cup {c} ELSE overlapped
      /\ UNCHANGED <<challenge, tokens, issued, ended, unsaved>>
  BY DEF CA!Fetch, CA!Goto
<1>2. h \in CA!Handler /\ h.pc = "consume" /\ h.id = c /\ c # None
  BY CaptchaIdle DEF CA!Handler, CA!CaptchaAssumption
<1> HIDE DEF h
<1>3. /\ req'[q] = h /\ \A r \in Req : r # q => req'[r] = req[r]
      /\ req' \in [Req -> CA!Handler] /\ overlapped \subseteq overlapped' /\ overlapped' \subseteq Challenge
      /\ (\E r \in Req : req[r].id = c) => c \in overlapped'
  BY <1>1, <1>2 DEF CaptchaInv, CA!TypeOK
<1>4. issued[c] = 0
  BY <1>1 DEF CaptchaInv, CA!TypeOK, Over
<1>5. \A r \in Req : HandlerFits(req'[r], challenge, issued, overlapped')
  BY <1>2, <1>3, <1>4 DEF CaptchaInv, HandlerFits
<1>6. \A x, y \in Req : x # y /\ req'[x].pc # "idle" /\ req'[x].id = req'[y].id => req'[x].id \in overlapped'
  BY <1>2, <1>3 DEF CaptchaInv
<1>7. CA!TypeOK'
  BY <1>1, <1>3, <1>5 DEF CaptchaInv, CA!TypeOK, HandlerFits, Over
<1> QED
  BY <1>1, <1>3, <1>5, <1>6, <1>7 DEF CaptchaInv

\* The SET, after which the challenge is over, even if the client has gone.
LEMMA CaptchaConsumeSet ==
    ASSUME CaptchaInv, CA!CaptchaAssumption, NEW q \in Req, CA!ConsumeSet(q)
    PROVE  CaptchaInv'
<1> DEFINE x == req[q]
           g == [x EXCEPT !.pc = "score"]
<1>1. /\ x.pc = "mark" /\ (CA!Goto(q, g) \/ CA!Goto(q, CA!Idle))
      /\ challenge' = [challenge EXCEPT ![x.id] = "used"]
      /\ UNCHANGED <<tokens, issued, ended, unsaved, overlapped>>
  BY DEF CA!ConsumeSet, CA!Marked
<1>2. x \in CA!Handler /\ x.id \in Challenge /\ HandlerFits(x, challenge, issued, overlapped)
  BY <1>1 DEF CaptchaInv, CA!TypeOK, CA!Handler, HandlerFits
<1>3. g \in CA!Handler /\ g.pc = "score" /\ g.id = x.id
  BY <1>2 DEF CA!Handler
<1> HIDE DEF g
<1>4. /\ challenge' \in [Challenge -> {"new", "fresh", "used", "absent"}] /\ challenge'[x.id] = "used"
      /\ \A c \in Challenge : challenge[c] \in Over => challenge'[c] \in Over
  BY <1>1, <1>2 DEF CaptchaInv, CA!TypeOK, Over
<1>5. PICK h \in {g, CA!Idle} : req' = [req EXCEPT ![q] = h]
  BY <1>1 DEF CA!Goto
<1>6. h \in CA!Handler /\ HandlerFits(h, challenge', issued, overlapped) /\ (h.pc # "idle" => h.id = x.id)
  BY <1>1, <1>2, <1>3, <1>4, CaptchaIdle DEF HandlerFits, Over
<1>7. /\ req'[q] = h /\ \A r \in Req : r # q => req'[r] = req[r]
      /\ req' \in [Req -> CA!Handler]
  BY <1>5, <1>6 DEF CaptchaInv, CA!TypeOK
<1>8. \A r \in Req : HandlerFits(req'[r], challenge', issued, overlapped)
  <2> SUFFICES ASSUME NEW r \in Req, r # q PROVE HandlerFits(req[r], challenge', issued, overlapped)
    BY <1>6, <1>7
  <2>1. req[r] \in CA!Handler /\ HandlerFits(req[r], challenge, issued, overlapped)
    BY DEF CaptchaInv, CA!TypeOK
  <2>2. req[r].pc # "idle" => req[r].id \in Challenge
    BY <2>1 DEF HandlerFits, CA!Handler
  <2> QED
    BY <1>4, <2>1, <2>2 DEF HandlerFits
<1>9. \A y, z \in Req : y # z /\ req'[y].pc # "idle" /\ req'[y].id = req'[z].id => req'[y].id \in overlapped
  <2> SUFFICES ASSUME NEW y \in Req, NEW z \in Req, y # z, req'[y].pc # "idle", req'[y].id = req'[z].id
               PROVE  req'[y].id \in overlapped
    OBVIOUS
  <2>1. req'[z].pc # "idle"
    BY <1>8 DEF HandlerFits
  <2>2. \A w \in {y, z} : req[w].pc # "idle" /\ req[w].id = req'[w].id
    BY <1>1, <1>6, <1>7, <2>1
  <2> QED
    BY <2>2 DEF CaptchaInv
<1>10. CA!TypeOK'
  BY <1>1, <1>4, <1>7, <1>8 DEF CaptchaInv, CA!TypeOK, HandlerFits, Over
<1> QED
  BY <1>1, <1>4, <1>8, <1>9, <1>10 DEF CaptchaInv

\* A token is stored, or lost: the second for a challenge only if verifications overlapped.
LEMMA CaptchaStore == ASSUME CaptchaInv, CA!CaptchaAssumption, NEW q \in Req, CA!StoreToken(q) PROVE CaptchaInv'
<1> DEFINE c == req[q].id
           t == <<c, issued[c] + 1>>
<1>1. /\ req[q].pc = "store" /\ issued[c] < MaxTokens /\ issued' = [issued EXCEPT ![c] = @ + 1]
      /\ req' = [req EXCEPT ![q] = CA!Idle] /\ UNCHANGED <<challenge, ended, overlapped>>
  BY DEF CA!StoreToken, CA!Goto
<1>2. /\ req[q] \in CA!Handler /\ c \in Challenge /\ challenge[c] \in Over
      /\ issued[c] = 0 \/ c \in overlapped
  BY <1>1 DEF CaptchaInv, CA!TypeOK, CA!Handler, HandlerFits
<1>3. /\ issued \in [Challenge -> 0..MaxTokens] /\ MaxTokens \in Nat
      /\ issued' \in [Challenge -> 0..MaxTokens] /\ issued'[c] = issued[c] + 1
      /\ \A d \in Challenge : d # c => issued'[d] = issued[d]
  BY <1>1, <1>2 DEF CaptchaInv, CA!TypeOK, CA!CaptchaAssumption
<1>4. /\ tokens' \in {tokens, tokens \cup {t}} /\ unsaved' \in {unsaved, unsaved \cup {t}}
  BY <1>2, <1>3 DEF CA!StoreToken
<1>5. t \in CA!Token /\ t \notin ended
  <2>1. t \in CA!Token
    BY <1>1, <1>2, <1>3 DEF CA!Token
  <2>2. t \in ended => issued[c] + 1 <= issued[c]
    BY DEF CaptchaInv, Issued
  <2> QED
    BY <1>2, <1>3, <2>1, <2>2
<1>6. Issued(tokens', issued') /\ Issued(ended', issued')
  <2>1. \A x \in tokens \cup ended : x \in CA!Token /\ x[2] <= issued'[x[1]]
    BY <1>3 DEF CaptchaInv, Issued, CA!Token
  <2>2. t \in CA!Token /\ t[2] <= issued'[t[1]]
    BY <1>3, <1>5 DEF CA!Token
  <2> HIDE DEF t
  <2> QED
    BY <1>1, <1>4, <2>1, <2>2 DEF Issued
<1> HIDE DEF t
<1>7. /\ req'[q] = CA!Idle /\ \A r \in Req : r # q => req'[r] = req[r]
      /\ req' \in [Req -> CA!Handler]
  BY <1>1, CaptchaIdle DEF CaptchaInv, CA!TypeOK
<1>8. \A r \in Req : HandlerFits(req'[r], challenge, issued', overlapped)
  <2> SUFFICES ASSUME NEW r \in Req, r # q PROVE HandlerFits(req[r], challenge, issued', overlapped)
    BY <1>7, CaptchaIdle
  <2>1. req[r] \in CA!Handler /\ HandlerFits(req[r], challenge, issued, overlapped)
    BY DEF CaptchaInv, CA!TypeOK
  <2>2. req[r].pc # "idle" => req[r].id \in Challenge
    BY <2>1 DEF HandlerFits, CA!Handler
  <2>3. req[r].pc # "idle" /\ req[r].id = c => c \in overlapped
    BY DEF CaptchaInv
  <2> QED
    BY <1>3, <2>1, <2>2, <2>3 DEF HandlerFits
<1>9. \A y, z \in Req : y # z /\ req'[y].pc # "idle" /\ req'[y].id = req'[z].id => req'[y].id \in overlapped
  <2>1. \A y \in Req : req'[y].pc # "idle" => y # q
    BY <1>7, CaptchaIdle
  <2>2. \A y \in Req : req'[y].id # None => req'[y].pc # "idle"
    BY <1>8 DEF HandlerFits
  <2>3. \A y \in Req : req'[y].pc # "idle" => req'[y].id # None
    BY <1>8 DEF HandlerFits
  <2> QED
    BY <1>7, <2>1, <2>2, <2>3 DEF CaptchaInv
<1>10. CA!TypeOK'
  BY <1>1, <1>3, <1>4, <1>5, <1>7, <1>8 DEF CaptchaInv, CA!TypeOK, HandlerFits, Over
<1>11. \A d \in Challenge : /\ issued'[d] > 0 => challenge[d] \in Over
                            /\ issued'[d] > 1 => d \in overlapped
  BY <1>2, <1>3 DEF CaptchaInv
<1> QED
  BY <1>1, <1>6, <1>8, <1>9, <1>10, <1>11 DEF CaptchaInv

LEMMA CaptchaWork ==
    ASSUME CaptchaInv, CA!CaptchaAssumption, NEW q \in Req,
           \/ CA!ConsumeGet(q) \/ CA!Fail(q)
           \/ \E tr \in Tracks, d \in Durations : CA!Score(q, tr, d)
    PROVE  CaptchaInv'
<1> DEFINE x == req[q]
<1>1. x \in CA!Handler /\ HandlerFits(x, challenge, issued, overlapped)
  BY DEF CaptchaInv, CA!TypeOK
<1>2. /\ x.pc \in {"consume", "score"} \/ CA!Goto(q, CA!Idle)
      /\ x.pc # "idle" /\ UNCHANGED <<challenge, tokens, issued, ended, unsaved, overlapped>>
  BY DEF CA!ConsumeGet, CA!Score, CA!Fail
<1>3. CA!Goto(q, CA!Idle) => CaptchaInv'
  <2>1. CA!Idle.id = None
    BY DEF CA!Idle
  <2> QED
    BY <1>2, <2>1, CaptchaIdle, CaptchaGoto
<1>4. ASSUME CA!ConsumeGet(q) PROVE CaptchaInv'
  <2> DEFINE h == [x EXCEPT !.pc = "mark"]
  <2>1. CA!Goto(q, h) \/ CA!Goto(q, CA!Idle)
    BY <1>4 DEF CA!ConsumeGet
  <2>2. h \in CA!Handler /\ h.pc = "mark" /\ h.id = x.id
    BY <1>1 DEF CA!Handler
  <2> HIDE DEF h
  <2>3. HandlerFits(h, challenge, issued, overlapped)
    BY <1>1, <1>2, <2>2 DEF HandlerFits
  <2> QED
    BY <1>2, <1>3, <2>1, <2>2, <2>3, CaptchaGoto
<1>5. ASSUME NEW tr \in Tracks, NEW d \in Durations, CA!Score(q, tr, d) PROVE CaptchaInv'
  <2> DEFINE h == [x EXCEPT !.pc = "store", !.track = tr, !.duration = d]
  <2>1. x.pc = "score" /\ (CA!Goto(q, h) \/ CA!Goto(q, CA!Idle))
    BY <1>5 DEF CA!Score
  <2>2. h \in CA!Handler /\ h.pc = "store" /\ h.id = x.id
    BY <1>1 DEF CA!Handler
  <2> HIDE DEF h
  <2>3. HandlerFits(h, challenge, issued, overlapped)
    BY <1>1, <2>1, <2>2 DEF HandlerFits
  <2> QED
    BY <1>2, <1>3, <2>1, <2>2, <2>3, CaptchaGoto
<1> QED
  BY <1>3, <1>4, <1>5 DEF CA!Fail

\* Tokens end, and end once.
LEMMA CaptchaExpireToken == ASSUME CaptchaInv, NEW t \in tokens, CA!ExpireToken(t) PROVE CaptchaInv'
<1>1. /\ tokens' = tokens \ {t} /\ ended' = ended \cup {t}
      /\ UNCHANGED <<challenge, issued, unsaved, req, overlapped>>
  BY DEF CA!ExpireToken
<1>2. CA!TypeOK'
  BY <1>1 DEF CaptchaInv, CA!TypeOK
<1>3. Issued(tokens', issued') /\ Issued(ended', issued')
  BY <1>1 DEF CaptchaInv, Issued
<1> QED
  BY <1>1, <1>2, <1>3 DEF CaptchaInv

\* Every step keeps it, and so does a step of another part.
LEMMA CaptchaKept == ASSUME CA!CaptchaAssumption PROVE CaptchaInv /\ [CA!Next]_(CA!vars) => CaptchaInv'
<1>1. ASSUME CaptchaInv, CA!Next PROVE CaptchaInv'
  <2>1. ASSUME NEW c \in Challenge, CA!CreateChallenge(c) \/ CA!ExpireChallenge(c) PROVE CaptchaInv'
    <3>1. /\ challenge' \in [Challenge -> {"new", "fresh", "used", "absent"}]
          /\ \A d \in Challenge : challenge[d] \in Over => challenge'[d] \in Over
          /\ UNCHANGED <<tokens, issued, ended, unsaved, req, overlapped>>
      BY <1>1, <2>1 DEF CA!CreateChallenge, CA!ExpireChallenge, CaptchaInv, CA!TypeOK, Over
    <3> QED
      BY <1>1, <3>1, CaptchaChallenge
  <2> QED
    BY <1>1, <2>1, CaptchaFetch, CaptchaWork, CaptchaConsumeSet, CaptchaStore, CaptchaExpireToken DEF CA!Next
<1>2. ASSUME CaptchaInv, UNCHANGED CA!vars PROVE CaptchaInv'
  BY <1>2 DEF CA!vars, CaptchaInv, CA!TypeOK
<1> QED
  BY <1>1, <1>2

\* A token is for a challenge that is over, and a challenge has two tokens only if
\* verifications of it overlapped.
THEOREM CaptchaInvariant == ASSUME CA!CaptchaAssumption PROVE CA!Spec => []CaptchaInv
BY CaptchaInit, CaptchaKept, PTL DEF CA!Spec

\* The same where it is one of nine parts: the others leave its variables alone.
LEMMA CaptchaRun == Spec => [](part = "captcha" => CaptchaInv)
<1>1. CA!CaptchaAssumption
  BY PartsAssumption DEF PartsAssumption
<1>2. Init => (part = "captcha" => CaptchaInv)
  BY <1>1, CaptchaInit DEF Init
<1>3. ASSUME part = "captcha" => CaptchaInv, [Next]_vars PROVE (part = "captcha" => CaptchaInv)'
  <2>1. part' = part
    BY <1>3 DEF Next, OthersRest, vars
  <2>2. part = "captcha" => [CA!Next]_(CA!vars)
    BY <1>3 DEF Next, vars, captchaVars, CA!vars
  <2> QED
    BY <1>1, <1>3, <2>1, <2>2, CaptchaKept
<1> QED
  BY <1>2, <1>3, PTL DEF Spec

\* A challenge is good for one token at most unless two verifications of it overlap, and a
\* token vouches for a challenge that can no longer be answered (consume_challenge).
THEOREM TokensSoundHolds == Spec => []TokensSound
<1>0. CA!CaptchaAssumption
  BY PartsAssumption DEF PartsAssumption
<1> USE <1>0
<1>1. CaptchaInv => CA!TokensSound
  <2> SUFFICES ASSUME CaptchaInv PROVE CA!TokensSound
    OBVIOUS
  <2>1. issued \in [Challenge -> 0..MaxTokens] /\ MaxTokens \in Nat
    BY DEF CaptchaInv, CA!TypeOK, CA!CaptchaAssumption
  <2>2. \A c \in Challenge \ overlapped : issued[c] <= 1
    BY <2>1 DEF CaptchaInv
  <2>3. ASSUME NEW t \in CA!Token, t \in tokens PROVE challenge[t[1]] \in {"used", "absent"}
    <3>1. t[1] \in Challenge /\ t[2] \in Nat /\ t[2] > 0 /\ t[2] <= issued[t[1]]
      BY <2>1, <2>3 DEF CaptchaInv, Issued, CA!Token
    <3> QED
      BY <2>1, <3>1 DEF CaptchaInv, Over
  <2> QED
    BY <2>2, <2>3 DEF CA!TokensSound, CA!Vouched
<1>2. (part = "captcha" => CaptchaInv) => TokensSound
  BY <1>1 DEF TokensSound
<1> QED
  BY <1>2, CaptchaRun, PTL

----------------------------------------------------------------------------
(* The captcha's score: what a recursive clean-up keeps, and who passes.   *)
\* A point of a gesture's trace
Point == [t : Int, x : Int, y : Int]

\* A set of natural numbers that is not empty has a least one.
LEMMA LeastIn == ASSUME NEW S \in SUBSET Nat, S # {} PROVE \E m \in S : \A k \in S : m <= k
<1> DEFINE R == OpToRel(<, Nat)
<1>1. IsWellFoundedOn(R, Nat)
  BY NatLessThanWellFounded
<1> HIDE DEF R
<1>2. PICK m \in S : \A k \in S : <<k, m>> \notin R
  BY <1>1, WFMin
<1>3. \A k \in S : ~ k < m
  BY <1>2 DEF R, OpToRel
<1> QED
  BY <1>3

\* Induction, with a set for what holds.
LEMMA AllNumbers == ASSUME NEW T, 0 \in T, \A n \in Nat : n \in T => n + 1 \in T PROVE Nat \subseteq T
<1> DEFINE S == Nat \ T
<1> SUFFICES ASSUME S # {} PROVE FALSE
  OBVIOUS
<1>1. PICK m \in S : \A k \in S : m <= k
  BY LeastIn
<1>2. m \in Nat /\ m # 0 /\ m - 1 \in Nat /\ m - 1 \notin S
  BY <1>1
<1>3. (m - 1) + 1 \in T
  BY <1>2
<1> QED
  BY <1>1, <1>2, <1>3

\* One step of Kept.
Taken(tr, keep, f, i) ==
    IF i = 0 THEN << >> ELSE IF i \in keep THEN Append(f[i - 1], tr[i]) ELSE f[i - 1]

\* Kept's recursive function exists.
LEMMA TakeExists == ASSUME NEW tr, NEW keep, NEW n \in Nat PROVE \E f : f = [i \in 0..n |-> Taken(tr, keep, f, i)]
<1> DEFINE T == {k \in Nat : \E f : f = [i \in 0..k |-> Taken(tr, keep, f, i)]}
<1>1. 0 \in T
  <2> DEFINE f == [i \in 0..0 |-> << >>]
  <2>1. f = [i \in 0..0 |-> Taken(tr, keep, f, i)]
    BY DEF Taken
  <2> QED
    BY <2>1
<1>2. ASSUME NEW k \in Nat, k \in T PROVE k + 1 \in T
  <2>1. PICK f : f = [i \in 0..k |-> Taken(tr, keep, f, i)]
    BY <1>2
  <2> DEFINE g == [i \in 0..(k + 1) |-> IF i = k + 1 THEN Taken(tr, keep, f, i) ELSE f[i]]
  <2>2. \A i \in 0..k : g[i] = f[i] /\ f[i] = Taken(tr, keep, f, i)
    BY <2>1
  <2>3. ASSUME NEW i \in 0..(k + 1) PROVE g[i] = Taken(tr, keep, g, i)
    <3>1. Taken(tr, keep, f, i) = Taken(tr, keep, g, i)
      BY <2>2 DEF Taken
    <3> QED
      BY <2>2, <3>1
  <2>4. g = [i \in 0..(k + 1) |-> Taken(tr, keep, g, i)]
    BY <2>3
  <2> HIDE DEF g
  <2> QED
    BY <2>4
<1> HIDE DEF T
<1>3. n \in T
  BY <1>1, <1>2, AllNumbers
<1> QED
  BY <1>3 DEF T

\* Kept is the last value of a function that takes the points one by one.
LEMMA KeptTakes ==
    ASSUME NEW tr, Len(tr) \in Nat, NEW keep
    PROVE  \E f : /\ f = [i \in 0..Len(tr) |-> Taken(tr, keep, f, i)]
                  /\ CA!Kept(tr, keep) = f[Len(tr)]
<1> DEFINE F == CHOOSE f : f = [i \in 0..Len(tr) |-> Taken(tr, keep, f, i)]
<1>1. F = [i \in 0..Len(tr) |-> Taken(tr, keep, F, i)]
  BY TakeExists
<1>2. CA!Kept(tr, keep) = F[Len(tr)]
  BY Zenon DEF CA!Kept, Taken
<1> QED
  BY <1>1, <1>2

\* e lists the numbers up to n that are in keep, in order; there are m of them.
Picks(e, m, n, keep) ==
    /\ e \in [1..m -> 1..n]
    /\ \A i, j \in 1..m : i < j => e[i] < e[j]
    /\ \A i \in 1..n : i \in keep <=> \E k \in 1..m : e[k] = i

\* Kept lists the points whose numbers are kept, in order.
LEMMA KeptPicks ==
    ASSUME NEW tr \in Seq(Point), NEW keep
    PROVE  \E m, e : /\ m \in Nat /\ Picks(e, m, Len(tr), keep)
                      /\ CA!Kept(tr, keep) = [k \in 1..m |-> tr[e[k]]]
<1> DEFINE L == Len(tr)
<1>1. L \in Nat /\ \A i \in 1..L : tr[i] \in Point
  OBVIOUS
<1>2. PICK f : f = [i \in 0..L |-> Taken(tr, keep, f, i)] /\ CA!Kept(tr, keep) = f[L]
  BY <1>1, KeptTakes
<1> HIDE DEF L
<1> DEFINE Fits(n) == \E m, e : m \in Nat /\ Picks(e, m, n, keep) /\ f[n] = [k \in 1..m |-> tr[e[k]]]
           T == {n \in Nat : n <= L => Fits(n)}
<1>3. \A i \in 0..L : f[i] = Taken(tr, keep, f, i)
  BY <1>2
<1>4. 0 \in T
  <2>1. f[0] = << >>
    BY <1>1, <1>3 DEF Taken
  <2> DEFINE e == [k \in 1..0 |-> 1]
  <2>2. Picks(e, 0, 0, keep)
    BY DEF Picks
  <2> HIDE DEF e
  <2>3. f[0] = [k \in 1..0 |-> tr[e[k]]]
    BY <2>1
  <2>4. Fits(0)
    BY <2>2, <2>3
  <2> HIDE DEF Fits
  <2> QED
    BY <2>4
<1>5. ASSUME NEW n \in Nat, n \in T PROVE n + 1 \in T
  <2> HIDE DEF Fits
  <2> SUFFICES ASSUME n + 1 <= L PROVE Fits(n + 1)
    OBVIOUS
  <2>0. Fits(n)
    BY <1>1, <1>5
  <2> USE DEF Fits
  <2>1. PICK m, e : m \in Nat /\ Picks(e, m, n, keep) /\ f[n] = [k \in 1..m |-> tr[e[k]]]
    BY <2>0
  <2> m \in Nat
    BY <2>1
  <2>2. f[n + 1] = IF n + 1 \in keep THEN Append(f[n], tr[n + 1]) ELSE f[n]
    BY <1>1, <1>3 DEF Taken
  <2>3. CASE n + 1 \notin keep
    <3>1. e \in [1..m -> 1..(n + 1)] /\ \A i, j \in 1..m : i < j => e[i] < e[j]
      BY <2>1 DEF Picks
    <3>2. \A i \in 1..(n + 1) : i \in keep <=> \E k \in 1..m : e[k] = i
      <4>1. \A i \in 1..n : i \in keep <=> \E k \in 1..m : e[k] = i
        BY <2>1 DEF Picks
      <4>2. \A k \in 1..m : e[k] \in 1..n
        BY <2>1 DEF Picks
      <4> QED
        BY <2>3, <4>1, <4>2
    <3>3. Picks(e, m, n + 1, keep)
      BY <3>1, <3>2 DEF Picks
    <3> QED
      BY <2>1, <2>2, <2>3, <3>3
  <2>4. CASE n + 1 \in keep
    <3> DEFINE d == [k \in 1..(m + 1) |-> IF k = m + 1 THEN n + 1 ELSE e[k]]
    <3>1. Picks(d, m + 1, n + 1, keep)
      <4>1. /\ \A k \in 1..m : e[k] \in 1..n
            /\ \A i, j \in 1..m : i < j => e[i] < e[j]
            /\ \A i \in 1..n : i \in keep <=> \E k \in 1..m : e[k] = i
        BY <2>1 DEF Picks
      <4>2. d \in [1..(m + 1) -> 1..(n + 1)] /\ \A i, j \in 1..(m + 1) : i < j => d[i] < d[j]
        BY <4>1
      <4>3. ASSUME NEW i \in 1..(n + 1) PROVE i \in keep <=> \E k \in 1..(m + 1) : d[k] = i
        <5>1. CASE i = n + 1
          <6>1. d[m + 1] = i /\ m + 1 \in 1..(m + 1)
            BY <5>1
          <6> QED
            BY <2>4, <5>1, <6>1
        <5>2. CASE i # n + 1
          <6>1. i \in 1..n /\ d[m + 1] # i
            BY <5>2
          <6>2. \A k \in 1..m : d[k] = e[k] /\ k \in 1..(m + 1)
            OBVIOUS
          <6>3. \A k \in 1..(m + 1) : k # m + 1 => k \in 1..m
            OBVIOUS
          <6> HIDE DEF d
          <6> QED
            BY <4>1, <6>1, <6>2, <6>3
        <5> QED
          BY <5>1, <5>2
      <4> HIDE DEF d
      <4> QED
        BY <4>2, <4>3 DEF Picks
    <3>2. \A k \in 1..m : tr[e[k]] \in Point
      BY <1>1, <2>1 DEF Picks
    <3>3. f[n] \in Seq(Point) /\ Len(f[n]) = m
      BY <2>1, <3>2
    <3>4. Append(f[n], tr[n + 1]) = [k \in 1..(m + 1) |-> IF k = m + 1 THEN tr[n + 1] ELSE f[n][k]]
      BY <1>1, <3>3
    <3>5. Append(f[n], tr[n + 1]) = [k \in 1..(m + 1) |-> tr[d[k]]]
      BY <2>1, <3>4
    <3> QED
      BY <2>2, <2>4, <3>1, <3>5
  <2> QED
    BY <2>3, <2>4
<1> HIDE DEF T
<1>6. L \in T
  BY <1>1, <1>4, <1>5, AllNumbers
<1> QED
  BY <1>2, <1>6 DEF T, L

\* The points that are not a repetition of the one before
Fresh(tr) == {i \in 1..Len(tr) : i = 1 \/ tr[i] # tr[i - 1]}

\* A track that never steps back does not do so when it is cleaned up.
LEMMA CleanStepsOn ==
    ASSUME NEW tr \in Seq(Point), \A i, j \in 1..Len(tr) : i < j => tr[i].x <= tr[j].x
    PROVE  /\ Len(CA!Preprocess(tr)) \in Nat
           /\ \A i \in CA!Steps(CA!Preprocess(tr)) : ~ CA!DX(CA!Preprocess(tr), i) < 0
<1> DEFINE dd == CA!Deduplicate(tr)
           cl == CA!Preprocess(tr)
<1>1. PICK m, e : m \in Nat /\ Picks(e, m, Len(tr), Fresh(tr)) /\ dd = [k \in 1..m |-> tr[e[k]]]
  BY KeptPicks DEF CA!Deduplicate, Fresh
<1> m \in Nat
  BY <1>1
<1>2. \A i \in 1..Len(tr) : tr[i] \in Point
  OBVIOUS
<1>3. dd \in Seq(Point) /\ Len(dd) = m
  <2>1. \A k \in 1..m : e[k] \in 1..Len(tr)
    BY <1>1 DEF Picks
  <2>2. \A k \in 1..m : tr[e[k]] \in Point
    BY <1>2, <2>1
  <2> HIDE DEF dd
  <2> QED
    BY <1>1, <2>2
<1> HIDE DEF dd
<1>4. cl = [k \in 1..m |-> [dd[k] EXCEPT !.t = @ - dd[1].t]]
  BY <1>3, Zenon DEF CA!Preprocess, CA!NormaliseTimestamps, dd
<1>5. \A k \in 1..m : cl[k].x = tr[e[k]].x
  <2>1. \A k \in 1..m : dd[k] \in Point /\ dd[1] \in Point /\ dd[k] = tr[e[k]]
    BY <1>1, <1>3
  <2>2. \A p \in Point, q \in Point : [p EXCEPT !.t = p.t - q.t].x = p.x
    BY DEF Point
  <2>3. \A k \in 1..m : cl[k] = [dd[k] EXCEPT !.t = dd[k].t - dd[1].t]
    BY <1>4, Zenon
  <2> HIDE DEF cl
  <2>4. ASSUME NEW k \in 1..m PROVE cl[k].x = tr[e[k]].x
    <3>1. dd[k] \in Point /\ dd[1] \in Point /\ dd[k] = tr[e[k]]
      BY <2>1
    <3>2. [dd[k] EXCEPT !.t = dd[k].t - dd[1].t].x = dd[k].x
      BY <2>2, <3>1, Zenon
    <3>3. cl[k] = [dd[k] EXCEPT !.t = dd[k].t - dd[1].t]
      BY <2>3
    <3> QED
      BY <3>1, <3>2, <3>3, Zenon
  <2> QED
    BY <2>4
<1>6. Len(cl) = m
  <2>1. DOMAIN cl = 1..m
    BY <1>4, Zenon
  <2> QED
    BY <2>1
<1>7. ASSUME NEW i \in 1..(m - 1) PROVE ~ cl[i + 1].x - cl[i].x < 0
  <2>1. i \in 1..m /\ i + 1 \in 1..m /\ i < i + 1
    OBVIOUS
  <2>2. e[i] \in 1..Len(tr) /\ e[i + 1] \in 1..Len(tr) /\ e[i] < e[i + 1]
    BY <1>1, <2>1 DEF Picks
  <2>3. tr[e[i]].x <= tr[e[i + 1]].x /\ tr[e[i]].x \in Int /\ tr[e[i + 1]].x \in Int
    BY <1>2, <2>2 DEF Point
  <2> QED
    BY <1>5, <2>1, <2>3
<1> QED
  BY <1>6, <1>7 DEF CA!Steps, CA!DX

\* What a count of steps back or pauses can add, and that none adds nothing (_score_backward, _score_pause)
LEMMA CappedRange ==
    ASSUME NEW count \in Nat
    PROVE  CA!Capped(10, count) \in 0..10 /\ CA!Capped(15, count) \in 0..15 /\ (count = 0 => CA!Capped(15, count) = 0)
<1>1. CASE count = 0
  BY <1>1 DEF CA!Capped
<1>2. CASE count = 1
  BY <1>2 DEF CA!Capped
<1>3. CASE count = 2
  BY <1>3 DEF CA!Capped
<1>4. CASE count >= 3
  <2>1. (IF count > 3 THEN 3 ELSE count) = 3
    BY <1>4
  <2> QED
    BY <1>4, <2>1 DEF CA!Capped
<1> QED
  BY <1>1, <1>2, <1>3, <1>4

\* The part's instance of FiniteSets counts as FiniteSets does.
LEMMA CaptchaCardinality == \A S : CA!Cardinality(S) = Cardinality(S)
BY DEF CA!Cardinality, Cardinality

\* Steps back and pauses are counted.
LEMMA CountsAreNat ==
    ASSUME NEW tr, Len(tr) \in Nat
    PROVE  CA!BackwardCount(tr) \in Nat /\ CA!PauseCount(tr) \in Nat
<1>1. IsFiniteSet(CA!Steps(tr))
  BY FS_Interval DEF CA!Steps
<1>2. \A S \in SUBSET CA!Steps(tr) : Cardinality(S) \in Nat
  BY <1>1, FS_Subset, FS_CardinalityType
<1>3. CA!BackwardCount(tr) \in Nat
  BY <1>2, CaptchaCardinality, Zenon DEF CA!BackwardCount
<1>4. CA!PauseCount(tr) \in Nat
  BY <1>2, CaptchaCardinality, Zenon DEF CA!PauseCount
<1> QED
  BY <1>3, <1>4

\* The weights of what a gesture of one speed without a step back can still earn.
LEMMA SteadyCeiling ==
    ASSUME NEW tr, Len(tr) \in Nat, CA!SteadySpeed(tr), \A i \in CA!Steps(tr) : ~ CA!DX(tr, i) < 0
    PROVE  CA!CeilingOf(tr) \in Int /\ CA!CeilingOf(tr) <= 60 /\ CA!FloorOf(tr) \in Int
<1>1. CA!BackwardCount(tr) = 0
  <2>1. {i \in CA!Steps(tr) : CA!DX(tr, i) < 0} = {}
    OBVIOUS
  <2> QED
    BY <2>1, FS_EmptySet, CaptchaCardinality, Zenon DEF CA!BackwardCount
<1>2. CA!Capped(15, CA!BackwardCount(tr)) = 0 /\ CA!Capped(10, CA!PauseCount(tr)) \in 0..10
  BY <1>1, CountsAreNat, CappedRange
<1> DEFINE a == CA!Capped(15, CA!BackwardCount(tr))
           b == CA!Capped(10, CA!PauseCount(tr))
           c == IF CA!Returns(tr) THEN 0 ELSE 15
<1>3. a = 0 /\ b \in 0..10 /\ c \in 0..15
  BY <1>2
<1>4. CA!CeilingOf(tr) = (IF Len(tr) < 2 THEN 35 ELSE 35 + c + 0) + a + b
  BY Zenon DEF CA!CeilingOf
<1>5. CA!FloorOf(tr) = a + b
  BY DEF CA!FloorOf
<1> HIDE DEF a, b, c
<1> QED
  BY <1>3, <1>4, <1>5

\* The gestures and bounds the parts are run with
LEMMA ScoreTypes ==
    ASSUME CA!ScoreAssumption, NEW tr \in Tracks
    PROVE  tr \in Seq(Point) /\ Len(tr) >= 2 /\ PassScore \in Nat /\ MinGesture \in Nat /\ MaxGesture \in Nat /\ Durations \subseteq Nat
BY DEF CA!ScoreAssumption, Point

\* A gesture that passes is not a machine's.
LEMMA PassersAreHuman ==
    ASSUME CA!ScoreAssumption, PassScore > 60, NEW tr \in Tracks, NEW d \in Durations, "low" \in CA!Judged(tr, d)
    PROVE  /\ d \in MinGesture..MaxGesture
           /\ CA!SteadySpeed(CA!Preprocess(tr)) => \E i, j \in 1..Len(tr) : i < j /\ tr[i].x > tr[j].x
<1>1. /\ tr \in Seq(Point) /\ PassScore \in Nat
      /\ MinGesture \in Nat /\ MaxGesture \in Nat /\ d \in Nat
  BY ScoreTypes
<1>2. ~(d < MinGesture \/ d > MaxGesture)
  <2>1. ASSUME d < MinGesture \/ d > MaxGesture PROVE CA!Judged(tr, d) = {"high"}
    BY <2>1 DEF CA!Judged
  <2> QED
    BY <2>1
<1>3. PICK s \in CA!Scores(CA!Preprocess(tr)) : CA!RiskOf(s) = "low"
  BY <1>2 DEF CA!Judged
<1>4. ASSUME CA!SteadySpeed(CA!Preprocess(tr)), \A i, j \in 1..Len(tr) : i < j => ~ tr[i].x > tr[j].x PROVE FALSE
  <2>1. \A i, j \in 1..Len(tr) : i < j => tr[i].x <= tr[j].x
    <3>0. \A i \in 1..Len(tr) : tr[i] \in Point
      BY <1>1
    <3>1. \A i \in 1..Len(tr) : tr[i].x \in Int
      BY <3>0 DEF Point
    <3> QED
      BY <1>4, <3>1
  <2>2. /\ CA!CeilingOf(CA!Preprocess(tr)) \in Int /\ CA!CeilingOf(CA!Preprocess(tr)) <= 60
        /\ CA!FloorOf(CA!Preprocess(tr)) \in Int
    BY <1>1, <1>4, <2>1, CleanStepsOn, SteadyCeiling
  <2>3. s \in Int /\ s <= 60
    BY <2>2 DEF CA!Scores
  <2>4. CA!RiskOf(s) # "low"
    BY <1>1, <2>3 DEF CA!RiskOf
  <2> QED
    BY <1>3, <2>4
<1> QED
  BY <1>1, <1>2, <1>4

\* A step of the captcha service keeps machines out: what is stored was scored low.
LEMMA MachinesKept ==
    ASSUME CA!ScoreAssumption, PassScore > 60, CaptchaInv, CA!MachinesFail, [CA!Next]_(CA!vars)
    PROVE  CA!MachinesFail'
<1> DEFINE Human(h) == h.pc = "store" =>
              /\ h.duration \in MinGesture..MaxGesture
              /\ CA!SteadySpeed(CA!Preprocess(h.track))
                   => \E i, j \in 1..Len(h.track) : i < j /\ h.track[i].x > h.track[j].x
<1>1. CA!MachinesFail <=> \A q \in Req : Human(req[q])
  BY Zenon DEF CA!MachinesFail
<1>2. CA!MachinesFail' <=> \A q \in Req : Human(req'[q])
  BY Zenon DEF CA!MachinesFail
<1>3. req \in [Req -> CA!Handler]
  BY DEF CaptchaInv, CA!TypeOK
<1>4. ASSUME NEW q \in Req, NEW h, CA!Goto(q, h), Human(h) PROVE \A r \in Req : Human(req'[r])
  <2>1. \A r \in Req : req'[r] = IF r = q THEN h ELSE req[r]
    BY <1>3, <1>4 DEF CA!Goto
  <2> HIDE DEF Human
  <2> QED
    BY <1>1, <1>4, <2>1
<1>5. Human(CA!Idle)
  BY DEF CA!Idle
<1>6. ASSUME NEW q \in Req, NEW h, h.pc # "store" PROVE Human(h)
  BY <1>6
<1>7. ASSUME NEW q \in Req, NEW c \in Challenge, CA!Fetch(q, c) PROVE \A r \in Req : Human(req'[r])
  <2>1. Human([CA!Idle EXCEPT !.pc = "consume", !.id = c])
    BY DEF CA!Idle
  <2> HIDE DEF Human
  <2> QED
    BY <1>4, <1>7, <2>1 DEF CA!Fetch
<1>8. ASSUME NEW q \in Req, CA!ConsumeGet(q) PROVE \A r \in Req : Human(req'[r])
  <2>1. Human([req[q] EXCEPT !.pc = "mark"])
    BY <1>3 DEF CA!Handler
  <2> HIDE DEF Human
  <2> QED
    BY <1>4, <1>5, <1>8, <2>1 DEF CA!ConsumeGet
<1>9. ASSUME NEW q \in Req, CA!ConsumeSet(q) PROVE \A r \in Req : Human(req'[r])
  <2>1. Human([req[q] EXCEPT !.pc = "score"])
    BY <1>3 DEF CA!Handler
  <2> HIDE DEF Human
  <2> QED
    BY <1>4, <1>5, <1>9, <2>1 DEF CA!ConsumeSet
<1>10. ASSUME NEW q \in Req, NEW tr \in Tracks, NEW d \in Durations, CA!Score(q, tr, d) PROVE \A r \in Req : Human(req'[r])
  <2> DEFINE h == [req[q] EXCEPT !.pc = "store", !.track = tr, !.duration = d]
  <2>1. h.pc = "store" /\ h.track = tr /\ h.duration = d
    BY <1>3 DEF CA!Handler
  <2>2. ASSUME "low" \in CA!Judged(tr, d) PROVE Human(h)
    <3> HIDE DEF h
    <3> QED
      BY <2>1, <2>2, PassersAreHuman, Zenon
  <2>3. PICK risk \in CA!Judged(tr, d) : CA!Goto(q, IF risk = "low" THEN h ELSE CA!Idle)
    BY <1>10, Zenon DEF CA!Score
  <2> HIDE DEF Human, h
  <2>4. CASE risk = "low"
    BY <1>4, <2>2, <2>3, <2>4
  <2>5. CASE risk # "low"
    BY <1>4, <1>5, <2>3, <2>5
  <2> QED
    BY <2>4, <2>5
<1>11. ASSUME NEW q \in Req, CA!StoreToken(q) \/ CA!Fail(q) PROVE \A r \in Req : Human(req'[r])
  <2> HIDE DEF Human
  <2> QED
    BY <1>4, <1>5, <1>11 DEF CA!StoreToken, CA!Fail
<1>12. ASSUME UNCHANGED req PROVE \A r \in Req : Human(req'[r])
  BY <1>1, <1>12
<1> HIDE DEF Human
<1>13. ASSUME NEW c \in Challenge, CA!CreateChallenge(c) \/ CA!ExpireChallenge(c) PROVE UNCHANGED req
  BY <1>13 DEF CA!CreateChallenge, CA!ExpireChallenge
<1>14. ASSUME NEW t \in tokens, CA!ExpireToken(t) PROVE UNCHANGED req
  BY <1>14 DEF CA!ExpireToken
<1>15. UNCHANGED CA!vars => UNCHANGED req
  BY DEF CA!vars
<1> QED
  BY <1>2, <1>7, <1>8, <1>9, <1>10, <1>11, <1>12, <1>13, <1>14, <1>15 DEF CA!Next

\* What the bell curves make of a gesture cannot make up for one speed without a step back.
THEOREM MachinesFailHolds == ASSUME PassScore > 60 PROVE Spec => []MachinesFail
<1>1. CA!CaptchaAssumption /\ CA!ScoreAssumption
  BY PartsAssumption DEF PartsAssumption
<1>2. Init => MachinesFail
  BY DEF Init, MachinesFail, CA!Init, CA!MachinesFail, CA!Idle
<1>3. ASSUME part = "captcha" => CaptchaInv, MachinesFail, [Next]_vars PROVE MachinesFail'
  <2>1. part' = part
    BY <1>3 DEF Next, OthersRest, vars
  <2>2. part = "captcha" => [CA!Next]_(CA!vars)
    BY <1>3 DEF Next, vars, captchaVars, CA!vars
  <2> QED
    BY <1>1, <1>3, <2>1, <2>2, MachinesKept DEF MachinesFail
<1> QED
  BY <1>2, <1>3, CaptchaRun, PTL DEF Spec

\* What _preprocess leaves: the first point is at time 0, and no point is that before it.
THEOREM PreprocessClean ==
    ASSUME NEW tr \in Seq(Point), Len(tr) >= 1
    PROVE  LET cl == CA!Preprocess(tr) IN
           /\ Len(cl) \in Nat /\ Len(cl) >= 1 /\ cl[1].t = 0
           /\ \A i \in CA!Steps(cl) : cl[i] # cl[i + 1]
<1> DEFINE dd == CA!Deduplicate(tr)
           cl == CA!Preprocess(tr)
<1>1. PICK m, e : m \in Nat /\ Picks(e, m, Len(tr), Fresh(tr)) /\ dd = [k \in 1..m |-> tr[e[k]]]
  BY KeptPicks DEF CA!Deduplicate, Fresh
<1> m \in Nat
  BY <1>1
<1>2. Len(tr) \in Nat /\ \A i \in 1..Len(tr) : tr[i] \in Point
  OBVIOUS
<1>3. dd \in Seq(Point) /\ Len(dd) = m /\ \A k \in 1..m : dd[k] = tr[e[k]] /\ dd[k] \in Point
  BY <1>1, <1>2 DEF Picks
<1> HIDE DEF dd
<1>4. cl = [k \in 1..m |-> [dd[k] EXCEPT !.t = @ - dd[1].t]]
  BY <1>3, Zenon DEF CA!Preprocess, CA!NormaliseTimestamps, dd
<1> HIDE DEF cl
<1>5. Len(cl) = m
  <2>1. DOMAIN cl = 1..m
    BY <1>4, Zenon
  <2> QED
    BY <2>1
<1>6. m >= 1 /\ e[1] = 1
  <2>1. 1 \in Fresh(tr) /\ 1 \in 1..Len(tr)
    BY <1>2 DEF Fresh
  <2>2. PICK k \in 1..m : e[k] = 1
    BY <1>1, <2>1 DEF Picks
  <2> QED
    BY <1>1, <2>2 DEF Picks
<1>7. cl[1].t = 0
  <2>1. dd[1] \in Point
    BY <1>3, <1>6
  <2>2. \A p \in Point : [p EXCEPT !.t = p.t - p.t].t = 0
    BY DEF Point
  <2>3. cl[1] = [dd[1] EXCEPT !.t = dd[1].t - dd[1].t]
    BY <1>4, <1>6
  <2>4. [dd[1] EXCEPT !.t = dd[1].t - dd[1].t].t = 0
    BY <2>1, <2>2, Zenon
  <2> QED
    BY <2>3, <2>4
<1>8. ASSUME NEW k \in 1..(m - 1) PROVE cl[k] # cl[k + 1]
  <2>1. k \in 1..m /\ k + 1 \in 1..m /\ k < k + 1
    OBVIOUS
  <2>2. e[k] \in 1..Len(tr) /\ e[k + 1] \in 1..Len(tr) /\ e[k] < e[k + 1]
    BY <1>1, <2>1 DEF Picks
  <2>3. ASSUME NEW i \in 1..Len(tr), e[k] < i, i < e[k + 1] PROVE tr[i] = tr[i - 1]
    <3>1. ASSUME NEW j \in 1..m, e[j] = i PROVE FALSE
      <4>1. ~ j < k /\ j # k /\ ~ k + 1 < j /\ j # k + 1
        BY <1>1, <2>1, <2>2, <2>3, <3>1 DEF Picks
      <4> QED
        BY <4>1
    <3>2. i \notin Fresh(tr)
      BY <1>1, <3>1 DEF Picks
    <3> QED
      BY <3>2 DEF Fresh
  <2> DEFINE T == {n \in Nat : e[k] + n < e[k + 1] => tr[e[k] + n] = tr[e[k]]}
  <2>4. 0 \in T
    BY <2>2
  <2>5. ASSUME NEW n \in Nat, n \in T PROVE n + 1 \in T
    <3> SUFFICES ASSUME e[k] + (n + 1) < e[k + 1] PROVE tr[e[k] + (n + 1)] = tr[e[k]]
      OBVIOUS
    <3>1. tr[e[k] + n] = tr[e[k]]
      BY <2>2, <2>5
    <3>2. e[k] + (n + 1) \in 1..Len(tr) /\ e[k] < e[k] + (n + 1) /\ (e[k] + (n + 1)) - 1 = e[k] + n
      BY <2>2
    <3> QED
      BY <2>3, <3>1, <3>2
  <2> HIDE DEF T
  <2>6. e[k + 1] - 1 - e[k] \in T
    <3>1. Nat \subseteq T
      BY <2>4, <2>5, AllNumbers
    <3> QED
      BY <2>2, <3>1
  <2>7. tr[e[k + 1] - 1] = tr[e[k]]
    <3>1. e[k] + (e[k + 1] - 1 - e[k]) = e[k + 1] - 1
      BY <2>2
    <3> QED
      BY <2>2, <2>6, <3>1 DEF T
  <2>8. e[k + 1] \in Fresh(tr) /\ e[k + 1] # 1
    BY <1>1, <2>1, <2>2 DEF Picks
  <2>9. dd[k] # dd[k + 1]
    BY <1>3, <2>1, <2>7, <2>8 DEF Fresh
  <2>10. ASSUME NEW p \in Point, NEW q \in Point, NEW o \in Point,
                [p EXCEPT !.t = p.t - o.t] = [q EXCEPT !.t = q.t - o.t]
         PROVE  p = q
    <3> DEFINE P == [p EXCEPT !.t = p.t - o.t]
               Q == [q EXCEPT !.t = q.t - o.t]
    <3>1. P.t = p.t - o.t /\ P.x = p.x /\ P.y = p.y /\ Q.t = q.t - o.t /\ Q.x = q.x /\ Q.y = q.y
      BY DEF Point
    <3>2. P = Q
      BY <2>10
    <3> HIDE DEF P, Q
    <3>3. p.t \in Int /\ q.t \in Int /\ o.t \in Int
      BY DEF Point
    <3>4. p.t = q.t /\ p.x = q.x /\ p.y = q.y
      BY <3>1, <3>2, <3>3
    <3> QED
      BY <3>4 DEF Point
  <2>11. /\ cl[k] = [dd[k] EXCEPT !.t = dd[k].t - dd[1].t]
         /\ cl[k + 1] = [dd[k + 1] EXCEPT !.t = dd[k + 1].t - dd[1].t]
    BY <1>4, <2>1, Zenon
  <2>12. dd[k] \in Point /\ dd[k + 1] \in Point /\ dd[1] \in Point
    BY <1>3, <1>6, <2>1
  <2>13. ASSUME cl[k] = cl[k + 1] PROVE dd[k] = dd[k + 1]
    <3>1. [dd[k] EXCEPT !.t = dd[k].t - dd[1].t] = [dd[k + 1] EXCEPT !.t = dd[k + 1].t - dd[1].t]
      BY <2>11, <2>13, Zenon
    <3> QED
      BY <2>10, <2>12, <3>1, Zenon
  <2> QED
    BY <2>9, <2>13
<1>9. \A i \in CA!Steps(cl) : cl[i] # cl[i + 1]
  BY <1>5, <1>8 DEF CA!Steps
<1> QED
  BY <1>5, <1>6, <1>7, <1>9 DEF cl

\* Every gesture is given a risk, and what it is made from is a score: it needs no
\* clipping to lie between 0 and 1 (compute_score, determine_risk).
THEOREM EveryGestureJudged ==
    ASSUME NEW tr \in Seq(Point), NEW d
    PROVE  CA!Scores(CA!Preprocess(tr)) \subseteq 0..100 /\ CA!Judged(tr, d) # {}
<1> DEFINE cl == CA!Preprocess(tr)
<1>1. Len(cl) \in Nat
  <2>1. PICK m, e : /\ m \in Nat /\ Picks(e, m, Len(tr), Fresh(tr))
                        /\ CA!Deduplicate(tr) = [k \in 1..m |-> tr[e[k]]]
    BY KeptPicks DEF CA!Deduplicate, Fresh
  <2> m \in Nat
    BY <2>1
  <2>2. Len(CA!Deduplicate(tr)) = m
    BY <2>1
  <2>3. DOMAIN cl = 1..m
    BY <2>2, Zenon DEF CA!Preprocess, CA!NormaliseTimestamps
  <2> QED
    BY <2>3
<1> DEFINE a == CA!Capped(15, CA!BackwardCount(cl))
           b == CA!Capped(10, CA!PauseCount(cl))
           c == IF CA!Returns(cl) THEN 0 ELSE 15
           f == IF CA!SteadySpeed(cl) THEN 0 ELSE 25
<1>2. a \in 0..15 /\ b \in 0..10 /\ c \in 0..15 /\ f \in 0..25
  BY <1>1, CountsAreNat, CappedRange
<1>3. CA!CeilingOf(cl) = (IF Len(cl) < 2 THEN 35 ELSE 35 + c + f) + a + b
  BY Zenon DEF CA!CeilingOf
<1>4. CA!FloorOf(cl) = a + b
  BY DEF CA!FloorOf
<1> HIDE DEF a, b, c, f
<1>5. CA!Scores(cl) \subseteq 0..100 /\ CA!FloorOf(cl) \in CA!Scores(cl)
  BY <1>2, <1>3, <1>4 DEF CA!Scores
<1> QED
  BY <1>5, Zenon DEF CA!Judged

----------------------------------------------------------------------------
(* Consumers.                                                              *)

\* An adjustment writes no negative balance, and one that is alone has read what is
\* still the balance.
Adjusts(h, balance) ==
    h.pc = "points" => /\ h.delta \in CO!Delta /\ h.read + h.delta >= 0
                       /\ ~h.overlap => h.read = balance

\* A request that makes an address the default and is alone knows all the defaults,
\* and holds them in the end; the others hold none.
Clears(h, defaults) ==
    /\ h.pc \in {"clear", "lock", "address"} => h.addr \in Addr
    /\ h.pc \in {"clear", "lock"} => h.sets = "default"
    /\ h.pc # "address" \/ h.sets # "default" => h.held = {}
    /\ h.pc = "lock" /\ ~h.overlap => defaults \subseteq h.seen
    /\ h.pc = "address" /\ h.sets = "default" /\ ~h.overlap => defaults \subseteq h.held

\* The inductive invariant.
ConsumersInv ==
    /\ CO!TypeOK
    /\ \A q \in Req : Adjusts(req[q], points) /\ Clears(req[q], CO!DefaultAddrs)
    /\ skewed \/ points = sum
    /\ clash \/ \A a, b \in CO!DefaultAddrs : a = b

LEMMA DeltaTypes == ASSUME CO!ConsumersAssumption, NEW d \in CO!Delta \cup {0} PROVE d \in Int
<1>1. d \in Earn \/ d = 0 \/ \E n \in Spend : d = -n
  BY DEF CO!Delta
<1>2. ASSUME NEW n \in Spend, d = -n PROVE d \in Int
  <2>1. n \in Int
    BY DEF CO!ConsumersAssumption
  <2> QED
    BY <1>2, <2>1
<1>3. d \in Earn => d \in Nat
  BY Zenon DEF CO!ConsumersAssumption
<1>4. d \in Nat => d \in Int
  OBVIOUS
<1>5. d = 0 => d \in Int
  OBVIOUS
<1> QED
  BY <1>1, <1>2, <1>3, <1>4, <1>5, Zenon

LEMMA ConsumersIdle ==
    ASSUME CO!ConsumersAssumption
    PROVE  /\ CO!Idle \in CO!Handler /\ CO!Idle.held = {} /\ CO!Idle.pc = "idle"
           /\ \A n, s : Adjusts(CO!Idle, n) /\ Clears(CO!Idle, s)
<1>1. 0 \in 0..MaxPoints
  BY DEF CO!ConsumersAssumption
<1>2. CO!Idle \in CO!Handler /\ CO!Idle.held = {} /\ CO!Idle.pc = "idle"
  BY <1>1 DEF CO!Idle, CO!Handler
<1> QED
  BY <1>2 DEF Adjusts, Clears

\* No balance, no address, nobody at work.
LEMMA ConsumersInit == ASSUME CO!ConsumersAssumption, CO!Init PROVE ConsumersInv
<1>1. /\ req = [q \in Req |-> CO!Idle] /\ addrs = [a \in Addr |-> None] /\ None \notin BOOLEAN
      /\ points = 0 /\ sum = 0 /\ clash = FALSE /\ skewed = FALSE
  BY DEF CO!Init, CO!ConsumersAssumption
<1>2. points \in 0..MaxPoints /\ sum \in -MaxSum..MaxSum
  BY <1>1 DEF CO!ConsumersAssumption
<1>3. \A q \in Req : req[q] = CO!Idle
  BY <1>1
<1>4. addrs \in CO!Addresses /\ req \in [Req -> CO!Handler] /\ CO!DefaultAddrs = {}
  BY <1>1, ConsumersIdle DEF CO!Addresses, CO!DefaultAddrs
<1>5. CO!TypeOK
  BY <1>1, <1>2, <1>3, <1>4, ConsumersIdle DEF CO!TypeOK, CO!Account
<1> QED
  BY <1>1, <1>3, <1>4, <1>5, ConsumersIdle DEF ConsumersInv

\* A handler goes on as h.
LEMMA ConsumersGoto ==
    ASSUME ConsumersInv, NEW q \in Req, NEW h \in CO!Handler, CO!Goto(q, h),
           UNCHANGED <<points, sum, addrs, skewed, clash>>,
           Adjusts(h, points), Clears(h, CO!DefaultAddrs), h.held \subseteq CO!DefaultAddrs,
           \A r \in Req : r # q => h.held \cap req[r].held = {}
    PROVE  ConsumersInv'
<1>1. /\ req'[q] = h /\ \A r \in Req : r # q => req'[r] = req[r]
      /\ req' \in [Req -> CO!Handler]
  BY DEF CO!Goto, ConsumersInv, CO!TypeOK
<1>2. CO!DefaultAddrs' = CO!DefaultAddrs
  BY DEF CO!DefaultAddrs
<1>3. /\ \A x, y \in Req : x # y => req'[x].held \cap req'[y].held = {}
      /\ \A x \in Req : req'[x].held \subseteq CO!DefaultAddrs
  BY <1>1 DEF ConsumersInv, CO!TypeOK
<1>4. CO!TypeOK'
  BY <1>1, <1>2, <1>3 DEF ConsumersInv, CO!TypeOK
<1>5. \A r \in Req : Adjusts(req'[r], points') /\ Clears(req'[r], CO!DefaultAddrs')
  BY <1>1, <1>2 DEF ConsumersInv
<1> QED
  BY <1>2, <1>4, <1>5 DEF ConsumersInv

LEMMA ConsumersFail == ASSUME ConsumersInv, CO!ConsumersAssumption, NEW q \in Req, CO!Fail(q) PROVE ConsumersInv'
BY ConsumersIdle, ConsumersGoto DEF CO!Fail

\* When q commits, the others stay what they are, but some notice.
LEMMA ConsumersCommitted ==
    ASSUME ConsumersInv, CO!ConsumersAssumption, NEW q \in Req, NEW pcs, CO!Committed(q, pcs)
    PROVE  /\ req' \in [Req -> CO!Handler] /\ req'[q] = CO!Idle
           /\ \A r \in Req : r # q =>
                /\ req'[r].pc = req[r].pc /\ req'[r].delta = req[r].delta /\ req'[r].read = req[r].read
                /\ req'[r].addr = req[r].addr /\ req'[r].sets = req[r].sets
                /\ req'[r].seen = req[r].seen /\ req'[r].held = req[r].held
                /\ ~req'[r].overlap => ~req[r].overlap /\ req[r].pc \notin pcs
<1> DEFINE g(r) == [req[r] EXCEPT !.overlap = TRUE]
           New(r) == IF r = q THEN CO!Idle ELSE IF req[r].pc \in pcs THEN g(r) ELSE req[r]
<1>1. req' = [r \in Req |-> New(r)]
  BY DEF CO!Committed
<1>2. \A r \in Req : req[r] \in CO!Handler
  BY DEF ConsumersInv, CO!TypeOK
<1>3. ASSUME NEW r \in Req
      PROVE  /\ g(r) \in CO!Handler /\ g(r).pc = req[r].pc /\ g(r).delta = req[r].delta /\ g(r).read = req[r].read
             /\ g(r).addr = req[r].addr /\ g(r).sets = req[r].sets
             /\ g(r).seen = req[r].seen /\ g(r).held = req[r].held /\ g(r).overlap = TRUE
  BY <1>2 DEF CO!Handler
<1> HIDE DEF g
<1>4. \A r \in Req : New(r) \in CO!Handler
  BY <1>2, <1>3, ConsumersIdle
<1>5. \A r \in Req : req'[r] = New(r)
  BY <1>1
<1>6. req' \in [Req -> CO!Handler]
  BY <1>1, <1>4
<1>7. ASSUME NEW r \in Req, r # q
      PROVE  /\ req'[r].pc = req[r].pc /\ req'[r].delta = req[r].delta /\ req'[r].read = req[r].read
             /\ req'[r].addr = req[r].addr /\ req'[r].sets = req[r].sets
             /\ req'[r].seen = req[r].seen /\ req'[r].held = req[r].held
             /\ ~req'[r].overlap => ~req[r].overlap /\ req[r].pc \notin pcs
  <2>1. req'[r] = g(r) \/ (req'[r] = req[r] /\ req[r].pc \notin pcs)
    BY <1>5, <1>7
  <2> QED
    BY <1>3, <2>1
<1> QED
  BY <1>5, <1>6, <1>7

LEMMA ConsumersReadPoints ==
    ASSUME ConsumersInv, CO!ConsumersAssumption, NEW q \in Req, NEW d \in CO!Delta, CO!ReadPoints(q, d)
    PROVE  ConsumersInv'
<1> DEFINE h == [CO!Idle EXCEPT !.pc = "points", !.delta = d, !.read = points]
<1>1. CO!Goto(q, h) /\ CO!Affordable(points, d) /\ UNCHANGED <<points, sum, addrs, skewed, clash>>
  BY DEF CO!ReadPoints
<1>2. points \in 0..MaxPoints /\ MaxPoints \in Nat /\ d \in Int
  BY DeltaTypes DEF ConsumersInv, CO!TypeOK, CO!Account, CO!ConsumersAssumption
<1>3. h \in CO!Handler /\ h.pc = "points" /\ h.delta = d /\ h.read = points /\ h.held = {}
  BY <1>2, ConsumersIdle DEF CO!Handler
<1> HIDE DEF h
<1>4. Adjusts(h, points) /\ Clears(h, CO!DefaultAddrs)
  BY <1>1, <1>2, <1>3 DEF Adjusts, Clears, CO!Affordable
<1> QED
  BY <1>1, <1>3, <1>4, ConsumersGoto

\* The balance that is written was affordable, and the true one if nobody else wrote.
LEMMA ConsumersWritePoints ==
    ASSUME ConsumersInv, CO!ConsumersAssumption, NEW q \in Req, CO!WritePoints(q)
    PROVE  ConsumersInv'
<1> DEFINE h == req[q]
<1>1. /\ h.pc = "points" /\ h.read + h.delta <= MaxPoints /\ sum + h.delta \in -MaxSum..MaxSum
      /\ points' = h.read + h.delta /\ sum' = sum + h.delta
      /\ CO!Committed(q, {"points"}) /\ UNCHANGED <<addrs, clash>>
  BY DEF CO!WritePoints, CO!Adjusted
<1>2. (skewed' <=> skewed \/ h.overlap) /\ skewed' \in BOOLEAN
  <2>1. skewed' = (skewed \/ h.overlap)
    BY DEF CO!WritePoints
  <2> QED
    BY <2>1
<1>3. h \in CO!Handler /\ Adjusts(h, points) /\ h.delta \in Int /\ h.read \in Int /\ points \in Int /\ sum \in Int
  <2>1. h \in CO!Handler /\ Adjusts(h, points) /\ h.delta \in CO!Delta \cup {0}
    BY DEF ConsumersInv, CO!TypeOK, CO!Handler
  <2> QED
    BY <2>1, DeltaTypes DEF ConsumersInv, CO!TypeOK, CO!Handler, CO!Account, CO!ConsumersAssumption
<1>4. points' \in 0..MaxPoints /\ (~skewed' => points' = sum')
  <2>1. points' \in 0..MaxPoints
    BY <1>1, <1>3 DEF Adjusts, CO!ConsumersAssumption
  <2>2. ~skewed' => h.read = points /\ points = sum
    BY <1>1, <1>2, <1>3 DEF Adjusts, ConsumersInv
  <2> QED
    BY <1>1, <2>1, <2>2
<1>5. CO!DefaultAddrs' = CO!DefaultAddrs
  BY <1>1 DEF CO!DefaultAddrs
<1>6. \A r \in Req : Adjusts(req'[r], points') /\ Clears(req'[r], CO!DefaultAddrs)
  BY <1>1, ConsumersIdle, ConsumersCommitted DEF ConsumersInv, Adjusts, Clears
<1>7. \A r \in Req : req'[r].held \subseteq req[r].held
  BY <1>1, ConsumersIdle, ConsumersCommitted
<1>8. /\ \A x, y \in Req : x # y => req'[x].held \cap req'[y].held = {}
      /\ \A x \in Req : req'[x].held \subseteq CO!DefaultAddrs
  BY <1>7 DEF ConsumersInv, CO!TypeOK
<1>9. CO!TypeOK'
  BY <1>1, <1>2, <1>4, <1>5, <1>8, ConsumersCommitted DEF ConsumersInv, CO!TypeOK, CO!Account
<1> QED
  BY <1>1, <1>4, <1>5, <1>6, <1>9 DEF ConsumersInv

\* The steps of a request about an address, up to its flush.
LEMMA ConsumersBegin ==
    ASSUME ConsumersInv, CO!ConsumersAssumption, NEW q \in Req, NEW a \in Addr, NEW new \in BOOLEAN,
           NEW sets \in {"default", "other", "keep"}, CO!Begin(q, a, new, sets)
    PROVE  ConsumersInv'
<1> DEFINE pc == CO!AfterRead(sets)
           h == [CO!Idle EXCEPT !.pc = pc, !.addr = a, !.new = new, !.sets = sets]
<1>1. CO!Goto(q, h) /\ UNCHANGED <<points, sum, addrs, skewed, clash>>
  BY DEF CO!Begin
<1>2. pc = (IF sets = "default" THEN "clear" ELSE "address") /\ pc \in {"clear", "address"}
  BY DEF CO!AfterRead
<1> HIDE DEF pc
<1>3. h \in CO!Handler /\ h.pc = pc /\ h.addr = a /\ h.sets = sets /\ h.held = {}
  BY <1>2, ConsumersIdle DEF CO!Handler
<1> HIDE DEF h
<1>4. Adjusts(h, points) /\ Clears(h, CO!DefaultAddrs)
  BY <1>2, <1>3 DEF Adjusts, Clears
<1> QED
  BY <1>1, <1>3, <1>4, ConsumersGoto

LEMMA ConsumersClear ==
    ASSUME ConsumersInv, NEW q \in Req, CO!ClearDefault(q) \/ CO!TakeDefaults(q)
    PROVE  ConsumersInv'
<1> DEFINE x == req[q]
<1>1. /\ x \in CO!Handler /\ Clears(x, CO!DefaultAddrs)
      /\ UNCHANGED <<points, sum, addrs, skewed, clash>>
  BY DEF ConsumersInv, CO!TypeOK, CO!ClearDefault, CO!TakeDefaults
<1>2. ASSUME CO!ClearDefault(q) PROVE ConsumersInv'
  <2> DEFINE defaults == CO!DefaultAddrs
             h == [x EXCEPT !.pc = "lock", !.seen = defaults]
  <2>1. x.pc = "clear" /\ CO!Goto(q, h)
    BY <1>2 DEF CO!ClearDefault
  <2>2. defaults \subseteq Addr /\ defaults = CO!DefaultAddrs
    BY DEF CO!DefaultAddrs
  <2> HIDE DEF defaults
  <2>3. /\ h \in CO!Handler /\ h.pc = "lock" /\ h.addr = x.addr /\ h.sets = x.sets
        /\ h.held = x.held /\ h.seen = defaults
    BY <1>1, <2>2 DEF CO!Handler
  <2> HIDE DEF h
  <2>4. h.held = {} /\ Adjusts(h, points) /\ Clears(h, CO!DefaultAddrs)
    BY <1>1, <2>1, <2>2, <2>3 DEF Adjusts, Clears
  <2> QED
    BY <1>1, <2>1, <2>3, <2>4, ConsumersGoto
<1>3. ASSUME CO!TakeDefaults(q) PROVE ConsumersInv'
  <2> DEFINE takes == x.seen \cap CO!DefaultAddrs
             h == [x EXCEPT !.pc = "address", !.held = takes, !.seen = {}]
  <2>1. x.pc = "lock" /\ CO!Goto(q, h) /\ \A a \in x.seen : ~CO!Locked(a)
    BY <1>3 DEF CO!TakeDefaults
  <2>2. takes \subseteq Addr /\ takes = x.seen \cap CO!DefaultAddrs
    BY DEF CO!DefaultAddrs
  <2> HIDE DEF takes
  <2>3. /\ h \in CO!Handler /\ h.pc = "address" /\ h.addr = x.addr /\ h.sets = x.sets
        /\ h.held = takes /\ (h.overlap \/ ~x.overlap)
    BY <1>1, <2>2 DEF CO!Handler
  <2> HIDE DEF h
  <2>4. Adjusts(h, points) /\ Clears(h, CO!DefaultAddrs)
    BY <1>1, <2>1, <2>2, <2>3 DEF Adjusts, Clears
  <2>5. \A r \in Req : r # q => h.held \cap req[r].held = {}
    BY <2>1, <2>2, <2>3 DEF CO!Locked
  <2> QED
    BY <1>1, <2>1, <2>2, <2>3, <2>4, <2>5, ConsumersGoto
<1> QED
  BY <1>2, <1>3

\* What the flush of an address does to the defaults.
LEMMA ConsumersFlags ==
    ASSUME ConsumersInv, NEW q \in Req, CO!WriteAddress(q)
    PROVE  /\ addrs' \in CO!Addresses /\ req[q].addr \in Addr
           /\ req[q].sets = "default" =>
                CO!DefaultAddrs' = {req[q].addr} \cup (CO!DefaultAddrs \ req[q].held)
           /\ req[q].sets = "other" => CO!DefaultAddrs' = CO!DefaultAddrs \ {req[q].addr}
           /\ req[q].sets = "keep" => CO!DefaultAddrs' = CO!DefaultAddrs
           /\ \A r \in Req : r # q => req[r].held \subseteq CO!DefaultAddrs'
<1> DEFINE h == req[q]
           New(a) == IF a = h.addr /\ h.sets # "keep" THEN CO!FlagAfter(h) ELSE IF a \in h.held THEN FALSE ELSE addrs[a]
<1>1. /\ h.pc = "address" /\ addrs' = [a \in Addr |-> New(a)] /\ \A r \in Req \ {q} : h.addr \notin req[r].held
      /\ addrs \in [Addr -> BOOLEAN \cup {None}] /\ Clears(h, CO!DefaultAddrs)
  BY DEF CO!WriteAddress, ConsumersInv, CO!TypeOK, CO!Addresses
<1>2. CO!FlagAfter(h) \in BOOLEAN /\ (CO!FlagAfter(h) <=> h.sets = "default")
  BY DEF CO!FlagAfter
<1>3. addrs' \in CO!Addresses /\ \A a \in Addr : addrs'[a] = New(a)
  BY <1>1, <1>2 DEF CO!Addresses
<1>4. h.addr \in Addr /\ (h.sets # "default" => h.held = {})
  BY <1>1 DEF Clears
<1>5. h.sets = "default" => CO!FlagAfter(h) = TRUE
  BY <1>2
<1>6. h.sets # "default" => CO!FlagAfter(h) = FALSE
  BY <1>2
<1>7. h.sets = "default" => CO!DefaultAddrs' = {h.addr} \cup (CO!DefaultAddrs \ h.held)
  BY <1>3, <1>4, <1>5 DEF CO!DefaultAddrs
<1>8. h.sets = "other" => CO!DefaultAddrs' = CO!DefaultAddrs \ {h.addr}
  BY <1>3, <1>4, <1>6 DEF CO!DefaultAddrs
<1>9. h.sets = "keep" => CO!DefaultAddrs' = CO!DefaultAddrs
  BY <1>3, <1>4 DEF CO!DefaultAddrs
<1>10. ASSUME NEW r \in Req, r # q PROVE req[r].held \subseteq CO!DefaultAddrs'
  <2>1. req[r].held \subseteq CO!DefaultAddrs /\ req[r].held \cap h.held = {} /\ h.addr \notin req[r].held
    BY <1>1, <1>10 DEF ConsumersInv, CO!TypeOK
  <2>2. h.sets \in {"default", "other", "keep"}
    BY DEF ConsumersInv, CO!TypeOK, CO!Handler
  <2> QED
    BY <1>7, <1>8, <1>9, <2>1, <2>2
<1> QED
  BY <1>3, <1>4, <1>7, <1>8, <1>9, <1>10

LEMMA ConsumersWriteAddress ==
    ASSUME ConsumersInv, CO!ConsumersAssumption, NEW q \in Req, CO!WriteAddress(q)
    PROVE  ConsumersInv'
<1> DEFINE h == req[q]
           pcs == IF h.sets = "default" THEN {"lock", "address"} ELSE {}
<1>1. h.pc = "address" /\ CO!Committed(q, pcs) /\ UNCHANGED <<points, sum, skewed>>
  BY DEF CO!WriteAddress
<1>2. /\ clash' \in BOOLEAN
      /\ h.sets = "default" => (clash' <=> h.overlap)
      /\ h.sets # "default" => clash' = clash
  <2>1. clash' = IF h.sets # "default" THEN clash ELSE h.overlap
    BY DEF CO!WriteAddress
  <2>2. clash \in BOOLEAN /\ h.overlap \in BOOLEAN
    BY DEF ConsumersInv, CO!TypeOK, CO!Handler
  <2> QED
    BY <2>1, <2>2
<1>3. Clears(h, CO!DefaultAddrs) /\ h.sets \in {"default", "other", "keep"}
  BY DEF ConsumersInv, CO!TypeOK, CO!Handler
<1>4. h.sets # "default" => CO!DefaultAddrs' \subseteq CO!DefaultAddrs
  BY <1>3, ConsumersFlags
<1>5. h.sets = "default" => \A pc \in {"lock", "address"} : pc \in pcs
  OBVIOUS
<1> HIDE DEF pcs
<1>6. ASSUME NEW r \in Req PROVE Adjusts(req'[r], points) /\ Clears(req'[r], CO!DefaultAddrs')
  <2>1. ASSUME r # q PROVE Clears(req'[r], CO!DefaultAddrs')
    <3>1. Clears(req[r], CO!DefaultAddrs)
      BY DEF ConsumersInv
    <3> QED
      BY <1>1, <1>4, <1>5, <2>1, <3>1, ConsumersCommitted DEF Clears
  <2>2. r # q => Adjusts(req'[r], points)
    BY <1>1, ConsumersCommitted DEF ConsumersInv, Adjusts
  <2> QED
    BY <1>1, <2>1, <2>2, ConsumersCommitted, ConsumersIdle
<1>7. clash' \/ \A a, b \in CO!DefaultAddrs' : a = b
  <2>1. h.sets = "default" /\ ~clash' => CO!DefaultAddrs' = {h.addr}
    BY <1>1, <1>2, <1>3, ConsumersFlags DEF Clears
  <2>2. h.sets # "default" /\ ~clash' => \A a, b \in CO!DefaultAddrs' : a = b
    BY <1>2, <1>4 DEF ConsumersInv
  <2> QED
    BY <2>1, <2>2
<1>8. /\ \A x, y \in Req : x # y => req'[x].held \cap req'[y].held = {}
      /\ \A x \in Req : req'[x].held \subseteq CO!DefaultAddrs'
  BY <1>1, ConsumersCommitted, ConsumersIdle, ConsumersFlags DEF ConsumersInv, CO!TypeOK
<1>9. CO!TypeOK'
  BY <1>1, <1>2, <1>8, ConsumersCommitted, ConsumersFlags DEF ConsumersInv, CO!TypeOK
<1> QED
  BY <1>1, <1>6, <1>7, <1>9 DEF ConsumersInv

LEMMA ConsumersDelete == ASSUME ConsumersInv, CO!ConsumersAssumption, NEW a \in Addr, CO!DeleteAddress(a) PROVE ConsumersInv'
<1>1. /\ ~CO!Locked(a) /\ addrs' = [addrs EXCEPT ![a] = None] /\ None \notin BOOLEAN
      /\ UNCHANGED <<points, sum, req, skewed, clash>>
  BY DEF CO!DeleteAddress, CO!ConsumersAssumption
<1>2. addrs' \in CO!Addresses /\ CO!DefaultAddrs' = CO!DefaultAddrs \ {a}
  BY <1>1 DEF ConsumersInv, CO!TypeOK, CO!Addresses, CO!DefaultAddrs
<1>3. \A q \in Req : Adjusts(req'[q], points') /\ Clears(req'[q], CO!DefaultAddrs')
  BY <1>1, <1>2 DEF ConsumersInv, Clears
<1>4. CO!TypeOK'
  BY <1>1, <1>2 DEF ConsumersInv, CO!TypeOK, CO!Locked
<1> QED
  BY <1>1, <1>2, <1>3, <1>4 DEF ConsumersInv

LEMMA ConsumersNext == ASSUME ConsumersInv, CO!ConsumersAssumption, CO!Next PROVE ConsumersInv'
<1>1. ASSUME NEW q \in Req, NEW a \in Addr, NEW sets \in {"default", "other", "keep"},
             CO!CreateAddress(q, a, sets) \/ CO!UpdateAddress(q, a, sets)
      PROVE  ConsumersInv'
  <2>1. PICK new \in BOOLEAN, s \in {"default", "other", "keep"} : CO!Begin(q, a, new, s)
    BY <1>1 DEF CO!CreateAddress, CO!UpdateAddress
  <2> QED
    BY <2>1, ConsumersBegin
<1> QED
  BY <1>1, ConsumersReadPoints, ConsumersWritePoints, ConsumersClear, ConsumersWriteAddress, ConsumersFail,
     ConsumersDelete DEF CO!Next

\* Every step keeps it, and so does a step of another part.
LEMMA ConsumersKept == ASSUME CO!ConsumersAssumption PROVE ConsumersInv /\ [CO!Next]_(CO!vars) => ConsumersInv'
<1>1. ASSUME ConsumersInv, UNCHANGED CO!vars PROVE ConsumersInv'
  BY <1>1 DEF CO!vars, ConsumersInv, CO!TypeOK, CO!DefaultAddrs
<1> QED
  BY <1>1, ConsumersNext

\* Requests that are alone know the balance and the default addresses.
THEOREM ConsumersInvariant == ASSUME CO!ConsumersAssumption PROVE CO!Spec => []ConsumersInv
BY ConsumersInit, ConsumersKept, PTL DEF CO!Spec

\* The same where it is one of nine parts: the others leave its variables alone.
LEMMA ConsumersRun == Spec => [](part = "consumer" => ConsumersInv)
<1>1. CO!ConsumersAssumption
  BY PartsAssumption DEF PartsAssumption
<1>2. Init => (part = "consumer" => ConsumersInv)
  BY <1>1, ConsumersInit DEF Init
<1>3. ASSUME part = "consumer" => ConsumersInv, [Next]_vars PROVE (part = "consumer" => ConsumersInv)'
  <2>1. part' = part
    BY <1>3 DEF Next, OthersRest, vars
  <2>2. part = "consumer" => [CO!Next]_(CO!vars)
    BY <1>3 DEF Next, vars, consumerVars, CO!vars
  <2> QED
    BY <1>1, <1>3, <2>1, <2>2, ConsumersKept
<1> QED
  BY <1>2, <1>3, PTL DEF Spec

\* The balance is the sum of the adjustments that committed, until two of them overlap
\* (adjust_points).
THEOREM BalanceTrueHolds == Spec => []BalanceTrue
<1>1. ConsumersInv => CO!BalanceTrue
  BY DEF ConsumersInv, CO!BalanceTrue
<1>2. (part = "consumer" => ConsumersInv) => BalanceTrue
  BY <1>1 DEF BalanceTrue
<1> QED
  BY <1>2, ConsumersRun, PTL

\* One address is the default at most, until requests that set one overlap, and again after
\* the next that is alone (_clear_default).
THEOREM OneDefaultAddressHolds == Spec => []OneDefaultAddress
<1>1. ConsumersInv => CO!OneDefaultAddress
  BY DEF ConsumersInv, CO!OneDefaultAddress
<1>2. (part = "consumer" => ConsumersInv) => OneDefaultAddress
  BY <1>1 DEF OneDefaultAddress
<1> QED
  BY <1>2, ConsumersRun, PTL

\* However requests overlap, a default address stays one until a default is deleted or
\* unset (set_default_address).
THEOREM DefaultAddressKeptHolds == Spec => DefaultAddressKept
<1>0. CO!ConsumersAssumption
  BY PartsAssumption DEF PartsAssumption
<1> USE <1>0
<1>1. ASSUME ConsumersInv, CO!Next PROVE CO!KeepsDefault
  <2> SUFFICES ASSUME CO!DefaultAddrs # {}, CO!DefaultAddrs' = {}
               PROVE  \E a \in CO!DefaultAddrs : \/ addrs'[a] = None
                                                 \/ \E q \in Req : req[q].addr = a /\ req[q].sets = "other"
    BY DEF CO!KeepsDefault
  <2>1. ASSUME NEW q \in Req, CO!WriteAddress(q)
        PROVE  req[q].addr \in CO!DefaultAddrs /\ req[q].sets = "other"
    <3>1. req[q].sets \in {"default", "other", "keep"}
      BY <1>1 DEF ConsumersInv, CO!TypeOK, CO!Handler
    <3> QED
      BY <1>1, <2>1, <3>1, ConsumersFlags
  <2>2. ASSUME NEW a \in Addr, CO!DeleteAddress(a) PROVE a \in CO!DefaultAddrs /\ addrs'[a] = None
    BY <1>1, <2>2 DEF CO!DeleteAddress, CO!DefaultAddrs, ConsumersInv, CO!TypeOK, CO!Addresses
  <2>3. addrs' # addrs
    BY DEF CO!DefaultAddrs
  <2> QED
    BY <1>1, <2>1, <2>2, <2>3 DEF CO!Next, CO!ReadPoints, CO!WritePoints, CO!CreateAddress, CO!UpdateAddress,
       CO!Begin, CO!ClearDefault, CO!TakeDefaults, CO!Fail
<1>2. ASSUME part = "consumer" => ConsumersInv, [Next]_vars PROVE [part = "consumer" => CO!KeepsDefault]_vars
  <2>1. part = "consumer" /\ Next => CO!Next
    BY DEF Next
  <2> QED
    BY <1>1, <1>2, <2>1
<1> QED
  BY <1>2, ConsumersRun, PTL DEF Spec, DefaultAddressKept

----------------------------------------------------------------------------
(* GitPush.                                                                *)

\* What a delivery has inserted has no row yet, and what it has passed has one or will have.
Stores(h, rows) ==
    /\ h.pc # "idle" => h.repo \in Repo
    /\ h.pc \in {"idle", "repo"} => h.mine = {} /\ h.i = 1
    /\ \A s \in h.mine : rows[s] = None /\ \E k \in DOMAIN h.push : h.push[k] = s
    /\ h.pc = "commits" => h.i <= Len(h.push)
    /\ h.pc \in {"commits", "end"} =>
         \A k \in DOMAIN h.push : k < h.i \/ h.pc = "end" => h.push[k] \in h.mine \/ rows[h.push[k]] # None

\* The inductive invariant.
GitInv ==
    /\ GP!TypeOK
    /\ \A q \in Req : Stores(req[q], commits)
    /\ acked \subseteq Sha /\ \A s \in acked : commits[s] # None
    /\ \A s \in Sha : saved[s] = IF commits[s] = None THEN 0 ELSE 1

LEMMA PushTypes ==
    ASSUME NEW push \in GP!Push
    PROVE  /\ Len(push) \in 0..2 /\ DOMAIN push = 1..Len(push) /\ \A k \in DOMAIN push : push[k] \in Sha
<1> DEFINE Fits(p) == Len(p) \in 0..2 /\ DOMAIN p = 1..Len(p) /\ \A k \in DOMAIN p : p[k] \in Sha
<1>1. push = <<>> \/ (\E s \in Sha : push = <<s>>) \/ \E s, t \in Sha : push = <<s, t>>
  BY DEF GP!Push
<1>2. Fits(<<>>)
  OBVIOUS
<1>3. ASSUME NEW s \in Sha PROVE Fits(<<s>>)
  <2>1. Len(<<s>>) = 1 /\ DOMAIN <<s>> = 1..1 /\ <<s>>[1] = s /\ \A k \in 1..1 : k = 1
    OBVIOUS
  <2> QED
    BY <2>1
<1>4. ASSUME NEW s \in Sha, NEW t \in Sha PROVE Fits(<<s, t>>)
  <2>1. /\ Len(<<s, t>>) = 2 /\ DOMAIN <<s, t>> = 1..2 /\ <<s, t>>[1] = s /\ <<s, t>>[2] = t
        /\ \A k \in 1..2 : k = 1 \/ k = 2
    OBVIOUS
  <2> QED
    BY <2>1
<1>5. Fits(push)
  <2> HIDE DEF Fits
  <2> QED
    BY <1>1, <1>2, <1>3, <1>4
<1> QED
  BY <1>5

LEMMA GitIdle ==
    /\ GP!Idle \in GP!Handler /\ GP!Idle.pc = "idle" /\ GP!Idle.mine = {}
    /\ \A rows : Stores(GP!Idle, rows)
<1>1. <<>> \in GP!Push
  BY DEF GP!Push
<1>2. GP!Idle \in GP!Handler /\ GP!Idle.pc = "idle" /\ GP!Idle.mine = {} /\ GP!Idle.i = 1
  BY <1>1 DEF GP!Idle, GP!Handler
<1> QED
  BY <1>2 DEF Stores

LEMMA GitInit == ASSUME GP!GitAssumption, GP!Init PROVE GitInv
<1>1. req = [q \in Req |-> GP!Idle] /\ req \in [Req -> GP!Handler] /\ \A q \in Req : req[q] = GP!Idle
  BY GitIdle DEF GP!Init
<1>2. GP!TypeOK
  BY <1>1, GitIdle DEF GP!Init, GP!TypeOK, GP!Repositories, GP!Commits, GP!GitAssumption
<1> QED
  BY <1>1, <1>2, GitIdle DEF GP!Init, GitInv

\* A delivery goes on as h, with rows of its own and a repository of its own.
LEMMA GitGoto ==
    ASSUME GitInv, NEW q \in Req, NEW h \in GP!Handler, GP!Goto(q, h), Stores(h, commits),
           \A r \in Req : r # q =>
             /\ h.mine \cap req[r].mine = {}
             /\ h.pc \in {"commits", "end"} /\ req[r].pc \in {"commits", "end"} => h.repo # req[r].repo
    PROVE  GitInv'
<1>1. /\ req'[q] = h /\ \A r \in Req : r # q => req'[r] = req[r]
      /\ req' \in [Req -> GP!Handler]
      /\ UNCHANGED <<repos, commits, saved, acked, answered>>
  BY DEF GP!Goto, GitInv, GP!TypeOK
<1>2. \A x, y \in Req : x # y => req'[x].mine \cap req'[y].mine = {}
  BY <1>1 DEF GitInv, GP!TypeOK
<1>3. \A x, y \in Req : x # y /\ req'[x].pc \in {"commits", "end"} /\ req'[y].pc \in {"commits", "end"}
        => req'[x].repo # req'[y].repo
  BY <1>1 DEF GitInv, GP!TypeOK
<1>4. GP!TypeOK'
  BY <1>1, <1>2, <1>3 DEF GitInv, GP!TypeOK
<1>5. \A r \in Req : Stores(req'[r], commits')
  BY <1>1 DEF GitInv
<1> QED
  BY <1>1, <1>4, <1>5 DEF GitInv

LEMMA GitReceive ==
    ASSUME GitInv, NEW q \in Req, NEW repo \in Repo, NEW push \in GP!Push, GP!Receive(q, repo, push)
    PROVE  GitInv'
<1> DEFINE h == [GP!Idle EXCEPT !.pc = "repo", !.repo = repo, !.push = push]
<1>1. GP!Goto(q, h)
  BY DEF GP!Receive
<1>2. h \in GP!Handler /\ h.pc = "repo" /\ h.repo = repo /\ h.mine = {} /\ h.i = 1
  BY GitIdle DEF GP!Idle, GP!Handler
<1> HIDE DEF h
<1>3. Stores(h, commits)
  BY <1>2 DEF Stores
<1> QED
  BY <1>1, <1>2, <1>3, GitGoto

LEMMA GitUpsert == ASSUME GitInv, NEW q \in Req, GP!UpsertRepository(q) PROVE GitInv'
<1> DEFINE x == req[q]
           pc == IF x.push = <<>> THEN "end" ELSE "commits"
           h == [x EXCEPT !.pc = pc]
<1>1. /\ x.pc = "repo" /\ GP!Goto(q, h)
      /\ \A r \in Req : req[r].repo = x.repo => req[r].pc \notin {"commits", "end"}
  BY DEF GP!UpsertRepository
<1>2. x \in GP!Handler /\ Stores(x, commits) /\ x.push \in GP!Push
  BY DEF GitInv, GP!TypeOK, GP!Handler
<1>3. pc \in {"commits", "end"} /\ (pc = "commits" => Len(x.push) >= 1) /\ (pc = "end" => DOMAIN x.push = {})
  <2>1. Len(x.push) = 0 <=> x.push = <<>>
    BY <1>2 DEF GP!Push
  <2> QED
    BY <1>2, <2>1, PushTypes
<1> HIDE DEF pc
<1>4. h \in GP!Handler /\ h.pc = pc /\ h.repo = x.repo /\ h.mine = x.mine /\ h.i = x.i /\ h.push = x.push
  BY <1>2, <1>3 DEF GP!Handler
<1> HIDE DEF h
<1>5. Stores(h, commits)
  BY <1>1, <1>2, <1>3, <1>4, PushTypes DEF Stores
<1>6. \A r \in Req : r # q => h.mine \cap req[r].mine = {}
  BY <1>4 DEF GitInv, GP!TypeOK
<1> QED
  BY <1>1, <1>4, <1>5, <1>6, GitGoto

\* An INSERT waits for a sha that another delivery has inserted.
LEMMA GitInsert == ASSUME GitInv, NEW q \in Req, GP!InsertCommit(q) PROVE GitInv'
<1> DEFINE x == req[q]
           s == x.push[x.i]
           mine == IF GP!Known(x, s) THEN x.mine ELSE x.mine \cup {s}
           pc == IF x.i = Len(x.push) THEN "end" ELSE "commits"
           i == x.i + 1
           h == [x EXCEPT !.mine = mine, !.i = i, !.pc = pc]
<1>1. x.pc = "commits" /\ ~GP!Held(q, s) /\ GP!Goto(q, h)
  BY DEF GP!InsertCommit
<1>2. x \in GP!Handler /\ Stores(x, commits) /\ x.push \in GP!Push /\ x.i \in 1..3 /\ x.mine \subseteq Sha
  BY DEF GitInv, GP!TypeOK, GP!Handler
<1>3. x.i \in 1..Len(x.push) /\ Len(x.push) \in 0..2 /\ DOMAIN x.push = 1..Len(x.push) /\ s \in Sha
  <2>1. Len(x.push) \in 0..2 /\ DOMAIN x.push = 1..Len(x.push) /\ \A k \in DOMAIN x.push : x.push[k] \in Sha
    BY <1>2, PushTypes
  <2>2. x.i \in 1..Len(x.push)
    BY <1>1, <1>2, <2>1 DEF Stores
  <2> QED
    BY <2>1, <2>2
<1>4. /\ mine \subseteq x.mine \cup {s} /\ x.mine \subseteq mine /\ mine \subseteq Sha
      /\ s \in mine \/ commits[s] # None
      /\ s \in mine => commits[s] = None
      /\ pc \in {"commits", "end"} /\ i \in 1..3 /\ i = x.i + 1
      /\ pc = "end" => x.i = Len(x.push)
      /\ pc = "commits" => x.i < Len(x.push)
  <2>1. GP!Known(x, s) <=> (commits[s] # None \/ s \in x.mine)
    BY DEF GP!Known
  <2>2. s \in x.mine => commits[s] = None
    BY <1>2 DEF Stores
  <2> QED
    BY <1>2, <1>3, <2>1, <2>2
<1>5. s = x.push[x.i]
  OBVIOUS
<1> HIDE DEF mine, pc, i, s
<1>6. h \in GP!Handler /\ h.pc = pc /\ h.repo = x.repo /\ h.mine = mine /\ h.i = i /\ h.push = x.push
  BY <1>2, <1>4 DEF GP!Handler
<1> HIDE DEF h
<1>7. Stores(h, commits)
  <2>1. ASSUME NEW k \in DOMAIN x.push, k < i PROVE x.push[k] \in mine \/ commits[x.push[k]] # None
    <3>1. k < x.i \/ k = x.i
      BY <1>3, <1>4, <2>1
    <3> QED
      BY <1>1, <1>2, <1>4, <1>5, <3>1 DEF Stores
  <2>2. pc = "end" => \A k \in DOMAIN x.push : k < i
    BY <1>3, <1>4
  <2>3. ASSUME NEW t \in mine PROVE commits[t] = None /\ \E k \in DOMAIN x.push : x.push[k] = t
    <3>1. t \in x.mine \/ (t = s /\ x.i \in DOMAIN x.push /\ x.push[x.i] = t)
      BY <1>3, <1>4, <1>5
    <3>2. t \in x.mine => commits[t] = None /\ \E k \in DOMAIN x.push : x.push[k] = t
      BY <1>2 DEF Stores
    <3> QED
      BY <1>4, <3>1, <3>2
  <2> QED
    BY <1>1, <1>2, <1>3, <1>4, <1>6, <2>1, <2>2, <2>3 DEF Stores
<1>8. \A r \in Req : r # q => h.mine \cap req[r].mine = {}
  BY <1>1, <1>4, <1>6 DEF GitInv, GP!TypeOK, GP!Held
<1>9. \A r \in Req : r # q /\ req[r].pc \in {"commits", "end"} => h.repo # req[r].repo
  BY <1>1, <1>6 DEF GitInv, GP!TypeOK
<1> QED
  BY <1>1, <1>6, <1>7, <1>8, <1>9, GitGoto

\* The COMMIT makes rows of what nobody else has inserted.
LEMMA GitCommit == ASSUME GitInv, GP!GitAssumption, NEW q \in Req, GP!Commit(q) PROVE GitInv'
<1> DEFINE h == req[q]
<1>1. /\ h.pc = "end" /\ answered < MaxDeliveries /\ repos' = repos \cup {h.repo}
      /\ commits' = [s \in Sha |-> IF s \in h.mine THEN h.repo ELSE commits[s]]
      /\ saved' = [s \in Sha |-> IF s \in h.mine THEN saved[s] + 1 ELSE saved[s]]
      /\ acked' = acked \cup {h.push[i] : i \in DOMAIN h.push} /\ answered' = answered + 1
      /\ req' = [req EXCEPT ![q] = GP!Idle]
  BY DEF GP!Commit
<1>2. h \in GP!Handler /\ Stores(h, commits) /\ h.push \in GP!Push /\ h.mine \subseteq Sha /\ h.repo \in Repo /\ h.repo # None
  BY <1>1 DEF GitInv, GP!TypeOK, GP!Handler, Stores, GP!GitAssumption
<1>3. /\ req'[q] = GP!Idle /\ \A r \in Req : r # q => req'[r] = req[r]
      /\ req' \in [Req -> GP!Handler]
  BY <1>1, GitIdle DEF GitInv, GP!TypeOK
<1>4. /\ commits \in [Sha -> Repo \cup {None}] /\ saved \in [Sha -> Nat]
      /\ answered \in 0..MaxDeliveries /\ MaxDeliveries \in Nat
  BY DEF GitInv, GP!TypeOK, GP!Commits, GP!GitAssumption
<1>5. \A s \in Sha : /\ commits'[s] = IF s \in h.mine THEN h.repo ELSE commits[s]
                     /\ saved'[s] = IF s \in h.mine THEN saved[s] + 1 ELSE saved[s]
  BY <1>1
<1>6. /\ commits' \in GP!Commits /\ repos' \in GP!Repositories /\ answered' \in 0..MaxDeliveries
      /\ \A s \in Sha : commits'[s] \in repos' \cup {None}
  BY <1>1, <1>2, <1>4, <1>5 DEF GitInv, GP!TypeOK, GP!Commits, GP!Repositories
<1>7. saved' \in [Sha -> Nat]
  BY <1>1, <1>4
<1>8. \A i \in DOMAIN h.push : h.push[i] \in Sha /\ (h.push[i] \in h.mine \/ commits[h.push[i]] # None)
  BY <1>1, <1>2, PushTypes DEF Stores
<1>9. acked' \subseteq Sha /\ \A s \in acked' : commits'[s] # None
  BY <1>1, <1>2, <1>5, <1>8 DEF GitInv
<1>10. \A s \in Sha : saved'[s] = IF commits'[s] = None THEN 0 ELSE 1
  <2>1. \A s \in h.mine : commits[s] = None
    BY <1>2 DEF Stores
  <2> QED
    BY <1>2, <1>4, <1>5, <2>1 DEF GitInv
<1>11. ASSUME NEW r \in Req PROVE Stores(req'[r], commits')
  <2>1. r = q => Stores(req'[r], commits')
    BY <1>3, GitIdle
  <2>2. ASSUME r # q PROVE Stores(req[r], commits')
    <3>1. Stores(req[r], commits) /\ req[r].mine \cap h.mine = {} /\ req[r].mine \subseteq Sha
      BY <2>2 DEF GitInv, GP!TypeOK, GP!Handler
    <3>2. req[r].push \in GP!Push
      BY DEF GitInv, GP!TypeOK, GP!Handler
    <3>3. \A k \in DOMAIN req[r].push : req[r].push[k] \in Sha
      BY <3>2, PushTypes
    <3> QED
      BY <1>2, <1>5, <3>1, <3>3 DEF Stores
  <2> QED
    BY <1>3, <2>1, <2>2
<1>12. /\ \A x, y \in Req : x # y => req'[x].mine \cap req'[y].mine = {}
       /\ \A x, y \in Req : x # y /\ req'[x].pc \in {"commits", "end"} /\ req'[y].pc \in {"commits", "end"}
            => req'[x].repo # req'[y].repo
  BY <1>3, GitIdle DEF GitInv, GP!TypeOK
<1>13. GP!TypeOK'
  BY <1>3, <1>6, <1>7, <1>9, <1>12 DEF GP!TypeOK
<1> QED
  BY <1>9, <1>10, <1>11, <1>13 DEF GitInv

LEMMA GitFail == ASSUME GitInv, NEW q \in Req, GP!Fail(q) PROVE GitInv'
BY GitIdle, GitGoto DEF GP!Fail

\* Every step keeps it, and so does a step of another part.
LEMMA GitKept == ASSUME GP!GitAssumption PROVE GitInv /\ [GP!Next]_(GP!vars) => GitInv'
<1>1. ASSUME GitInv, GP!Next PROVE GitInv'
  BY <1>1, GitReceive, GitUpsert, GitInsert, GitCommit, GitFail DEF GP!Next
<1>2. ASSUME GitInv, UNCHANGED GP!vars PROVE GitInv'
  BY <1>2 DEF GP!vars, GitInv, GP!TypeOK
<1> QED
  BY <1>1, <1>2

\* What a delivery in progress has inserted nobody else has, and has no row yet.
THEOREM GitInvariant == ASSUME GP!GitAssumption PROVE GP!Spec => []GitInv
BY GitInit, GitKept, PTL DEF GP!Spec

\* The same where it is one of nine parts: the others leave its variables alone.
LEMMA GitRun == Spec => [](part = "git" => GitInv)
<1>1. GP!GitAssumption
  BY PartsAssumption DEF PartsAssumption
<1>2. Init => (part = "git" => GitInv)
  BY <1>1, GitInit DEF Init
<1>3. ASSUME part = "git" => GitInv, [Next]_vars PROVE (part = "git" => GitInv)'
  <2>1. part' = part
    BY <1>3 DEF Next, OthersRest, vars
  <2>2. part = "git" => [GP!Next]_(GP!vars)
    BY <1>3 DEF Next, vars, gitVars, GP!vars
  <2> QED
    BY <1>1, <1>3, <2>1, <2>2, GitKept
<1> QED
  BY <1>2, <1>3, PTL DEF Spec

\* However deliveries repeat and overlap, one that was answered left a row of each of its
\* commits, and each row was counted by one answer (save_push_event).
THEOREM DeliveredHolds == Spec => []Delivered
<1>1. GitInv => GP!Delivered
  BY DEF GitInv, GP!Delivered
<1>2. (part = "git" => GitInv) => Delivered
  BY <1>1 DEF Delivered
<1> QED
  BY <1>2, GitRun, PTL

\* At its COMMIT a delivery has inserted just those of its commits that are new then.
LEMMA MineIsNew ==
    ASSUME GitInv, NEW q \in Req, req[q].pc = "end"
    PROVE  req[q].mine = PS!New({req[q].push[i] : i \in DOMAIN req[q].push})
<1> DEFINE h == req[q]
<1>1. h \in GP!Handler /\ Stores(h, commits)
  BY DEF GitInv, GP!TypeOK
<1>2. \A k \in DOMAIN h.push : h.push[k] \in h.mine \/ commits[h.push[k]] # None
  BY <1>1 DEF Stores
<1>3. \A s \in h.mine : commits[s] = None /\ \E k \in DOMAIN h.push : h.push[k] = s
  BY <1>1 DEF Stores
<1> HIDE DEF h
<1>4. h.mine = PS!New({h.push[i] : i \in DOMAIN h.push})
  BY <1>2, <1>3 DEF PS!New
<1> QED
  BY <1>4 DEF h

\* The COMMIT of a delivery stores it as a whole; its other steps store nothing.
LEMMA GitStepMaps == GitInv /\ [GP!Next]_(GP!vars) => [PS!Next]_(PS!vars)
<1> SUFFICES ASSUME GitInv, [GP!Next]_(GP!vars) PROVE [PS!Next]_(PS!vars)
  OBVIOUS
<1>1. ASSUME NEW q \in Req, GP!Commit(q) PROVE PS!Next
  <2> DEFINE h == req[q]
             push == {h.push[i] : i \in DOMAIN h.push}
  <2>1. h.pc = "end" /\ h \in GP!Handler /\ h.repo \in Repo
    BY <1>1 DEF GP!Commit, GitInv, GP!TypeOK, Stores
  <2>2. push \subseteq Sha
    <3>1. h.push \in GP!Push
      BY <2>1 DEF GP!Handler
    <3> QED
      BY <3>1, PushTypes
  <2>3. h.mine = PS!New(push)
    BY <2>1, MineIsNew
  <2>4. /\ repos' = repos \cup {h.repo} /\ acked' = acked \cup push
        /\ commits' = [s \in Sha |-> IF s \in h.mine THEN h.repo ELSE commits[s]]
        /\ saved' = [s \in Sha |-> IF s \in h.mine THEN saved[s] + 1 ELSE saved[s]]
    BY <1>1 DEF GP!Commit
  <2> HIDE DEF h, push
  <2>5. PS!Deliver(h.repo, push)
    BY <2>3, <2>4 DEF PS!Deliver
  <2> QED
    BY <2>1, <2>2, <2>5 DEF PS!Next
<1>2. ASSUME NEW q \in Req, NEW h, GP!Goto(q, h) PROVE UNCHANGED PS!vars
  BY <1>2 DEF GP!Goto, PS!vars
<1>3. ASSUME NEW q \in Req,
             \/ \E repo \in Repo, push \in GP!Push : GP!Receive(q, repo, push)
             \/ GP!UpsertRepository(q) \/ GP!InsertCommit(q) \/ GP!Fail(q)
      PROVE  UNCHANGED PS!vars
  BY <1>2, <1>3 DEF GP!Receive, GP!UpsertRepository, GP!InsertCommit, GP!Fail
<1>4. ASSUME UNCHANGED GP!vars PROVE UNCHANGED PS!vars
  BY <1>4 DEF GP!vars, PS!vars
<1> QED
  BY <1>1, <1>3, <1>4 DEF GP!Next

\* A delivery by itself implements PushStore.
THEOREM GitPushImplements == ASSUME GP!GitAssumption PROVE GP!Spec => PS!Spec
<1>1. GP!Init => PS!Init
  BY DEF GP!Init, PS!Init
<1> QED
  BY <1>1, GitStepMaps, GitInvariant, PTL DEF GP!Spec, PS!Spec

\* Deliveries of any number of handlers are stored as if one after the other, each at its
\* COMMIT: what it counts as new is what had no row at that moment (save_push_event).
THEOREM DeliveriesAtomicHolds == Spec => DeliveriesAtomic
<1> DEFINE Stored == part = "git" => [PS!Next]_(PS!vars)
<1>1. Init => (part = "git" => PS!Init)
  BY DEF Init, GP!Init, PS!Init
<1>2. (part = "git" => GitInv) /\ [Next]_vars => Stored
  <2> SUFFICES ASSUME part = "git", GitInv, [Next]_vars PROVE [PS!Next]_(PS!vars)
    OBVIOUS
  <2>1. [GP!Next]_(GP!vars)
    BY DEF Next, vars, gitVars, GP!vars
  <2> QED
    BY <2>1, GitStepMaps
<1>3. (part = "git" => GitInv) /\ [Next]_vars => [Stored]_vars
  BY <1>2
<1> HIDE DEF Stored
<1>4. Spec => [][Stored]_vars
  BY <1>3, GitRun, PTL DEF Spec
<1>5. Spec => (part = "git" => PS!Init)
  BY <1>1, PTL DEF Spec
<1> QED
  BY <1>4, <1>5 DEF DeliveriesAtomic, Stored

----------------------------------------------------------------------------
(* Gateway.                                                                *)

\* What a request that brings what the code asks of it has met by now.
Served(c) ==
    /\ c.pc = "decrypt" => c.body = c.got.body
    /\ c.key => c.got.body = "envelope"
    /\ GW!Entitled(c.got) =>
         /\ c.pc = "sign" => c.body = "plain"
         /\ c.pc \in {"return", "answered"} =>
              c.answer \in GW!Unrefused

\* The inductive invariant: the services that were there all through the start have been
\* asked, or will be, and then answer.
GatewayInv ==
    /\ GW!TypeOK
    /\ steady \subseteq loaded \cup unasked
    /\ unasked # {} => steady \subseteq up
    /\ call # GW!Rest => Served(call)

LEMMA GatewayRest == GW!Rest.pc = "rest" /\ GW!Rest \notin GW!Call
BY DEF GW!Rest, GW!Call, GW!Steps

\* The request is somewhere along its way.
LEMMA GatewayCall ==
    ASSUME GatewayInv, call.pc # "rest"
    PROVE  /\ call \in GW!Call /\ call # GW!Rest /\ Served(call) /\ unasked = {} /\ steady \subseteq loaded
           /\ call.got \in GW!Request /\ call.got.body \in {"plain", "envelope"}
           /\ call.secret => "encrypt" \in call.got.route.tags /\ call.got.body = "envelope"
<1>1. call \in GW!Call /\ call # GW!Rest
  BY GatewayRest DEF GatewayInv, GW!TypeOK
<1>2. /\ unasked = {} /\ steady \subseteq loaded /\ Served(call)
      /\ call.secret => "encrypt" \in call.got.route.tags /\ call.got.body = "envelope"
  BY <1>1 DEF GatewayInv, GW!TypeOK
<1> QED
  BY <1>1, <1>2 DEF GW!Call, GW!Request

\* The request goes on as c.
LEMMA GatewayStep ==
    ASSUME GatewayInv, UNCHANGED <<up, unasked, loaded, steady>>, key' \in {"unread", "none", "read"},
           unasked = {}, NEW c \in GW!Call, call' = c, Served(c),
           c.secret => "encrypt" \in c.got.route.tags /\ c.got.body = "envelope"
    PROVE  GatewayInv'
<1>1. Served(c)'
  BY DEF Served, GW!Entitled
<1>2. Served(call)'
  BY <1>1 DEF Served, GW!Entitled
<1> QED
  BY <1>2 DEF GatewayInv, GW!TypeOK

LEMMA GatewayInit == ASSUME GW!GatewayAssumption, GW!Init PROVE GatewayInv
BY DEF GW!Init, GW!Starting, GatewayInv, GW!TypeOK

LEMMA GatewayStart ==
    ASSUME GatewayInv, (\E s \in Service : GW!Toggle(s) \/ GW!FetchSpec(s)) \/ GW!Restart
    PROVE  GatewayInv'
<1>1. ASSUME NEW s \in Service, GW!Toggle(s) PROVE GatewayInv'
  <2>1. /\ up' = IF s \in up THEN up \ {s} ELSE up \cup {s}
        /\ steady' = IF unasked # {} THEN steady \ {s} ELSE steady
        /\ UNCHANGED <<unasked, loaded, key, call>>
    BY <1>1 DEF GW!Toggle
  <2>2. GW!TypeOK' /\ steady' \subseteq loaded' \cup unasked' /\ (unasked' # {} => steady' \subseteq up')
    BY <2>1 DEF GatewayInv, GW!TypeOK
  <2>3. ASSUME call # GW!Rest PROVE Served(call)'
    <3>1. unasked = {} /\ steady' = steady /\ Served(call)
      BY <2>1, <2>3 DEF GatewayInv, GW!TypeOK
    <3> QED
      BY <2>1, <3>1 DEF Served, GW!Entitled
  <2> QED
    BY <2>1, <2>2, <2>3 DEF GatewayInv
<1>2. ASSUME NEW s \in Service, GW!FetchSpec(s) PROVE GatewayInv'
  <2>1. /\ s \in unasked /\ unasked' = unasked \ {s} /\ UNCHANGED <<up, steady, key, call>>
        /\ loaded' = IF s \in up THEN loaded \cup {s} ELSE loaded
    BY <1>2 DEF GW!FetchSpec, GW!AskedNext
  <2>2. call = GW!Rest
    BY <2>1 DEF GatewayInv, GW!TypeOK
  <2> QED
    BY <2>1, <2>2 DEF GatewayInv, GW!TypeOK
<1>3. ASSUME GW!Restart PROVE GatewayInv'
  BY <1>3 DEF GW!Restart, GatewayInv, GW!TypeOK
<1> QED
  BY <1>1, <1>2, <1>3

LEMMA GatewayReceive == ASSUME GatewayInv, GW!GatewayAssumption, NEW r \in Incoming, GW!Receive(r) PROVE GatewayInv'
<1> DEFINE c == [pc |-> "decrypt", got |-> r, body |-> r.body, key |-> FALSE, answer |-> None, secret |-> FALSE]
<1>1. unasked = {} /\ call' = c /\ UNCHANGED <<up, unasked, loaded, steady, key>>
  BY DEF GW!Receive
<1>2. c \in GW!Call /\ c.pc = "decrypt" /\ c.got = r /\ c.body = r.body /\ ~c.key /\ ~c.secret
  BY DEF GW!GatewayAssumption, GW!Call, GW!Request, GW!Steps
<1> HIDE DEF c
<1>3. Served(c)
  BY <1>2 DEF Served
<1>4. key' \in {"unread", "none", "read"}
  BY <1>1 DEF GatewayInv, GW!TypeOK
<1> QED
  BY <1>1, <1>2, <1>3, <1>4, GatewayStep

\* The request is answered, or goes back with an answer.
LEMMA GatewayAnswer ==
    ASSUME GatewayInv, call.pc \in GW!Steps,
           NEW pc \in {"return", "answered"}, NEW reason \in GW!Reasons,
           GW!Entitled(call.got) => reason \in GW!Unrefused,
           call' = [call EXCEPT !.pc = pc, !.answer = reason],
           UNCHANGED <<up, unasked, loaded, steady>>, key' \in {"unread", "none", "read"}
    PROVE  GatewayInv'
<1> DEFINE c == [call EXCEPT !.pc = pc, !.answer = reason]
<1>1. /\ call \in GW!Call /\ unasked = {} /\ Served(call)
      /\ call.secret => "encrypt" \in call.got.route.tags /\ call.got.body = "envelope"
  BY GatewayCall DEF GW!Steps
<1>2. /\ c \in GW!Call /\ c.pc = pc /\ c.answer = reason /\ c.got = call.got /\ c.key = call.key
      /\ c.secret = call.secret
  BY <1>1 DEF GW!Call, GW!Steps
<1>3. call' = c
  OBVIOUS
<1> HIDE DEF c
<1>4. Served(c)
  BY <1>1, <1>2 DEF Served
<1> QED
  BY <1>1, <1>2, <1>3, <1>4, GatewayStep

\* The request goes on to its next step.
LEMMA GatewayPass ==
    ASSUME GatewayInv, call.pc \in GW!Steps,
           NEW pc \in {"route", "forward"},
           call' = [call EXCEPT !.pc = pc], UNCHANGED <<up, unasked, loaded, steady, key>>
    PROVE  GatewayInv'
<1> DEFINE c == [call EXCEPT !.pc = pc]
<1>1. /\ call \in GW!Call /\ unasked = {} /\ Served(call)
      /\ call.secret => "encrypt" \in call.got.route.tags /\ call.got.body = "envelope"
  BY GatewayCall DEF GW!Steps
<1>2. /\ c \in GW!Call /\ c.pc = pc /\ c.got = call.got /\ c.key = call.key
      /\ c.secret = call.secret
  BY <1>1 DEF GW!Call, GW!Steps
<1>3. call' = c /\ key' \in {"unread", "none", "read"}
  BY DEF GatewayInv, GW!TypeOK
<1> HIDE DEF c
<1>4. Served(c)
  BY <1>1, <1>2 DEF Served
<1> QED
  BY <1>1, <1>2, <1>3, <1>4, GatewayStep

LEMMA GatewayDecrypt == ASSUME GatewayInv, GW!Decrypt PROVE GatewayInv'
<1>1. /\ call.pc = "decrypt" /\ call \in GW!Call /\ unasked = {} /\ Served(call) /\ call.body = call.got.body
      /\ call.got.body \in {"plain", "envelope"} /\ UNCHANGED <<up, unasked, loaded, steady>>
      /\ call.secret => "encrypt" \in call.got.route.tags /\ call.got.body = "envelope"
  BY GatewayCall DEF GW!Decrypt, Served
<1>2. key \in {"unread", "none", "read"}
  BY DEF GatewayInv, GW!TypeOK
<1>3. ASSUME ~GW!Tagged("decrypt"), call' = [call EXCEPT !.pc = "sign"], UNCHANGED key PROVE GatewayInv'
  <2> DEFINE c == [call EXCEPT !.pc = "sign"]
  <2>1. /\ c \in GW!Call /\ c.pc = "sign" /\ c.got = call.got /\ c.key = call.key /\ c.body = call.body
        /\ c.secret = call.secret
    BY <1>1 DEF GW!Call, GW!Steps
  <2>2. call' = c
    BY <1>3
  <2> HIDE DEF c
  <2>3. Served(c)
    BY <1>1, <1>3, <2>1 DEF Served, GW!Entitled, GW!Tagged
  <2> QED
    BY <1>1, <1>2, <1>3, <2>1, <2>2, <2>3, GatewayStep
<1>4. ASSUME GW!Tagged("decrypt"), key' \in {"unread", "none", "read"}, GW!Stop("keyless") PROVE GatewayInv'
  BY <1>1, <1>4, GatewayAnswer DEF GW!Stop, GW!Steps, GW!Reasons, GW!Unrefused
<1>5. ASSUME GW!Tagged("decrypt"), key' \in {"unread", "none", "read"}, ~GW!Opens(call.body), GW!Stop("undecrypted")
      PROVE  GatewayInv'
  <2>1. ~GW!Entitled(call.got)
    BY <1>1, <1>5 DEF GW!Entitled, GW!Tagged, GW!Opens
  <2> QED
    BY <1>1, <1>5, <2>1, GatewayAnswer DEF GW!Stop, GW!Steps, GW!Reasons, GW!Unrefused
<1>6. ASSUME GW!Tagged("decrypt"), key' \in {"unread", "none", "read"}, GW!Opens(call.body),
             call' = [call EXCEPT !.pc = "sign", !.body = "plain", !.key = TRUE]
      PROVE  GatewayInv'
  <2> DEFINE c == [call EXCEPT !.pc = "sign", !.body = "plain", !.key = TRUE]
  <2>1. /\ c \in GW!Call /\ c.pc = "sign" /\ c.got = call.got /\ c.key /\ c.body = "plain"
        /\ c.secret = call.secret
    BY <1>1 DEF GW!Call, GW!Steps
  <2>2. call' = c
    BY <1>6
  <2> HIDE DEF c
  <2>3. Served(c)
    BY <1>1, <1>6, <2>1 DEF Served, GW!Opens
  <2> QED
    BY <1>1, <1>6, <2>1, <2>2, <2>3, GatewayStep
<1> QED
  BY <1>2, <1>3, <1>4, <1>5, <1>6 DEF GW!Decrypt

LEMMA GatewayVerify == ASSUME GatewayInv, GW!VerifySign PROVE GatewayInv'
<1>1. /\ call.pc = "sign" /\ call.pc \in GW!Steps /\ Served(call) /\ UNCHANGED <<up, unasked, loaded, steady, key>>
  BY GatewayCall DEF GW!VerifySign, GW!Steps
<1>2. key' \in {"unread", "none", "read"}
  BY <1>1 DEF GatewayInv, GW!TypeOK
<1>3. ASSUME call' = [call EXCEPT !.pc = "route"] PROVE GatewayInv'
  BY <1>1, <1>3, GatewayPass
<1>4. ASSUME GW!Tagged("sign"), ~GW!Signed, GW!Stop("unsigned") PROVE GatewayInv'
  <2>1. ~GW!Entitled(call.got)
    BY <1>1, <1>4 DEF GW!Entitled, GW!Tagged, GW!Signed, Served
  <2> QED
    BY <1>1, <1>2, <1>4, <2>1, GatewayAnswer DEF GW!Stop, GW!Reasons, GW!Unrefused
<1> QED
  BY <1>3, <1>4 DEF GW!VerifySign

LEMMA GatewayProxy == ASSUME GatewayInv, GW!Proxy PROVE GatewayInv'
<1>1. /\ call.pc = "route" /\ call.pc \in GW!Steps /\ steady \subseteq loaded
      /\ UNCHANGED <<up, unasked, loaded, steady, key>>
  BY GatewayCall DEF GW!Proxy, GW!Steps
<1>2. key' \in {"unread", "none", "read"}
  BY <1>1 DEF GatewayInv, GW!TypeOK
<1>3. ASSUME ~GW!Public(call.got.route), call.got.token = None \/ ~GW!Allowed(call.got),
             NEW reason \in {"denied", "forbidden"}, GW!Answer(reason)
      PROVE  GatewayInv'
  <2>1. ~GW!Entitled(call.got)
    BY <1>1, <1>3 DEF GW!Entitled, GW!Public
  <2> QED
    BY <1>1, <1>2, <1>3, <2>1, GatewayAnswer DEF GW!Answer, GW!Reasons, GW!Unrefused
<1>4. ASSUME call.got.route.service = None, GW!Answer("unknown") PROVE GatewayInv'
  <2>1. ~GW!Entitled(call.got)
    BY <1>4 DEF GW!Entitled
  <2> QED
    BY <1>1, <1>2, <1>4, <2>1, GatewayAnswer DEF GW!Answer, GW!Reasons, GW!Unrefused
<1>5. ASSUME call' = [call EXCEPT !.pc = "forward"] PROVE GatewayInv'
  BY <1>1, <1>5, GatewayPass
<1> QED
  BY <1>3, <1>4, <1>5 DEF GW!Proxy

LEMMA GatewayForward == ASSUME GatewayInv, GW!Forward PROVE GatewayInv'
<1>1. /\ call.pc \in GW!Steps /\ UNCHANGED <<up, unasked, loaded, steady, key>>
      /\ key' \in {"unread", "none", "read"}
  BY DEF GW!Forward, GW!Steps, GatewayInv, GW!TypeOK
<1>2. \/ \E reason \in {"unavailable", "timeout", "ok"} : GW!Answer(reason)
      \/ \E reason \in {"length", "broken"} : GW!Stop(reason)
  BY DEF GW!Forward
<1>3. ASSUME NEW reason \in {"unavailable", "timeout", "ok"}, GW!Answer(reason) PROVE GatewayInv'
  BY <1>1, <1>3, GatewayAnswer DEF GW!Answer, GW!Reasons, GW!Unrefused
<1>4. ASSUME NEW reason \in {"length", "broken"}, GW!Stop(reason) PROVE GatewayInv'
  BY <1>1, <1>4, GatewayAnswer DEF GW!Stop, GW!Reasons, GW!Unrefused
<1> QED
  BY <1>2, <1>3, <1>4

\* The answer to an encrypted route is encrypted only for a key that the request brought.
LEMMA GatewayReturn == ASSUME GatewayInv, GW!Return PROVE GatewayInv'
<1> DEFINE secret == GW!Encrypted
           c == [call EXCEPT !.pc = "answered", !.secret = secret]
<1>1. /\ call.pc = "return" /\ call \in GW!Call /\ unasked = {} /\ Served(call)
      /\ UNCHANGED <<up, unasked, loaded, steady, key>> /\ call' = c
  BY GatewayCall DEF GW!Return
<1>2. secret \in BOOLEAN /\ (secret => "encrypt" \in call.got.route.tags /\ call.key)
  BY <1>1 DEF GW!Encrypted, GW!Tagged, GW!Call
<1> HIDE DEF secret
<1>3. /\ c \in GW!Call /\ c.pc = "answered" /\ c.got = call.got /\ c.key = call.key
      /\ c.secret = secret /\ c.answer = call.answer
  BY <1>1, <1>2 DEF GW!Call, GW!Steps
<1> HIDE DEF c
<1>4. Served(c) /\ (c.secret => "encrypt" \in c.got.route.tags /\ c.got.body = "envelope")
  BY <1>1, <1>2, <1>3 DEF Served
<1>5. key' \in {"unread", "none", "read"}
  BY <1>1 DEF GatewayInv, GW!TypeOK
<1> QED
  BY <1>1, <1>3, <1>4, <1>5, GatewayStep

\* Every step keeps it, and so does a step of another part.
LEMMA GatewayKept == ASSUME GW!GatewayAssumption PROVE GatewayInv /\ [GW!Next]_(GW!vars) => GatewayInv'
<1>1. ASSUME GatewayInv, GW!Next PROVE GatewayInv'
  <2>1. ASSUME GW!Done PROVE GatewayInv'
    BY <1>1, <2>1 DEF GW!Done, GatewayInv, GW!TypeOK
  <2> QED
    BY <1>1, <2>1, GatewayStart, GatewayReceive, GatewayDecrypt, GatewayVerify, GatewayProxy, GatewayForward,
       GatewayReturn DEF GW!Next, GW!Handle
<1>2. ASSUME GatewayInv, UNCHANGED GW!vars PROVE GatewayInv'
  BY <1>2 DEF GW!vars, GatewayInv, GW!TypeOK, Served, GW!Entitled
<1> QED
  BY <1>1, <1>2

\* What the services answered at the start is enough for a request that brings what the code asks.
THEOREM GatewayInvariant == ASSUME GW!GatewayAssumption PROVE GW!Spec => []GatewayInv
BY GatewayInit, GatewayKept, PTL DEF GW!Spec

\* The same where it is one of nine parts: the others leave its variables alone.
LEMMA GatewayRun == Spec => [](part = "gateway" => GatewayInv)
<1>1. GW!GatewayAssumption
  BY PartsAssumption DEF PartsAssumption
<1>2. Init => (part = "gateway" => GatewayInv)
  BY <1>1, GatewayInit DEF Init
<1>3. ASSUME part = "gateway" => GatewayInv, [Next]_vars PROVE (part = "gateway" => GatewayInv)'
  <2>1. part' = part
    BY <1>3 DEF Next, OthersRest, vars
  <2>2. part = "gateway" => [GW!Next]_(GW!vars)
    BY <1>3 DEF Next, vars, gatewayVars, GW!vars
  <2> QED
    BY <1>1, <1>3, <2>1, <2>2, GatewayKept
<1> QED
  BY <1>2, <1>3, PTL DEF Spec

\* A request for a mapped route that brings the body, signature, token and permission the code
\* asks for is forwarded, or fails for want of a key, a service or a header, whichever other
\* services were down at the start (proxy, verify_request, dispatch).
THEOREM EntitledServedHolds == Spec => []EntitledServed
<1>1. GatewayInv => GW!EntitledServed
  <2> SUFFICES ASSUME GatewayInv, call.pc = "answered", GW!Entitled(call.got)
               PROVE  call.answer \in GW!Unrefused
    BY DEF GW!EntitledServed
  <2> QED
    BY GatewayCall DEF Served
<1>2. (part = "gateway" => GatewayInv) => EntitledServed
  BY <1>1 DEF EntitledServed
<1> QED
  BY <1>2, GatewayRun, PTL

----------------------------------------------------------------------------
(* SmsAdmin.                                                               *)

\* What a request knows of the channels: `rows' are theirs, `here' those that have one,
\* `defs' the default ones.
KnowsChannels(h, rows, here, defs) ==
    /\ h.pc \in {"others", "write"} =>
         /\ h.name \in Channel /\ h.want \in SA!Flags
         /\ h.pc = "others" => h.clears
         /\ ~h.clears => h.others = {} /\ (h.want.isDefault => h.old # None /\ h.old.isDefault)
         /\ ~h.overlap => h.old = rows[h.name]
         /\ h.pc = "write" /\ ~h.overlap /\ h.clears => h.others = defs \ {h.name}
    /\ h.pc = "start" /\ ~h.overlap => h.others = here

\* The inductive invariant.
SmsInv ==
    /\ SA!TypeOK
    /\ \A q \in Req : KnowsChannels(req[q], channels, SA!Present, SA!Defaults)
    /\ clash \/ \A a, b \in SA!Defaults : a = b

LEMMA SmsIdle ==
    /\ SA!Idle \in SA!Handler /\ SA!Idle.pc = "idle" /\ SA!Idle.others = {} /\ ~SA!Idle.overlap
    /\ \A rows, here, defs : KnowsChannels(SA!Idle, rows, here, defs)
<1>1. /\ SA!Idle \in SA!Handler /\ SA!Idle.pc = "idle" /\ SA!Idle.others = {} /\ ~SA!Idle.overlap
  BY DEF SA!Idle, SA!Handler, SA!SmsChannel
<1> QED
  BY <1>1 DEF KnowsChannels

LEMMA SmsInit == ASSUME SA!SmsAdminAssumption, SA!Init PROVE SmsInv
<1>1. req \in [Req -> SA!Handler] /\ \A q \in Req : req[q] = SA!Idle
  BY SmsIdle DEF SA!Init
<1>2. channels \in [Channel -> SA!SmsChannel] /\ SA!Defaults = {}
  BY DEF SA!Init, SA!SmsChannel, SA!Defaults, SA!Present
<1>3. keys \in SA!SmsClientKeys /\ policies \in SA!SmsPolicies
  BY DEF SA!Init, SA!SmsPolicies, SA!SmsClientKeys
<1>4. edits \in 0..MaxEdits /\ clash \in BOOLEAN
  <2>1. MaxEdits \in Nat
    BY DEF SA!SmsAdminAssumption
  <2>2. edits = 0 /\ clash \in BOOLEAN
    BY Zenon DEF SA!Init
  <2> QED
    BY <2>1, <2>2
<1>5. SA!TypeOK
  BY <1>1, <1>2, <1>3, <1>4, SmsIdle DEF SA!TypeOK
<1> QED
  BY <1>1, <1>2, <1>5, SmsIdle DEF SmsInv

\* A handler goes on as h, and nothing is written.
LEMMA SmsGoto ==
    ASSUME SmsInv, NEW q \in Req, NEW h \in SA!Handler, SA!Goto(q, h),
           KnowsChannels(h, channels, SA!Present, SA!Defaults), h.pc = "write" => h.name \notin h.others,
           UNCHANGED <<channels, policies, keys, clash>>
    PROVE  SmsInv'
<1>1. /\ req'[q] = h /\ \A r \in Req : r # q => req'[r] = req[r]
      /\ req' \in [Req -> SA!Handler] /\ edits' = edits
  BY DEF SA!Goto, SmsInv, SA!TypeOK
<1>2. SA!Present' = SA!Present /\ SA!Defaults' = SA!Defaults
  BY DEF SA!Present, SA!Defaults
<1>3. SA!TypeOK'
  BY <1>1 DEF SmsInv, SA!TypeOK
<1>4. \A r \in Req : KnowsChannels(req'[r], channels', SA!Present', SA!Defaults')
  BY <1>1, <1>2 DEF SmsInv
<1> QED
  BY <1>2, <1>3, <1>4 DEF SmsInv

\* After a commit the others know that they overlap, and nothing else matters of what they know.
LEMMA SmsCommitted ==
    ASSUME SmsInv, NEW q, SA!Committed(q), SA!SmsAdminAssumption
    PROVE  /\ req' \in [Req -> SA!Handler] /\ edits' \in 0..MaxEdits
           /\ \A r \in Req : req'[r].pc = "write" => req'[r].name \notin req'[r].others
           /\ \A r \in Req : \A rows, here, defs : KnowsChannels(req'[r], rows, here, defs)
<1> DEFINE New(r) == IF r = q THEN SA!Idle
                     ELSE IF req[r].pc = "idle" THEN req[r] ELSE [req[r] EXCEPT !.overlap = TRUE]
<1>1. req' = [r \in Req |-> New(r)] /\ edits < MaxEdits /\ edits' = edits + 1
  BY DEF SA!Committed
<1>2. edits' \in 0..MaxEdits
  BY <1>1 DEF SmsInv, SA!TypeOK, SA!SmsAdminAssumption
<1>3. ASSUME NEW r \in Req
      PROVE  /\ New(r) \in SA!Handler
             /\ New(r).pc = "write" => New(r).name \notin New(r).others
             /\ \A rows, here, defs : KnowsChannels(New(r), rows, here, defs)
  <2>1. req[r] \in SA!Handler /\ KnowsChannels(req[r], channels, SA!Present, SA!Defaults)
        /\ (req[r].pc = "write" => req[r].name \notin req[r].others)
    BY DEF SmsInv, SA!TypeOK
  <2> DEFINE h == [req[r] EXCEPT !.overlap = TRUE]
  <2>2. /\ h \in SA!Handler /\ h.pc = req[r].pc /\ h.name = req[r].name /\ h.want = req[r].want
        /\ h.old = req[r].old /\ h.clears = req[r].clears /\ h.others = req[r].others /\ h.overlap
    BY <2>1 DEF SA!Handler
  <2> HIDE DEF h
  <2>3. \A rows, here, defs : KnowsChannels(h, rows, here, defs)
    BY <2>1, <2>2 DEF KnowsChannels
  <2>4. req[r].pc = "idle" => \A rows, here, defs : KnowsChannels(req[r], rows, here, defs)
    BY DEF KnowsChannels
  <2>5. New(r) = SA!Idle \/ (New(r) = req[r] /\ req[r].pc = "idle") \/ New(r) = h
    BY DEF h
  <2> DEFINE Good(x) == /\ x \in SA!Handler /\ (x.pc = "write" => x.name \notin x.others)
                        /\ \A rows, here, defs : KnowsChannels(x, rows, here, defs)
  <2>6. Good(SA!Idle)
    BY SmsIdle
  <2>7. req[r].pc = "idle" => Good(req[r])
    BY <2>1, <2>4
  <2>8. Good(h)
    BY <2>1, <2>2, <2>3
  <2>9. Good(New(r))
    <3> HIDE DEF Good, New
    <3> QED
      BY <2>5, <2>6, <2>7, <2>8
  <2> QED
    BY <2>9
<1> HIDE DEF New
<1>4. req' \in [Req -> SA!Handler] /\ \A r \in Req : req'[r] = New(r)
  BY <1>1, <1>3
<1> QED
  BY <1>2, <1>3, <1>4

\* A commit that writes such channels keeps the invariant.
LEMMA SmsCommit ==
    ASSUME SmsInv, NEW q, SA!Committed(q), SA!SmsAdminAssumption,
           channels' \in [Channel -> SA!SmsChannel], policies' \subseteq Policy, UNCHANGED keys, clash' \in BOOLEAN,
           clash' \/ \A a, b \in SA!Defaults' : a = b
    PROVE  SmsInv'
<1>1. SA!TypeOK'
  BY SmsCommitted DEF SA!TypeOK, SmsInv, SA!SmsPolicies
<1>2. \A r \in Req : KnowsChannels(req'[r], channels', SA!Present', SA!Defaults')
  BY SmsCommitted
<1> QED
  BY <1>1, <1>2 DEF SmsInv

LEMMA SmsRead ==
    ASSUME SmsInv, NEW q \in Req, NEW c \in Channel, NEW want \in SA!Flags, NEW clears \in BOOLEAN,
           SA!ReadChannel(q, c, want, clears),
           ~clears => (want.isDefault => channels[c] # None /\ channels[c].isDefault)
    PROVE  SmsInv'
<1> DEFINE pc == IF clears THEN "others" ELSE "write"
           old == channels[c]
           h == [SA!Idle EXCEPT !.pc = pc, !.name = c, !.want = want, !.old = old, !.clears = clears]
<1>1. SA!Goto(q, h) /\ UNCHANGED <<channels, policies, keys, clash>>
  BY DEF SA!ReadChannel
<1>2. old \in SA!SmsChannel /\ pc \in {"others", "write"} /\ (pc = "others" <=> clears)
  BY DEF SmsInv, SA!TypeOK
<1>3. old = channels[c]
  OBVIOUS
<1> HIDE DEF pc, old
<1>4. /\ h \in SA!Handler /\ h.pc = pc /\ h.name = c /\ h.want = want /\ h.old = old /\ h.others = {}
      /\ h.clears = clears
  BY <1>2 DEF SA!Idle, SA!Handler
<1> HIDE DEF h
<1>5. KnowsChannels(h, channels, SA!Present, SA!Defaults)
  BY <1>2, <1>3, <1>4 DEF KnowsChannels
<1> QED
  BY <1>1, <1>4, <1>5, SmsGoto

LEMMA SmsUpsert ==
    ASSUME SmsInv, NEW q \in Req, NEW c \in Channel, NEW data \in SA!Requested, SA!UpsertChannel(q, c, data)
    PROVE  SmsInv'
<1>1. data \in SA!Flags /\ data.isDefault \in BOOLEAN
  BY DEF SA!Requested, SA!Flags
<1> QED
  BY <1>1, SmsRead DEF SA!UpsertChannel

LEMMA SmsPatch ==
    ASSUME SmsInv, SA!SmsAdminAssumption, NEW q \in Req, NEW c \in Channel, NEW flag \in {{}, {TRUE}, {FALSE}},
           NEW p \in {{}} \cup {{x} : x \in Given}, SA!PatchChannel(q, c, flag, p)
    PROVE  SmsInv'
<1> DEFINE isDefault == IF flag = {} THEN channels[c].isDefault ELSE flag = {TRUE}
           policy == IF p = {} THEN channels[c].policy ELSE CHOOSE x \in p : TRUE
           want == [isDefault |-> isDefault, policy |-> policy]
           clears == flag = {TRUE}
<1>1. channels[c] # None /\ SA!ReadChannel(q, c, want, clears)
  BY DEF SA!PatchChannel
<1>2. channels[c] \in SA!Flags
  BY <1>1 DEF SmsInv, SA!TypeOK, SA!SmsChannel
<1>3. policy \in Policy \cup {None}
  <2>1. ASSUME p # {} PROVE (CHOOSE x \in p : TRUE) \in p
    BY <2>1
  <2>2. p \subseteq Policy \cup {None}
    BY DEF SA!SmsAdminAssumption
  <2> QED
    BY <1>2, <2>1, <2>2 DEF SA!Flags
<1>4. {TRUE} # {FALSE}
  OBVIOUS
<1>5. isDefault \in BOOLEAN /\ clears \in BOOLEAN /\ (~clears => (isDefault => channels[c].isDefault))
  BY <1>2, <1>4 DEF SA!Flags
<1> HIDE DEF isDefault, policy, clears
<1>6. want \in SA!Flags /\ (want.isDefault => isDefault)
  BY <1>3, <1>5 DEF SA!Flags
<1> HIDE DEF want
<1> QED
  BY <1>1, <1>5, <1>6, SmsRead

LEMMA SmsOthers == ASSUME SmsInv, NEW q \in Req, SA!SelectOthers(q) PROVE SmsInv'
<1> DEFINE x == req[q]
           others == SA!Rivals(x.name)
           h == [x EXCEPT !.pc = "write", !.others = others]
<1>1. x.pc = "others" /\ SA!Goto(q, h) /\ UNCHANGED <<channels, policies, keys, clash>>
  BY DEF SA!SelectOthers
<1>2. x \in SA!Handler /\ KnowsChannels(x, channels, SA!Present, SA!Defaults)
  BY DEF SmsInv, SA!TypeOK
<1>3. others \subseteq Channel /\ others = SA!Defaults \ {x.name}
  BY DEF SA!Rivals, SA!Defaults, SA!Present
<1> HIDE DEF others
<1>4. /\ h \in SA!Handler /\ h.pc = "write" /\ h.name = x.name /\ h.want = x.want /\ h.old = x.old
      /\ h.others = others /\ h.clears = x.clears /\ h.overlap = x.overlap
  BY <1>2, <1>3 DEF SA!Handler
<1> HIDE DEF h
<1>5. KnowsChannels(h, channels, SA!Present, SA!Defaults)
  BY <1>1, <1>2, <1>3, <1>4 DEF KnowsChannels
<1> QED
  BY <1>1, <1>3, <1>4, <1>5, SmsGoto

\* A write that is alone leaves the channel it makes the default one, or makes none one.
LEMMA SmsWrite == ASSUME SmsInv, SA!SmsAdminAssumption, NEW q \in Req, SA!WriteChannel(q) PROVE SmsInv'
<1> DEFINE h == req[q]
           New(c) == IF c \in h.others THEN [channels[c] EXCEPT !.isDefault = FALSE]
                     ELSE IF c # h.name THEN channels[c]
                     ELSE IF h.old = None THEN h.want
                     ELSE IF channels[c] = None THEN None
                     ELSE SA!Columns(h.old, h.want, channels[c])
<1>1. /\ h.pc = "write" /\ SA!Writable(h) /\ channels' = [c \in Channel |-> New(c)]
      /\ clash' = IF h.overlap THEN TRUE ELSE clash /\ ~h.clears
      /\ SA!Committed(q) /\ UNCHANGED <<policies, keys>>
  BY DEF SA!WriteChannel
<1>2. /\ h \in SA!Handler /\ KnowsChannels(h, channels, SA!Present, SA!Defaults)
      /\ h.name \notin h.others /\ h.others \subseteq SA!Present /\ channels \in [Channel -> SA!SmsChannel]
  BY <1>1 DEF SmsInv, SA!TypeOK, SA!Writable
<1>3. /\ h.name \in Channel /\ h.want \in SA!Flags /\ h.old \in SA!SmsChannel
  BY <1>1, <1>2 DEF KnowsChannels, SA!Handler
<1>4. ASSUME NEW c \in Channel
      PROVE  /\ New(c) \in SA!SmsChannel
             /\ c \in h.others => ~New(c).isDefault
             /\ c \notin h.others /\ c # h.name => New(c) = channels[c]
             /\ ~h.overlap /\ ~h.clears /\ c = h.name /\ New(c) # None /\ New(c).isDefault => c \in SA!Defaults
  <2>1. ASSUME c \in h.others PROVE New(c) \in SA!Flags /\ ~New(c).isDefault
    <3>1. channels[c] \in SA!Flags
      BY <1>2, <2>1 DEF SA!Present, SA!SmsChannel
    <3>2. New(c) = [channels[c] EXCEPT !.isDefault = FALSE]
      BY <2>1
    <3> QED
      BY <3>1, <3>2 DEF SA!Flags
  <2>2. ASSUME c = h.name, h.old = None
        PROVE  New(c) \in SA!Flags /\ (~h.clears => ~New(c).isDefault)
    <3>1. New(c) = h.want
      BY <1>2, <2>2
    <3> QED
      BY <1>1, <1>2, <1>3, <2>2, <3>1 DEF KnowsChannels
  <2>3. ASSUME c = h.name, h.old # None, channels[c] # None
        PROVE  /\ New(c) \in SA!Flags
               /\ ~h.overlap /\ ~h.clears /\ New(c).isDefault => channels[c].isDefault
    <3>1. New(c) = SA!Columns(h.old, h.want, channels[c])
      BY <1>2, <2>3
    <3>2. h.old \in SA!Flags /\ channels[c] \in SA!Flags
      BY <1>2, <1>3, <2>3 DEF SA!SmsChannel
    <3> DEFINE flag == IF h.want.isDefault # h.old.isDefault THEN h.want.isDefault ELSE channels[c].isDefault
               policy == IF h.want.policy # h.old.policy THEN h.want.policy ELSE channels[c].policy
    <3>3. flag \in BOOLEAN /\ policy \in Policy \cup {None}
      BY <1>3, <3>2 DEF SA!Flags
    <3>4. ~h.overlap /\ ~h.clears /\ flag => channels[c].isDefault
      <4>1. h.want.isDefault \in BOOLEAN /\ h.old.isDefault \in BOOLEAN
        BY <1>3, <3>2 DEF SA!Flags
      <4>2. ~h.clears => (h.want.isDefault => h.old.isDefault)
        BY <1>1, <1>2 DEF KnowsChannels
      <4>3. ~h.overlap => h.old = channels[c]
        BY <1>1, <1>2, <2>3 DEF KnowsChannels
      <4> QED
        BY <4>1, <4>2, <4>3
    <3>5. New(c) = [isDefault |-> flag, policy |-> policy]
      BY <3>1 DEF SA!Columns
    <3> HIDE DEF flag, policy
    <3>6. New(c) \in SA!Flags /\ (New(c).isDefault => flag)
      BY <3>3, <3>5 DEF SA!Flags
    <3> QED
      BY <3>4, <3>6
  <2>4. c \notin h.others /\ c # h.name => New(c) = channels[c]
    OBVIOUS
  <2>5. c = h.name /\ h.old # None /\ channels[c] = None => New(c) = None
    BY <1>2
  <2> HIDE DEF New
  <2>6. New(c) \in SA!SmsChannel
    BY <1>2, <2>1, <2>2, <2>3, <2>4, <2>5 DEF SA!SmsChannel
  <2>7. ~h.overlap /\ ~h.clears /\ c = h.name /\ New(c) # None /\ New(c).isDefault => c \in SA!Defaults
    BY <2>2, <2>3, <2>5 DEF SA!Defaults, SA!Present
  <2> QED
    BY <2>1, <2>4, <2>6, <2>7
<1> HIDE DEF New
<1>5. channels' \in [Channel -> SA!SmsChannel] /\ \A c \in Channel : channels'[c] = New(c)
  BY <1>1, <1>4
<1>6. clash' \in BOOLEAN /\ (~clash' => ~h.overlap /\ (h.clears \/ ~clash))
  <2>1. h.overlap \in BOOLEAN /\ h.clears \in BOOLEAN /\ clash \in BOOLEAN
    BY <1>2 DEF SA!Handler, SmsInv, SA!TypeOK
  <2> QED
    BY <1>1, <2>1
<1>7. ASSUME ~clash' PROVE \A a, b \in SA!Defaults' : a = b
  <2>1. ~h.overlap
    BY <1>6, <1>7
  <2>2. ASSUME h.clears PROVE SA!Defaults' \subseteq {h.name}
    <3>1. h.others = SA!Defaults \ {h.name}
      BY <1>1, <1>2, <2>1, <2>2 DEF KnowsChannels
    <3>2. ASSUME NEW c \in Channel, c # h.name PROVE c \notin SA!Defaults'
      BY <1>4, <1>5, <3>1, <3>2 DEF SA!Defaults, SA!Present
    <3> QED
      BY <3>2 DEF SA!Defaults, SA!Present
  <2>3. ASSUME ~h.clears PROVE SA!Defaults' \subseteq SA!Defaults
    <3>1. ASSUME NEW c \in Channel, c \in SA!Defaults' PROVE c \in SA!Defaults
      <4>1. New(c) # None /\ New(c).isDefault
        BY <1>5, <3>1 DEF SA!Defaults, SA!Present
      <4> QED
        BY <1>4, <2>1, <2>3, <4>1 DEF SA!Defaults, SA!Present
    <3> QED
      BY <3>1 DEF SA!Defaults, SA!Present
  <2>4. ~h.clears => \A a, b \in SA!Defaults : a = b
    BY <1>6, <1>7 DEF SmsInv
  <2> QED
    BY <2>2, <2>3, <2>4
<1> QED
  BY <1>1, <1>5, <1>6, <1>7, SmsCommit DEF SmsInv, SA!TypeOK, SA!SmsPolicies

LEMMA SmsDeleteChannel ==
    ASSUME SmsInv, SA!SmsAdminAssumption, NEW c \in Channel, SA!DeleteChannel(c) PROVE SmsInv'
<1>1. channels' = [channels EXCEPT ![c] = None] /\ SA!Committed(None) /\ UNCHANGED <<policies, keys, clash>>
  BY DEF SA!DeleteChannel
<1>2. channels' \in [Channel -> SA!SmsChannel] /\ SA!Defaults' \subseteq SA!Defaults
  BY <1>1 DEF SmsInv, SA!TypeOK, SA!SmsChannel, SA!Defaults, SA!Present
<1> QED
  BY <1>1, <1>2, SmsCommit DEF SmsInv, SA!TypeOK, SA!SmsPolicies

LEMMA SmsPolicy ==
    ASSUME SmsInv, SA!SmsAdminAssumption,
           (\E p \in Policy : SA!UpsertPolicy(p)) \/ \E q \in Req : SA!DeletePolicy(q)
    PROVE  SmsInv'
<1>1. PICK q : SA!Committed(q) /\ policies' \subseteq Policy /\ UNCHANGED <<channels, keys, clash>>
  BY DEF SA!UpsertPolicy, SA!DeletePolicy, SmsInv, SA!TypeOK, SA!SmsPolicies
<1>2. SA!Defaults' = SA!Defaults
  BY <1>1 DEF SA!Defaults, SA!Present
<1> QED
  BY <1>1, <1>2, SmsCommit DEF SmsInv, SA!TypeOK

LEMMA SmsReadPolicy ==
    ASSUME SmsInv, NEW q \in Req, (\E p \in Policy : SA!ReadPolicy(q, p)) \/ SA!CountReferences(q) \/ SA!Fail(q)
    PROVE  SmsInv'
<1>1. UNCHANGED <<channels, policies, keys, clash>>
  BY DEF SA!ReadPolicy, SA!CountReferences, SA!Fail
<1>2. ASSUME SA!Goto(q, SA!Idle) PROVE SmsInv'
  BY <1>1, <1>2, SmsIdle, SmsGoto
<1>3. ASSUME NEW p \in Policy, SA!ReadPolicy(q, p) PROVE SmsInv'
  <2> DEFINE h == [SA!Idle EXCEPT !.pc = "count", !.name = p]
  <2>1. SA!Goto(q, h)
    BY <1>3 DEF SA!ReadPolicy
  <2>2. h \in SA!Handler /\ h.pc = "count"
    BY SmsIdle DEF SA!Idle, SA!Handler
  <2> HIDE DEF h
  <2>3. KnowsChannels(h, channels, SA!Present, SA!Defaults)
    BY <2>2 DEF KnowsChannels
  <2> QED
    BY <1>1, <2>1, <2>2, <2>3, SmsGoto
<1>4. ASSUME req[q].pc = "count", SA!Goto(q, [req[q] EXCEPT !.pc = "delete"]) PROVE SmsInv'
  <2> DEFINE h == [req[q] EXCEPT !.pc = "delete"]
  <2>1. SA!Goto(q, h)
    BY <1>4
  <2>2. h \in SA!Handler /\ h.pc = "delete"
    BY DEF SmsInv, SA!TypeOK, SA!Handler
  <2> HIDE DEF h
  <2>3. KnowsChannels(h, channels, SA!Present, SA!Defaults)
    BY <2>2 DEF KnowsChannels
  <2> QED
    BY <1>1, <2>1, <2>2, <2>3, SmsGoto
<1> QED
  BY <1>2, <1>3, <1>4 DEF SA!CountReferences, SA!Fail

LEMMA SmsStartSelect == ASSUME SmsInv, SA!SmsAdminAssumption, NEW q \in Req, SA!StartSelect(q) PROVE SmsInv'
<1> DEFINE name == IF Default \in policies THEN None ELSE Default
           h == [SA!Idle EXCEPT !.pc = "start", !.others = SA!Present, !.name = name]
<1>1. SA!Goto(q, h) /\ UNCHANGED <<channels, policies, keys, clash>>
  BY DEF SA!StartSelect
<1>2. SA!Present \subseteq Channel /\ name \in Policy \cup {None}
  BY DEF SA!Present, SA!SmsAdminAssumption
<1> HIDE DEF name
<1>3. h \in SA!Handler /\ h.pc = "start" /\ h.others = SA!Present
  BY <1>2, SmsIdle DEF SA!Idle, SA!Handler
<1> HIDE DEF h
<1>4. KnowsChannels(h, channels, SA!Present, SA!Defaults)
  BY <1>3 DEF KnowsChannels
<1> QED
  BY <1>1, <1>3, <1>4, SmsGoto

\* A start that is alone makes a default channel only where there is no channel.
LEMMA SmsStartCommit == ASSUME SmsInv, SA!SmsAdminAssumption, NEW q \in Req, SA!StartCommit(q) PROVE SmsInv'
<1> DEFINE h == req[q]
           row == [isDefault |-> TRUE, policy |-> Default]
           made == SA!Made(h)
<1>1. /\ h.pc = "start" /\ policies' \subseteq policies \cup {Default}
      /\ channels' = [c \in Channel |-> IF c \in made THEN row ELSE channels[c]]
      /\ clash' = (clash \/ (h.overlap /\ made # {})) /\ SA!Committed(q) /\ UNCHANGED keys
  BY DEF SA!StartCommit
<1>2. row \in SA!Flags /\ channels \in [Channel -> SA!SmsChannel] /\ policies' \subseteq Policy
  BY <1>1 DEF SA!Flags, SA!SmsAdminAssumption, SmsInv, SA!TypeOK, SA!SmsPolicies
<1> HIDE DEF row
<1>3. channels' \in [Channel -> SA!SmsChannel]
  BY <1>1, <1>2 DEF SA!SmsChannel
<1>4. clash' \in BOOLEAN
  BY <1>1
<1>5. ASSUME ~clash' PROVE \A a, b \in SA!Defaults' : a = b
  <2>1. made = {} => SA!Defaults' = SA!Defaults
    BY <1>1, <1>2 DEF SA!Defaults, SA!Present
  <2>2. ASSUME made # {} PROVE SA!Defaults' \subseteq {Underline}
    <3>1. h.others = {} /\ made = {Underline}
      BY <2>2 DEF SA!Made
    <3>2. SA!Present = {}
      BY <1>1, <1>5, <2>2, <3>1 DEF SmsInv, KnowsChannels
    <3> QED
      BY <1>1, <3>1, <3>2 DEF SA!Defaults, SA!Present
  <2> QED
    BY <1>1, <1>5, <2>1, <2>2 DEF SmsInv
<1> QED
  BY <1>1, <1>2, <1>3, <1>4, <1>5, SmsCommit

\* Every step keeps it, and so does a step of another part.
LEMMA SmsKept == ASSUME SA!SmsAdminAssumption PROVE SmsInv /\ [SA!Next]_(SA!vars) => SmsInv'
<1>1. ASSUME SmsInv, SA!Next PROVE SmsInv'
  <2>1. ASSUME NEW k \in Key, SA!DeleteClientKey(k) \/ \E c \in Channel : SA!CreateClientKey(k, c) PROVE SmsInv'
    <3>1. keys' \in SA!SmsClientKeys /\ UNCHANGED <<channels, policies, req, edits, clash>>
      BY <1>1, <2>1 DEF SA!DeleteClientKey, SA!CreateClientKey, SmsInv, SA!TypeOK, SA!SmsClientKeys
    <3> QED
      BY <1>1, <3>1 DEF SmsInv, SA!TypeOK, SA!Present, SA!Defaults
  <2> QED
    BY <1>1, <2>1, SmsUpsert, SmsPatch, SmsOthers, SmsWrite, SmsDeleteChannel, SmsPolicy, SmsReadPolicy,
       SmsStartSelect, SmsStartCommit DEF SA!Next
<1>2. ASSUME SmsInv, UNCHANGED SA!vars PROVE SmsInv'
  BY <1>2 DEF SA!vars, SmsInv, SA!TypeOK, SA!Present, SA!Defaults
<1> QED
  BY <1>1, <1>2

\* A channel request that is alone knows the row it writes and the default channels.
THEOREM SmsInvariant == ASSUME SA!SmsAdminAssumption PROVE SA!Spec => []SmsInv
BY SmsInit, SmsKept, PTL DEF SA!Spec

\* The same where it is one of nine parts: the others leave its variables alone.
LEMMA SmsRun == Spec => [](part = "sms" => SmsInv)
<1>1. SA!SmsAdminAssumption
  BY PartsAssumption DEF PartsAssumption
<1>2. Init => (part = "sms" => SmsInv)
  BY <1>1, SmsInit DEF Init
<1>3. ASSUME part = "sms" => SmsInv, [Next]_vars PROVE (part = "sms" => SmsInv)'
  <2>1. part' = part
    BY <1>3 DEF Next, OthersRest, vars
  <2>2. part = "sms" => [SA!Next]_(SA!vars)
    BY <1>3 DEF Next, vars, smsVars, SA!vars
  <2> QED
    BY <1>1, <1>3, <2>1, <2>2, SmsKept
<1> QED
  BY <1>2, <1>3, PTL DEF Spec

\* Every caller's sends run under one policy, whichever row the database returns first, until
\* requests that write channels overlap (_resolve_channel_and_policy, upsert_channel).
THEOREM OnePolicyHolds == Spec => []OnePolicy
<1>0. SA!SmsAdminAssumption
  BY PartsAssumption DEF PartsAssumption
<1> USE <1>0
<1>1. ASSUME SmsInv, ~clash, NEW name \in Channel \cup {None}
      PROVE  \E p \in Policy : SA!ResolvedPolicies(name) = {p}
  <2> DEFINE found == IF name # None THEN {name} \cap SA!Present ELSE SA!DefaultChannel
             Of(c) == IF channels[c].policy = None THEN Default ELSE channels[c].policy
  <2>1. \A c \in SA!Present : Of(c) \in Policy /\ Default \in Policy
    BY <1>1 DEF SmsInv, SA!TypeOK, SA!SmsChannel, SA!Flags, SA!Present, SA!SmsAdminAssumption
  <2>2. Default \in Policy
    BY DEF SA!SmsAdminAssumption
  <2>3. found = {} \/ \E c \in SA!Present : found = {c}
    <3>1. SA!Defaults = {} \/ \E c \in SA!Defaults : SA!Defaults = {c}
      BY <1>1 DEF SmsInv
    <3>2. SA!Defaults \subseteq SA!Present
      BY DEF SA!Defaults
    <3>3. SA!Present # {} => (CHOOSE c \in SA!Present : TRUE) \in SA!Present
      OBVIOUS
    <3>4. SA!DefaultChannel = {} \/ \E c \in SA!Present : SA!DefaultChannel = {c}
      <4>1. \/ SA!DefaultChannel = SA!Defaults
            \/ SA!DefaultChannel = {}
            \/ SA!Present # {} /\ SA!DefaultChannel = {CHOOSE c \in SA!Present : TRUE}
        BY DEF SA!DefaultChannel
      <4> QED
        BY <3>1, <3>2, <3>3, <4>1
    <3>5. ASSUME name # None PROVE found = {} \/ \E c \in SA!Present : found = {c}
      <4>1. found = {name} \cap SA!Present
        BY <3>5
      <4>2. name \in SA!Present => found = {name}
        BY <4>1
      <4>3. name \notin SA!Present => found = {}
        BY <4>1
      <4> QED
        BY <4>2, <4>3
    <3>6. name = None => found = SA!DefaultChannel
      OBVIOUS
    <3> QED
      BY <3>4, <3>5, <3>6
  <2>4. SA!ResolvedPolicies(name) = {Of(c) : c \in found} \cup (IF found = {} THEN {Default} ELSE {})
    BY DEF SA!ResolvedPolicies
  <2> HIDE DEF found, Of
  <2>5. ASSUME found = {} PROVE SA!ResolvedPolicies(name) = {Default}
    BY <2>4, <2>5
  <2>6. ASSUME NEW c \in SA!Present, found = {c} PROVE SA!ResolvedPolicies(name) = {Of(c)}
    BY <2>4, <2>6
  <2> QED
    BY <2>1, <2>2, <2>3, <2>5, <2>6
<1>2. ASSUME SmsInv, NEW k \in Key \cup {None}, NEW name \in SA!ApiKeyChannel(k) PROVE name \in Channel \cup {None}
  BY <1>2 DEF SA!ApiKeyChannel, SmsInv, SA!TypeOK, SA!SmsClientKeys
<1>3. SmsInv => SA!OnePolicy
  BY <1>1, <1>2 DEF SA!OnePolicy
<1>4. (part = "sms" => SmsInv) => OnePolicy
  BY <1>3 DEF OnePolicy
<1> QED
  BY <1>4, SmsRun, PTL

----------------------------------------------------------------------------
(* Completion.                                                             *)

\* What request q has in the cache of prompt p.
Cached(q, p) == req[q].prompt = p /\ q \notin calllog /\ ~req[q].failed /\ req[q].pc \in {"commit", "done"}

\* The inductive invariant: only a call that failed is about to be logged, and it has stored
\* nothing.
CompletionInv ==
    /\ CM!TypeOK
    /\ \A q \in Crowd : q \in calllog <=> answer[q] = 502
    /\ \A q \in Crowd : req[q].failed => req[q].pc = "commit"
    /\ \A p \in Prompt : cache[p] # None => Cached(cache[p], p)

LEMMA CompletionInit == ASSUME CM!CompletionAssumption, CM!Init PROVE CompletionInv
<1>1. CM!Started \in CM!Handler /\ CM!Started.pc = "start" /\ ~CM!Started.failed
  BY DEF CM!Started, CM!Handler, CM!Minute, CM!CompletionAssumption
<1>2. req \in [Crowd -> CM!Handler] /\ \A q \in Crowd : req[q] = CM!Started
  BY <1>1 DEF CM!Init
<1>3. minute \in CM!Minute /\ rpm \in [CM!Minute -> Nat] /\ tpm \in [CM!Minute -> Nat]
  BY DEF CM!Init, CM!Minute, CM!CompletionAssumption
<1>4. cache \in [Prompt -> Crowd \cup {None}] /\ calllog = {} /\ answer \in [Crowd -> {0, 429, 500, 502}]
  BY DEF CM!Init
<1>5. \A q \in Crowd : answer[q] = 0
  BY DEF CM!Init
<1>6. CM!TypeOK
  BY <1>1, <1>2, <1>3, <1>4, <1>5 DEF CM!TypeOK
<1>7. \A p \in Prompt : cache[p] = None
  BY DEF CM!Init
<1> QED
  BY <1>1, <1>2, <1>4, <1>5, <1>6, <1>7 DEF CompletionInv

\* The pipeline leaves counters.
LEMMA CompletionCounts ==
    ASSUME CompletionInv, NEW m \in CM!Minute, NEW t \in Nat, CM!Increment(m, t)
    PROVE  rpm' \in [CM!Minute -> Nat] /\ tpm' \in [CM!Minute -> Nat]
BY DEF CM!Increment, CompletionInv, CM!TypeOK

\* A request that has stored nothing yet goes on as h.
LEMMA CompletionGoto ==
    ASSUME CompletionInv, NEW q \in Crowd, NEW h \in CM!Handler, CM!Goto(q, h),
           req[q].pc \notin {"commit", "done"}, h.pc # "done", h.failed => h.pc = "commit",
           rpm' \in [CM!Minute -> Nat], tpm' \in [CM!Minute -> Nat], UNCHANGED cache
    PROVE  CompletionInv'
<1>1. /\ req'[q] = h /\ \A r \in Crowd : r # q => req'[r] = req[r]
      /\ req' \in [Crowd -> CM!Handler] /\ UNCHANGED <<minute, calllog, answer>>
  BY DEF CM!Goto, CompletionInv, CM!TypeOK
<1>2. CM!TypeOK'
  BY <1>1 DEF CompletionInv, CM!TypeOK
<1>3. ASSUME NEW p \in Prompt, cache[p] # None PROVE Cached(cache[p], p)'
  <2>1. Cached(cache[p], p) /\ cache[p] \in Crowd
    BY <1>3 DEF CompletionInv, CM!TypeOK
  <2>2. cache[p] # q
    BY <2>1 DEF Cached
  <2> QED
    BY <1>1, <2>1, <2>2 DEF Cached
<1> QED
  BY <1>1, <1>2, <1>3 DEF CompletionInv

\* A request ends: with 502 and a row, or with neither.
LEMMA CompletionEnded ==
    ASSUME CompletionInv, CM!CompletionAssumption, NEW q \in Crowd, NEW rows, NEW status \in {429, 500, 502},
           CM!Ended(q, rows, status),
           req[q].pc # "done",
           \/ rows = {} /\ status # 502
           \/ rows = {q} /\ status = 502 /\ req[q].failed,
           rpm' \in [CM!Minute -> Nat], tpm' \in [CM!Minute -> Nat], UNCHANGED cache
    PROVE  CompletionInv'
<1> DEFINE x == req[q]
           h == [CM!Started EXCEPT !.pc = "done", !.prompt = x.prompt, !.tokens = x.tokens,
                                   !.admitted = x.admitted, !.counted = x.counted]
<1>1. /\ req' = [req EXCEPT ![q] = h] /\ calllog' = calllog \cup rows
      /\ answer' = [answer EXCEPT ![q] = status] /\ minute' = minute
  BY DEF CM!Ended
<1>2. x \in CM!Handler /\ answer[q] = 0 /\ q \notin calllog
  BY DEF CompletionInv, CM!TypeOK
<1>3. 0 \in CM!Minute
  BY DEF CM!Minute, CM!CompletionAssumption
<1>4. h \in CM!Handler /\ h.pc = "done" /\ h.prompt = x.prompt /\ ~h.failed
  <2>0. CM!Started \in CM!Handler /\ ~CM!Started.failed
    BY <1>3 DEF CM!Started, CM!Handler
  <2>1. PICK s \in CM!Handler : s = CM!Started /\ ~s.failed
    BY <2>0
  <2>2. PICK p \in Prompt \cup {None}, t \in Tokens \cup {0}, m \in CM!Minute \cup {None}, n \in CM!Minute \cup {None} :
          p = x.prompt /\ t = x.tokens /\ m = x.admitted /\ n = x.counted
    BY <1>2 DEF CM!Handler
  <2> DEFINE k == [s EXCEPT !.pc = "done", !.prompt = p, !.tokens = t, !.admitted = m, !.counted = n]
  <2>3. h = k
    BY <2>1, <2>2
  <2>4. k \in CM!Handler /\ k.pc = "done" /\ k.prompt = p /\ ~k.failed
    BY <2>1, <2>2 DEF CM!Handler
  <2> HIDE DEF h, k
  <2> QED
    BY <2>2, <2>3, <2>4
<1> HIDE DEF h
<1>5. /\ req'[q] = h /\ \A r \in Crowd : r # q => req'[r] = req[r]
      /\ req' \in [Crowd -> CM!Handler]
  BY <1>1, <1>4 DEF CompletionInv, CM!TypeOK
<1>6. /\ answer'[q] = status /\ \A r \in Crowd : r # q => answer'[r] = answer[r]
      /\ answer' \in [Crowd -> {0, 429, 500, 502}]
  BY <1>1 DEF CompletionInv, CM!TypeOK
<1>7. calllog' \subseteq Crowd /\ (q \in calllog' <=> status = 502) /\ \A r \in Crowd : r # q => (r \in calllog' <=> r \in calllog)
  BY <1>1, <1>2 DEF CompletionInv, CM!TypeOK
<1>8. CM!TypeOK'
  BY <1>1, <1>4, <1>5, <1>6, <1>7 DEF CompletionInv, CM!TypeOK
<1>9. ASSUME NEW p \in Prompt, cache[p] # None PROVE Cached(cache[p], p)'
  <2>1. Cached(cache[p], p) /\ cache[p] \in Crowd
    BY <1>9 DEF CompletionInv, CM!TypeOK
  <2>2. cache[p] = q => rows = {}
    BY <2>1 DEF Cached
  <2> QED
    BY <1>1, <1>4, <1>5, <1>7, <2>1, <2>2 DEF Cached
<1> QED
  BY <1>4, <1>5, <1>6, <1>7, <1>8, <1>9 DEF CompletionInv

LEMMA CompletionStart ==
    ASSUME CompletionInv, NEW q \in Crowd, NEW p \in Prompt, NEW t \in Ttl, CM!Start(q, p, t)
    PROVE  CompletionInv'
<1> DEFINE h == [req[q] EXCEPT !.pc = "count", !.prompt = p, !.ttl = t, !.bucket = minute]
<1>1. req[q].pc = "start" /\ CM!Goto(q, h) /\ UNCHANGED <<rpm, tpm, cache>>
  BY DEF CM!Start, CM!At
<1>2. req[q] \in CM!Handler /\ ~req[q].failed /\ minute \in CM!Minute
  BY <1>1 DEF CompletionInv, CM!TypeOK
<1>3. h \in CM!Handler /\ h.pc = "count" /\ h.failed = req[q].failed
  BY <1>2 DEF CM!Handler
<1> HIDE DEF h
<1> QED
  BY <1>1, <1>2, <1>3, CompletionGoto DEF CompletionInv, CM!TypeOK

LEMMA CompletionCount ==
    ASSUME CompletionInv, CM!CompletionAssumption, NEW q \in Crowd, CM!Admit(q) \/ CM!Refuse(q)
    PROVE  CompletionInv'
<1> DEFINE x == req[q]
<1>1. x.pc = "count" /\ CM!Increment(x.bucket, 0) /\ UNCHANGED cache
  BY DEF CM!Admit, CM!Refuse, CM!At
<1>2. x \in CM!Handler /\ ~x.failed /\ x.bucket \in CM!Minute
  BY <1>1 DEF CompletionInv, CM!TypeOK, CM!Handler
<1>3. rpm' \in [CM!Minute -> Nat] /\ tpm' \in [CM!Minute -> Nat]
  BY <1>1, <1>2, CompletionCounts
<1>4. ASSUME CM!Admit(q) PROVE CompletionInv'
  <2> DEFINE pc == IF x.ttl # 0 THEN "lookup" ELSE "call"
             bucket == x.bucket
             h == [x EXCEPT !.pc = pc, !.admitted = bucket]
  <2>1. CM!Goto(q, h) /\ pc \in {"lookup", "call"} /\ bucket \in CM!Minute
    BY <1>2, <1>4 DEF CM!Admit
  <2> HIDE DEF pc, bucket
  <2>2. h \in CM!Handler /\ h.pc = pc /\ h.failed = x.failed
    BY <1>2, <2>1 DEF CM!Handler
  <2> HIDE DEF h
  <2> QED
    BY <1>1, <1>2, <1>3, <2>1, <2>2, CompletionGoto
<1>5. ASSUME CM!Refuse(q) PROVE CompletionInv'
  BY <1>1, <1>3, <1>5, CompletionEnded DEF CM!Refuse
<1> QED
  BY <1>4, <1>5

LEMMA CompletionLookup == ASSUME CompletionInv, NEW q \in Crowd, CM!Lookup(q) PROVE CompletionInv'
<1> DEFINE x == req[q]
           pc == IF cache[x.prompt] = None THEN "call" ELSE "commit"
           h == [x EXCEPT !.pc = pc]
<1>1. x.pc = "lookup" /\ CM!Goto(q, h) /\ UNCHANGED <<rpm, tpm, cache>> /\ pc \in {"call", "commit"}
  BY DEF CM!Lookup, CM!At
<1> HIDE DEF pc
<1>2. x \in CM!Handler /\ ~x.failed
  BY <1>1 DEF CompletionInv, CM!TypeOK
<1>3. h \in CM!Handler /\ h.pc = pc /\ h.failed = x.failed
  BY <1>1, <1>2 DEF CM!Handler
<1> HIDE DEF h
<1> QED
  BY <1>1, <1>2, <1>3, CompletionGoto DEF CompletionInv, CM!TypeOK

LEMMA CompletionAnswered ==
    ASSUME CompletionInv, NEW q \in Crowd, NEW t \in Tokens, NEW empty \in BOOLEAN, CM!Answered(q, t, empty)
    PROVE  CompletionInv'
<1> DEFINE x == req[q]
           h == [x EXCEPT !.empty = empty, !.tokens = t]
           pc == CM!AfterAnswer(h)
           g == IF t > 0 THEN [h EXCEPT !.pc = "recount", !.bucket = minute] ELSE [h EXCEPT !.pc = pc]
<1>1. x.pc = "call" /\ CM!Goto(q, g) /\ UNCHANGED <<rpm, tpm, cache>>
  BY DEF CM!Answered, CM!At
<1>2. x \in CM!Handler /\ ~x.failed /\ minute \in CM!Minute
  BY <1>1 DEF CompletionInv, CM!TypeOK
<1>3. h \in CM!Handler /\ h.failed = x.failed /\ pc \in {"store", "commit"}
  BY <1>2 DEF CM!Handler, CM!AfterAnswer
<1> HIDE DEF h, pc
<1>4. g \in CM!Handler /\ g.pc \in {"recount", "store", "commit"} /\ g.failed = h.failed
  BY <1>2, <1>3 DEF CM!Handler
<1> HIDE DEF g
<1> QED
  BY <1>1, <1>2, <1>3, <1>4, CompletionGoto DEF CompletionInv, CM!TypeOK

LEMMA CompletionProviderFails == ASSUME CompletionInv, NEW q \in Crowd, CM!ProviderFails(q) PROVE CompletionInv'
<1> DEFINE h == [req[q] EXCEPT !.pc = "commit", !.failed = TRUE]
<1>1. req[q].pc = "call" /\ CM!Goto(q, h) /\ UNCHANGED <<rpm, tpm, cache>>
  BY DEF CM!ProviderFails, CM!At
<1>2. req[q] \in CM!Handler
  BY DEF CompletionInv, CM!TypeOK
<1>3. h \in CM!Handler /\ h.pc = "commit"
  BY <1>2 DEF CM!Handler
<1> HIDE DEF h
<1> QED
  BY <1>1, <1>3, CompletionGoto DEF CompletionInv, CM!TypeOK

LEMMA CompletionRecount ==
    ASSUME CompletionInv, CM!CompletionAssumption, NEW q \in Crowd, CM!Recount(q) PROVE CompletionInv'
<1> DEFINE x == req[q]
           pc == CM!AfterAnswer(x)
           bucket == x.bucket
           h == [x EXCEPT !.pc = pc, !.counted = bucket]
<1>1. x.pc = "recount" /\ CM!Increment(x.bucket, x.tokens) /\ CM!Goto(q, h) /\ UNCHANGED cache
  BY DEF CM!Recount, CM!At
<1>2. x \in CM!Handler /\ ~x.failed /\ bucket \in CM!Minute /\ x.tokens \in Nat
  BY <1>1 DEF CompletionInv, CM!TypeOK, CM!Handler, CM!CompletionAssumption
<1>3. rpm' \in [CM!Minute -> Nat] /\ tpm' \in [CM!Minute -> Nat]
  BY <1>1, <1>2, CompletionCounts
<1>4. pc \in {"store", "commit"}
  BY DEF CM!AfterAnswer
<1> HIDE DEF pc, bucket
<1>5. h \in CM!Handler /\ h.pc = pc /\ h.failed = x.failed
  BY <1>2, <1>4 DEF CM!Handler
<1> HIDE DEF h
<1> QED
  BY <1>1, <1>2, <1>3, <1>4, <1>5, CompletionGoto

\* What is stored is the text of a call that did not fail.
LEMMA CompletionStore == ASSUME CompletionInv, NEW q \in Crowd, CM!Store(q) PROVE CompletionInv'
<1> DEFINE x == req[q]
           h == [x EXCEPT !.pc = "commit"]
<1>1. /\ x.pc = "store" /\ CM!Goto(q, h) /\ UNCHANGED <<rpm, tpm>>
      /\ cache' = [cache EXCEPT ![x.prompt] = q]
  BY DEF CM!Store, CM!At
<1>2. x \in CM!Handler /\ ~x.failed /\ answer[q] = 0 /\ q \notin calllog
  BY <1>1 DEF CompletionInv, CM!TypeOK
<1>3. h \in CM!Handler /\ h.pc = "commit" /\ h.failed = x.failed /\ h.prompt = x.prompt
  BY <1>2 DEF CM!Handler
<1> HIDE DEF h
<1>4. /\ req'[q] = h /\ \A r \in Crowd : r # q => req'[r] = req[r]
      /\ req' \in [Crowd -> CM!Handler] /\ UNCHANGED <<minute, calllog, answer>>
  BY <1>1, <1>3 DEF CM!Goto, CompletionInv, CM!TypeOK
<1>5. cache' \in [Prompt -> Crowd \cup {None}] /\ \A p \in Prompt : cache'[p] = IF p = x.prompt THEN q ELSE cache[p]
  <2>1. cache \in [Prompt -> Crowd \cup {None}]
    BY DEF CompletionInv, CM!TypeOK
  <2> QED
    BY <1>1, <2>1
<1>6. CM!TypeOK'
  BY <1>1, <1>2, <1>3, <1>4, <1>5 DEF CompletionInv, CM!TypeOK
<1>7. ASSUME NEW p \in Prompt, cache'[p] # None PROVE Cached(cache[p], p)'
  <2>1. ASSUME p = x.prompt PROVE Cached(cache[p], p)'
    BY <1>2, <1>3, <1>4, <1>5, <2>1 DEF Cached
  <2>2. ASSUME p # x.prompt PROVE Cached(cache[p], p)'
    <3>1. cache'[p] = cache[p] /\ Cached(cache[p], p) /\ cache[p] \in Crowd
      BY <1>5, <1>7, <2>2 DEF CompletionInv, CM!TypeOK
    <3>2. cache[p] # q
      BY <1>1, <3>1 DEF Cached
    <3> QED
      BY <1>4, <3>1, <3>2 DEF Cached
  <2> QED
    BY <2>1, <2>2
<1> QED
  BY <1>2, <1>3, <1>4, <1>6, <1>7 DEF CompletionInv

LEMMA CompletionEnds ==
    ASSUME CompletionInv, CM!CompletionAssumption, NEW q \in Crowd, CM!Commit(q) \/ CM!Fail(q)
    PROVE  CompletionInv'
<1>1. /\ req[q].pc # "done" /\ UNCHANGED cache
      /\ rpm' \in [CM!Minute -> Nat] /\ tpm' \in [CM!Minute -> Nat]
  BY DEF CM!Commit, CM!Fail, CM!At, CompletionInv, CM!TypeOK
<1>2. ASSUME CM!Ended(q, {}, 500) PROVE CompletionInv'
  BY <1>1, <1>2, CompletionEnded
<1>3. ASSUME CM!Ended(q, {q}, 502), req[q].failed PROVE CompletionInv'
  BY <1>1, <1>3, CompletionEnded
<1> QED
  BY <1>2, <1>3 DEF CM!Commit, CM!Fail, CM!KeptRows

\* Every step keeps it, and so does a step of another part.
LEMMA CompletionKept == ASSUME CM!CompletionAssumption PROVE CompletionInv /\ [CM!Next]_(CM!vars) => CompletionInv'
<1>1. ASSUME CompletionInv, CM!Next PROVE CompletionInv'
  <2>1. ASSUME NEW p \in Prompt, CM!Expire(p) PROVE CompletionInv'
    <3>1. /\ cache' = [cache EXCEPT ![p] = None] /\ UNCHANGED <<minute, rpm, tpm, req, calllog, answer>>
      BY <2>1 DEF CM!Expire
    <3>2. cache' \in [Prompt -> Crowd \cup {None}] /\ \A r \in Prompt : cache'[r] = cache[r] \/ cache'[r] = None
      BY <1>1, <3>1 DEF CompletionInv, CM!TypeOK
    <3>3. \A r \in Prompt : cache'[r] # None => Cached(cache[r], r)'
      BY <1>1, <3>1, <3>2 DEF CompletionInv, Cached
    <3> QED
      BY <1>1, <3>1, <3>2, <3>3 DEF CompletionInv, CM!TypeOK
  <2>2. ASSUME CM!Tick PROVE CompletionInv'
    <3>1. minute' \in CM!Minute /\ UNCHANGED <<rpm, tpm, cache, req, calllog, answer>>
      BY <1>1, <2>2 DEF CM!Tick, CompletionInv, CM!TypeOK, CM!Minute, CM!CompletionAssumption
    <3> QED
      BY <1>1, <3>1 DEF CompletionInv, CM!TypeOK, Cached
  <2> QED
    BY <1>1, <2>1, <2>2, CompletionStart, CompletionCount, CompletionLookup, CompletionAnswered,
       CompletionProviderFails, CompletionRecount, CompletionStore, CompletionEnds DEF CM!Next
<1>2. ASSUME CompletionInv, UNCHANGED CM!vars PROVE CompletionInv'
  BY <1>2 DEF CM!vars, CompletionInv, CM!TypeOK, Cached
<1> QED
  BY <1>1, <1>2

\* A request that is logged has stored nothing.
THEOREM CompletionInvariant == ASSUME CM!CompletionAssumption PROVE CM!Spec => []CompletionInv
BY CompletionInit, CompletionKept, PTL DEF CM!Spec

\* The same where it is one of nine parts: the others leave its variables alone.
LEMMA CompletionRun == Spec => [](part = "completion" => CompletionInv)
<1>1. CM!CompletionAssumption
  BY PartsAssumption DEF PartsAssumption
<1>2. Init => (part = "completion" => CompletionInv)
  BY <1>1, CompletionInit DEF Init
<1>3. ASSUME part = "completion" => CompletionInv, [Next]_vars PROVE (part = "completion" => CompletionInv)'
  <2>1. part' = part
    BY <1>3 DEF Next, OthersRest, vars
  <2>2. part = "completion" => [CM!Next]_(CM!vars)
    BY <1>3 DEF Next, vars, completionVars, CM!vars
  <2> QED
    BY <1>1, <1>3, <2>1, <2>2, CompletionKept
<1> QED
  BY <1>2, <1>3, PTL DEF Spec

\* A request has its row if and only if it was answered 502, and a cached text was made by a
\* call for its own prompt that did not fail (_run_completion).
THEOREM CallsLoggedHolds == Spec => []CallsLogged
<1>1. CompletionInv => CM!CallsLogged
  BY DEF CompletionInv, CM!CallsLogged, Cached
<1>2. (part = "completion" => CompletionInv) => CallsLogged
  BY <1>1 DEF CallsLogged
<1> QED
  BY <1>2, CompletionRun, PTL

\* A handler that is not that far has not been admitted, or counted.
Uncounted(h) ==
    /\ h.pc \in {"start", "count"} => h.admitted = None
    /\ h.pc \in {"start", "count", "lookup", "call", "recount"} => h.counted = None

\* What the counter of a minute covers: the requests it admitted and the answers it counted.
CountInv ==
    /\ \A q \in Crowd : Uncounted(req[q])
    /\ \A m \in CM!Minute : /\ IsFiniteSet(CM!AdmittedIn(m)) /\ IsFiniteSet(CM!CountedIn(m))
                            /\ Cardinality(CM!AdmittedIn(m)) + Cardinality(CM!CountedIn(m)) <= rpm[m]

\* A step that admits and counts nobody, and takes nothing from the counters.
LEMMA CountSame ==
    ASSUME CompletionInv, CountInv, NEW q \in Crowd, NEW h, req' = [req EXCEPT ![q] = h], Uncounted(h),
           h.admitted = req[q].admitted, h.counted = req[q].counted,
           \A m \in CM!Minute : rpm'[m] \in Nat /\ rpm'[m] >= rpm[m]
    PROVE  CountInv' /\ \A m \in CM!Minute : CM!AdmittedIn(m)' = CM!AdmittedIn(m)
<1>1. /\ req \in [Crowd -> CM!Handler] /\ req' \in [Crowd -> CM!Handler \cup {h}]
      /\ \A m \in CM!Minute : rpm[m] \in Nat
  BY DEF CompletionInv, CM!TypeOK
<1>2. \A x \in Crowd : req'[x].admitted = req[x].admitted /\ req'[x].counted = req[x].counted
  BY <1>1
<1>3. \A m \in CM!Minute : CM!AdmittedIn(m)' = CM!AdmittedIn(m) /\ CM!CountedIn(m)' = CM!CountedIn(m)
  BY <1>2 DEF CM!AdmittedIn, CM!CountedIn
<1>4. \A x \in Crowd : Uncounted(req'[x])
  BY <1>1 DEF CountInv
<1>5. ASSUME NEW m \in CM!Minute
      PROVE  /\ IsFiniteSet(CM!AdmittedIn(m)') /\ IsFiniteSet(CM!CountedIn(m)')
             /\ Cardinality(CM!AdmittedIn(m)') + Cardinality(CM!CountedIn(m)') <= rpm'[m]
  <2>1. /\ IsFiniteSet(CM!AdmittedIn(m)) /\ IsFiniteSet(CM!CountedIn(m))
        /\ Cardinality(CM!AdmittedIn(m)) + Cardinality(CM!CountedIn(m)) <= rpm[m]
    BY DEF CountInv
  <2>2. Cardinality(CM!AdmittedIn(m)) \in Nat /\ Cardinality(CM!CountedIn(m)) \in Nat
    BY <2>1, FS_CardinalityType
  <2>3. Cardinality(CM!AdmittedIn(m)) + Cardinality(CM!CountedIn(m)) <= rpm'[m]
    BY <1>1, <2>1, <2>2
  <2> QED
    BY <1>3, <2>1, <2>3
<1> QED
  BY <1>3, <1>4, <1>5 DEF CountInv

\* A request is let through.
LEMMA CountAdmit ==
    ASSUME CM!CompletionAssumption, CompletionInv, CountInv, NEW q \in Crowd, CM!Admit(q)
    PROVE  /\ CountInv'
           /\ \A m \in CM!Minute : CM!AdmittedIn(m)' # CM!AdmittedIn(m) =>
                Cardinality(CM!AdmittedIn(m)') + Cardinality(CM!CountedIn(m)) <= RATE_LIMIT_RPM
<1>0. PICK b \in CM!Minute : b = req[q].bucket
  BY DEF CompletionInv, CM!TypeOK, CM!Handler
<1> DEFINE h == [req[q] EXCEPT !.pc = IF req[q].ttl # 0 THEN "lookup" ELSE "call", !.admitted = b]
<1>1. /\ req[q].pc = "count" /\ req' = [req EXCEPT ![q] = h] /\ ~(rpm[b] + 1 > RATE_LIMIT_RPM)
      /\ rpm' = [rpm EXCEPT ![b] = @ + 1]
  BY <1>0 DEF CM!Admit, CM!At, CM!Goto, CM!Increment, CM!RpmExceeded
<1>2. /\ req \in [Crowd -> CM!Handler] /\ req[q] \in CM!Handler /\ b \in CM!Minute /\ rpm \in [CM!Minute -> Nat]
      /\ req[q].admitted = None /\ req[q].counted = None /\ None \notin CM!Minute /\ RATE_LIMIT_RPM \in Nat
  BY <1>1 DEF CompletionInv, CM!TypeOK, CM!Handler, CountInv, Uncounted, CM!CompletionAssumption, CM!Minute
<1>3. h.pc \in {"lookup", "call"} /\ h.admitted = b /\ h.counted = None
  BY <1>2 DEF CM!Handler
<1> HIDE DEF h
<1>4. \A x \in Crowd : req'[x] = IF x = q THEN h ELSE req[x]
  BY <1>1, <1>2
<1>5. CM!AdmittedIn(b)' = CM!AdmittedIn(b) \cup {q} /\ q \notin CM!AdmittedIn(b)
  <2>1. req[q].admitted # b /\ \A x \in Crowd : req'[x].admitted = b <=> x = q \/ req[x].admitted = b
    BY <1>2, <1>3, <1>4
  <2> QED
    BY <2>1 DEF CM!AdmittedIn
<1>6. \A m \in CM!Minute : /\ CM!CountedIn(m)' = CM!CountedIn(m)
                           /\ m # b => CM!AdmittedIn(m)' = CM!AdmittedIn(m)
  BY <1>2, <1>3, <1>4 DEF CM!AdmittedIn, CM!CountedIn
<1>7. \A m \in CM!Minute : /\ IsFiniteSet(CM!AdmittedIn(m)) /\ IsFiniteSet(CM!CountedIn(m))
                           /\ Cardinality(CM!AdmittedIn(m)) + Cardinality(CM!CountedIn(m)) <= rpm[m]
  BY DEF CountInv
<1>8. \A m \in CM!Minute : Cardinality(CM!AdmittedIn(m)) \in Nat /\ Cardinality(CM!CountedIn(m)) \in Nat
  BY <1>7, FS_CardinalityType
<1>9. IsFiniteSet(CM!AdmittedIn(b)') /\ Cardinality(CM!AdmittedIn(b)') = Cardinality(CM!AdmittedIn(b)) + 1
  <2>1. IsFiniteSet(CM!AdmittedIn(b))
    BY <1>2, <1>7
  <2> QED
    BY <1>5, <2>1, FS_AddElement
<1>10. rpm'[b] = rpm[b] + 1 /\ \A m \in CM!Minute : m # b => rpm'[m] = rpm[m]
  BY <1>1, <1>2
<1>11. ASSUME NEW m \in CM!Minute
       PROVE  /\ IsFiniteSet(CM!AdmittedIn(m)') /\ IsFiniteSet(CM!CountedIn(m)')
              /\ Cardinality(CM!AdmittedIn(m)') + Cardinality(CM!CountedIn(m)') <= rpm'[m]
  <2>1. CASE m # b
    BY <1>6, <1>7, <1>10, <2>1
  <2>2. CASE m = b
    <3>1. Cardinality(CM!AdmittedIn(b)) + 1 + Cardinality(CM!CountedIn(b)) <= rpm[b] + 1
      BY <1>2, <1>7, <1>8
    <3>2. CM!CountedIn(b)' = CM!CountedIn(b) /\ IsFiniteSet(CM!CountedIn(b))
      BY <1>2, <1>6, <1>7
    <3>3. Cardinality(CM!AdmittedIn(b)') + Cardinality(CM!CountedIn(b)') <= rpm'[b]
      BY <1>9, <1>10, <3>1, <3>2
    <3> QED
      BY <1>9, <2>2, <3>2, <3>3
  <2> QED
    BY <2>1, <2>2
<1>12. Cardinality(CM!AdmittedIn(b)') + Cardinality(CM!CountedIn(b)) <= RATE_LIMIT_RPM
  <2>1. Cardinality(CM!AdmittedIn(b)) + 1 + Cardinality(CM!CountedIn(b)) <= rpm[b] + 1 /\ rpm[b] + 1 <= RATE_LIMIT_RPM
    BY <1>1, <1>2, <1>7, <1>8
  <2>2. Cardinality(CM!AdmittedIn(b)) + 1 + Cardinality(CM!CountedIn(b)) <= RATE_LIMIT_RPM
    BY <1>2, <1>8, <2>1
  <2> QED
    BY <1>9, <2>2
<1>13. \A x \in Crowd : Uncounted(req'[x])
  BY <1>3, <1>4 DEF CountInv, Uncounted
<1>14. CountInv'
  BY <1>11, <1>13 DEF CountInv
<1>15. ASSUME NEW m \in CM!Minute, CM!AdmittedIn(m)' # CM!AdmittedIn(m)
       PROVE  Cardinality(CM!AdmittedIn(m)') + Cardinality(CM!CountedIn(m)) <= RATE_LIMIT_RPM
  <2>1. m = b
    BY <1>6, <1>15
  <2> QED
    BY <1>12, <2>1
<1> QED
  BY <1>14, <1>15

\* An answer is counted.
LEMMA CountRecount ==
    ASSUME CM!CompletionAssumption, CompletionInv, CountInv, NEW q \in Crowd, CM!Recount(q)
    PROVE  /\ CountInv'
           /\ \A m \in CM!Minute : CM!AdmittedIn(m)' = CM!AdmittedIn(m)
<1>0. PICK b \in CM!Minute : b = req[q].bucket
  BY DEF CompletionInv, CM!TypeOK, CM!Handler
<1> DEFINE h == [req[q] EXCEPT !.pc = CM!AfterAnswer(req[q]), !.counted = b]
<1>1. req[q].pc = "recount" /\ req' = [req EXCEPT ![q] = h] /\ rpm' = [rpm EXCEPT ![b] = @ + 1]
  BY <1>0 DEF CM!Recount, CM!At, CM!Goto, CM!Increment
<1>2. /\ req \in [Crowd -> CM!Handler] /\ req[q] \in CM!Handler /\ b \in CM!Minute /\ rpm \in [CM!Minute -> Nat]
      /\ req[q].counted = None /\ None \notin CM!Minute
  BY <1>1 DEF CompletionInv, CM!TypeOK, CM!Handler, CountInv, Uncounted, CM!CompletionAssumption, CM!Minute
<1>3. h.pc \in {"store", "commit"} /\ h.counted = b /\ h.admitted = req[q].admitted
  BY <1>2 DEF CM!Handler, CM!AfterAnswer
<1> HIDE DEF h
<1>4. \A x \in Crowd : req'[x] = IF x = q THEN h ELSE req[x]
  BY <1>1, <1>2
<1>5. CM!CountedIn(b)' = CM!CountedIn(b) \cup {q} /\ q \notin CM!CountedIn(b)
  <2>1. req[q].counted # b /\ \A x \in Crowd : req'[x].counted = b <=> x = q \/ req[x].counted = b
    BY <1>2, <1>3, <1>4
  <2> QED
    BY <2>1 DEF CM!CountedIn
<1>6. \A m \in CM!Minute : /\ CM!AdmittedIn(m)' = CM!AdmittedIn(m)
                           /\ m # b => CM!CountedIn(m)' = CM!CountedIn(m)
  BY <1>2, <1>3, <1>4 DEF CM!AdmittedIn, CM!CountedIn
<1>7. \A m \in CM!Minute : /\ IsFiniteSet(CM!AdmittedIn(m)) /\ IsFiniteSet(CM!CountedIn(m))
                           /\ Cardinality(CM!AdmittedIn(m)) + Cardinality(CM!CountedIn(m)) <= rpm[m]
  BY DEF CountInv
<1>8. \A m \in CM!Minute : Cardinality(CM!AdmittedIn(m)) \in Nat /\ Cardinality(CM!CountedIn(m)) \in Nat
  BY <1>7, FS_CardinalityType
<1>9. IsFiniteSet(CM!CountedIn(b)') /\ Cardinality(CM!CountedIn(b)') = Cardinality(CM!CountedIn(b)) + 1
  <2>1. IsFiniteSet(CM!CountedIn(b))
    BY <1>2, <1>7
  <2> QED
    BY <1>5, <2>1, FS_AddElement
<1>10. rpm'[b] = rpm[b] + 1 /\ \A m \in CM!Minute : m # b => rpm'[m] = rpm[m]
  BY <1>1, <1>2
<1>11. ASSUME NEW m \in CM!Minute
       PROVE  /\ IsFiniteSet(CM!AdmittedIn(m)') /\ IsFiniteSet(CM!CountedIn(m)')
              /\ Cardinality(CM!AdmittedIn(m)') + Cardinality(CM!CountedIn(m)') <= rpm'[m]
  <2>1. CASE m # b
    BY <1>6, <1>7, <1>10, <2>1
  <2>2. CASE m = b
    <3>1. Cardinality(CM!AdmittedIn(b)) + (Cardinality(CM!CountedIn(b)) + 1) <= rpm[b] + 1
      BY <1>2, <1>7, <1>8
    <3>2. CM!AdmittedIn(b)' = CM!AdmittedIn(b) /\ IsFiniteSet(CM!AdmittedIn(b))
      BY <1>2, <1>6, <1>7
    <3>3. Cardinality(CM!AdmittedIn(b)') + Cardinality(CM!CountedIn(b)') <= rpm'[b]
      BY <1>9, <1>10, <3>1, <3>2
    <3> QED
      BY <1>9, <2>2, <3>2, <3>3
  <2> QED
    BY <2>1, <2>2
<1>12. \A x \in Crowd : Uncounted(req'[x])
  BY <1>3, <1>4 DEF CountInv, Uncounted
<1> QED
  BY <1>6, <1>11, <1>12 DEF CountInv

\* The other steps of a request neither admit nor count it; a refused one increases the counter all the same.
LEMMA CountElse ==
    ASSUME CM!CompletionAssumption, CompletionInv, CountInv, NEW q \in Crowd,
           \/ \E p \in Prompt, t \in Ttl : CM!Start(q, p, t)
           \/ CM!Refuse(q) \/ CM!Lookup(q)
           \/ \E t \in Tokens, empty \in BOOLEAN : CM!Answered(q, t, empty)
           \/ CM!ProviderFails(q) \/ CM!Store(q) \/ CM!Commit(q) \/ CM!Fail(q)
    PROVE  CountInv' /\ \A m \in CM!Minute : CM!AdmittedIn(m)' = CM!AdmittedIn(m)
<1> DEFINE g == req[q]
           Goal == CountInv' /\ \A m \in CM!Minute : CM!AdmittedIn(m)' = CM!AdmittedIn(m)
<1>1. g \in CM!Handler /\ rpm \in [CM!Minute -> Nat] /\ Uncounted(g)
  BY DEF CompletionInv, CM!TypeOK, CountInv
<1>2. rpm' = rpm => \A m \in CM!Minute : rpm'[m] \in Nat /\ rpm'[m] >= rpm[m]
  BY <1>1
<1>3. ASSUME NEW p \in Prompt, NEW t \in Ttl, CM!Start(q, p, t) PROVE Goal
  <2> DEFINE h == [g EXCEPT !.pc = "count", !.prompt = p, !.ttl = t, !.bucket = minute]
  <2>1. g.pc = "start" /\ req' = [req EXCEPT ![q] = h] /\ rpm' = rpm
    BY <1>3 DEF CM!Start, CM!At, CM!Goto
  <2>2. h.pc = "count" /\ h.admitted = g.admitted /\ h.counted = g.counted
    BY <1>1 DEF CM!Handler
  <2> HIDE DEF h
  <2>3. Uncounted(h)
    BY <1>1, <2>1, <2>2 DEF Uncounted
  <2> QED
    BY <1>2, <2>1, <2>2, <2>3, CountSame
<1>4. ASSUME CM!Lookup(q) PROVE Goal
  <2> DEFINE h == [g EXCEPT !.pc = IF cache[g.prompt] = None THEN "call" ELSE "commit"]
  <2>1. g.pc = "lookup" /\ req' = [req EXCEPT ![q] = h] /\ rpm' = rpm
    BY <1>4 DEF CM!Lookup, CM!At, CM!Goto
  <2>2. h.pc \in {"call", "commit"} /\ h.admitted = g.admitted /\ h.counted = g.counted
    BY <1>1 DEF CM!Handler
  <2> HIDE DEF h
  <2>3. Uncounted(h)
    BY <1>1, <2>1, <2>2 DEF Uncounted
  <2> QED
    BY <1>2, <2>1, <2>2, <2>3, CountSame
<1>5. ASSUME NEW t \in Tokens, NEW empty \in BOOLEAN, CM!Answered(q, t, empty) PROVE Goal
  <2> DEFINE a == [g EXCEPT !.empty = empty, !.tokens = t]
             h == IF t > 0 THEN [a EXCEPT !.pc = "recount", !.bucket = minute]
                  ELSE [a EXCEPT !.pc = CM!AfterAnswer(a)]
  <2>1. g.pc = "call" /\ req' = [req EXCEPT ![q] = h] /\ rpm' = rpm
    BY <1>5 DEF CM!Answered, CM!At, CM!Goto
  <2>2. h.pc \in {"recount", "store", "commit"} /\ h.admitted = g.admitted /\ h.counted = g.counted
    BY <1>1 DEF CM!Handler, CM!AfterAnswer
  <2> HIDE DEF h
  <2>3. Uncounted(h)
    BY <1>1, <2>1, <2>2 DEF Uncounted
  <2> QED
    BY <1>2, <2>1, <2>2, <2>3, CountSame
<1>6. ASSUME CM!ProviderFails(q) PROVE Goal
  <2> DEFINE h == [g EXCEPT !.pc = "commit", !.failed = TRUE]
  <2>1. req' = [req EXCEPT ![q] = h] /\ rpm' = rpm
    BY <1>6 DEF CM!ProviderFails, CM!Goto
  <2>2. h.pc = "commit" /\ h.admitted = g.admitted /\ h.counted = g.counted
    BY <1>1 DEF CM!Handler
  <2> HIDE DEF h
  <2>3. Uncounted(h)
    BY <2>2 DEF Uncounted
  <2> QED
    BY <1>2, <2>1, <2>2, <2>3, CountSame
<1>7. ASSUME CM!Store(q) PROVE Goal
  <2> DEFINE h == [g EXCEPT !.pc = "commit"]
  <2>1. req' = [req EXCEPT ![q] = h] /\ rpm' = rpm
    BY <1>7 DEF CM!Store, CM!Goto
  <2>2. h.pc = "commit" /\ h.admitted = g.admitted /\ h.counted = g.counted
    BY <1>1 DEF CM!Handler
  <2> HIDE DEF h
  <2>3. Uncounted(h)
    BY <2>2 DEF Uncounted
  <2> QED
    BY <1>2, <2>1, <2>2, <2>3, CountSame
<1>8. ASSUME NEW rows, NEW status, CM!Ended(q, rows, status), \A m \in CM!Minute : rpm'[m] \in Nat /\ rpm'[m] >= rpm[m]
      PROVE  Goal
  <2> DEFINE h == [CM!Started EXCEPT !.pc = "done", !.prompt = g.prompt, !.tokens = g.tokens,
                                     !.admitted = g.admitted, !.counted = g.counted]
  <2>1. req' = [req EXCEPT ![q] = h]
    BY <1>8 DEF CM!Ended
  <2>2. h.pc = "done" /\ h.admitted = g.admitted /\ h.counted = g.counted
    BY DEF CM!Started
  <2> HIDE DEF h
  <2>3. Uncounted(h)
    BY <2>2 DEF Uncounted
  <2> QED
    BY <1>8, <2>1, <2>2, <2>3, CountSame
<1>9. ASSUME CM!Refuse(q) PROVE Goal
  <2>1. rpm' = [rpm EXCEPT ![g.bucket] = @ + 1] /\ CM!Ended(q, {}, 429)
    BY <1>9 DEF CM!Refuse, CM!Increment
  <2>2. \A m \in CM!Minute : rpm'[m] \in Nat /\ rpm'[m] >= rpm[m]
    BY <1>1, <2>1
  <2> HIDE DEF Goal
  <2> QED
    BY <1>8, <2>1, <2>2
<1>10. ASSUME CM!Commit(q) \/ CM!Fail(q) PROVE Goal
  <2>1. rpm' = rpm /\ \E rows, status : CM!Ended(q, rows, status)
    BY <1>10 DEF CM!Commit, CM!Fail
  <2> HIDE DEF Goal
  <2> QED
    BY <1>2, <1>8, <2>1
<1> HIDE DEF Goal
<1>11. Goal
  BY <1>3, <1>4, <1>5, <1>6, <1>7, <1>9, <1>10
<1> QED
  BY <1>11 DEF Goal

\* The module's Cardinality is that of the theorems about finite sets.
LEMMA CardinalityIs == \A S : CM!Cardinality(S) = Cardinality(S)
BY DEF CM!Cardinality, Cardinality

\* Every step keeps the counts, and admits within the limit.
LEMMA CountNext ==
    ASSUME CM!CompletionAssumption, CompletionInv, CountInv, CM!Next PROVE CountInv' /\ CM!KeepsLimit
<1>1. ASSUME NEW q \in Crowd, CM!Admit(q) PROVE CountInv' /\ CM!KeepsLimit
  <2>1. /\ CountInv'
        /\ \A m \in CM!Minute : CM!AdmittedIn(m)' # CM!AdmittedIn(m) =>
             Cardinality(CM!AdmittedIn(m)') + Cardinality(CM!CountedIn(m)) <= RATE_LIMIT_RPM
    BY <1>1, CountAdmit
  <2> QED
    BY <2>1, CardinalityIs DEF CM!KeepsLimit
<1>2. ASSUME CountInv', \A m \in CM!Minute : CM!AdmittedIn(m)' = CM!AdmittedIn(m) PROVE CountInv' /\ CM!KeepsLimit
  BY <1>2 DEF CM!KeepsLimit
<1>3. ASSUME UNCHANGED <<rpm, req>> PROVE CountInv' /\ \A m \in CM!Minute : CM!AdmittedIn(m)' = CM!AdmittedIn(m)
  BY <1>3 DEF CountInv, CM!AdmittedIn, CM!CountedIn
<1>4. (\E p \in Prompt : CM!Expire(p)) \/ CM!Tick => UNCHANGED <<rpm, req>>
  BY DEF CM!Expire, CM!Tick
<1>5. CASE \E q \in Crowd : CM!Admit(q)
  BY <1>1, <1>5
<1>6. CASE \E q \in Crowd : CM!Recount(q)
  BY <1>2, <1>6, CountRecount
<1>7. CASE UNCHANGED <<rpm, req>>
  BY <1>2, <1>3, <1>7
<1>8. ASSUME NEW q \in Crowd,
             \/ \E p \in Prompt, t \in Ttl : CM!Start(q, p, t)
             \/ CM!Refuse(q) \/ CM!Lookup(q)
             \/ \E t \in Tokens, empty \in BOOLEAN : CM!Answered(q, t, empty)
             \/ CM!ProviderFails(q) \/ CM!Store(q) \/ CM!Commit(q) \/ CM!Fail(q)
      PROVE  CountInv' /\ CM!KeepsLimit
  BY <1>2, <1>8, CountElse
<1> QED
  BY <1>4, <1>5, <1>6, <1>7, <1>8 DEF CM!Next

\* What is admitted in a minute and counted in it stays within the limit whenever a request is
\* let through, whatever requests overlap and however late an answer is counted (check_and_increment).
THEOREM WithinLimitsHolds == Spec => WithinLimits
<1>1. CM!CompletionAssumption
  BY PartsAssumption DEF PartsAssumption
<1>2. Init => (part = "completion" => CountInv)
  <2>1. ASSUME CM!Init PROVE CountInv
    <3>1. None \notin CM!Minute /\ \A q \in Crowd : req[q] = CM!Started
      BY <1>1, <2>1 DEF CM!Init, CM!CompletionAssumption, CM!Minute
    <3>2. CM!Started.admitted = None /\ CM!Started.counted = None
      BY DEF CM!Started
    <3>3. \A m \in CM!Minute : CM!AdmittedIn(m) = {} /\ CM!CountedIn(m) = {} /\ rpm[m] = 0
      BY <2>1, <3>1, <3>2 DEF CM!Init, CM!AdmittedIn, CM!CountedIn
    <3>4. \A m \in CM!Minute : /\ IsFiniteSet(CM!AdmittedIn(m)) /\ IsFiniteSet(CM!CountedIn(m))
                               /\ Cardinality(CM!AdmittedIn(m)) + Cardinality(CM!CountedIn(m)) <= rpm[m]
      BY <3>3, FS_EmptySet
    <3> QED
      BY <3>1, <3>2, <3>4 DEF CountInv, Uncounted
  <2> QED
    BY <2>1 DEF Init
<1>3. ASSUME part = "completion" => CompletionInv, part = "completion" => CountInv, [Next]_vars
      PROVE  (part = "completion" => CountInv)' /\ [part = "completion" => CM!KeepsLimit]_vars
  <2>1. part' = part
    BY <1>3 DEF Next, OthersRest, vars
  <2>2. part = "completion" => CM!Next \/ UNCHANGED vars
    BY <1>3 DEF Next
  <2>3. ASSUME CountInv, UNCHANGED vars PROVE CountInv'
    BY <2>3 DEF vars, completionVars, CountInv, CM!AdmittedIn, CM!CountedIn
  <2> QED
    BY <1>1, <1>3, <2>1, <2>2, <2>3, CountNext
<1> QED
  BY <1>2, <1>3, CompletionRun, PTL DEF Spec, WithinLimits

----------------------------------------------------------------------------
(* Catalog.                                                                *)

\* What TreeSound says of one row, and that its path has only ids that were given.
RowSound(row, c) ==
    /\ Len(row.path) = row.level - 1
    /\ row.parent_id = IF row.path = <<>> THEN Root ELSE row.path[Len(row.path)]
    /\ \A i \in 1..Len(row.path) :
         /\ row.path[i] \in used /\ row.path[i] # c
         /\ row.path[i] \in CT!Categories => cat[row.path[i]].path = SubSeq(row.path, 1, i - 1)

\* What a request knows: its row is sound before it is inserted, products do not go, and
\* a category that it has counted has none unless one came.
KnowsCatalog(h) ==
    /\ h.pc = "insert" => h.cat \in Cat \ used /\ h.row \in CT!Category /\ RowSound(h.row, h.cat)
    /\ h.pc \in {"move", "item"} => h.spu \in CT!Products
    /\ h.pc = "move" => h.cat \in Cat
    /\ h.pc = "delete" /\ ~h.overlap => ~CT!InUse(h.cat)

\* The inductive invariant.
CatalogInv ==
    /\ CT!TypeOK
    /\ \A c \in CT!Categories : RowSound(cat[c], c)
    /\ \A q \in Req : KnowsCatalog(req[q])
    /\ \A q, r \in Req : q # r /\ req[q].pc = "insert" /\ req[r].pc = "insert" => req[q].cat # req[r].cat

LEMMA CatalogIdle == CT!Idle \in CT!Handler /\ CT!Idle.pc = "idle" /\ KnowsCatalog(CT!Idle)
<1>1. CT!Idle \in CT!Handler /\ CT!Idle.pc = "idle"
  BY DEF CT!Idle, CT!Handler
<1> QED
  BY <1>1 DEF KnowsCatalog

LEMMA CatalogInit == ASSUME CT!CatalogAssumption, CT!Init PROVE CatalogInv
<1>1. req \in [Req -> CT!Handler] /\ \A q \in Req : req[q] = CT!Idle
  BY CatalogIdle DEF CT!Init
<1>2. cat \in [Cat -> CT!Category \cup {None}] /\ CT!Categories = {}
  BY DEF CT!Init, CT!Categories
<1>3. spu \in [Spu -> CT!Product \cup {None}] /\ group = {} /\ item = {} /\ bound = {} /\ used = {}
  BY DEF CT!Init
<1>4. CT!TypeOK
  BY <1>1, <1>2, <1>3 DEF CT!TypeOK, CT!GroupItem
<1> QED
  BY <1>1, <1>2, <1>4, CatalogIdle DEF CatalogInv

\* A handler goes on as h, and nothing is written.
LEMMA CatalogGoto ==
    ASSUME CatalogInv, NEW q \in Req, NEW h \in CT!Handler, CT!Goto(q, h), KnowsCatalog(h),
           h.pc = "insert" => \A r \in Req : r # q /\ req[r].pc = "insert" => req[r].cat # h.cat,
           UNCHANGED <<cat, used, spu, group, item, bound>>
    PROVE  CatalogInv'
<1>1. /\ req'[q] = h /\ \A r \in Req : r # q => req'[r] = req[r]
      /\ req' \in [Req -> CT!Handler]
  BY DEF CT!Goto, CatalogInv, CT!TypeOK
<1>2. CT!Categories' = CT!Categories /\ CT!Products' = CT!Products
  BY DEF CT!Categories, CT!Products
<1>3. \A row, c : RowSound(row, c) => RowSound(row, c)'
  BY <1>2 DEF RowSound
<1>4. \A c : CT!InUse(c)' => CT!InUse(c)
  BY <1>2 DEF CT!InUse
<1>5. CT!TypeOK'
  BY <1>1, <1>2 DEF CatalogInv, CT!TypeOK, CT!GroupItem
<1>6. \A x : KnowsCatalog(x) => KnowsCatalog(x)'
  BY <1>2, <1>3, <1>4 DEF KnowsCatalog
<1>7. \A r \in Req : KnowsCatalog(req[r])'
  BY <1>1, <1>6 DEF CatalogInv
<1> QED
  BY <1>1, <1>2, <1>3, <1>5, <1>7 DEF CatalogInv

\* The path of a child is its parent's, and its parent.
LEMMA ChildPath ==
    ASSUME NEW s \in Seq(Cat), NEW p \in Cat
    PROVE  LET t == Append(s, p)
           IN  /\ t \in Seq(Cat) /\ Len(t) = Len(s) + 1 /\ t # <<>> /\ t[Len(t)] = p
               /\ \A i \in 1..Len(s) : t[i] = s[i]
               /\ \A i \in 1..Len(t) : SubSeq(t, 1, i - 1) = SubSeq(s, 1, i - 1)
               /\ SubSeq(t, 1, Len(t) - 1) = s
<1> DEFINE t == Append(s, p)
<1>1. t \in Seq(Cat) /\ Len(t) = Len(s) + 1 /\ t[Len(t)] = p /\ \A i \in 1..Len(s) : t[i] = s[i]
  OBVIOUS
<1>2. t # <<>>
  BY <1>1
<1>3. ASSUME NEW i \in 1..Len(t) PROVE SubSeq(t, 1, i - 1) = SubSeq(s, 1, i - 1)
  BY <1>1, <1>3
<1>4. SubSeq(t, 1, Len(t) - 1) = s
  BY <1>1
<1> QED
  BY <1>1, <1>2, <1>3, <1>4

\* A row stays sound while ids are given to new categories, and categories go.
LEMMA CatalogRows ==
    ASSUME NEW row, NEW c, RowSound(row, c), NEW d \in Cat, NEW x, cat \in [Cat -> CT!Category \cup {None}],
           cat' = [cat EXCEPT ![d] = x], used \subseteq used', d \notin used \/ x = None
    PROVE  RowSound(row, c)'
<1>1. ASSUME NEW i \in 1..Len(row.path)
      PROVE  /\ row.path[i] \in used' /\ row.path[i] # c
             /\ row.path[i] \in CT!Categories' => cat'[row.path[i]].path = SubSeq(row.path, 1, i - 1)
  <2>1. /\ row.path[i] \in used /\ row.path[i] # c
        /\ row.path[i] \in CT!Categories => cat[row.path[i]].path = SubSeq(row.path, 1, i - 1)
    BY DEF RowSound
  <2>2. row.path[i] \in CT!Categories' => row.path[i] \in CT!Categories /\ cat'[row.path[i]] = cat[row.path[i]]
    BY <2>1 DEF CT!Categories
  <2> QED
    BY <2>1, <2>2
<1> QED
  BY <1>1 DEF RowSound

\* Level and path of a child are those of a sound row.
LEMMA CatalogChild ==
    ASSUME CatalogInv, CT!CatalogAssumption, NEW c \in Cat \ used, NEW p \in CT!Categories, ~CT!LevelExceeded(p)
    PROVE  CT!ChildRow(p) \in CT!Category /\ RowSound(CT!ChildRow(p), c)
<1> DEFINE s == cat[p].path
           t == Append(s, p)
           n == cat[p].level
           row == CT!ChildRow(p)
<1>1. cat[p] \in CT!Category /\ RowSound(cat[p], p) /\ p \in Cat /\ p \in used /\ CT!Categories \subseteq Cat
  BY DEF CatalogInv, CT!TypeOK, CT!Categories
<1>2. s \in Seq(Cat) /\ n \in 1..MAX_CATEGORY_LEVEL /\ n < MAX_CATEGORY_LEVEL /\ MAX_CATEGORY_LEVEL \in Nat
  BY <1>1 DEF CT!Category, CT!LevelExceeded, CT!CatalogAssumption
<1>3. row.parent_id = p /\ row.level = n + 1 /\ row.path = t /\ row = [parent_id |-> p, level |-> n + 1, path |-> t]
  BY DEF CT!ChildRow
<1>4. /\ t \in Seq(Cat) /\ Len(t) = Len(s) + 1 /\ t # <<>> /\ t[Len(t)] = p
      /\ \A i \in 1..Len(s) : t[i] = s[i]
      /\ \A i \in 1..Len(t) : SubSeq(t, 1, i - 1) = SubSeq(s, 1, i - 1)
      /\ SubSeq(t, 1, Len(t) - 1) = s
  BY <1>1, <1>2, ChildPath
<1>5. Len(s) = n - 1 /\ Len(s) \in Nat
  BY <1>1, <1>2 DEF RowSound
<1>6. row \in CT!Category
  <2>1. n + 1 \in 1..MAX_CATEGORY_LEVEL
    BY <1>2
  <2> HIDE DEF t, n
  <2> QED
    BY <1>1, <1>3, <1>4, <2>1 DEF CT!Category
<1>7. ASSUME NEW i \in 1..Len(t)
      PROVE  /\ t[i] \in used /\ t[i] # c
             /\ t[i] \in CT!Categories => cat[t[i]].path = SubSeq(t, 1, i - 1)
  <2>1. ASSUME i = Len(t) PROVE t[i] = p /\ SubSeq(t, 1, i - 1) = s
    BY <1>4, <2>1
  <2>2. ASSUME i # Len(t)
        PROVE  /\ t[i] \in used /\ SubSeq(t, 1, i - 1) = SubSeq(s, 1, i - 1)
               /\ t[i] \in CT!Categories => cat[t[i]].path = SubSeq(s, 1, i - 1)
    <3>1. i \in 1..Len(s) /\ t[i] = s[i]
      BY <1>4, <1>5, <2>2
    <3>2. s[i] \in used /\ (s[i] \in CT!Categories => cat[s[i]].path = SubSeq(s, 1, i - 1))
      BY <1>1, <3>1 DEF RowSound
    <3> QED
      BY <1>4, <3>1, <3>2
  <2> HIDE DEF t
  <2> QED
    BY <1>1, <2>1, <2>2
<1> HIDE DEF t, n, row
<1>8. RowSound(row, c)
  BY <1>2, <1>3, <1>4, <1>5, <1>7 DEF RowSound
<1> QED
  BY <1>6, <1>8 DEF row

LEMMA CatalogBegin ==
    ASSUME CatalogInv, CT!CatalogAssumption, NEW q \in Req, NEW c \in Cat, CT!BeginCategory(q, c)
    PROVE  CatalogInv'
<1>1. c \notin used /\ \A r \in Req : req[r].pc = "insert" => req[r].cat # c
  BY DEF CT!BeginCategory
<1>2. CT!RootRow \in CT!Category /\ RowSound(CT!RootRow, c)
  <2>1. /\ CT!RootRow.path = <<>> /\ CT!RootRow.level = 1 /\ CT!RootRow.parent_id = Root
        /\ CT!RootRow \in CT!Category
    BY DEF CT!RootRow, CT!Category, CT!CatalogAssumption
  <2> QED
    BY <2>1 DEF RowSound
<1>3. ASSUME NEW row \in CT!Category, RowSound(row, c),
             CT!Read(q, [CT!Idle EXCEPT !.pc = "insert", !.cat = c, !.row = row])
      PROVE  CatalogInv'
  <2> DEFINE h == [CT!Idle EXCEPT !.pc = "insert", !.cat = c, !.row = row]
  <2>1. CT!Goto(q, h) /\ UNCHANGED <<cat, used, spu, group, item, bound>>
    BY <1>3 DEF CT!Read
  <2>2. h \in CT!Handler /\ h.pc = "insert" /\ h.cat = c /\ h.row = row
    BY CatalogIdle DEF CT!Handler
  <2> HIDE DEF h
  <2>3. KnowsCatalog(h)
    BY <1>1, <1>3, <2>2 DEF KnowsCatalog
  <2> QED
    BY <1>1, <2>1, <2>2, <2>3, CatalogGoto
<1>4. ASSUME NEW p \in CT!Categories, ~CT!LevelExceeded(p),
             CT!Read(q, [CT!Idle EXCEPT !.pc = "insert", !.cat = c, !.row = CT!ChildRow(p)])
      PROVE  CatalogInv'
  <2>1. CT!ChildRow(p) \in CT!Category /\ RowSound(CT!ChildRow(p), c)
    BY <1>1, <1>4, CatalogChild
  <2> QED
    BY <1>3, <1>4, <2>1
<1> QED
  BY <1>2, <1>3, <1>4 DEF CT!BeginCategory

\* A category comes or goes, by the request q: rows stay sound, and so do those about to be
\* inserted.
LEMMA CatalogTree ==
    ASSUME CatalogInv, NEW q \in Req, NEW d \in Cat, NEW x \in CT!Category \cup {None},
           cat' = [cat EXCEPT ![d] = x], used' \subseteq Cat, used \subseteq used', CT!Goto(q, CT!Idle),
           /\ d \notin used \/ x = None
           /\ x # None => d \in used' /\ RowSound(x, d)
           /\ \A r \in Req : r # q /\ req[r].pc = "insert" => req[r].cat \notin used',
           d \notin bound \/ x # None,
           UNCHANGED <<spu, group, item, bound>>
    PROVE  CatalogInv'
<1>1. /\ req'[q] = CT!Idle /\ \A r \in Req : r # q => req'[r] = req[r]
      /\ req' \in [Req -> CT!Handler]
  BY CatalogIdle DEF CT!Goto, CatalogInv, CT!TypeOK
<1>2. /\ cat \in [Cat -> CT!Category \cup {None}] /\ cat' \in [Cat -> CT!Category \cup {None}]
      /\ \A c \in Cat : cat'[c] = IF c = d THEN x ELSE cat[c]
  BY DEF CatalogInv, CT!TypeOK
<1>3. /\ CT!Products' = CT!Products /\ \A c : CT!InUse(c)' => CT!InUse(c)
  BY DEF CT!Products, CT!InUse
<1>4. CT!Categories' \subseteq used' /\ bound \subseteq CT!Categories'
  BY <1>2 DEF CatalogInv, CT!TypeOK, CT!Categories
<1>5. CT!TypeOK'
  BY <1>1, <1>2, <1>3, <1>4 DEF CatalogInv, CT!TypeOK, CT!GroupItem
<1>6. \A row, c : RowSound(row, c) => RowSound(row, c)'
  BY <1>2, CatalogRows
<1>7. ASSUME NEW c \in CT!Categories' PROVE RowSound(cat[c], c)'
  <2>1. c \in Cat /\ cat'[c] # None
    BY <1>7 DEF CT!Categories
  <2>2. ASSUME c = d PROVE RowSound(cat[c], c)'
    <3>1. cat'[c] = x /\ RowSound(x, c)'
      BY <1>2, <1>6, <2>1, <2>2
    <3> QED
      BY <3>1 DEF RowSound
  <2>3. ASSUME c # d PROVE RowSound(cat[c], c)'
    <3>1. cat'[c] = cat[c] /\ c \in CT!Categories
      BY <1>2, <2>1, <2>3 DEF CT!Categories
    <3>2. PICK row : row = cat[c] /\ RowSound(row, c)
      BY <3>1 DEF CatalogInv
    <3>3. RowSound(row, c)'
      BY <1>6, <3>2
    <3> QED
      BY <3>1, <3>2, <3>3 DEF RowSound
  <2> QED
    BY <2>2, <2>3
<1>8. ASSUME NEW r \in Req PROVE KnowsCatalog(req[r])'
  <2>1. ASSUME r = q PROVE KnowsCatalog(req[r])'
    <3>1. req'[r].pc = "idle"
      BY <1>1, <2>1, CatalogIdle
    <3> QED
      BY <3>1 DEF KnowsCatalog
  <2>2. ASSUME r # q PROVE KnowsCatalog(req[r])'
    <3>1. PICK h : h = req[r] /\ req'[r] = h /\ KnowsCatalog(h)
      BY <1>1, <2>2 DEF CatalogInv
    <3>2. h.pc = "insert" => h.cat \notin used'
      BY <2>2, <3>1
    <3>3. KnowsCatalog(h)'
      BY <1>3, <1>6, <3>1, <3>2 DEF KnowsCatalog
    <3> QED
      BY <3>1, <3>3 DEF KnowsCatalog
  <2> QED
    BY <2>1, <2>2
<1>9. \A y, r \in Req : y # r /\ req'[y].pc = "insert" /\ req'[r].pc = "insert" => req'[y].cat # req'[r].cat
  BY <1>1, CatalogIdle DEF CatalogInv
<1> QED
  BY <1>5, <1>7, <1>8, <1>9 DEF CatalogInv

LEMMA CatalogInsert == ASSUME CatalogInv, NEW q \in Req, CT!InsertCategory(q) PROVE CatalogInv'
<1> DEFINE d == req[q].cat
           x == req[q].row
<1>1. /\ req[q].pc = "insert" /\ cat' = [cat EXCEPT ![d] = x] /\ used' = used \cup {d} /\ CT!Goto(q, CT!Idle)
      /\ UNCHANGED <<spu, group, item, bound>>
  BY DEF CT!InsertCategory
<1>2. d \in Cat \ used /\ x \in CT!Category /\ RowSound(x, d)
  BY <1>1 DEF CatalogInv, KnowsCatalog
<1>3. \A r \in Req : r # q /\ req[r].pc = "insert" => req[r].cat \notin used'
  BY <1>1 DEF CatalogInv, KnowsCatalog
<1>4. used \subseteq Cat /\ bound \subseteq used
  BY DEF CatalogInv, CT!TypeOK
<1> HIDE DEF d, x
<1> QED
  BY <1>1, <1>2, <1>3, <1>4, CatalogTree

LEMMA CatalogDelete ==
    ASSUME CatalogInv, NEW q \in Req,
           (\E c \in Cat : CT!BeginDelete(q, c)) \/ CT!CountProducts(q) \/ CT!DeleteCategory(q)
    PROVE  CatalogInv'
<1>1. ASSUME NEW c \in Cat, CT!BeginDelete(q, c) PROVE CatalogInv'
  <2> DEFINE h == [CT!Idle EXCEPT !.pc = "count", !.cat = c]
  <2>1. CT!Goto(q, h) /\ UNCHANGED <<cat, used, spu, group, item, bound>>
    BY <1>1 DEF CT!BeginDelete, CT!Read
  <2>2. h \in CT!Handler /\ h.pc = "count"
    BY CatalogIdle DEF CT!Handler
  <2> HIDE DEF h
  <2>3. KnowsCatalog(h)
    BY <2>2 DEF KnowsCatalog
  <2> QED
    BY <2>1, <2>2, <2>3, CatalogGoto
<1>2. ASSUME CT!CountProducts(q) PROVE CatalogInv'
  <2> DEFINE x == req[q]
             h == [x EXCEPT !.pc = "delete"]
  <2>1. ~CT!InUse(x.cat) /\ CT!Goto(q, h) /\ UNCHANGED <<cat, used, spu, group, item, bound>>
    BY <1>2 DEF CT!CountProducts
  <2>2. x \in CT!Handler
    BY DEF CatalogInv, CT!TypeOK
  <2>3. h \in CT!Handler /\ h.pc = "delete" /\ h.cat = x.cat
    BY <2>2 DEF CT!Handler
  <2> HIDE DEF h
  <2>4. KnowsCatalog(h)
    BY <2>1, <2>3 DEF KnowsCatalog
  <2> QED
    BY <2>1, <2>3, <2>4, CatalogGoto
<1>3. ASSUME CT!DeleteCategory(q) PROVE CatalogInv'
  <2> DEFINE d == req[q].cat
  <2>1. /\ d \in CT!Categories /\ d \notin bound /\ cat' = [cat EXCEPT ![d] = None] /\ CT!Goto(q, CT!Idle)
        /\ UNCHANGED <<used, spu, group, item, bound>> /\ req[q].pc = "delete"
    BY <1>3 DEF CT!DeleteCategory
  <2>2. d \in Cat /\ used \subseteq Cat /\ \A r \in Req : req[r].pc = "insert" => req[r].cat \notin used
    BY <2>1 DEF CatalogInv, CT!TypeOK, CT!Categories, KnowsCatalog
  <2> HIDE DEF d
  <2> QED
    BY <2>1, <2>2, CatalogTree
<1> QED
  BY <1>1, <1>2, <1>3

\* A product comes to a category: whoever has counted there is told.
LEMMA CatalogPlaced ==
    ASSUME CatalogInv, CT!CatalogAssumption, NEW s \in Spu, NEW row \in CT!Product, NEW done \in SUBSET Req,
           CT!Placed(s, row, done)
    PROVE  CatalogInv'
<1> DEFINE New(r) == IF r \in done THEN CT!Idle
                     ELSE IF req[r].pc = "delete" /\ req[r].cat = row.category_id
                     THEN [req[r] EXCEPT !.overlap = TRUE] ELSE req[r]
<1>1. /\ spu' = [spu EXCEPT ![s] = row] /\ req' = [r \in Req |-> New(r)]
      /\ UNCHANGED <<cat, used, group, item, bound>>
  BY DEF CT!Placed
<1>2. row # None
  BY DEF CT!CatalogAssumption, CT!Product
<1>3. /\ spu' \in [Spu -> CT!Product \cup {None}] /\ CT!Categories' = CT!Categories
      /\ CT!Products' = CT!Products \cup {s}
      /\ \A c : CT!InUse(c)' => CT!InUse(c) \/ c = row.category_id
  BY <1>1, <1>2 DEF CatalogInv, CT!TypeOK, CT!Categories, CT!Products, CT!InUse
<1>4. \A x, c : RowSound(x, c) => RowSound(x, c)'
  BY <1>1, <1>3 DEF RowSound
<1>5. ASSUME NEW r \in Req
      PROVE  \E k \in CT!Handler :
               /\ k = New(r) /\ KnowsCatalog(k)'
               /\ k.pc = "insert" => req[r].pc = "insert" /\ k.cat = req[r].cat
  <2>1. req[r] \in CT!Handler /\ KnowsCatalog(req[r])
    BY DEF CatalogInv, CT!TypeOK
  <2> DEFINE h == [req[r] EXCEPT !.overlap = TRUE]
  <2>2. h \in CT!Handler /\ h.pc = req[r].pc /\ h.overlap
    BY <2>1 DEF CT!Handler
  <2> DEFINE g == IF req[r].pc = "delete" /\ req[r].cat = row.category_id THEN h ELSE req[r]
  <2>3. PICK k : k = New(r)
    OBVIOUS
  <2>4. \/ k = CT!Idle
        \/ k = h /\ req[r].pc = "delete"
        \/ k = req[r] /\ ~(req[r].pc = "delete" /\ req[r].cat = row.category_id)
    BY <2>3
  <2> HIDE DEF h, New
  <2>5. k \in CT!Handler /\ (k.pc = "insert" => req[r].pc = "insert" /\ k.cat = req[r].cat)
    BY <2>1, <2>2, <2>4, CatalogIdle
  <2>6. k = CT!Idle \/ (k = h /\ req[r].pc = "delete") => KnowsCatalog(k)'
    BY <2>2, CatalogIdle DEF KnowsCatalog
  <2>7. ASSUME k = req[r], ~(req[r].pc = "delete" /\ req[r].cat = row.category_id) PROVE KnowsCatalog(k)'
    <3>1. KnowsCatalog(k) /\ ~(k.pc = "delete" /\ k.cat = row.category_id)
      BY <2>1, <2>7
    <3>2. used' = used
      BY <1>1
    <3> QED
      BY <1>3, <1>4, <3>1, <3>2 DEF KnowsCatalog
  <2>8. KnowsCatalog(k)'
    BY <2>4, <2>6, <2>7
  <2> QED
    BY <2>3, <2>5, <2>8
<1> HIDE DEF New
<1>6. req' \in [Req -> CT!Handler] /\ \A r \in Req : req'[r] = New(r)
  BY <1>1, <1>5
<1>7. CT!TypeOK'
  BY <1>1, <1>3, <1>6 DEF CatalogInv, CT!TypeOK, CT!GroupItem
<1>8. \A r \in Req : KnowsCatalog(req[r])'
  <2> SUFFICES ASSUME NEW r \in Req PROVE KnowsCatalog(req[r])'
    OBVIOUS
  <2>1. PICK k : k = New(r) /\ KnowsCatalog(k)' /\ req'[r] = k
    BY <1>5, <1>6
  <2> QED
    BY <2>1 DEF KnowsCatalog
<1>9. \A c \in CT!Categories' : RowSound(cat[c], c)'
  <2> SUFFICES ASSUME NEW c \in CT!Categories' PROVE RowSound(cat[c], c)'
    OBVIOUS
  <2>1. PICK x : x = cat[c] /\ RowSound(x, c) /\ cat'[c] = x
    BY <1>1, <1>3 DEF CatalogInv
  <2>2. RowSound(x, c)'
    BY <1>4, <2>1
  <2> QED
    BY <2>1, <2>2 DEF RowSound
<1>10. \A q, r \in Req : q # r /\ req'[q].pc = "insert" /\ req'[r].pc = "insert" => req'[q].cat # req'[r].cat
  BY <1>5, <1>6 DEF CatalogInv
<1> QED
  BY <1>7, <1>8, <1>9, <1>10 DEF CatalogInv

\* Status, groups, items and bindings: neither categories nor what products are in them.
LEMMA CatalogAside ==
    ASSUME CatalogInv, UNCHANGED <<cat, used>>, spu' \in [Spu -> CT!Product \cup {None}],
           \A s \in Spu : (spu[s] = None <=> spu'[s] = None)
                          /\ (spu[s] # None => spu'[s].category_id = spu[s].category_id),
           group' \subseteq Group, item' \subseteq CT!GroupItem, \A l \in item' : l[1] \in group',
           bound' \subseteq CT!Categories,
           req' = req \/ \E q \in Req : CT!Goto(q, CT!Idle)
    PROVE  CatalogInv'
<1>1. req' \in [Req -> CT!Handler] /\ \A r \in Req : req'[r] = req[r] \/ req'[r] = CT!Idle
  BY CatalogIdle DEF CT!Goto, CatalogInv, CT!TypeOK
<1>2. CT!Categories' = CT!Categories /\ CT!Products' = CT!Products /\ CT!GroupItem' = CT!GroupItem
  BY DEF CT!Categories, CT!Products, CT!GroupItem
<1>3. \A row, c : RowSound(row, c) => RowSound(row, c)'
  BY <1>2 DEF RowSound
<1>4. \A c : CT!InUse(c)' => CT!InUse(c)
  BY <1>2 DEF CT!InUse, CT!Products
<1>5. CT!TypeOK'
  BY <1>1, <1>2 DEF CatalogInv, CT!TypeOK
<1>6. \A x : KnowsCatalog(x) => KnowsCatalog(x)'
  BY <1>2, <1>3, <1>4 DEF KnowsCatalog
<1>7. \A r \in Req : KnowsCatalog(req[r])'
  <2> SUFFICES ASSUME NEW r \in Req PROVE KnowsCatalog(req[r])'
    OBVIOUS
  <2>1. PICK k : req'[r] = k /\ KnowsCatalog(k)
    BY <1>1, CatalogIdle DEF CatalogInv
  <2>2. KnowsCatalog(k)'
    BY <1>6, <2>1
  <2> QED
    BY <2>1, <2>2 DEF KnowsCatalog
<1>8. \A c \in CT!Categories' : RowSound(cat[c], c)'
  <2> SUFFICES ASSUME NEW c \in CT!Categories' PROVE RowSound(cat[c], c)'
    OBVIOUS
  <2>1. PICK x : x = cat[c] /\ RowSound(x, c) /\ cat'[c] = x
    BY <1>2 DEF CatalogInv
  <2>2. RowSound(x, c)'
    BY <1>3, <2>1
  <2> QED
    BY <2>1, <2>2 DEF RowSound
<1>9. \A q, r \in Req : q # r /\ req'[q].pc = "insert" /\ req'[r].pc = "insert" => req'[q].cat # req'[r].cat
  BY <1>1, CatalogIdle DEF CatalogInv
<1> QED
  BY <1>5, <1>7, <1>8, <1>9 DEF CatalogInv

LEMMA CatalogBind == ASSUME CatalogInv, NEW q \in Req, (\E c \in Cat : CT!BeginBind(q, c)) \/ CT!Bind(q) PROVE CatalogInv'
<1>1. ASSUME NEW c \in Cat, CT!BeginBind(q, c) PROVE CatalogInv'
  <2> DEFINE h == [CT!Idle EXCEPT !.pc = "bind", !.cat = c]
  <2>1. CT!Goto(q, h) /\ UNCHANGED <<cat, used, spu, group, item, bound>>
    BY <1>1 DEF CT!BeginBind, CT!Read
  <2>2. h \in CT!Handler /\ h.pc = "bind"
    BY CatalogIdle DEF CT!Handler
  <2> HIDE DEF h
  <2>3. KnowsCatalog(h)
    BY <2>2 DEF KnowsCatalog
  <2> QED
    BY <2>1, <2>2, <2>3, CatalogGoto
<1>2. ASSUME CT!Bind(q) PROVE CatalogInv'
  <2>1. /\ req[q].cat \in CT!Categories /\ bound' = bound \cup {req[q].cat} /\ CT!Goto(q, CT!Idle)
        /\ UNCHANGED <<cat, used, spu, group, item>>
    BY <1>2 DEF CT!Bind
  <2>2. /\ bound' \subseteq CT!Categories /\ spu \in [Spu -> CT!Product \cup {None}] /\ group \subseteq Group
        /\ item \subseteq CT!GroupItem /\ \A l \in item : l[1] \in group
    BY <2>1 DEF CatalogInv, CT!TypeOK
  <2> QED
    BY <2>1, <2>2, CatalogAside
<1> QED
  BY <1>1, <1>2

LEMMA CatalogProducts ==
    ASSUME CatalogInv, CT!CatalogAssumption,
           \/ \E s \in Spu : \/ \E c \in Cat, status \in {"DRAFT", "ONLINE", "OFFLINE"} : CT!CreateSpu(s, c, status)
                             \/ CT!SetStatus(s, "ONLINE") \/ CT!SetStatus(s, "OFFLINE")
           \/ \E q \in Req : CT!MoveSpu(q) \/ \E s \in Spu, c \in Cat : CT!BeginMove(q, s, c)
    PROVE  CatalogInv'
<1>1. ASSUME NEW s \in Spu, NEW c \in Cat, NEW status \in {"DRAFT", "ONLINE", "OFFLINE"}, CT!CreateSpu(s, c, status)
      PROVE  CatalogInv'
  <2> DEFINE row == [category_id |-> c, status |-> status]
  <2>1. row \in CT!Product /\ CT!Placed(s, row, {})
    BY <1>1 DEF CT!CreateSpu, CT!Product
  <2> HIDE DEF row
  <2> QED
    BY <2>1, CatalogPlaced
<1>2. ASSUME NEW s \in Spu, NEW status \in {"ONLINE", "OFFLINE"}, CT!SetStatus(s, status) PROVE CatalogInv'
  <2>1. s \in CT!Products /\ spu' = [spu EXCEPT ![s].status = status] /\ UNCHANGED <<cat, used, group, item, bound, req>>
    BY <1>2 DEF CT!SetStatus
  <2>2. /\ spu \in [Spu -> CT!Product \cup {None}] /\ group \subseteq Group /\ bound \subseteq CT!Categories
        /\ item \subseteq CT!GroupItem /\ \A l \in item : l[1] \in group
    BY DEF CatalogInv, CT!TypeOK
  <2> DEFINE row == [spu[s] EXCEPT !.status = status]
  <2>3. spu[s] \in CT!Product /\ row \in CT!Product /\ row.category_id = spu[s].category_id /\ spu[s] # None
    BY <2>1, <2>2 DEF CT!Products, CT!Product
  <2>4. row # None
    BY <2>3 DEF CT!CatalogAssumption, CT!Product
  <2>5. spu' = [spu EXCEPT ![s] = row]
    BY <2>1
  <2> HIDE DEF row
  <2>6. /\ spu' \in [Spu -> CT!Product \cup {None}]
        /\ \A x \in Spu : (spu[x] = None <=> spu'[x] = None)
                          /\ (spu[x] # None => spu'[x].category_id = spu[x].category_id)
    BY <2>2, <2>3, <2>4, <2>5
  <2> QED
    BY <2>1, <2>2, <2>6, CatalogAside
<1>3. ASSUME NEW q \in Req, CT!MoveSpu(q) PROVE CatalogInv'
  <2> DEFINE s == req[q].spu
             c == req[q].cat
             row == [spu[s] EXCEPT !.category_id = c]
  <2>1. req[q].pc = "move" /\ CT!Placed(s, row, {q})
    BY <1>3 DEF CT!MoveSpu
  <2>2. s \in Spu /\ spu[s] \in CT!Product /\ c \in Cat
    BY <2>1 DEF CatalogInv, CT!TypeOK, KnowsCatalog, CT!Products
  <2> HIDE DEF s, c
  <2>3. row \in CT!Product
    BY <2>2 DEF CT!Product
  <2> HIDE DEF row
  <2> QED
    BY <2>1, <2>2, <2>3, CatalogPlaced
<1>4. ASSUME NEW q \in Req, NEW s \in Spu, NEW c \in Cat, CT!BeginMove(q, s, c) PROVE CatalogInv'
  <2> DEFINE h == [CT!Idle EXCEPT !.pc = "move", !.spu = s, !.cat = c]
  <2>1. s \in CT!Products /\ CT!Goto(q, h) /\ UNCHANGED <<cat, used, spu, group, item, bound>>
    BY <1>4 DEF CT!BeginMove, CT!Read
  <2>2. h \in CT!Handler /\ h.pc = "move" /\ h.spu = s /\ h.cat = c
    BY CatalogIdle DEF CT!Handler
  <2> HIDE DEF h
  <2>3. KnowsCatalog(h)
    BY <2>1, <2>2 DEF KnowsCatalog
  <2> QED
    BY <2>1, <2>2, <2>3, CatalogGoto
<1> QED
  BY <1>1, <1>2, <1>3, <1>4

LEMMA CatalogGroups ==
    ASSUME CatalogInv,
           \/ \E q \in Req : \/ \E g \in Group : CT!BeginDrop(q, g) \/ \E s \in Spu : CT!BeginItem(q, g, s)
                             \/ CT!InsertItem(q) \/ CT!DeleteGroup(q) \/ CT!Fail(q)
           \/ \E g \in Group : CT!CreateGroup(g) \/ \E s \in Spu : CT!RemoveItem(g, s)
    PROVE  CatalogInv'
<1>1. /\ spu \in [Spu -> CT!Product \cup {None}] /\ group \subseteq Group /\ bound \subseteq CT!Categories
      /\ item \subseteq CT!GroupItem /\ \A l \in item : l[1] \in group
  BY DEF CatalogInv, CT!TypeOK
<1>2. ASSUME NEW q \in Req, NEW g \in Group, CT!BeginDrop(q, g) PROVE CatalogInv'
  <2> DEFINE items == {s \in Spu : <<g, s>> \in item}
             h == [CT!Idle EXCEPT !.pc = "drop", !.group = g, !.items = items]
  <2>1. CT!Goto(q, h) /\ UNCHANGED <<cat, used, spu, group, item, bound>> /\ items \in SUBSET Spu
    BY <1>2 DEF CT!BeginDrop, CT!Read
  <2> HIDE DEF items
  <2>2. h \in CT!Handler /\ h.pc = "drop"
    BY <2>1, CatalogIdle DEF CT!Handler
  <2> HIDE DEF h
  <2>3. KnowsCatalog(h)
    BY <2>2 DEF KnowsCatalog
  <2> QED
    BY <2>1, <2>2, <2>3, CatalogGoto
<1>3. ASSUME NEW q \in Req, NEW g \in Group, NEW s \in Spu, CT!BeginItem(q, g, s) PROVE CatalogInv'
  <2> DEFINE h == [CT!Idle EXCEPT !.pc = "item", !.group = g, !.spu = s]
  <2>1. s \in CT!Products /\ CT!Goto(q, h) /\ UNCHANGED <<cat, used, spu, group, item, bound>>
    BY <1>3 DEF CT!BeginItem, CT!Read
  <2>2. h \in CT!Handler /\ h.pc = "item" /\ h.spu = s
    BY CatalogIdle DEF CT!Handler
  <2> HIDE DEF h
  <2>3. KnowsCatalog(h)
    BY <2>1, <2>2 DEF KnowsCatalog
  <2> QED
    BY <2>1, <2>2, <2>3, CatalogGoto
<1>4. ASSUME NEW q \in Req, CT!InsertItem(q) PROVE CatalogInv'
  <2> DEFINE g == req[q].group
             s == req[q].spu
  <2>1. /\ req[q].pc = "item" /\ g \in group /\ item' = item \cup {<<g, s>>} /\ CT!Goto(q, CT!Idle)
        /\ UNCHANGED <<cat, used, spu, group, bound>>
    BY <1>4 DEF CT!InsertItem
  <2>2. s \in CT!Products
    BY <2>1 DEF CatalogInv, KnowsCatalog
  <2> HIDE DEF g, s
  <2>3. item' \subseteq CT!GroupItem /\ \A l \in item' : l[1] \in group
    BY <1>1, <2>1, <2>2 DEF CT!GroupItem
  <2> QED
    BY <1>1, <2>1, <2>3, CatalogAside
<1>5. ASSUME NEW q \in Req, CT!DeleteGroup(q) PROVE CatalogInv'
  <2> DEFINE g == req[q].group
             items == req[q].items
  <2>1. /\ {s \in Spu : <<g, s>> \in item} = items /\ item' = item \ ({g} \X items) /\ group' = group \ {g}
        /\ CT!Goto(q, CT!Idle) /\ UNCHANGED <<cat, used, spu, bound>>
    BY <1>5 DEF CT!DeleteGroup
  <2> HIDE DEF g, items
  <2>2. ASSUME NEW l \in item' PROVE l[1] \in group'
    <3>1. PICK x \in Group, y \in CT!Products : l = <<x, y>>
      BY <1>1, <2>1, <2>2 DEF CT!GroupItem
    <3>2. y \in Spu /\ l \in item /\ l[1] = x
      BY <2>1, <2>2, <3>1 DEF CT!Products
    <3>3. x = g => <<x, y>> \in {g} \X items
      BY <2>1, <3>1, <3>2
    <3> QED
      BY <1>1, <2>1, <2>2, <3>1, <3>2, <3>3
  <2> QED
    BY <1>1, <2>1, <2>2, CatalogAside
<1>6. ASSUME NEW q \in Req, CT!Fail(q) PROVE CatalogInv'
  BY <1>1, <1>6, CatalogAside DEF CT!Fail
<1>7. ASSUME NEW g \in Group, CT!CreateGroup(g) PROVE CatalogInv'
  BY <1>1, <1>7, CatalogAside DEF CT!CreateGroup
<1>8. ASSUME NEW g \in Group, NEW s \in Spu, CT!RemoveItem(g, s) PROVE CatalogInv'
  BY <1>1, <1>8, CatalogAside DEF CT!RemoveItem
<1> QED
  BY <1>2, <1>3, <1>4, <1>5, <1>6, <1>7, <1>8

\* Every step keeps it, and so does a step of another part.
LEMMA CatalogKept == ASSUME CT!CatalogAssumption PROVE CatalogInv /\ [CT!Next]_(CT!vars) => CatalogInv'
<1>1. ASSUME CatalogInv, CT!Next PROVE CatalogInv'
  BY <1>1, CatalogBegin, CatalogInsert, CatalogDelete, CatalogBind, CatalogProducts, CatalogGroups DEF CT!Next
<1>2. ASSUME CatalogInv, UNCHANGED CT!vars PROVE CatalogInv'
  BY <1>2, CatalogAside DEF CT!vars, CatalogInv, CT!TypeOK
<1> QED
  BY <1>1, <1>2

\* A row to be inserted is sound although its parent may have gone, and a category that was
\* counted has no product unless one came since.
THEOREM CatalogInvariant == ASSUME CT!CatalogAssumption PROVE CT!Spec => []CatalogInv
BY CatalogInit, CatalogKept, PTL DEF CT!Spec

\* The same where it is one of nine parts: the others leave its variables alone.
LEMMA CatalogRun == Spec => [](part = "catalog" => CatalogInv)
<1>1. CT!CatalogAssumption
  BY PartsAssumption DEF PartsAssumption
<1>2. Init => (part = "catalog" => CatalogInv)
  BY <1>1, CatalogInit DEF Init
<1>3. ASSUME part = "catalog" => CatalogInv, [Next]_vars PROVE (part = "catalog" => CatalogInv)'
  <2>1. part' = part
    BY <1>3 DEF Next, OthersRest, vars
  <2>2. part = "catalog" => [CT!Next]_(CT!vars)
    BY <1>3 DEF Next, vars, catalogVars, CT!vars
  <2> QED
    BY <1>1, <1>3, <2>1, <2>2, CatalogKept
<1> QED
  BY <1>2, <1>3, PTL DEF Spec

\* A category's path is its parents, root first, as far as they still exist, none of them
\* The invariant is enough for the tree.
LEMMA CatalogSound == ASSUME CatalogInv PROVE CT!TreeSound
<1> SUFFICES ASSUME NEW c \in CT!Categories
             PROVE  LET row == cat[c] IN
                    /\ Len(row.path) = row.level - 1 /\ row.level <= MAX_CATEGORY_LEVEL
                    /\ \A i \in DOMAIN row.path : row.path[i] # c
                    /\ row.parent_id = IF row.path = <<>> THEN Root ELSE row.path[Len(row.path)]
                    /\ \A i \in DOMAIN row.path :
                         row.path[i] \in CT!Categories => cat[row.path[i]].path = SubSeq(row.path, 1, i - 1)
  BY DEF CT!TreeSound
<1>1. RowSound(cat[c], c) /\ cat[c] \in CT!Category
  BY DEF CatalogInv, CT!TypeOK, CT!Categories
<1>2. cat[c].level \in 1..MAX_CATEGORY_LEVEL /\ DOMAIN cat[c].path = 1..Len(cat[c].path)
  BY <1>1 DEF CT!Category
<1>3. cat[c].level <= MAX_CATEGORY_LEVEL
  BY <1>2
<1> QED
  BY <1>1, <1>2, <1>3 DEF RowSound

\* itself (create_category).
THEOREM TreeSoundHolds == ASSUME CT!CatalogAssumption PROVE CT!Spec => []CT!TreeSound
BY CatalogSound, CatalogInvariant, PTL

\* A category with products is removed only if one came to it between the count and the
\* DELETE (delete_category).
THEOREM NoProductLeftHolds == Spec => NoProductLeft
<1>0. CT!CatalogAssumption
  BY PartsAssumption DEF PartsAssumption
<1> USE <1>0
<1>1. ASSUME CatalogInv, CT!Next PROVE CT!LeavesNoProduct
  <2> SUFFICES ASSUME NEW c \in Cat, cat[c] # None, cat'[c] = None, CT!InUse(c)
               PROVE  \E q \in Req : req[q].cat = c /\ req[q].overlap
    BY DEF CT!LeavesNoProduct
  <2>1. cat' # cat /\ cat \in [Cat -> CT!Category \cup {None}]
    BY <1>1 DEF CatalogInv, CT!TypeOK
  <2>2. ASSUME NEW q \in Req, CT!InsertCategory(q) PROVE FALSE
    BY <1>1, <2>1, <2>2 DEF CT!InsertCategory, CatalogInv, KnowsCatalog, CT!TypeOK, CT!Categories
  <2>3. ASSUME NEW q \in Req, CT!DeleteCategory(q) PROVE req[q].cat = c /\ req[q].overlap
    BY <1>1, <2>1, <2>3 DEF CT!DeleteCategory, CatalogInv, KnowsCatalog
  <2> QED
    BY <1>1, <2>1, <2>2, <2>3 DEF CT!Next, CT!BeginCategory, CT!BeginDelete, CT!CountProducts, CT!BeginBind,
       CT!Bind, CT!BeginMove, CT!MoveSpu, CT!Placed, CT!BeginDrop, CT!BeginItem, CT!InsertItem, CT!DeleteGroup,
       CT!Fail, CT!CreateSpu, CT!SetStatus, CT!CreateGroup, CT!RemoveItem, CT!Read
<1>2. ASSUME part = "catalog" => CatalogInv, [Next]_vars PROVE [part = "catalog" => CT!LeavesNoProduct]_vars
  <2>1. part = "catalog" /\ Next => CT!Next
    BY DEF Next
  <2> QED
    BY <1>1, <1>2, <2>1
<1> QED
  BY <1>2, CatalogRun, PTL DEF Spec, NoProductLeft
----------------------------------------------------------------------------
(* All parts.                                                              *)

\* In every part the rows, keys and handlers are what its module says.
THEOREM TypesHold == Spec => []TypesOK
<1>1. /\ SmsInv => SA!TypeOK
      /\ ConsumersInv => CO!TypeOK
      /\ CaptchaInv => CA!TypeOK
      /\ CompletionInv => CM!TypeOK
      /\ CatalogInv => CT!TypeOK /\ CT!TreeSound
      /\ GitInv => GP!TypeOK
      /\ AccountsInv => AU!TypeOK
      /\ GatewayInv => GW!TypeOK
  BY CatalogSound DEF SmsInv, ConsumersInv, CaptchaInv, CompletionInv, CatalogInv, GitInv, AccountsInv, GatewayInv
<1>2. /\ part = "sms" => SmsInv
      /\ part = "consumer" => ConsumersInv
      /\ part = "captcha" => CaptchaInv
      /\ part = "completion" => CompletionInv
      /\ part = "catalog" => CatalogInv
      /\ part = "git" => GitInv
      /\ part = "accounts" => AccountsInv
      /\ part = "seo" => SE!TypeOK
      /\ part = "gateway" => GatewayInv
      => TypesOK
  BY <1>1 DEF TypesOK
<1> QED
  BY <1>2, SmsRun, ConsumersRun, CaptchaRun, CompletionRun, CatalogRun, GitRun, AccountsRun, SeoTypes,
     GatewayRun, PTL
=============================================================================
