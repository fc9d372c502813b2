--------------------------- MODULE SmsSend_proofs ---------------------------
(***************************************************************************)
(* Proof that a duplicate is answered with its own successful record, and  *)
(* that what was sent, recorded and remembered is not sent again.  Both    *)
(* rest on the unique request_id: the INSERT of a second handler waits for *)
(* the first handler's transaction, so that the key can only name the row  *)
(* of the transaction that is open, or of the last one that ended.         *)
(***************************************************************************)
EXTENDS SmsSend, TLAPS

Active == {"flushed", "SENT", "FAILED"}

Inserted == {"setidem", "finish"}

\* One row per request id, and only /send-code commits failures.
RowInv ==
    /\ \A i \in Id, j \in Id : /\ rows[i].st \in Active /\ rows[j].st \in Active
                               /\ rows[i].rid # None /\ rows[i].rid = rows[j].rid
                               => i = j
    /\ \A i \in Id : rows[i].st = "FAILED" => rows[i].rid = None

\* The handler between its INSERT and the end of its transaction owns its row.
OwnerInv ==
    /\ \A r \in Req : req[r].pc \in Inserted
         => req[r].id \in Id /\ rows[req[r].id] = [st |-> "flushed", rid |-> req[r].rid]
    /\ \A r \in Req, x \in Req : /\ r # x
                                 /\ req[r].pc \in Inserted /\ req[x].pc \in Inserted
                                 => req[r].id # req[x].id

HandlerInv ==
    \A r \in Req :
        /\ req[r].pc # "idle" => req[r].ch \in Channel
        /\ req[r].rid # None => req[r].kind = "send"
        /\ req[r].pc = "setidem" => req[r].rid # None
        /\ req[r].pc = "select" => req[r].rid # None /\ req[r].id \in Id
        /\ req[r].pc = "finish" /\ req[r].rid # None /\ idem[req[r].rid] # None
             => idem[req[r].rid] = req[r].id
        /\ req[r].again => /\ req[r].pc = "select"
                           /\ rows[req[r].id] = [st |-> "SENT", rid |-> req[r].rid]

\* The key names a row of its request id, and the sent one if there is one.
IdemInv ==
    \A k \in Rid : idem[k] # None =>
        /\ rows[idem[k]].rid = k
        /\ rows[idem[k]].st \in {"flushed", "SENT", "gone"}
        /\ \A i \in Id : rows[i] = [st |-> "SENT", rid |-> k] => idem[k] = i

SendInv == TypeOK /\ RowInv /\ OwnerInv /\ HandlerInv /\ IdemInv

LEMMA BreakerTypes ==
    /\ WellFormed(Closed)
    /\ \A c \in Circuit : WellFormed(c) =>
         /\ WellFormed(HalfOpened(c)) /\ WellFormed(Failed(c))
         /\ WellFormed(Succeeded(c)) /\ WellFormed(Aged(c))
<1>1. Threshold \in Nat /\ Threshold > 0 /\ Recovery \in Nat
  BY BreakerAssumption
<1>2. WellFormed(Closed)
  BY <1>1 DEF WellFormed, Closed, Circuit
<1> SUFFICES ASSUME NEW c \in Circuit, WellFormed(c)
             PROVE  /\ WellFormed(HalfOpened(c)) /\ WellFormed(Failed(c))
                    /\ WellFormed(Succeeded(c)) /\ WellFormed(Aged(c))
  BY <1>2
<1>3. /\ c.count \in 0..Threshold /\ c.open \in BOOLEAN /\ c.since \in 0..Recovery
      /\ (c.open <=> c.count = Threshold)
      /\ c = [count |-> c.count, open |-> c.open, since |-> c.since]
  BY DEF WellFormed, Circuit
<1>4. ASSUME NEW n \in 0..Threshold, NEW o \in BOOLEAN, NEW s \in 0..Recovery,
             o <=> n = Threshold
      PROVE  WellFormed([count |-> n, open |-> o, since |-> s])
  BY <1>4 DEF WellFormed, Circuit
<1>7. WellFormed(Aged(c))
  <2> DEFINE s == IF c.since < Recovery THEN c.since + 1 ELSE Recovery
  <2>1. s \in 0..Recovery
    BY <1>1, <1>3
  <2>2. Aged(c) = [c EXCEPT !.since = s]
    BY DEF Aged
  <2> HIDE DEF s
  <2>3. WellFormed([c EXCEPT !.since = s])
    BY <2>1 DEF WellFormed, Circuit
  <2> QED BY <2>2, <2>3
<1>8. WellFormed(Failed(c))
  <2> DEFINE n == IF c.count < Threshold THEN c.count + 1 ELSE Threshold
             o == c.open \/ n >= Threshold
  <2>1. n \in 0..Threshold /\ o \in BOOLEAN /\ 0 \in 0..Recovery
    BY <1>1, <1>3
  <2>2. o <=> n = Threshold
    BY <1>1, <1>3
  <2>3. Failed(c) = [count |-> n, open |-> o, since |-> 0]
    BY DEF Failed
  <2> HIDE DEF n, o
  <2> QED BY <1>4, <2>1, <2>2, <2>3
<1>9. WellFormed(HalfOpened(c))
  BY <1>2 DEF HalfOpened
<1>10. WellFormed(Succeeded(c))
  BY <1>2 DEF Succeeded
<1> QED BY <1>7, <1>8, <1>9, <1>10

\* The circuits after a step that applies one operation to one of them.
Kept(f) == f \in [Channel -> Circuit] /\ \A c \in Channel : WellFormed(f[c])

LEMMA InitSend == Init => SendInv
<1> SUFFICES ASSUME Init PROVE SendInv
  OBVIOUS
<1>1. None \notin Rid \cup Id \cup Channel
  BY SendAssumption
<1>2. TypeOK
  <2>1. circuit \in [Channel -> Circuit] /\ \A c \in Channel : WellFormed(circuit[c])
    BY BreakerTypes DEF Init, WellFormed
  <2> QED BY <2>1 DEF Init, TypeOK, Idle, Request, Row, Opt
<1>3. RowInv /\ OwnerInv /\ HandlerInv /\ IdemInv
  BY <1>1 DEF Init, RowInv, OwnerInv, HandlerInv, IdemInv, Active, Inserted, Idle
<1> QED BY <1>2, <1>3 DEF SendInv

LEMMA IdleTyped == Idle \in Request
  BY DEF Idle, Request, Opt

LEMMA SendStep ==
    ASSUME SendInv, NEW r \in Req, NEW k \in Opt(Rid), NEW c \in Channel, Send(r, k, c)
    PROVE  SendInv'
<1> DEFINE i == IF k = None THEN None ELSE idem[k]
           q == [Idle EXCEPT !.pc = IF i = None THEN "route" ELSE "select",
                             !.rid = k, !.ch = c, !.id = i,
                             !.again = /\ i # None
                                       /\ \E j \in Id : rows[j] = [st |-> "SENT", rid |-> k]]
<1>1. /\ req \in [Req -> Request] /\ idem \in [Rid -> Opt(Id)]
      /\ req' = [req EXCEPT ![r] = q] /\ UNCHANGED <<circuit, idem, rows, delivered>>
  BY DEF SendInv, TypeOK, Send
<1>2. None \notin Rid \cup Id \cup Channel
  BY SendAssumption
<1>3. k # None => k \in Rid
  BY DEF Opt
<1>4. i \in Opt(Id)
  BY <1>1, <1>3 DEF Opt
<1> HIDE DEF i
<1>5. /\ q.pc \in {"route", "select"} /\ (q.pc = "select" <=> i # None)
      /\ q.rid = k /\ q.ch = c /\ q.id = i /\ q.kind = "send"
      /\ q.again \in BOOLEAN
      /\ (q.again <=> i # None /\ \E j \in Id : rows[j] = [st |-> "SENT", rid |-> k])
      /\ q \in Request
  BY <1>4 DEF Idle, Request, Opt
<1> HIDE DEF q
<1>6. req' \in [Req -> Request] /\ req'[r] = q /\ \A x \in Req \ {r} : req'[x] = req[x]
  BY <1>1, <1>5
<1>7. TypeOK'
  BY <1>1, <1>6 DEF SendInv, TypeOK
<1>8. RowInv' /\ IdemInv'
  BY <1>1 DEF SendInv, RowInv, IdemInv
<1>9. OwnerInv'
  BY <1>1, <1>5, <1>6 DEF SendInv, OwnerInv, Inserted
<1>10. q.pc = "select" => k # None /\ i \in Id
  BY <1>4, <1>5 DEF i, Opt
<1>11. q.again => rows[i] = [st |-> "SENT", rid |-> k]
  <2>1. SUFFICES ASSUME q.again PROVE rows[i] = [st |-> "SENT", rid |-> k]
    OBVIOUS
  <2>2. k \in Rid /\ i = idem[k] /\ idem[k] # None
    BY <1>3, <1>5, <2>1 DEF i
  <2>3. PICK j \in Id : rows[j] = [st |-> "SENT", rid |-> k]
    BY <1>5, <2>1
  <2>4. idem[k] = j
    BY <2>2, <2>3 DEF SendInv, IdemInv
  <2> QED BY <2>2, <2>3, <2>4
<1>12. HandlerInv'
  BY <1>1, <1>5, <1>6, <1>10, <1>11 DEF SendInv, HandlerInv
<1> QED BY <1>7, <1>8, <1>9, <1>12 DEF SendInv

LEMMA CodeStep ==
    ASSUME SendInv, NEW r \in Req, NEW c \in Channel, SendCode(r, c)
    PROVE  SendInv'
<1> DEFINE q == [Idle EXCEPT !.pc = "route", !.kind = "code", !.ch = c]
<1>1. /\ req \in [Req -> Request]
      /\ req' = [req EXCEPT ![r] = q] /\ UNCHANGED <<circuit, idem, rows, delivered>>
  BY DEF SendInv, TypeOK, SendCode
<1>2. q.pc = "route" /\ q.ch = c /\ q.rid = None /\ ~q.again /\ q \in Request
  BY DEF Idle, Request, Opt
<1> HIDE DEF q
<1>3. req' \in [Req -> Request] /\ req'[r] = q /\ \A x \in Req \ {r} : req'[x] = req[x]
  BY <1>1, <1>2
<1>4. TypeOK'
  BY <1>1, <1>3 DEF SendInv, TypeOK
<1>5. RowInv' /\ IdemInv'
  BY <1>1 DEF SendInv, RowInv, IdemInv
<1>6. OwnerInv'
  BY <1>1, <1>2, <1>3 DEF SendInv, OwnerInv, Inserted
<1>7. HandlerInv'
  BY <1>1, <1>2, <1>3 DEF SendInv, HandlerInv
<1> QED BY <1>4, <1>5, <1>6, <1>7 DEF SendInv

\* A handler that only moves, to a place where it owns no row.
LEMMA MoveStep ==
    ASSUME SendInv, NEW r \in Req, NEW q \in Request, req' = [req EXCEPT ![r] = q],
           q.pc \in {"idle", "route", "sending", "flush"}, ~q.again,
           q.pc # "idle" => q.ch \in Channel,
           q.rid # None => q.kind = "send",
           Kept(circuit'), delivered' \in [Rid -> 0..2], UNCHANGED <<idem, rows>>
    PROVE  SendInv'
<1>1. /\ req \in [Req -> Request] /\ req' \in [Req -> Request]
      /\ req'[r] = q /\ \A x \in Req \ {r} : req'[x] = req[x]
  BY DEF SendInv, TypeOK
<1>2. TypeOK'
  BY <1>1 DEF SendInv, TypeOK, Kept
<1>3. RowInv' /\ IdemInv'
  BY DEF SendInv, RowInv, IdemInv
<1>4. OwnerInv'
  BY <1>1 DEF SendInv, OwnerInv, Inserted
<1>5. HandlerInv'
  BY <1>1 DEF SendInv, HandlerInv
<1> QED BY <1>2, <1>3, <1>4, <1>5 DEF SendInv

LEMMA SelectStep == ASSUME SendInv, NEW r \in Req, Select(r) PROVE SendInv'
<1> DEFINE q == IF Committed(req[r].id) THEN Idle
                ELSE [req[r] EXCEPT !.pc = "route", !.id = None]
<1>1. /\ req[r] \in Request /\ req[r].pc = "select" /\ req' = [req EXCEPT ![r] = q]
      /\ UNCHANGED <<circuit, idem, rows, delivered>>
  BY DEF SendInv, TypeOK, Select
<1>2. /\ req[r].ch \in Channel /\ (req[r].rid # None => req[r].kind = "send")
      /\ (req[r].again => rows[req[r].id] = [st |-> "SENT", rid |-> req[r].rid])
  BY <1>1 DEF SendInv, HandlerInv
<1>3. CASE Committed(req[r].id)
  <2>1. /\ q \in Request /\ q.pc = "idle" /\ ~q.again /\ q.rid = None
    BY <1>3, IdleTyped DEF Idle
  <2> HIDE DEF q
  <2>2. Kept(circuit') /\ delivered' \in [Rid -> 0..2]
    BY <1>1 DEF SendInv, TypeOK, Kept
  <2> QED BY <1>1, <2>1, <2>2, MoveStep
<1>4. CASE ~Committed(req[r].id)
  <2>1. ~req[r].again
    BY <1>2, <1>4 DEF Committed
  <2>2. /\ q \in Request /\ q.pc = "route" /\ ~q.again /\ q.ch = req[r].ch
        /\ q.rid = req[r].rid /\ q.kind = req[r].kind
    BY <1>1, <1>4, <2>1 DEF Request, Opt
  <2> HIDE DEF q
  <2>3. Kept(circuit') /\ delivered' \in [Rid -> 0..2]
    BY <1>1 DEF SendInv, TypeOK, Kept
  <2> QED BY <1>1, <1>2, <2>2, <2>3, MoveStep
<1> QED BY <1>3, <1>4

LEMMA RouteStep == ASSUME SendInv, NEW r \in Req, Route(r) PROVE SendInv'
<1> DEFINE c == req[r].ch
           state == HalfOpened(circuit[c])
           q == [req[r] EXCEPT !.pc = "sending", !.via = RouteOf(c, state)]
<1>1. /\ req \in [Req -> Request] /\ req[r] \in Request /\ req[r].pc = "route"
      /\ circuit' = [circuit EXCEPT ![c] = state] /\ UNCHANGED <<idem, rows, delivered>>
      /\ Kept(circuit) /\ delivered \in [Rid -> 0..2]
  BY DEF SendInv, TypeOK, Route, Kept
<1>2. req' = [req EXCEPT ![r] = q]
  BY <1>1 DEF Route, Request
<1>3. c \in Channel /\ (req[r].rid # None => req[r].kind = "send") /\ ~req[r].again
  BY <1>1 DEF SendInv, HandlerInv
<1>4. WellFormed(state)
  BY <1>1, <1>3, BreakerTypes DEF Kept
<1>5. RouteOf(c, state) \in Opt(Channel)
  BY <1>3, SendAssumption DEF RouteOf, Opt
<1> HIDE DEF state, c
<1>6. Kept(circuit')
  BY <1>1, <1>3, <1>4 DEF Kept, WellFormed
<1>7. /\ q \in Request /\ q.pc = "sending" /\ ~q.again /\ q.ch = c
      /\ q.rid = req[r].rid /\ q.kind = req[r].kind
  BY <1>1, <1>3, <1>5 DEF Request, c
<1> HIDE DEF q
<1> QED BY <1>1, <1>2, <1>3, <1>6, <1>7, MoveStep

LEMMA AnswerStep ==
    ASSUME SendInv, NEW r \in Req, NEW ok \in BOOLEAN, NEW arrived \in BOOLEAN,
           Answer(r, ok, arrived)
    PROVE  SendInv'
<1> DEFINE c == req[r].ch
           state == IF ok THEN Succeeded(circuit[c]) ELSE Failed(circuit[c])
           q == [req[r] EXCEPT !.pc = "flush", !.ok = ok]
<1>1. /\ req \in [Req -> Request] /\ req[r] \in Request /\ req[r].pc = "sending"
      /\ circuit \in [Channel -> Circuit] /\ delivered \in [Rid -> 0..2]
      /\ Kept(circuit) /\ UNCHANGED <<idem, rows>>
  BY DEF SendInv, TypeOK, Answer, Kept
<1>2. c \in Channel /\ (req[r].rid # None => req[r].kind = "send") /\ ~req[r].again
  BY <1>1 DEF SendInv, HandlerInv
<1>3. circuit' = [circuit EXCEPT ![c] = state]
  BY <1>1, <1>2 DEF Answer
<1>4. WellFormed(state)
  BY <1>1, <1>2, BreakerTypes DEF Kept
<1>5. req' = [req EXCEPT ![r] = q]
  BY <1>1 DEF Answer, Request
<1>6. delivered' \in [Rid -> 0..2]
  <2>1. \A n \in 0..2 : More(n) \in 0..2
    BY DEF More
  <2>2. delivered' = delivered \/
          /\ req[r].rid \in Rid
          /\ delivered' = [delivered EXCEPT ![req[r].rid] = More(delivered[req[r].rid])]
    BY <1>1 DEF Answer, Request, Opt
  <2> QED BY <1>1, <2>1, <2>2
<1> HIDE DEF state, c
<1>7. Kept(circuit')
  BY <1>1, <1>2, <1>3, <1>4 DEF Kept, WellFormed
<1>8. /\ q \in Request /\ q.pc = "flush" /\ ~q.again /\ q.ch = c
      /\ q.rid = req[r].rid /\ q.kind = req[r].kind
  BY <1>1, <1>2 DEF Request, c
<1> HIDE DEF q
<1> QED BY <1>1, <1>2, <1>5, <1>6, <1>7, <1>8, MoveStep

LEMMA ConflictStep == ASSUME SendInv, NEW r \in Req, FlushConflict(r) PROVE SendInv'
<1>1. /\ req' = [req EXCEPT ![r] = Idle] /\ UNCHANGED <<circuit, idem, rows, delivered>>
      /\ Kept(circuit') /\ delivered' \in [Rid -> 0..2]
  BY DEF FlushConflict, SendInv, TypeOK, Kept
<1>2. Idle \in Request /\ Idle.pc = "idle" /\ ~Idle.again /\ Idle.rid = None
  BY IdleTyped DEF Idle
<1> QED BY <1>1, <1>2, MoveStep

LEMMA FlushStep ==
    ASSUME SendInv, NEW r \in Req, NEW i \in Id, Flush(r, i)
    PROVE  SendInv'
<1> DEFINE k == req[r].rid
           q == [req[r] EXCEPT !.id = i, !.pc = IF k = None THEN "finish" ELSE "setidem"]
           row == [st |-> "flushed", rid |-> k]
<1>1. /\ req \in [Req -> Request] /\ req[r] \in Request /\ req[r].pc = "flush"
      /\ rows \in [Id -> Row] /\ rows[i].st = "unborn" /\ rows' = [rows EXCEPT ![i] = row]
      /\ UNCHANGED <<circuit, idem, delivered>> /\ Holders(k) = {}
  BY DEF SendInv, TypeOK, Flush
<1>2. req' = [req EXCEPT ![r] = q]
  BY <1>1 DEF Flush, Request
<1>3. /\ req[r].ch \in Channel /\ (k # None => req[r].kind = "send") /\ ~req[r].again
      /\ k \in Opt(Rid)
  BY <1>1 DEF SendInv, HandlerInv, Request
<1>4. /\ q \in Request /\ q.pc = (IF k = None THEN "finish" ELSE "setidem") /\ q.id = i
      /\ q.rid = k /\ ~q.again /\ q.ch = req[r].ch /\ q.kind = req[r].kind
  BY <1>1, <1>3 DEF Request, Opt
<1>5. row \in Row /\ row.st = "flushed" /\ row.rid = k
  BY <1>3 DEF Row
<1> HIDE DEF k, q, row
<1>6. /\ req' \in [Req -> Request] /\ req'[r] = q /\ \A x \in Req \ {r} : req'[x] = req[x]
      /\ rows' \in [Id -> Row] /\ rows'[i] = row /\ \A j \in Id \ {i} : rows'[j] = rows[j]
  BY <1>1, <1>2, <1>4, <1>5
<1>7. TypeOK'
  BY <1>1, <1>6 DEF SendInv, TypeOK
<1>8. RowInv'
  <2>1. ASSUME NEW j \in Id \ {i}, rows[j].st \in Active, k # None PROVE rows[j].rid # k
    BY <1>1, <2>1 DEF Holders, Active
  <2> QED BY <1>5, <1>6, <2>1 DEF SendInv, RowInv, Active
<1>9. OwnerInv'
  <2>1. ASSUME NEW x \in Req \ {r}, req[x].pc \in Inserted
        PROVE  req[x].id \in Id /\ req[x].id # i /\ rows'[req[x].id] = rows[req[x].id]
    <3>1. req[x].id \in Id /\ rows[req[x].id] = [st |-> "flushed", rid |-> req[x].rid]
      BY <2>1 DEF SendInv, OwnerInv
    <3>2. rows[req[x].id].st = "flushed"
      BY <3>1
    <3> QED BY <1>1, <1>6, <3>1, <3>2
  <2>2. ASSUME NEW x \in Req, req'[x].pc \in Inserted
        PROVE  req'[x].id \in Id /\ rows'[req'[x].id] = [st |-> "flushed", rid |-> req'[x].rid]
    <3>1. CASE x = r
      BY <1>4, <1>6, <3>1 DEF row
    <3>2. CASE x # r
      BY <1>6, <2>1, <2>2, <3>2 DEF SendInv, OwnerInv
    <3> QED BY <3>1, <3>2
  <2>3. ASSUME NEW x \in Req, NEW y \in Req, x # y,
               req'[x].pc \in Inserted, req'[y].pc \in Inserted
        PROVE  req'[x].id # req'[y].id
    BY <1>4, <1>6, <2>1, <2>3 DEF SendInv, OwnerInv
  <2> QED BY <2>2, <2>3 DEF OwnerInv
<1>10. IdemInv'
  <2>1. ASSUME NEW n \in Rid, idem[n] # None PROVE idem[n] \in Id /\ idem[n] # i
    BY <1>1, <2>1 DEF SendInv, IdemInv, TypeOK, Opt
  <2> QED BY <1>1, <1>5, <1>6, <2>1 DEF SendInv, IdemInv, row
<1>11. HandlerInv'
  <2>1. ASSUME NEW x \in Req, req[x].again PROVE req[x].id \in Id /\ req[x].id # i
    <3>1. req[x].id \in Id /\ rows[req[x].id] = [st |-> "SENT", rid |-> req[x].rid]
      BY <2>1 DEF SendInv, HandlerInv
    <3>2. rows[req[x].id].st = "SENT"
      BY <3>1
    <3> QED BY <1>1, <3>1, <3>2
  <2>2. ASSUME NEW x \in Req \ {r}, req[x].again
        PROVE  rows'[req[x].id] = rows[req[x].id]
    BY <1>6, <2>1, <2>2
  <2> QED BY <1>1, <1>3, <1>4, <1>6, <2>2 DEF SendInv, HandlerInv
<1> QED BY <1>7, <1>8, <1>9, <1>10, <1>11 DEF SendInv

LEMMA SetIdemStep == ASSUME SendInv, NEW r \in Req, SetIdem(r) PROVE SendInv'
<1> DEFINE k == req[r].rid
           i == req[r].id
           q == [req[r] EXCEPT !.pc = "finish"]
<1>1. /\ req \in [Req -> Request] /\ req[r] \in Request /\ req[r].pc = "setidem"
      /\ idem \in [Rid -> Opt(Id)] /\ idem' = [idem EXCEPT ![k] = i]
      /\ UNCHANGED <<circuit, rows, delivered>> /\ req' = [req EXCEPT ![r] = q]
  BY DEF SendInv, TypeOK, SetIdem
<1>2. /\ k \in Rid /\ k # None /\ req[r].ch \in Channel /\ req[r].kind = "send"
      /\ ~req[r].again
  BY <1>1 DEF SendInv, HandlerInv, Request, Opt
<1>3. i \in Id /\ rows[i] = [st |-> "flushed", rid |-> k] /\ i # None
  BY <1>1, SendAssumption DEF SendInv, OwnerInv, Inserted
<1>4. /\ q \in Request /\ q.pc = "finish" /\ q.id = i /\ q.rid = k /\ ~q.again
      /\ q.ch = req[r].ch /\ q.kind = req[r].kind
  BY <1>1, <1>2 DEF Request
<1> HIDE DEF k, i, q
<1>5. /\ req' \in [Req -> Request] /\ req'[r] = q /\ \A x \in Req \ {r} : req'[x] = req[x]
      /\ idem' \in [Rid -> Opt(Id)] /\ idem'[k] = i /\ \A n \in Rid \ {k} : idem'[n] = idem[n]
  BY <1>1, <1>2, <1>3, <1>4 DEF Opt
<1>6. TypeOK'
  BY <1>1, <1>5 DEF SendInv, TypeOK
<1>7. RowInv'
  BY <1>1 DEF SendInv, RowInv
<1>8. OwnerInv'
  <2>1. q.pc \in Inserted /\ req[r].pc \in Inserted
    BY <1>1, <1>4 DEF Inserted
  <2> QED BY <1>1, <1>3, <1>4, <1>5, <2>1 DEF SendInv, OwnerInv, i
<1>9. ASSUME NEW j \in Id, rows[j].st \in Active, rows[j].rid = k PROVE j = i
  BY <1>2, <1>3, <1>9 DEF SendInv, RowInv, Active
<1>10. IdemInv'
  <2>1. \A j \in Id : rows[j] = [st |-> "SENT", rid |-> k] => i = j
    BY <1>9 DEF Active
  <2>2. rows[i].rid = k /\ rows[i].st = "flushed"
    BY <1>3
  <2>3. ASSUME NEW n \in Rid \ {k}, idem[n] # None
        PROVE  /\ idem'[n] = idem[n] /\ rows[idem[n]].rid = n
               /\ rows[idem[n]].st \in {"flushed", "SENT", "gone"}
               /\ \A j \in Id : rows[j] = [st |-> "SENT", rid |-> n] => idem[n] = j
    BY <1>5, <2>3 DEF SendInv, IdemInv
  <2>4. ASSUME NEW n \in Rid, idem'[n] # None
        PROVE  /\ rows[idem'[n]].rid = n
               /\ rows[idem'[n]].st \in {"flushed", "SENT", "gone"}
               /\ \A j \in Id : rows[j] = [st |-> "SENT", rid |-> n] => idem'[n] = j
    <3>1. CASE n = k
      BY <1>5, <2>1, <2>2, <3>1
    <3>2. CASE n # k
      BY <1>5, <2>3, <2>4, <3>2
    <3> QED BY <3>1, <3>2
  <2>5. rows' = rows
    BY <1>1
  <2> QED BY <2>4, <2>5 DEF IdemInv
<1>11. HandlerInv'
  <2>1. ASSUME NEW x \in Req \ {r}, req[x].pc = "finish", req[x].rid = k
        PROVE  req[x].id = i
    <3>1. req[x].id \in Id /\ rows[req[x].id] = [st |-> "flushed", rid |-> req[x].rid]
      BY <2>1 DEF SendInv, OwnerInv, Inserted
    <3>2. rows[req[x].id].st \in Active /\ rows[req[x].id].rid = k
      BY <2>1, <3>1 DEF Active
    <3> QED BY <1>9, <3>1, <3>2
  <2>2. ASSUME NEW x \in Req \ {r}, req[x].rid # None PROVE req[x].rid \in Rid
    BY <1>1, <2>2 DEF Request, Opt
  <2>3. ASSUME NEW x \in Req \ {r}, req[x].pc = "finish", req[x].rid # None,
               idem'[req[x].rid] # None
        PROVE  idem'[req[x].rid] = req[x].id
    BY <1>5, <2>1, <2>2, <2>3 DEF SendInv, HandlerInv
  <2> QED BY <1>1, <1>2, <1>4, <1>5, <2>3 DEF SendInv, HandlerInv
<1> QED BY <1>6, <1>7, <1>8, <1>10, <1>11 DEF SendInv

\* The transaction of a handler that inserted its row ends; the row is sent
\* only after the key names it.
Ends(r, end) ==
    /\ req[r].pc \in Inserted /\ (end # "gone" => req[r].pc = "finish")
    /\ end \in {"SENT", "FAILED", "gone"} /\ (end = "FAILED" => req[r].rid = None)
    /\ rows' = [rows EXCEPT ![req[r].id].st = end] /\ req' = [req EXCEPT ![r] = Idle]
    /\ UNCHANGED <<circuit, idem, delivered>>

LEMMA EndStep == ASSUME SendInv, NEW r \in Req, NEW end, Ends(r, end) PROVE SendInv'
<1> DEFINE k == req[r].rid
           i == req[r].id
<1>1. /\ req \in [Req -> Request] /\ req[r] \in Request /\ req[r].pc \in Inserted
      /\ rows \in [Id -> Row] /\ rows' = [rows EXCEPT ![i].st = end]
      /\ UNCHANGED <<circuit, idem, delivered>> /\ req' = [req EXCEPT ![r] = Idle]
  BY DEF SendInv, TypeOK, Ends
<1>2. i \in Id /\ rows[i] = [st |-> "flushed", rid |-> k]
  BY <1>1 DEF SendInv, OwnerInv, Inserted
<1>3. end # "gone" /\ k # None /\ idem[k] # None => idem[k] = i
  BY <1>1 DEF SendInv, HandlerInv, Ends
<1>4. end \in {"SENT", "FAILED", "gone"} /\ (end = "FAILED" => k = None)
  BY DEF Ends
<1> HIDE DEF k, i
<1>5. /\ req' \in [Req -> Request] /\ req'[r] = Idle /\ \A x \in Req \ {r} : req'[x] = req[x]
      /\ rows' \in [Id -> Row] /\ rows'[i].st = end /\ rows'[i].rid = k
      /\ \A j \in Id \ {i} : rows'[j] = rows[j]
  BY <1>1, <1>2, <1>4, IdleTyped DEF Row
<1>6. TypeOK'
  BY <1>1, <1>5 DEF SendInv, TypeOK
<1>7. RowInv'
  <2>1. \A j \in Id : rows'[j].rid = rows[j].rid /\ (rows'[j].st \in Active => rows[j].st \in Active)
    BY <1>2, <1>5 DEF Active
  <2>2. \A j \in Id : rows'[j].st = "FAILED" => rows'[j].rid = None
    BY <1>4, <1>5 DEF SendInv, RowInv
  <2> QED BY <2>1, <2>2 DEF SendInv, RowInv
<1>8. OwnerInv'
  <2>1. ASSUME NEW x \in Req \ {r}, req[x].pc \in Inserted
        PROVE  req[x].id \in Id /\ req[x].id # i
    BY <1>1, <2>1 DEF SendInv, OwnerInv, Inserted, i
  <2>2. Idle.pc \notin Inserted
    BY DEF Idle, Inserted
  <2> QED BY <1>5, <2>1, <2>2 DEF SendInv, OwnerInv
<1>9. idem' = idem
  BY <1>1
<1>11. IdemInv'
  <2> SUFFICES ASSUME NEW n \in Rid, idem[n] # None
               PROVE  /\ rows'[idem[n]].rid = n
                      /\ rows'[idem[n]].st \in {"flushed", "SENT", "gone"}
                      /\ \A j \in Id : rows'[j] = [st |-> "SENT", rid |-> n] => idem[n] = j
    BY <1>9 DEF IdemInv
  <2>1. /\ idem[n] \in Id /\ rows[idem[n]].rid = n
        /\ rows[idem[n]].st \in {"flushed", "SENT", "gone"}
        /\ \A j \in Id : rows[j] = [st |-> "SENT", rid |-> n] => idem[n] = j
    BY DEF SendInv, IdemInv, TypeOK, Opt
  <2>2. n # None
    BY SendAssumption
  <2>3. rows'[idem[n]].rid = n
    BY <1>2, <1>5, <2>1
  <2>4. rows'[idem[n]].st \in {"flushed", "SENT", "gone"}
    BY <1>2, <1>4, <1>5, <2>1, <2>2
  <2>5. ASSUME NEW j \in Id, rows'[j] = [st |-> "SENT", rid |-> n] PROVE idem[n] = j
    <3>1. CASE j = i
      BY <1>3, <1>5, <2>2, <2>5, <3>1
    <3>2. CASE j # i
      BY <1>5, <2>1, <2>5, <3>2
    <3> QED BY <3>1, <3>2
  <2> QED BY <2>3, <2>4, <2>5
<1>10. HandlerInv'
  <2>1. Idle.pc = "idle" /\ Idle.rid = None /\ ~Idle.again
    BY DEF Idle
  <2>2. ASSUME NEW x \in Req \ {r}, req[x].again
        PROVE  rows'[req[x].id] = rows[req[x].id]
    <3>1. req[x].id \in Id /\ rows[req[x].id] = [st |-> "SENT", rid |-> req[x].rid]
      BY <2>2 DEF SendInv, HandlerInv
    <3>2. rows[req[x].id].st = "SENT" /\ rows[i].st = "flushed"
      BY <1>2, <3>1
    <3> QED BY <1>5, <3>1, <3>2
  <2> QED BY <1>1, <1>5, <2>1, <2>2 DEF SendInv, HandlerInv
<1> QED BY <1>6, <1>7, <1>8, <1>10, <1>11 DEF SendInv

LEMMA FinishStep == ASSUME SendInv, NEW r \in Req, Finish(r) PROVE SendInv'
<1> DEFINE end == Outcome(req[r])
<1>1. /\ req[r].pc = "finish" /\ rows' = [rows EXCEPT ![req[r].id].st = end]
      /\ UNCHANGED <<circuit, idem, delivered>> /\ req' = [req EXCEPT ![r] = Idle]
  BY DEF Finish
<1>2. req[r].rid # None => req[r].kind = "send"
  BY <1>1 DEF SendInv, HandlerInv
<1>3. end \in {"SENT", "FAILED", "gone"} /\ (end = "FAILED" => req[r].rid = None)
  BY <1>2 DEF Outcome
<1>4. req[r].pc \in Inserted
  BY <1>1 DEF Inserted
<1> HIDE DEF end
<1>5. Ends(r, end)
  BY <1>1, <1>3, <1>4 DEF Ends
<1> QED BY <1>5, EndStep

LEMMA FailStep == ASSUME SendInv, NEW r \in Req, Fail(r) PROVE SendInv'
<1>1. /\ UNCHANGED <<circuit, idem, delivered>> /\ req' = [req EXCEPT ![r] = Idle]
      /\ Kept(circuit') /\ delivered' \in [Rid -> 0..2]
  BY DEF Fail, SendInv, TypeOK, Kept
<1>2. CASE req[r].pc \in Inserted
  <2>1. rows' = [rows EXCEPT ![req[r].id].st = "gone"]
    BY <1>2 DEF Fail, Inserted
  <2>2. Ends(r, "gone")
    BY <1>1, <1>2, <2>1 DEF Ends
  <2> QED BY <2>2, EndStep
<1>3. CASE req[r].pc \notin Inserted
  <2>1. rows' = rows
    BY <1>3 DEF Fail, Inserted
  <2>2. Idle \in Request /\ Idle.pc = "idle" /\ ~Idle.again /\ Idle.rid = None
    BY IdleTyped DEF Idle
  <2> QED BY <1>1, <2>1, <2>2, MoveStep
<1> QED BY <1>2, <1>3

LEMMA ExpireStep == ASSUME SendInv, NEW k \in Rid, ExpireIdem(k) PROVE SendInv'
<1>1. /\ req \in [Req -> Request] /\ idem \in [Rid -> Opt(Id)]
      /\ idem' = [idem EXCEPT ![k] = None] /\ UNCHANGED <<circuit, rows, req, delivered>>
      /\ \A r \in Req : req[r].rid # k
  BY DEF SendInv, TypeOK, ExpireIdem
<1>2. /\ idem' \in [Rid -> Opt(Id)] /\ idem'[k] = None
      /\ \A n \in Rid \ {k} : idem'[n] = idem[n]
  BY <1>1 DEF Opt
<1>3. TypeOK'
  BY <1>1, <1>2 DEF SendInv, TypeOK
<1>4. RowInv' /\ OwnerInv'
  BY <1>1 DEF SendInv, RowInv, OwnerInv
<1>5. IdemInv'
  BY <1>1, <1>2 DEF SendInv, IdemInv
<1>6. HandlerInv'
  <2>1. ASSUME NEW x \in Req, req[x].rid # None PROVE req[x].rid \in Rid \ {k}
    BY <1>1, <2>1 DEF Request, Opt
  <2>2. ASSUME NEW x \in Req, req[x].rid # None PROVE idem'[req[x].rid] = idem[req[x].rid]
    BY <1>2, <2>1, <2>2
  <2> QED BY <1>1, <2>2 DEF SendInv, HandlerInv
<1> QED BY <1>3, <1>4, <1>5, <1>6 DEF SendInv

LEMMA DeleteStep == ASSUME SendInv, NEW i \in Id, DeleteRecord(i) PROVE SendInv'
<1> DEFINE Forgot(x) == IF req[x].rid = rows[i].rid THEN [req[x] EXCEPT !.again = FALSE] ELSE req[x]
<1>1. /\ req \in [Req -> Request] /\ rows \in [Id -> Row]
      /\ rows[i].st \in {"SENT", "FAILED"} /\ rows' = [rows EXCEPT ![i].st = "gone"]
      /\ req' = [x \in Req |-> Forgot(x)] /\ UNCHANGED <<circuit, idem, delivered>>
  BY DEF SendInv, TypeOK, DeleteRecord, Committed
<1>2. ASSUME NEW x \in Req
      PROVE  /\ Forgot(x) \in Request
             /\ Forgot(x).pc = req[x].pc /\ Forgot(x).rid = req[x].rid
             /\ Forgot(x).id = req[x].id /\ Forgot(x).ch = req[x].ch
             /\ Forgot(x).kind = req[x].kind
             /\ (Forgot(x).again => req[x].again /\ req[x].rid # rows[i].rid)
  BY <1>1 DEF Request
<1> HIDE DEF Forgot
<1>3. req' \in [Req -> Request] /\ \A x \in Req : req'[x] = Forgot(x)
  BY <1>1, <1>2
<1>4. /\ rows' \in [Id -> Row] /\ rows'[i].st = "gone" /\ rows'[i].rid = rows[i].rid
      /\ \A j \in Id \ {i} : rows'[j] = rows[j]
  BY <1>1 DEF Row
<1>5. TypeOK'
  BY <1>1, <1>3, <1>4 DEF SendInv, TypeOK
<1>6. RowInv'
  <2>1. \A j \in Id : rows'[j].rid = rows[j].rid /\ (rows'[j].st \in Active => rows[j].st \in Active)
    BY <1>1, <1>4 DEF Active
  <2>2. \A j \in Id : rows'[j].st = "FAILED" => rows'[j].rid = None
    BY <1>4 DEF SendInv, RowInv
  <2> QED BY <2>1, <2>2 DEF SendInv, RowInv
<1>7. OwnerInv'
  <2>1. ASSUME NEW x \in Req, req[x].pc \in Inserted
        PROVE  req[x].id \in Id /\ rows'[req[x].id] = [st |-> "flushed", rid |-> req[x].rid]
    <3>1. req[x].id \in Id /\ rows[req[x].id] = [st |-> "flushed", rid |-> req[x].rid]
      BY <2>1 DEF SendInv, OwnerInv
    <3>2. rows[req[x].id].st = "flushed"
      BY <3>1
    <3> QED BY <1>1, <1>4, <3>1, <3>2
  <2> QED BY <1>2, <1>3, <2>1 DEF SendInv, OwnerInv
<1>8. IdemInv'
  <2> SUFFICES ASSUME NEW n \in Rid, idem[n] # None
               PROVE  /\ rows'[idem[n]].rid = n
                      /\ rows'[idem[n]].st \in {"flushed", "SENT", "gone"}
                      /\ \A j \in Id : rows'[j] = [st |-> "SENT", rid |-> n] => idem[n] = j
    BY <1>1 DEF IdemInv
  <2>1. /\ idem[n] \in Id /\ rows[idem[n]].rid = n
        /\ rows[idem[n]].st \in {"flushed", "SENT", "gone"}
        /\ \A j \in Id : rows[j] = [st |-> "SENT", rid |-> n] => idem[n] = j
    BY DEF SendInv, IdemInv, TypeOK, Opt
  <2>2. ASSUME NEW j \in Id, rows'[j] = [st |-> "SENT", rid |-> n]
        PROVE  rows[j] = [st |-> "SENT", rid |-> n]
    <3>1. rows'[j].st = "SENT"
      BY <2>2
    <3> QED BY <1>4, <2>2, <3>1
  <2> QED BY <1>4, <2>1, <2>2
<1>9. HandlerInv'
  <2>1. ASSUME NEW x \in Req, req[x].again, req[x].rid # rows[i].rid
        PROVE  rows'[req[x].id] = rows[req[x].id]
    <3>1. req[x].id \in Id /\ rows[req[x].id] = [st |-> "SENT", rid |-> req[x].rid]
      BY <2>1 DEF SendInv, HandlerInv
    <3>2. rows[req[x].id].rid = req[x].rid
      BY <3>1
    <3> QED BY <1>4, <2>1, <3>1, <3>2
  <2> QED BY <1>1, <1>2, <1>3, <2>1 DEF SendInv, HandlerInv
<1> QED BY <1>5, <1>6, <1>7, <1>8, <1>9 DEF SendInv

LEMMA CrashStep == ASSUME SendInv, Crash PROVE SendInv'
<1>1. /\ rows \in [Id -> Row] /\ circuit' = [c \in Channel |-> Closed]
      /\ rows' = [i \in Id |-> IF rows[i].st = "flushed" THEN [rows[i] EXCEPT !.st = "gone"]
                                                         ELSE rows[i]]
      /\ req' = [r \in Req |-> Idle] /\ UNCHANGED <<idem, delivered>>
  BY DEF SendInv, TypeOK, Crash
<1>2. ASSUME NEW i \in Id
      PROVE  /\ rows'[i] \in Row /\ rows'[i].rid = rows[i].rid
             /\ (rows[i].st = "flushed" => rows'[i].st = "gone")
             /\ (rows[i].st # "flushed" => rows'[i] = rows[i])
  BY <1>1 DEF Row
<1>3. rows' \in [Id -> Row] /\ req' \in [Req -> Request] /\ \A r \in Req : req'[r] = Idle
  BY <1>1, <1>2, IdleTyped
<1>4. circuit' \in [Channel -> Circuit] /\ \A c \in Channel : WellFormed(circuit'[c])
  BY <1>1, BreakerTypes DEF WellFormed
<1>5. TypeOK'
  BY <1>1, <1>3, <1>4 DEF SendInv, TypeOK
<1>6. RowInv'
  <2>1. \A j \in Id : rows'[j].rid = rows[j].rid /\ (rows'[j].st \in Active => rows[j].st \in Active)
    BY <1>2 DEF Active
  <2>2. \A j \in Id : rows'[j].st = "FAILED" => rows'[j].rid = None
    BY <1>2 DEF SendInv, RowInv
  <2> QED BY <2>1, <2>2 DEF SendInv, RowInv
<1>7. OwnerInv' /\ HandlerInv'
  BY <1>3 DEF OwnerInv, HandlerInv, Idle, Inserted
<1>8. idem' = idem
  BY <1>1
<1>9. IdemInv'
  <2> SUFFICES ASSUME NEW n \in Rid, idem[n] # None
               PROVE  /\ rows'[idem[n]].rid = n
                      /\ rows'[idem[n]].st \in {"flushed", "SENT", "gone"}
                      /\ \A j \in Id : rows'[j] = [st |-> "SENT", rid |-> n] => idem[n] = j
    BY <1>8 DEF IdemInv
  <2>1. /\ idem[n] \in Id /\ rows[idem[n]].rid = n
        /\ rows[idem[n]].st \in {"flushed", "SENT", "gone"}
        /\ \A j \in Id : rows[j] = [st |-> "SENT", rid |-> n] => idem[n] = j
    BY DEF SendInv, IdemInv, TypeOK, Opt
  <2>2. ASSUME NEW j \in Id, rows'[j] = [st |-> "SENT", rid |-> n]
        PROVE  rows[j] = [st |-> "SENT", rid |-> n]
    <3>1. rows'[j].st = "SENT"
      BY <2>2
    <3> QED BY <1>2, <2>2, <3>1
  <2> QED BY <1>2, <2>1, <2>2
<1> QED BY <1>5, <1>6, <1>7, <1>9 DEF SendInv

LEMMA TickStep == ASSUME SendInv, Tick PROVE SendInv'
<1>1. /\ circuit' = [c \in Channel |-> Aged(circuit[c])] /\ UNCHANGED <<idem, rows, req, delivered>>
      /\ Kept(circuit)
  BY DEF Tick, SendInv, TypeOK, Kept
<1>2. circuit' \in [Channel -> Circuit] /\ \A c \in Channel : WellFormed(circuit'[c])
  BY <1>1, BreakerTypes DEF Kept, WellFormed
<1>3. TypeOK'
  BY <1>1, <1>2 DEF SendInv, TypeOK
<1>4. RowInv' /\ OwnerInv' /\ HandlerInv' /\ IdemInv'
  BY <1>1 DEF SendInv, RowInv, OwnerInv, HandlerInv, IdemInv
<1> QED BY <1>3, <1>4 DEF SendInv

\* The rows, the handlers and the idempotency keys always fit together.
THEOREM SendInvariant == Spec => []SendInv
<1>1. ASSUME SendInv, [Next]_vars PROVE SendInv'
  <2>1. ASSUME NEW r \in Req, HandlerStep(r) PROVE SendInv'
    BY <1>1, <2>1, SendStep, CodeStep, SelectStep, RouteStep, AnswerStep, FlushStep,
       ConflictStep, SetIdemStep, FinishStep, FailStep DEF HandlerStep
  <2>2. CASE UNCHANGED vars
    BY <1>1, <2>2 DEF vars, SendInv, TypeOK, RowInv, OwnerInv, HandlerInv, IdemInv
  <2> QED BY <1>1, <2>1, <2>2, ExpireStep, DeleteStep, CrashStep, TickStep DEF Next
<1> QED BY <1>1, InitSend, PTL DEF Spec

\* The types of the sending state; a circuit is open exactly at its threshold.
THEOREM SendTypes == Spec => []TypeOK
<1>1. SendInv => TypeOK
  BY DEF SendInv
<1> QED BY <1>1, SendInvariant, PTL

\* The record a duplicate is answered with is that request's own success.
THEOREM HitIsSentHolds == Spec => []HitIsSent
<1>1. SendInv => HitIsSent
  <2> SUFFICES ASSUME SendInv, NEW k \in Rid, idem[k] # None, Committed(idem[k])
               PROVE  rows[idem[k]] = [st |-> "SENT", rid |-> k]
    BY DEF HitIsSent
  <2>1. idem[k] \in Id /\ rows[idem[k]] \in Row
    BY DEF SendInv, TypeOK, Opt
  <2>2. rows[idem[k]].rid = k /\ rows[idem[k]].st \in {"flushed", "SENT", "gone"}
    BY DEF SendInv, IdemInv
  <2>3. rows[idem[k]].st = "SENT"
    BY <2>2 DEF Committed
  <2> QED BY <2>1, <2>2, <2>3 DEF Row
<1> QED BY <1>1, SendInvariant, PTL

\* What was sent, recorded and remembered is not sent again.
THEOREM AgainNotSentHolds == Spec => []AgainNotSent
<1>1. SendInv => AgainNotSent
  BY DEF SendInv, HandlerInv, AgainNotSent
<1> QED BY <1>1, SendInvariant, PTL

----------------------------------------------------------------------------
(* An open circuit under steady traffic.                                   *)

\* Nobody asks for c and gets a message sent, and the process goes on.
FailsFor(c) ==
    /\ ~Crash
    /\ \A r \in Req : req[r].ch = c => ~\E arrived \in BOOLEAN : Answer(r, TRUE, arrived)

\* A request for c is routed to the fallback.
Diverted(c) == \A r \in Req : req[r].ch = c /\ Route(r) => req'[r].via = Fallback[c]

LEMMA OpenKept ==
    ASSUME NEW c \in Channel, Fallback[c] \notin {None, c},
           TypeOK, circuit[c].open, circuit[c].since < Recovery, [Next /\ FailsFor(c)]_vars
    PROVE  circuit'[c].open /\ Diverted(c)
<1>1. Recovery \in Nat /\ circuit \in [Channel -> Circuit]
      /\ circuit[c].since \in 0..Recovery /\ circuit[c].open \in BOOLEAN /\ req \in [Req -> Request]
  BY BreakerAssumption DEF TypeOK, Circuit
<1>2. HalfOpened(circuit[c]) = circuit[c]
  BY <1>1 DEF HalfOpened
<1>3. Diverted(c)
  BY <1>1, <1>2 DEF Diverted, Route, RouteOf, Request
<1>4. ASSUME NEW r \in Req, HandlerStep(r), FailsFor(c) PROVE circuit'[c].open
  <2>1. CASE Route(r)
    <3>1. circuit'[c] = circuit[c]
      BY <1>1, <1>2, <2>1 DEF Route
    <3> QED BY <3>1
  <2>2. ASSUME NEW ok \in BOOLEAN, NEW arrived \in BOOLEAN, Answer(r, ok, arrived)
        PROVE  circuit'[c].open
    <3>1. CASE req[r].ch = c
      <4>1. ~ok
        BY <1>4, <2>2, <3>1 DEF FailsFor
      <4>2. circuit'[c] = Failed(circuit[c])
        BY <1>1, <2>2, <3>1, <4>1 DEF Answer
      <4> DEFINE n == IF circuit[c].count < Threshold THEN circuit[c].count + 1 ELSE Threshold
      <4>3. circuit'[c] = [count |-> n, open |-> circuit[c].open \/ n >= Threshold, since |-> 0]
        BY <4>2 DEF Failed
      <4>4. circuit'[c].open = (circuit[c].open \/ n >= Threshold)
        BY <4>3
      <4> QED BY <4>4
    <3>2. CASE req[r].ch # c
      BY <1>1, <2>2, <3>2 DEF Answer
    <3> QED BY <3>1, <3>2
  <2> QED
    BY <1>4, <2>1, <2>2 DEF HandlerStep, Send, SendCode, Select, Flush, FlushConflict, SetIdem,
       Finish, Fail
<1>5. ASSUME Tick PROVE circuit'[c].open
  <2> DEFINE s == IF circuit[c].since < Recovery THEN circuit[c].since + 1 ELSE Recovery
  <2>1. circuit'[c] = [circuit[c] EXCEPT !.since = s]
    BY <1>5 DEF Tick, Aged
  <2>2. circuit[c] \in [count : 0..Threshold, open : BOOLEAN, since : 0..Recovery]
    BY <1>1 DEF Circuit
  <2> HIDE DEF s
  <2> QED BY <2>1, <2>2
<1>6. (\E k \in Rid : ExpireIdem(k)) \/ (\E i \in Id : DeleteRecord(i)) \/ UNCHANGED vars
        => UNCHANGED circuit
  BY DEF ExpireIdem, DeleteRecord, vars
<1>7. FailsFor(c) => ~Crash
  BY DEF FailsFor
<1> QED BY <1>3, <1>4, <1>5, <1>6, <1>7 DEF Next

\* The recovery timeout counts from the last failure booked on a channel, and those of its
\* fallback are booked on it too (record_provider_failure): while requests for an open
\* channel keep failing sooner than that, every one of them goes to the fallback, and the channel
\* itself, which may long have recovered, is never tried again.
THEOREM PrimaryStarves ==
    ASSUME NEW c \in Channel, Fallback[c] \notin {None, c}
    PROVE  Spec => []( /\ circuit[c].open
                       /\ [](circuit[c].since < Recovery)
                       /\ [][FailsFor(c)]_vars
                       => [](circuit[c].open) /\ [][Diverted(c)]_vars )
<1>1. /\ TypeOK /\ circuit[c].open /\ circuit[c].since < Recovery
      /\ [Next]_vars /\ [FailsFor(c)]_vars
      => (circuit[c].open)' /\ [Diverted(c)]_vars
  BY OpenKept
<1> QED BY <1>1, SendTypes, PTL DEF Spec
=============================================================================
