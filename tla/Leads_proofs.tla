---------------------------- MODULE Leads_proofs ----------------------------
(***************************************************************************)
(* lead-service implements LeadLifecycle, for any number of requests and   *)
(* leads.  The invariant says what a handler's locals are worth: the lead  *)
(* it inserted is its own, the lead it looked at stays visible, and the    *)
(* leads its SELECT did not count as repetitions never become ones.        *)
(***************************************************************************)
EXTENDS Leads, TLAPS

Seen == {"pending"} \cup Terminal

\* Not a repetition of anything, now or later.
Spent(row) == row.st \in Terminal \/ (row.st = "pending" /\ ~row.fresh)

Owns(q) == q.pc \in {"publish", "commit"}

Fits(q, rows) ==
    /\ q.pc = "insert" => q.key \in Key
    /\ Owns(q) => q.lead \in Lead /\ rows[q.lead].st = "flushed"
    /\ q.pc \in {"update", "settle"} => q.lead \in Lead /\ rows[q.lead].st \in Seen
    /\ \A l \in q.peers : Spent(rows[l])

RowFits(row, rows) ==
    /\ row.st = "unborn" => row.order = None
    /\ \A l \in row.peers : Spent(rows[l])

OwnersInv == \A r, s \in Req : r # s /\ Owns(req[r]) /\ Owns(req[s]) => req[r].lead # req[s].lead

\* The inductive invariant.
LeadInv ==
    /\ TypeOK
    /\ \A r \in Req : Fits(req[r], leads)
    /\ \A l \in Lead : RowFits(leads[l], leads)
    /\ OwnersInv

LEMMA InitLead == Init => LeadInv
  BY DEF Init, LeadInv, TypeOK, LeadRow, Request, Unborn, Idle, Opt, Terminal, Fits, RowFits,
         OwnersInv, Owns

----------------------------------------------------------------------------
\* What a row may turn into without disturbing who relies on it.
Later(a, b) ==
    /\ a.st \in Seen => b.st \in Seen
    /\ Spent(a) => Spent(b)
    /\ b.st = "unborn" => a.st = "unborn" /\ b.order = a.order

\* Handler r goes on as q, and the rows move on under the others.
Move(r, q) ==
    /\ q \in Request
    /\ req' = [req EXCEPT ![r] = q]
    /\ leads' \in [Lead -> LeadRow]
    /\ \A l \in Lead : Later(leads[l], leads'[l])
    /\ \A l \in Lead : leads'[l].peers = leads[l].peers \/ RowFits(leads'[l], leads')
    /\ Fits(q, leads')
    /\ \A s \in Req : s # r /\ Owns(req[s]) =>
         /\ leads'[req[s].lead].st = "flushed"
         /\ Owns(q) => q.lead # req[s].lead
    /\ log' \in [Lead -> Seq(Terminal)]
    /\ \A l \in Lead : log'[l] # <<>> <=> leads'[l].st \in Terminal
    /\ announced' \subseteq Lead

LEMMA MoveKeeps == ASSUME LeadInv, NEW r \in Req, NEW q, Move(r, q) PROVE LeadInv'
<1>1. /\ leads \in [Lead -> LeadRow] /\ req \in [Req -> Request]
      /\ req' \in [Req -> Request] /\ req'[r] = q
      /\ \A s \in Req : s # r => req'[s] = req[s]
  BY DEF LeadInv, TypeOK, Move
<1>2. TypeOK'
  BY <1>1 DEF Move, TypeOK
<1>3. \A l \in Lead : Spent(leads[l]) => Spent(leads'[l])
  BY DEF Move, Later
<1>4. ASSUME NEW s \in Req PROVE Fits(req'[s], leads')
  <2>1. CASE s = r
    BY <2>1, <1>1 DEF Move
  <2>2. CASE s # r
    <3>1. Fits(req[s], leads) /\ req'[s] = req[s] /\ req[s].peers \subseteq Lead
      BY <2>2, <1>1 DEF LeadInv, Request
    <3>2. \A l \in req[s].peers : Spent(leads'[l])
      BY <3>1, <1>3 DEF Fits
    <3>3. Owns(req[s]) => req[s].lead \in Lead /\ leads'[req[s].lead].st = "flushed"
      BY <3>1, <2>2 DEF Fits, Move
    <3>4. req[s].pc \in {"update", "settle"} =>
            req[s].lead \in Lead /\ leads'[req[s].lead].st \in Seen
      BY <3>1 DEF Fits, Move, Later
    <3> QED BY <3>1, <3>2, <3>3, <3>4 DEF Fits
  <2> QED BY <2>1, <2>2
<1>5. ASSUME NEW l \in Lead PROVE RowFits(leads'[l], leads')
  <2>1. CASE leads'[l].peers = leads[l].peers
    <3>1. RowFits(leads[l], leads) /\ leads[l].peers \subseteq Lead
      BY <1>1 DEF LeadInv, LeadRow
    <3>2. \A m \in leads'[l].peers : Spent(leads'[m])
      BY <2>1, <3>1, <1>3 DEF RowFits
    <3>3. leads'[l].st = "unborn" => leads'[l].order = None
      BY <3>1 DEF RowFits, Move, Later
    <3> QED BY <3>2, <3>3 DEF RowFits
  <2> QED BY <2>1 DEF Move
<1>6. OwnersInv'
  <2> SUFFICES ASSUME NEW s \in Req, NEW t \in Req, s # t, Owns(req'[s]), Owns(req'[t])
               PROVE  req'[s].lead # req'[t].lead
    BY DEF OwnersInv
  <2>1. CASE s # r /\ t # r
    BY <2>1, <1>1 DEF LeadInv, OwnersInv
  <2>2. CASE s = r \/ t = r
    BY <2>2, <1>1 DEF Move
  <2> QED BY <2>1, <2>2
<1> QED BY <1>2, <1>4, <1>5, <1>6 DEF LeadInv

\* A step that leaves the rows and the log as they are.
LEMMA HandlerMove ==
    ASSUME LeadInv, NEW r \in Req, NEW q \in Request, req' = [req EXCEPT ![r] = q],
           leads' = leads, log' = log, announced' \subseteq Lead, Fits(q, leads),
           \A s \in Req : s # r /\ Owns(req[s]) /\ Owns(q) => q.lead # req[s].lead
    PROVE  LeadInv'
<1>1. \A l \in Lead : Later(leads[l], leads'[l])
  BY DEF Later
<1>2. \A s \in Req : Owns(req[s]) => leads'[req[s].lead].st = "flushed"
  BY DEF LeadInv, Fits
<1>3. Move(r, q)
  BY <1>1, <1>2 DEF Move, LeadInv, TypeOK
<1> QED BY <1>3, MoveKeeps

\* A step that changes the row of lead l and leaves the others.
MoveRow(r, q, l, row) ==
    /\ q \in Request /\ req' = [req EXCEPT ![r] = q]
    /\ row \in LeadRow /\ leads' = [leads EXCEPT ![l] = row]
    /\ Later(leads[l], row)
    /\ row.peers = leads[l].peers \/ RowFits(row, leads')
    /\ Fits(q, leads')
    /\ \A s \in Req : s # r /\ Owns(req[s]) =>
         /\ req[s].lead # l
         /\ Owns(q) => q.lead # req[s].lead
    /\ log' \in [Lead -> Seq(Terminal)]
    /\ log'[l] # <<>> <=> row.st \in Terminal
    /\ \A m \in Lead : m # l => log'[m] = log[m]
    /\ announced' = announced

LEMMA RowMove ==
    ASSUME LeadInv, NEW r \in Req, NEW q, NEW l \in Lead, NEW row, MoveRow(r, q, l, row)
    PROVE  LeadInv'
<1>1. leads \in [Lead -> LeadRow] /\ leads'[l] = row /\ leads' \in [Lead -> LeadRow]
      /\ \A m \in Lead : m # l => leads'[m] = leads[m]
  BY DEF LeadInv, TypeOK, MoveRow
<1>2. \A m \in Lead : Later(leads[m], leads'[m])
  BY <1>1 DEF Later, MoveRow
<1>3. \A s \in Req : s # r /\ Owns(req[s]) => leads'[req[s].lead].st = "flushed"
  BY <1>1 DEF LeadInv, Fits, MoveRow
<1>4. \A m \in Lead : log'[m] # <<>> <=> leads'[m].st \in Terminal
  BY <1>1 DEF LeadInv, TypeOK, MoveRow
<1>5. \A m \in Lead : leads'[m].peers = leads[m].peers \/ RowFits(leads'[m], leads')
  BY <1>1 DEF MoveRow
<1>6. Move(r, q)
  BY <1>1, <1>2, <1>3, <1>4, <1>5 DEF Move, MoveRow, LeadInv, TypeOK
<1> QED BY <1>6, MoveKeeps

----------------------------------------------------------------------------
(* One lemma per action.                                                   *)

LEMMA IdleFits == Idle \in Request /\ ~Owns(Idle) /\ \A rows : Fits(Idle, rows)
  BY DEF Idle, Request, Terminal, Opt, Owns, Fits

LEMMA SubmitStep == ASSUME LeadInv, NEW r \in Req, NEW k \in Key, Submit(r, k) PROVE LeadInv'
<1> DEFINE q == [Idle EXCEPT !.pc = "insert", !.key = k,
                             !.peers = {l \in Stored : leads[l].key = k}]
<1>1. leads \in [Lead -> LeadRow] /\ announced \subseteq Lead
  BY DEF LeadInv, TypeOK
<1>2. q \in Request /\ q.pc = "insert" /\ q.key = k /\ q.peers = {l \in Stored : leads[l].key = k}
  BY DEF Idle, Request, Terminal, Opt, Stored
<1>3. \A l \in q.peers : Spent(leads[l])
  BY <1>1, <1>2 DEF Submit, Repeats, Stored, Spent, LeadRow
<1>4. Fits(q, leads) /\ ~Owns(q)
  BY <1>2, <1>3 DEF Fits, Owns
<1>5. req' = [req EXCEPT ![r] = q] /\ leads' = leads /\ log' = log /\ announced' = announced
  BY DEF Submit
<1> HIDE DEF q
<1> QED BY <1>1, <1>2, <1>4, <1>5, HandlerMove

LEMMA InsertStep == ASSUME LeadInv, NEW r \in Req, NEW l \in Lead, Insert(r, l) PROVE LeadInv'
<1> DEFINE q == [req[r] EXCEPT !.pc = "publish", !.lead = l]
           row == [st |-> "flushed", key |-> req[r].key, fresh |-> TRUE,
                   order |-> None, peers |-> req[r].peers]
<1>1. /\ req[r] \in Request /\ leads[l] \in LeadRow /\ leads[l].st = "unborn"
      /\ req[r].pc = "insert" /\ Fits(req[r], leads) /\ log \in [Lead -> Seq(Terminal)]
      /\ log[l] = <<>> /\ leads \in [Lead -> LeadRow] /\ req \in [Req -> Request]
  BY DEF LeadInv, TypeOK, Insert, Terminal
<1>2. /\ q \in Request /\ q.pc = "publish" /\ q.lead = l /\ q.peers = req[r].peers
      /\ row \in LeadRow /\ row.st = "flushed" /\ row.peers = req[r].peers
  BY <1>1 DEF Request, LeadRow, Opt
<1>3. req' = [req EXCEPT ![r] = q] /\ leads' = [leads EXCEPT ![l] = row]
  BY <1>1 DEF Insert
<1>4. log' = log /\ announced' = announced
  BY DEF Insert
<1> HIDE DEF q, row
<1>5. leads'[l] = row /\ \A m \in Lead : m # l => leads'[m] = leads[m]
  BY <1>1, <1>3
<1>6. ~Spent(leads[l]) /\ leads[l].st \notin Seen
  BY <1>1 DEF Spent, Terminal, Seen
<1>7. \A m \in req[r].peers : Spent(leads'[m])
  BY <1>1, <1>5, <1>6 DEF Fits, Request
<1>8. Fits(q, leads') /\ RowFits(row, leads') /\ Later(leads[l], row)
  BY <1>2, <1>5, <1>6, <1>7 DEF Fits, RowFits, Later, Owns
<1>9. \A s \in Req : s # r /\ Owns(req[s]) => req[s].lead # l
  BY <1>1 DEF LeadInv, Fits
<1>10. MoveRow(r, q, l, row)
  BY <1>1, <1>2, <1>3, <1>4, <1>8, <1>9 DEF MoveRow, Terminal
<1> QED BY <1>10, RowMove

LEMMA PublishStep == ASSUME LeadInv, NEW r \in Req, Publish(r) PROVE LeadInv'
<1> DEFINE q == [req[r] EXCEPT !.pc = "commit"]
<1>1. /\ req[r] \in Request /\ Fits(req[r], leads) /\ req[r].pc = "publish"
      /\ req \in [Req -> Request] /\ announced \subseteq Lead
  BY DEF LeadInv, TypeOK, Publish
<1>2. q \in Request /\ q.pc = "commit" /\ q.lead = req[r].lead /\ q.peers = req[r].peers
  BY <1>1 DEF Request
<1>3. req' = [req EXCEPT ![r] = q] /\ leads' = leads /\ log' = log
  BY <1>1 DEF Publish
<1> HIDE DEF q
<1>4. Fits(q, leads) /\ announced' \subseteq Lead /\ Owns(req[r])
  BY <1>1, <1>2 DEF Fits, Owns, Publish
<1>5. \A s \in Req : s # r /\ Owns(req[s]) => q.lead # req[s].lead
  BY <1>2, <1>4 DEF LeadInv, OwnersInv
<1> QED BY <1>2, <1>3, <1>4, <1>5, HandlerMove

\* The end of a submission: the lead appears, or is rolled back.
LEMMA EndSubmission ==
    ASSUME LeadInv, NEW r \in Req, Owns(req[r]), NEW end \in {"pending", "gone"},
           req' = [req EXCEPT ![r] = Idle], leads' = [leads EXCEPT ![req[r].lead].st = end],
           log' = log, announced' = announced
    PROVE  LeadInv'
<1> DEFINE l == req[r].lead
           row == [leads[l] EXCEPT !.st = end]
<1>1. /\ l \in Lead /\ leads[l].st = "flushed" /\ leads[l] \in LeadRow
      /\ leads \in [Lead -> LeadRow] /\ log \in [Lead -> Seq(Terminal)]
      /\ (log[l] # <<>> <=> leads[l].st \in Terminal)
  BY DEF LeadInv, TypeOK, Fits
<1>2. row \in LeadRow /\ row.st = end /\ row.peers = leads[l].peers
  BY <1>1 DEF LeadRow
<1>3. leads' = [leads EXCEPT ![l] = row]
  BY <1>1
<1>4. \A s \in Req : s # r /\ Owns(req[s]) => req[s].lead # l
  BY DEF LeadInv, OwnersInv
<1> HIDE DEF l, row
<1>5. Later(leads[l], row)
  BY <1>1, <1>2 DEF Later, Spent, Seen, Terminal
<1>6. log'[l] # <<>> <=> row.st \in Terminal
  BY <1>1, <1>2 DEF Terminal
<1>7. \A m \in Lead : m # l => log'[m] = log[m]
  OBVIOUS
<1>8. MoveRow(r, Idle, l, row)
  BY <1>1, <1>2, <1>3, <1>4, <1>5, <1>6, <1>7, IdleFits DEF MoveRow
<1> QED BY <1>1, <1>8, RowMove

LEMMA CommitStep == ASSUME LeadInv, NEW r \in Req, Commit(r) PROVE LeadInv'
  BY EndSubmission DEF Commit, Owns

LEMMA OpenStep ==
    ASSUME LeadInv, NEW r \in Req, NEW l \in Lead, NEW to \in Terminal, NEW o \in Opt(Order),
           Open(r, l, to, o)
    PROVE  LeadInv'
<1> DEFINE q == [Idle EXCEPT !.pc = "update", !.lead = l, !.to = to, !.order = o]
<1>1. q \in Request /\ q.pc = "update" /\ q.lead = l /\ q.peers = {}
  BY DEF Idle, Request, Opt
<1>2. /\ req' = [req EXCEPT ![r] = q] /\ leads' = leads /\ log' = log
      /\ announced' = announced /\ announced \subseteq Lead
  BY DEF Open, LeadInv, TypeOK
<1> HIDE DEF q
<1>3. Fits(q, leads) /\ ~Owns(q)
  BY <1>1 DEF Fits, Owns, Open, Settleable, Seen
<1> QED BY <1>1, <1>2, <1>3, HandlerMove

LEMMA UpdateStep == ASSUME LeadInv, NEW r \in Req, Update(r) PROVE LeadInv'
<1> DEFINE q == [req[r] EXCEPT !.pc = "settle"]
<1>1. /\ req[r] \in Request /\ Fits(req[r], leads) /\ req[r].pc = "update"
      /\ req \in [Req -> Request] /\ announced \subseteq Lead
  BY DEF LeadInv, TypeOK, Update
<1>2. q \in Request /\ q.pc = "settle" /\ q.lead = req[r].lead /\ q.peers = req[r].peers
  BY <1>1 DEF Request
<1>3. req' = [req EXCEPT ![r] = q] /\ leads' = leads /\ log' = log /\ announced' = announced
  BY <1>1 DEF Update
<1> HIDE DEF q
<1>4. Fits(q, leads) /\ ~Owns(q)
  BY <1>1, <1>2 DEF Fits, Owns
<1> QED BY <1>1, <1>2, <1>3, <1>4, HandlerMove

\* The row a settlement writes.
LEMMA WrittenTypes ==
    ASSUME NEW row \in LeadRow, NEW q \in Request
    PROVE  /\ Written(row, q) \in LeadRow /\ Written(row, q).st = q.to /\ q.to \in Terminal
           /\ Written(row, q).peers = row.peers
           /\ Written(row, q).order = IF q.order = None THEN row.order ELSE q.order
  BY DEF Written, LeadRow, Request, Terminal, Opt

LEMMA Appended ==
    ASSUME NEW S, NEW s \in Seq(S), NEW t \in S
    PROVE  Append(s, t) \in Seq(S) /\ Append(s, t) # <<>>
  OBVIOUS

LEMMA SettleStep == ASSUME LeadInv, NEW r \in Req, Settle(r) PROVE LeadInv'
<1> DEFINE l == req[r].lead
           row == Written(leads[l], req[r])
<1>1. /\ l \in Lead /\ leads[l].st \in Seen /\ leads[l] \in LeadRow /\ req[r] \in Request
      /\ leads \in [Lead -> LeadRow] /\ log \in [Lead -> Seq(Terminal)]
  BY DEF LeadInv, TypeOK, Fits, Settle
<1>2. row \in LeadRow /\ row.st \in Terminal /\ row.peers = leads[l].peers /\ req[r].to \in Terminal
  BY <1>1, WrittenTypes
<1>3. /\ leads' = [leads EXCEPT ![l] = row] /\ log' = [log EXCEPT ![l] = Append(@, req[r].to)]
      /\ req' = [req EXCEPT ![r] = Idle] /\ announced' = announced
  BY DEF Settle, Logged
<1>4. \A s \in Req : s # r /\ Owns(req[s]) => req[s].lead # l
  BY <1>1 DEF LeadInv, Fits, Seen, Terminal
<1> HIDE DEF l, row
<1>5. Later(leads[l], row)
  BY <1>1, <1>2 DEF Later, Spent, Seen, Terminal
<1>6. Append(log[l], req[r].to) \in Seq(Terminal) /\ Append(log[l], req[r].to) # <<>>
  <2>1. log[l] \in Seq(Terminal)
    BY <1>1
  <2> QED BY <2>1, <1>2, Appended
<1>7. log' \in [Lead -> Seq(Terminal)] /\ log'[l] # <<>>
  BY <1>1, <1>3, <1>6
<1>8. \A m \in Lead : m # l => log'[m] = log[m]
  BY <1>1, <1>3
<1>9. MoveRow(r, Idle, l, row)
  BY <1>1, <1>2, <1>3, <1>4, <1>5, <1>7, <1>8, IdleFits DEF MoveRow
<1> QED BY <1>1, <1>9, RowMove

LEMMA FailStep == ASSUME LeadInv, NEW r \in Req, Fail(r) PROVE LeadInv'
<1>1. CASE Owns(req[r])
  BY <1>1, EndSubmission DEF Fail, Owns
<1>2. CASE ~Owns(req[r])
  <2>1. /\ leads' = leads /\ log' = log /\ announced' = announced /\ announced \subseteq Lead
        /\ req' = [req EXCEPT ![r] = Idle]
    BY <1>2 DEF Fail, Owns, LeadInv, TypeOK
  <2> QED BY <2>1, IdleFits, HandlerMove
<1> QED BY <1>1, <1>2

LEMMA AgeStep == ASSUME LeadInv, NEW l \in Lead, Age(l) PROVE LeadInv'
<1> DEFINE row == [leads[l] EXCEPT !.fresh = FALSE]
<1>1. /\ leads \in [Lead -> LeadRow] /\ leads[l] \in LeadRow /\ req \in [Req -> Request]
      /\ log \in [Lead -> Seq(Terminal)] /\ announced \subseteq Lead
      /\ \A m \in Lead : log[m] # <<>> <=> leads[m].st \in Terminal
  BY DEF LeadInv, TypeOK
<1>2. /\ row \in LeadRow /\ row.st = leads[l].st /\ row.peers = leads[l].peers
      /\ row.order = leads[l].order /\ ~row.fresh
  BY <1>1 DEF LeadRow
<1>3. /\ leads' = [leads EXCEPT ![l] = row] /\ req' = req
      /\ log' = log /\ announced' = announced
  BY <1>1 DEF Age
<1> HIDE DEF row
<1>4. leads'[l] = row /\ leads' \in [Lead -> LeadRow] /\ \A m \in Lead : m # l => leads'[m] = leads[m]
  BY <1>1, <1>2, <1>3
<1>5. \A m \in Lead : leads'[m].st = leads[m].st /\ leads'[m].peers = leads[m].peers
  BY <1>2, <1>4
<1>6. \A m \in Lead : Later(leads[m], leads'[m])
  <2> SUFFICES ASSUME NEW m \in Lead PROVE Later(leads[m], leads'[m])
    OBVIOUS
  <2>1. CASE m = l
    BY <2>1, <1>2, <1>4 DEF Later, Spent
  <2>2. CASE m # l
    BY <2>2, <1>4 DEF Later
  <2> QED BY <2>1, <2>2
<1>7. \A s \in Req : Fits(req[s], leads')
  <2> SUFFICES ASSUME NEW s \in Req PROVE Fits(req[s], leads')
    OBVIOUS
  <2>1. Fits(req[s], leads) /\ req[s].peers \subseteq Lead
    BY <1>1 DEF LeadInv, Request
  <2>2. \A m \in req[s].peers : Spent(leads'[m])
    BY <2>1, <1>6 DEF Fits, Later
  <2> QED BY <2>1, <2>2, <1>5 DEF Fits
<1>8. \A m \in Lead : RowFits(leads'[m], leads')
  <2> SUFFICES ASSUME NEW m \in Lead PROVE RowFits(leads'[m], leads')
    OBVIOUS
  <2>1. RowFits(leads[m], leads) /\ leads[m].peers \subseteq Lead
    BY <1>1 DEF LeadInv, LeadRow
  <2>2. \A n \in leads'[m].peers : Spent(leads'[n])
    BY <2>1, <1>5, <1>6 DEF RowFits, Later
  <2>3. leads'[m].st = "unborn" => leads'[m].order = None
    BY <2>1, <1>6 DEF RowFits, Later
  <2> QED BY <2>2, <2>3 DEF RowFits
<1>9. TypeOK'
  BY <1>1, <1>3, <1>4, <1>5 DEF TypeOK
<1>10. OwnersInv'
  BY <1>3 DEF LeadInv, OwnersInv
<1> QED BY <1>3, <1>7, <1>8, <1>9, <1>10 DEF LeadInv

LEMMA NextLead == ASSUME LeadInv, [Next]_vars PROVE LeadInv'
<1>1. CASE UNCHANGED vars
  BY <1>1 DEF vars, LeadInv, TypeOK, OwnersInv
<1>2. CASE \E l \in Lead : Age(l)
  BY <1>2, AgeStep
<1>3. ASSUME NEW r \in Req, HandlerStep(r) PROVE LeadInv'
  BY <1>3, SubmitStep, InsertStep, PublishStep, CommitStep, OpenStep, UpdateStep, SettleStep,
     FailStep DEF HandlerStep
<1> QED BY <1>1, <1>2, <1>3 DEF Next

----------------------------------------------------------------------------
(* The theorems.                                                           *)

\* The strengthening holds in every reachable state of lead-service.
THEOREM LeadInvariant == Spec => []LeadInv
  BY InitLead, NextLead, PTL DEF Spec

\* Types, and a log that begins with the first settlement (convert_lead,
\* cancel_lead).
THEOREM LeadTypes == Spec => []TypeOK
<1>1. LeadInv => TypeOK
  BY DEF LeadInv
<1> QED BY <1>1, LeadInvariant, PTL

\* create_lead: live duplicates come from overlapping submissions only.
THEOREM TwinsOverlappedHolds == Spec => []TwinsOverlapped
<1>1. LeadInv => TwinsOverlapped
  <2> SUFFICES ASSUME LeadInv, NEW l \in Lead, NEW m \in Lead, l \in leads[m].peers
               PROVE  Spent(leads[l])
    BY DEF TwinsOverlapped, Spent, Terminal
  <2> QED BY DEF LeadInv, RowFits
<1> QED BY <1>1, LeadInvariant, PTL

\* convert_lead: a recorded order survives whatever overlaps with it.
THEOREM OrderKeptHolds == Spec => OrderKept
<1>1. ASSUME LeadInv, [Next]_vars, NEW l \in Lead, leads[l].order # None
      PROVE  leads'[l].order # None
  <2>1. leads \in [Lead -> LeadRow] /\ req \in [Req -> Request] /\ leads[l].st # "unborn"
    BY <1>1 DEF LeadInv, TypeOK, RowFits
  <2>2. CASE UNCHANGED leads
    BY <1>1, <2>2
  <2>3. ASSUME NEW m \in Lead, Age(m) PROVE leads'[l].order # None
    BY <1>1, <2>1, <2>3 DEF Age, LeadRow
  <2>4. ASSUME NEW r \in Req, HandlerStep(r), ~UNCHANGED leads PROVE leads'[l].order # None
    <3>1. ASSUME NEW m \in Lead, Insert(r, m) PROVE leads'[l].order # None
      BY <1>1, <2>1, <3>1 DEF Insert
    <3>2. CASE Commit(r)
      BY <1>1, <2>1, <3>2 DEF Commit, LeadRow
    <3>3. CASE Settle(r)
      <4>1. \A row \in LeadRow : row.order # None => Written(row, req[r]).order # None
        BY <2>1, WrittenTypes
      <4> QED BY <1>1, <2>1, <3>3, <4>1 DEF Settle
    <3>4. CASE Fail(r)
      BY <1>1, <2>1, <3>4 DEF Fail, LeadRow
    <3> QED BY <2>4, <3>1, <3>2, <3>3, <3>4 DEF HandlerStep, Submit, Publish, Open, Update
  <2> QED BY <1>1, <2>2, <2>3, <2>4 DEF Next, vars
<1>2. LeadInv /\ [Next]_vars => [\A l \in Lead : leads[l].order # None => leads'[l].order # None]_vars
  BY <1>1
<1> QED BY <1>2, LeadInvariant, PTL DEF Spec, OrderKept

----------------------------------------------------------------------------
(* The refinement: a step of lead-service is a step of LeadLifecycle, or   *)
(* changes nothing that it speaks of.                                      *)

Statuses == [l \in Lead |-> Visible(leads[l].st)]

Looking == [r \in Req |-> LookingAt(req[r])]

\* Nothing a reader could see, and nobody's look, has changed.
Same == Statuses' = Statuses /\ log' = log /\ announced' = announced /\ Looking' = Looking

LEMMA SameStutters == Same => UNCHANGED Life!vars
  BY DEF Same, Statuses, Looking, Life!vars

LEMMA LookStays ==
    ASSUME req \in [Req -> Request], NEW r \in Req, NEW q, req' = [req EXCEPT ![r] = q],
           LookingAt(q) = LookingAt(req[r])
    PROVE  Looking' = Looking
<1>1. \A s \in Req : LookingAt(req'[s]) = LookingAt(req[s])
  OBVIOUS
<1> QED BY <1>1 DEF Looking

LEMMA StatusStays ==
    ASSUME leads \in [Lead -> LeadRow], \A l \in Lead : Visible(leads'[l].st) = Visible(leads[l].st)
    PROVE  Statuses' = Statuses
  BY DEF Statuses

\* One row, or one handler, changes.
LEMMA StatusMoves ==
    ASSUME leads \in [Lead -> LeadRow], NEW l \in Lead, NEW row, leads' = [leads EXCEPT ![l] = row]
    PROVE  Statuses' = [Statuses EXCEPT ![l] = Visible(row.st)]
  BY DEF Statuses

LEMMA LookMoves ==
    ASSUME req \in [Req -> Request], NEW r \in Req, NEW q, req' = [req EXCEPT ![r] = q]
    PROVE  Looking' = [Looking EXCEPT ![r] = LookingAt(q)]
  BY DEF Looking

LEMMA LookOfIdle == LookingAt(Idle) = None
  BY DEF LookingAt, Idle

LEMMA SubmitLife == ASSUME LeadInv, NEW r \in Req, NEW k \in Key, Submit(r, k) PROVE Same
<1> DEFINE q == [Idle EXCEPT !.pc = "insert", !.key = k,
                             !.peers = {l \in Stored : leads[l].key = k}]
<1>1. q.pc = "insert"
  BY DEF Idle
<1>2. /\ req' = [req EXCEPT ![r] = q] /\ req[r].pc = "idle" /\ req \in [Req -> Request]
      /\ leads' = leads /\ log' = log /\ announced' = announced
  BY DEF Submit, LeadInv, TypeOK
<1> HIDE DEF q
<1>3. Looking' = Looking
  BY <1>1, <1>2, LookStays DEF LookingAt
<1> QED BY <1>2, <1>3 DEF Same, Statuses

LEMMA InsertLife == ASSUME LeadInv, NEW r \in Req, NEW l \in Lead, Insert(r, l) PROVE Same
<1> DEFINE q == [req[r] EXCEPT !.pc = "publish", !.lead = l]
           row == [st |-> "flushed", key |-> req[r].key, fresh |-> TRUE,
                   order |-> None, peers |-> req[r].peers]
<1>1. /\ req[r] \in Request /\ req[r].pc = "insert" /\ req \in [Req -> Request]
      /\ leads \in [Lead -> LeadRow] /\ leads[l].st = "unborn"
  BY DEF Insert, LeadInv, TypeOK
<1>2. q.pc = "publish" /\ row.st = "flushed"
  BY <1>1 DEF Request
<1>3. /\ req' = [req EXCEPT ![r] = q] /\ leads' = [leads EXCEPT ![l] = row]
      /\ log' = log /\ announced' = announced
  BY <1>1 DEF Insert
<1> HIDE DEF q, row
<1>4. Looking' = Looking
  BY <1>1, <1>2, <1>3, LookStays DEF LookingAt
<1>5. \A m \in Lead : Visible(leads'[m].st) = Visible(leads[m].st)
  BY <1>1, <1>2, <1>3 DEF Visible, Terminal
<1> QED BY <1>1, <1>3, <1>4, <1>5, StatusStays DEF Same

LEMMA PublishLife == ASSUME LeadInv, NEW r \in Req, Publish(r) PROVE Life!Next \/ Same
<1> DEFINE q == [req[r] EXCEPT !.pc = "commit"]
           l == req[r].lead
<1>1. /\ req[r] \in Request /\ req[r].pc = "publish" /\ req \in [Req -> Request]
      /\ l \in Lead /\ leads[l].st = "flushed"
  BY DEF Publish, LeadInv, TypeOK, Fits, Owns
<1>2. q.pc = "commit"
  BY <1>1 DEF Request
<1>3. /\ req' = [req EXCEPT ![r] = q] /\ leads' = leads /\ log' = log
      /\ announced' \in {announced, announced \cup {l}}
  BY <1>1 DEF Publish
<1> HIDE DEF q, l
<1>4. Looking' = Looking /\ Statuses' = Statuses
  BY <1>1, <1>2, <1>3, LookStays DEF LookingAt, Statuses
<1>5. CASE announced' = announced
  BY <1>3, <1>4, <1>5 DEF Same
<1>6. CASE announced' # announced
  <2>1. l \notin announced /\ announced' = announced \cup {l}
    BY <1>3, <1>6
  <2>2. Statuses[l] = "absent"
    BY <1>1 DEF Statuses, Visible, Terminal
  <2>3. Life!Announce(l)
    BY <2>1, <2>2, <1>3, <1>4 DEF Life!Announce, Statuses, Looking
  <2> QED BY <2>3, <1>1 DEF Life!Next
<1> QED BY <1>5, <1>6

LEMMA CommitLife == ASSUME LeadInv, NEW r \in Req, Commit(r) PROVE Life!Next
<1> DEFINE l == req[r].lead
           row == [leads[l] EXCEPT !.st = "pending"]
<1>1. /\ req[r].pc = "commit" /\ req \in [Req -> Request]
      /\ leads \in [Lead -> LeadRow] /\ l \in Lead /\ leads[l].st = "flushed"
  BY DEF Commit, LeadInv, TypeOK, Fits, Owns
<1>2. row.st = "pending"
  BY <1>1 DEF LeadRow
<1>3. /\ req' = [req EXCEPT ![r] = Idle] /\ leads' = [leads EXCEPT ![l] = row]
      /\ log' = log /\ announced' = announced
  BY <1>1 DEF Commit
<1> HIDE DEF l, row
<1>4. Looking' = Looking
  BY <1>1, <1>3, LookStays, LookOfIdle DEF LookingAt
<1>5. Statuses' = [Statuses EXCEPT ![l] = "pending"] /\ Statuses[l] = "absent"
  BY <1>1, <1>2, <1>3, StatusMoves DEF Visible, Terminal, Statuses
<1>6. Life!Appear(l)
  BY <1>3, <1>4, <1>5 DEF Life!Appear, Statuses, Looking
<1> QED BY <1>1, <1>6 DEF Life!Next

LEMMA OpenLife ==
    ASSUME LeadInv, NEW r \in Req, NEW l \in Lead, NEW to \in Terminal, NEW o \in Opt(Order),
           Open(r, l, to, o)
    PROVE  Life!Next
<1> DEFINE q == [Idle EXCEPT !.pc = "update", !.lead = l, !.to = to, !.order = o]
<1>1. q.pc = "update" /\ q.lead = l
  BY DEF Idle
<1>2. /\ req' = [req EXCEPT ![r] = q] /\ leads' = leads /\ log' = log /\ announced' = announced
      /\ req[r].pc = "idle" /\ leads[l].st = "pending" /\ req \in [Req -> Request]
  BY DEF Open, Settleable, LeadInv, TypeOK
<1> HIDE DEF q
<1>3. Looking' = [Looking EXCEPT ![r] = l] /\ Looking[r] = None
  BY <1>1, <1>2, LookMoves DEF LookingAt, Looking
<1>4. Statuses' = Statuses /\ Statuses[l] = "pending"
  BY <1>2 DEF Statuses, Visible
<1>5. Life!Look(r, l)
  BY <1>2, <1>3, <1>4 DEF Life!Look, Statuses, Looking
<1> QED BY <1>5 DEF Life!Next

LEMMA UpdateLife == ASSUME LeadInv, NEW r \in Req, Update(r) PROVE Same
<1> DEFINE q == [req[r] EXCEPT !.pc = "settle"]
<1>1. req[r] \in Request /\ req[r].pc = "update" /\ req \in [Req -> Request]
  BY DEF Update, LeadInv, TypeOK
<1>2. q.pc = "settle" /\ q.lead = req[r].lead
  BY <1>1 DEF Request
<1>3. /\ req' = [req EXCEPT ![r] = q] /\ leads' = leads /\ log' = log /\ announced' = announced
  BY <1>1 DEF Update
<1> HIDE DEF q
<1>4. Looking' = Looking
  BY <1>1, <1>2, <1>3, LookStays DEF LookingAt
<1> QED BY <1>3, <1>4 DEF Same, Statuses

LEMMA SettleLife == ASSUME LeadInv, NEW r \in Req, Settle(r) PROVE Life!Next
<1> DEFINE l == req[r].lead
           s == req[r].to
           row == Written(leads[l], req[r])
<1>1. /\ req[r].pc = "settle" /\ req \in [Req -> Request] /\ req[r] \in Request
      /\ leads \in [Lead -> LeadRow] /\ l \in Lead /\ leads[l] \in LeadRow
  BY DEF Settle, LeadInv, TypeOK, Fits
<1>2. row.st = s /\ s \in Terminal
  BY <1>1, WrittenTypes
<1>3. /\ req' = [req EXCEPT ![r] = Idle] /\ leads' = [leads EXCEPT ![l] = row]
      /\ log' = [log EXCEPT ![l] = Append(@, s)] /\ announced' = announced
  BY DEF Settle, Logged
<1>4. Looking[r] = l
  BY <1>1 DEF Looking, LookingAt
<1> HIDE DEF l, s, row
<1>5. Looking' = [Looking EXCEPT ![r] = None]
  BY <1>1, <1>3, LookMoves, LookOfIdle
<1>6. Statuses' = [Statuses EXCEPT ![l] = s]
  <2>1. Visible(s) = s
    BY <1>2 DEF Visible
  <2> QED BY <2>1, <1>1, <1>2, <1>3, StatusMoves
<1>7. Life!Decide(r, l, s)
  BY <1>3, <1>4, <1>5, <1>6 DEF Life!Decide, Statuses, Looking
<1>8. s \in Life!Terminal
  BY <1>2 DEF Terminal, Life!Terminal
<1> QED BY <1>1, <1>7, <1>8 DEF Life!Next

LEMMA FailLife == ASSUME LeadInv, NEW r \in Req, Fail(r) PROVE Life!Next \/ Same
<1>1. /\ req \in [Req -> Request] /\ leads \in [Lead -> LeadRow] /\ Fits(req[r], leads)
      /\ req' = [req EXCEPT ![r] = Idle] /\ log' = log /\ announced' = announced
  BY DEF Fail, LeadInv, TypeOK
<1>2. Looking' = [Looking EXCEPT ![r] = None]
  BY <1>1, LookMoves, LookOfIdle
<1>3. \A m \in Lead : Visible(leads'[m].st) = Visible(leads[m].st)
  <2>1. CASE Owns(req[r])
    <3>1. leads[req[r].lead].st = "flushed" /\ leads' = [leads EXCEPT ![req[r].lead].st = "gone"]
      BY <1>1, <2>1 DEF Fail, Owns, Fits
    <3> QED BY <1>1, <3>1 DEF Visible, Terminal, LeadRow
  <2>2. CASE ~Owns(req[r])
    BY <2>2 DEF Fail, Owns
  <2> QED BY <2>1, <2>2
<1>4. Statuses' = Statuses
  BY <1>1, <1>3, StatusStays
<1>5. CASE req[r].pc \in {"update", "settle"}
  <2>1. Looking[r] # None
    BY <1>1, <1>5, LeadAssumption DEF Looking, LookingAt, Fits
  <2>2. Life!Leave(r)
    BY <1>1, <1>2, <1>4, <2>1 DEF Life!Leave, Statuses, Looking
  <2> QED BY <2>2 DEF Life!Next
<1>6. CASE req[r].pc \notin {"update", "settle"}
  <2>1. LookingAt(Idle) = LookingAt(req[r])
    BY <1>6, LookOfIdle DEF LookingAt
  <2>2. Looking' = Looking
    BY <1>1, <2>1, LookStays
  <2> QED BY <1>1, <1>4, <2>2 DEF Same
<1> QED BY <1>5, <1>6

LEMMA AgeLife == ASSUME LeadInv, NEW l \in Lead, Age(l) PROVE Same
<1>1. /\ leads \in [Lead -> LeadRow] /\ leads' = [leads EXCEPT ![l].fresh = FALSE]
      /\ log' = log /\ announced' = announced /\ req' = req
  BY DEF Age, LeadInv, TypeOK
<1>2. \A m \in Lead : Visible(leads'[m].st) = Visible(leads[m].st)
  BY <1>1 DEF LeadRow
<1> QED BY <1>1, <1>2, StatusStays DEF Same, Looking

LEMMA InitLife == Init => Life!Init
<1> SUFFICES ASSUME Init PROVE Life!Init
  OBVIOUS
<1>1. Statuses = [l \in Lead |-> "absent"]
  BY DEF Init, Unborn, Statuses, Visible, Terminal
<1>2. Looking = [r \in Req |-> None]
  BY LookOfIdle DEF Init, Looking
<1> QED BY <1>1, <1>2 DEF Init, Life!Init, Statuses, Looking

LEMMA NextLife == ASSUME LeadInv, [Next]_vars PROVE [Life!Next]_(Life!vars)
<1>1. CASE UNCHANGED vars
  <2>1. Same
    BY <1>1 DEF vars, Same, Statuses, Looking
  <2> QED BY <2>1, SameStutters
<1>2. ASSUME NEW l \in Lead, Age(l) PROVE Life!Next \/ Same
  BY <1>2, AgeLife
<1>3. ASSUME NEW r \in Req, HandlerStep(r) PROVE Life!Next \/ Same
  BY <1>3, SubmitLife, InsertLife, PublishLife, CommitLife, OpenLife, UpdateLife, SettleLife,
     FailLife DEF HandlerStep
<1>4. CASE Next
  BY <1>2, <1>3, <1>4, SameStutters DEF Next
<1> QED BY <1>1, <1>4

\* create_lead, convert_lead and cancel_lead with their transactions implement
\* the life of a lead.
THEOREM LeadsImplementLifecycle == Spec => Lifecycle
  BY InitLife, NextLife, LeadInvariant, PTL DEF Spec, Lifecycle, Life!Spec
=============================================================================
