-------------------------- MODULE RateLimit_proofs --------------------------
(***************************************************************************)
(* Proof that the limiter keeps its limits, for every number of requests,  *)
(* checks, limits and windows.                                             *)
(***************************************************************************)
EXTENDS RateLimit, FiniteSetTheorems, TLAPS

\* What a check may count: stamps that were read, in a key that outlives them.
SetInv == \A g \in Gate : /\ IsFiniteSet(zset[g])
                          /\ \A s \in zset[g] : s < now /\ s + Window[g] < deadline[g]

\* What passed recently is still in the set.
RecentInv == \A g \in Gate : /\ \A s \in passed[g] : s < now
                             /\ Within(passed[g], g, now) \subseteq zset[g]

\* No two requests have the same stamp, and a stamp passes a check at most once.
StampInv ==
    \A r \in Req : req[r].pc # "idle" =>
        /\ req[r].stamp < now
        /\ \A g \in Gate : req[r].stamp \notin passed[g]
        /\ \A x \in Req \ {r} : req[x].pc # "idle" => req[x].stamp # req[r].stamp

RateInv == TypeOK /\ SetInv /\ RecentInv /\ StampInv /\ RateKept

LEMMA GateTypes ==
    /\ 1 \in Gate
    /\ \A g \in Gate : Limit[g] \in Nat /\ Limit[g] > 0 /\ Window[g] \in Nat /\ Window[g] > 0
    /\ \A g \in Gate : g # Gates => g + 1 \in Gate
  BY GateAssumption DEF Gate

LEMMA InitRate == Init => RateInv
<1> SUFFICES ASSUME Init PROVE RateInv
  OBVIOUS
<1>1. TypeOK
  BY GateTypes DEF Init, TypeOK, Request, Idle
<1>2. SetInv /\ RecentInv /\ StampInv
  BY FS_EmptySet DEF Init, SetInv, RecentInv, StampInv, Within, Idle
<1>3. ASSUME NEW g \in Gate PROVE Cardinality(Within(passed[g], g, now)) <= Limit[g]
  <2>1. Within(passed[g], g, now) = {}
    BY DEF Init, Within
  <2> QED BY <2>1, FS_EmptySet, GateTypes
<1> QED BY <1>1, <1>2, <1>3 DEF RateInv, RateKept

\* The clock moves on: what is recent then was recent before.
LEMMA LaterWithin ==
    ASSUME NEW S \in SUBSET Nat, NEW g \in Gate, NEW t \in Nat, NEW u \in Nat, t <= u
    PROVE  Within(S, g, u) \subseteq Within(S, g, t)
<1>1. Window[g] \in Nat
  BY GateTypes
<1>2. ASSUME NEW s \in S, s > u - Window[g] PROVE s > t - Window[g]
  <2>1. s \in Nat
    OBVIOUS
  <2> QED BY <1>1, <1>2, <2>1
<1> QED BY <1>2 DEF Within

\* A step that only lets time pass and moves requests.
LEMMA ClockMoves ==
    ASSUME RateInv, zset' = zset, deadline' = deadline, passed' = passed,
           now' \in Nat, now <= now'
    PROVE  SetInv' /\ RecentInv' /\ RateKept'
<1>1. /\ now \in Nat /\ passed \in [Gate -> SUBSET Nat] /\ zset \in [Gate -> SUBSET Nat]
  BY DEF RateInv, TypeOK
<1>2. SetInv'
  BY <1>1 DEF RateInv, SetInv
<1>3. ASSUME NEW g \in Gate
      PROVE  /\ \A s \in passed[g] : s < now'
             /\ Within(passed[g], g, now') \subseteq zset[g]
             /\ Cardinality(Within(passed[g], g, now')) <= Limit[g]
  <2>1. /\ passed[g] \in SUBSET Nat /\ \A s \in passed[g] : s < now
        /\ Within(passed[g], g, now) \subseteq zset[g]
        /\ IsFiniteSet(zset[g]) /\ Cardinality(Within(passed[g], g, now)) <= Limit[g]
    BY <1>1 DEF RateInv, RecentInv, SetInv, RateKept
  <2>2. Within(passed[g], g, now') \subseteq Within(passed[g], g, now)
    BY <1>1, <2>1, LaterWithin
  <2>3. IsFiniteSet(Within(passed[g], g, now))
    BY <2>1, FS_Subset
  <2>4. /\ Cardinality(Within(passed[g], g, now')) <= Cardinality(Within(passed[g], g, now))
        /\ Cardinality(Within(passed[g], g, now')) \in Nat
        /\ Cardinality(Within(passed[g], g, now)) \in Nat
    BY <2>2, <2>3, FS_Subset, FS_CardinalityType
  <2>5. Limit[g] \in Nat
    BY GateTypes
  <2>6. Cardinality(Within(passed[g], g, now')) <= Limit[g]
    BY <2>1, <2>4, <2>5
  <2>7. \A s \in passed[g] : s < now'
    BY <1>1, <2>1
  <2> QED BY <2>1, <2>2, <2>6, <2>7
<1> QED BY <1>2, <1>3 DEF RecentInv, RateKept

\* What passed recently is counted, whenever the counting request read its clock.
LEMMA RecentCounted ==
    ASSUME RateInv, NEW r \in Req, req[r].pc # "idle"
    PROVE  Within(passed[req[r].gate], req[r].gate, now) \subseteq Counted(r)
<1> DEFINE g == req[r].gate
<1>1. /\ g \in Gate /\ req[r].stamp \in Nat /\ req[r].stamp < now /\ now \in Nat
      /\ deadline[g] \in Nat /\ Window[g] \in Nat /\ passed[g] \subseteq Nat
  BY GateTypes DEF RateInv, TypeOK, Request, StampInv
<1> HIDE DEF g
<1>2. ASSUME NEW s \in Within(passed[g], g, now)
      PROVE  s \in Within(Members(g), g, req[r].stamp)
  <2>1. s \in Nat /\ s > now - Window[g] /\ s \in zset[g] /\ s + Window[g] < deadline[g]
    BY <1>1 DEF Within, RateInv, RecentInv, SetInv
  <2> QED BY <1>1, <2>1 DEF Members, Within
<1> QED BY <1>2 DEF Counted, g

\* What the pipeline leaves in the sorted set of its check.
LEMMA QueueParts ==
    ASSUME RateInv, NEW r \in Req, req[r].pc # "idle", Queue(r)
    PROVE  /\ IsFiniteSet(Counted(r)) /\ Counted(r) \subseteq zset[req[r].gate]
           /\ zset' \in [Gate -> SUBSET Nat] /\ deadline' \in [Gate -> Nat]
           /\ zset'[req[r].gate] = Counted(r) \cup {req[r].stamp}
           /\ deadline'[req[r].gate] = now + Window[req[r].gate] + 1
           /\ \A h \in Gate : h # req[r].gate => zset'[h] = zset[h] /\ deadline'[h] = deadline[h]
<1> DEFINE g == req[r].gate
<1>1. /\ g \in Gate /\ req[r].stamp \in Nat /\ now \in Nat
      /\ zset \in [Gate -> SUBSET Nat] /\ deadline \in [Gate -> Nat]
  BY DEF RateInv, TypeOK, Request
<1>2. Window[g] \in Nat
  BY <1>1, GateTypes
<1>3. /\ zset' = [zset EXCEPT ![g] = Counted(r) \cup {req[r].stamp}]
      /\ deadline' = [deadline EXCEPT ![g] = now + Window[g] + 1]
  BY DEF Queue
<1>4. Counted(r) \subseteq zset[g]
  BY DEF Counted, Within, Members
<1> HIDE DEF g
<1>5. IsFiniteSet(zset[g])
  BY <1>1 DEF RateInv, SetInv
<1>6. IsFiniteSet(Counted(r)) /\ Counted(r) \subseteq Nat
  BY <1>1, <1>4, <1>5, FS_Subset
<1>7. zset' \in [Gate -> SUBSET Nat] /\ deadline' \in [Gate -> Nat]
  BY <1>1, <1>2, <1>3, <1>6
<1>8. /\ zset'[g] = Counted(r) \cup {req[r].stamp}
      /\ \A h \in Gate : h # g => zset'[h] = zset[h] /\ deadline'[h] = deadline[h]
      /\ deadline'[g] = now + Window[g] + 1
  BY <1>1, <1>3
<1> QED BY <1>4, <1>6, <1>7, <1>8 DEF g

LEMMA QueueSet ==
    ASSUME RateInv, NEW r \in Req, req[r].pc # "idle", Queue(r), now' \in Nat, now <= now'
    PROVE  SetInv'
<1> DEFINE g == req[r].gate
<1>1. /\ g \in Gate /\ req[r].stamp \in Nat /\ now \in Nat
      /\ zset \in [Gate -> SUBSET Nat] /\ deadline \in [Gate -> Nat]
  BY DEF RateInv, TypeOK, Request
<1>2. req[r].stamp < now
  BY DEF RateInv, StampInv
<1>3. Window[g] \in Nat
  BY <1>1, GateTypes
<1>4. /\ IsFiniteSet(Counted(r)) /\ Counted(r) \subseteq zset[g]
      /\ zset'[g] = Counted(r) \cup {req[r].stamp}
      /\ deadline'[g] = now + Window[g] + 1
      /\ \A h \in Gate : h # g => zset'[h] = zset[h] /\ deadline'[h] = deadline[h]
  BY QueueParts
<1> HIDE DEF g
<1>5. IsFiniteSet(zset'[g])
  BY <1>4, FS_AddElement
<1>6. ASSUME NEW s \in zset'[g] PROVE s < now' /\ s + Window[g] < deadline'[g]
  <2>1. s \in Nat /\ s < now
    BY <1>1, <1>2, <1>4 DEF RateInv, SetInv
  <2> QED BY <1>1, <1>3, <1>4, <2>1
<1>7. ASSUME NEW h \in Gate, h # g
      PROVE  /\ IsFiniteSet(zset'[h])
             /\ \A s \in zset'[h] : s < now' /\ s + Window[h] < deadline'[h]
  <2>1. /\ zset'[h] = zset[h] /\ deadline'[h] = deadline[h] /\ zset[h] \subseteq Nat
        /\ IsFiniteSet(zset[h]) /\ \A s \in zset[h] : s < now /\ s + Window[h] < deadline[h]
    BY <1>1, <1>4, <1>7 DEF RateInv, SetInv
  <2> QED BY <1>1, <2>1
<1> QED BY <1>5, <1>6, <1>7 DEF SetInv

LEMMA ArriveRate == ASSUME RateInv, NEW r \in Req, Arrive(r) PROVE RateInv'
<1>1. /\ now \in Nat /\ now' = now + 1 /\ UNCHANGED <<zset, deadline, passed, died>>
      /\ req \in [Req -> Request] /\ req' = [req EXCEPT ![r] = Begin(1)]
  BY DEF RateInv, TypeOK, Arrive
<1>2. SetInv' /\ RecentInv' /\ RateKept'
  BY <1>1, ClockMoves
<1>3. TypeOK'
  BY <1>1, GateTypes DEF RateInv, TypeOK, Begin, Request
<1>4. StampInv'
  <2>1. /\ req'[r].stamp = now
        /\ \A x \in Req \ {r} : req'[x] = req[x]
    BY <1>1 DEF Begin
  <2>2. \A g \in Gate : now \notin passed[g]
    BY <1>1 DEF RateInv, RecentInv
  <2>3. \A x \in Req : req[x].stamp \in Nat
    BY <1>1 DEF Request
  <2>4. ASSUME NEW x \in Req \ {r}, req[x].pc # "idle"
        PROVE  /\ req[x].stamp < now /\ \A g \in Gate : req[x].stamp \notin passed[g]
               /\ \A y \in Req \ {x} : req[y].pc # "idle" => req[y].stamp # req[x].stamp
    BY <2>4 DEF RateInv, StampInv
  <2> QED BY <1>1, <2>1, <2>2, <2>3, <2>4 DEF StampInv
<1> QED BY <1>2, <1>3, <1>4 DEF RateInv

LEMMA RefusedRate == ASSUME RateInv, NEW r \in Req, CheckRefused(r) PROVE RateInv'
<1> DEFINE g == req[r].gate
<1>1. /\ now \in Nat /\ UNCHANGED <<now, passed, died>> /\ req[r].pc # "idle" /\ Queue(r)
      /\ req \in [Req -> Request] /\ req' = [req EXCEPT ![r].pc = "remove"] /\ g \in Gate
  BY DEF RateInv, TypeOK, CheckRefused, Request
<1>2. /\ zset' \in [Gate -> SUBSET Nat] /\ deadline' \in [Gate -> Nat]
      /\ Counted(r) \subseteq zset'[g] /\ \A h \in Gate : h # g => zset'[h] = zset[h]
  BY <1>1, QueueParts
<1>3. Within(passed[g], g, now) \subseteq Counted(r)
  BY <1>1, RecentCounted
<1>4. SetInv'
  BY <1>1, QueueSet
<1> HIDE DEF g
<1>5. TypeOK'
  BY <1>1, <1>2 DEF RateInv, TypeOK, Request
<1>6. RecentInv'
  <2>1. \A h \in Gate : Within(passed[h], h, now) \subseteq zset'[h]
    BY <1>2, <1>3 DEF RateInv, RecentInv
  <2> QED BY <1>1, <2>1 DEF RateInv, RecentInv
<1>7. StampInv'
  <2>1. /\ req'[r].stamp = req[r].stamp
        /\ \A x \in Req \ {r} : req'[x] = req[x]
    BY <1>1 DEF Request
  <2> QED BY <1>1, <2>1 DEF RateInv, StampInv
<1>8. RateKept'
  BY <1>1 DEF RateInv, RateKept
<1> QED BY <1>4, <1>5, <1>6, <1>7, <1>8 DEF RateInv

LEMMA PassedRate == ASSUME RateInv, NEW r \in Req, CheckPassed(r) PROVE RateInv'
<1> DEFINE g == req[r].gate
           t == req[r].stamp
           last == req' = [req EXCEPT ![r] = Idle] /\ now' = now
           next == /\ req' = [req EXCEPT ![r] = Begin(g + 1)] /\ now' = now + 1 /\ g + 1 \in Gate
<1>1. /\ now \in Nat /\ req[r].pc # "idle" /\ Queue(r) /\ UNCHANGED died
      /\ req \in [Req -> Request] /\ g \in Gate /\ t \in Nat
      /\ passed \in [Gate -> SUBSET Nat] /\ zset \in [Gate -> SUBSET Nat]
      /\ passed' = [passed EXCEPT ![g] = @ \cup {t}]
      /\ Cardinality(Counted(r)) < Limit[g]
  BY DEF RateInv, TypeOK, CheckPassed, Request
<1>2. last \/ next
  <2>1. \/ last
        \/ req' = [req EXCEPT ![r] = Begin(g + 1)] /\ now' = now + 1 /\ g < Gates
    BY DEF CheckPassed
  <2>2. g \in Nat /\ Gates \in Nat /\ (g < Gates => g + 1 \in Gate)
    BY <1>1, GateAssumption DEF Gate
  <2> HIDE DEF g
  <2> QED BY <2>1, <2>2
<1>3. now' \in Nat /\ now <= now'
  BY <1>1, <1>2
<1>4. /\ zset' \in [Gate -> SUBSET Nat] /\ deadline' \in [Gate -> Nat]
      /\ IsFiniteSet(Counted(r)) /\ Counted(r) \subseteq zset[g]
      /\ zset'[g] = Counted(r) \cup {t} /\ \A h \in Gate : h # g => zset'[h] = zset[h]
  BY <1>1, QueueParts
<1>5. Within(passed[g], g, now) \subseteq Counted(r)
  BY <1>1, RecentCounted
<1>6. t < now /\ t \notin passed[g]
  BY <1>1 DEF RateInv, StampInv
<1>7. SetInv'
  BY <1>1, <1>3, QueueSet
<1>8. TypeOK'
  <2>1. req' \in [Req -> Request]
    <3>1. Idle \in Request /\ (g + 1 \in Gate => Begin(g + 1) \in Request)
      BY <1>1, GateTypes DEF Idle, Begin, Request
    <3> QED BY <1>1, <1>2, <3>1
  <2>2. passed' \in [Gate -> SUBSET Nat]
    BY <1>1
  <2> QED BY <1>1, <1>3, <1>4, <2>1, <2>2 DEF RateInv, TypeOK
<1> HIDE DEF g, t
<1>9. Within(passed'[g], g, now') \subseteq zset'[g]
  <2>1. passed'[g] = passed[g] \cup {t} /\ passed[g] \in SUBSET Nat
    BY <1>1
  <2>2. Within(passed[g], g, now') \subseteq Within(passed[g], g, now)
    BY <1>1, <1>3, <2>1, LaterWithin
  <2>3. Within(passed'[g], g, now') \subseteq Within(passed[g], g, now') \cup {t}
    BY <2>1 DEF Within
  <2> QED BY <1>4, <1>5, <2>2, <2>3
<1>10. \A h \in Gate : h # g => passed'[h] = passed[h]
  BY <1>1
<1>11. ASSUME NEW h \in Gate, h # g
       PROVE  /\ Within(passed'[h], h, now') \subseteq zset'[h]
              /\ Cardinality(Within(passed'[h], h, now')) <= Limit[h]
  <2>1. /\ Within(passed[h], h, now) \subseteq zset[h] /\ IsFiniteSet(zset[h])
        /\ Cardinality(Within(passed[h], h, now)) <= Limit[h] /\ passed[h] \in SUBSET Nat
    BY <1>1 DEF RateInv, RecentInv, SetInv, RateKept
  <2>2. Within(passed[h], h, now') \subseteq Within(passed[h], h, now)
    BY <1>1, <1>3, <2>1, LaterWithin
  <2>3. IsFiniteSet(Within(passed[h], h, now))
    BY <2>1, FS_Subset
  <2>4. /\ Cardinality(Within(passed[h], h, now')) <= Cardinality(Within(passed[h], h, now))
        /\ Cardinality(Within(passed[h], h, now')) \in Nat
        /\ Cardinality(Within(passed[h], h, now)) \in Nat
    BY <2>2, <2>3, FS_Subset, FS_CardinalityType
  <2>5. Limit[h] \in Nat
    BY GateTypes
  <2>6. Cardinality(Within(passed[h], h, now')) <= Limit[h]
    BY <2>1, <2>4, <2>5
  <2>7. passed'[h] = passed[h] /\ zset'[h] = zset[h]
    BY <1>4, <1>10, <1>11
  <2> QED BY <2>1, <2>2, <2>6, <2>7
<1>12. RecentInv'
  <2>1. ASSUME NEW h \in Gate, NEW s \in passed'[h] PROVE s < now'
    <3>1. s \in Nat /\ s < now
      <4>1. CASE s \in passed[h]
        BY <1>1, <4>1 DEF RateInv, RecentInv
      <4>2. CASE s \notin passed[h]
        BY <1>1, <1>6, <4>2, <2>1
      <4> QED BY <4>1, <4>2
    <3> QED BY <1>1, <1>3, <3>1
  <2> QED BY <1>9, <1>11, <2>1 DEF RecentInv
<1>13. RateKept'
  <2>1. /\ IsFiniteSet(Counted(r) \cup {t})
        /\ Cardinality(Counted(r) \cup {t}) <= Cardinality(Counted(r)) + 1
    <3>1. IsFiniteSet(Counted(r)) /\ Cardinality(Counted(r)) \in Nat
      BY <1>4, FS_CardinalityType
    <3>2. /\ IsFiniteSet(Counted(r) \cup {t})
          /\ Cardinality(Counted(r) \cup {t}) = IF t \in Counted(r) THEN Cardinality(Counted(r))
                                                ELSE Cardinality(Counted(r)) + 1
      BY <3>1, FS_AddElement
    <3> QED BY <3>1, <3>2
  <2>2. /\ Cardinality(Within(passed'[g], g, now')) <= Cardinality(Counted(r) \cup {t})
        /\ Cardinality(Within(passed'[g], g, now')) \in Nat
        /\ Cardinality(Counted(r) \cup {t}) \in Nat /\ Cardinality(Counted(r)) \in Nat
    <3>1. Within(passed'[g], g, now') \subseteq Counted(r) \cup {t}
      BY <1>4, <1>9
    <3> QED BY <1>4, <2>1, <3>1, FS_Subset, FS_CardinalityType
  <2>3. Limit[g] \in Nat
    BY <1>1, GateTypes
  <2>4. Cardinality(Within(passed'[g], g, now')) <= Limit[g]
    BY <1>1, <2>1, <2>2, <2>3
  <2> QED BY <1>11, <2>4 DEF RateKept
<1>14. StampInv'
  <2>1. ASSUME NEW x \in Req \ {r}, req[x].pc # "idle"
        PROVE  /\ req[x].stamp \in Nat /\ req[x].stamp < now
               /\ \A h \in Gate : req[x].stamp \notin passed'[h]
               /\ \A y \in Req \ {x} : req[y].pc # "idle" => req[y].stamp # req[x].stamp
    <3>1. /\ req[x].stamp < now /\ \A h \in Gate : req[x].stamp \notin passed[h]
          /\ \A y \in Req \ {x} : req[y].pc # "idle" => req[y].stamp # req[x].stamp
      BY <2>1 DEF RateInv, StampInv
    <3>2. req[x].stamp # t
      BY <1>1, <3>1 DEF t
    <3>3. req[x].stamp \in Nat
      BY <1>1 DEF Request
    <3> QED BY <1>1, <3>1, <3>2, <3>3
  <2>2. \A x \in Req \ {r} : req'[x] = req[x]
    BY <1>1, <1>2
  <2>3. CASE last
    <3>1. req'[r].pc = "idle"
      BY <1>1, <2>3 DEF Idle
    <3> QED BY <2>1, <2>2, <2>3, <3>1 DEF StampInv
  <2>4. CASE next
    <3>1. req'[r].stamp = now
      BY <1>1, <2>4 DEF Begin
    <3>2. ASSUME NEW h \in Gate PROVE now \notin passed'[h]
      <4>1. \A s \in passed[h] : s \in Nat /\ s < now
        BY <1>1 DEF RateInv, RecentInv
      <4> QED BY <1>1, <1>6, <4>1
    <3>3. ASSUME NEW x \in Req \ {r}, req[x].pc # "idle" PROVE req[x].stamp # now
      BY <1>1, <2>1, <3>3
    <3>4. now < now' /\ \A x \in Nat : x < now => x < now'
      BY <1>1, <2>4
    <3> QED BY <2>1, <2>2, <3>1, <3>2, <3>3, <3>4 DEF StampInv
  <2> QED BY <1>2, <2>3, <2>4
<1> QED BY <1>7, <1>8, <1>12, <1>13, <1>14 DEF RateInv

LEMMA RemoveRate == ASSUME RateInv, NEW r \in Req, Remove(r) PROVE RateInv'
<1> DEFINE g == req[r].gate
           t == req[r].stamp
<1>1. /\ now \in Nat /\ req[r].pc # "idle" /\ UNCHANGED <<now, deadline, passed, died>>
      /\ req \in [Req -> Request] /\ g \in Gate /\ t \in Nat
      /\ passed \in [Gate -> SUBSET Nat] /\ zset \in [Gate -> SUBSET Nat]
      /\ deadline \in [Gate -> Nat] /\ Window \in [Gate -> Nat]
      /\ zset' = [zset EXCEPT ![g] = Members(g) \ {t}]
      /\ req' = [req EXCEPT ![r] = Idle]
  BY GateAssumption DEF RateInv, TypeOK, Remove, Request, Withdraw
<1>2. t \notin passed[g]
  BY <1>1 DEF RateInv, StampInv
<1> HIDE DEF g, t
<1>3. Members(g) \subseteq zset[g]
  BY DEF Members
<1>4. TypeOK'
  <2>1. Idle \in Request
    BY GateTypes DEF Idle, Request
  <2> QED BY <1>1, <1>3, <2>1 DEF RateInv, TypeOK
<1>5. SetInv'
  <2>1. ASSUME NEW h \in Gate PROVE zset'[h] \subseteq zset[h]
    BY <1>1, <1>3
  <2>2. ASSUME NEW h \in Gate PROVE IsFiniteSet(zset'[h])
    BY <2>1, FS_Subset DEF RateInv, SetInv
  <2> QED BY <1>1, <2>1, <2>2 DEF RateInv, SetInv
<1>6. RecentInv'
  <2>1. ASSUME NEW s \in Within(passed[g], g, now) PROVE s \in Members(g) /\ s # t
    <3>1. s \in passed[g] /\ s \in Nat /\ s > now - Window[g] /\ s \in zset[g]
          /\ s + Window[g] < deadline[g]
      BY <1>1 DEF Within, RateInv, RecentInv, SetInv
    <3>2. Window[g] \in Nat /\ deadline[g] \in Nat
      BY <1>1
    <3> QED BY <1>1, <1>2, <3>1, <3>2 DEF Members
  <2>2. \A h \in Gate : Within(passed[h], h, now) \subseteq zset'[h]
    BY <1>1, <2>1 DEF RateInv, RecentInv
  <2> QED BY <1>1, <2>2 DEF RateInv, RecentInv
<1>7. StampInv'
  BY <1>1 DEF RateInv, StampInv, Idle
<1>8. RateKept'
  BY <1>1 DEF RateInv, RateKept
<1> QED BY <1>4, <1>5, <1>6, <1>7, <1>8 DEF RateInv

LEMMA CrashRate == ASSUME RateInv, NEW r \in Req, Crash(r) PROVE RateInv'
<1>1. /\ now \in Nat /\ UNCHANGED <<now, zset, deadline, passed>> /\ died' = TRUE
      /\ req \in [Req -> Request] /\ req' = [req EXCEPT ![r] = Idle]
  BY DEF RateInv, TypeOK, Crash
<1>2. Idle \in Request
  BY GateTypes DEF Idle, Request
<1>3. SetInv' /\ RecentInv' /\ RateKept'
  BY <1>1, ClockMoves
<1>4. TypeOK'
  BY <1>1, <1>2 DEF RateInv, TypeOK
<1>5. StampInv'
  BY <1>1 DEF RateInv, StampInv, Idle
<1> QED BY <1>3, <1>4, <1>5 DEF RateInv

LEMMA TickRate == ASSUME RateInv, Tick PROVE RateInv'
<1>1. now \in Nat /\ now' = now + 1 /\ UNCHANGED <<zset, deadline, req, passed, died>>
  BY DEF RateInv, TypeOK, Tick
<1>2. SetInv' /\ RecentInv' /\ RateKept'
  BY <1>1, ClockMoves
<1>3. TypeOK'
  BY <1>1 DEF RateInv, TypeOK
<1>4. StampInv'
  <2>1. \A x \in Req : req[x].stamp \in Nat
    BY DEF RateInv, TypeOK, Request
  <2> QED BY <1>1, <2>1 DEF RateInv, StampInv
<1> QED BY <1>2, <1>3, <1>4 DEF RateInv

\* What a check counts never misses a request that passed it recently: the
\* entry is added with the stamp of the clock reading, the key outlives every
\* entry, and a refused request removes only its own stamp.
THEOREM RateInvariant == Spec => []RateInv
<1>1. ASSUME RateInv, [Next]_vars PROVE RateInv'
  <2>1. ASSUME NEW r \in Req, RequestStep(r) PROVE RateInv'
    BY <1>1, <2>1, ArriveRate, RefusedRate, PassedRate, RemoveRate, CrashRate DEF RequestStep
  <2>2. CASE UNCHANGED vars
    BY <1>1, <2>2 DEF vars, RateInv, TypeOK, SetInv, RecentInv, StampInv, RateKept
  <2> QED BY <1>1, <2>1, <2>2, TickRate DEF Next
<1> QED BY <1>1, InitRate, PTL DEF Spec

\* At no time have more than Limit requests passed a check within its window.
THEOREM RateKeptHolds == Spec => []RateKept
<1>1. RateInv => RateKept
  BY DEF RateInv
<1> QED BY <1>1, RateInvariant, PTL

\* The types of the limiter's state.
THEOREM RateTypes == Spec => []TypeOK
<1>1. RateInv => TypeOK
  BY DEF RateInv
<1> QED BY <1>1, RateInvariant, PTL

----------------------------------------------------------------------------
(* SlidingWindow.                                                          *)

\* A pipeline that counts fewer than the limit runs when fewer have passed in the window up to now.
LEMMA PassMaps == ASSUME RateInv, NEW r \in Req, CheckPassed(r) PROVE Promise!Next
<1> DEFINE g == req[r].gate
           t == req[r].stamp
<1>1. /\ now \in Nat /\ g \in Gate /\ t \in Nat /\ req[r].pc # "idle" /\ Queue(r)
      /\ passed' = [passed EXCEPT ![g] = @ \cup {t}] /\ now' \in {now, now + 1}
      /\ Cardinality(Counted(r)) < Limit[g]
  BY DEF RateInv, TypeOK, CheckPassed, Request
<1>2. t < now /\ t \notin passed[g]
  BY <1>1 DEF RateInv, StampInv
<1>3. Promise!Recent(g) \subseteq Counted(r)
  BY <1>1, RecentCounted DEF Promise!Recent, Within
<1>4. IsFiniteSet(Counted(r))
  BY <1>1, QueueParts
<1>5. Limit[g] \in Nat
  BY <1>1, GateTypes
<1> HIDE DEF g, t
<1>6. Cardinality(Promise!Recent(g)) < Limit[g]
  <2>1. /\ Cardinality(Promise!Recent(g)) <= Cardinality(Counted(r))
        /\ Cardinality(Promise!Recent(g)) \in Nat /\ Cardinality(Counted(r)) \in Nat
    BY <1>3, <1>4, FS_Subset, FS_CardinalityType
  <2> QED BY <1>1, <1>5, <2>1
<1>7. g \in Promise!Gate /\ t \in 0..(now - 1)
  BY <1>1, <1>2 DEF Gate, Promise!Gate
<1> QED BY <1>1, <1>2, <1>6, <1>7 DEF Promise!Next, Promise!Pass, Promise!Cardinality, Cardinality

\* Every step is one of SlidingWindow or none.
LEMMA StepMaps == RateInv /\ [Next]_vars => [Promise!Next]_(Promise!vars)
<1> SUFFICES ASSUME RateInv, [Next]_vars PROVE [Promise!Next]_(Promise!vars)
  OBVIOUS
<1>1. ASSUME NEW r \in Req, Arrive(r) PROVE Promise!Next
  BY <1>1 DEF Arrive, Promise!Next
<1>2. ASSUME NEW r \in Req, CheckRefused(r) \/ Remove(r) \/ Crash(r) PROVE UNCHANGED Promise!vars
  BY <1>2 DEF CheckRefused, Remove, Crash, Promise!vars
<1>3. ASSUME Tick PROVE Promise!Next
  BY <1>3 DEF Tick, Promise!Next
<1>4. ASSUME UNCHANGED vars PROVE UNCHANGED Promise!vars
  BY <1>4 DEF vars, Promise!vars
<1> QED BY <1>1, <1>2, <1>3, <1>4, PassMaps DEF Next, RequestStep

\* The limiter implements SlidingWindow: however steps interleave, whichever pipeline runs
\* late and whoever dies, each pass was allowed at the moment of its pipeline (check_rate_limit).
THEOREM LimiterImplements == Spec => Limiter
<1>1. Init => Promise!Init
  BY DEF Init, Promise!Init, Gate, Promise!Gate
<1> QED BY <1>1, StepMaps, RateInvariant, PTL DEF Spec, Limiter, Promise!Spec

----------------------------------------------------------------------------
(* Refused requests.                                                       *)

\* The requests that will take s out of the set of check g again.
Removers(g, s) == {r \in Req : req[r].pc = "remove" /\ req[r].gate = g /\ req[r].stamp = s}

\* While nobody dies, what is in a set has passed or is about to be taken out.
OwnedInv == ~died => \A g \in Gate : \A s \in zset[g] : s \in passed[g] \/ Removers(g, s) # {}

\* The pipeline of r adds its own stamp and takes nobody's owner away.
LEMMA QueueOwned ==
    ASSUME RateInv, OwnedInv, NEW r \in Req, req[r].pc = "check", Queue(r), UNCHANGED died,
           \A x \in Req \ {r} : req'[x] = req[x],
           \A g \in Gate : passed[g] \subseteq passed'[g],
           LET g == req[r].gate
               s == req[r].stamp
           IN  s \in passed'[g] \/ (req'[r].pc = "remove" /\ req'[r].gate = g /\ req'[r].stamp = s)
    PROVE  OwnedInv'
<1> SUFFICES ASSUME ~died, NEW g \in Gate, NEW s \in zset'[g]
             PROVE  s \in passed'[g] \/ Removers(g, s)' # {}
  BY DEF OwnedInv
<1>1. s \in zset[g] \/ (g = req[r].gate /\ s = req[r].stamp)
  BY QueueParts
<1>2. CASE s \in zset[g] /\ s \in passed[g]
  BY <1>2
<1>3. CASE s \in zset[g] /\ Removers(g, s) # {}
  <2>1. PICK x \in Req : req[x].pc = "remove" /\ req[x].gate = g /\ req[x].stamp = s
    BY <1>3 DEF Removers
  <2>2. x # r
    BY <2>1
  <2> QED BY <2>1, <2>2 DEF Removers
<1>4. CASE g = req[r].gate /\ s = req[r].stamp
  BY <1>4 DEF Removers
<1> QED BY <1>1, <1>2, <1>3, <1>4 DEF OwnedInv

\* Every step keeps OwnedInv.
LEMMA NextOwned == RateInv /\ OwnedInv /\ [Next]_vars => OwnedInv'
<1> SUFFICES ASSUME RateInv, OwnedInv, [Next]_vars PROVE OwnedInv'
  OBVIOUS
<1>1. req \in [Req -> Request] /\ passed \in [Gate -> SUBSET Nat] /\ zset \in [Gate -> SUBSET Nat]
  BY DEF RateInv, TypeOK
<1>2. ASSUME NEW r \in Req, Arrive(r) PROVE OwnedInv'
  <2>1. /\ req[r].pc = "idle" /\ UNCHANGED <<zset, passed, died>>
        /\ \A x \in Req \ {r} : req'[x] = req[x]
    BY <1>1, <1>2 DEF Arrive
  <2>2. \A g \in Gate : \A s \in zset[g] : Removers(g, s) \subseteq Removers(g, s)'
    BY <2>1 DEF Removers
  <2> QED BY <2>1, <2>2 DEF OwnedInv
<1>3. ASSUME NEW r \in Req, CheckRefused(r) PROVE OwnedInv'
  <2>1. /\ req[r].pc = "check" /\ Queue(r) /\ UNCHANGED <<passed, died>>
        /\ \A x \in Req \ {r} : req'[x] = req[x]
        /\ req'[r].pc = "remove" /\ req'[r].gate = req[r].gate /\ req'[r].stamp = req[r].stamp
    BY <1>1, <1>3 DEF CheckRefused, Request
  <2> QED BY <2>1, QueueOwned
<1>4. ASSUME NEW r \in Req, CheckPassed(r) PROVE OwnedInv'
  <2>1. /\ req[r].pc = "check" /\ Queue(r) /\ UNCHANGED died /\ req[r].gate \in Gate
        /\ passed' = [passed EXCEPT ![req[r].gate] = @ \cup {req[r].stamp}]
        /\ \A x \in Req \ {r} : req'[x] = req[x]
    BY <1>1, <1>4 DEF CheckPassed, Request
  <2>2. req[r].stamp \in passed'[req[r].gate] /\ \A g \in Gate : passed[g] \subseteq passed'[g]
    BY <1>1, <2>1
  <2> QED BY <2>1, <2>2, QueueOwned
<1>5. ASSUME NEW r \in Req, Remove(r) PROVE OwnedInv'
  <2> DEFINE t == req[r].stamp
  <2>1. /\ UNCHANGED <<passed, died>> /\ \A x \in Req \ {r} : req'[x] = req[x]
        /\ zset' = [zset EXCEPT ![req[r].gate] = Members(req[r].gate) \ {t}]
    BY <1>1, <1>5 DEF Remove, Withdraw
  <2>2. ASSUME NEW g \in Gate, NEW s \in zset'[g]
        PROVE  s \in zset[g] /\ ~(g = req[r].gate /\ s = t)
    <3> HIDE DEF t
    <3> QED BY <1>1, <2>1, <2>2 DEF Members
  <2>3. ASSUME NEW g \in Gate, NEW s \in zset'[g]
        PROVE  Removers(g, s) \subseteq Removers(g, s)'
    BY <2>1, <2>2, <2>3 DEF Removers
  <2> QED BY <2>1, <2>2, <2>3 DEF OwnedInv
<1>6. ASSUME NEW r \in Req, Crash(r) PROVE OwnedInv'
  BY <1>6 DEF Crash, OwnedInv
<1>7. CASE Tick \/ UNCHANGED vars
  BY <1>7 DEF Tick, vars, OwnedInv, Removers
<1> QED BY <1>2, <1>3, <1>4, <1>5, <1>6, <1>7 DEF Next, RequestStep

\* OwnedInv holds in every run.
LEMMA OwnedInvariant == Spec => []OwnedInv
<1>1. Init => OwnedInv
  BY DEF Init, OwnedInv
<1> QED BY <1>1, NextOwned, RateInvariant, PTL DEF Spec

\* Only its own refusal brings a request to where it takes its entry out again.
LEMMA RefusalSteps ==
    ASSUME RateInv, [Next]_vars, NEW r \in Req, req[r].pc = "check", req'[r].pc = "remove"
    PROVE  CheckRefused(r)
<1>1. req \in [Req -> Request]
  BY DEF RateInv, TypeOK
<1>2. ASSUME Tick \/ UNCHANGED vars PROVE FALSE
  BY <1>2 DEF Tick, vars
<1>3. ASSUME NEW x \in Req, NEW h, req' = [req EXCEPT ![x] = h], h.pc # "remove" PROVE FALSE
  BY <1>1, <1>3
<1>4. ASSUME NEW x \in Req, Arrive(x) \/ Remove(x) \/ Crash(x) PROVE FALSE
  BY <1>3, <1>4 DEF Arrive, Begin, Remove, Crash, Idle
<1>5. ASSUME NEW x \in Req, CheckPassed(x) PROVE FALSE
  BY <1>3, <1>5 DEF CheckPassed, Begin, Idle
<1>6. ASSUME NEW x \in Req \ {r}, CheckRefused(x) PROVE FALSE
  BY <1>1, <1>6 DEF CheckRefused
<1> QED BY <1>2, <1>4, <1>5, <1>6 DEF Next, RequestStep

\* What a check counts has passed it, when no refusal is being taken out and none was left behind.
LEMMA CountedPassed ==
    ASSUME RateInv, OwnedInv, ~died, NEW r \in Req, req[r].pc = "check", Leaving(r) = {}
    PROVE  Counted(r) \subseteq Within(passed[req[r].gate], req[r].gate, req[r].stamp)
<1>1. req[r].gate \in Gate
  BY DEF RateInv, TypeOK, Request
<1>2. \A s : Removers(req[r].gate, s) = {}
  BY DEF Removers, Leaving
<1>3. zset[req[r].gate] \subseteq passed[req[r].gate]
  BY <1>1, <1>2 DEF OwnedInv
<1> QED BY <1>3 DEF Counted, Members, Within

\* There are finitely many readings of the clock so far, and what passed is among them.
LEMMA PassedFinite == ASSUME RateInv, NEW g \in Gate PROVE IsFiniteSet(passed[g])
<1>1. passed[g] \subseteq 0..now
  BY DEF RateInv, TypeOK, RecentInv
<1>2. IsFiniteSet(0..now)
  BY FS_Interval DEF RateInv, TypeOK
<1> QED BY <1>1, <1>2, FS_Subset

\* Nobody is refused for nothing: what a check counts is what passed it, but for the
\* refusals that are being taken out again and those whose request died before that
\* (check_rate_limit).
THEOREM RefusedForCauseHolds == Spec => RefusedForCause
<1> DEFINE Caused ==
             \A r \in Req :
                LET g == req[r].gate IN
                req[r].pc = "check" /\ req'[r].pc = "remove" /\ Leaving(r) = {} /\ ~died
                  => Cardinality(Within(passed[g], g, req[r].stamp)) >= Limit[g]
<1>1. ASSUME RateInv, OwnedInv, [Next]_vars PROVE Caused
  <2> SUFFICES ASSUME NEW r \in Req, req[r].pc = "check", req'[r].pc = "remove", Leaving(r) = {}, ~died
               PROVE  Cardinality(Within(passed[req[r].gate], req[r].gate, req[r].stamp)) >= Limit[req[r].gate]
    OBVIOUS
  <2> DEFINE g == req[r].gate
             W == Within(passed[g], g, req[r].stamp)
  <2>1. CheckRefused(r)
    BY <1>1, RefusalSteps
  <2>2. Cardinality(Counted(r)) >= Limit[g] /\ g \in Gate
    BY <1>1, <2>1 DEF CheckRefused, RateInv, TypeOK, Request
  <2>3. Counted(r) \subseteq W
    BY <1>1, CountedPassed
  <2>4. IsFiniteSet(W)
    <3>1. W \subseteq passed[g]
      BY DEF Within
    <3> QED BY <1>1, <2>2, <3>1, PassedFinite, FS_Subset
  <2> HIDE DEF W, g
  <2>5. /\ Cardinality(Counted(r)) <= Cardinality(W)
        /\ Cardinality(Counted(r)) \in Nat /\ Cardinality(W) \in Nat
    BY <2>3, <2>4, FS_Subset, FS_CardinalityType
  <2>6. Limit[g] \in Nat
    BY <2>2, GateTypes
  <2> QED BY <2>2, <2>5, <2>6 DEF W, g
<1>2. RateInv /\ OwnedInv /\ [Next]_vars => [Caused]_vars
  BY <1>1
<1> HIDE DEF Caused
<1>3. Spec => [][Caused]_vars
  BY <1>2, RateInvariant, OwnedInvariant, PTL DEF Spec
<1> QED BY <1>3 DEF RefusedForCause, Caused
=============================================================================
