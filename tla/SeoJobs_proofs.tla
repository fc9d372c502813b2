--------------------------- MODULE SeoJobs_proofs ---------------------------
(***************************************************************************)
(* What the run `seo' checks of page generation, for any number of jobs,   *)
(* pages, retries and restarts.                                            *)
(***************************************************************************)
EXTENDS SeoJobs, FiniteSetTheorems, TLAPS

\* A batch walks over the tour, a single job over one page.
PlanFits(g) ==
    /\ g.kind = "batch" => g.plan = Tour
    /\ g.kind = "single" => Len(g.plan) = 1

\* Where a task of job g can stand.
TaskFits(h, g) ==
    /\ h.pc # "idle" => g.st # "unborn"
    /\ h.pc \notin {"idle", "ack"} => g.st = "running"
    /\ h.pc = "visit" => g.kind = "batch"
    /\ h.pc \in {"check", "generate", "save"} => h.at \in 1..Len(g.plan)
    /\ h.pc \in {"visit", "check", "generate"} => h.retries <= MaxRetries

\* Those of the first n pages of the plan of g that are there.
There(g, n, pg) == {m \in 1..n : pg[g.plan[m]].st # "absent"}

Booked(c) == c.created + c.skipped + c.failed
Good(c, S) == c.created + c.skipped <= Cardinality(S)

\* What a task has counted, and what the row of its job says.
CountFits(h, g, pg) ==
    /\ h.pc = "visit" => /\ h.res.total = h.at - 1 /\ Booked(h.res) = h.at - 1
                         /\ Good(h.res, There(g, h.at - 1, pg))
    /\ h.pc \in {"check", "generate", "save"} =>
         h.res.total = h.at /\ Booked(h.res) = h.at - 1 /\ Good(h.res, There(g, h.at - 1, pg))
RowFits(g, pg) ==
    /\ Good(g.res, There(g, Len(g.plan), pg))
    /\ g.st = "done" => g.res.total = Len(g.plan) /\ g.res.total = Booked(g.res)

\* What a task that has loaded its page knows of it.
SeenFits(h, g, pg) ==
    h.pc \in {"generate", "save"} =>
        LET row == pg[g.plan[h.at]] IN
        /\ h.seen # "absent" => row.st # "absent"
        /\ ~g.force => h.seen = "absent"
        /\ row.st = "published" /\ h.seen # "published" => row.raced = TRUE

Sound(g, h, pg) == PlanFits(g) /\ TaskFits(h, g) /\ CountFits(h, g, pg) /\ RowFits(g, pg) /\ SeenFits(h, g, pg)

\* The inductive invariant.
JobsInv ==
    /\ TypeOK
    /\ \A j \in Job : Sound(jobs[j], task[j], pages) /\ (j \in queue \cup handler => jobs[j].st # "unborn")
    /\ PublishedReviewed

----------------------------------------------------------------------------
(* The operators.                                                          *)

\* A plan is a sequence of pages.
LEMMA PlanTypes ==
    ASSUME NEW plan \in Plans
    PROVE  Len(plan) \in Nat /\ \A n \in 1..Len(plan) : plan[n] \in Page
<1>1. CASE plan = Tour
  <2>1. plan \in Seq(Page)
    BY <1>1, SeoAssumption DEF SeoAssumption
  <2> QED
    BY <2>1
<1>2. CASE \E p \in Page : plan = <<p>>
  BY <1>2
<1> QED
  BY <1>1, <1>2 DEF Plans

\* What is there is a finite set.
LEMMA ThereFinite ==
    ASSUME NEW g, NEW pg, NEW n \in Nat
    PROVE  IsFiniteSet(There(g, n, pg)) /\ Cardinality(There(g, n, pg)) \in Nat
<1>1. There(g, n, pg) \subseteq 1..n /\ IsFiniteSet(1..n)
  BY FS_Interval DEF There
<1> QED
  BY <1>1, FS_Subset, FS_CardinalityType

\* Of more pages, or of more that are there, more are there.
LEMMA ThereGrows ==
    ASSUME NEW g, NEW pg, NEW pg2, NEW m \in Nat, NEW n \in Nat, m <= n,
           \A i \in 1..m : pg[g.plan[i]].st # "absent" => pg2[g.plan[i]].st # "absent"
    PROVE  Cardinality(There(g, m, pg)) <= Cardinality(There(g, n, pg2))
<1>1. There(g, m, pg) \subseteq There(g, n, pg2)
  BY DEF There
<1> QED
  BY <1>1, ThereFinite, FS_Subset

\* One more page, which is there.
LEMMA ThereNext ==
    ASSUME NEW g, NEW pg, NEW n \in Nat, pg[g.plan[n + 1]].st # "absent"
    PROVE  Cardinality(There(g, n + 1, pg)) = Cardinality(There(g, n, pg)) + 1
<1>1. There(g, n + 1, pg) = There(g, n, pg) \cup {n + 1} /\ n + 1 \notin There(g, n, pg)
  BY DEF There
<1> QED
  BY <1>1, ThereFinite, FS_AddElement

----------------------------------------------------------------------------
(* Steps that leave the pages alone.                                       *)

\* Nothing is booked, and no page is there.
LEMMA InitJobs == Init => JobsInv
<1> SUFFICES ASSUME Init PROVE JobsInv
  OBVIOUS
<1> DEFINE g == [st |-> "unborn", kind |-> "batch", plan |-> Tour, force |-> FALSE, res |-> Zero]
<1>1. g \in GenerationJob /\ Rest \in Task /\ NoPage \in SeoPage
  <2>1. Len(Tour) \in Nat /\ MaxRetries \in Nat
    BY PlanTypes, SeoAssumption DEF SeoAssumption, Plans
  <2>2. Zero \in Counts
    BY DEF Zero, Counts
  <2>3. g \in GenerationJob
    BY <2>2 DEF GenerationJob, Plans
  <2>4. Rest \in Task
    BY <2>1, <2>2 DEF Rest, Task, PageStatus
  <2> QED
    BY <2>3, <2>4 DEF NoPage, SeoPage, PageStatus
<1>2. TypeOK
  <2>1. \A j \in Job : MaxTries[j] \in Nat
    BY SeoAssumption DEF SeoAssumption
  <2>2. tries \in [Job -> Nat] /\ \A j \in Job : tries[j] <= MaxTries[j]
    BY <2>1 DEF Init
  <2>3. jobs \in [Job -> GenerationJob] /\ task \in [Job -> Task] /\ pages \in [Page -> SeoPage]
    BY <1>1 DEF Init
  <2>4. \A j \in Job : task[j].pc = "idle"
    BY DEF Init, Rest
  <2> QED
    BY <2>2, <2>3, <2>4 DEF Init, TypeOK
<1>3. ASSUME NEW j \in Job PROVE Sound(jobs[j], task[j], pages)
  <2>1. jobs[j] = g /\ task[j] = Rest
    BY DEF Init
  <2>2. PlanFits(g) /\ TaskFits(Rest, g) /\ CountFits(Rest, g, pages) /\ SeenFits(Rest, g, pages)
    BY DEF PlanFits, TaskFits, CountFits, SeenFits, Rest
  <2>3. RowFits(g, pages)
    <3>1. Len(g.plan) \in Nat
      BY PlanTypes DEF Plans
    <3>2. Cardinality(There(g, Len(g.plan), pages)) \in Nat
      BY <3>1, ThereFinite
    <3> QED
      BY <3>2 DEF RowFits, Good, Zero
  <2> QED
    BY <2>1, <2>2, <2>3 DEF Sound
<1>4. PublishedReviewed
  BY DEF Init, PublishedReviewed, NoPage
<1> QED
  BY <1>2, <1>3, <1>4 DEF JobsInv, Init

\* A step of job j changes its row and its task, and perhaps pages.
LEMMA JobWrites ==
    ASSUME JobsInv, NEW j \in Job, NEW g \in GenerationJob, NEW h \in Task,
           jobs' = [jobs EXCEPT ![j] = g], task' = [task EXCEPT ![j] = h],
           pages' \in [Page -> SeoPage], edit' \in Edit \cup {NoEdit},
           Sound(g, h, pages'), \A k \in Job \ {j} : Sound(jobs[k], task[k], pages'), PublishedReviewed',
           queue' \subseteq Job, handler' \subseteq Job, queue' \cup handler' \subseteq queue \cup handler \cup {j},
           queue \ queue' \subseteq {j}, h.pc # "idle" => j \in queue',
           j \in queue' \cup handler' => g.st # "unborn",
           tries' \in [Job -> Nat], \A k \in Job : tries'[k] <= MaxTries[k]
    PROVE  JobsInv'
<1>1. \A k \in Job : k # j => jobs'[k] = jobs[k] /\ task'[k] = task[k]
  BY DEF JobsInv, TypeOK
<1>2. jobs'[j] = g /\ task'[j] = h
  BY DEF JobsInv, TypeOK
<1>3. TypeOK'
  <2>1. jobs' \in [Job -> GenerationJob] /\ task' \in [Job -> Task]
    BY DEF JobsInv, TypeOK
  <2>2. \A k \in Job : task'[k].pc # "idle" => k \in queue'
    BY <1>1, <1>2 DEF JobsInv, TypeOK
  <2> QED
    BY <2>1, <2>2 DEF JobsInv, TypeOK
<1>4. ASSUME NEW k \in Job
      PROVE  Sound(jobs'[k], task'[k], pages') /\ (k \in queue' \cup handler' => jobs'[k].st # "unborn")
  BY <1>1, <1>2 DEF JobsInv
<1> QED
  BY <1>3, <1>4 DEF JobsInv

\* A step of job j that changes no page.
LEMMA JobMoves ==
    ASSUME JobsInv, NEW j \in Job, NEW g \in GenerationJob, NEW h \in Task,
           jobs' = [jobs EXCEPT ![j] = g], task' = [task EXCEPT ![j] = h], UNCHANGED <<pages, edit>>,
           Sound(g, h, pages),
           queue' \subseteq Job, handler' \subseteq Job, queue' \cup handler' \subseteq queue \cup handler \cup {j},
           queue \ queue' \subseteq {j}, h.pc # "idle" => j \in queue',
           j \in queue' \cup handler' => g.st # "unborn",
           tries' \in [Job -> Nat], \A k \in Job : tries'[k] <= MaxTries[k]
    PROVE  JobsInv'
<1>1. pages' \in [Page -> SeoPage] /\ edit' \in Edit \cup {NoEdit} /\ PublishedReviewed'
  BY DEF JobsInv, TypeOK, PublishedReviewed
<1>2. \A k \in Job : Sound(jobs[k], task[k], pages')
  BY DEF JobsInv
<1> QED
  BY <1>1, <1>2, JobWrites

\* A task at rest, or one that has returned, claims nothing.
LEMMA AtRest ==
    ASSUME NEW pc \in {"idle", "ack"}, NEW g, g.st # "unborn" \/ pc = "idle"
    PROVE  LET h == [Rest EXCEPT !.pc = pc] IN
           h \in Task /\ h.pc = pc /\ TaskFits(h, g) /\ CountFits(h, g, pages) /\ SeenFits(h, g, pages)
<1> DEFINE h == [Rest EXCEPT !.pc = pc]
<1>1. h \in Task
  <2>1. Len(Tour) \in Nat /\ MaxRetries \in Nat
    BY PlanTypes, SeoAssumption DEF SeoAssumption, Plans
  <2> QED
    BY <2>1 DEF Rest, Zero, Counts, Task, PageStatus
<1>2. h.pc = pc
  BY DEF Rest
<1> HIDE DEF h
<1>3. TaskFits(h, g) /\ CountFits(h, g, pages) /\ SeenFits(h, g, pages)
  BY <1>2 DEF TaskFits, CountFits, SeenFits
<1> QED
  BY <1>1, <1>2, <1>3 DEF h

\* A new job claims nothing.
LEMMA TriggerJobs ==
    ASSUME JobsInv, NEW j \in Job, NEW kind \in {"single", "batch"}, NEW plan \in Plans, NEW force \in BOOLEAN,
           Trigger(j, kind, plan, force)
    PROVE  JobsInv'
<1> DEFINE g == [st |-> "pending", kind |-> kind, plan |-> plan, force |-> force, res |-> Zero]
<1>1. g \in GenerationJob
  BY DEF GenerationJob, Zero, Counts
<1>2. /\ jobs' = [jobs EXCEPT ![j] = g] /\ handler' = handler \cup {j}
      /\ UNCHANGED <<queue, tries, task, pages, edit>> /\ jobs[j].st = "unborn"
  BY DEF Trigger
<1>3. PlanFits(g)
  BY DEF Trigger, PlanFits
<1>4. RowFits(g, pages)
  <2>1. Cardinality(There(g, Len(plan), pages)) \in Nat
    BY PlanTypes, ThereFinite
  <2> QED
    BY <2>1 DEF RowFits, Good, Zero
<1>5. g.st # "unborn"
  OBVIOUS
<1> HIDE DEF g
<1>6. task[j].pc = "idle" /\ task[j] \in Task /\ task' = [task EXCEPT ![j] = task[j]]
  BY <1>2 DEF JobsInv, Sound, TaskFits, TypeOK
<1>7. Sound(g, task[j], pages)
  BY <1>3, <1>4, <1>6 DEF Sound, TaskFits, CountFits, SeenFits
<1> QED
  BY <1>1, <1>2, <1>5, <1>6, <1>7, JobMoves DEF JobsInv, TypeOK

\* The queue gets the job or does not.
LEMMA EnqueueJobs ==
    ASSUME JobsInv, NEW j \in Job, Enqueue(j) \/ EnqueueFails(j)
    PROVE  JobsInv'
<1>1. UNCHANGED <<jobs, tries, task, pages, edit>>
  BY DEF Enqueue, EnqueueFails
<1>2. queue \subseteq queue' /\ queue' \subseteq Job /\ handler' \subseteq Job /\ queue' \cup handler' \subseteq queue \cup handler
  BY DEF Enqueue, EnqueueFails, JobsInv, TypeOK
<1> QED
  BY <1>1, <1>2 DEF JobsInv, TypeOK, PublishedReviewed

\* ARQ forgets a job, or starts it again.
LEMMA RestJobs ==
    ASSUME JobsInv, NEW j \in Job, Dropped(j) \/ Crash(j)
    PROVE  JobsInv'
<1>1. /\ UNCHANGED <<jobs, handler, tries, pages, edit>> /\ task' = [task EXCEPT ![j] = Rest]
      /\ queue' \in {queue, queue \ {j}}
  BY DEF Dropped, Crash
<1>2. Rest = [Rest EXCEPT !.pc = "idle"]
  BY DEF Rest
<1>3. /\ Rest \in Task /\ Rest.pc = "idle"
      /\ TaskFits(Rest, jobs[j]) /\ CountFits(Rest, jobs[j], pages) /\ SeenFits(Rest, jobs[j], pages)
  BY <1>2, AtRest
<1>4. Sound(jobs[j], Rest, pages) /\ jobs[j] \in GenerationJob /\ jobs' = [jobs EXCEPT ![j] = jobs[j]]
  BY <1>1, <1>3 DEF JobsInv, Sound, TypeOK
<1> QED
  BY <1>1, <1>3, <1>4, JobMoves DEF JobsInv, TypeOK

\* What counting one more page does to a job's counts.
LEMMA OneMore ==
    ASSUME NEW c \in Counts
    PROVE  /\ LET d == [c EXCEPT !.total = @ + 1] IN
              /\ d \in Counts /\ d.total = c.total + 1 /\ Booked(d) = Booked(c)
              /\ d.created + d.skipped = c.created + c.skipped
           /\ LET d == [c EXCEPT !.created = @ + 1] IN
              /\ d \in Counts /\ d.total = c.total /\ Booked(d) = Booked(c) + 1
              /\ d.created + d.skipped = c.created + c.skipped + 1
           /\ LET d == [c EXCEPT !.skipped = @ + 1] IN
              /\ d \in Counts /\ d.total = c.total /\ Booked(d) = Booked(c) + 1
              /\ d.created + d.skipped = c.created + c.skipped + 1
<1>1. c \in [total : Nat, created : Nat, skipped : Nat, failed : Nat]
  BY DEF Counts
<1>2. ASSUME NEW d \in Counts, d.created + d.skipped = c.created + c.skipped, d.failed = c.failed
      PROVE  Booked(d) = Booked(c)
  BY <1>2 DEF Booked
<1>3. ASSUME NEW d \in Counts, d.created + d.skipped = c.created + c.skipped + 1, d.failed = c.failed
      PROVE  Booked(d) = Booked(c) + 1
  BY <1>1, <1>3 DEF Booked, Counts
<1>4. LET d == [c EXCEPT !.total = @ + 1] IN
      /\ d \in Counts /\ d.total = c.total + 1 /\ d.failed = c.failed
      /\ d.created = c.created /\ d.skipped = c.skipped
  BY <1>1 DEF Counts
<1>5. LET d == [c EXCEPT !.created = @ + 1] IN
      /\ d \in Counts /\ d.total = c.total /\ d.failed = c.failed
      /\ d.created = c.created + 1 /\ d.skipped = c.skipped
  BY <1>1 DEF Counts
<1>6. LET d == [c EXCEPT !.skipped = @ + 1] IN
      /\ d \in Counts /\ d.total = c.total /\ d.failed = c.failed
      /\ d.created = c.created /\ d.skipped = c.skipped + 1
  BY <1>1 DEF Counts
<1>7. c.created \in Nat /\ c.skipped \in Nat
  BY <1>1
<1>8. LET d == [c EXCEPT !.total = @ + 1] IN
      /\ d \in Counts /\ d.total = c.total + 1 /\ Booked(d) = Booked(c)
      /\ d.created + d.skipped = c.created + c.skipped
  <2> DEFINE d == [c EXCEPT !.total = @ + 1]
  <2>1. d \in Counts /\ d.total = c.total + 1 /\ d.failed = c.failed /\ d.created = c.created /\ d.skipped = c.skipped
    BY <1>4
  <2> HIDE DEF d
  <2>2. d.created + d.skipped = c.created + c.skipped
    BY <2>1
  <2>3. d \in Counts /\ d.total = c.total + 1 /\ Booked(d) = Booked(c) /\ d.created + d.skipped = c.created + c.skipped
    BY <1>2, <2>1, <2>2
  <2> QED BY <2>3 DEF d
<1>9. LET d == [c EXCEPT !.created = @ + 1] IN
      /\ d \in Counts /\ d.total = c.total /\ Booked(d) = Booked(c) + 1
      /\ d.created + d.skipped = c.created + c.skipped + 1
  <2> DEFINE d == [c EXCEPT !.created = @ + 1]
  <2>1. d \in Counts /\ d.total = c.total /\ d.failed = c.failed /\ d.created = c.created + 1 /\ d.skipped = c.skipped
    BY <1>5
  <2> HIDE DEF d
  <2>2. d.created + d.skipped = c.created + c.skipped + 1
    BY <1>7, <2>1
  <2>3. d \in Counts /\ d.total = c.total /\ Booked(d) = Booked(c) + 1 /\ d.created + d.skipped = c.created + c.skipped + 1
    BY <1>3, <2>1, <2>2
  <2> QED BY <2>3 DEF d
<1>10. LET d == [c EXCEPT !.skipped = @ + 1] IN
      /\ d \in Counts /\ d.total = c.total /\ Booked(d) = Booked(c) + 1
      /\ d.created + d.skipped = c.created + c.skipped + 1
  <2> DEFINE d == [c EXCEPT !.skipped = @ + 1]
  <2>1. d \in Counts /\ d.total = c.total /\ d.failed = c.failed /\ d.created = c.created /\ d.skipped = c.skipped + 1
    BY <1>6
  <2> HIDE DEF d
  <2>2. d.created + d.skipped = c.created + c.skipped + 1
    BY <1>7, <2>1
  <2>3. d \in Counts /\ d.total = c.total /\ Booked(d) = Booked(c) + 1 /\ d.created + d.skipped = c.created + c.skipped + 1
    BY <1>3, <2>1, <2>2
  <2> QED BY <2>3 DEF d
<1> QED BY <1>8, <1>9, <1>10

\* What a working task is, in parts.
LEMMA TaskParts ==
    ASSUME JobsInv, NEW j \in Job
    PROVE  /\ jobs[j] \in GenerationJob /\ task[j] \in Task /\ jobs[j].plan \in Plans
           /\ Len(jobs[j].plan) \in Nat /\ jobs[j].res \in Counts /\ task[j].res \in Counts /\ task[j].at \in Nat \ {0}
           /\ Sound(jobs[j], task[j], pages)
           /\ task[j].pc # "idle" => j \in queue /\ jobs[j].st # "unborn"
<1>1. jobs[j] \in GenerationJob /\ task[j] \in Task /\ jobs[j].plan \in Plans /\ jobs[j].res \in Counts /\ task[j].res \in Counts
  BY DEF JobsInv, TypeOK, GenerationJob, Task
<1>2. Len(jobs[j].plan) \in Nat
  BY <1>1, PlanTypes
<1>3. task[j].at \in 1..(Len(Tour) + 1) /\ Len(Tour) \in Nat
  BY <1>1, PlanTypes DEF Task, Plans
<1> QED
  BY <1>1, <1>2, <1>3 DEF JobsInv, TypeOK, Sound, TaskFits

\* While pages only appear, what a row says stays true.
LEMMA RowKept ==
    ASSUME JobsInv, NEW j \in Job, NEW pg, \A p \in Page : pages[p].st # "absent" => pg[p].st # "absent"
    PROVE  RowFits(jobs[j], pg)
<1> DEFINE g == jobs[j]
<1>1. g.plan \in Plans /\ Len(g.plan) \in Nat /\ g.res \in Counts /\ RowFits(g, pages)
  BY TaskParts DEF Sound
<1>2. \A i \in 1..Len(g.plan) : g.plan[i] \in Page
  BY <1>1, PlanTypes
<1> HIDE DEF g
<1>3. Cardinality(There(g, Len(g.plan), pages)) <= Cardinality(There(g, Len(g.plan), pg))
  <2>1. \A i \in 1..Len(g.plan) : pages[g.plan[i]].st # "absent" => pg[g.plan[i]].st # "absent"
    BY <1>2
  <2>2. \A n \in Nat : n <= n
    OBVIOUS
  <2> QED
    BY <1>1, <2>1, <2>2, ThereGrows
<1>4. Cardinality(There(g, Len(g.plan), pages)) \in Nat /\ Cardinality(There(g, Len(g.plan), pg)) \in Nat
  BY <1>1, ThereFinite
<1>5. Good(g.res, There(g, Len(g.plan), pg))
  BY <1>1, <1>3, <1>4 DEF RowFits, Good, Counts
<1> QED
  BY <1>1, <1>5 DEF RowFits, g

\* A page that is dealt with is booked once, in a row that is done or in the task.
LEMMA Books ==
    ASSUME JobsInv, NEW j \in Job, task[j].pc \in {"check", "generate", "save"}, NEW res \in Counts, Book(j, res),
           NEW pg, \A p \in Page : pages[p].st # "absent" => pg[p].st # "absent",
           res.total = task[j].at, Booked(res) = task[j].at, Good(res, There(jobs[j], task[j].at, pg))
    PROVE  \E g \in GenerationJob, h \in Task :
             /\ jobs' = [jobs EXCEPT ![j] = g] /\ task' = [task EXCEPT ![j] = h]
             /\ Sound(g, h, pg) /\ g.st # "unborn"
<1>1. /\ jobs[j] \in GenerationJob /\ task[j] \in Task /\ jobs[j].plan \in Plans /\ Len(jobs[j].plan) \in Nat
      /\ Sound(jobs[j], task[j], pages) /\ jobs[j].st = "running" /\ task[j].at \in 1..Len(jobs[j].plan)
  BY TaskParts DEF Sound, TaskFits
<1>2. CASE jobs[j].kind = "single"
  <2> DEFINE g == [jobs[j] EXCEPT !.st = "done", !.res = res]
             h == [Rest EXCEPT !.pc = "ack"]
  <2>1. jobs' = [jobs EXCEPT ![j] = g] /\ task' = [task EXCEPT ![j] = h]
    BY <1>2 DEF Book, JobsInv, TypeOK, GenerationJob
  <2>2. g \in GenerationJob /\ g.st = "done" /\ g.res = res /\ g.plan = jobs[j].plan /\ g.kind = jobs[j].kind
    BY <1>1 DEF GenerationJob
  <2>3. h \in Task /\ TaskFits(h, g) /\ CountFits(h, g, pg) /\ SeenFits(h, g, pg)
    <3>1. h \in Task /\ h.pc = "ack"
      BY <2>2, AtRest
    <3> HIDE DEF h, g
    <3> QED
      BY <2>2, <3>1 DEF TaskFits, CountFits, SeenFits
  <2>4. Len(g.plan) = 1 /\ task[j].at = 1
    <3> HIDE DEF g, h
    <3>1. Len(jobs[j].plan) = 1
      BY <1>1, <1>2 DEF Sound, PlanFits
    <3>2. task[j].at \in 1..1
      BY <1>1, <3>1
    <3> QED
      BY <2>2, <3>1, <3>2
  <2>5. There(g, 1, pg) = There(jobs[j], 1, pg)
    BY <2>2 DEF There
  <2>6. RowFits(g, pg) /\ PlanFits(g)
    BY <1>1, <2>2, <2>4, <2>5 DEF RowFits, PlanFits, Sound
  <2> HIDE DEF g, h
  <2> QED
    BY <2>1, <2>2, <2>3, <2>6 DEF Sound
<1>3. CASE jobs[j].kind = "batch"
  <2> DEFINE h == [Rest EXCEPT !.pc = "visit", !.at = task[j].at + 1, !.res = res]
  <2>1. jobs' = [jobs EXCEPT ![j] = jobs[j]] /\ task' = [task EXCEPT ![j] = h]
    BY <1>3 DEF Book, JobsInv, TypeOK
  <2>2. h.pc = "visit" /\ h.at = task[j].at + 1 /\ h.res = res /\ h.retries <= MaxRetries
    <3>1. h.pc = "visit" /\ h.at = task[j].at + 1 /\ h.res = res /\ h.retries = 0
      BY DEF Rest
    <3> HIDE DEF h
    <3>2. MaxRetries \in Nat
      BY SeoAssumption DEF SeoAssumption
    <3> QED
      BY <3>1, <3>2
  <2>3. h \in Task
    <3>1. task[j].at \in 1..Len(Tour) /\ Len(Tour) \in Nat
      BY <1>1, <1>3 DEF Sound, PlanFits
    <3>2. MaxRetries \in Nat
      BY SeoAssumption DEF SeoAssumption
    <3>3. task[j].at + 1 \in 1..(Len(Tour) + 1) /\ 0 \in 0..(MaxRetries + 1)
      BY <3>1, <3>2
    <3> QED
      BY <3>3 DEF Rest, Task, PageStatus
  <2> HIDE DEF h
  <2>4. h.at - 1 = task[j].at
    BY <1>1, <2>2
  <2>5. TaskFits(h, jobs[j]) /\ CountFits(h, jobs[j], pg) /\ SeenFits(h, jobs[j], pg)
    BY <1>1, <1>3, <2>2, <2>4 DEF TaskFits, CountFits, SeenFits
  <2>6. RowFits(jobs[j], pg) /\ PlanFits(jobs[j])
    BY <1>1, RowKept DEF Sound
  <2> QED
    BY <1>1, <2>1, <2>3, <2>5, <2>6 DEF Sound
<1> QED
  BY <1>1, <1>2, <1>3 DEF GenerationJob

\* A worker takes a job: it counts from zero again.
LEMMA StartJobs == ASSUME JobsInv, NEW j \in Job, Start(j) PROVE JobsInv'
<1> DEFINE g == [jobs[j] EXCEPT !.st = "running"]
           h == IF jobs[j].kind = "single" THEN [Rest EXCEPT !.pc = "check", !.res.total = 1]
                ELSE [Rest EXCEPT !.pc = "visit"]
<1>1. /\ jobs[j] \in GenerationJob /\ jobs[j].plan \in Plans /\ Len(jobs[j].plan) \in Nat
      /\ Sound(jobs[j], task[j], pages)
  BY TaskParts
<1>2. /\ j \in queue /\ jobs' = [jobs EXCEPT ![j] = g] /\ task' = [task EXCEPT ![j] = h]
      /\ UNCHANGED <<handler, queue, pages, edit>> /\ jobs[j].st # "unborn"
  BY DEF Start, JobsInv, TypeOK
<1>3. tries' \in [Job -> Nat] /\ \A k \in Job : tries'[k] <= MaxTries[k]
  <2>1. MaxTries[j] \in Nat
    BY SeoAssumption DEF SeoAssumption
  <2> QED
    BY <2>1 DEF Start, JobsInv, TypeOK
<1>4. g \in GenerationJob /\ g.st = "running" /\ g.plan = jobs[j].plan /\ g.kind = jobs[j].kind /\ g.res = jobs[j].res
  BY <1>1 DEF GenerationJob
<1>5. Len(Tour) \in Nat /\ MaxRetries \in Nat /\ g.kind \in {"single", "batch"}
  BY <1>1, <1>4, PlanTypes, SeoAssumption DEF SeoAssumption, Plans, GenerationJob
<1>6. /\ h \in Task /\ h.at = 1 /\ h.retries = 0 /\ Booked(h.res) = 0 /\ h.res.created + h.res.skipped = 0
      /\ \/ g.kind = "single" /\ h.pc = "check" /\ h.res.total = 1
         \/ g.kind = "batch" /\ h.pc = "visit" /\ h.res.total = 0
  <2> DEFINE one == [Zero EXCEPT !.total = 1]
             a == [Rest EXCEPT !.pc = "check", !.res = one]
             b == [Rest EXCEPT !.pc = "visit"]
  <2>1. one \in Counts /\ Zero \in Counts /\ 1 \in 1..(Len(Tour) + 1) /\ 0 \in 0..(MaxRetries + 1)
    BY <1>5 DEF Zero, Counts
  <2>2. /\ one.total = 1 /\ Booked(one) = 0 /\ one.created + one.skipped = 0
        /\ Zero.total = 0 /\ Booked(Zero) = 0 /\ Zero.created + Zero.skipped = 0
    BY DEF Zero, Booked
  <2>3. h = IF g.kind = "single" THEN a ELSE b
    BY <1>4 DEF Rest
  <2> HIDE DEF one, h, g
  <2>4. a \in Task /\ a.at = 1 /\ a.retries = 0 /\ a.pc = "check" /\ a.res = one
    BY <2>1 DEF Rest, Task, PageStatus
  <2>5. b \in Task /\ b.at = 1 /\ b.retries = 0 /\ b.pc = "visit" /\ b.res = Zero
    BY <2>1 DEF Rest, Task, PageStatus
  <2> HIDE DEF a, b
  <2> QED
    BY <1>5, <2>2, <2>3, <2>4, <2>5
<1> HIDE DEF g, h
<1>7. PlanFits(g) /\ RowFits(g, pages)
  <2>1. There(g, Len(g.plan), pages) = There(jobs[j], Len(jobs[j].plan), pages)
    BY <1>4 DEF There
  <2> QED
    BY <1>1, <1>4, <2>1 DEF Sound, PlanFits, RowFits
<1>8. TaskFits(h, g) /\ SeenFits(h, g, pages)
  <2>1. g.kind = "single" => 1 \in 1..Len(g.plan)
    BY <1>7 DEF PlanFits
  <2> QED
    BY <1>4, <1>5, <1>6, <2>1 DEF TaskFits, SeenFits
<1>9. CountFits(h, g, pages)
  <2>1. Cardinality(There(g, 0, pages)) \in Nat /\ h.at - 1 = 0
    BY <1>6, ThereFinite
  <2> QED
    BY <1>6, <2>1 DEF CountFits, Good
<1> QED
  BY <1>2, <1>3, <1>4, <1>6, <1>7, <1>8, <1>9, JobMoves DEF Sound, JobsInv, TypeOK

\* A batch counts the page it comes to, and commits what it has counted.
LEMMA VisitJobs == ASSUME JobsInv, NEW j \in Job, Visit(j) PROVE JobsInv'
<1> DEFINE res == [task[j].res EXCEPT !.total = @ + 1]
           g == [jobs[j] EXCEPT !.res = res]
           h == [task[j] EXCEPT !.pc = "check", !.res = res]
<1>1. /\ jobs[j] \in GenerationJob /\ jobs[j].plan \in Plans /\ Len(jobs[j].plan) \in Nat /\ task[j] \in Task
      /\ Sound(jobs[j], task[j], pages) /\ task[j].res \in Counts /\ task[j].at \in Nat \ {0}
      /\ task[j].pc # "idle" => j \in queue /\ jobs[j].st # "unborn"
  BY TaskParts
<1>2. /\ task[j].pc = "visit" /\ task[j].at <= Len(jobs[j].plan)
      /\ jobs' = [jobs EXCEPT ![j] = g] /\ task' = [task EXCEPT ![j] = h]
      /\ UNCHANGED <<handler, queue, tries, pages, edit>>
  BY DEF Visit, JobsInv, TypeOK
<1>3. res \in Counts /\ res.total = task[j].res.total + 1 /\ Booked(res) = Booked(task[j].res)
      /\ res.created + res.skipped = task[j].res.created + task[j].res.skipped
  BY <1>1, OneMore
<1> HIDE DEF res
<1>4. /\ g \in GenerationJob /\ g.st = jobs[j].st /\ g.plan = jobs[j].plan /\ g.kind = jobs[j].kind /\ g.res = res
      /\ h \in Task /\ h.pc = "check" /\ h.at = task[j].at /\ h.res = res /\ h.retries = task[j].retries
  BY <1>1, <1>3 DEF GenerationJob, Task
<1> HIDE DEF g, h
<1>5. \A n : There(g, n, pages) = There(jobs[j], n, pages)
  BY <1>4 DEF There
<1>6. /\ task[j].res.total = task[j].at - 1 /\ Booked(task[j].res) = task[j].at - 1
      /\ Good(task[j].res, There(jobs[j], task[j].at - 1, pages))
  BY <1>1, <1>2 DEF Sound, CountFits
<1>7. CountFits(h, g, pages)
  BY <1>1, <1>3, <1>4, <1>5, <1>6 DEF CountFits, Good
<1>8. PlanFits(g) /\ TaskFits(h, g) /\ SeenFits(h, g, pages)
  BY <1>1, <1>2, <1>4 DEF Sound, PlanFits, TaskFits, SeenFits
<1>9. RowFits(g, pages)
  <2>1. Cardinality(There(jobs[j], task[j].at - 1, pages)) <= Cardinality(There(jobs[j], Len(jobs[j].plan), pages))
    <3>1. task[j].at - 1 \in Nat /\ task[j].at - 1 <= Len(jobs[j].plan)
      BY <1>1, <1>2
    <3> QED
      BY <1>1, <3>1, ThereGrows
  <2>2. Cardinality(There(jobs[j], task[j].at - 1, pages)) \in Nat /\ Cardinality(There(jobs[j], Len(jobs[j].plan), pages)) \in Nat
    BY <1>1, ThereFinite
  <2>3. Good(g.res, There(g, Len(g.plan), pages))
    BY <1>1, <1>3, <1>4, <1>5, <1>6, <2>1, <2>2 DEF Good, Counts
  <2>4. g.st # "done"
    BY <1>1, <1>2, <1>4 DEF Sound, TaskFits
  <2> QED
    BY <2>3, <2>4 DEF RowFits
<1> QED
  BY <1>1, <1>2, <1>4, <1>7, <1>8, <1>9, JobMoves DEF Sound, JobsInv, TypeOK

\* A batch that has booked every page is done.
LEMMA FinishJobs == ASSUME JobsInv, NEW j \in Job, Finish(j) PROVE JobsInv'
<1> DEFINE g == [jobs[j] EXCEPT !.st = "done", !.res = task[j].res]
           h == [Rest EXCEPT !.pc = "ack"]
<1>1. /\ jobs[j] \in GenerationJob /\ jobs[j].plan \in Plans /\ Len(jobs[j].plan) \in Nat /\ task[j] \in Task
      /\ Sound(jobs[j], task[j], pages) /\ task[j].res \in Counts
      /\ task[j].pc # "idle" => j \in queue /\ jobs[j].st # "unborn"
  BY TaskParts
<1>2. /\ task[j].pc = "visit" /\ task[j].at > Len(jobs[j].plan)
      /\ jobs' = [jobs EXCEPT ![j] = g] /\ task' = [task EXCEPT ![j] = h]
      /\ UNCHANGED <<handler, queue, tries, pages, edit>>
  BY DEF Finish, JobsInv, TypeOK
<1>3. g \in GenerationJob /\ g.st = "done" /\ g.plan = jobs[j].plan /\ g.kind = jobs[j].kind /\ g.res = task[j].res
  BY <1>1 DEF GenerationJob
<1>4. h \in Task /\ h.pc = "ack" /\ TaskFits(h, g) /\ CountFits(h, g, pages) /\ SeenFits(h, g, pages)
  BY <1>3, AtRest
<1> HIDE DEF g, h
<1>5. task[j].at - 1 = Len(jobs[j].plan)
  <2>1. jobs[j].plan = Tour /\ task[j].at \in 1..(Len(Tour) + 1)
    BY <1>1, <1>2 DEF Sound, TaskFits, PlanFits, Task
  <2> QED
    BY <1>1, <1>2, <2>1
<1>6. There(g, Len(g.plan), pages) = There(jobs[j], Len(jobs[j].plan), pages)
  BY <1>3 DEF There
<1>7. RowFits(g, pages) /\ PlanFits(g)
  BY <1>1, <1>2, <1>3, <1>5, <1>6 DEF Sound, CountFits, RowFits, PlanFits
<1> QED
  BY <1>1, <1>2, <1>3, <1>4, <1>7, JobMoves DEF Sound, JobsInv, TypeOK

\* A page that is dealt with while no page changes.
LEMMA BookJobs ==
    ASSUME JobsInv, NEW j \in Job, task[j].pc \in {"check", "generate"}, NEW res \in Counts, Book(j, res),
           UNCHANGED <<handler, queue, tries, pages, edit>>,
           res.total = task[j].at, Booked(res) = task[j].at, Good(res, There(jobs[j], task[j].at, pages))
    PROVE  JobsInv'
<1>1. PICK g \in GenerationJob, h \in Task :
        /\ jobs' = [jobs EXCEPT ![j] = g] /\ task' = [task EXCEPT ![j] = h]
        /\ Sound(g, h, pages) /\ g.st # "unborn"
  BY Books
<1>2. j \in queue
  BY TaskParts
<1> QED
  BY <1>1, <1>2, JobMoves DEF JobsInv, TypeOK

\* An existing page is skipped.
LEMMA SkipJobs == ASSUME JobsInv, NEW j \in Job, Skip(j) PROVE JobsInv'
<1> DEFINE res == [task[j].res EXCEPT !.skipped = @ + 1]
<1>1. task[j].res \in Counts /\ task[j].at \in Nat \ {0} /\ Sound(jobs[j], task[j], pages)
  BY TaskParts
<1>2. /\ task[j].pc = "check" /\ pages[jobs[j].plan[task[j].at]].st # "absent" /\ Book(j, res)
      /\ UNCHANGED <<handler, queue, tries, pages, edit>>
  BY DEF Skip, Exists, Current
<1>3. res \in Counts /\ res.total = task[j].res.total /\ Booked(res) = Booked(task[j].res) + 1
      /\ res.created + res.skipped = task[j].res.created + task[j].res.skipped + 1
  BY <1>1, OneMore
<1> HIDE DEF res
<1>4. /\ task[j].res.total = task[j].at /\ Booked(task[j].res) = task[j].at - 1
      /\ Good(task[j].res, There(jobs[j], task[j].at - 1, pages))
  BY <1>1, <1>2 DEF Sound, CountFits
<1>5. Cardinality(There(jobs[j], task[j].at, pages)) = Cardinality(There(jobs[j], task[j].at - 1, pages)) + 1
      /\ Cardinality(There(jobs[j], task[j].at - 1, pages)) \in Nat
  <2> DEFINE n == task[j].at - 1
  <2>1. n \in Nat /\ n + 1 = task[j].at
    BY <1>1
  <2> HIDE DEF n
  <2>2. Cardinality(There(jobs[j], n + 1, pages)) = Cardinality(There(jobs[j], n, pages)) + 1
    BY <1>2, <2>1, ThereNext
  <2> QED
    BY <2>1, <2>2, ThereFinite DEF n
<1>6. res.total = task[j].at /\ Booked(res) = task[j].at /\ Good(res, There(jobs[j], task[j].at, pages))
  BY <1>1, <1>3, <1>4, <1>5 DEF Good, Counts
<1> QED
  BY <1>2, <1>3, <1>6, BookJobs

\* The session has loaded the page.
LEMMA LoadJobs == ASSUME JobsInv, NEW j \in Job, Load(j) PROVE JobsInv'
<1> DEFINE p == jobs[j].plan[task[j].at]
           h == [task[j] EXCEPT !.pc = "generate", !.seen = pages[p].st]
<1>1. /\ jobs[j] \in GenerationJob /\ jobs[j].plan \in Plans /\ task[j] \in Task
      /\ Sound(jobs[j], task[j], pages) /\ j \in queue /\ jobs[j].st # "unborn"
  BY TaskParts DEF Load
<1>2. /\ task[j].pc = "check" /\ (jobs[j].force \/ pages[p].st = "absent")
      /\ task' = [task EXCEPT ![j] = h] /\ UNCHANGED <<jobs, handler, queue, tries, pages, edit>>
  BY DEF Load, Exists, Current, JobsInv, TypeOK
<1>3. p \in Page /\ pages[p] \in SeoPage
  <2>1. task[j].at \in 1..Len(jobs[j].plan)
    BY <1>1, <1>2 DEF Sound, TaskFits
  <2>2. p \in Page
    BY <1>1, <2>1, PlanTypes
  <2> QED
    BY <2>2 DEF JobsInv, TypeOK
<1>4. /\ h \in Task /\ h.pc = "generate" /\ h.at = task[j].at /\ h.res = task[j].res
      /\ h.retries = task[j].retries /\ h.seen = pages[p].st
  <2>1. pages[p].st \in PageStatus \cup {"absent"}
    BY <1>3 DEF SeoPage
  <2> QED
    BY <1>1, <2>1 DEF Task
<1> HIDE DEF h
<1> HIDE DEF p
<1>5. TaskFits(h, jobs[j]) /\ CountFits(h, jobs[j], pages)
  <2>1. TaskFits(h, jobs[j])
    BY <1>1, <1>2, <1>4 DEF Sound, TaskFits
  <2>2. CountFits(h, jobs[j], pages)
    BY <1>1, <1>2, <1>4 DEF Sound, CountFits
  <2> QED
    BY <2>1, <2>2
<1>6. SeenFits(h, jobs[j], pages)
  BY <1>2, <1>4 DEF SeenFits, p
<1>7. Sound(jobs[j], h, pages) /\ jobs' = [jobs EXCEPT ![j] = jobs[j]]
  BY <1>1, <1>2, <1>5, <1>6 DEF Sound, JobsInv, TypeOK
<1> QED
  BY <1>1, <1>2, <1>4, <1>7, JobMoves DEF JobsInv, TypeOK

\* An answer of the AI service is kept, is asked for again, or ends the page.
LEMMA GenerateJobs ==
    ASSUME JobsInv, NEW j \in Job, NEW answer \in {"good", "similar", "error"}, Generate(j, answer)
    PROVE  JobsInv'
<1> DEFINE n == Attempts(task[j].retries, answer)
<1>1. /\ jobs[j] \in GenerationJob /\ jobs[j].plan \in Plans /\ task[j] \in Task /\ task[j].res \in Counts
      /\ Sound(jobs[j], task[j], pages) /\ j \in queue /\ jobs[j].st # "unborn" /\ task[j].at \in Nat \ {0}
  BY TaskParts DEF Generate
<1>2. /\ task[j].pc = "generate" /\ UNCHANGED <<handler, queue, tries, pages, edit>>
      /\ jobs = [jobs EXCEPT ![j] = jobs[j]]
  BY DEF Generate, JobsInv, TypeOK
<1>3. n \in 0..(MaxRetries + 1) /\ MaxRetries \in Nat
  <2>1. task[j].retries \in 0..(MaxRetries + 1) /\ task[j].retries <= MaxRetries /\ MaxRetries \in Nat
    BY <1>1, <1>2, SeoAssumption DEF SeoAssumption, Task, Sound, TaskFits
  <2> QED
    BY <2>1 DEF Attempts
<1>4. ASSUME NEW pc \in {"generate", "save"}, pc = "generate" => n <= MaxRetries,
             task' = [task EXCEPT ![j] = [task[j] EXCEPT !.pc = pc, !.retries = n]], UNCHANGED jobs
      PROVE  JobsInv'
  <2> DEFINE h == [task[j] EXCEPT !.pc = pc, !.retries = n]
  <2>1. h \in Task /\ h.pc = pc /\ h.at = task[j].at /\ h.res = task[j].res /\ h.retries = n /\ h.seen = task[j].seen
    BY <1>1, <1>3 DEF Task
  <2>2. task' = [task EXCEPT ![j] = h]
    BY <1>4
  <2> HIDE DEF h, n
  <2>3. TaskFits(h, jobs[j]) /\ CountFits(h, jobs[j], pages) /\ SeenFits(h, jobs[j], pages)
    BY <1>1, <1>2, <1>4, <2>1 DEF Sound, TaskFits, CountFits, SeenFits
  <2>4. Sound(jobs[j], h, pages)
    BY <1>1, <2>3 DEF Sound
  <2> QED
    BY <1>1, <1>2, <1>4, <2>1, <2>2, <2>4, JobMoves DEF JobsInv, TypeOK
<1>5. CASE task' = [task EXCEPT ![j].pc = "save", ![j].retries = n] /\ UNCHANGED jobs
  <2>1. task' = [task EXCEPT ![j] = [task[j] EXCEPT !.pc = "save", !.retries = n]]
    BY <1>5 DEF JobsInv, TypeOK
  <2> HIDE DEF n
  <2> QED
    BY <1>4, <1>5, <2>1
<1>6. CASE ~Exhausted(n) /\ task' = [task EXCEPT ![j].retries = n] /\ UNCHANGED jobs
  <2>1. task' = [task EXCEPT ![j] = [task[j] EXCEPT !.pc = "generate", !.retries = n]]
    <3>1. [task[j] EXCEPT !.pc = "generate", !.retries = n] = [task[j] EXCEPT !.retries = n]
      BY <1>1, <1>2 DEF Task
    <3> QED
      BY <1>6, <3>1 DEF JobsInv, TypeOK
  <2>2. n <= MaxRetries
    BY <1>3, <1>6 DEF Exhausted
  <2> HIDE DEF n
  <2> QED
    BY <1>4, <1>6, <2>1, <2>2
<1>7. CASE Book(j, Failure(task[j].res))
  <2> DEFINE res == Failure(task[j].res)
  <2> DEFINE old == task[j].res
  <2>1. res \in Counts /\ res.total = old.total /\ Booked(res) = Booked(old) + 1
        /\ res.created + res.skipped = old.created + old.skipped
    <3>1. old \in Counts /\ res = [old EXCEPT !.failed = @ + 1]
      BY <1>1 DEF Failure
    <3> HIDE DEF old, res
    <3>2. /\ res \in Counts /\ res.total = old.total /\ res.created = old.created
          /\ res.skipped = old.skipped /\ res.failed = old.failed + 1
      BY <3>1 DEF Counts
    <3> QED
      BY <3>1, <3>2 DEF Booked, Counts
  <2>2. /\ task[j].res.total = task[j].at /\ Booked(task[j].res) = task[j].at - 1
        /\ Good(task[j].res, There(jobs[j], task[j].at - 1, pages))
    BY <1>1, <1>2 DEF Sound, CountFits
  <2>3. /\ Cardinality(There(jobs[j], task[j].at - 1, pages)) <= Cardinality(There(jobs[j], task[j].at, pages))
        /\ Cardinality(There(jobs[j], task[j].at - 1, pages)) \in Nat
        /\ Cardinality(There(jobs[j], task[j].at, pages)) \in Nat
    <3>1. task[j].at - 1 \in Nat /\ task[j].at \in Nat /\ task[j].at - 1 <= task[j].at
      BY <1>1
    <3> QED
      BY <3>1, ThereFinite, ThereGrows
  <2> HIDE DEF res
  <2>4. res.total = task[j].at /\ Booked(res) = task[j].at /\ Good(res, There(jobs[j], task[j].at, pages))
    BY <1>1, <2>1, <2>2, <2>3 DEF Good, Counts
  <2>5. Book(j, res)
    BY <1>7 DEF res
  <2> QED
    BY <1>2, <2>1, <2>4, <2>5, BookJobs
<1> QED
  BY <1>5, <1>6, <1>7 DEF Generate

----------------------------------------------------------------------------
(* Steps that write a page.                                                *)

\* A job at work on a page that somebody writes stays sound: pages do not go
\* away, and one that turns published meanwhile is marked.
LEMMA SoundKept ==
    ASSUME JobsInv, NEW k \in Job, NEW pg,
           \A p \in Page : pages[p].st # "absent" => pg[p].st # "absent",
           \A p \in Page : pg[p].st = "published" /\ Loaded(p) =>
             pg[p].raced = TRUE \/ pg[p] = pages[p]
    PROVE  Sound(jobs[k], task[k], pg)
<1> DEFINE g == jobs[k]
           h == task[k]
<1>1. g.plan \in Plans /\ Len(g.plan) \in Nat /\ Sound(g, h, pages) /\ h.res \in Counts /\ h.at \in Nat \ {0}
  BY TaskParts
<1>2. RowFits(g, pg)
  BY RowKept
<1>3. SeenFits(h, g, pg)
  <2>1. SUFFICES ASSUME h.pc \in {"generate", "save"}
                 PROVE  SeenFits(h, g, pg)
    BY DEF SeenFits
  <2> DEFINE p == g.plan[h.at]
  <2>2. h.at \in 1..Len(g.plan)
    BY <1>1, <2>1 DEF Sound, TaskFits
  <2>3. p \in Page
    BY <1>1, <2>2, PlanTypes
  <2>4. Loaded(p)
    BY <2>1 DEF Loaded, Current
  <2>5. /\ h.seen # "absent" => pages[p].st # "absent"
        /\ ~g.force => h.seen = "absent"
        /\ pages[p].st = "published" /\ h.seen # "published" => pages[p].raced = TRUE
    BY <1>1, <2>1 DEF Sound, SeenFits
  <2> HIDE DEF p, g, h
  <2>6. /\ h.seen # "absent" => pg[p].st # "absent"
        /\ pg[p].st = "published" /\ h.seen # "published" => pg[p].raced = TRUE
    BY <2>3, <2>4, <2>5
  <2> QED
    BY <2>5, <2>6 DEF SeenFits, p
<1>4. CountFits(h, g, pg)
  <2>1. ASSUME NEW n \in Nat, n <= Len(g.plan), Good(h.res, There(g, n, pages))
        PROVE  Good(h.res, There(g, n, pg))
    <3>1. \A i \in 1..n : pages[g.plan[i]].st # "absent" => pg[g.plan[i]].st # "absent"
      <4>1. \A i \in 1..n : i \in 1..Len(g.plan)
        BY <1>1, <2>1
      <4> QED
        BY <1>1, <4>1, PlanTypes
    <3>2. n <= n
      BY <2>1
    <3> HIDE DEF g, h
    <3>3. Cardinality(There(g, n, pages)) <= Cardinality(There(g, n, pg))
      BY <3>1, <3>2, ThereGrows
    <3>4. Cardinality(There(g, n, pages)) \in Nat /\ Cardinality(There(g, n, pg)) \in Nat
      BY ThereFinite
    <3> QED
      BY <1>1, <2>1, <3>3, <3>4 DEF Good, Counts
  <2>2. h.at - 1 \in Nat
    BY <1>1
  <2>3. h.pc \in {"visit", "check", "generate", "save"} => h.at - 1 <= Len(g.plan)
    <3>1. h.pc = "visit" => g.plan = Tour /\ h.at \in 1..(Len(Tour) + 1)
      BY <1>1, TaskParts DEF Sound, TaskFits, PlanFits, Task
    <3>2. h.pc \in {"check", "generate", "save"} => h.at \in 1..Len(g.plan)
      BY <1>1 DEF Sound, TaskFits
    <3> HIDE DEF g, h
    <3> QED
      BY <1>1, <3>1, <3>2
  <2>4. CountFits(h, g, pages)
    BY <1>1 DEF Sound
  <2> HIDE DEF g, h
  <2> QED
    BY <2>1, <2>2, <2>3, <2>4 DEF CountFits
<1> QED
  BY <1>1, <1>2, <1>3, <1>4 DEF Sound

\* A page with these fields.
LEMMA RowTypes ==
    ASSUME NEW st \in PageStatus, NEW text \in BOOLEAN, NEW raced \in BOOLEAN,
           NEW row, row = [st |-> st, text |-> text, reviewed |-> FALSE, raced |-> raced]
    PROVE  row \in SeoPage /\ row.st = st /\ (raced => row.raced = TRUE)
BY DEF SeoPage

\* What a task leaves on its page: if it is published, it is marked.
LEMMA SavedRow ==
    ASSUME JobsInv, NEW j \in Job, task[j].pc = "save",
           NEW p, p = Current(j),
           NEW row, row = IF task[j].seen = "absent"
                          THEN [NoPage EXCEPT !.st = StatusAfter(task[j].retries), !.text = ~pages[p].text]
                          ELSE Regenerated(pages[p], task[j].seen, StatusAfter(task[j].retries))
    PROVE  /\ p \in Page /\ row \in SeoPage /\ row.st # "absent"
           /\ row.st = "published" => row.raced = TRUE
<1> DEFINE st == StatusAfter(task[j].retries)
           seen == task[j].seen
           old == pages[p]
<1>1. jobs[j].plan \in Plans /\ Sound(jobs[j], task[j], pages) /\ task[j].at \in 1..Len(jobs[j].plan)
  BY TaskParts DEF Sound, TaskFits
<1>2. p \in Page
  BY <1>1, PlanTypes DEF Current
<1>3. old \in SeoPage
  BY <1>2 DEF JobsInv, TypeOK
<1>4. st \in {"draft", "needs_review"}
  BY DEF StatusAfter
<1>5. /\ seen # "absent" => old.st # "absent"
      /\ old.st = "published" /\ seen # "published" => old.raced = TRUE
  BY <1>1 DEF Sound, SeenFits, Current
<1>6. old.text \in BOOLEAN /\ old.raced \in BOOLEAN /\ old.st \in PageStatus \cup {"absent"}
  BY <1>3 DEF SeoPage
<1>7. row = IF seen = "absent" THEN [NoPage EXCEPT !.st = st, !.text = ~old.text] ELSE Regenerated(old, seen, st)
  OBVIOUS
<1> HIDE DEF st, seen, old
<1> DEFINE flip == ~old.text
<1>0. flip \in BOOLEAN
  OBVIOUS
<1>8. CASE seen = "absent"
  <2>1. row = [st |-> st, text |-> flip, reviewed |-> FALSE, raced |-> FALSE]
    BY <1>7, <1>8 DEF NoPage
  <2>2. st \in PageStatus /\ FALSE \in BOOLEAN
    BY <1>4 DEF PageStatus
  <2> HIDE DEF flip
  <2>3. row \in SeoPage /\ row.st = st
    BY ONLY <1>0, <2>1, <2>2, RowTypes
  <2> QED
    BY <1>2, <1>4, <2>3
<1>9. CASE seen # "absent"
  <2> DEFINE s == IF st = seen THEN old.st ELSE st
             r == old.raced /\ st = seen
  <2>1. row = [st |-> s, text |-> flip, reviewed |-> FALSE, raced |-> r]
    BY <1>3, <1>7, <1>9 DEF Regenerated, SeoPage
  <2>2. s \in PageStatus \cup {"absent"} /\ s # "absent" /\ (s = "published" => st = seen /\ old.st = "published")
    BY <1>4, <1>5, <1>6, <1>9 DEF PageStatus
  <2>3. s = "published" => seen # "published"
    BY <1>4, <2>2
  <2>4. s = "published" => r = TRUE
    BY <1>5, <1>6, <2>2, <2>3
  <2>5. r \in BOOLEAN
    BY <1>6
  <2> HIDE DEF s, r, flip
  <2>6. s \in PageStatus
    BY <2>2
  <2>7. row \in SeoPage /\ row.st = s /\ (r => row.raced = TRUE)
    BY ONLY <1>0, <2>1, <2>5, <2>6, RowTypes
  <2> QED
    BY <1>2, <2>2, <2>4, <2>7
<1> QED
  BY <1>8, <1>9

\* The content is stored and the page booked.
LEMMA SaveJobs == ASSUME JobsInv, NEW j \in Job, Save(j) PROVE JobsInv'
<1> DEFINE p == Current(j)
           row == IF task[j].seen = "absent"
                  THEN [NoPage EXCEPT !.st = StatusAfter(task[j].retries), !.text = ~pages[p].text]
                  ELSE Regenerated(pages[p], task[j].seen, StatusAfter(task[j].retries))
           res == [task[j].res EXCEPT !.created = @ + 1]
<1>1. /\ jobs[j].plan \in Plans /\ Len(jobs[j].plan) \in Nat /\ task[j].res \in Counts /\ task[j].at \in Nat \ {0}
      /\ Sound(jobs[j], task[j], pages) /\ j \in queue
  BY TaskParts DEF Save
<1>2. task[j].pc = "save" /\ Book(j, res) /\ UNCHANGED <<handler, queue, tries>>
  BY DEF Save
<1>3. p \in Page /\ row \in SeoPage /\ row.st # "absent" /\ (row.st = "published" => row.raced = TRUE)
  BY <1>2, SavedRow
<1>4. pages' = [pages EXCEPT ![p] = row] /\ pages \in [Page -> SeoPage]
  BY DEF Save, JobsInv, TypeOK
<1>5. edit' \in Edit \cup {NoEdit}
  <2>1. edit' = IF edit.on = p THEN [edit EXCEPT !.touched = TRUE] ELSE edit
    BY DEF Save
  <2>2. NoEdit.on = "no page" /\ (edit \in Edit \/ edit = NoEdit)
    BY DEF JobsInv, TypeOK, NoEdit
  <2>3. "no page" # p
    BY <1>3, SeoAssumption DEF SeoAssumption
  <2> HIDE DEF p
  <2>4. edit \in Edit => [edit EXCEPT !.touched = TRUE] \in Edit
    BY DEF Edit
  <2> QED
    BY <2>1, <2>2, <2>3, <2>4
<1>6. res \in Counts /\ res.total = task[j].res.total /\ Booked(res) = Booked(task[j].res) + 1
      /\ res.created + res.skipped = task[j].res.created + task[j].res.skipped + 1
  BY <1>1, OneMore
<1>7. p = jobs[j].plan[task[j].at]
  BY DEF Current
<1>8. PublishedReviewed'
  <2>1. row.reviewed = FALSE
    BY <1>4 DEF Regenerated, NoPage
  <2> HIDE DEF row, p
  <2> QED
    BY <1>3, <1>4 DEF PublishedReviewed, JobsInv
<1> HIDE DEF p, row, res
<1>9. \A q \in Page : pages[q].st # "absent" => pages'[q].st # "absent"
  BY <1>3, <1>4
<1>10. \A q \in Page : pages'[q].st = "published" => pages'[q].raced = TRUE \/ pages'[q] = pages[q]
  BY <1>3, <1>4
<1>11. \A k \in Job : Sound(jobs[k], task[k], pages')
  BY <1>9, <1>10, SoundKept
<1>12. /\ task[j].res.total = task[j].at /\ Booked(task[j].res) = task[j].at - 1
       /\ Good(task[j].res, There(jobs[j], task[j].at - 1, pages'))
  BY <1>2, <1>11 DEF Sound, CountFits
<1>13. Cardinality(There(jobs[j], task[j].at, pages')) = Cardinality(There(jobs[j], task[j].at - 1, pages')) + 1
       /\ Cardinality(There(jobs[j], task[j].at - 1, pages')) \in Nat
  <2> DEFINE n == task[j].at - 1
  <2>1. n \in Nat /\ n + 1 = task[j].at
    BY <1>1
  <2>2. pages'[p].st # "absent"
    BY <1>3, <1>4
  <2> HIDE DEF n
  <2>3. Cardinality(There(jobs[j], n + 1, pages')) = Cardinality(There(jobs[j], n, pages')) + 1
    BY <1>7, <2>1, <2>2, ThereNext
  <2> QED
    BY <2>1, <2>3, ThereFinite DEF n
<1>14. res.total = task[j].at /\ Booked(res) = task[j].at /\ Good(res, There(jobs[j], task[j].at, pages'))
  BY <1>1, <1>6, <1>12, <1>13 DEF Good, Counts
<1>15. PICK g \in GenerationJob, h \in Task :
         /\ jobs' = [jobs EXCEPT ![j] = g] /\ task' = [task EXCEPT ![j] = h]
         /\ Sound(g, h, pages') /\ g.st # "unborn"
  BY <1>2, <1>6, <1>9, <1>14, Books
<1>16. pages' \in [Page -> SeoPage]
  BY <1>3, <1>4
<1> QED
  BY <1>1, <1>2, <1>5, <1>8, <1>11, <1>15, <1>16, JobWrites DEF JobsInv, TypeOK

\* An editor reads a page, and writes its status later.
LEMMA EditJobs ==
    ASSUME JobsInv, NEW p \in Page, EditorStep(p)
    PROVE  JobsInv'
<1>1. UNCHANGED <<jobs, handler, queue, tries, task>>
  BY DEF EditorStep, OpenPage, PatchPage
<1>2. ASSUME NEW st \in {"draft", "published"}, OpenPage(p, st) PROVE JobsInv'
  <2>1. edit' \in Edit
    BY <1>2 DEF OpenPage, Edit, PageStatus
  <2>2. UNCHANGED pages
    BY <1>2 DEF OpenPage
  <2> QED
    BY <1>1, <2>1, <2>2 DEF JobsInv, TypeOK, PublishedReviewed
<1>3. ASSUME PatchPage(p) PROVE JobsInv'
  <2> DEFINE pub == edit.to = "published"
             a == pub /\ ~edit.touched
             b == pub /\ (edit.touched \/ Loaded(p))
             row == [pages[p] EXCEPT !.st = edit.to, !.reviewed = a, !.raced = b]
  <2>1. edit \in Edit /\ edit.on = p
    BY <1>3 DEF PatchPage, JobsInv, TypeOK
  <2>2. edit.to \in PageStatus /\ edit.touched \in BOOLEAN
    BY <2>1 DEF Edit
  <2>3. a \in BOOLEAN /\ b \in BOOLEAN
    OBVIOUS
  <2>4. pages \in [Page -> SeoPage] /\ pages[p] \in SeoPage
    BY DEF JobsInv, TypeOK
  <2>5. pages' = [pages EXCEPT ![p] = row]
    BY <1>3, <2>4 DEF PatchPage
  <2>6. (pub => a = TRUE \/ b = TRUE) /\ (pub /\ Loaded(p) => b = TRUE)
    BY <2>2
  <2>7. pub <=> edit.to = "published"
    OBVIOUS
  <2> HIDE DEF a, b, pub
  <2>8. row \in SeoPage /\ row.st = edit.to /\ row.reviewed = a /\ row.raced = b
    BY <2>2, <2>3, <2>4 DEF SeoPage
  <2>9. edit.to # "absent"
    BY <2>2 DEF PageStatus
  <2> HIDE DEF row
  <2>10. pages' \in [Page -> SeoPage]
    BY <2>4, <2>5, <2>8
  <2>11. \A q \in Page : pages[q].st # "absent" => pages'[q].st # "absent"
    BY <2>4, <2>5, <2>8, <2>9
  <2>12. \A q \in Page : pages'[q].st = "published" /\ Loaded(q) => pages'[q].raced = TRUE \/ pages'[q] = pages[q]
    BY <2>4, <2>5, <2>6, <2>7, <2>8
  <2>13. PublishedReviewed'
    BY <2>4, <2>5, <2>6, <2>7, <2>8 DEF PublishedReviewed, JobsInv
  <2>14. \A k \in Job : Sound(jobs[k], task[k], pages')
    BY <2>11, <2>12, SoundKept
  <2>15. edit' \in Edit \cup {NoEdit}
    BY <1>3 DEF PatchPage
  <2> QED
    BY <1>1, <2>10, <2>13, <2>14, <2>15 DEF JobsInv, TypeOK
<1> QED
  BY <1>2, <1>3 DEF EditorStep

----------------------------------------------------------------------------
(* The theorems.                                                           *)

\* Every step keeps the invariant.
LEMMA NextJobs == JobsInv /\ [Next]_vars => JobsInv'
<1> SUFFICES ASSUME JobsInv, [Next]_vars PROVE JobsInv'
  OBVIOUS
<1>1. ASSUME NEW j \in Job, ApiStep(j) PROVE JobsInv'
  BY <1>1, TriggerJobs, EnqueueJobs DEF ApiStep
<1>2. ASSUME NEW j \in Job, WorkerStep(j) PROVE JobsInv'
  <2>1. CASE Conflict(j) \/ Acknowledge(j) \/ GiveUp(j)
    BY <2>1, RestJobs DEF Conflict, Acknowledge, GiveUp
  <2> QED
    BY <1>2, <2>1, StartJobs, VisitJobs, FinishJobs, SkipJobs, LoadJobs, GenerateJobs, SaveJobs DEF WorkerStep
<1>3. ASSUME NEW j \in Job, Raise(j) \/ Crash(j) PROVE JobsInv'
  BY <1>3, RestJobs DEF Raise
<1>4. ASSUME UNCHANGED vars PROVE JobsInv'
  BY <1>4 DEF vars, JobsInv, TypeOK, PublishedReviewed
<1> QED
  BY <1>1, <1>2, <1>3, <1>4, EditJobs DEF Next

\* Every reachable state satisfies the invariant above: what a task has booked
\* are pages of its plan that are there, and what it has read of its page can
\* only have changed with a mark.
THEOREM JobsInvariant == Spec => []JobsInv
<1>1. Init => JobsInv
  BY InitJobs
<1>2. JobsInv /\ [Next]_vars => JobsInv'
  BY NextJobs
<1> QED
  BY <1>1, <1>2, PTL DEF Spec

\* The types, and that the worker works only on what the queue holds.
THEOREM JobTypes == Spec => []TypeOK
<1>1. JobsInv => TypeOK
  BY DEF JobsInv
<1> QED
  BY <1>1, JobsInvariant, PTL

\* What the row of a job says is true of the pages, and adds up once it is
\* done: each restart counts from zero and skips what its predecessor made.
THEOREM AccountedHolds == Spec => []Accounted
<1>1. JobsInv => Accounted
  <2> SUFFICES ASSUME JobsInv, NEW j \in Job
               PROVE  LET res == jobs[j].res IN
                      /\ res.created + res.skipped <= Cardinality(Present(j))
                      /\ jobs[j].st = "done" => /\ res.total = Len(jobs[j].plan)
                                                /\ res.total = res.created + res.skipped + res.failed
    BY DEF Accounted
  <2>1. Present(j) = There(jobs[j], Len(jobs[j].plan), pages)
    BY DEF Present, There, Exists
  <2>2. RowFits(jobs[j], pages)
    BY DEF JobsInv, Sound
  <2> QED
    BY <2>1, <2>2 DEF RowFits, Good, Booked
<1> QED
  BY <1>1, JobsInvariant, PTL

\* A published page shows what the publishing PATCH has read, unless a
\* generation of the page was under way.
THEOREM PublishedReviewedHolds == Spec => []PublishedReviewed
<1>1. JobsInv => PublishedReviewed
  BY DEF JobsInv
<1> QED
  BY <1>1, JobsInvariant, PTL

\* Only Save writes a content, and a job without `force' has seen no page: it
\* inserts, which an existing page refuses.
THEOREM ContentKeptHolds == Spec => ContentKept
<1> DEFINE Kept == \A p \in Page :
                     Exists(p) /\ pages'[p].text # pages[p].text
                     => \E j \in Job : jobs[j].force /\ task[j].pc = "save" /\ Current(j) = p
<1>1. JobsInv /\ [Next]_vars => [Kept]_vars
  <2> SUFFICES ASSUME JobsInv, Next, NEW p \in Page, Exists(p), pages'[p].text # pages[p].text
               PROVE  \E j \in Job : jobs[j].force /\ task[j].pc = "save" /\ Current(j) = p
    OBVIOUS
  <2>1. ASSUME NEW q \in Page, EditorStep(q) PROVE FALSE
    <3>1. CASE UNCHANGED pages
      BY <3>1
    <3>2. CASE PatchPage(q)
      <4>1. pages[p] \in SeoPage /\ pages[q] \in SeoPage /\ pages \in [Page -> SeoPage]
        BY DEF JobsInv, TypeOK
      <4>2. pages'[p].text = pages[p].text
        BY <3>2, <4>1 DEF PatchPage, SeoPage
      <4> QED
        BY <4>2
    <3> QED
      BY <2>1, <3>1, <3>2 DEF EditorStep, OpenPage
  <2>2. PICK j \in Job : Save(j)
    <3>1. ASSUME NEW j \in Job, ApiStep(j) \/ WorkerStep(j) \/ Raise(j) \/ Crash(j), ~Save(j) PROVE UNCHANGED pages
      BY <3>1 DEF ApiStep, Trigger, Enqueue, EnqueueFails, WorkerStep, Start, Visit, Finish, Skip, Load, Generate,
           Conflict, Raise, Acknowledge, GiveUp, Dropped, Crash
    <3> QED
      BY <2>1, <3>1 DEF Next
  <2>3. Current(j) = p
    BY <2>2 DEF Save, JobsInv, TypeOK
  <2>4. task[j].pc = "save" /\ task[j].seen # "absent"
    BY <2>2, <2>3 DEF Save, Insertable, Exists
  <2>5. jobs[j].force
    <3>1. ~jobs[j].force => task[j].seen = "absent"
      BY <2>4 DEF JobsInv, Sound, SeenFits
    <3> QED
      BY <2>4, <3>1
  <2> QED
    BY <2>3, <2>4, <2>5
<1> QED
  BY <1>1, JobsInvariant, PTL DEF Spec, ContentKept

----------------------------------------------------------------------------
(* How much a job still has to do.                                         *)

\* Products, for the solver.
LEMMA Times ==
    ASSUME NEW a \in Int, NEW p \in Nat
    PROVE  /\ a * p \in Int /\ (a - 1) * p = a * p - p /\ (a + 1) * p = a * p + p
           /\ a >= 0 => a * p >= 0
OBVIOUS

\* The numbers that StepsLeft is made of.
LEMMA LeftTypes ==
    ASSUME JobsInv, NEW j \in Job
    PROVE  /\ PerPage \in Nat /\ PerPage = MaxRetries + 4 /\ MaxRetries \in Nat
           /\ PerTry(jobs[j]) \in Nat /\ MaxTries[j] \in Nat /\ tries[j] \in Nat
           /\ (MaxTries[j] - tries[j]) * PerTry(jobs[j]) \in Nat
           /\ (Len(jobs[j].plan) - task[j].at) * PerPage \in Int
           /\ task[j].retries \in Nat
<1> DEFINE L == Len(jobs[j].plan)
           P == MaxRetries + 4
<1>1. L \in Nat /\ MaxRetries \in Nat /\ MaxTries[j] \in Nat /\ tries[j] \in Nat /\ tries[j] <= MaxTries[j]
      /\ task[j].at \in Nat /\ task[j].retries \in Nat
  <2>1. L \in Nat /\ task[j].at \in Nat /\ task[j].retries \in 0..(MaxRetries + 1)
    BY TaskParts DEF Task
  <2>2. MaxRetries \in Nat /\ MaxTries[j] \in Nat
    BY SeoAssumption DEF SeoAssumption
  <2>3. tries[j] \in Nat /\ tries[j] <= MaxTries[j]
    BY DEF JobsInv, TypeOK
  <2> QED
    BY <2>1, <2>2, <2>3
<1> HIDE DEF L
<1>2. P \in Nat /\ PerPage = P
  BY <1>1 DEF PerPage
<1> HIDE DEF P
<1>3. L * P \in Nat /\ (L - task[j].at) * P \in Int
  BY <1>1, <1>2
<1>4. PerTry(jobs[j]) \in Nat
  BY <1>2, <1>3 DEF PerTry, L
<1>5. (MaxTries[j] - tries[j]) * PerTry(jobs[j]) \in Nat
  BY <1>1, <1>4
<1> QED
  BY <1>1, <1>2, <1>3, <1>4, <1>5 DEF L, P

\* What is left of a try, place by place.
LEMMA LeftAt ==
    ASSUME NEW h, NEW g
    PROVE  LET after == (Len(g.plan) - h.at) * PerPage IN
           /\ h.pc = "idle" => LeftOfTry(h, g) = 0
           /\ h.pc = "visit" => LeftOfTry(h, g) = after + PerPage + 2
           /\ h.pc = "check" => LeftOfTry(h, g) = after + MaxRetries + 5
           /\ h.pc = "generate" => LeftOfTry(h, g) = after + MaxRetries - h.retries + 4
           /\ h.pc = "save" => LeftOfTry(h, g) = after + 3
           /\ h.pc = "ack" => LeftOfTry(h, g) = 1
BY DEF LeftOfTry

\* After its last page nothing is left of a try but to finish it.
LEMMA LeftIsNat ==
    ASSUME JobsInv, NEW j \in Job
    PROVE  LeftOfTry(task[j], jobs[j]) \in Nat /\ (task[j].pc # "idle" => LeftOfTry(task[j], jobs[j]) > 0)
<1> DEFINE L == Len(jobs[j].plan)
           h == task[j]
           A == (L - h.at) * PerPage
<1>1. /\ L \in Nat /\ h.at \in Nat \ {0} /\ h \in Task /\ PerPage \in Nat /\ PerPage = MaxRetries + 4
      /\ MaxRetries \in Nat /\ A \in Int /\ h.retries \in Nat
  BY TaskParts, LeftTypes
<1>2. /\ h.pc \in {"check", "generate", "save"} => h.at <= L
      /\ h.pc = "generate" => h.retries <= MaxRetries
      /\ h.pc = "visit" => h.at <= L + 1
  <2>1. TaskFits(h, jobs[j]) /\ PlanFits(jobs[j])
    BY TaskParts DEF Sound
  <2>2. h.at \in 1..(Len(Tour) + 1)
    BY <1>1 DEF Task
  <2> QED
    BY <1>1, <2>1, <2>2 DEF TaskFits, PlanFits
<1>3. h.at <= L => A >= 0
  <2>1. L - h.at \in Int /\ (h.at <= L => L - h.at >= 0)
    BY <1>1
  <2> QED
    BY <1>1, <2>1, Times
<1>4. h.at <= L + 1 => A + PerPage >= 0
  <2>1. (L - h.at) \in Int /\ (h.at <= L + 1 => (L - h.at) + 1 >= 0) /\ (L - h.at) + 1 \in Int
    BY <1>1
  <2>2. ((L - h.at) + 1) * PerPage = A + PerPage
    BY <1>1, <2>1, Times
  <2>3. (L - h.at) + 1 >= 0 => ((L - h.at) + 1) * PerPage >= 0
    BY <1>1, <2>1, Times
  <2> QED
    BY <2>1, <2>2, <2>3
<1>5. h.pc \in {"idle", "visit", "check", "generate", "save", "ack"}
  BY <1>1 DEF Task
<1>6. LET after == A IN
      /\ h.pc = "idle" => LeftOfTry(h, jobs[j]) = 0
      /\ h.pc = "visit" => LeftOfTry(h, jobs[j]) = after + PerPage + 2
      /\ h.pc = "check" => LeftOfTry(h, jobs[j]) = after + MaxRetries + 5
      /\ h.pc = "generate" => LeftOfTry(h, jobs[j]) = after + MaxRetries - h.retries + 4
      /\ h.pc = "save" => LeftOfTry(h, jobs[j]) = after + 3
      /\ h.pc = "ack" => LeftOfTry(h, jobs[j]) = 1
  BY LeftAt
<1> HIDE DEF h, L, A
<1>7. CASE h.pc \in {"idle", "ack", "visit"}
  BY <1>1, <1>2, <1>4, <1>6, <1>7 DEF h
<1>8. CASE h.pc \in {"check", "generate", "save"}
  BY <1>1, <1>2, <1>3, <1>6, <1>8 DEF h
<1> QED
  BY <1>5, <1>7, <1>8

\* A step that keeps the try and the plan counts by what it leaves of the try.
LEMMA FewerLeft ==
    ASSUME JobsInv, NEW j \in Job, tries'[j] = tries[j], jobs'[j].plan = jobs[j].plan,
           NEW n \in Int, LeftOfTry(task'[j], jobs'[j]) = n
    PROVE  /\ n < LeftOfTry(task[j], jobs[j]) => StepsLeft(j)' < StepsLeft(j)
           /\ n = LeftOfTry(task[j], jobs[j]) => StepsLeft(j)' = StepsLeft(j)
<1> DEFINE R == (MaxTries[j] - tries[j]) * PerTry(jobs[j])
           m == LeftOfTry(task[j], jobs[j])
<1>1. R \in Nat /\ m \in Nat
  BY LeftTypes, LeftIsNat
<1>2. PerTry(jobs'[j]) = PerTry(jobs[j])
  BY DEF PerTry
<1>3. StepsLeft(j)' = R + n + 1 /\ StepsLeft(j) = R + m + 1
  BY <1>2 DEF StepsLeft
<1> HIDE DEF R, m
<1> QED
  BY <1>1, <1>3 DEF m

\* When a page is booked, the rest of its steps is not taken any more.
LEMMA BookShrinks ==
    ASSUME JobsInv, NEW j \in Job, task[j].pc \in {"check", "generate", "save"}, NEW res, Book(j, res),
           UNCHANGED tries
    PROVE  StepsLeft(j)' < StepsLeft(j)
<1> DEFINE L == Len(jobs[j].plan)
           A == (L - task[j].at) * PerPage
           m == LeftOfTry(task[j], jobs[j])
<1>1. /\ L \in Nat /\ task[j].at \in Nat /\ PerPage \in Nat /\ MaxRetries \in Nat /\ A \in Int /\ task[j].retries \in Nat
      /\ task[j].at <= L /\ (task[j].pc = "generate" => task[j].retries <= MaxRetries)
      /\ jobs \in [Job -> GenerationJob] /\ task \in [Job -> Task]
  BY TaskParts, LeftTypes DEF Sound, TaskFits, JobsInv, TypeOK
<1>2. m \in Int /\ m >= A + 3
  <2>1. /\ task[j].pc = "check" => m = A + MaxRetries + 5
        /\ task[j].pc = "generate" => m = A + MaxRetries - task[j].retries + 4
        /\ task[j].pc = "save" => m = A + 3
    BY LeftAt
  <2> HIDE DEF A, m
  <2> QED
    BY <1>1, <2>1
<1>3. A >= 0
  <2>1. L - task[j].at \in Int /\ L - task[j].at >= 0
    BY <1>1
  <2> QED
    BY <1>1, <2>1, Times
<1> DEFINE n == LeftOfTry(task'[j], jobs'[j])
<1>4. n \in Int /\ n <= A + 2 /\ jobs'[j].plan = jobs[j].plan
  <2>1. CASE jobs[j].kind = "single"
    <3>1. task'[j].pc = "ack" /\ jobs'[j].plan = jobs[j].plan
      BY <1>1, <2>1 DEF Book, Rest, GenerationJob
    <3>2. n = 1
      BY <3>1, LeftAt
    <3> QED
      BY <1>1, <1>3, <3>1, <3>2
  <2>2. CASE jobs[j].kind # "single"
    <3>1. task'[j].pc = "visit" /\ task'[j].at = task[j].at + 1 /\ jobs'[j] = jobs[j]
      BY <1>1, <2>2 DEF Book, Rest
    <3>2. n = (L - (task[j].at + 1)) * PerPage + PerPage + 2
      BY <3>1, LeftAt
    <3>3. (L - (task[j].at + 1)) * PerPage = A - PerPage
      <4>1. L - task[j].at \in Int /\ L - (task[j].at + 1) = (L - task[j].at) - 1
        BY <1>1
      <4> QED
        BY <1>1, <4>1, Times
    <3> HIDE DEF A, n, L
    <3> QED
      BY <1>1, <3>1, <3>2, <3>3
  <2> QED
    BY <2>1, <2>2
<1>5. n < m
  <2> HIDE DEF n, m, A
  <2> QED
    BY <1>1, <1>2, <1>4
<1> QED
  BY <1>4, <1>5, FewerLeft

\* The job is started for one more time.
LEMMA StartShrinks == ASSUME JobsInv, NEW j \in Job, Start(j) PROVE StepsLeft(j)' < StepsLeft(j)
<1> DEFINE L == Len(jobs[j].plan)
           Q == PerTry(jobs[j])
           d == MaxTries[j] - tries[j]
<1>1. /\ L \in Nat /\ PerPage \in Nat /\ PerPage = MaxRetries + 4 /\ MaxRetries \in Nat /\ Q \in Nat
      /\ MaxTries[j] \in Nat /\ tries[j] \in Nat /\ d * Q \in Nat
      /\ jobs \in [Job -> GenerationJob] /\ task \in [Job -> Task] /\ tries \in [Job -> Nat]
  BY TaskParts, LeftTypes DEF JobsInv, TypeOK
<1>2. /\ jobs'[j].plan = jobs[j].plan /\ tries'[j] = tries[j] + 1 /\ task[j].pc = "idle"
      /\ task'[j].at = 1 /\ task'[j].pc \in {"visit", "check"}
  BY <1>1 DEF Start, Rest, GenerationJob
<1>3. Q = L * PerPage + 3
  BY DEF PerTry
<1>4. LeftOfTry(task'[j], jobs'[j]) \in Int /\ LeftOfTry(task'[j], jobs'[j]) <= L * PerPage + 2
  <2>1. /\ task'[j].pc = "visit" => LeftOfTry(task'[j], jobs'[j]) = (L - 1) * PerPage + PerPage + 2
        /\ task'[j].pc = "check" => LeftOfTry(task'[j], jobs'[j]) = (L - 1) * PerPage + MaxRetries + 5
    BY <1>2, LeftAt
  <2> HIDE DEF L
  <2>2. (L - 1) * PerPage = L * PerPage - PerPage /\ L * PerPage \in Int
    <3>1. L \in Int /\ PerPage \in Nat
      BY <1>1
    <3> QED
      BY <3>1, Times
  <2> QED
    BY <1>1, <1>2, <2>1, <2>2
<1>5. StepsLeft(j) = d * Q + 1
  <2>1. LeftOfTry(task[j], jobs[j]) = 0
    BY <1>2, LeftAt
  <2> HIDE DEF d
  <2> QED
    BY <1>1, <2>1 DEF StepsLeft, d
<1>6. StepsLeft(j)' = (MaxTries[j] - tries'[j]) * Q + LeftOfTry(task'[j], jobs'[j]) + 1
  BY <1>2 DEF StepsLeft, PerTry
<1>7. (MaxTries[j] - tries'[j]) * Q = d * Q - Q
  <2>1. MaxTries[j] - tries'[j] = d - 1 /\ d \in Int
    BY <1>1, <1>2
  <2> HIDE DEF d, Q
  <2> QED
    BY <1>1, <2>1
<1> HIDE DEF d
<1>8. L * PerPage \in Int
  BY <1>1
<1> HIDE DEF L, Q
<1> QED
  BY <1>1, <1>3, <1>4, <1>5, <1>6, <1>7, <1>8

\* A job moves on within a try, its plan kept.
LEMMA MoveShrinks ==
    ASSUME JobsInv, NEW j \in Job, Visit(j) \/ Finish(j) \/ Load(j)
    PROVE  StepsLeft(j)' < StepsLeft(j)
<1> DEFINE L == Len(jobs[j].plan)
           A == (L - task[j].at) * PerPage
           m == LeftOfTry(task[j], jobs[j])
           n == LeftOfTry(task'[j], jobs'[j])
<1>1. /\ L \in Nat /\ task[j].at \in Nat /\ PerPage = MaxRetries + 4 /\ MaxRetries \in Nat /\ A \in Int
      /\ jobs \in [Job -> GenerationJob] /\ task \in [Job -> Task] /\ task[j].retries \in Nat /\ m \in Nat
      /\ (task[j].pc # "idle" => m > 0)
  BY TaskParts, LeftTypes, LeftIsNat DEF JobsInv, TypeOK
<1>2. tries'[j] = tries[j] /\ jobs'[j].plan = jobs[j].plan
  BY <1>1 DEF Visit, Finish, Load, GenerationJob
<1>3. CASE Visit(j)
  <2>1. task[j].pc = "visit" /\ task'[j].pc = "check" /\ task'[j].at = task[j].at
    BY <1>1, <1>3 DEF Visit, Task
  <2>2. m = A + PerPage + 2 /\ n = A + MaxRetries + 5
    BY <1>2, <2>1, LeftAt
  <2> HIDE DEF m, n, A
  <2>3. n < m /\ n \in Int
    BY <1>1, <2>2
  <2> QED
    BY <1>2, <2>3, FewerLeft DEF m, n
<1>4. CASE Load(j)
  <2>1. task[j].pc = "check" /\ task'[j].pc = "generate" /\ task'[j].at = task[j].at /\ task'[j].retries = task[j].retries
    BY <1>1, <1>4 DEF Load, Task
  <2>2. m = A + MaxRetries + 5 /\ n = A + MaxRetries - task[j].retries + 4
    BY <1>2, <2>1, LeftAt
  <2> HIDE DEF m, n, A
  <2>3. n < m /\ n \in Int
    BY <1>1, <2>2
  <2> QED
    BY <1>2, <2>3, FewerLeft DEF m, n
<1>5. CASE Finish(j)
  <2>1. task[j].pc = "visit" /\ task'[j].pc = "ack" /\ task[j].at > L
    BY <1>1, <1>5 DEF Finish, Rest
  <2>2. n = 1 /\ m = A + PerPage + 2
    BY <1>2, <2>1, LeftAt
  <2>3. A + PerPage >= 0
    <3>1. task[j].at <= L + 1
      <4>1. TaskFits(task[j], jobs[j]) /\ PlanFits(jobs[j]) /\ task[j].at \in 1..(Len(Tour) + 1)
        BY TaskParts DEF Sound, Task
      <4> QED
        BY <2>1, <4>1 DEF TaskFits, PlanFits
    <3> DEFINE a == (L - task[j].at) + 1
    <3>2. L - task[j].at \in Int /\ a \in Int /\ a >= 0
      BY <1>1, <3>1
    <3>3. a * PerPage = A + PerPage
      BY <1>1, <3>2, Times
    <3>4. a * PerPage >= 0
      <4> HIDE DEF a
      <4> QED
        BY <1>1, <3>2, Times
    <3> QED
      BY <3>3, <3>4
  <2> HIDE DEF m, n, A
  <2>4. n < m /\ n \in Int
    BY <1>1, <2>2, <2>3
  <2> QED
    BY <1>2, <2>4, FewerLeft DEF m, n
<1> QED
  BY <1>3, <1>4, <1>5

\* An answer of the AI service uses up a call, or ends the page.
LEMMA GenerateShrinks ==
    ASSUME JobsInv, NEW j \in Job, NEW answer \in {"good", "similar", "error"}, Generate(j, answer)
    PROVE  StepsLeft(j)' < StepsLeft(j)
<1> DEFINE A == (Len(jobs[j].plan) - task[j].at) * PerPage
           m == LeftOfTry(task[j], jobs[j])
           n == LeftOfTry(task'[j], jobs'[j])
           r == Attempts(task[j].retries, answer)
<1>1. /\ MaxRetries \in Nat /\ A \in Int /\ task[j].retries \in Nat /\ task[j].pc = "generate"
      /\ jobs \in [Job -> GenerationJob] /\ task \in [Job -> Task] /\ UNCHANGED tries
      /\ task[j].retries <= MaxRetries
  BY TaskParts, LeftTypes DEF Sound, TaskFits, JobsInv, TypeOK, Generate
<1>2. m = A + MaxRetries - task[j].retries + 4
  BY <1>1, LeftAt
<1>3. CASE task' = [task EXCEPT ![j].pc = "save", ![j].retries = r] /\ UNCHANGED jobs
  <2>1. task'[j].pc = "save" /\ task'[j].at = task[j].at
    BY <1>1, <1>3 DEF Task
  <2>2. n = A + 3
    BY <1>3, <2>1, LeftAt
  <2> HIDE DEF m, n, A
  <2>3. n < m /\ n \in Int
    BY <1>1, <1>2, <2>2
  <2> QED
    BY <1>1, <1>3, <2>3, FewerLeft DEF m, n
<1>4. CASE /\ answer # "good" /\ ~Exhausted(r)
           /\ task' = [task EXCEPT ![j].retries = r] /\ UNCHANGED jobs
  <2>1. /\ task'[j].pc = "generate" /\ task'[j].at = task[j].at /\ task'[j].retries = task[j].retries + 1
    BY <1>1, <1>4 DEF Task, Attempts
  <2>2. n = A + MaxRetries - (task[j].retries + 1) + 4
    BY <1>4, <2>1, LeftAt
  <2> HIDE DEF m, n, A
  <2>3. n < m /\ n \in Int
    BY <1>1, <1>2, <2>2
  <2> QED
    BY <1>1, <1>4, <2>3, FewerLeft DEF m, n
<1>5. CASE Book(j, Failure(task[j].res))
  BY <1>1, <1>5, BookShrinks
<1> QED
  BY <1>3, <1>4, <1>5 DEF Generate

\* A worker that dies leaves the job one try poorer.
LEMMA CrashShrinks == ASSUME JobsInv, NEW j \in Job, Crash(j) PROVE StepsLeft(j)' < StepsLeft(j)
<1>1. task \in [Job -> Task] /\ task[j].pc # "idle" /\ task'[j].pc = "idle" /\ UNCHANGED <<jobs, tries>>
  BY DEF JobsInv, TypeOK, Crash, Rest
<1>2. LeftOfTry(task'[j], jobs'[j]) = 0 /\ LeftOfTry(task[j], jobs[j]) > 0
  BY <1>1, LeftAt, LeftIsNat
<1> QED
  BY <1>1, <1>2, FewerLeft

\* Whatever is done for a job that stays in the queue takes a step from it.
LEMMA StepShrinks ==
    ASSUME JobsInv, NEW j \in Job, WorkerStep(j) \/ Raise(j) \/ Crash(j), j \in queue'
    PROVE  StepsLeft(j)' < StepsLeft(j)
<1>1. ~Dropped(j)
  BY DEF Dropped
<1>2. CASE Skip(j) \/ Save(j)
  BY <1>2, BookShrinks DEF Skip, Save
<1> QED
  BY <1>1, <1>2, StartShrinks, MoveShrinks, GenerateShrinks, CrashShrinks
  DEF WorkerStep, Raise, Conflict, Acknowledge, GiveUp

\* Nobody else gives a job that is in the queue more to do.
LEMMA OthersKeepWork ==
    ASSUME JobsInv, [Next]_vars, NEW j \in queue, ~(WorkerStep(j) \/ Raise(j) \/ Crash(j))
    PROVE  StepsLeft(j)' = StepsLeft(j)
<1>1. /\ j \in Job /\ jobs[j].st # "unborn" /\ jobs \in [Job -> GenerationJob] /\ task \in [Job -> Task]
      /\ tries \in [Job -> Nat]
  BY DEF JobsInv, TypeOK
<1>2. tries'[j] = tries[j] /\ jobs'[j] = jobs[j] /\ task'[j] = task[j]
  <2>1. ASSUME NEW p \in Page, EditorStep(p) PROVE UNCHANGED <<jobs, tries, task>>
    BY <2>1 DEF EditorStep, OpenPage, PatchPage
  <2>2. ASSUME NEW k \in Job, ApiStep(k) PROVE tries' = tries /\ jobs'[j] = jobs[j] /\ task' = task
    BY <1>1, <2>2 DEF ApiStep, Trigger, Enqueue, EnqueueFails
  <2>3. ASSUME NEW k \in Job, k # j, WorkerStep(k) \/ Raise(k) \/ Crash(k)
        PROVE  tries'[j] = tries[j] /\ jobs'[j] = jobs[j] /\ task'[j] = task[j]
    <3>1. CASE Start(k) \/ Visit(k) \/ Finish(k) \/ Load(k) \/ Dropped(k) \/ Crash(k)
      BY <1>1, <2>3, <3>1 DEF Start, Visit, Finish, Load, Dropped, Crash
    <3>2. ASSUME NEW res, Book(k, res) PROVE jobs'[j] = jobs[j] /\ task'[j] = task[j]
      BY <1>1, <2>3, <3>2 DEF Book
    <3>3. CASE Skip(k) \/ Save(k)
      BY <3>2, <3>3 DEF Skip, Save
    <3>4. ASSUME NEW answer \in {"good", "similar", "error"}, Generate(k, answer)
          PROVE  tries'[j] = tries[j] /\ jobs'[j] = jobs[j] /\ task'[j] = task[j]
      BY <1>1, <2>3, <3>2, <3>4 DEF Generate
    <3> QED
      BY <2>3, <3>1, <3>3, <3>4 DEF WorkerStep, Conflict, Raise, Acknowledge, GiveUp
  <2>4. CASE UNCHANGED vars
    BY <2>4 DEF vars
  <2> QED
    BY <2>1, <2>2, <2>3, <2>4 DEF Next
<1> QED
  BY <1>2 DEF StepsLeft

\* Retries, restarts and pages to come are used up: every step that is taken for a job in the queue
\* leaves it fewer, and neither requests, nor editors, nor other jobs give it more (ARQ's max_tries,
\* MAX_RETRIES).
THEOREM WorkShrinksHolds == Spec => WorkShrinks
<1> DEFINE Shrinks == \A j \in queue \cap queue' :
                        StepsLeft(j)' < StepsLeft(j) \/ (StepsLeft(j)' = StepsLeft(j) /\ ~WorkerStep(j))
<1>1. ASSUME JobsInv, [Next]_vars PROVE Shrinks
  <2>1. \A j \in queue : j \in Job
    BY <1>1 DEF JobsInv, TypeOK
  <2> QED
    BY <1>1, <2>1, StepShrinks, OthersKeepWork
<1>2. JobsInv /\ [Next]_vars => [Shrinks]_vars
  BY <1>1
<1> HIDE DEF Shrinks
<1>3. Spec => [][Shrinks]_vars
  BY <1>2, JobsInvariant, PTL DEF Spec
<1> QED
  BY <1>3 DEF WorkShrinks, Shrinks

\* The steps a job can take are a number, at the start of its last try as at any other time.
LEMMA StepsLeftType == ASSUME JobsInv, NEW j \in Job PROVE StepsLeft(j) \in Nat \ {0}
<1> DEFINE R == (MaxTries[j] - tries[j]) * PerTry(jobs[j])
           m == LeftOfTry(task[j], jobs[j])
<1>1. R \in Nat /\ m \in Nat /\ StepsLeft(j) = R + m + 1
  BY LeftTypes, LeftIsNat DEF StepsLeft
<1> HIDE DEF R, m
<1> QED
  BY <1>1

\* As long as the worker can go on, every job in the queue comes closer to leaving it, however
\* many steps it still has; they are a number and get fewer, so that this happens finitely often.
THEOREM WorkProgress ==
    ASSUME NEW j \in Job, NEW n \in Nat
    PROVE  Spec /\ []NeverStuck
             => (j \in queue /\ StepsLeft(j) = n ~> j \notin queue \/ StepsLeft(j) < n)
<1> DEFINE At == j \in queue /\ StepsLeft(j) = n
           Past == j \notin queue \/ StepsLeft(j) < n
<1>1. JobsInv /\ At /\ [Next]_vars => At' \/ Past'
  <2> SUFFICES ASSUME JobsInv, At, [Next]_vars, j \in queue' PROVE StepsLeft(j)' = n \/ StepsLeft(j)' < n
    OBVIOUS
  <2> QED
    BY StepShrinks, OthersKeepWork
<1>2. JobsInv /\ At /\ <<WorkerStep(j)>>_vars => Past'
  BY StepShrinks
<1>3. NeverStuck /\ At => CanStep(j)
  BY DEF NeverStuck
<1>4. Fairness => FairTo(j)
  BY DEF Fairness
<1> HIDE DEF At, Past
<1>5. Spec /\ []NeverStuck => (At ~> Past)
  BY <1>1, <1>2, <1>3, <1>4, JobsInvariant, PTL DEF Spec, FairTo, CanStep
<1> QED
  BY <1>5 DEF At, Past
=============================================================================
