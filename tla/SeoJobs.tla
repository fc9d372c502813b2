------------------------------ MODULE SeoJobs ------------------------------
(***************************************************************************)
(* Page generation in seo-service: the API stores a job and puts it in the *)
(* ARQ queue, a worker walks over the job's pages, asks the AI service for *)
(* texts and stores them, while editors change the status of pages.        *)
(*                                                                         *)
(* Every action ends at a commit, at a SELECT whose result is used later   *)
(* or at a call of the AI service.  The worker's session loads a page      *)
(* before that call and writes it afterwards: the ORM then writes only the *)
(* columns whose value differs from the one it loaded.  ARQ delivers a job *)
(* again when a worker dies, a bounded number of times, and drops a job    *)
(* whose function raises or takes too long.                                *)
(***************************************************************************)
EXTENDS Integers, Sequences, FiniteSets

CONSTANTS
    Job,        \* bound: the jobs that are triggered
    Page,       \* one per city, district and service
    Tour,       \* the pages a batch visits, in its order
    MaxRetries, \* MAX_RETRIES
    MaxTries    \* ARQ's max_tries; of each job, so that an instance can be small

ASSUME SeoAssumption ==
    /\ Tour \in Seq(Page)
    /\ \A m, n \in 1..Len(Tour) : m # n => Tour[m] # Tour[n]
    /\ MaxRetries \in Nat /\ MaxTries \in [Job -> Nat \ {0}]
    /\ "no page" \notin Page

VARIABLES
    jobs,       \* generation_job
    handler,    \* the jobs whose API request is still to put them in the queue
    queue,      \* the jobs ARQ holds, waiting or being worked on
    tries,      \* how often ARQ has started each job
    task,       \* where the worker stands in each job
    pages,      \* seo_page
    edit        \* the PATCH request under way; bound: at most one at a time

vars == <<jobs, handler, queue, tries, task, pages, edit>>

Counts == [total : Nat, created : Nat, skipped : Nat, failed : Nat]

Zero == [total |-> 0, created |-> 0, skipped |-> 0, failed |-> 0]

Plans == {<<p>> : p \in Page} \cup {Tour}

GenerationJob ==
    [st : {"unborn", "pending", "running", "done"}, kind : {"single", "batch"},
     plan : Plans, force : BOOLEAN, res : Counts]

PageStatus == {"draft", "published", "needs_review"}

\* `text' flips whenever the content is written.  `reviewed' is history: the
\* content is the one that the PATCH which published the page had read; so is
\* `raced': that PATCH and some generation overlapped.
SeoPage ==
    [st : PageStatus \cup {"absent"}, text : BOOLEAN, reviewed : BOOLEAN, raced : BOOLEAN]

NoPage == [st |-> "absent", text |-> FALSE, reviewed |-> FALSE, raced |-> FALSE]

\* `seen' is the status the session loaded of the page it works on.
Task ==
    [pc : {"idle", "visit", "check", "generate", "save", "ack"}, at : 1..(Len(Tour) + 1),
     res : Counts, seen : PageStatus \cup {"absent"},
     retries : 0..(MaxRetries + 1)]

Rest == [pc |-> "idle", at |-> 1, res |-> Zero, seen |-> "absent", retries |-> 0]

\* `touched': the content was written since the editor opened the page.
Edit == [on : Page, to : PageStatus, touched : BOOLEAN]

NoEdit == [on |-> "no page"]

\* Types; the worker works only on what ARQ holds.
TypeOK ==
    /\ jobs \in [Job -> GenerationJob]
    /\ handler \subseteq Job /\ queue \subseteq Job
    /\ tries \in [Job -> Nat] /\ \A j \in Job : tries[j] <= MaxTries[j]
    /\ task \in [Job -> Task]
    /\ pages \in [Page -> SeoPage]
    /\ edit \in Edit \cup {NoEdit}
    /\ \A j \in Job : task[j].pc # "idle" => j \in queue

Init ==
    /\ jobs = [j \in Job |-> [st |-> "unborn", kind |-> "batch", plan |-> Tour,
                              force |-> FALSE, res |-> Zero]]
    /\ handler = {} /\ queue = {}
    /\ tries = [j \in Job |-> 0]
    /\ task = [j \in Job |-> Rest]
    /\ pages = [p \in Page |-> NoPage]
    /\ edit = NoEdit

Exists(p) == pages[p].st # "absent"

\* The page task j works on.
Current(j) == jobs[j].plan[task[j].at]

----------------------------------------------------------------------------
(* The API.                                                                *)

\* POST /generate and /generate/batch: the job is committed.  A single page
\* that exists is not generated again unless forced.
Trigger(j, kind, plan, force) ==
    /\ jobs[j].st = "unborn"
    /\ kind = "batch" => plan = Tour
    /\ kind = "single" => Len(plan) = 1 /\ (force \/ ~Exists(plan[1]))
    /\ jobs' = [jobs EXCEPT ![j] = [st |-> "pending", kind |-> kind, plan |-> plan,
                                    force |-> force, res |-> Zero]]
    /\ handler' = handler \cup {j}
    /\ UNCHANGED <<queue, tries, task, pages, edit>>

Enqueue(j) ==
    /\ j \in handler
    /\ handler' = handler \ {j}
    /\ queue' = queue \cup {j}
    /\ UNCHANGED <<jobs, tries, task, pages, edit>>

\* Redis cannot be reached, or the process dies: the job stays pending.  (If
\* only Redis's answer is lost, the job is in the queue: Enqueue.)
EnqueueFails(j) ==
    /\ j \in handler
    /\ handler' = handler \ {j}
    /\ UNCHANGED <<jobs, queue, tries, task, pages, edit>>

----------------------------------------------------------------------------
(* The worker.                                                             *)

\* The job is set to running and committed; pages, districts and services are
\* never deleted, so a single job finds the ones its request has found.
Start(j) ==
    /\ j \in queue /\ task[j].pc = "idle" /\ tries[j] < MaxTries[j]
    /\ jobs' = [jobs EXCEPT ![j].st = "running"]
    /\ tries' = [tries EXCEPT ![j] = @ + 1]
    /\ task' = [task EXCEPT ![j] = IF jobs[j].kind = "single"
                                   THEN [Rest EXCEPT !.pc = "check", !.res.total = 1]
                                   ELSE [Rest EXCEPT !.pc = "visit"]]
    /\ UNCHANGED <<handler, queue, pages, edit>>

\* A batch commits its counts before each page.
Visit(j) ==
    /\ task[j].pc = "visit" /\ task[j].at <= Len(jobs[j].plan)
    /\ LET res == [task[j].res EXCEPT !.total = @ + 1] IN
         /\ jobs' = [jobs EXCEPT ![j].res = res]
         /\ task' = [task EXCEPT ![j].pc = "check", ![j].res = res]
    /\ UNCHANGED <<handler, queue, tries, pages, edit>>

\* After the last page a batch is done.
Finish(j) ==
    /\ task[j].pc = "visit" /\ task[j].at > Len(jobs[j].plan)
    /\ jobs' = [jobs EXCEPT ![j].st = "done", ![j].res = task[j].res]
    /\ task' = [task EXCEPT ![j] = [Rest EXCEPT !.pc = "ack"]]
    /\ UNCHANGED <<handler, queue, tries, pages, edit>>

\* A page is dealt with, and counted in res.  A single job is done with it, in
\* the same commit; a batch goes on to the next page.
Book(j, res) ==
    IF jobs[j].kind = "single"
    THEN /\ jobs' = [jobs EXCEPT ![j].st = "done", ![j].res = res]
         /\ task' = [task EXCEPT ![j] = [Rest EXCEPT !.pc = "ack"]]
    ELSE /\ task' = [task EXCEPT ![j] = [Rest EXCEPT !.pc = "visit", !.at = task[j].at + 1,
                                                     !.res = res]]
         /\ UNCHANGED jobs

\* The page exists and the job does not force.
Skip(j) ==
    /\ task[j].pc = "check"
    /\ Exists(Current(j)) /\ ~jobs[j].force
    /\ Book(j, [task[j].res EXCEPT !.skipped = @ + 1])
    /\ UNCHANGED <<handler, queue, tries, pages, edit>>

\* The session has loaded the page, if any.
Load(j) ==
    LET p == Current(j) IN
    /\ task[j].pc = "check"
    /\ jobs[j].force \/ ~Exists(p)
    /\ task' = [task EXCEPT ![j].pc = "generate", ![j].seen = pages[p].st]
    /\ UNCHANGED <<jobs, handler, queue, tries, pages, edit>>

\* Mutant of Exhausted: one more attempt.
Exhausted_Late(n) == n > MaxRetries + 1

Exhausted(n) == n > MaxRetries

\* Mutant of Attempts: any text the service returns resets the count.
Attempts_Reset(n, answer) == IF answer = "error" THEN n + 1 ELSE 0

\* Failed attempts after this answer of the AI service.
Attempts(n, answer) == IF answer = "good" THEN n ELSE n + 1

\* Mutant of Failure: the failure is not counted.
Failure_Uncounted(res) == res

Failure(res) == [res EXCEPT !.failed = @ + 1]

\* One call of the AI service: a text, one too similar to another page's, or an
\* error.  The last attempt's text is kept though it is similar; its error ends
\* the page.
Generate(j, answer) ==
    LET n == Attempts(task[j].retries, answer) IN
    /\ task[j].pc = "generate"
    /\ answer = "similar" => \E o \in Page \ {Current(j)} : Exists(o)
    /\ \/ /\ answer = "good" \/ (answer = "similar" /\ Exhausted(n))
          /\ task' = [task EXCEPT ![j].pc = "save", ![j].retries = n]
          /\ UNCHANGED jobs
       \/ /\ answer # "good" /\ ~Exhausted(n)
          /\ task' = [task EXCEPT ![j].retries = n]
          /\ UNCHANGED jobs
       \/ /\ answer = "error" /\ Exhausted(n)
          /\ Book(j, Failure(task[j].res))
    /\ UNCHANGED <<handler, queue, tries, pages, edit>>

StatusAfter(n) == IF Exhausted(n) THEN "needs_review" ELSE "draft"

\* Mutant of Regenerated: the status of an existing page is not touched.
Regenerated_ContentOnly(row, seen, st) == [row EXCEPT !.text = ~@, !.reviewed = FALSE]

\* The UPDATE of a loaded page: the content always, the status when it differs
\* from the loaded one.
Regenerated(row, seen, st) ==
    [row EXCEPT !.st = IF st = seen THEN @ ELSE st, !.text = ~@, !.reviewed = FALSE,
                !.raced = @ /\ st = seen]

\* Mutant of Insertable: the slug is not unique, the later page wins.
Insertable_Always(row) == TRUE

\* Slug and combination are unique.
Insertable(row) == row.st = "absent"

Save(j) ==
    LET p == Current(j)
        t == task[j]
        st == StatusAfter(t.retries) IN
    /\ t.pc = "save"
    /\ t.seen = "absent" => Insertable(pages[p])
    /\ pages' = [pages EXCEPT ![p] = IF t.seen = "absent"
                                     THEN [NoPage EXCEPT !.st = st, !.text = ~pages[p].text]
                                     ELSE Regenerated(@, t.seen, st)]
    /\ edit' = IF edit.on = p THEN [edit EXCEPT !.touched = TRUE] ELSE edit
    /\ Book(j, [t.res EXCEPT !.created = @ + 1])
    /\ UNCHANGED <<handler, queue, tries>>

\* ARQ forgets job j; what the job's row says stays.
Dropped(j) ==
    /\ queue' = queue \ {j}
    /\ task' = [task EXCEPT ![j] = Rest]
    /\ UNCHANGED <<jobs, handler, tries, pages, edit>>

\* Another job has inserted the page since it was looked for: the function
\* raises, and the job's status stays running.
Conflict(j) ==
    /\ task[j].pc = "save" /\ task[j].seen = "absent" /\ ~Insertable(pages[Current(j)])
    /\ Dropped(j)

\* The function raises on a failing command, or runs into ARQ's job timeout.
Raise(j) == task[j].pc \notin {"idle", "ack"} /\ Dropped(j)

\* The function has returned.
Acknowledge(j) == task[j].pc = "ack" /\ Dropped(j)

\* The job was started too often.
GiveUp(j) == j \in queue /\ task[j].pc = "idle" /\ tries[j] = MaxTries[j] /\ Dropped(j)

\* The worker dies or is shut down: another one starts the job again.
Crash(j) ==
    /\ task[j].pc # "idle"
    /\ task' = [task EXCEPT ![j] = Rest]
    /\ UNCHANGED <<jobs, handler, queue, tries, pages, edit>>

----------------------------------------------------------------------------
(* Editors: PATCH /pages/{slug}, SELECT and then UPDATE.                   *)

\* Some task has loaded page p and not yet written it.
Loaded(p) == \E j \in Job : task[j].pc \in {"generate", "save"} /\ Current(j) = p

\* The status is written only if it differs from the loaded one; a PATCH that
\* changes nothing is left out.
OpenPage(p, st) ==
    /\ edit = NoEdit
    /\ Exists(p) /\ pages[p].st # st
    /\ edit' = [on |-> p, to |-> st, touched |-> FALSE]
    /\ UNCHANGED <<jobs, handler, queue, tries, task, pages>>

PatchPage(p) ==
    /\ edit # NoEdit /\ edit.on = p
    /\ pages' = [pages EXCEPT
                   ![p].st = edit.to,
                   ![p].reviewed = (edit.to = "published" /\ ~edit.touched),
                   ![p].raced = (edit.to = "published" /\ (edit.touched \/ Loaded(p)))]
    /\ edit' = NoEdit
    /\ UNCHANGED <<jobs, handler, queue, tries, task>>

ApiStep(j) ==
    \/ \E kind \in {"single", "batch"}, plan \in Plans, force \in BOOLEAN :
         Trigger(j, kind, plan, force)
    \/ Enqueue(j)
    \/ EnqueueFails(j)

WorkerStep(j) ==
    \/ Start(j)
    \/ Visit(j)
    \/ Finish(j)
    \/ Skip(j)
    \/ Load(j)
    \/ \E answer \in {"good", "similar", "error"} : Generate(j, answer)
    \/ Save(j)
    \/ Conflict(j)
    \/ Acknowledge(j)
    \/ GiveUp(j)

EditorStep(p) == PatchPage(p) \/ \E st \in {"draft", "published"} : OpenPage(p, st)

Next ==
    \/ \E j \in Job : ApiStep(j) \/ WorkerStep(j) \/ Raise(j) \/ Crash(j)
    \/ \E p \in Page : EditorStep(p)

\* A worker polls the queue, and no await of a job lasts for ever: the AI call
\* has a timeout of 60 s.
FairTo(j) == WF_vars(WorkerStep(j))
Fairness == \A j \in Job : FairTo(j)

Spec == Init /\ [][Next]_vars /\ Fairness

----------------------------------------------------------------------------
(* Properties.                                                             *)

Present(j) == {n \in 1..Len(jobs[j].plan) : Exists(jobs[j].plan[n])}

\* What GET /generate/jobs/{id} answers, at any moment and after any number of
\* restarts and overlapping jobs: the pages counted as created or skipped are
\* there, and a job that is done has accounted for every page of its plan.
Accounted ==
    \A j \in Job :
        LET res == jobs[j].res IN
        /\ res.created + res.skipped <= Cardinality(Present(j))
        /\ jobs[j].st = "done" => /\ res.total = Len(jobs[j].plan)
                                  /\ res.total = res.created + res.skipped + res.failed

\* Without `force' a page that is there is never generated again, though
\* another job inserted it after this one looked, or this one before a restart.
ContentKept ==
    [][\A p \in Page :
         Exists(p) /\ pages'[p].text # pages[p].text
         => \E j \in Job : jobs[j].force /\ task[j].pc = "save" /\ Current(j) = p]_vars

\* A page that is published shows the content that the publishing PATCH had
\* read, unless that PATCH ran while a generation of the page was under way: a
\* forced generation takes a published page back to draft, or needs_review.
PublishedReviewed ==
    \A p \in Page : pages[p].st = "published" /\ ~pages[p].reviewed => pages[p].raced

\* A job in the queue leaves it again, whatever the AI service answers and
\* however often the worker dies: retries and restarts come to an end.
EveryJobEnds == \A j \in Job : j \in queue ~> j \notin queue

\* The steps that job j can still take: what is left of this try, and of the
\* tries that ARQ will make after it.  A page is visited and looked for, the AI
\* service called up to MaxRetries + 1 times, and the answer saved.
PerPage == MaxRetries + 4
PerTry(g) == Len(g.plan) * PerPage + 3
LeftOfTry(h, g) ==
    LET after == (Len(g.plan) - h.at) * PerPage IN
    CASE h.pc = "idle" -> 0
      [] h.pc = "visit" -> after + PerPage + 2
      [] h.pc = "check" -> after + MaxRetries + 5
      [] h.pc = "generate" -> after + MaxRetries - h.retries + 4
      [] h.pc = "save" -> after + 3
      [] h.pc = "ack" -> 1
StepsLeft(j) == (MaxTries[j] - tries[j]) * PerTry(jobs[j]) + LeftOfTry(task[j], jobs[j]) + 1

\* Whatever a worker does for a job that stays in the queue, its death included,
\* leaves it with fewer steps to take, and nobody else gives it more.
WorkShrinks ==
    [][\A j \in queue \cap queue' :
          StepsLeft(j)' < StepsLeft(j) \/ (StepsLeft(j)' = StepsLeft(j) /\ ~WorkerStep(j))]_vars

\* The worker can always go on with a job that is in the queue.
CanStep(j) == ENABLED <<WorkerStep(j)>>_vars
NeverStuck == \A j \in queue : CanStep(j)
=============================================================================
