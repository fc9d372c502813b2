----------------------------- MODULE SeoCatalog -----------------------------
(***************************************************************************)
(* The rows that seo-service's pages are named by: cities, their districts *)
(* and, of one service type, the pages themselves, which the worker's jobs *)
(* look up and insert under a slug made of names that editors may change.  *)
(* The queue, retries, counts and the pages' status are SeoJobs'.          *)
(*                                                                         *)
(* A task loads the cities once and keeps them as loaded: the session does *)
(* not expire rows at a commit.  No row is ever deleted.                   *)
(***************************************************************************)
EXTENDS Integers, FiniteSets

CONSTANTS
    Req,     \* bound: the jobs at a time
    City,    \* the cities' slugs, by which requests name them
    Pinyin,  \* what an editor may enter instead, possibly another city's slug
    Slug,    \* the districts' slugs, unique within a city
    None,
    MaxEdits \* bound: the editors' requests

SeoCatalogAssumption ==
    /\ None \notin City \cup Pinyin /\ None \notin City \X [city : City, slug : Slug]
    /\ <<>> \notin Pinyin \cup {None}
    /\ MaxEdits \in Nat

VARIABLES
    cities,    \* city: the pinyin of each that is there
    districts, \* district
    pages,     \* seo_page, of one service
    req,       \* where the worker stands in each job
    used,      \* history: the names each city has had
    edits      \* bound: the editors' requests so far

vars == <<cities, districts, pages, req, used, edits>>

Absent == <<>>

\* city.pinyin or city.slug.
Named(c, pinyin) == IF pinyin # None THEN pinyin ELSE c

\* The first part of the slug of the city's pages.
NameOf(c) == Named(c, cities[c])

Born == {c \in City : cities[c] # Absent}

District == [city : City, slug : Slug]

\* `about': the city and the district whose text the content is.
Page == [city : City, of : District, name : City \cup Pinyin, about : City \X District]

\* A page to generate, by the name its city had when it was loaded.
Place == [city : City, of : District, name : City \cup Pinyin]

\* `seen': the page found under the slug of `at'.  History: another job ran at
\* some time while this one did.
Job == [pc : {"walk", "save"}, force : BOOLEAN, todo : SUBSET Place, at : Place \cup {None},
        seen : (City \X District) \cup {None}, overlapped : BOOLEAN]

NoJob == [pc |-> "idle"]

\* The job's row says running for ever.
RefusedJob == [pc : {"refused"}, overlapped : BOOLEAN]

\* Rows refer to rows: a district's city and a page's are there.
TypeOK ==
    /\ cities \in [City -> Pinyin \cup {None, Absent}]
    /\ districts \subseteq District
    /\ pages \subseteq Page
    /\ req \in [Req -> Job \cup RefusedJob \cup {NoJob}]
    /\ edits \in 0..MaxEdits
    /\ \A d \in districts : d.city \in Born
    /\ \A p \in pages : p.city \in Born /\ p.of \in districts
    /\ \A c \in Born : <<c, NameOf(c)>> \in used

\* The editors have entered some cities and districts, and no page is there.
Init ==
    /\ cities \in [City -> Pinyin \cup {None, Absent}]
    /\ districts \in SUBSET {d \in District : d.city \in Born}
    /\ pages = {}
    /\ req = [r \in Req |-> NoJob]
    /\ used = {<<c, NameOf(c)>> : c \in Born}
    /\ edits = 0

----------------------------------------------------------------------------
(* The editors' requests.                                                  *)

Edited == edits < MaxEdits /\ edits' = edits + 1 /\ UNCHANGED <<pages, req>>

\* POST /admin/cities, whose slug is new, and PATCH /admin/cities/{slug}, which
\* cannot clear a pinyin: nothing asks whether another city has the name.
WriteCity(c, pinyin) ==
    /\ pinyin = None => c \notin Born
    /\ cities' = [cities EXCEPT ![c] = pinyin]
    /\ used' = used \cup {<<c, Named(c, pinyin)>>}
    /\ UNCHANGED districts
    /\ Edited

\* POST /admin/districts in a city.
CreateDistrict(d) ==
    /\ d.city \in Born /\ d \notin districts
    /\ districts' = districts \cup {d}
    /\ UNCHANGED <<cities, used>>
    /\ Edited

----------------------------------------------------------------------------
(* The jobs.                                                               *)

\* Mutant of DistrictsOf: the district is looked up by its slug alone.
DistrictsOf_Any(c) == districts

DistrictsOf(c) == {d \in districts : d.city = c}

Found(place) == {p \in pages : p.name = place.name /\ p.of.slug = place.of.slug}

Running == {r \in Req : req[r].pc \in {"walk", "save"}}

\* The worker starts, or starts again, a job for the page that was asked for, or
\* for every active district of the active cities asked for (which are active
\* is left out).  It loads their rows.
Start(r, chosen, force) ==
    /\ r \notin Running
    /\ chosen \subseteq Born \X districts
    /\ \A t \in chosen : t[2] \in DistrictsOf(t[1])
    /\ req' = [x \in Req |->
                 IF x = r
                 THEN [pc |-> "walk", force |-> force, at |-> None, seen |-> None,
                       todo |-> {[city |-> t[1], of |-> t[2], name |-> NameOf(t[1])] : t \in chosen},
                       overlapped |-> Running # {}]
                 ELSE IF x \in Running THEN [req[x] EXCEPT !.overlapped = TRUE] ELSE req[x]]
    /\ UNCHANGED <<cities, districts, pages, used, edits>>

\* Mutant of Present: the page is not looked up, only inserted.
Present_None(place) == {}

\* SELECT by the slug.
Present(place) == {<<p.city, p.of>> : p \in Found(place)}

\* The next page's slug is looked up; a page that is there is passed over unless
\* the job forces.
Look(r) ==
    /\ req[r].pc = "walk"
    /\ \E t \in req[r].todo :
         LET seen == Present(t) IN
         \/ /\ seen # {} /\ ~req[r].force
            /\ req' = [req EXCEPT ![r].todo = @ \ {t}]
         \/ /\ seen = {} \/ req[r].force
            /\ \E p \in IF seen = {} THEN {None} ELSE seen :
                 req' = [req EXCEPT ![r].pc = "save", ![r].at = t, ![r].seen = p]
    /\ UNCHANGED <<cities, districts, pages, used, edits>>

\* On to the next page.
Passed(r) == req' = [req EXCEPT ![r].pc = "walk", ![r].todo = @ \ {req[r].at}, ![r].at = None,
                                ![r].seen = None]

\* The content of the page that was found is replaced by the text for the place
\* worked on; the page keeps its city, district and slug.
Rewrite(r) ==
    LET t == req[r].at IN
    /\ req[r].pc = "save" /\ req[r].seen # None
    /\ pages' = {IF <<p.city, p.of>> = req[r].seen THEN [p EXCEPT !.about = <<t.city, t.of>>]
                 ELSE p : p \in pages}
    /\ Passed(r)
    /\ UNCHANGED <<cities, districts, used, edits>>

\* The slug is unique, and so are city and district together.
Insertable(place) ==
    /\ Found(place) = {}
    /\ \A p \in pages : p.city # place.city \/ p.of # place.of

Insert(r) ==
    LET t == req[r].at IN
    /\ req[r].pc = "save" /\ req[r].seen = None /\ Insertable(t)
    /\ pages' = pages \cup {[city |-> t.city, of |-> t.of, name |-> t.name,
                             about |-> <<t.city, t.of>>]}
    /\ Passed(r)
    /\ UNCHANGED <<cities, districts, used, edits>>

\* A unique index refuses the page: the function raises, and ARQ drops the job.
Conflict(r) ==
    /\ req[r].pc = "save" /\ req[r].seen = None /\ ~Insertable(req[r].at)
    /\ req' = [req EXCEPT ![r] = [pc |-> "refused", overlapped |-> @.overlapped]]
    /\ UNCHANGED <<cities, districts, pages, used, edits>>

\* The AI service has failed too often: a batch goes on to the next page.
Skip(r) == req[r].pc = "save" /\ Passed(r) /\ UNCHANGED <<cities, districts, pages, used, edits>>

\* The job is done, or raises for another reason, times out, or its worker dies.
End(r) ==
    /\ r \in Running
    /\ req' = [req EXCEPT ![r] = NoJob]
    /\ UNCHANGED <<cities, districts, pages, used, edits>>

EditorStep ==
    \/ \E c \in City, pinyin \in Pinyin \cup {None} : WriteCity(c, pinyin)
    \/ \E d \in District : CreateDistrict(d)

JobStep(r) ==
    \/ \E chosen \in SUBSET (Born \X districts), force \in BOOLEAN : Start(r, chosen, force)
    \/ Look(r)
    \/ Rewrite(r)
    \/ Insert(r)
    \/ Conflict(r)
    \/ Skip(r)
    \/ End(r)

Next == EditorStep \/ \E r \in Req : JobStep(r)

Spec == Init /\ [][Next]_vars

----------------------------------------------------------------------------
(* Properties.                                                             *)

\* Two cities have had one name, at the same time or one after the other.
Shared == \E u, v \in used : u[1] # v[1] /\ u[2] = v[2]

Renamed == \E u, v \in used : u[1] = v[1] /\ u[2] # v[2]

\* A page shows the text of its own city and district, and the district is in
\* the city, as long as no two cities have had one name (tasks.py 65-110).
PageAbout ==
    ~Shared => \A p \in pages : p.about = <<p.city, p.of>> /\ p.of.city = p.city

\* The same without that condition, which nothing in the code enforces: pinyin
\* is not unique and may be another city's slug.
PageAboutAlways == \A p \in pages : p.about = <<p.city, p.of>>

\* A job that is alone does not fail on a unique index, as long as every city
\* keeps its name and has it to itself.
AloneSucceeds ==
    \A r \in Req : req[r].pc = "refused" => req[r].overlapped \/ Renamed \/ Shared
=============================================================================
