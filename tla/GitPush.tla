------------------------------- MODULE GitPush --------------------------------
(***************************************************************************)
(* git-aggregator-service: the push events that POST /webhook/git stores.  *)
(*                                                                         *)
(* One delivery is one transaction: the repository is upserted, then each  *)
(* commit is inserted unless its sha is there, and its files with it.  An  *)
(* INSERT of a sha that another transaction holds waits for its end.  What *)
(* a platform sends is its headers and the commits of one push, which the  *)
(* three parsers bring into one form; authors, messages, branches and files*)
(* come with the sha and are left out.                                     *)
(***************************************************************************)
EXTENDS Integers, Sequences, FiniteSets

CONSTANTS
    Req,  \* handler slots
    Repo, \* repository names
    Sha,  \* commit ids
    MaxDeliveries, \* bound: deliveries that are answered
    None

GitAssumption == None \notin Repo /\ MaxDeliveries \in Nat

VARIABLES
    repos,    \* repositories: the names with a row
    commits,  \* commits: the repository of each sha, None without a row
    req,      \* where each handler stands
    saved,    \* history: how often each sha was among those that a 200 counted
    acked,    \* history: the shas of the deliveries answered 200
    answered  \* history: how many those are

vars == <<repos, commits, req, saved, acked, answered>>

Repositories == SUBSET Repo
Commits == [Sha -> Repo \cup {None}]

\* A push names at most two commits here, in any order, or one twice.
Push == {<<>>} \cup {<<s>> : s \in Sha} \cup (Sha \X Sha)

Handler == [pc : {"idle", "repo", "commits", "end"}, repo : Repo \cup {None}, push : Push,
            i : 1..3,          \* the commit it stores next
            mine : SUBSET Sha] \* those it has inserted

Idle == [pc |-> "idle", repo |-> None, push |-> <<>>, i |-> 1, mine |-> {}]

TypeOK ==
    /\ repos \in Repositories /\ commits \in Commits
    /\ \A s \in Sha : commits[s] \in repos \cup {None}
    /\ req \in [Req -> Handler]
    /\ saved \in [Sha -> Nat] /\ acked \subseteq Sha /\ answered \in 0..MaxDeliveries
    /\ \A q, r \in Req : q # r => req[q].mine \cap req[r].mine = {}
    /\ \A q, r \in Req : q # r /\ req[q].pc \in {"commits", "end"} /\ req[r].pc \in {"commits", "end"} => req[q].repo # req[r].repo

Init ==
    /\ repos = {} /\ commits = [s \in Sha |-> None]
    /\ req = [q \in Req |-> Idle]
    /\ saved = [s \in Sha |-> 0] /\ acked = {} /\ answered = 0

Goto(q, h) == req' = [req EXCEPT ![q] = h] /\ UNCHANGED <<repos, commits, saved, acked, answered>>

----------------------------------------------------------------------------
(* What the platform sends.                                                *)

Platform == {"codeup", "gitlab", "github"}

\* detect_provider: of several headers the first of this order counts.
Detected(headers) ==
    IF "codeup" \in headers THEN "codeup" ELSE IF "gitlab" \in headers THEN "gitlab"
    ELSE IF "github" \in headers THEN "github" ELSE "unknown"

\* verify_*: the token or the signature of the detected platform, and of no other
Verified(headers, good) == Detected(headers) \in Platform \cap good

Receive(q, repo, push) ==
    /\ req[q].pc = "idle" /\ answered < MaxDeliveries
    /\ \E headers, good \in SUBSET Platform : Verified(headers, good)
    /\ Goto(q, [Idle EXCEPT !.pc = "repo", !.repo = repo, !.push = push])

----------------------------------------------------------------------------
(* save_push_event                                                         *)

\* upsert_repository: the row is held until the transaction ends.
UpsertRepository(q) ==
    /\ req[q].pc = "repo"
    /\ \A r \in Req : req[r].repo = req[q].repo => req[r].pc \notin {"commits", "end"}
    /\ Goto(q, [req[q] EXCEPT !.pc = IF req[q].push = <<>> THEN "end" ELSE "commits"])

\* Mutant of Held: the INSERT does not wait.
Held_Never(q, s) == FALSE

Held(q, s) == \E r \in Req \ {q} : s \in req[r].mine

\* Mutant of Known: every commit is counted as new that this delivery has not inserted.
Known_Own(h, s) == s \in h.mine

\* ON CONFLICT DO NOTHING: the sha has a row, of whichever repository.
Known(h, s) == commits[s] # None \/ s \in h.mine

InsertCommit(q) ==
    LET h == req[q]
        s == h.push[h.i] IN
    /\ h.pc = "commits" /\ ~Held(q, s)
    /\ Goto(q, [h EXCEPT !.mine = IF Known(h, s) THEN @ ELSE @ \cup {s}, !.i = @ + 1,
                         !.pc = IF h.i = Len(h.push) THEN "end" ELSE "commits"])

\* The COMMIT, and the answer with the number of commits that were new.
Commit(q) ==
    LET h == req[q] IN
    /\ h.pc = "end" /\ answered < MaxDeliveries
    /\ repos' = repos \cup {h.repo}
    /\ commits' = [s \in Sha |-> IF s \in h.mine THEN h.repo ELSE commits[s]]
    /\ saved' = [s \in Sha |-> IF s \in h.mine THEN saved[s] + 1 ELSE saved[s]]
    /\ acked' = acked \cup {h.push[i] : i \in DOMAIN h.push}
    /\ answered' = answered + 1
    /\ req' = [req EXCEPT ![q] = Idle]

\* An error, or the deadlock of two deliveries that wait for each other's commits:
\* 500, and nothing of the delivery stays.
Fail(q) == req[q].pc # "idle" /\ Goto(q, Idle)

Next ==
    \E q \in Req :
        \/ \E repo \in Repo, push \in Push : Receive(q, repo, push)
        \/ UpsertRepository(q) \/ InsertCommit(q) \/ Commit(q) \/ Fail(q)

Spec == Init /\ [][Next]_vars

----------------------------------------------------------------------------
(* Properties.                                                             *)

\* save_push_event is idempotent on the sha: however deliveries repeat and overlap,
\* a delivery that was answered 200 left a row of each of its commits, and each row
\* was counted as saved by one answer, not by two and not by none.
Delivered ==
    /\ \A s \in acked : commits[s] # None
    /\ \A s \in Sha : saved[s] = IF commits[s] = None THEN 0 ELSE 1
=============================================================================
