----------------------------- MODULE PushStore -----------------------------
(***************************************************************************)
(* What git-aggregator-service promises of a push event that it answers,   *)
(* without transactions and locks: the whole delivery is stored at one     *)
(* moment.  It takes what has no row at that moment, counts just that, and *)
(* leaves every other row as it is.                                        *)
(***************************************************************************)
EXTENDS Naturals

CONSTANTS
    Repo, \* repository names
    Sha,  \* commit ids
    None

VARIABLES
    repos,    \* the repositories that are known
    commits,  \* the repository of each commit, None if it is not stored
    saved,    \* how often each commit was counted as new
    acked     \* the commits of the deliveries that were answered

vars == <<repos, commits, saved, acked>>

Init ==
    /\ repos = {} /\ commits = [s \in Sha |-> None]
    /\ saved = [s \in Sha |-> 0] /\ acked = {}

\* The commits of a push that are new
New(push) == {s \in push : commits[s] = None}

Deliver(repo, push) ==
    /\ repos' = repos \cup {repo}
    /\ commits' = [s \in Sha |-> IF s \in New(push) THEN repo ELSE commits[s]]
    /\ saved' = [s \in Sha |-> IF s \in New(push) THEN saved[s] + 1 ELSE saved[s]]
    /\ acked' = acked \cup push

Next == \E repo \in Repo, push \in SUBSET Sha : Deliver(repo, push)

Spec == Init /\ [][Next]_vars
=============================================================================
