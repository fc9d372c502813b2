------------------------------ MODULE SmsAdmin ------------------------------
(***************************************************************************)
(* The administration of sms-service: its channels, policies and client    *)
(* keys, the defaults it makes when it starts, and how a send finds its    *)
(* channel and its policy.                                                 *)
(*                                                                         *)
(* A writing request is one transaction at READ COMMITTED: some SELECTs,   *)
(* then a flush of the columns that differ from what it has read, and the  *)
(* COMMIT.  A channel is its default flag and its policy; a policy is its  *)
(* existence, since no property needs its numbers.                         *)
(***************************************************************************)
EXTENDS Integers, FiniteSets

CONSTANTS
    Req,       \* handler slots, and processes that start
    Channel,   \* names of channels
    Underline, \* "_default", the name of the channel made at the start
    Policy,    \* names of policies
    Default,   \* "default", the policy of a channel without one
    Given,     \* the policies that requests name for a channel, None for none
    Key,       \* client keys
    MaxEdits,  \* bound: transactions that commit
    None

SmsAdminAssumption ==
    MaxEdits \in Nat /\ Given \subseteq Policy \cup {None} /\ Underline \in Channel /\ Default \in Policy /\ None \notin Channel \cup Policy \cup Key \cup Req

VARIABLES
    channels, \* sms_channels
    policies, \* sms_policies: the names there are
    keys,     \* sms_client_keys: the channel of each key, None without a row
    req,      \* where each handler stands
    edits,    \* bound: how many transactions have committed
    clash     \* history: channels were written under an overlap and no default was set since

vars == <<channels, policies, keys, req, edits, clash>>

Flags == [isDefault : BOOLEAN, policy : Policy \cup {None}]
Requested == {f \in Flags : f.policy \in Given}
SmsChannel == Flags \cup {None}
SmsPolicies == SUBSET Policy
SmsClientKeys == [Key -> Channel \cup {None}]

Handler ==
    [pc : {"idle", "others", "write", "count", "delete", "start"},
     name : Channel \cup Policy \cup {None},
     want : Flags \cup {None},    \* the columns it was asked to write
     old : SmsChannel,            \* the row as it has read it
     clears : BOOLEAN,            \* it makes this channel the default one
     others : SUBSET Channel,     \* the other defaults it has read
     overlap : BOOLEAN]           \* history: another transaction committed meanwhile

Idle == [pc |-> "idle", name |-> None, want |-> None, old |-> None, clears |-> FALSE, others |-> {}, overlap |-> FALSE]

TypeOK ==
    /\ channels \in [Channel -> SmsChannel] /\ policies \in SmsPolicies /\ keys \in SmsClientKeys
    /\ req \in [Req -> Handler] /\ edits \in 0..MaxEdits /\ clash \in BOOLEAN
    /\ \A q \in Req : req[q].pc = "write" => req[q].name \notin req[q].others

\* Migration 0004
Init ==
    /\ channels = [c \in Channel |-> None]
    /\ policies = {}
    /\ keys = [k \in Key |-> None]
    /\ req = [q \in Req |-> Idle]
    /\ edits = 0 /\ clash = FALSE

Present == {c \in Channel : channels[c] # None}
Defaults == {c \in Present : channels[c].isDefault}
Users(p) == {c \in Present : channels[c].policy = p}

\* A transaction commits, that of handler q if it is one's: the others notice.
Committed(q) ==
    /\ edits < MaxEdits /\ edits' = edits + 1
    /\ req' = [r \in Req |-> IF r = q THEN Idle
                             ELSE IF req[r].pc = "idle" THEN req[r] ELSE [req[r] EXCEPT !.overlap = TRUE]]

Goto(q, h) == req' = [req EXCEPT ![q] = h] /\ UNCHANGED edits

----------------------------------------------------------------------------
(* Channels.                                                               *)

\* The SELECT of the row
ReadChannel(q, c, want, clears) ==
    /\ req[q].pc = "idle"
    /\ Goto(q, [Idle EXCEPT !.pc = IF clears THEN "others" ELSE "write", !.name = c,
                            !.want = want, !.old = channels[c], !.clears = clears])
    /\ UNCHANGED <<channels, policies, keys, clash>>

\* PUT
UpsertChannel(q, c, data) == ReadChannel(q, c, data, data.isDefault)

\* PATCH: the row must be there; what was not sent stays as it was read.
PatchChannel(q, c, flag, p) ==
    /\ channels[c] # None
    /\ ReadChannel(q, c, [isDefault |-> IF flag = {} THEN channels[c].isDefault ELSE flag = {TRUE}, policy |-> IF p = {} THEN channels[c].policy ELSE CHOOSE x \in p : TRUE],
                   flag = {TRUE})

\* Mutant of Rivals: the other defaults are left alone.
Rivals_None(c) == {}

\* The other channels that are the default
Rivals(c) == Defaults \ {c}

SelectOthers(q) ==
    /\ req[q].pc = "others"
    /\ Goto(q, [req[q] EXCEPT !.pc = "write", !.others = Rivals(req[q].name)])
    /\ UNCHANGED <<channels, policies, keys, clash>>

\* The row after the UPDATE of what differs from the row as read.
Columns(old, want, now) ==
    [isDefault |-> IF want.isDefault # old.isDefault THEN want.isDefault ELSE now.isDefault,
     policy |-> IF want.policy # old.policy THEN want.policy ELSE now.policy]

\* An INSERT needs the name to be free; an UPDATE of a row that has gone matches
\* nothing, which SQLAlchemy makes an error, unless nothing was to be written.
Writable(h) ==
    /\ h.others \subseteq Present
    /\ IF h.old = None THEN channels[h.name] = None
       ELSE channels[h.name] # None \/ h.want = h.old

WriteChannel(q) ==
    LET h == req[q] IN
    /\ h.pc = "write" /\ Writable(h)
    /\ channels' = [c \in Channel |->
         IF c \in h.others THEN [channels[c] EXCEPT !.isDefault = FALSE]
         ELSE IF c # h.name THEN channels[c]
         ELSE IF h.old = None THEN h.want
         ELSE IF channels[c] = None THEN None
         ELSE Columns(h.old, h.want, channels[c])]
    /\ clash' = IF h.overlap THEN TRUE ELSE clash /\ ~h.clears
    /\ Committed(q)
    /\ UNCHANGED <<policies, keys>>

\* The SELECT and the DELETE: nothing is kept from the first to the second.
DeleteChannel(c) ==
    /\ channels[c] # None
    /\ channels' = [channels EXCEPT ![c] = None]
    /\ Committed(None)
    /\ UNCHANGED <<policies, keys, clash>>

----------------------------------------------------------------------------
(* Policies and client keys.                                               *)

\* PUT, POST and PATCH of a policy, which make or keep it.
UpsertPolicy(p) ==
    /\ p \notin policies
    /\ policies' = policies \cup {p}
    /\ Committed(None)
    /\ UNCHANGED <<channels, keys, clash>>

ReadPolicy(q, p) ==
    /\ req[q].pc = "idle" /\ p \in policies
    /\ Goto(q, [Idle EXCEPT !.pc = "count", !.name = p])
    /\ UNCHANGED <<channels, policies, keys, clash>>

\* SELECT count(*) of the channels whose policy_name is p
References(p) == Cardinality(Users(p))

CountReferences(q) ==
    /\ req[q].pc = "count"
    /\ Goto(q, IF References(req[q].name) > 0 THEN Idle ELSE [req[q] EXCEPT !.pc = "delete"])
    /\ UNCHANGED <<channels, policies, keys, clash>>

DeletePolicy(q) ==
    /\ req[q].pc = "delete" /\ req[q].name \in policies
    /\ policies' = policies \ {req[q].name}
    /\ Committed(q)
    /\ UNCHANGED <<channels, keys, clash>>

\* The channel need not exist.
CreateClientKey(k, c) ==
    /\ keys[k] # c
    /\ keys' = [keys EXCEPT ![k] = c]
    /\ UNCHANGED <<channels, policies, req, edits, clash>>

DeleteClientKey(k) ==
    /\ keys[k] # None
    /\ keys' = [keys EXCEPT ![k] = None]
    /\ UNCHANGED <<channels, policies, req, edits, clash>>

\* An error or a refusal rolls back.
Fail(q) ==
    /\ req[q].pc # "idle" /\ Goto(q, Idle)
    /\ UNCHANGED <<channels, policies, keys, clash>>

----------------------------------------------------------------------------
(* The start, and what a send finds.                                       *)

\* _ensure_defaults of a process: the SELECTs.  `others' says whether there are
\* channels; `want' is not None if the policy was not found.
StartSelect(q) ==
    /\ req[q].pc = "idle"
    /\ Goto(q, [Idle EXCEPT !.pc = "start", !.others = Present,
                            !.name = IF Default \in policies THEN None ELSE Default])
    /\ UNCHANGED <<channels, policies, keys, clash>>

\* The channel that a start makes
Made(h) == IF h.others = {} THEN {Underline} ELSE {}

\* The INSERTs and the COMMIT: another process may have been faster, and then
\* this one ends.
StartCommit(q) ==
    LET h == req[q] IN
    /\ h.pc = "start"
    /\ h.name = None \/ Default \notin policies
    /\ Made(h) \cap Present = {}
    /\ policies' = IF h.name = None THEN policies ELSE policies \cup {Default}
    /\ channels' = [c \in Channel |-> IF c \in Made(h) THEN [isDefault |-> TRUE, policy |-> Default] ELSE channels[c]]
    /\ clash' = (clash \/ (h.overlap /\ Made(h) # {}))
    /\ Committed(q)
    /\ UNCHANGED keys

\* get_default_channel: any of the defaults, else the first by name.
DefaultChannel == IF Defaults # {} THEN Defaults ELSE IF Present = {} THEN {} ELSE {CHOOSE c \in Present : TRUE}

\* verify_api_key: the channels it answers, None for the default one, {} when it
\* refuses.  k is None when the header is missing.
ApiKeyChannel(k) ==
    IF \A x \in Key : keys[x] = None THEN {None}
    ELSE IF k = None \/ keys[k] = None THEN {} ELSE {keys[k]}

\* _resolve_channel_and_policy: the policies a send may run under.  A channel that
\* is not there is made up, and so is a policy.
ResolvedPolicies(name) ==
    LET found == IF name # None THEN {name} \cap Present ELSE DefaultChannel
    IN {IF channels[c].policy = None THEN Default ELSE channels[c].policy : c \in found}
         \cup (IF found = {} THEN {Default} ELSE {})

Next ==
    \/ \E q \in Req :
         \/ \E c \in Channel, data \in Requested : UpsertChannel(q, c, data)
         \/ \E c \in Channel, flag \in {{}, {TRUE}, {FALSE}}, p \in {{}} \cup {{x} : x \in Given} : PatchChannel(q, c, flag, p)
         \/ SelectOthers(q) \/ WriteChannel(q)
         \/ \E p \in Policy : ReadPolicy(q, p)
         \/ CountReferences(q) \/ DeletePolicy(q)
         \/ StartSelect(q) \/ StartCommit(q)
         \/ Fail(q)
    \/ \E c \in Channel : DeleteChannel(c)
    \/ \E p \in Policy : UpsertPolicy(p)
    \/ \E k \in Key : DeleteClientKey(k) \/ \E c \in Channel : CreateClientKey(k, c)

Spec == Init /\ [][Next]_vars

----------------------------------------------------------------------------
(* Properties.                                                             *)

\* upsert_channel and patch_channel keep one default channel: every caller's
\* sends run under one policy, whichever row the database returns first, until
\* requests that write channels overlap.
OnePolicy ==
    \A k \in Key \cup {None} : \A name \in ApiKeyChannel(k) :
        ~clash => \E p \in Policy : ResolvedPolicies(name) = {p}

\* The endpoint's description: a policy that a channel references is not deleted
\* (src/services/sms-service/app/api/v1/router.py:518); the model's comment: a
\* channel without policy_name uses `default' (app/models/sms_channel.py:23).
UsedPolicyStays ==
    [][\A q \in Req : DeletePolicy(q) /\ ~req[q].overlap
         => \A c \in Present : req[q].name \notin ResolvedPolicies(c)]_vars
=============================================================================
