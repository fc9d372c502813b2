------------------------------- MODULE Captcha ------------------------------
(***************************************************************************)
(* captcha-service: challenges and tokens, two kinds of Redis keys, and    *)
(* the verification of a gesture, which takes four commands.  Any command  *)
(* may fail, with or without its effect, and the code carries on.  Ids are *)
(* random, so none is used twice; time is left out: a key may always end.  *)
(***************************************************************************)
EXTENDS CaptchaScore

CONSTANTS
    Req,        \* handler slots
    Challenge,  \* challenge ids
    MaxTokens,  \* bound: tokens for one challenge
    None

CaptchaAssumption == MaxTokens \in Nat /\ None \notin Challenge

VARIABLES
    challenge, \* captcha:challenge:{id}: its used flag, or "absent"
    tokens,    \* captcha:token:{token}: the challenges they are for, numbered
    issued,    \* history: how many tokens a challenge has been given
    ended,     \* history: the tokens that were there and are gone
    unsaved,   \* history: the tokens whose SET failed
    req,       \* where each handler stands
    overlapped \* history: the challenges of which two verifications overlapped

vars == <<challenge, tokens, issued, ended, unsaved, req, overlapped>>

Token == Challenge \X (1..MaxTokens)

Handler == [pc : {"idle", "consume", "mark", "score", "store"}, id : Challenge \cup {None},
            track : Tracks \cup {None}, duration : Durations \cup {None}]

Idle == [pc |-> "idle", id |-> None, track |-> None, duration |-> None]

TypeOK ==
    /\ challenge \in [Challenge -> {"new", "fresh", "used", "absent"}]
    /\ tokens \subseteq Token /\ ended \subseteq Token /\ unsaved \subseteq Token
    /\ issued \in [Challenge -> 0..MaxTokens]
    /\ req \in [Req -> Handler] /\ overlapped \subseteq Challenge
    /\ tokens \cap ended = {}
    /\ \A q \in Req : req[q].pc \in {"score", "store"} => challenge[req[q].id] \in {"used", "absent"}

Init ==
    /\ challenge = [c \in Challenge |-> "new"]
    /\ tokens = {} /\ ended = {} /\ unsaved = {}
    /\ issued = [c \in Challenge |-> 0]
    /\ req = [q \in Req |-> Idle]
    /\ overlapped = {}

Goto(q, h) == req' = [req EXCEPT ![q] = h]

\* The SET fails without a word: the client has an id that is not stored.
CreateChallenge(c) ==
    /\ challenge[c] = "new"
    /\ challenge' \in {[challenge EXCEPT ![c] = x] : x \in {"fresh", "absent"}}
    /\ UNCHANGED <<tokens, issued, ended, unsaved, req, overlapped>>

\* 120 seconds later, or 30 after it was used
ExpireChallenge(c) ==
    /\ challenge[c] \in {"fresh", "used"}
    /\ challenge' = [challenge EXCEPT ![c] = "absent"]
    /\ UNCHANGED <<tokens, issued, ended, unsaved, req, overlapped>>

----------------------------------------------------------------------------
(* POST /captcha/verify                                                    *)

\* fetch_challenge, the flag and the signature
Fetch(q, c) ==
    /\ req[q].pc = "idle" /\ challenge[c] = "fresh"
    /\ Goto(q, [Idle EXCEPT !.pc = "consume", !.id = c])
    /\ overlapped' = IF \E r \in Req : req[r].id = c THEN overlapped \cup {c} ELSE overlapped
    /\ UNCHANGED <<challenge, tokens, issued, ended, unsaved>>

\* consume_challenge: GET again
ConsumeGet(q) ==
    /\ req[q].pc = "consume"
    /\ Goto(q, IF challenge[req[q].id] = "fresh" THEN [req[q] EXCEPT !.pc = "mark"] ELSE Idle)
    /\ UNCHANGED <<challenge, tokens, issued, ended, unsaved, overlapped>>

\* Mutant of Marked: the flag is set on the copy only.
Marked_Copy(state) == state

\* What the SET leaves, even of a key that has just expired
Marked(state) == "used"

\* SET with the flag and 30 seconds; an error means "already used", whether or
\* not it was done.
ConsumeSet(q) ==
    /\ req[q].pc = "mark"
    /\ challenge' = [challenge EXCEPT ![req[q].id] = Marked(@)]
    /\ Goto(q, [req[q] EXCEPT !.pc = "score"]) \/ Goto(q, Idle)
    /\ UNCHANGED <<tokens, issued, ended, unsaved, overlapped>>

\* The gesture is judged; only one that passes goes on.
Score(q, tr, d) ==
    /\ req[q].pc = "score"
    /\ \E risk \in Judged(tr, d) :
         Goto(q, IF risk = "low" THEN [req[q] EXCEPT !.pc = "store", !.track = tr, !.duration = d] ELSE Idle)
    /\ UNCHANGED <<challenge, tokens, issued, ended, unsaved, overlapped>>

\* store_token: the client gets the token, stored or not.
StoreToken(q) ==
    LET c == req[q].id IN
    /\ req[q].pc = "store" /\ issued[c] < MaxTokens
    /\ issued' = [issued EXCEPT ![c] = @ + 1]
    /\ \/ tokens' = tokens \cup {<<c, issued'[c]>>} /\ UNCHANGED unsaved
       \/ unsaved' = unsaved \cup {<<c, issued'[c]>>} /\ UNCHANGED tokens
    /\ Goto(q, Idle)
    /\ UNCHANGED <<challenge, ended, overlapped>>

\* The client leaves, or a command fails.
Fail(q) ==
    /\ req[q].pc # "idle" /\ Goto(q, Idle)
    /\ UNCHANGED <<challenge, tokens, issued, ended, unsaved, overlapped>>

\* 300 seconds later
ExpireToken(t) ==
    /\ t \in tokens
    /\ tokens' = tokens \ {t} /\ ended' = ended \cup {t}
    /\ UNCHANGED <<challenge, issued, unsaved, req, overlapped>>

\* GET /captcha/token/verify: found any number of times
Vouched(t) == t \in tokens

Next ==
    \/ \E q \in Req :
         \/ \E c \in Challenge : Fetch(q, c)
         \/ ConsumeGet(q) \/ ConsumeSet(q)
         \/ \E tr \in Tracks, d \in Durations : Score(q, tr, d)
         \/ StoreToken(q) \/ Fail(q)
    \/ \E c \in Challenge : CreateChallenge(c) \/ ExpireChallenge(c)
    \/ \E t \in tokens : ExpireToken(t)

Spec == Init /\ [][Next]_vars

----------------------------------------------------------------------------
(* Properties.                                                             *)

\* consume_challenge makes a challenge good for one token at most, unless two
\* verifications of it overlap: both then read the flag before either sets it.
\* Whatever fails or overlaps, a token vouches for a challenge that can no longer
\* be answered.
TokensSound ==
    /\ \A c \in Challenge \ overlapped : issued[c] <= 1
    /\ \A t \in Token : Vouched(t) => challenge[t[1]] \in {"used", "absent"}

\* Whatever the bell curves make of it, a gesture without any change of speed and
\* without a step back does not pass, nor does one that is too short or too long.
MachinesFail ==
    \A q \in Req : req[q].pc = "store" =>
        /\ req[q].duration \in MinGesture..MaxGesture
        /\ LET tr == req[q].track IN
             SteadySpeed(Preprocess(tr)) => \E i, j \in 1..Len(tr) : i < j /\ tr[i].x > tr[j].x
=============================================================================
