----------------------------- MODULE Consumers ------------------------------
(***************************************************************************)
(* What consumer-service keeps for one consumer: the points balance and    *)
(* the addresses, one of which is meant to be the default.                 *)
(*                                                                         *)
(* A request is one transaction at READ COMMITTED.  The balance is read    *)
(* once and written back as a number; the default flag is cleared by an    *)
(* UPDATE whose rows are those its snapshot shows, each looked at again    *)
(* once its lock is free.  The texts of profile and addresses are left out.*)
(***************************************************************************)
EXTENDS Integers

CONSTANTS
    Req,       \* handler slots
    Addr,      \* ids of consumer_address
    Earn,      \* amounts that are added to the points
    Spend,     \* amounts that are taken from them
    MaxPoints, \* bound: the balance
    MaxSum,    \* bound: the adjustments that committed, in sum
    None

ConsumersAssumption ==
    /\ Earn \subseteq Nat /\ Spend \subseteq Nat /\ MaxPoints \in Nat /\ MaxSum \in Nat
    /\ None \notin Addr /\ None \notin BOOLEAN

VARIABLES
    points, \* consumer_account.points
    sum,    \* history: the committed adjustments, added up
    addrs,  \* consumer_address: is_default, None without a row
    req,    \* where each handler stands
    skewed, \* history: adjustments overlapped
    clash   \* history: default addresses were set under an overlap

vars == <<points, sum, addrs, req, skewed, clash>>

Account == 0..MaxPoints
Addresses == [Addr -> BOOLEAN \cup {None}]

Delta == Earn \cup {-n : n \in Spend}

Handler ==
    [pc : {"idle", "points", "clear", "lock", "address"},
     delta : Delta \cup {0}, read : 0..MaxPoints, \* of an adjustment
     addr : Addr \cup {None}, new : BOOLEAN,      \* the address, and whether it is inserted
     sets : {"default", "other", "keep"},         \* what is_default becomes
     seen : SUBSET Addr,                          \* the defaults that the UPDATE's snapshot shows
     held : SUBSET Addr,                          \* those it has cleared and locked
     overlap : BOOLEAN]

Idle == [pc |-> "idle", delta |-> 0, read |-> 0, addr |-> None, new |-> FALSE, sets |-> "keep",
         seen |-> {}, held |-> {}, overlap |-> FALSE]

DefaultAddrs == {a \in Addr : addrs[a] = TRUE}

Rows == {a \in Addr : addrs[a] # None}

Locked(a) == \E q \in Req : a \in req[q].held

TypeOK ==
    /\ points \in Account /\ sum \in -MaxSum..MaxSum
    /\ addrs \in Addresses
    /\ req \in [Req -> Handler] /\ skewed \in BOOLEAN /\ clash \in BOOLEAN
    /\ \A q, r \in Req : q # r => req[q].held \cap req[r].held = {}
    /\ \A q \in Req : req[q].held \subseteq DefaultAddrs

Init ==
    /\ points = 0 /\ sum = 0
    /\ addrs = [a \in Addr |-> None]
    /\ req = [q \in Req |-> Idle]
    /\ skewed = FALSE /\ clash = FALSE

Goto(q, h) == req' = [req EXCEPT ![q] = h]

\* Handler q commits; those that are in one of pcs notice.
Committed(q, pcs) ==
    req' = [r \in Req |-> IF r = q THEN Idle ELSE IF req[r].pc \in pcs THEN [req[r] EXCEPT !.overlap = TRUE] ELSE req[r]]

----------------------------------------------------------------------------
(* POST /internal/consumers/{id}/points                                    *)

\* Mutant of Affordable: the balance is not looked at.
Affordable_Any(balance, d) == TRUE

Affordable(balance, d) == d < 0 => balance + d >= 0

\* The SELECT, whose row both reads of the handler share.
ReadPoints(q, d) ==
    /\ req[q].pc = "idle" /\ Affordable(points, d)
    /\ Goto(q, [Idle EXCEPT !.pc = "points", !.delta = d, !.read = points])
    /\ UNCHANGED <<points, sum, addrs, skewed, clash>>

\* Mutant of Adjusted: the balance is set to the amount.
Adjusted_Set(h) == h.delta

Adjusted(h) == h.read + h.delta

\* UPDATE ... SET points = a number, and the COMMIT
WritePoints(q) ==
    LET h == req[q] IN
    /\ h.pc = "points" /\ Adjusted(h) <= MaxPoints
    /\ sum + h.delta \in -MaxSum..MaxSum
    /\ points' = Adjusted(h) /\ sum' = sum + h.delta
    /\ skewed' = (skewed \/ h.overlap)
    /\ Committed(q, {"points"})
    /\ UNCHANGED <<addrs, clash>>

----------------------------------------------------------------------------
(* Addresses.                                                              *)

\* Mutant of AfterRead: an address that is made the default clears no other.
AfterRead_Write(sets) == "address"

\* Only a request that sets the flag clears the others' first.
AfterRead(sets) == IF sets = "default" THEN "clear" ELSE "address"

\* The address is read, except by POST; what is written to the flag is decided
\* from the row as read: it is set again even if it was set, and removed only if
\* it was.
Begin(q, a, new, sets) ==
    /\ req[q].pc = "idle"
    /\ Goto(q, [Idle EXCEPT !.pc = AfterRead(sets), !.addr = a, !.new = new, !.sets = sets])
    /\ UNCHANGED <<points, sum, addrs, skewed, clash>>

\* create_address: an id that is not used again
CreateAddress(q, a, sets) ==
    /\ addrs[a] = None /\ sets # "keep" /\ \A r \in Req : req[r].addr # a
    /\ Begin(q, a, TRUE, sets)

\* update_address, and set_default_address, which sets the flag alone
UpdateAddress(q, a, sets) ==
    /\ addrs[a] # None
    /\ Begin(q, a, FALSE, IF sets = "other" /\ ~addrs[a] THEN "keep" ELSE sets)

\* _clear_default: the snapshot of the UPDATE
ClearDefault(q) ==
    /\ req[q].pc = "clear"
    /\ Goto(q, [req[q] EXCEPT !.pc = "lock", !.seen = DefaultAddrs])
    /\ UNCHANGED <<points, sum, addrs, skewed, clash>>

\* It has waited for the rows, and takes those that are still defaults.
TakeDefaults(q) ==
    LET h == req[q] IN
    /\ h.pc = "lock" /\ \A a \in h.seen : ~Locked(a)
    /\ Goto(q, [h EXCEPT !.pc = "address", !.held = h.seen \cap DefaultAddrs, !.seen = {}])
    /\ UNCHANGED <<points, sum, addrs, skewed, clash>>

\* Mutant of FlagAfter: a row that was the default already is not set again.
FlagAfter_Skipped(h) == h.sets = "default" /\ h.addr \notin h.held

FlagAfter(h) == h.sets = "default"

\* The flush and the COMMIT.  An UPDATE of a row that has been deleted is an
\* error; one that changes no column is not sent.
WriteAddress(q) ==
    LET h == req[q] IN
    /\ h.pc = "address"
    /\ h.new \/ h.sets = "keep" \/ addrs[h.addr] # None
    /\ \A r \in Req \ {q} : h.addr \notin req[r].held
    /\ addrs' = [a \in Addr |-> IF a = h.addr /\ h.sets # "keep" THEN FlagAfter(h)
                                ELSE IF a \in h.held THEN FALSE ELSE addrs[a]]
    /\ clash' = IF h.sets # "default" THEN clash ELSE h.overlap
    /\ Committed(q, IF h.sets = "default" THEN {"lock", "address"} ELSE {})
    /\ UNCHANGED <<points, sum, skewed>>

DeleteAddress(a) ==
    /\ addrs[a] # None /\ ~Locked(a)
    /\ addrs' = [addrs EXCEPT ![a] = None]
    /\ UNCHANGED <<points, sum, req, skewed, clash>>

\* An error, a refusal or a deadlock that PostgreSQL breaks: rolled back.
Fail(q) ==
    /\ req[q].pc # "idle" /\ Goto(q, Idle)
    /\ UNCHANGED <<points, sum, addrs, skewed, clash>>

Next ==
    \/ \E q \in Req :
         \/ \E d \in Delta : ReadPoints(q, d)
         \/ WritePoints(q)
         \/ \E a \in Addr, sets \in {"default", "other", "keep"} : CreateAddress(q, a, sets) \/ UpdateAddress(q, a, sets)
         \/ ClearDefault(q) \/ TakeDefaults(q) \/ WriteAddress(q)
         \/ Fail(q)
    \/ \E a \in Addr : DeleteAddress(a)

Spec == Init /\ [][Next]_vars

----------------------------------------------------------------------------
(* Properties.                                                             *)

\* adjust_points: the balance is the sum of the adjustments that committed, until
\* two of them overlap: then one is lost.  (That it is never negative, even so,
\* is part of TypeOK: what is written is what was read, and affordable.)
BalanceTrue == ~skewed => points = sum

\* _clear_default keeps one default address, until requests that set one overlap;
\* the next that is alone repairs it.
OneDefaultAddress == ~clash => \A a, b \in DefaultAddrs : a = b

\* However requests overlap, a consumer with a default address keeps one, until
\* a default is deleted or unset.
KeepsDefault ==
    DefaultAddrs # {} /\ DefaultAddrs' = {} =>
        \E a \in DefaultAddrs : addrs'[a] = None \/ \E q \in Req : req[q].addr = a /\ req[q].sets = "other"

DefaultAddressKept == [][KeepsDefault]_vars
=============================================================================
