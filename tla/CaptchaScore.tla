---------------------------- MODULE CaptchaScore ----------------------------
(***************************************************************************)
(* How captcha-service judges a slider gesture: the track is freed of      *)
(* repeated points and starts at time 0, its features are taken, and a     *)
(* weighted score decides.                                                 *)
(*                                                                         *)
(* Scores are in hundredths.  What the code computes with reals is bounded *)
(* instead: a bell curve gives anything from 0 to 1, and so does a ramp    *)
(* over a deviation that is not zero.  A gesture therefore has a set of    *)
(* possible scores, which contains the code's.                             *)
(***************************************************************************)
EXTENDS Integers, Sequences, FiniteSets

CONSTANTS
    Tracks,     \* the tracks looked at: sequences of [t, x, y], two points or more
    Durations,  \* the durations looked at, in ms
    MinGesture, \* MIN_GESTURE_DURATION_MS
    MaxGesture, \* MAX_GESTURE_DURATION_MS
    PauseSpeed, \* 1/_PAUSE_THRESHOLD_PX_PER_MS
    PassScore,  \* SCORE_PASS_THRESHOLD
    RejectScore \* SCORE_REJECT_THRESHOLD

ScoreAssumption ==
    /\ {MinGesture, MaxGesture, PauseSpeed, PassScore, RejectScore} \subseteq Nat
    /\ Durations \subseteq Nat
    /\ RejectScore <= PassScore /\ PassScore <= 100
    /\ Tracks \subseteq Seq([t : Int, x : Int, y : Int]) /\ \A tr \in Tracks : Len(tr) >= 2

\* The points of tr with an index in keep, in order.
Kept(tr, keep) ==
    LET take[i \in 0..Len(tr)] == IF i = 0 THEN << >> ELSE IF i \in keep THEN Append(take[i - 1], tr[i]) ELSE take[i - 1]
    IN take[Len(tr)]

Deduplicate(tr) == Kept(tr, {i \in 1..Len(tr) : i = 1 \/ tr[i] # tr[i - 1]})

NormaliseTimestamps(tr) == [i \in 1..Len(tr) |-> [tr[i] EXCEPT !.t = @ - tr[1].t]]

Preprocess(tr) == NormaliseTimestamps(Deduplicate(tr))

Steps(tr) == 1..(Len(tr) - 1)
DX(tr, i) == tr[i + 1].x - tr[i].x
DY(tr, i) == tr[i + 1].y - tr[i].y
DT(tr, i) == IF tr[i + 1].t <= tr[i].t THEN 1 ELSE tr[i + 1].t - tr[i].t

\* The square of the length of a step
Dist2(tr, i) == DX(tr, i) * DX(tr, i) + DY(tr, i) * DY(tr, i)

BackwardCount(tr) == Cardinality({i \in Steps(tr) : DX(tr, i) < 0})

\* Steps slower than the threshold: dist / dt < 1 / PauseSpeed
PauseCount(tr) ==
    Cardinality({i \in Steps(tr) : Dist2(tr, i) * PauseSpeed * PauseSpeed < DT(tr, i) * DT(tr, i)})

\* The standard deviation of the speeds is zero; so is then that of their changes.
SteadySpeed(tr) ==
    \A i, j \in Steps(tr) :
        Dist2(tr, i) * DT(tr, j) * DT(tr, j) = Dist2(tr, j) * DT(tr, i) * DT(tr, i)

\* The start is the end: path_ratio is 999.
Returns(tr) == tr[1].x = tr[Len(tr)].x /\ tr[1].y = tr[Len(tr)].y

Capped(weight, count) == (weight * (IF count > 3 THEN 3 ELSE count)) \div 3

\* The highest score a preprocessed track can have, by the weights: what the bell
\* curves (y_std 15, path_ratio 15, duration 20) and ramps (speed_std 20, acc_std
\* 5) can give, and what the counts do give (backward 15, pause 10).
CeilingOf(tr) ==
    (IF Len(tr) < 2 THEN 35
     ELSE 35 + (IF Returns(tr) THEN 0 ELSE 15) + (IF SteadySpeed(tr) THEN 0 ELSE 25))
      + Capped(15, BackwardCount(tr)) + Capped(10, PauseCount(tr))

\* What the counts give for sure
FloorOf(tr) == Capped(15, BackwardCount(tr)) + Capped(10, PauseCount(tr))

\* compute_score
Scores(tr) == FloorOf(tr)..CeilingOf(tr)

\* determine_risk
RiskOf(score) == IF score >= PassScore THEN "low" ELSE IF score >= RejectScore THEN "medium" ELSE "high"

\* Mutant of Judged: the duration only counts in the score.
Judged_Scored(tr, d) == {RiskOf(s) : s \in Scores(Preprocess(tr))}

\* The risk levels that a gesture may be given; "low" passes.
Judged(tr, d) ==
    IF d < MinGesture \/ d > MaxGesture THEN {"high"}
    ELSE {RiskOf(s) : s \in Scores(Preprocess(tr))}
=============================================================================
