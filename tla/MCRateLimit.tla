---------------------------- MODULE MCRateLimit ----------------------------
(* A per-minute and a per-day check, scaled down: one request in 6 ticks,  *)
(* two in 7.                                                               *)
EXTENDS RateLimit, TLC

MCLimit == <<1, 2>>
MCWindow == <<6, 7>>

Symmetry == Permutations(Req)
=============================================================================
