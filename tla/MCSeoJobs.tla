----------------------------- MODULE MCSeoJobs -----------------------------
(* Two pages that a batch visits in one order.  Two jobs of any kind, one  *)
(* of which is started again when its worker dies; or a job by itself,     *)
(* started up to three times.                                              *)
EXTENDS SeoJobs

CONSTANTS j1, j2, p1, p2

MCTour == <<p1, p2>>

MCMaxTries == [j \in {j1, j2} |-> IF j = j1 THEN 2 ELSE 1]

MCThrice == [j \in {j1} |-> 3]
=============================================================================
