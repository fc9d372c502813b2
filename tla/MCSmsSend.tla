----------------------------- MODULE MCSmsSend -----------------------------
(* One channel with a fallback; the fallback may be asked for directly.    *)
EXTENDS SmsSend, TLC

CONSTANTS primary, backup

MCFallback == primary :> backup @@ backup :> None

Symmetry == Permutations(Req) \cup Permutations(Id)
=============================================================================
