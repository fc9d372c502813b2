------------------------------ MODULE MCLeads ------------------------------
(* Three requests, so that two settlements of a lead can overlap with a    *)
(* third request, on two leads.                                            *)
EXTENDS Leads, TLC

Symmetry == Permutations(Req) \cup Permutations(Lead)
=============================================================================
