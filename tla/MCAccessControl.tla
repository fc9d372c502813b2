-------------------------- MODULE MCAccessControl --------------------------
EXTENDS AccessControl, TLC

Symmetry == Permutations(Req) \cup Permutations(Role) \cup Permutations(Perm)
=============================================================================
