--------------------------- MODULE MCAuthSession ---------------------------
(* All accounts of an instance share one business id, as a consumer and a  *)
(* merchant may: user_perm_ver does not name the account type.             *)
EXTENDS AuthSession, TLC

OneBiz == CHOOSE b \in Biz : TRUE

MCBizOf == [a \in Account |-> OneBiz]

Symmetry == Permutations(Req) \cup Permutations(RT)
=============================================================================
