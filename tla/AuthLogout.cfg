SPECIFICATION Spec
CONSTANTS
  Req = {r1}
  RT = {t1, t2, t3}
  Account = {consumer, merchant}
  Biz = {biz}
  BizOf <- MCBizOf
  Sliding = {consumer}
  None = None
  AccessTTL = 2
  VerTTL = 2
  RtTTL = 2
  ReqMax = 0
  MaxVer = 2
SYMMETRY Symmetry
INVARIANT LogoutInvalidates
