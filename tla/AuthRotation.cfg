SPECIFICATION Spec
CONSTANTS
  Req = {r1, r2}
  RT = {t1, t2, t3}
  Account = {consumer, merchant}
  Biz = {biz}
  BizOf <- MCBizOf
  Sliding = {consumer}
  None = None
  AccessTTL = 1
  VerTTL = 2
  RtTTL = 3
  ReqMax = 1
  MaxVer = 1
SYMMETRY Symmetry
INVARIANT RotationOneTime
