SPECIFICATION Spec
CONSTANTS
  Req = {r1, r2}
  RT = {t1, t2}
  Account = {consumer, merchant}
  Biz = {biz}
  BizOf <- MCBizOf
  Sliding = {consumer}
  None = None
  AccessTTL = 2
  VerTTL = 3
  RtTTL = 2
  ReqMax = 1
  MaxVer = 2
SYMMETRY Symmetry
INVARIANTS TypeOK SoundLogoutSticks WindowKept RotatedParentGone
