SPECIFICATION Spec
CONSTANTS
  Threshold = 2
  Recovery = 1
  Req = {r1, r2}
  Rid = {k1}
  primary = primary
  backup = backup
  Channel = {primary, backup}
  Fallback <- MCFallback
  Id = {i1, i2, i3}
  None = None
SYMMETRY Symmetry
INVARIANTS TypeOK HitIsSent AgainNotSent
