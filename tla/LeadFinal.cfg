SPECIFICATION Spec
CONSTANTS
  Req = {r1, r2}
  Lead = {l1}
  Key = {k1}
  Order = {o1}
  None = None
PROPERTY FinalStays
