SPECIFICATION Spec
CONSTANTS
  Req = {r1, r2, r3}
  Lead = {l1, l2}
  Key = {k1}
  Order = {o1}
  None = None
SYMMETRY Symmetry
INVARIANTS TypeOK TwinsOverlapped
PROPERTIES Lifecycle OrderKept
