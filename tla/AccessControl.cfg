SPECIFICATION Spec
CONSTANTS
  Req = {q1, q2}
  Admin = {a1}
  Role = {r1, r2}
  Perm = {p1, p2}
  Code = {star, view}
  Star = star
  Defaults = {view}
  MaxEdits = 3
  None = None
SYMMETRY Symmetry
INVARIANTS TypeOK LoginFresh CacheAgrees
PROPERTIES SeedRepairs
