SPECIFICATION Spec
CONSTANTS
  None = None
  Req = {p1, p2}
  Crowd = {t1, t2, t3}
  Channel = {underline, c1}
  Underline = underline
  Policy = {default, strict}
  Default = default
  Given = {None, strict}
  Key = {k1}
  MaxEdits = 3
  Addr = {t1, t2, t3}
  Earn = {1}
  Spend = {2}
  MaxPoints = 3
  MaxSum = 3
  Challenge = {g1}
  Tracks <- MCTracks
  Durations = {199, 200, 15000, 15001}
  MinGesture = 200
  MaxGesture = 15000
  PauseSpeed = 50
  PassScore = 70
  RejectScore = 40
  MaxTokens = 2
  Prompt = {p1, p2}
  Ttl = {0, 1}
  Tokens = {0, 2}
  RATE_LIMIT_RPM = 3
  MaxMinute = 1
  Cat = {t1, t2, t3}
  Spu = {s1}
  Group = {group1}
  Root = Root
  MAX_CATEGORY_LEVEL = 2
  Repo = {p1, p2}
  Sha = {h1, h2}
  MaxDeliveries = 3
  Phone = {b1}
  Elsewhere = elsewhere
  Kind = {"consumer", "staff"}
  Asking = {"staff"}
  MaxSends = 2
  City = {p1, p2}
  Pinyin = {p1, p2}
  Slug = {h1}
  Service = {p1, p2}
  Incoming <- MCIncoming
  Permission = {c1}
SYMMETRY Symmetry
INVARIANTS TypesOK OnePolicy BalanceTrue OneDefaultAddress TokensSound MachinesFail CallsLogged CredentialsNameConsumers PageAbout AloneSucceeds EntitledServed
PROPERTIES DeliveriesAtomic DefaultAddressKept WithinLimits NoProductLeft CodeOnce ConflictsOverlap
CHECK_DEADLOCK FALSE
