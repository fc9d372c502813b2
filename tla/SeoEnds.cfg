SPECIFICATION Spec
CONSTANTS
  j1 = j1
  j2 = j2
  p1 = p1
  p2 = p2
  Job = {j1}
  Page = {p1, p2}
  Tour <- MCTour
  MaxRetries = 2
  MaxTries <- MCThrice
PROPERTIES EveryJobEnds
CHECK_DEADLOCK FALSE
