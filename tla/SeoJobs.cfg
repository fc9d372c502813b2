SPECIFICATION Spec
CONSTANTS
  j1 = j1
  j2 = j2
  p1 = p1
  p2 = p2
  Job = {j1, j2}
  Page = {p1, p2}
  Tour <- MCTour
  MaxRetries = 1
  MaxTries <- MCMaxTries
INVARIANTS TypeOK Accounted PublishedReviewed
PROPERTIES ContentKept
CHECK_DEADLOCK FALSE
