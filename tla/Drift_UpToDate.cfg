\* A source that changes twice before the step citing it is edited.
SPECIFICATION DriftSpec
CONSTANTS
  h1 = h1
  h2 = h2
  h3 = h3
  p1 = p1
  p2 = p2
  Steps = {p1}
  Sources = {policy}
  Hashes = {h1, h2, h3}
  Scanners = {route, scheduler}
  Scheduler = scheduler
  SpacedRequests = TRUE
  MaxChanges = 2
PROPERTY EditClosesTheCurrent
CHECK_DEADLOCK FALSE
