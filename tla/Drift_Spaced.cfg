\* One change, scan or edit at a time.
SPECIFICATION DriftSpec
CONSTANTS
  h1 = h1
  h2 = h2
  h3 = h3
  p1 = p1
  p2 = p2
  Steps = {p1, p2}
  Sources = {policy}
  Hashes = {h1, h2, h3}
  Scanners = {route, scheduler}
  Scheduler = scheduler
  SpacedRequests = TRUE
  MaxChanges = 3
SYMMETRY Symmetry
INVARIANTS
  DriftTypeOK
  FlagsAreSound
  DriftIsAccountedFor
CHECK_DEADLOCK FALSE
