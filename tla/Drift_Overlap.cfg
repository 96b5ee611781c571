\* Rehashes, scans, edits and publishes overlapping; the scheduler is on.
SPECIFICATION FairDriftSpec
CONSTANTS
  h1 = h1
  h2 = h2
  h3 = h3
  p1 = p1
  p2 = p2
  Steps = {p1}
  Sources = {policy}
  Hashes = {h1, h2}
  Scanners = {route, scheduler}
  Scheduler = scheduler
  SpacedRequests = FALSE
  MaxChanges = 1
INVARIANTS
  NoFlagDuringPublish
PROPERTY DriftIsNoticed
CHECK_DEADLOCK FALSE
