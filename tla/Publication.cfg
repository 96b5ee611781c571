\* Three versions: publishes that fail and are retried, rollbacks one after the other, among
\* overlapping requests.
SPECIFICATION FairSpec
CONSTANTS
  Principals <- MCPrincipals
  NoteAuthor <- MCNoteAuthor
  Policies <- MCPolicies
  SubmitRequests = {s1}
  Escalators = {scheduler}
  Scheduler = scheduler
  SpacedRequests = FALSE
  MaxVersion = 3
  MaxSubmissions = 3
  Targets <- MCTargets
  TestRunners = {t1}
  MaxFaults = 1
INVARIANTS
  PublicationTypeOK
  GateHoldsWhileDelivering
  OnlyClearedVersionsReachTargets
  LiveVersionReachedEveryTarget
  RepostsNeedFaults
PROPERTIES
  ReviewSpec
  IsReleased
  LockIsReleased
CHECK_DEADLOCK FALSE
