\* A second rollback to the same version.
SPECIFICATION Spec
CONSTANTS
  Principals <- MCPrincipals
  NoteAuthor <- MCNoteAuthor
  Policies <- MCPolicies
  SubmitRequests = {s1}
  Escalators = {scheduler}
  Scheduler = scheduler
  SpacedRequests = TRUE
  MaxVersion = 3
  MaxSubmissions = 3
  Targets <- MCTargets
  TestRunners = {t1}
  MaxFaults = 0
PROPERTY RollbackIsDelivered
CHECK_DEADLOCK FALSE
