\* Requests overlap freely.
SPECIFICATION ReviewSpec
CONSTANTS
  s1 = s1
  s2 = s2
  Principals <- MCPrincipals
  NoteAuthor <- MCNoteAuthor
  Policies <- TwoPolicies
  SubmitRequests = {s1, s2}
  Escalators = {scheduler}
  Scheduler = scheduler
  SpacedRequests = FALSE
  MaxVersion = 2
  MaxSubmissions = 2
INVARIANTS
  ApprovedHeadIsEarned
  DecisionsAreOnTheHead
SYMMETRY SubmitSymmetry
CHECK_DEADLOCK FALSE
