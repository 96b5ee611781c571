\* The handlers one at a time: every property of the review.
SPECIFICATION FairReviewSpec
CONSTANTS
  s1 = s1
  s2 = s2
  Principals <- MCPrincipals
  NoteAuthor <- MCNoteAuthor
  Policies <- AllPolicies
  SubmitRequests = {s1}
  Escalators = {route, scheduler}
  Scheduler = scheduler
  SpacedRequests = TRUE
  MaxVersion = 2
  MaxSubmissions = 2
INVARIANTS
  OnlyThisSubmissionCounts
  AuthorsNeverCount
  RemindedOnce
PROPERTIES
  TransitionsFollowTable
  OverdueIsReminded
CHECK_DEADLOCK FALSE
