\* A source that is rewritten and restored, and then re-verified.
SPECIFICATION PageSpec
CONSTANTS
  Principals <- People
  NoteAuthor = "dana"
  Notes <- SampleNotes
  Policies <- SamplePolicies
  Sources = {"refunds-v4", "week-one"}
  Hashes = {"original", "rewritten"}
  Changes <- NoChanges
  Cases = {}
  Accepts <- SampleAccepts
  Targets = {"webhook", "jira"}
  SpacedRehashes = FALSE
  MaxNotes = 3
  MaxSets = 4
  MaxVersion = 4
  MaxBranchVersion = 3
  MaxRounds = 4
  MaxHours = 8
INVARIANT ReverifiedIsCurrent
CHECK_DEADLOCK FALSE
