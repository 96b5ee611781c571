\* Every section of the page, clicked through in any order within the bounds.
SPECIFICATION FairPageSpec
CONSTANTS
  Principals <- People
  NoteAuthor = "dana"
  Notes <- SampleNotes
  Policies <- SamplePolicies
  Sources = {"refunds-v4", "week-one"}
  Hashes = {"original", "rewritten"}
  Changes <- NoChanges
  Cases = {}
  Accepts <- SampleAccepts
  Targets = {"webhook", "jira"}
  SpacedRehashes = FALSE
  MaxNotes = 3
  MaxSets = 4
  MaxVersion = 4
  MaxBranchVersion = 3
  MaxRounds = 4
  MaxHours = 8
INVARIANTS
  ScriptIsAsTold
  PanelsAgreeWithTheService
PROPERTIES
  AutoplayEnds
CHECK_DEADLOCK FALSE
