\* One set from its note to its retirement; its source changes, targets refuse.
SPECIFICATION Spec
CONSTANTS
  Principals <- People
  NoteAuthor = "dana"
  Notes <- OneNote
  Policies <- TwoPolicies
  Sources = {"policy"}
  Hashes = {"h1", "h2"}
  Changes <- Rewordings
  Cases = {"lenient", "strict"}
  Accepts <- StrictWantsB
  Targets = {"webhook", "jira"}
  SpacedRehashes = TRUE
  MaxNotes = 1
  MaxSets = 1
  MaxVersion = 2
  MaxBranchVersion = 2
  MaxRounds = 2
  MaxHours = 1
INVARIANTS
  ServiceTypeOK
  TargetsHoldTheLiveVersion
  ApprovedHeadIsEarned
  WhoCanFinishIsAsked
PROPERTIES
  NothingStaleGoesOut
  IsReleased
CHECK_DEADLOCK FALSE
