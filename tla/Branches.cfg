\* A set with branches: edits on both sides, merges one after the other, a source that changes in between.
SPECIFICATION Spec
CONSTANTS
  Principals <- Editors
  NoteAuthor = "dana"
  Notes <- OtherNote
  Policies <- OnePolicy
  Sources = {"policy"}
  Hashes = {h1, h2}
  Changes <- Rewrites
  Cases = {}
  Accepts <- StrictWantsB
  Targets = {}
  SpacedRehashes = TRUE
  MaxNotes = 1
  MaxSets = 3
  MaxVersion = 3
  MaxBranchVersion = 2
  MaxRounds = 0
  MaxHours = 0
INVARIANT
  BehindIsFlagged
PROPERTIES
  EditsAreLocal
  MergeTakesBothSides
SYMMETRY HashSymmetry
CHECK_DEADLOCK FALSE
