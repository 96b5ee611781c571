\* Merges, diffs and notes: every small input of the pure functions.
SPECIFICATION Spec
CONSTANTS
  Always = Always
  Context = 1
  MaxText = 5
  MaxEntries = 2
  MaxNote = 4
INVARIANTS
  StepsTakeBothSides
  
  DiffTellsThemApart
  DiffLeadsToTheNewText
  EveryLineInOneItem
  CitationsLeadToTheText
  StepsAreComplete
  RunFollowsTheDocument
CHECK_DEADLOCK FALSE
