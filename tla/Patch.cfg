SPECIFICATION Spec
CHECK_DEADLOCK FALSE
CONSTANTS
  Lines <- MCLines
  Blank = ""
  Trim <- MCTrim
  Chop <- MCChop
  Bare <- MCBare
  Dashes = {"-- c"}
  Pluses = {"++ d"}
  Marks = {"*** End Patch"}
  Edits <- MCEdits
  Drifts <- MCDrifts
  MaxDropped = 1
  MaxLines = 6
  Context = 1
  Reach = 2
INVARIANTS
  DoesWhatItShows
  AllOrNothing
