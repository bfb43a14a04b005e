SPECIFICATION FairSpec
CONSTANTS
  InFlight = {s1}
  MaxEdits = 2
  NoSave = NoSave
INVARIANTS
  NothingForgotten
  SavedMeansSaved
PROPERTIES
  Settles
CHECK_DEADLOCK FALSE
