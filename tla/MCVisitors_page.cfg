SPECIFICATION Spec
CONSTANTS
  f1 = f1
  b1 = b1
  b2 = b2
  blank = blank
  words = words
  c1 = c1
  c2 = c2
  c3 = c3
  acme = acme
  other = other
  None = None
  Own = acme
  Foreign = other
  Fillers = {f1}
  Bookers = {b1}
  Texts = {blank, words}
  Blank = blank
  Copies = {c1, c2}
  Capacity = 1
  MaxCalls = 2
  MaxLoads = 1
  Window = 1
  MaxTime = 2
  MaxRestarts = 1
INVARIANTS
  WorkedOnce
  ThanksMeansRecorded
  RecordedMeansRecorded
  OneResponsePerFill
  BookedMeansHeld
SYMMETRY Arrivals
CHECK_DEADLOCK FALSE
