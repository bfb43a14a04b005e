SPECIFICATION Spec
CONSTANTS
  c1 = c1
  c2 = c2
  s1 = s1
  s2 = s2
  unit = unit
  other = other
  ann = ann
  bob = bob
  r1 = r1
  p1 = p1
  p2 = p2
  k1 = k1
  x = x
  y = y
  None = None
  Campaigns = {c1, c2}
  Subjects = {s1, s2}
  Units = {unit, other}
  Of <- Pairs
  Below <- Flat
  FirstResponses <- OneEach
  FirstUnit <- Homes
  Organisation = None
  Readers = {r1}
  Sees <- NoUnit
  SeesAll = {r1}
  Threshold = 2
  MaxResponses = 4
  MaxReflected = 1
  MaxChanges = 1
  People = {ann, bob}
  FirstLink <- Linked
  Requests = {p1, p2}
  Supervises <- NoUnits
  SupervisesAll = {bob}
  CheckIns = {k1}
  Texts = {x, y}
INVARIANTS
  GateHolds
  AssessedBlind
PROPERTIES
  RecordsAreFinal
CONSTRAINT Apart
SYMMETRY Interchangeable
CHECK_DEADLOCK FALSE
