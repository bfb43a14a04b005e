SPECIFICATION NoticeSpec
CONSTANTS
  ann = ann
  bob = bob
  operator = operator
  unit = unit
  Everyone = Everyone
  e1 = e1
  p1 = p1
  p2 = p2
  d1 = d1
  m1 = m1
  m2 = m2
  Nobody = Nobody
  Users = {ann, bob, operator}
  Support = {operator}
  Rules = {unit}
  FirstPosts <- InUnit
  Editors = {e1}
  Publishers = {p1, p2}
  Deleters = {d1}
  Readers = {m1, m2}
  By <- Reader
  MaxChanges = 2
INVARIANTS
  PublishedIsFrozen
PROPERTIES
  ReceiptsStand
SYMMETRY Twins
CHECK_DEADLOCK FALSE
