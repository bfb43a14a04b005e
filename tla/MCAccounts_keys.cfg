SPECIFICATION Spec
CONSTANTS
  ann = ann
  bob = bob
  new = new
  p1 = p1
  p2 = p2
  r1 = r1
  r2 = r2
  a1 = a1
  a2 = a2
  l1 = l1
  d1 = d1
  None = None
  Users = {ann, bob, new}
  Founders = {ann, bob}
  By <- Senders
  Provisioners = {p1, p2}
  Revokers = {r1, r2}
  Activators = {a1, a2}
  Logins = {l1}
  Leavers = {d1}
  MaxRequests = 4
INVARIANTS
  LinksAreSingle
  RevokedStaysOut
  StatusTellsTheTruth
SYMMETRY Devices
CHECK_DEADLOCK FALSE
