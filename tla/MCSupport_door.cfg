SPECIFICATION Spec
CONSTANTS
  owner = owner
  staff = staff
  second = second
  acme = acme
  home = home
  desk = desk
  third = third
  e1 = e1
  e2 = e2
  q1 = q1
  l1 = l1
  m1 = m1
  None = None
  Operators = {owner, staff}
  Owners = {owner}
  Browsers = {home, desk}
  By <- OneEach
  Orgs = {acme}
  Entries = {e1, e2}
  Requests = {q1}
  Leavers = {l1}
  Managers = {m1}
  SUPPORT_SESSION_MINUTES = 2
  TTL = 2
  MaxTime = 2
INVARIANTS
  AllowedInTime
  StaffReadNoFeedback
  LeftMeansOver
SYMMETRY Visits
CHECK_DEADLOCK FALSE
