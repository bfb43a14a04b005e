SPECIFICATION Spec
CONSTANTS
  r1 = r1
  r2 = r2
  r3 = r3
  m1 = m1
  m2 = m2
  Launchers = {l1}
  Closers = {c1}
  Updaters = {u1}
  Savers = {s1}
  Respondents = {r1, r2, r3}
  Members = {m1}
  MemberOf <- DoubleClickAndStranger
  Original = Original
  MaxTime = 1
  None = None
INVARIANTS
  OneResponsePerMember
  PromiseKept
  StatusFiltersAgree
PROPERTIES
  AnswersAsked
  ImplementsSurvey
CHECK_DEADLOCK FALSE
