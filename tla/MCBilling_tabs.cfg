SPECIFICATION PlanSpec
CONSTANTS
  PlanRequests = {r1, r2}
  Asks = {a1}
  BILLING_PERIOD = 0
  TRIAL_DAYS = 0
  MaxDay = 2
  Nothing = Nothing
SYMMETRY Symmetric
INVARIANTS
  NeverOvercharged
PROPERTIES
  JoinsOnlyClimb
  RowCatchesUpUndisturbed
