SPECIFICATION FairSpec
CONSTANTS
  Bookers = {b1, b2}
  Editors = {e1}
  Openers = {o1}
  Deleters = {d1}
  Slots = {1, 2}
  Capacities = {1}
  None = None
INVARIANTS
  CapacityRespected
  BookingHasItsSlot
PROPERTIES
  NoAppointmentDropped
  ImplementsLedger
  EveryRequestEnds
CHECK_DEADLOCK FALSE
