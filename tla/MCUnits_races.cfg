SPECIFICATION Spec
CONSTANTS
  root = root
  u1 = u1
  u2 = u2
  u3 = u3
  Nodes = {root, u1, u2}
  Initial = {root, u1}
  Root = root
  Creators = {p2, p3}
  Movers = {p2, p3}
  Deleters = {p2, p3}
  MAX_DEPTH = 4
  None = None
INVARIANTS
  OneParent
PROPERTIES
  LoopsNeedARace
  NoOrphans
CHECK_DEADLOCK FALSE
