SPECIFICATION CacheSpec
CONSTANTS
  Writers = {w1}
  Readers = {r1, r2}
  TTL = 1
  MaxTime = 2
  MaxChanges = 3
  NoEntry = NoEntry
SYMMETRY Symmetric
INVARIANTS
  DecisionsAreFresh
