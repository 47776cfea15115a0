SPECIFICATION SigningSpec
CONSTANTS
  u1 = u1
  u2 = u2
  Closers <- TwoClosers
  Nobody = Nobody
  LastPeriod = 2
  Docs = {d1}
  MaxChanges = 2
  MaxPages = 3
  MaxDeaths = 1
SYMMETRY Symmetric
INVARIANTS
  HoleTakesTwo
  ClosesAreAccountedFor
CHECK_DEADLOCK FALSE
