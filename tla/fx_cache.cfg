SPECIFICATION Spec
CONSTANTS
  r1 = r1
  r2 = r2
  r3 = r3
  Requests = {r1, r2, r3}
  FreshTTL = 2
  StaleTTL = 3
  Attempts = 2
  Latency = 1
  MaxFaults = 1
  MaxTime = 4
SYMMETRY Symmetry
INVARIANTS
  TypeOK
  AgeBounded
  RegressBounded
  FallbackBehindFresh
  StaleOnlyAfterFailure
PROPERTY FallbackUsed
