SPECIFICATION MCRouteSpec
CONSTANTS
  ngn = ngn
  usd = usd
  alice = alice
  r1 = r1
  r2 = r2
  r3 = r3
  k1 = k1
  k2 = k2
  Requests = {r1, r2, r3}
  Users = {alice}
  Owner = alice
  Currencies = {ngn, usd}
  NoCurrency = NoCurrency
  Ops <- MCOps
  Rates = {1}
  RateScale = 2
  SeedRows = {ngn}
  SeedBalance = 2
  MaxBalance = 4
  PoolSize = 2
  None = None
  Keys = {k1, k2}
  NoKey = NoKey
  MaxInFlight = 3
  MaxFaults = 1
INVARIANT RepliesReportLedger
PROPERTIES IdempotencySpec EveryRequestAnswered
