SPECIFICATION MCSpec
CONSTANTS
  ngn = ngn
  usd = usd
  eur = eur
  alice = alice
  bob = bob
  r1 = r1
  r2 = r2
  r3 = r3
  Requests = {r1, r2, r3}
  Users = {alice, bob}
  Owner = alice
  Currencies = {ngn, usd, eur}
  NoCurrency = NoCurrency
  Ops <- MCOps
  Rates = {1, 3}
  RateScale = 2
  SeedRows = {ngn, usd}
  SeedBalance = 2
  MaxBalance = 4
  PoolSize = 2
  None = None
SYMMETRY Symmetry
INVARIANTS
  TypeOK
  Reconciled
  AnswerMatchesLedger
  FundReadsCurrent
  OnlyOpposingSwapsDeadlock
  SwapReadsCurrent
  DestinationAlwaysFound
PROPERTY
  LedgerSpec
