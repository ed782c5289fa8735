CONSTANTS
  t1 = t1
  t2 = t2
  t3 = t3
  t4 = t4
  fund = fund
  trade = trade
  AnyType = AnyType
  Txs = {t1, t2, t3, t4}
  Types = {fund, trade}
  Scans = {1}
  Limits = {1, 2}
  MaxTime = 3
SYMMETRY Symmetry
SPECIFICATION Spec
INVARIANTS TypeOK PagesDescend CompleteButTies
