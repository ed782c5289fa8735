SPECIFICATION Spec
CONSTANTS
  Bits = 7
  MaxExponent = 16
  Significand <- MCSignificand
  Ulps <- MCUlps
  Grid = 8192
  Scale = 10
  Part = 4
  Amounts = {1, 2, 3, 4, 5, 12, 28, 41}
  Rates = {1, 2, 5}
  RateScale = 3
  MaxBalance = 100
  MaxPartial = 2
  Off = 5
CONSTRAINT Followed
INVARIANT ExactInColumn
