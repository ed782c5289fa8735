------------------------------- MODULE Money -------------------------------
(***************************************************************************)
(* The arithmetic of WalletService: a balance is a decimal string of the   *)
(* database, which fund and executeSwap turn into a double (parseFloat),   *)
(* add to or subtract from, and turn back (toFixed(8)).  The other modules *)
(* compute exactly; this one says when that is what the code does.         *)
(*                                                                         *)
(* The column counts units of 1/Scale.  A double is the natural number of  *)
(* grid steps 1/Grid it stands for, the grid being fine enough for the     *)
(* smallest value that occurs; the doubles are the multiples of each ulp   *)
(* below Significand times it.                                             *)
(*                                                                         *)
(* One balance is modelled, under its row lock: a swap debits one and      *)
(* credits another.                                                        *)
(***************************************************************************)
EXTENDS Integers

CONSTANTS
  Significand, \* 2^53: how many doubles lie below it times the first ulp
  Ulps,        \* the distances of neighbouring doubles, in grid steps: powers of two
  Grid,        \* grid steps to 1
  Scale,       \* units to 1: 10^8
  Part,        \* amounts in requests may be fractions k/Part of a unit
  Amounts,     \* the amounts of requests, in such parts
  Rates,       \* the rates quoted, ...
  RateScale,   \* ... over this denominator
  MaxBalance,  \* the largest numeric(20,8), in units
  MaxPartial   \* how many amounts that are no whole number of units occur

ASSUME FormatAssumption ==
  /\ Significand \in Nat \ {0} /\ Significand % 2 = 0
  /\ Ulps \subseteq Nat \ {0} /\ 1 \in Ulps
  /\ \A u \in Ulps : u = 1 \/ \E v \in Ulps : u = 2 * v
  /\ \A u, v \in Ulps : u < v => v % (2 * u) = 0
  /\ Grid \in Nat \ {0} /\ Scale \in Nat \ {0}
  /\ Part \in Nat \ {0} /\ RateScale \in Nat \ {0}

ASSUME InputsAssumption ==
  /\ Amounts \subseteq Nat \ {0} /\ Rates \subseteq Nat \ {0}
  /\ MaxBalance \in Nat /\ MaxPartial \in Nat

VARIABLES
  balance,   \* the column, in units
  recorded,  \* what the ledger rows of this balance add up to, in units
  coarse,    \* whether a double of the computation was too large (history)
  partial    \* amounts that were no whole number of units (history)

vars == <<balance, recorded, coarse, partial>>

-----------------------------------------------------------------------------
\* Doubles

\* n/d grid steps are in the range of the doubles.
Fits(n, d) == \E u \in Ulps : n < d * Significand * u

\* The distance of the doubles around n/d.
Ulp(n, d) ==
  CHOOSE u \in Ulps : /\ n < d * Significand * u
                      /\ u = 1 \/ 2 * n >= d * Significand * u

\* The double nearest to n/d grid steps, ties to even.
Nearest(n, d) ==
  LET D == d * Ulp(n, d)
      q == n \div D
      above == 2 * (n % D)
  IN Ulp(n, d) * (IF above > D \/ (above = D /\ q % 2 = 1) THEN q + 1 ELSE q)

parseFloat(units) == Nearest(units * Grid, Scale)

\* What JSON.parse makes of an amount and of a rate.
Amount(a) == Nearest(a * Grid, Scale * Part)
Rate(q) == Nearest(q * Grid, RateScale)

Plus(x, y) == Nearest(x + y, 1)
Minus(x, y) == Nearest(x - y, 1)
Times(x, y) == Nearest(x * y, Grid)

\* The nearest number of units to a double, the larger of two.
toFixed(x) == (2 * x * Scale + Grid) \div (2 * Grid)

\* Three roundings, each by half an ulp at most, can move x over half a unit of the
\* column.
TooLarge(x) == ~ \E u \in Ulps : x < Significand * u /\ 3 * u * Scale < Grid

Whole(a) == a % Part = 0

\* The decimal a swap adds to its destination.
ToAmount(a, q) == toFixed(Times(Amount(a), Rate(q)))

\* What is added to a balance.
Addends == {Amount(a) : a \in Amounts}
             \cup {parseFloat(ToAmount(a, q)) : a \in Amounts, q \in Rates}

\* Nothing overflows to Infinity: the column ends long before the doubles do, and
\* would refuse the result.
ASSUME RangeAssumption ==
  /\ \A a \in Amounts : Fits(a * Grid, Scale * Part)
  /\ \A q \in Rates : Fits(q * Grid, RateScale)
  /\ \A a \in Amounts, q \in Rates :
       Fits(Amount(a) * Rate(q), Grid) /\ Fits(ToAmount(a, q) * Grid, Scale)
  /\ \A m \in 0..MaxBalance :
       Fits(m * Grid, Scale) /\ \A y \in Addends : Fits(parseFloat(m) + y, 1)

-----------------------------------------------------------------------------

Init == balance = 0 /\ recorded = 0 /\ coarse = FALSE /\ partial = 0

\* The balance becomes the decimal of x, and the ledger row says change; a value
\* beyond the column is refused with everything else.
Update(x, change, isWhole) ==
  /\ toFixed(x) <= MaxBalance
  /\ balance' = toFixed(x)
  /\ recorded' = recorded + change
  /\ coarse' = (coarse \/ TooLarge(x) \/ TooLarge(parseFloat(balance)))
  /\ IF isWhole THEN UNCHANGED partial
     ELSE partial < MaxPartial /\ partial' = partial + 1

Fund(a) ==
  Update(Plus(parseFloat(balance), Amount(a)), toFixed(Amount(a)), Whole(a))

\* Mutant of Debit: nothing is compared.
DebitUnchecked(a) ==
  Update(Minus(parseFloat(balance), Amount(a)), -toFixed(Amount(a)), Whole(a))

\* The source of a swap.
Debit(a) ==
  /\ parseFloat(balance) >= Amount(a)
  /\ Update(Minus(parseFloat(balance), Amount(a)), -toFixed(Amount(a)), Whole(a))

\* Mutant of Credit: the product is added as it is.
CreditProduct(a, q) ==
  LET product == Times(Amount(a), Rate(q)) IN
    Update(Plus(parseFloat(balance), product), toFixed(product), TRUE)

\* Its destination: the decimal, parsed again, is what is added.
Credit(a, q) ==
  Update(Plus(parseFloat(balance), parseFloat(ToAmount(a, q))), ToAmount(a, q), TRUE)

Next == \E a \in Amounts : Fund(a) \/ Debit(a) \/ \E q \in Rates : Credit(a, q)

Spec == Init /\ [][Next]_vars

-----------------------------------------------------------------------------
\* Properties

\* No rounding makes a balance negative, whatever its size: the check compares the
\* very doubles that are subtracted.
TypeOK ==
  /\ balance \in 0..MaxBalance
  /\ recorded \in Int
  /\ coarse \in BOOLEAN
  /\ partial \in 0..MaxPartial

\* In the range of the format the balance is the exact sum of its ledger rows,
\* however long the sequence of operations: rounding to decimals after each keeps
\* errors from adding up.  But the DTOs do not limit the decimals of an amount, and
\* each amount with more than the column keeps may put the balance off by one unit.
DriftBounded ==
  ~coarse => balance - recorded \in (-partial)..partial

\* "Floating point types ... accumulate rounding errors across repeated arithmetic,
\* which is unacceptable ... numeric ... guarantees exact storage ... supports
\* balances up to 999,999,999,999.99999999" (README): with whole amounts the
\* balance agrees with its ledger rows in all of the column's range.
ExactInColumn == partial = 0 => balance = recorded

=============================================================================
