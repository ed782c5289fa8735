---------------------------- MODULE MoneyProofs ----------------------------
(***************************************************************************)
(* The arithmetic of balances for every binary format, column and sequence *)
(* of operations: exact below the size at which doubles become coarse.     *)
(***************************************************************************)
EXTENDS Money, FiniteSetTheorems, WellFoundedInduction, TLAPS

\* Division with remainder.
LEMMA Division ==
  ASSUME NEW n \in Nat, NEW D \in Nat \ {0}
  PROVE  \E q \in Nat, r \in 0..(D - 1) : q = n \div D /\ r = n % D /\ n = D * q + r
<1>1. PICK r \in Int : r = n % D /\ n - r = D * (n \div D)
  <2>1. \E r \in Int : r = n % D /\ n - r = D * (n \div D)
    BY SMTT(20)
  <2> QED
    BY <2>1
<1>2. n % D \in 0..(D - 1) /\ n \div D \in Nat
  OBVIOUS
<1>3. PICK q \in Nat : q = n \div D
  BY <1>2
<1>4. n - r = D * q
  BY <1>1, <1>3
<1>5. n = D * q + r /\ r \in 0..(D - 1)
  BY <1>1, <1>2, <1>4
<1> QED
  BY <1>1, <1>3, <1>5

\* Half of the doubles below a power of two have a full significand.
LEMMA SignificandEven == \E h \in Nat : Significand = 2 * h
<1>1. PICK h \in Nat, r \in 0..1 : r = Significand % 2 /\ Significand = 2 * h + r
  <2>1. Significand \in Nat /\ 2 \in Nat \ {0} /\ 2 - 1 = 1
    BY FormatAssumption
  <2>2. \E h \in Nat, r \in 0..(2 - 1) :
          h = Significand \div 2 /\ r = Significand % 2 /\ Significand = 2 * h + r
    BY <2>1, Division
  <2> QED
    BY <2>1, <2>2
<1> QED
  BY <1>1, FormatAssumption

\* A common factor does not change an order.
LEMMA Factor ==
  ASSUME NEW c \in Nat \ {0}, NEW a \in Int, NEW b \in Int
  PROVE  /\ (c * a < c * b => a < b) /\ (a < b => c * a < c * b)
         /\ (c * a <= c * b => a <= b) /\ (a <= b => c * a <= c * b)
<1>1. (c * a < c * b => a < b) /\ (a < b => c * a < c * b)
  OBVIOUS
<1>2. (c * b < c * a => b < a) /\ (b < a => c * b < c * a)
  OBVIOUS
<1> QED
  BY <1>1, <1>2

\* A set of naturals has a smallest member.
LEMMA Smallest ==
  ASSUME NEW T \in SUBSET Nat, T # {}
  PROVE  \E m \in T : \A k \in T : m <= k
<1>1. PICK m \in T : \A k \in T : <<k, m>> \notin OpToRel(<, Nat)
  BY NatLessThanWellFounded, WFMin
<1>2. \A k \in T : ~(k < m)
  BY <1>1 DEF OpToRel
<1> QED
  BY <1>2

\* In the range of the doubles there is an ulp.
LEMMA UlpThere ==
  ASSUME NEW n \in Nat, NEW d \in Nat \ {0}, Fits(n, d)
  PROVE  /\ Ulp(n, d) \in Ulps
         /\ n < d * Significand * Ulp(n, d)
         /\ Ulp(n, d) = 1 \/ 2 * n >= d * Significand * Ulp(n, d)
<1> DEFINE T == {u \in Ulps : n < d * Significand * u}
<1>1. T \in SUBSET Nat /\ T # {}
  BY FormatAssumption DEF Fits
<1>2. PICK u \in T : \A k \in T : u <= k
  <2> HIDE DEF T
  <2> QED
    BY <1>1, Smallest
<1>3. CASE u = 1
  BY <1>2, <1>3 DEF Ulp
<1>4. CASE u # 1
  <2>1. PICK v \in Ulps : u = 2 * v
    BY <1>2, <1>4, FormatAssumption
  <2>2. v < u /\ v \in Nat
    BY <2>1, FormatAssumption
  <2>3. ~(n < d * Significand * v)
    BY <1>2, <2>2, FormatAssumption
  <2>4. d * Significand * u = 2 * (d * Significand * v)
    BY <2>1, <2>2, FormatAssumption
  <2>5. d * Significand * v \in Nat
    BY <2>2, FormatAssumption
  <2>6. 2 * n >= d * Significand * u
    BY <2>3, <2>4, <2>5
  <2> QED
    BY <1>2, <2>6 DEF Ulp
<1> QED
  BY <1>3, <1>4

\* Rounding to the nearest double: a multiple of the ulp, off by half of it at most,
\* and with a full significand unless the ulp is the finest.
LEMMA NearestWithin ==
  ASSUME NEW n \in Nat, NEW d \in Nat \ {0}, Fits(n, d)
  PROVE  \E u \in Ulps, k \in Nat :
           /\ u = Ulp(n, d) /\ Nearest(n, d) = u * k
           /\ 2 * n <= 2 * (d * (u * k)) + d * u
           /\ 2 * (d * (u * k)) <= 2 * n + d * u
           /\ u = 1 \/ 2 * k >= Significand
<1>1. PICK u \in Ulps : /\ u = Ulp(n, d)
                        /\ u = 1 \/ 2 * n >= d * Significand * u
  BY UlpThere
<1>2. PICK D \in Nat \ {0} : D = d * u
  BY FormatAssumption
<1>3. PICK q \in Nat, r \in 0..(D - 1) : q = n \div D /\ r = n % D /\ n = D * q + r
  BY <1>2, Division
<1>4. u \in Nat \ {0} /\ n = (d * u) * q + r
  BY <1>2, <1>3, FormatAssumption
<1>5. d * (u * q) = n - r
  BY <1>4
<1>6. d * (u * (q + 1)) = n - r + D
  BY <1>2, <1>4
<1>7. ASSUME u # 1 PROVE 2 * q >= Significand
  <2>1. 2 * n >= D * Significand
    <3>1. d * Significand * u = D * Significand
      BY <1>2, <1>4, FormatAssumption
    <3> QED
      BY <1>1, <1>7, <3>1
  <2>2. D * (2 * (q + 1)) = 2 * (D * q) + 2 * D
    OBVIOUS
  <2>3. 2 * n < D * (2 * (q + 1))
    <3>1. D * q \in Nat
      OBVIOUS
    <3> QED
      BY <1>3, <2>2, <3>1
  <2>4. D * Significand < D * (2 * (q + 1))
    <3>1. D * Significand \in Nat /\ D * (2 * (q + 1)) \in Nat
      BY FormatAssumption
    <3> QED
      BY <2>1, <2>3, <3>1
  <2>5. Significand < 2 * (q + 1)
    BY <2>4, Factor, FormatAssumption
  <2>6. PICK h \in Nat : Significand = 2 * h
    BY SignificandEven
  <2> QED
    BY <2>5, <2>6
<1>8. Nearest(n, d) = u * (IF 2 * r > D \/ (2 * r = D /\ q % 2 = 1) THEN q + 1 ELSE q)
  BY <1>1, <1>2, <1>3 DEF Nearest
<1>9. CASE 2 * r > D \/ (2 * r = D /\ q % 2 = 1)
  <2>1. Nearest(n, d) = u * (q + 1)
    BY <1>8, <1>9
  <2>2. /\ 2 * n <= 2 * (n - r + D) + D
        /\ 2 * (n - r + D) <= 2 * n + D
    BY <1>9
  <2>3. u = 1 \/ 2 * (q + 1) >= Significand
    BY <1>7, FormatAssumption
  <2> WITNESS u \in Ulps, q + 1 \in Nat
  <2> QED
    BY <1>1, <1>2, <1>6, <2>1, <2>2, <2>3
<1>10. CASE ~(2 * r > D \/ (2 * r = D /\ q % 2 = 1))
  <2>1. Nearest(n, d) = u * q
    BY <1>8, <1>10
  <2>2. /\ 2 * n <= 2 * (n - r) + D
        /\ 2 * (n - r) <= 2 * n + D
    BY <1>10
  <2> WITNESS u \in Ulps, q \in Nat
  <2> QED
    BY <1>1, <1>2, <1>5, <1>7, <2>1, <2>2
<1> QED
  BY <1>9, <1>10

\* Every ulp is a multiple of twice any finer one.
LEMMA UlpGap ==
  ASSUME NEW u \in Ulps, NEW v \in Ulps, u < v
  PROVE  \E e \in Nat \ {0} : v = (2 * u) * e
<1>1. u \in Nat \ {0} /\ v \in Nat \ {0} /\ 2 * u \in Nat \ {0} /\ v % (2 * u) = 0
  BY FormatAssumption
<1>2. PICK e \in Nat, r \in 0..(2 * u - 1) : r = v % (2 * u) /\ v = (2 * u) * e + r
  BY <1>1, Division
<1>3. v = (2 * u) * e
  <2>1. (2 * u) * e \in Nat
    BY <1>1
  <2> QED
    BY <1>1, <1>2, <2>1
<1>4. e # 0
  BY <1>1, <1>3
<1> QED
  BY <1>3, <1>4

\* A double below the range of an ulp has that ulp or a finer one.
LEMMA UlpBelow ==
  ASSUME NEW n \in Nat, NEW d \in Nat \ {0}, Fits(n, d),
         NEW v \in Ulps, Nearest(n, d) < Significand * v
  PROVE  Ulp(n, d) <= v
<1>1. PICK u \in Ulps, k \in Nat : /\ u = Ulp(n, d) /\ Nearest(n, d) = u * k
                                   /\ u = 1 \/ 2 * k >= Significand
  BY NearestWithin
<1>2. u \in Nat \ {0} /\ v \in Nat \ {0} /\ Significand \in Nat \ {0}
  BY FormatAssumption
<1>3. ASSUME v < u PROVE FALSE
  <2>1. PICK e \in Nat \ {0} : u = (2 * v) * e
    BY <1>3, UlpGap
  <2>2. 2 * k >= Significand
    BY <1>1, <1>2, <1>3
  <2>3. v * (e * (2 * k)) < v * Significand
    <3>1. u * k = v * (e * (2 * k))
      BY <1>2, <2>1
    <3>2. u * k < Significand * v
      BY <1>1
    <3>3. Significand * v = v * Significand
      BY <1>2
    <3> QED
      BY <3>1, <3>2, <3>3
  <2>4. e * (2 * k) < Significand
    BY <1>2, <2>3, Factor
  <2>5. e * (2 * k) >= 2 * k
    OBVIOUS
  <2> QED
    BY <1>2, <2>2, <2>4, <2>5
<1>4. u <= v
  BY <1>2, <1>3
<1>5. Ulp(n, d) = u
  BY <1>1
<1> QED
  BY <1>4, <1>5

\* What it was rounded from is less than half that ulp away.
LEMMA RoundedBelow ==
  ASSUME NEW n \in Nat, NEW d \in Nat \ {0}, Fits(n, d),
         NEW v \in Ulps, Nearest(n, d) < Significand * v
  PROVE  \E x \in Nat : /\ x = Nearest(n, d)
                       /\ 2 * n <= 2 * (d * x) + d * v
                       /\ 2 * (d * x) <= 2 * n + d * v
<1>1. PICK u \in Ulps, k \in Nat : /\ u = Ulp(n, d) /\ Nearest(n, d) = u * k
                                   /\ 2 * n <= 2 * (d * (u * k)) + d * u
                                   /\ 2 * (d * (u * k)) <= 2 * n + d * u
  BY NearestWithin
<1>2. u <= v
  BY <1>1, UlpBelow
<1>3. u \in Nat \ {0} /\ v \in Nat \ {0}
  BY FormatAssumption
<1>4. d * u <= d * v /\ d * u \in Nat /\ d * v \in Nat
  BY <1>2, <1>3
<1>5. PICK x \in Nat : x = u * k
  BY <1>3
<1>6. d * x \in Nat
  OBVIOUS
<1> QED
  BY <1>1, <1>4, <1>5, <1>6

\* A natural that rounds to a double below the range of an ulp is itself below it.
LEMMA SumBelow ==
  ASSUME NEW n \in Nat, Fits(n, 1), NEW v \in Ulps, Nearest(n, 1) < Significand * v
  PROVE  n < Significand * v
<1>1. PICK u \in Ulps, k \in Nat : /\ u = Ulp(n, 1) /\ Nearest(n, 1) = u * k
                                   /\ 2 * n <= 2 * (1 * (u * k)) + 1 * u
  BY NearestWithin
<1>2. u \in Nat \ {0} /\ v \in Nat \ {0} /\ Significand \in Nat \ {0}
  BY FormatAssumption
<1>3. PICK e \in Nat \ {0} : v = u * e
  <2>1. u <= v
    BY <1>1, UlpBelow
  <2>2. CASE u = v
    BY <1>2, <2>2
  <2>3. CASE u < v
    <3>1. PICK e \in Nat \ {0} : v = (2 * u) * e
      BY <2>3, UlpGap
    <3>2. v = u * (2 * e) /\ 2 * e \in Nat \ {0}
      BY <1>2, <3>1
    <3> QED
      BY <3>2
  <2> QED
    BY <1>2, <2>1, <2>2, <2>3
<1>4. Significand * v = u * (Significand * e) /\ Significand * e \in Nat
  BY <1>2, <1>3
<1>5. k < Significand * e
  <2>1. u * k < u * (Significand * e)
    BY <1>1, <1>4
  <2> QED
    BY <1>2, <1>4, <2>1, Factor
<1>6. u * (k + 1) <= u * (Significand * e)
  BY <1>2, <1>4, <1>5
<1>7. u * (k + 1) = u * k + u /\ u * k \in Nat /\ u * (Significand * e) \in Nat
  BY <1>2, <1>4
<1> QED
  BY <1>1, <1>2, <1>4, <1>6, <1>7

-----------------------------------------------------------------------------
\* Back to decimals

\* toFixed gives the nearest number of units.
LEMMA ToFixedNear ==
  ASSUME NEW x \in Nat
  PROVE  \E t \in Nat : /\ t = toFixed(x)
                       /\ 2 * (t * Grid) - Grid <= 2 * (x * Scale)
                       /\ 2 * (x * Scale) < 2 * (t * Grid) + Grid
<1>1. Grid \in Nat \ {0} /\ Scale \in Nat \ {0}
  BY FormatAssumption
<1> DEFINE n == 2 * x * Scale + Grid
<1>2. n \in Nat /\ 2 * Grid \in Nat \ {0} /\ n = 2 * (x * Scale) + Grid
  BY <1>1
<1> HIDE DEF n
<1>3. PICK t \in Nat, r \in 0..(2 * Grid - 1) :
        t = n \div (2 * Grid) /\ n = (2 * Grid) * t + r
  <2>1. PICK D \in Nat \ {0} : D = 2 * Grid
    BY <1>2
  <2>2. n \in Nat
    BY <1>2
  <2>3. PICK t \in Nat, r \in 0..(D - 1) : t = n \div D /\ r = n % D /\ n = D * t + r
    BY <2>2, Division
  <2> QED
    BY <2>1, <2>3
<1>4. t = toFixed(x)
  BY <1>3 DEF toFixed, n
<1>5. (2 * Grid) * t = 2 * (t * Grid) /\ t * Grid \in Nat /\ x * Scale \in Nat
  BY <1>1
<1> QED
  BY <1>1, <1>2, <1>3, <1>4, <1>5

\* Whatever is less than half a unit away is what toFixed gives.
LEMMA ToFixedIs ==
  ASSUME NEW x \in Nat, NEW s \in Int,
         2 * (s * Grid) - Grid < 2 * (x * Scale), 2 * (x * Scale) < 2 * (s * Grid) + Grid
  PROVE  toFixed(x) = s
<1>1. Grid \in Nat \ {0} /\ Scale \in Nat \ {0}
  BY FormatAssumption
<1>2. PICK t \in Nat : /\ t = toFixed(x)
                      /\ 2 * (t * Grid) - Grid <= 2 * (x * Scale)
                      /\ 2 * (x * Scale) < 2 * (t * Grid) + Grid
  BY ToFixedNear
<1>3. PICK S \in Int, T \in Int, X \in Int : S = s * Grid /\ T = t * Grid /\ X = x * Scale
  BY <1>1
<1>4. T - S < Grid /\ S - T < Grid
  BY <1>1, <1>2, <1>3
<1>5. Grid * (t - s) = T - S /\ Grid * (s - t) = S - T /\ Grid * 1 = Grid
  BY <1>1, <1>3
<1>6. t - s < 1 /\ s - t < 1
  BY <1>1, <1>4, <1>5, Factor
<1> QED
  BY <1>2, <1>6

-----------------------------------------------------------------------------
\* One update of a balance

\* Below the coarse range one ulp serves both doubles of an update.
LEMMA OneUlp ==
  ASSUME NEW x \in Nat, NEW y \in Nat, ~TooLarge(x), ~TooLarge(y)
  PROVE  \E v \in Ulps : /\ x < Significand * v /\ y < Significand * v
                        /\ 3 * v * Scale < Grid
<1>1. PICK u \in Ulps : x < Significand * u /\ 3 * u * Scale < Grid
  BY DEF TooLarge
<1>2. PICK v \in Ulps : y < Significand * v /\ 3 * v * Scale < Grid
  BY DEF TooLarge
<1>3. u \in Nat /\ v \in Nat /\ Significand \in Nat \ {0}
  BY FormatAssumption
<1>4. Significand * u \in Nat /\ Significand * v \in Nat
  BY <1>3
<1>5. CASE u <= v
  BY <1>1, <1>2, <1>3, <1>4, <1>5, Factor
<1>6. CASE v <= u
  BY <1>1, <1>2, <1>3, <1>4, <1>6, Factor
<1> QED
  BY <1>3, <1>5, <1>6

\* Reading the balance and rounding the result put it off by an ulp at most.
LEMMA MoveNear ==
  ASSUME NEW m \in 0..MaxBalance, NEW w \in Int, NEW v \in Ulps, NEW b, NEW x,
         b = parseFloat(m), b < Significand * v, b + w \in Nat, Fits(b + w, 1),
         x = Nearest(b + w, 1), x < Significand * v
  PROVE  /\ b \in Nat /\ x \in Nat
         /\ 2 * (x * Scale) <= 2 * (m * Grid) + 2 * (w * Scale) + 2 * (v * Scale)
         /\ 2 * (m * Grid) + 2 * (w * Scale) <= 2 * (x * Scale) + 2 * (v * Scale)
<1>1. /\ Grid \in Nat \ {0} /\ Scale \in Nat \ {0} /\ v \in Nat \ {0}
      /\ m \in Nat /\ m * Grid \in Nat /\ Fits(m * Grid, Scale)
  BY FormatAssumption, InputsAssumption, RangeAssumption
<1>2. /\ b \in Nat
      /\ 2 * (m * Grid) <= 2 * (Scale * b) + Scale * v
      /\ 2 * (Scale * b) <= 2 * (m * Grid) + Scale * v
  BY <1>1, RoundedBelow DEF parseFloat
<1>3. /\ x \in Nat
      /\ 2 * (b + w) <= 2 * (1 * x) + 1 * v
      /\ 2 * (1 * x) <= 2 * (b + w) + 1 * v
  BY RoundedBelow
<1>4. 2 * (b + w) <= 2 * x + v /\ 2 * x <= 2 * (b + w) + v
  BY <1>1, <1>2, <1>3
<1>5. /\ Scale * (2 * (b + w)) <= Scale * (2 * x + v)
      /\ Scale * (2 * x) <= Scale * (2 * (b + w) + v)
  BY <1>1, <1>2, <1>3, <1>4, Factor
<1>6. PICK B \in Int, W \in Int, X \in Int, V \in Int :
        B = Scale * b /\ W = w * Scale /\ X = x * Scale /\ V = v * Scale
  BY <1>1, <1>2, <1>3
<1>7. /\ Scale * (2 * (b + w)) = 2 * B + 2 * W /\ Scale * (2 * x + v) = 2 * X + V
      /\ Scale * (2 * x) = 2 * X /\ Scale * (2 * (b + w) + v) = 2 * B + 2 * W + V
      /\ Scale * v = V
  BY <1>1, <1>2, <1>3, <1>6
<1>8. 2 * B + 2 * W <= 2 * X + V /\ 2 * X <= 2 * B + 2 * W + V
  BY <1>5, <1>7
<1>9. 2 * (m * Grid) <= 2 * B + V /\ 2 * B <= 2 * (m * Grid) + V
  BY <1>2, <1>6, <1>7
<1> QED
  BY <1>1, <1>2, <1>3, <1>6, <1>8, <1>9

\* If what is added is an exact number of units up to half an ulp, the balance moves by
\* that number.
LEMMA MoveExact ==
  ASSUME NEW m \in 0..MaxBalance, NEW w \in Int, NEW v \in Ulps, NEW b, NEW x,
         b = parseFloat(m), b < Significand * v, b + w \in Nat, Fits(b + w, 1),
         x = Nearest(b + w, 1), x < Significand * v, 3 * v * Scale < Grid,
         NEW c \in Int,
         2 * (w * Scale) <= 2 * (c * Grid) + v * Scale,
         2 * (c * Grid) <= 2 * (w * Scale) + v * Scale
  PROVE  toFixed(x) = m + c
<1>1. /\ b \in Nat /\ x \in Nat
      /\ 2 * (x * Scale) <= 2 * (m * Grid) + 2 * (w * Scale) + 2 * (v * Scale)
      /\ 2 * (m * Grid) + 2 * (w * Scale) <= 2 * (x * Scale) + 2 * (v * Scale)
  BY MoveNear
<1>2. Grid \in Nat \ {0} /\ Scale \in Nat \ {0} /\ v \in Nat \ {0} /\ m \in Nat
  BY FormatAssumption, InputsAssumption
<1>3. PICK W \in Int, X \in Int, V \in Int, M \in Int, C \in Int :
        W = w * Scale /\ X = x * Scale /\ V = v * Scale /\ M = m * Grid /\ C = c * Grid
  BY <1>1, <1>2
<1>4. 3 * V < Grid /\ (m + c) * Grid = M + C
  <2>1. 3 * v * Scale = 3 * V
    BY <1>2, <1>3
  <2> QED
    BY <1>2, <1>3, <2>1
<1>5. 2 * (M + C) - Grid < 2 * X /\ 2 * X < 2 * (M + C) + Grid
  BY <1>1, <1>2, <1>3, <1>4
<1>6. m + c \in Int
  BY <1>2
<1> QED
  BY <1>1, <1>3, <1>4, <1>5, <1>6, ToFixedIs

\* Whatever is added, the balance moves by its decimal or by one unit more or less.
LEMMA MovePartial ==
  ASSUME NEW m \in 0..MaxBalance, NEW w \in Int, NEW v \in Ulps, NEW b, NEW x,
         b = parseFloat(m), b < Significand * v, b + w \in Nat, Fits(b + w, 1),
         x = Nearest(b + w, 1), x < Significand * v, 3 * v * Scale < Grid,
         NEW t \in Int,
         2 * (w * Scale) <= 2 * (t * Grid) + Grid,
         2 * (t * Grid) <= 2 * (w * Scale) + Grid
  PROVE  toFixed(x) - (m + t) \in (-1)..1
<1>1. /\ b \in Nat /\ x \in Nat
      /\ 2 * (x * Scale) <= 2 * (m * Grid) + 2 * (w * Scale) + 2 * (v * Scale)
      /\ 2 * (m * Grid) + 2 * (w * Scale) <= 2 * (x * Scale) + 2 * (v * Scale)
  BY MoveNear
<1>2. Grid \in Nat \ {0} /\ Scale \in Nat \ {0} /\ v \in Nat \ {0} /\ m \in Nat
  BY FormatAssumption, InputsAssumption
<1>3. PICK f \in Nat : /\ f = toFixed(x)
                      /\ 2 * (f * Grid) - Grid <= 2 * (x * Scale)
                      /\ 2 * (x * Scale) < 2 * (f * Grid) + Grid
  BY <1>1, ToFixedNear
<1>4. PICK W \in Int, X \in Int, V \in Int, M \in Int, T \in Int, F \in Int :
        /\ W = w * Scale /\ X = x * Scale /\ V = v * Scale
        /\ M = m * Grid /\ T = t * Grid /\ F = f * Grid
  BY <1>1, <1>2
<1>5. 3 * V < Grid
  <2>1. 3 * v * Scale = 3 * V
    BY <1>2, <1>4
  <2> QED
    BY <2>1
<1>6. F - (M + T) < 2 * Grid /\ (M + T) - F < 2 * Grid
  BY <1>1, <1>2, <1>3, <1>4, <1>5
<1>7. /\ Grid * (f - (m + t)) = F - (M + T)
      /\ Grid * ((m + t) - f) = (M + T) - F
      /\ Grid * 2 = 2 * Grid
  BY <1>2, <1>4
<1>8. f - (m + t) < 2 /\ (m + t) - f < 2
  <2>1. f - (m + t) \in Int /\ (m + t) - f \in Int /\ 2 \in Int
    BY <1>2
  <2>2. Grid * (f - (m + t)) < Grid * 2 /\ Grid * ((m + t) - f) < Grid * 2
    BY <1>6, <1>7
  <2> QED
    BY <1>2, <2>1, <2>2, Factor
<1>9. f - (m + t) \in (-1)..1
  <2>1. PICK e \in Int : e = f - (m + t) /\ (m + t) - f = -e
    BY <1>2
  <2>2. e < 2 /\ -e < 2
    BY <1>8, <2>1
  <2>3. e \in (-1)..1
    BY <2>2
  <2> QED
    BY <2>1, <2>3
<1> QED
  BY <1>3, <1>9

-----------------------------------------------------------------------------
\* What is added

\* A whole amount is a number of units up to half an ulp.
LEMMA WholeNear ==
  ASSUME NEW a \in Amounts, Whole(a),
         NEW v \in Ulps, Amount(a) < Significand * v, 3 * v * Scale < Grid
  PROVE  \E y \in Nat, c \in Nat :
           /\ y = Amount(a) /\ c = toFixed(y)
           /\ 2 * (y * Scale) <= 2 * (c * Grid) + v * Scale
           /\ 2 * (c * Grid) <= 2 * (y * Scale) + v * Scale
<1>1. /\ Grid \in Nat \ {0} /\ Scale \in Nat \ {0} /\ Part \in Nat \ {0}
      /\ v \in Nat \ {0} /\ a \in Nat /\ a * Grid \in Nat /\ Scale * Part \in Nat \ {0}
      /\ Fits(a * Grid, Scale * Part)
  BY FormatAssumption, InputsAssumption, RangeAssumption
<1>2. PICK c \in Nat : a = Part * c
  <2>1. PICK c \in Nat, r \in 0..(Part - 1) : c = a \div Part /\ r = a % Part /\ a = Part * c + r
    <3>1. a \in Nat /\ Part \in Nat \ {0}
      BY <1>1
    <3> QED
      BY <3>1, Division
  <2>2. Part * c \in Nat
    BY <1>1
  <2> QED
    BY <2>1, <2>2 DEF Whole
<1>3. PICK y \in Nat : /\ y = Amount(a)
                      /\ 2 * (a * Grid) <= 2 * ((Scale * Part) * y) + (Scale * Part) * v
                      /\ 2 * ((Scale * Part) * y) <= 2 * (a * Grid) + (Scale * Part) * v
  BY <1>1, RoundedBelow DEF Amount
<1>4. PICK Y \in Int, C \in Int, V \in Int : Y = y * Scale /\ C = c * Grid /\ V = v * Scale
  BY <1>1
<1>5. /\ a * Grid = Part * C /\ (Scale * Part) * y = Part * Y
      /\ (Scale * Part) * v = Part * V
  BY <1>1, <1>2, <1>4
<1>6. /\ Part * (2 * C) = 2 * (Part * C) /\ Part * (2 * Y) = 2 * (Part * Y)
      /\ Part * (2 * Y + V) = 2 * (Part * Y) + Part * V
      /\ Part * (2 * C + V) = 2 * (Part * C) + Part * V
  BY <1>1
<1>7. Part * (2 * C) <= Part * (2 * Y + V) /\ Part * (2 * Y) <= Part * (2 * C + V)
  BY <1>3, <1>5, <1>6
<1>8. 2 * C <= 2 * Y + V /\ 2 * Y <= 2 * C + V
  BY <1>1, <1>7, Factor
<1>9. 3 * V < Grid
  <2>1. 3 * v * Scale = 3 * V
    BY <1>1, <1>4
  <2> QED
    BY <2>1
<1>10. 2 * C - Grid < 2 * Y /\ 2 * Y < 2 * C + Grid
  BY <1>1, <1>8, <1>9
<1>11. toFixed(y) = c
  BY <1>4, <1>10, ToFixedIs
<1> QED
  BY <1>3, <1>4, <1>8, <1>11

\* So is a decimal that is parsed.
LEMMA ParsedNear ==
  ASSUME NEW c \in Nat, Fits(c * Grid, Scale), NEW v \in Ulps, parseFloat(c) < Significand * v
  PROVE  \E y \in Nat : /\ y = parseFloat(c)
                       /\ 2 * (y * Scale) <= 2 * (c * Grid) + v * Scale
                       /\ 2 * (c * Grid) <= 2 * (y * Scale) + v * Scale
<1>1. /\ Grid \in Nat \ {0} /\ Scale \in Nat \ {0} /\ v \in Nat \ {0} /\ c * Grid \in Nat
  BY FormatAssumption
<1>2. PICK y \in Nat : /\ y = parseFloat(c)
                      /\ 2 * (c * Grid) <= 2 * (Scale * y) + Scale * v
                      /\ 2 * (Scale * y) <= 2 * (c * Grid) + Scale * v
  BY <1>1, RoundedBelow DEF parseFloat
<1>3. Scale * y = y * Scale /\ Scale * v = v * Scale
  BY <1>1
<1> QED
  BY <1>2, <1>3

-----------------------------------------------------------------------------
\* The operations

\* What is added to a balance is a natural number of grid steps.
LEMMA AddendsNat ==
  /\ Addends \subseteq Nat
  /\ \A a \in Amounts, q \in Rates : ToAmount(a, q) \in Nat
<1>1. /\ Grid \in Nat \ {0} /\ Scale \in Nat \ {0} /\ Part \in Nat \ {0}
      /\ RateScale \in Nat \ {0} /\ Scale * Part \in Nat \ {0}
  BY FormatAssumption
<1>2. ASSUME NEW n \in Nat, NEW d \in Nat \ {0}, Fits(n, d) PROVE Nearest(n, d) \in Nat
  <2>1. PICK u \in Ulps, k \in Nat : Nearest(n, d) = u * k
    BY <1>2, NearestWithin
  <2> QED
    BY <2>1, FormatAssumption
<1>3. ASSUME NEW a \in Amounts PROVE Amount(a) \in Nat
  <2>1. a * Grid \in Nat /\ Fits(a * Grid, Scale * Part)
    BY <1>1, InputsAssumption, RangeAssumption
  <2> QED
    BY <1>1, <1>2, <2>1 DEF Amount
<1>4. ASSUME NEW q \in Rates PROVE Rate(q) \in Nat
  <2>1. q * Grid \in Nat /\ Fits(q * Grid, RateScale)
    BY <1>1, InputsAssumption, RangeAssumption
  <2> QED
    BY <1>1, <1>2, <2>1 DEF Rate
<1>5. ASSUME NEW a \in Amounts, NEW q \in Rates
      PROVE  ToAmount(a, q) \in Nat /\ parseFloat(ToAmount(a, q)) \in Nat
  <2>1. Amount(a) * Rate(q) \in Nat /\ Fits(Amount(a) * Rate(q), Grid)
    BY <1>3, <1>4, RangeAssumption
  <2>2. Times(Amount(a), Rate(q)) \in Nat
    BY <1>1, <1>2, <2>1 DEF Times
  <2>3. ToAmount(a, q) \in Nat
    BY <2>2, ToFixedNear DEF ToAmount
  <2>4. ToAmount(a, q) * Grid \in Nat /\ Fits(ToAmount(a, q) * Grid, Scale)
    BY <1>1, <2>3, RangeAssumption
  <2>5. parseFloat(ToAmount(a, q)) \in Nat
    BY <1>1, <1>2, <2>4 DEF parseFloat
  <2> QED
    BY <2>3, <2>5
<1> QED
  BY <1>3, <1>5 DEF Addends

\* Sum and difference are natural numbers in the range of the doubles.
LEMMA MoveFits ==
  ASSUME NEW m \in 0..MaxBalance, NEW y \in Addends, NEW w \in Int,
         w = y \/ (w = -y /\ parseFloat(m) >= y)
  PROVE  /\ parseFloat(m) \in Nat /\ parseFloat(m) + w \in Nat
         /\ Fits(parseFloat(m) + w, 1) /\ Nearest(parseFloat(m) + w, 1) \in Nat
<1>1. m * Grid \in Nat /\ Scale \in Nat \ {0} /\ Fits(m * Grid, Scale) /\ y \in Nat
  <2>1. m \in Nat /\ Grid \in Nat /\ Scale \in Nat \ {0}
    BY FormatAssumption, InputsAssumption
  <2>2. Fits(m * Grid, Scale)
    BY RangeAssumption
  <2>3. y \in Nat
    BY AddendsNat
  <2> QED
    BY <2>1, <2>2, <2>3
<1>2. PICK b \in Nat : b = parseFloat(m)
  <2>1. PICK u \in Ulps, k \in Nat : Nearest(m * Grid, Scale) = u * k
    BY <1>1, NearestWithin
  <2>2. u * k \in Nat
    BY FormatAssumption
  <2> QED
    BY <2>1, <2>2 DEF parseFloat
<1>3. PICK u \in Ulps : b + y < 1 * Significand * u
  BY <1>2, RangeAssumption DEF Fits
<1>4. PICK n \in Nat : n = b + w /\ n <= b + y
  <2>1. CASE w = y
    BY <1>1, <1>2, <2>1
  <2>2. CASE w = -y /\ b >= y
    BY <1>1, <1>2, <2>2
  <2> QED
    BY <1>2, <2>1, <2>2
<1>5. Fits(n, 1)
  <2>1. 1 * Significand * u \in Nat
    BY FormatAssumption
  <2>2. n < 1 * Significand * u
    BY <1>1, <1>2, <1>3, <1>4, <2>1
  <2> QED
    BY <2>2 DEF Fits
<1>6. Nearest(n, 1) \in Nat
  <2>1. PICK e \in Ulps, k \in Nat : Nearest(n, 1) = e * k
    BY <1>5, NearestWithin
  <2> QED
    BY <2>1, FormatAssumption
<1> QED
  BY <1>2, <1>4, <1>5, <1>6

\* Below the coarse range one ulp serves all doubles of an update.
LEMMA MoveFine ==
  ASSUME NEW m \in 0..MaxBalance, NEW y \in Addends, NEW w \in Int,
         w = y \/ (w = -y /\ parseFloat(m) >= y), NEW x,
         x = Nearest(parseFloat(m) + w, 1), ~TooLarge(x), ~TooLarge(parseFloat(m))
  PROVE  \E v \in Ulps : /\ parseFloat(m) < Significand * v /\ x < Significand * v
                        /\ y < Significand * v /\ 3 * v * Scale < Grid
<1>1. PICK b \in Nat : b = parseFloat(m)
  BY MoveFits
<1>2. x \in Nat /\ b + w \in Nat /\ Fits(b + w, 1) /\ y \in Nat
  BY <1>1, MoveFits, AddendsNat
<1>3. PICK v \in Ulps : /\ x < Significand * v /\ b < Significand * v
                       /\ 3 * v * Scale < Grid
  BY <1>1, <1>2, OneUlp
<1>4. Significand * v \in Nat
  BY FormatAssumption
<1>5. b + w < Significand * v
  BY <1>1, <1>2, <1>3, SumBelow
<1>6. y <= b \/ y <= b + w
  BY <1>1, <1>2
<1>7. y < Significand * v
  BY <1>1, <1>2, <1>3, <1>4, <1>5, <1>6
<1> QED
  BY <1>1, <1>3, <1>7

\* Adding or subtracting a whole number of units is exact below the coarse range.
LEMMA WholeMoves ==
  ASSUME NEW m \in 0..MaxBalance, NEW y \in Addends, NEW w \in Int, NEW c \in Nat, NEW e \in Int,
         (w = y /\ e = c) \/ (w = -y /\ e = -c /\ parseFloat(m) >= y),
         NEW x, x = Nearest(parseFloat(m) + w, 1), NEW v \in Ulps,
         parseFloat(m) < Significand * v, x < Significand * v, 3 * v * Scale < Grid,
         2 * (y * Scale) <= 2 * (c * Grid) + v * Scale,
         2 * (c * Grid) <= 2 * (y * Scale) + v * Scale
  PROVE  toFixed(x) = m + e
<1>1. y \in Nat /\ Grid \in Nat \ {0} /\ Scale \in Nat \ {0} /\ v \in Nat \ {0}
  BY AddendsNat, FormatAssumption
<1>2. parseFloat(m) + w \in Nat /\ Fits(parseFloat(m) + w, 1)
  BY MoveFits
<1>3. PICK Y \in Int, C \in Int, V \in Int : Y = y * Scale /\ C = c * Grid /\ V = v * Scale
  BY <1>1
<1>4. (w * Scale = Y /\ e * Grid = C) \/ (w * Scale = -Y /\ e * Grid = -C)
  <2>1. CASE w = y /\ e = c
    BY <1>3, <2>1
  <2>2. CASE w = -y /\ e = -c
    BY <1>1, <1>3, <2>2
  <2> QED
    BY <2>1, <2>2
<1>5. /\ 2 * (w * Scale) <= 2 * (e * Grid) + v * Scale
      /\ 2 * (e * Grid) <= 2 * (w * Scale) + v * Scale
  BY <1>3, <1>4
<1> DEFINE b == parseFloat(m)
<1>6. b = parseFloat(m) /\ b < Significand * v /\ b + w \in Nat /\ Fits(b + w, 1)
  BY <1>2
<1>7. x = Nearest(b + w, 1)
  OBVIOUS
<1> HIDE DEF b
<1> QED
  BY <1>5, <1>6, <1>7, MoveExact

\* With a fraction of a unit the decimals may differ by one.
LEMMA PartialMoves ==
  ASSUME NEW m \in 0..MaxBalance, NEW y \in Addends, NEW w \in Int, NEW c \in Nat, NEW e \in Int,
         c = toFixed(y), (w = y /\ e = c) \/ (w = -y /\ e = -c /\ parseFloat(m) >= y),
         NEW x, x = Nearest(parseFloat(m) + w, 1), NEW v \in Ulps,
         parseFloat(m) < Significand * v, x < Significand * v, 3 * v * Scale < Grid
  PROVE  toFixed(x) - (m + e) \in (-1)..1
<1>1. y \in Nat /\ Grid \in Nat \ {0} /\ Scale \in Nat \ {0} /\ v \in Nat \ {0}
  BY AddendsNat, FormatAssumption
<1>2. parseFloat(m) + w \in Nat /\ Fits(parseFloat(m) + w, 1)
  BY MoveFits
<1>3. 2 * (c * Grid) - Grid <= 2 * (y * Scale) /\ 2 * (y * Scale) < 2 * (c * Grid) + Grid
  BY <1>1, ToFixedNear
<1>4. PICK Y \in Int, C \in Int : Y = y * Scale /\ C = c * Grid
  BY <1>1
<1>5. (w * Scale = Y /\ e * Grid = C) \/ (w * Scale = -Y /\ e * Grid = -C)
  <2>1. CASE w = y /\ e = c
    BY <1>4, <2>1
  <2>2. CASE w = -y /\ e = -c
    BY <1>1, <1>4, <2>2
  <2> QED
    BY <2>1, <2>2
<1>6. /\ 2 * (w * Scale) <= 2 * (e * Grid) + Grid
      /\ 2 * (e * Grid) <= 2 * (w * Scale) + Grid
  BY <1>1, <1>3, <1>4, <1>5
<1> DEFINE b == parseFloat(m)
<1>7. b = parseFloat(m) /\ b < Significand * v /\ b + w \in Nat /\ Fits(b + w, 1)
  BY <1>2
<1>8. x = Nearest(b + w, 1)
  OBVIOUS
<1> HIDE DEF b
<1> QED
  BY <1>6, <1>7, <1>8, MovePartial

-----------------------------------------------------------------------------
\* The invariant

\* Every operation is an update that adds or subtracts one addend and records its
\* decimal; a fraction of a unit is counted.
LEMMA NextUpdates ==
  ASSUME balance \in 0..MaxBalance, Next
  PROVE  \E y \in Addends, w \in Int, c \in Nat, e \in Int, p \in BOOLEAN :
           /\ (w = y /\ e = c) \/ (w = -y /\ e = -c /\ parseFloat(balance) >= y)
           /\ Update(Nearest(parseFloat(balance) + w, 1), e, p)
           /\ ~p => c = toFixed(y)
           /\ p => \A v \in Ulps : y < Significand * v /\ 3 * v * Scale < Grid =>
                     /\ 2 * (y * Scale) <= 2 * (c * Grid) + v * Scale
                     /\ 2 * (c * Grid) <= 2 * (y * Scale) + v * Scale
<1>1. PICK a \in Amounts : Fund(a) \/ Debit(a) \/ \E q \in Rates : Credit(a, q)
  BY DEF Next
<1>2. PICK y \in Addends : y = Amount(a) /\ y \in Nat
  BY AddendsNat DEF Addends
<1>3. PICK c \in Nat : c = toFixed(y)
  BY <1>2, ToFixedNear
<1>4. PICK p \in BOOLEAN : p = Whole(a)
  BY DEF Whole
<1>5. p => \A v \in Ulps : y < Significand * v /\ 3 * v * Scale < Grid =>
             /\ 2 * (y * Scale) <= 2 * (c * Grid) + v * Scale
             /\ 2 * (c * Grid) <= 2 * (y * Scale) + v * Scale
  BY <1>2, <1>3, <1>4, WholeNear
<1>6. CASE Fund(a)
  <2>1. Update(Nearest(parseFloat(balance) + y, 1), c, p)
    BY <1>2, <1>3, <1>4, <1>6 DEF Fund, Plus
  <2>2. y \in Int /\ c \in Int
    BY <1>2
  <2> QED
    BY <1>3, <1>5, <2>1, <2>2
<1>7. CASE Debit(a)
  <2>1. parseFloat(balance) >= y /\ Update(Nearest(parseFloat(balance) - y, 1), -c, p)
    BY <1>2, <1>3, <1>4, <1>7 DEF Debit, Minus
  <2>2. -y \in Int /\ -c \in Int /\ 0 \in Int
    BY <1>2
  <2>3. parseFloat(balance) \in Nat
    BY <1>2, <2>1, <2>2, MoveFits
  <2>4. Update(Nearest(parseFloat(balance) + (-y), 1), -c, p)
    <3>1. parseFloat(balance) - y = parseFloat(balance) + (-y)
      BY <1>2, <2>3
    <3> QED
      BY <2>1, <3>1
  <2> QED
    BY <1>3, <1>5, <2>1, <2>2, <2>4
<1>8. CASE \E q \in Rates : Credit(a, q)
  <2>1. PICK q \in Rates : Credit(a, q)
    BY <1>8
  <2>2. PICK t \in Nat : t = ToAmount(a, q)
    BY AddendsNat
  <2>3. PICK z \in Addends : z = parseFloat(t)
    BY <2>2 DEF Addends
  <2>4. Update(Nearest(parseFloat(balance) + z, 1), t, TRUE)
    BY <2>1, <2>2, <2>3 DEF Credit, Plus
  <2>5. ASSUME NEW v \in Ulps, z < Significand * v
        PROVE  /\ 2 * (z * Scale) <= 2 * (t * Grid) + v * Scale
               /\ 2 * (t * Grid) <= 2 * (z * Scale) + v * Scale
    <3>1. Fits(t * Grid, Scale)
      BY <2>2, RangeAssumption
    <3> QED
      BY <2>3, <2>5, <3>1, ParsedNear
  <2>6. z \in Int /\ t \in Int
    BY <2>2, <2>3, AddendsNat
  <2> QED
    BY <2>4, <2>5, <2>6
<1> QED
  BY <1>1, <1>6, <1>7, <1>8

\* An update leaves a balance that fits the column, and drifts by one unit at most, and
\* only with a fraction of a unit.
LEMMA UpdateStep == TypeOK /\ DriftBounded /\ Next => TypeOK' /\ DriftBounded'
<1> SUFFICES ASSUME TypeOK, DriftBounded, Next PROVE TypeOK' /\ DriftBounded'
  OBVIOUS
<1>1. balance \in 0..MaxBalance
  BY DEF TypeOK
<1>2. PICK y \in Addends, w \in Int, c \in Nat, e \in Int, p \in BOOLEAN :
        /\ (w = y /\ e = c) \/ (w = -y /\ e = -c /\ parseFloat(balance) >= y)
        /\ Update(Nearest(parseFloat(balance) + w, 1), e, p)
        /\ ~p => c = toFixed(y)
        /\ p => \A v \in Ulps : y < Significand * v /\ 3 * v * Scale < Grid =>
                  /\ 2 * (y * Scale) <= 2 * (c * Grid) + v * Scale
                  /\ 2 * (c * Grid) <= 2 * (y * Scale) + v * Scale
  BY <1>1, NextUpdates
<1>3. PICK x \in Nat : x = Nearest(parseFloat(balance) + w, 1)
  BY <1>1, <1>2, MoveFits
<1>4. PICK f \in Nat : f = toFixed(x)
  BY <1>3, ToFixedNear
<1>5. /\ f <= MaxBalance /\ balance' = f /\ recorded' = recorded + e
      /\ coarse' = (coarse \/ TooLarge(x) \/ TooLarge(parseFloat(balance)))
      /\ p => partial' = partial
      /\ ~p => partial < MaxPartial /\ partial' = partial + 1
  BY <1>2, <1>3, <1>4 DEF Update
<1>6. TypeOK'
  <2>1. balance' \in 0..MaxBalance
    BY <1>5, InputsAssumption
  <2>2. recorded' \in Int
    BY <1>5 DEF TypeOK
  <2>3. coarse' \in BOOLEAN
    BY <1>5 DEF TypeOK, TooLarge
  <2>4. partial' \in 0..MaxPartial
    BY <1>5, InputsAssumption DEF TypeOK
  <2> QED
    BY <2>1, <2>2, <2>3, <2>4 DEF TypeOK
<1>7. ASSUME ~coarse' PROVE balance' - recorded' \in (-partial')..partial'
  <2>1. ~coarse /\ ~TooLarge(x) /\ ~TooLarge(parseFloat(balance))
    BY <1>5, <1>7 DEF TypeOK, TooLarge
  <2>2. balance \in Int /\ recorded \in Int /\ partial \in Nat
    BY InputsAssumption DEF TypeOK
  <2>3. PICK D \in Int : D = balance - recorded /\ -partial <= D /\ D <= partial
    BY <2>1, <2>2 DEF DriftBounded
  <2>4. PICK v \in Ulps : /\ parseFloat(balance) < Significand * v /\ x < Significand * v
                         /\ y < Significand * v /\ 3 * v * Scale < Grid
    BY <1>1, <1>2, <1>3, <2>1, MoveFine
  <2>5. CASE p
    <3>1. f = balance + e
      BY <1>1, <1>2, <1>3, <1>4, <2>4, <2>5, WholeMoves
    <3> QED
      BY <1>5, <2>2, <2>3, <2>5, <3>1
  <2>6. CASE ~p
    <3>1. f - (balance + e) \in (-1)..1
      BY <1>1, <1>2, <1>3, <1>4, <2>4, <2>6, PartialMoves
    <3>2. PICK d \in (-1)..1 : f = balance + e + d
      BY <2>2, <3>1
    <3>3. balance' - recorded' = D + d /\ partial' = partial + 1
      BY <1>5, <2>2, <2>3, <2>6, <3>2
    <3> QED
      BY <2>2, <2>3, <3>3
  <2> QED
    BY <2>5, <2>6
<1> QED
  BY <1>6, <1>7 DEF DriftBounded

\* A new balance is zero.
LEMMA InitInv == Init => TypeOK /\ DriftBounded
<1> SUFFICES ASSUME Init PROVE TypeOK /\ DriftBounded
  OBVIOUS
<1>1. balance = 0 /\ recorded = 0 /\ partial = 0
  BY DEF Init
<1>2. TypeOK
  <2>1. 0 \in 0..MaxBalance /\ 0 \in Int /\ 0 \in 0..MaxPartial
    BY InputsAssumption
  <2>2. coarse \in BOOLEAN
    BY DEF Init
  <2> QED
    BY <1>1, <2>1, <2>2 DEF TypeOK
<1>3. DriftBounded
  <2>1. 0 - 0 \in (-0)..0
    OBVIOUS
  <2> QED
    BY <1>1, <2>1 DEF DriftBounded
<1> QED
  BY <1>2, <1>3

\* The inductive invariant of the arithmetic.
THEOREM Invariance == Spec => [](TypeOK /\ DriftBounded)
<1>1. TypeOK /\ DriftBounded /\ UNCHANGED vars => TypeOK' /\ DriftBounded'
  BY DEF vars, TypeOK, DriftBounded
<1>2. TypeOK /\ DriftBounded /\ [Next]_vars => (TypeOK /\ DriftBounded)'
  BY <1>1, UpdateStep
<1> QED
  BY InitInv, <1>2, PTL DEF Spec

\* No rounding makes a balance negative or larger than its column, whatever the format
\* and however long the sequence of operations.
THEOREM TypeCorrect == Spec => []TypeOK
  BY Invariance, PTL

\* While no double of the computation was too large, a balance is off its ledger rows
\* by at most one unit for every amount with a fraction of a unit, and exact without.
THEOREM DriftsBounded == Spec => []DriftBounded
  BY Invariance, PTL

=============================================================================
