--------------------------- MODULE RoutingProofs ---------------------------
(***************************************************************************)
(* What Routing guarantees for any rails, rules, offers and prices, and    *)
(* any number of requests of one sticky key.                               *)
(***************************************************************************)
EXTENDS Routing, SequenceTheorems, WellFoundedInduction, TLAPS

-----------------------------------------------------------------------------
(* Division: what the conversions round. *)
LEMMA DivisionIsExact ==
  ASSUME NEW n \in Int, NEW d \in Nat \ {0}
  PROVE  /\ n \div d \in Int /\ n % d \in Int
         /\ n = d * (n \div d) + (n % d)
         /\ 0 <= n % d /\ n % d < d
OBVIOUS

(* The quotient that is rounded up is the least that covers the number. *)
LEMMA RoundingUpCovers ==
  ASSUME NEW n \in Nat, NEW d \in Nat \ {0}
  PROVE  /\ DividedUp(n, d) \in Nat
         /\ n <= DividedUp(n, d) * d
         /\ DividedUp(n, d) * d < n + d
<1> DEFINE m == n + d - 1
           q == m \div d
<1>1. m \in Nat /\ q \in Int /\ m = d * q + (m % d) /\ 0 <= m % d /\ m % d < d
  BY DivisionIsExact
<1>2. q = DividedUp(n, d)
  BY DEF DividedUp
<1> HIDE DEF q, m
<1>3. m = n + d - 1
  BY DEF m
<1>4. d * q = q * d
  BY <1>1
<1>5. n <= q * d /\ q * d < n + d
  BY <1>1, <1>3, <1>4
<1>6. q >= 0
  <2> SUFFICES ASSUME q < 0
               PROVE  FALSE
    BY <1>1
  <2>1. q * d <= -d
    BY <1>1
  <2>2. QED BY <1>1, <1>5, <2>1
<1>7. QED BY <1>1, <1>2, <1>5, <1>6

(* Rounding to the nearest never passes an integer above the quotient. *)
LEMMA RoundingStaysBelow ==
  ASSUME NEW n \in Nat, NEW d \in Nat \ {0}, NEW q \in Int, n <= q * d
  PROVE  DividedHalfEven(n, d) <= q
<1> DEFINE low == n \div d
           rest == n % d
<1>1. low \in Int /\ rest \in Int /\ n = d * low + rest /\ 0 <= rest /\ rest < d
  BY DivisionIsExact
<1>2. DividedHalfEven(n, d) = IF 2 * rest > d \/ (2 * rest = d /\ low % 2 = 1) THEN low + 1 ELSE low
  BY DEF DividedHalfEven
<1> HIDE DEF low, rest
<1>3. low <= q
  <2> SUFFICES ASSUME q + 1 <= low
               PROVE  FALSE
    BY <1>1
  <2>1. d * (q + 1) <= d * low
    BY <1>1
  <2>2. QED BY <1>1, <2>1
<1>4. CASE low = q
  <2>1. rest = 0
    BY <1>1, <1>4
  <2>2. QED BY <1>1, <1>2, <1>3, <2>1
<1>5. CASE low + 1 <= q
  BY <1>1, <1>2, <1>5
<1>6. QED BY <1>1, <1>3, <1>4, <1>5

LEMMA RoundingIsNat ==
  ASSUME NEW n \in Nat, NEW d \in Nat \ {0}
  PROVE  DividedHalfEven(n, d) \in Nat
<1> DEFINE low == n \div d
           rest == n % d
<1>1. low \in Int /\ rest \in Int /\ n = d * low + rest /\ 0 <= rest /\ rest < d
  BY DivisionIsExact
<1>2. DividedHalfEven(n, d) = low + 1 \/ DividedHalfEven(n, d) = low
  BY DEF DividedHalfEven
<1> HIDE DEF low, rest
<1>3. low >= 0
  <2> SUFFICES ASSUME low < 0
               PROVE  FALSE
    BY <1>1
  <2>1. d * low <= -d
    BY <1>1
  <2>2. QED BY <1>1, <2>1
<1>4. QED BY <1>1, <1>2, <1>3

-----------------------------------------------------------------------------
(* Conversions of a price that a server may ask for. *)
Priced(price) == price.kind \in Kinds /\ price.amount \in Nat

LEMMA RatesAreNat ==
  ASSUME NEW src, NEW dst
  PROVE  /\ ResolvedRate(src, dst, Snapshot) \in Nat \cup {None}
         /\ SnapshotRate(src, dst, Snapshot) \in Nat \cup {None}
         /\ SnapshotRate(src, dst, Snapshot) # None =>
              ResolvedRate(src, dst, Snapshot) = SnapshotRate(src, dst, Snapshot)
         /\ ResolvedRate(dst, dst, Snapshot) = RateScale
<1>1. SnapshotRate(src, dst, Snapshot) \in Nat \cup {None}
  BY SnapshotAssumption DEF SnapshotRate
<1>2. EcbRate(src, dst) \in Nat \cup {None}
  BY ScalesAssumption, TablesAssumption DEF EcbRate
<1>3. SnapshotRate(dst, dst, Snapshot) \in {None, RateScale}
  <2>1. CASE <<dst, dst>> \in DOMAIN Snapshot
    BY <2>1, SnapshotAssumption DEF SnapshotRate
  <2>2. CASE <<dst, dst>> \notin DOMAIN Snapshot
    BY <2>2 DEF SnapshotRate
  <2>3. QED BY <2>1, <2>2
<1>4. EcbRate(dst, dst) = RateScale
  BY DEF EcbRate
<1>5. QED BY <1>1, <1>2, <1>3, <1>4 DEF ResolvedRate

LEMMA ProductsAreNat ==
  ASSUME NEW a \in Nat, NEW b \in Nat
  PROVE  a * b \in Nat
OBVIOUS

LEMMA ProductsArePositive ==
  ASSUME NEW a \in Nat \ {0}, NEW b \in Nat \ {0}
  PROVE  a * b \in Nat \ {0}
OBVIOUS

(* The quote q covers n / d, with the buffer and one unit at the most. *)
Covers(q, n, d) == n <= q * d /\ 100 * q * d < 105 * n + 100 * d

(* With the buffer of 5 %, rounded up. *)
LEMMA BufferCovers ==
  ASSUME NEW amount \in Nat, NEW units \in Nat \ {0}, NEW rate \in Nat, NEW minor \in Nat
  PROVE  /\ WithBuffer(amount, units, rate, minor) \in Nat
         /\ Covers(WithBuffer(amount, units, rate, minor),
                   amount * rate * minor, units * RateScale)
<1> DEFINE n == amount * rate * minor
           d == units * RateScale
           q == DividedUp(amount * rate * minor * 105, units * RateScale * 100)
<1>1. n \in Nat
  BY ProductsAreNat
<1>2. d \in Nat \ {0}
  BY ScalesAssumption, ProductsArePositive
<1>3. WithBuffer(amount, units, rate, minor) = q
  BY TablesAssumption DEF WithBuffer
<1>4. q = DividedUp(n * 105, d * 100)
  OBVIOUS
<1> HIDE DEF n, d, q
<1>5. n * 105 \in Nat /\ d * 100 \in Nat \ {0}
  BY <1>1, <1>2
<1>6. q \in Nat /\ n * 105 <= q * (d * 100) /\ q * (d * 100) < n * 105 + d * 100
  BY <1>4, <1>5, RoundingUpCovers
<1>7. q * (d * 100) = 100 * (q * d) /\ 100 * q * d = 100 * (q * d) /\ q * d \in Nat
  BY <1>2, <1>6
<1>8. n <= q * d /\ 100 * q * d < 105 * n + 100 * d
  BY <1>1, <1>2, <1>6, <1>7
<1>9. QED BY <1>3, <1>6, <1>8 DEF Covers, n, d

(* Rounded to the nearest, without the buffer. *)
LEMMA RoundedStaysBelow ==
  ASSUME NEW amount \in Nat, NEW units \in Nat \ {0}, NEW rate \in Nat, NEW minor \in Nat,
         NEW q \in Nat, amount * rate * minor <= q * (units * RateScale)
  PROVE  Rounded(amount, units, rate, minor) <= q
<1>1. amount * rate * minor \in Nat
  BY ProductsAreNat
<1>2. units * RateScale \in Nat \ {0}
  BY ScalesAssumption, ProductsArePositive
<1>3. Rounded(amount, units, rate, minor) = DividedHalfEven(amount * rate * minor, units * RateScale)
  BY TablesAssumption DEF Rounded
<1>4. QED BY <1>1, <1>2, <1>3, RoundingStaysBelow

LEMMA CoversScales ==
  ASSUME NEW q \in Nat, NEW n \in Nat, NEW d \in Nat \ {0}, NEW k \in Nat \ {0}, Covers(q, n, d)
  PROVE  Covers(q, n * k, d * k)
<1> DEFINE p == q * d
<1>1. p \in Nat /\ n <= p /\ 100 * p < 105 * n + 100 * d
  BY DEF Covers
<1>2. q * (d * k) = p * k /\ 100 * q * (d * k) = (100 * p) * k
  OBVIOUS
<1> HIDE DEF p
<1>3. n * k <= p * k
  BY <1>1
<1>4. (100 * p) * k < (105 * n + 100 * d) * k
  BY <1>1
<1>5. (105 * n + 100 * d) * k = 105 * (n * k) + 100 * (d * k)
  OBVIOUS
<1>6. QED BY <1>2, <1>3, <1>4, <1>5 DEF Covers

LEMMA ExactCovers ==
  ASSUME NEW q \in Nat, NEW d \in Nat \ {0}
  PROVE  Covers(q, q * d, d)
<1> DEFINE p == q * d
<1>1. p \in Nat /\ 100 * q * d = 100 * p
  BY ProductsAreNat
<1> HIDE DEF p
<1>2. 100 * p < 105 * p + 100 * d
  BY <1>1
<1>3. QED BY <1>1, <1>2 DEF Covers, p

(* Minor units of one currency are converted as if they were of the other. *)
SameCents(price, env) ==
  price.kind = "fiat" /\ price.currency # env =>
    /\ price.currency \in DOMAIN MinorPerMajor
    /\ MinorPerMajor[price.currency] = MinorPerMajor[env]

LEMMA PriceIsCovered ==
  ASSUME NEW price, Priced(price), NEW env \in DOMAIN MinorPerMajor, SameCents(price, env),
         EnvelopeAmount(price, env, Snapshot) # None
  PROVE  Covers(EnvelopeAmount(price, env, Snapshot),
                Numerator(price, env, Snapshot), Denominator(price))
<1> DEFINE a == price.amount
           m == MinorPerMajor[env]
           rate == ResolvedRate(Source(price), env, Snapshot)
           q == EnvelopeAmount(price, env, Snapshot)
<1>1. a \in Nat /\ m \in Nat \ {0} /\ RateScale \in Nat \ {0} /\ StableUnits \in Nat \ {0}
  BY TablesAssumption, ScalesAssumption DEF Priced
<1>2. rate \in Nat \cup {None}
  BY RatesAreNat
<1>3. Numerator(price, env, Snapshot) = a * rate * m
  BY DEF Numerator
<1>4. ASSUME NEW units \in Nat \ {0}, NEW minor \in Nat, q = WithBuffer(a, units, rate, minor)
      PROVE  rate \in Nat /\ q \in Nat /\ Covers(q, a * rate * minor, units * RateScale)
  <2>1. rate \in Nat
    BY <1>2, <1>4 DEF WithBuffer
  <2> HIDE DEF a, rate, q
  <2>2. QED BY <1>1, <1>4, <2>1, BufferCovers
<1>5. CASE price.kind = "fiat" /\ price.currency = env
  <2>1. rate = RateScale /\ q = a /\ Denominator(price) = m * RateScale
    BY <1>5, RatesAreNat DEF Source, EnvelopeAmount, Denominator, UnitsPerMajor
  <2>2. m * RateScale \in Nat \ {0}
    BY <1>1, ProductsArePositive
  <2>3. a * RateScale * m = a * (m * RateScale)
    BY <1>1
  <2>4. Covers(a, a * (m * RateScale), m * RateScale)
    BY <1>1, <2>2, ExactCovers
  <2>5. QED BY <1>3, <2>1, <2>3, <2>4
<1>6. CASE price.kind = "fiat" /\ price.currency # env
  <2>1. q = WithBuffer(a, 1, rate, 1) /\ Denominator(price) = m * RateScale
    BY <1>6 DEF Source, EnvelopeAmount, Denominator, UnitsPerMajor, SameCents
  <2>2. rate \in Nat /\ q \in Nat /\ Covers(q, a * rate * 1, 1 * RateScale)
    BY <1>4, <2>1
  <2>3. /\ a * rate * 1 \in Nat /\ 1 * RateScale \in Nat \ {0}
        /\ (a * rate * 1) * m = a * rate * m /\ (1 * RateScale) * m = m * RateScale
    <3>1. a * rate \in Nat
      BY <1>1, <2>2, ProductsAreNat
    <3>2. QED BY <1>1, <3>1
  <2>4. Covers(q, (a * rate * 1) * m, (1 * RateScale) * m)
    BY <1>1, <2>2, <2>3, CoversScales
  <2>5. QED BY <1>3, <2>1, <2>3, <2>4
<1>7. CASE price.kind = "stable" /\ price.currency = env
  <2>1. rate = RateScale /\ q = DividedUp(a * m, StableUnits)
        /\ Denominator(price) = StableUnits * RateScale
    BY <1>7, RatesAreNat DEF Source, EnvelopeAmount, Denominator, UnitsPerMajor
  <2>2. a * m \in Nat
    BY <1>1, ProductsAreNat
  <2>3. q \in Nat /\ a * m <= q * StableUnits /\ q * StableUnits < a * m + StableUnits
    BY <1>1, <2>1, <2>2, RoundingUpCovers
  <2>4. Covers(q, a * m, StableUnits)
    <3> HIDE DEF a, m, q
    <3>1. 100 * q * StableUnits = 100 * (q * StableUnits) /\ q * StableUnits \in Nat
      BY <1>1, <2>3
    <3>2. 100 * (q * StableUnits) < 105 * (a * m) + 100 * StableUnits
      BY <1>1, <2>2, <2>3, <3>1
    <3>3. QED BY <2>3, <3>1, <3>2 DEF Covers
  <2>5. Covers(q, (a * m) * RateScale, StableUnits * RateScale)
    BY <1>1, <2>2, <2>3, <2>4, CoversScales
  <2>6. (a * m) * RateScale = a * RateScale * m
    BY <1>1
  <2>7. QED BY <1>3, <2>1, <2>5, <2>6
<1>8. CASE price.kind = "stable" /\ price.currency # env
  <2>1. q = WithBuffer(a, StableUnits, rate, m) /\ Denominator(price) = StableUnits * RateScale
    BY <1>8 DEF Source, EnvelopeAmount, Denominator, UnitsPerMajor
  <2>2. QED BY <1>1, <1>3, <1>4, <2>1
<1>9. CASE price.kind = "sats"
  <2>1. q = WithBuffer(a, 1, rate, m) /\ Denominator(price) = 1 * RateScale
    BY <1>9 DEF Source, EnvelopeAmount, Denominator, UnitsPerMajor
  <2>2. QED BY <1>1, <1>3, <1>4, <2>1
<1>10. CASE price.kind = "other"
  BY <1>10 DEF EnvelopeAmount
<1>11. QED BY <1>5, <1>6, <1>7, <1>8, <1>9, <1>10 DEF Priced, Kinds

LEMMA AmountsAreNat ==
  ASSUME NEW price, Priced(price), NEW env \in DOMAIN MinorPerMajor
  PROVE  EnvelopeAmount(price, env, Snapshot) \in Nat \cup {None}
<1> DEFINE a == price.amount
           m == MinorPerMajor[env]
           rate == ResolvedRate(Source(price), env, Snapshot)
<1>1. a \in Nat /\ m \in Nat \ {0} /\ StableUnits \in Nat \ {0} /\ a * m \in Nat
  BY TablesAssumption, ScalesAssumption, ProductsAreNat DEF Priced
<1>2. rate \in Nat \cup {None}
  BY RatesAreNat
<1>3. ASSUME NEW units \in Nat \ {0}, NEW minor \in Nat
      PROVE  WithBuffer(a, units, rate, minor) \in Nat \cup {None}
  <2>1. CASE rate = None
    BY <2>1 DEF WithBuffer
  <2>2. CASE rate \in Nat
    BY <1>1, <2>2, BufferCovers
  <2>3. QED BY <1>2, <2>1, <2>2
<1>4. DividedUp(a * m, StableUnits) \in Nat
  BY <1>1, RoundingUpCovers
<1>5. QED BY <1>1, <1>3, <1>4 DEF EnvelopeAmount, Priced, Kinds

LEMMA TraceStaysWithin ==
  ASSUME NEW price, Priced(price), NEW env \in DOMAIN MinorPerMajor,
         TraceAmount(price, env, Snapshot) # None
  PROVE  /\ EnvelopeAmount(price, env, Snapshot) # None
         /\ TraceAmount(price, env, Snapshot) <= EnvelopeAmount(price, env, Snapshot)
<1> DEFINE a == price.amount
           m == MinorPerMajor[env]
           rate == ResolvedRate(Source(price), env, Snapshot)
           q == EnvelopeAmount(price, env, Snapshot)
           t == TraceAmount(price, env, Snapshot)
<1>1. /\ a \in Nat /\ m \in Nat \ {0} /\ RateScale \in Nat \ {0} /\ StableUnits \in Nat \ {0}
      /\ None \notin Int
  BY TablesAssumption, ScalesAssumption DEF Priced
<1>2. rate \in Nat \cup {None}
  BY RatesAreNat
<1>3. ASSUME NEW units \in Nat \ {0}, NEW minor \in Nat,
             q = WithBuffer(a, units, rate, minor), t = Rounded(a, units, rate, minor)
      PROVE  q # None /\ t <= q
  <2>1. rate \in Nat
    BY <1>2, <1>3 DEF Rounded
  <2> HIDE DEF a, rate, q, t
  <2>2. q \in Nat /\ a * rate * minor <= q * (units * RateScale)
    <3>1. q \in Nat /\ Covers(q, a * rate * minor, units * RateScale)
      BY <1>1, <1>3, <2>1, BufferCovers
    <3>2. QED BY <3>1 DEF Covers
  <2>3. Rounded(a, units, rate, minor) <= q
    BY <1>1, <2>1, <2>2, RoundedStaysBelow
  <2>4. QED BY <1>1, <1>3, <2>2, <2>3
<1>4. CASE price.kind = "fiat" /\ price.currency = env
  BY <1>1, <1>4 DEF EnvelopeAmount, TraceAmount
<1>5. CASE price.kind = "fiat" /\ price.currency # env
  <2>1. q = WithBuffer(a, 1, rate, 1) /\ t = Rounded(a, 1, rate, 1)
    BY <1>5 DEF Source, EnvelopeAmount, TraceAmount
  <2>2. QED BY <1>3, <2>1
<1>6. CASE price.kind = "stable" /\ price.currency = env
  <2>1. q = DividedUp(a * m, StableUnits) /\ t = Rounded(a, StableUnits, RateScale, m)
    BY <1>6 DEF EnvelopeAmount, TraceAmount
  <2>2. a * m \in Nat
    BY <1>1, ProductsAreNat
  <2>3. q \in Nat /\ a * m <= q * StableUnits
    BY <1>1, <2>1, <2>2, RoundingUpCovers
  <2>4. a * RateScale * m <= q * (StableUnits * RateScale)
    <3> HIDE DEF a, m, q
    <3>1. (a * m) * RateScale <= (q * StableUnits) * RateScale
      BY <1>1, <2>2, <2>3
    <3>2. (a * m) * RateScale = a * RateScale * m
      BY <1>1
    <3>3. (q * StableUnits) * RateScale = q * (StableUnits * RateScale)
      BY <1>1, <2>3
    <3>4. QED BY <3>1, <3>2, <3>3
  <2>5. Rounded(a, StableUnits, RateScale, m) <= q
    BY <1>1, <2>3, <2>4, RoundedStaysBelow
  <2>6. QED BY <1>1, <2>1, <2>3, <2>5
<1>7. CASE (price.kind = "stable" /\ price.currency # env) \/ price.kind = "sats"
  <2>1. PICK units \in {1, StableUnits} :
          /\ q = WithBuffer(a, units, rate, m)
          /\ t = Rounded(a, units, SnapshotRate(Source(price), env, Snapshot), m)
    BY <1>7 DEF Source, EnvelopeAmount, TraceAmount
  <2>2. SnapshotRate(Source(price), env, Snapshot) # None
    BY <2>1 DEF Rounded
  <2>3. SnapshotRate(Source(price), env, Snapshot) = rate
    BY <2>2, RatesAreNat
  <2>4. QED BY <1>1, <1>3, <2>1, <2>3
<1>8. CASE price.kind = "other"
  BY <1>8 DEF TraceAmount
<1>9. QED BY <1>4, <1>5, <1>6, <1>7, <1>8 DEF Priced, Kinds

-----------------------------------------------------------------------------
(* The order of ranks. *)
LEMMA LeastNumber ==
  ASSUME NEW T, T \subseteq Nat, T # {}
  PROVE  \E n \in T : \A m \in T : n <= m
<1> DEFINE R == {ss \in Nat \X Nat : ss[1] < ss[2]}
<1>1. IsWellFoundedOn(R, Nat)
  BY NatLessThanWellFounded DEF OpToRel
<1>2. PICK n \in T : \A m \in T : <<m, n>> \notin R
  <2> HIDE DEF R
  <2> QED BY <1>1, WFMin
<1>3. ASSUME NEW m \in T
      PROVE  n <= m
  <2>1. m \in Nat /\ n \in Nat
    OBVIOUS
  <2>2. m < n => <<m, n>> \in R
    BY <2>1
  <2>3. QED BY <1>2, <2>1, <2>2
<1>4. QED BY <1>3

(* Those of a set of keys whose i-th component is least. *)
LEMMA LeastComponent ==
  ASSUME NEW K, NEW i, K # {}, \A k \in K : k[i] \in Nat
  PROVE  \E n \in Nat : {k \in K : k[i] = n} # {} /\ \A k \in K : n <= k[i]
<1> DEFINE T == {k[i] : k \in K}
<1>1. T \subseteq Nat /\ T # {}
  OBVIOUS
<1>2. PICK n \in T : \A m \in T : n <= m
  <2> HIDE DEF T
  <2> QED BY <1>1, LeastNumber
<1>3. QED BY <1>2

RankKeys == Nat \X Nat \X Nat \X Nat \X Nat

LEMMA PrecedesIsLexicographic ==
  ASSUME NEW k \in RankKeys, NEW l \in RankKeys
  PROVE  Precedes(k, l) <=>
           \/ k[1] < l[1]
           \/ k[1] = l[1] /\ k[2] < l[2]
           \/ k[1] = l[1] /\ k[2] = l[2] /\ k[3] < l[3]
           \/ k[1] = l[1] /\ k[2] = l[2] /\ k[3] = l[3] /\ k[4] < l[4]
           \/ k[1] = l[1] /\ k[2] = l[2] /\ k[3] = l[3] /\ k[4] = l[4] /\ k[5] < l[5]
<1>1. DOMAIN k = 1 .. 5
  BY DEF RankKeys
<1>2. 1 .. 0 = {} /\ 1 .. 1 = {1} /\ 1 .. 2 = {1, 2} /\ 1 .. 3 = {1, 2, 3} /\ 1 .. 4 = {1, 2, 3, 4}
  OBVIOUS
<1>3. Precedes(k, l) <=> \E i \in {1, 2, 3, 4, 5} : k[i] < l[i] /\ \A j \in 1 .. i - 1 : k[j] = l[j]
  BY <1>1 DEF Precedes
<1>4. QED BY <1>2, <1>3

(* A set of distinct keys has a first one. *)
LEMMA FirstKey ==
  ASSUME NEW K, K \subseteq RankKeys, K # {},
         \A k, l \in K : k[5] = l[5] => k = l
  PROVE  \E k \in K : \A l \in K \ {k} : Precedes(k, l)
<1>0. \A k \in K : k[1] \in Nat /\ k[2] \in Nat /\ k[3] \in Nat /\ k[4] \in Nat /\ k[5] \in Nat
  BY DEF RankKeys
<1>1. PICK n1 \in Nat : {k \in K : k[1] = n1} # {} /\ \A k \in K : n1 <= k[1]
  BY <1>0, LeastComponent
<1> DEFINE K1 == {k \in K : k[1] = n1}
<1>2. PICK n2 \in Nat : {k \in K1 : k[2] = n2} # {} /\ \A k \in K1 : n2 <= k[2]
  BY <1>0, <1>1, LeastComponent
<1> DEFINE K2 == {k \in K1 : k[2] = n2}
<1>3. PICK n3 \in Nat : {k \in K2 : k[3] = n3} # {} /\ \A k \in K2 : n3 <= k[3]
  BY <1>0, <1>2, LeastComponent
<1> DEFINE K3 == {k \in K2 : k[3] = n3}
<1>4. PICK n4 \in Nat : {k \in K3 : k[4] = n4} # {} /\ \A k \in K3 : n4 <= k[4]
  BY <1>0, <1>3, LeastComponent
<1> DEFINE K4 == {k \in K3 : k[4] = n4}
<1>5. PICK n5 \in Nat : {k \in K4 : k[5] = n5} # {} /\ \A k \in K4 : n5 <= k[5]
  BY <1>0, <1>4, LeastComponent
<1>6. PICK k \in K4 : k[5] = n5
  BY <1>5
<1>7. k \in K /\ k[1] = n1 /\ k[2] = n2 /\ k[3] = n3 /\ k[4] = n4
  BY <1>6
<1>8. ASSUME NEW l \in K \ {k}
      PROVE  Precedes(k, l)
  <2>1. l[5] # k[5]
    BY <1>7
  <2>2. n1 <= l[1]
    BY <1>1
  <2>3. l[1] = n1 => n2 <= l[2]
    BY <1>2
  <2>4. l[1] = n1 /\ l[2] = n2 => n3 <= l[3]
    BY <1>3
  <2>5. l[1] = n1 /\ l[2] = n2 /\ l[3] = n3 => n4 <= l[4]
    BY <1>4
  <2>6. l[1] = n1 /\ l[2] = n2 /\ l[3] = n3 /\ l[4] = n4 => n5 <= l[5]
    BY <1>5
  <2>7. k \in RankKeys /\ l \in RankKeys
    BY <1>7
  <2> HIDE DEF K1, K2, K3, K4
  <2>8. QED BY <1>0, <1>6, <1>7, <2>1, <2>2, <2>3, <2>4, <2>5, <2>6, <2>7, PrecedesIsLexicographic
<1>9. QED BY <1>7, <1>8

-----------------------------------------------------------------------------
(* What an adapter finds in a response, and a response as a whole. *)
Receivable(o) ==
  \A rail \in Rails : o[rail].matches \subseteq Nat /\ Priced(o[rail].price)

LEMMA OffersAreReceivable ==
  ASSUME NEW r \in Requests, NEW o \in Offers[r]
  PROVE  Receivable(o)
BY OffersAssumption DEF Receivable, Priced

LEMMA RailPositions ==
  ASSUME NEW rail \in Rails
  PROVE  /\ Position(rail) \in Nat
         /\ \A other \in Rails : Position(rail) = Position(other) => rail = other
<1>1. \A x \in Rails : Position(x) \in DOMAIN Adapters /\ Adapters[Position(x)] = x
  BY DEF Rails, ToSet, Position
<1>2. DOMAIN Adapters \subseteq Nat
  BY AdaptersAssumption
<1>3. QED BY <1>1, <1>2

LEMMA RanksAreKeys ==
  ASSUME reference \in References, NEW o, Receivable(o), NEW rail \in Rails
  PROVE  /\ Rank(o, rail) \in RankKeys
         /\ Rank(o, rail)[1] = Penalty(Quote(o[rail].price) = None)
         /\ Quote(o[rail].price) # None =>
              Quote(o[rail].price) \in Nat /\ Rank(o, rail)[2] = Quote(o[rail].price)
         /\ Rank(o, rail)[3] = Penalty(~ Preferred(o, rail))
         /\ Rank(o, rail)[5] = Position(rail)
<1> DEFINE q == Quote(o[rail].price)
<1>1. q \in Nat \cup {None}
  <2>1. CASE reference = None
    BY <2>1 DEF Quote
  <2>2. CASE reference # None
    BY <2>2, ReferencesAssumption, AmountsAreNat DEF Quote, Receivable
  <2>3. QED BY <2>1, <2>2
<1>2. Position(rail) \in Nat
  BY RailPositions
<1>3. \A b : Penalty(b) \in Nat
  BY DEF Penalty
<1> HIDE DEF q
<1>4. Rank(o, rail) = <<Penalty(q = None), IF q = None THEN 0 ELSE q,
                        Penalty(~ Preferred(o, rail)), Penalty(rail # DefaultRail), Position(rail)>>
  BY DEF Rank, q
<1>5. QED BY <1>1, <1>2, <1>3, <1>4 DEF RankKeys, q

LEMMA WinnerIsFirst ==
  ASSUME reference \in References, NEW o, Receivable(o), NEW S, S \subseteq Rails, S # {}, NEW stuck
  PROVE  /\ Winner(o, S, stuck) \in S
         /\ Winner(o, S, stuck) # stuck =>
              \A other \in S \ {Winner(o, S, stuck)} :
                Precedes(Rank(o, Winner(o, S, stuck)), Rank(o, other))
<1> DEFINE K == {Rank(o, rail) : rail \in S}
           First(rail) == \A other \in S \ {rail} : Precedes(Rank(o, rail), Rank(o, other))
<1>1. \A rail \in S : Rank(o, rail) \in RankKeys /\ Rank(o, rail)[5] = Position(rail)
  BY RanksAreKeys
<1>2. K \subseteq RankKeys /\ K # {}
  BY <1>1
<1>3. \A x, y \in S : Rank(o, x)[5] = Rank(o, y)[5] => x = y
  BY <1>1, RailPositions
<1>4. \A k, l \in K : k[5] = l[5] => k = l
  BY <1>3
<1>5. PICK k \in K : \A l \in K \ {k} : Precedes(k, l)
  <2> HIDE DEF K
  <2> QED BY <1>2, <1>4, FirstKey
<1>6. PICK rail \in S : k = Rank(o, rail)
  BY <1>5
<1>7. First(rail)
  BY <1>3, <1>5, <1>6
<1>8. CASE stuck \in S
  BY <1>8 DEF Winner
<1>9. CASE stuck \notin S
  <2>1. Winner(o, S, stuck) = CHOOSE x \in S : First(x)
    BY <1>9 DEF Winner
  <2> HIDE DEF First
  <2>2. Winner(o, S, stuck) \in S /\ First(Winner(o, S, stuck))
    BY <1>7, <2>1
  <2>3. QED BY <2>2 DEF First
<1>10. QED BY <1>8, <1>9

-----------------------------------------------------------------------------
(***************************************************************************)
(* The inductive invariant.  Each attempt of a flow went to a rail that    *)
(* was feasible after the attempts before it, to the first one in the      *)
(* ranking unless it was sticky; the entry of the cache repeats the last   *)
(* payment, and does not outlive it or the ttl.                            *)
(***************************************************************************)
Before(tried, i) == {tried[j].rail : j \in 1 .. i - 1}

FirstOf(o, rail, S) == \A other \in S \ {rail} : Precedes(Rank(o, rail), Rank(o, other))

Went(o, tried) ==
  \A i \in 1 .. Len(tried) :
    /\ tried[i].rail \in Feasible(o, Before(tried, i))
    /\ tried[i].sticky => i = 1
    /\ ~ tried[i].sticky => FirstOf(o, tried[i].rail, Feasible(o, Before(tried, i)))

AllOffers == UNION {Offers[r] : r \in Requests}

Locals == [pc : Ends \cup {"paying"}, offers : AllOffers \cup {None}, expires : Nat,
           tried : Seq(Attempt)]

Routed(local) ==
  /\ local.pc = "refused" => Feasible(local.offers, Excluded(local)) = {}
  /\ local.pc = "paying" => Len(local.tried) > 0
  /\ Went(local.offers, local.tried)

FlowOK(r) ==
  /\ request[r].pc \in {"new", "done", "abandoned"} => request[r] = Without(request[r].pc)
  /\ request[r].pc \in {"paying", "refused"} => request[r].offers \in Offers[r] /\ Routed(request[r])

StickyOK ==
  sticky # None =>
    /\ won # None /\ sticky.rail = won.rail
    /\ sticky.expires <= won.expires /\ sticky.expires <= won.at + StickyTtl

RoutingInv ==
  /\ now \in Nat /\ reference \in References
  /\ sticky \in [rail : Rails, expires : Nat] \cup {None}
  /\ won \in [rail : Rails, at : Nat, expires : Nat] \cup {None}
  /\ request \in [Requests -> Locals]
  /\ \A r \in Requests : FlowOK(r)
  /\ StickyOK

-----------------------------------------------------------------------------
(* One decision of the router, for a flow that has gone so far. *)
LEMMA AppendedAttempt ==
  ASSUME NEW tried \in Seq(Attempt), NEW a \in Attempt
  PROVE  /\ Append(tried, a) \in Seq(Attempt)
         /\ Len(Append(tried, a)) = Len(tried) + 1
         /\ Append(tried, a)[Len(tried) + 1] = a
         /\ \A i \in 1 .. Len(tried) : Append(tried, a)[i] = tried[i]
         /\ \A i \in 1 .. Len(tried) + 1 : Before(Append(tried, a), i) = Before(tried, i)
         /\ Last(Append(tried, a)) = a
<1>1. /\ Append(tried, a) \in Seq(Attempt)
      /\ Len(Append(tried, a)) = Len(tried) + 1
      /\ Append(tried, a)[Len(tried) + 1] = a
      /\ \A i \in 1 .. Len(tried) : Append(tried, a)[i] = tried[i]
  BY AppendProperties
<1>2. Len(tried) \in Nat
  OBVIOUS
<1>3. ASSUME NEW i \in 1 .. Len(tried) + 1
      PROVE  Before(Append(tried, a), i) = Before(tried, i)
  BY <1>1, <1>2 DEF Before
<1>4. Last(Append(tried, a)) = a
  BY <1>1 DEF Last
<1>5. QED BY <1>1, <1>3, <1>4

LEMMA DecisionStep ==
  ASSUME reference \in References, NEW local \in Locals, Receivable(local.offers),
         Went(local.offers, local.tried), NEW stuck \in Rails \cup {None},
         stuck # None => local.tried = <<>>
  PROVE  LET d == Decided(local, stuck)
         IN  /\ d \in Locals /\ d.offers = local.offers /\ d.pc \in {"paying", "refused"}
             /\ Routed(d)
             /\ Len(d.tried) > Len(local.tried) /\ Last(d.tried).sticky =>
                  stuck # None /\ Last(d.tried).rail = stuck
<1> DEFINE o == local.offers
           tried == local.tried
           S == Feasible(o, Excluded(local))
           rail == Winner(o, S, stuck)
           a == [rail |-> rail, sticky |-> rail = stuck]
           d == Decided(local, stuck)
<1>1. tried \in Seq(Attempt) /\ Len(tried) \in Nat
  BY DEF Locals
<1>2. Excluded(local) = Before(tried, Len(tried) + 1)
  BY <1>1 DEF Excluded, Before
<1>3. S \subseteq Rails
  BY DEF Feasible
<1>4. CASE S = {}
  <2>1. d = [local EXCEPT !.pc = "refused"]
    BY <1>4 DEF Decided
  <2>2. /\ d \in Locals /\ d.offers = o /\ d.tried = tried /\ d.pc = "refused"
    BY <2>1 DEF Locals, Ends
  <2>3. Excluded(d) = Excluded(local)
    BY <2>2 DEF Excluded
  <2>4. QED BY <1>1, <1>4, <2>2, <2>3 DEF Routed
<1>5. CASE S # {}
  <2>1. rail \in S /\ (rail # stuck => FirstOf(o, rail, S))
    <3> HIDE DEF S, o
    <3>1. Receivable(o)
      BY DEF o
    <3>2. QED BY <1>3, <1>5, <3>1, WinnerIsFirst DEF FirstOf
  <2>2. a \in Attempt /\ a.rail = rail /\ (a.sticky <=> rail = stuck)
    BY <1>3, <2>1 DEF Attempt
  <2>3. d = [local EXCEPT !.pc = "paying", !.tried = Append(tried, a)]
    BY <1>5 DEF Decided
  <2> HIDE DEF a
  <2>4. /\ d.offers = o /\ d.tried = Append(tried, a) /\ d.pc = "paying"
        /\ d \in Locals
    <3>1. Append(tried, a) \in Seq(Attempt)
      BY <1>1, <2>2, AppendedAttempt
    <3> HIDE DEF d
    <3>2. QED BY <2>3, <3>1 DEF Locals
  <2>5. rail # None
    BY <1>3, <2>1, AdaptersAssumption
  <2>6. a.sticky => stuck # None /\ Len(tried) = 0
    BY <2>2, <2>5
  <2>7. Went(o, Append(tried, a))
    <3> SUFFICES ASSUME NEW i \in 1 .. Len(tried) + 1
                 PROVE  LET t == Append(tried, a) IN
                        /\ t[i].rail \in Feasible(o, Before(t, i))
                        /\ t[i].sticky => i = 1
                        /\ ~ t[i].sticky => FirstOf(o, t[i].rail, Feasible(o, Before(t, i)))
      BY <1>1, <2>2, AppendedAttempt DEF Went
    <3>1. Before(Append(tried, a), i) = Before(tried, i)
      BY <1>1, <2>2, AppendedAttempt
    <3>2. CASE i = Len(tried) + 1
      <4>1. Append(tried, a)[i] = a
        BY <1>1, <2>2, <3>2, AppendedAttempt
      <4>2. Feasible(o, Before(tried, i)) = S
        BY <1>2, <3>2
      <4> HIDE DEF S, rail
      <4>3. QED BY <2>1, <2>2, <2>6, <3>1, <3>2, <4>1, <4>2
    <3>3. CASE i \in 1 .. Len(tried)
      <4>1. Append(tried, a)[i] = tried[i]
        BY <1>1, <2>2, <3>3, AppendedAttempt
      <4>2. QED BY <3>1, <3>3, <4>1 DEF Went
    <3>4. QED BY <1>1, <3>2, <3>3
  <2>8. Len(d.tried) > 0 /\ Last(d.tried) = a
    BY <1>1, <2>2, <2>4, AppendedAttempt
  <2>9. QED BY <2>2, <2>4, <2>6, <2>7, <2>8 DEF Routed
<1>6. QED BY <1>4, <1>5

(* The first decision and the next ones, in a flow that satisfies FlowOK. *)
LEMMA FirstDecision ==
  ASSUME RoutingInv, NEW r \in Requests, request[r].pc = "new", NEW o \in Offers[r], NEW e \in Nat
  PROVE  LET d == Decided([request[r] EXCEPT !.offers = o, !.expires = e], Lookup)
         IN  /\ d \in Locals /\ d.offers \in Offers[r] /\ d.pc \in {"paying", "refused"}
             /\ Routed(d)
             /\ Len(d.tried) > Len(request[r].tried) /\ Last(d.tried).sticky =>
                  Lookup # None /\ Last(d.tried).rail = Lookup
<1> DEFINE local == [request[r] EXCEPT !.offers = o, !.expires = e]
<1>1. request[r] \in Locals /\ request[r].tried = <<>>
  BY DEF RoutingInv, FlowOK, Without
<1>2. o \in AllOffers
  BY DEF AllOffers
<1>3. local \in Locals /\ local.offers = o /\ local.tried = <<>>
  BY <1>1, <1>2 DEF Locals
<1>4. Lookup \in Rails \cup {None}
  BY DEF RoutingInv, Lookup
<1>5. Receivable(o)
  BY OffersAreReceivable
<1>6. Went(o, <<>>)
  BY DEF Went
<1> HIDE DEF local
<1>7. LET d == Decided(local, Lookup)
      IN  /\ d \in Locals /\ d.offers = local.offers /\ d.pc \in {"paying", "refused"}
          /\ Routed(d)
          /\ Len(d.tried) > Len(local.tried) /\ Last(d.tried).sticky =>
               Lookup # None /\ Last(d.tried).rail = Lookup
  BY <1>3, <1>4, <1>5, <1>6, DecisionStep DEF RoutingInv
<1>8. QED BY <1>1, <1>3, <1>7 DEF local

LEMMA NextDecision ==
  ASSUME RoutingInv, NEW r \in Requests, request[r].pc = "paying"
  PROVE  LET d == Decided(request[r], None)
         IN  /\ d \in Locals /\ d.offers \in Offers[r] /\ d.pc \in {"paying", "refused"}
             /\ Routed(d)
             /\ ~ (Len(d.tried) > Len(request[r].tried) /\ Last(d.tried).sticky)
<1> DEFINE local == request[r]
<1>1. /\ local \in Locals /\ local.offers \in Offers[r] /\ Went(local.offers, local.tried)
  BY DEF RoutingInv, FlowOK, Routed
<1>2. Receivable(local.offers)
  BY <1>1, OffersAreReceivable
<1> HIDE DEF local
<1>3. LET d == Decided(local, None)
      IN  /\ d \in Locals /\ d.offers = local.offers /\ d.pc \in {"paying", "refused"}
          /\ Routed(d)
          /\ ~ (Len(d.tried) > Len(local.tried) /\ Last(d.tried).sticky)
  BY <1>1, <1>2, DecisionStep DEF RoutingInv
<1>4. QED BY <1>1, <1>3 DEF local

(* What a flow must satisfy is a matter of its locals alone. *)
FlowMay(r, local) ==
  /\ local.pc \in {"new", "done", "abandoned"} => local = Without(local.pc)
  /\ local.pc \in {"paying", "refused"} => local.offers \in Offers[r] /\ Routed(local)

LEMMA FlowsMayGoOn ==
  ASSUME reference' = reference, NEW r, NEW local, request'[r] = local
  PROVE  FlowOK(r)' <=> FlowMay(r, local)
<1>1. \A o, rail : Rank(o, rail)' = Rank(o, rail)
  BY DEF Rank, Quote
<1>2. /\ request'[r].offers = local.offers /\ request'[r].tried = local.tried
      /\ request'[r].pc = local.pc
  OBVIOUS
<1>3. Went(request[r].offers, request[r].tried)' <=> Went(local.offers, local.tried)
  BY <1>2 DEF Went, FirstOf, Before, Rank, Quote
<1>4. Excluded(request[r])' = Excluded(local)
  BY DEF Excluded
<1>5. Routed(request[r])' <=> Routed(local)
  BY <1>2, <1>3, <1>4 DEF Routed
<1>6. QED BY <1>5 DEF FlowOK, FlowMay

(* What a step does to the flow it is about; the others stay. *)
LEMMA FlowStep ==
  ASSUME RoutingInv, NEW r \in Requests, NEW d \in Locals,
         request' = [request EXCEPT ![r] = d], reference' = reference, FlowMay(r, d)
  PROVE  request' \in [Requests -> Locals] /\ \A x \in Requests : FlowOK(x)'
<1>1. request \in [Requests -> Locals] /\ \A x \in Requests : FlowMay(x, request[x])
  BY DEF RoutingInv, FlowOK, FlowMay
<1>2. request' \in [Requests -> Locals]
  BY <1>1
<1>3. ASSUME NEW x \in Requests
      PROVE  FlowOK(x)'
  <2>1. PICK local : local = request'[x]
    OBVIOUS
  <2>2. local = IF x = r THEN d ELSE request[x]
    BY <1>1, <2>1
  <2>3. FlowMay(x, local)
    BY <1>1, <2>2
  <2>4. QED BY <2>1, <2>3, FlowsMayGoOn
<1>4. QED BY <1>2, <1>3

LEMMA IdleFlows ==
  ASSUME NEW r, NEW place \in {"new", "done", "abandoned"}
  PROVE  Without(place) \in Locals /\ FlowMay(r, Without(place))
<1>1. <<>> \in Seq(Attempt)
  OBVIOUS
<1>2. Without(place) \in Locals
  BY <1>1 DEF Without, Locals, Ends
<1>3. Without(place).pc = place
  BY DEF Without
<1>4. QED BY <1>2, <1>3 DEF FlowMay

LEMMA RoutingInitially ==
  ASSUME Init
  PROVE  RoutingInv
<1>1. \A r \in Requests : request[r] = Without("new")
  BY DEF Init
<1>2. request \in [Requests -> Locals]
  BY IdleFlows DEF Init
<1>3. \A r \in Requests : FlowOK(r)
  BY <1>1 DEF FlowOK, Without
<1>4. QED BY <1>2, <1>3 DEF Init, RoutingInv, StickyOK

LEMMA RoutingStep ==
  ASSUME RoutingInv, [Next]_vars
  PROVE  RoutingInv'
<1>1. /\ now \in Nat /\ reference \in References
      /\ sticky \in [rail : Rails, expires : Nat] \cup {None}
      /\ won \in [rail : Rails, at : Nat, expires : Nat] \cup {None}
      /\ request \in [Requests -> Locals] /\ StickyOK
      /\ \A r \in Requests : FlowOK(r)
  BY DEF RoutingInv
<1>2. ASSUME UNCHANGED <<reference, request>>
      PROVE  request' \in [Requests -> Locals] /\ \A r \in Requests : FlowOK(r)'
  <2>1. \A r \in Requests : FlowMay(r, request[r])
    BY <1>1 DEF FlowOK, FlowMay
  <2>2. QED BY <1>1, <1>2, <2>1, FlowsMayGoOn
<1>3. ASSUME UNCHANGED won, sticky' = sticky \/ sticky' = None
      PROVE  StickyOK'
  BY <1>1, <1>3 DEF StickyOK
<1>4. CASE UNCHANGED vars
  BY <1>1, <1>2, <1>3, <1>4 DEF vars, RoutingInv
<1>5. CASE Tick
  <2>1. now' \in Nat /\ UNCHANGED <<reference, sticky, request, won>>
    BY <1>1, <1>5 DEF Tick
  <2>2. QED BY <1>1, <1>2, <1>3, <2>1 DEF RoutingInv
<1>6. ASSUME NEW r \in Requests, NEW d \in Locals, FlowMay(r, d),
             request' = [request EXCEPT ![r] = d],
             UNCHANGED <<now, reference, won>>, sticky' = sticky \/ sticky' = None
      PROVE  RoutingInv'
  BY <1>1, <1>3, <1>6, FlowStep DEF RoutingInv
<1>7. ASSUME NEW r \in Requests, NEW o \in Offers[r], NEW lifetime \in Lifetimes,
             Receive(r, o, lifetime)
      PROVE  RoutingInv'
  <2>1. now + lifetime \in Nat
    BY <1>1, TimesAssumption
  <2>2. PICK d : d = Decided([request[r] EXCEPT !.offers = o, !.expires = now + lifetime], Lookup)
    OBVIOUS
  <2>3. d \in Locals /\ FlowMay(r, d)
    BY <1>7, <2>1, <2>2, FirstDecision DEF Receive, FlowMay
  <2>4. request' = [request EXCEPT ![r] = d]
    BY <1>1, <1>7, <2>2 DEF Receive
  <2>5. QED BY <1>6, <1>7, <2>3, <2>4 DEF Receive
<1>8. ASSUME NEW r \in Requests, PayFails(r)
      PROVE  RoutingInv'
  <2>1. PICK d : d = Decided(request[r], None)
    OBVIOUS
  <2>2. d \in Locals /\ FlowMay(r, d)
    BY <1>8, <2>1, NextDecision DEF PayFails, FlowMay
  <2>3. request' = [request EXCEPT ![r] = d]
    BY <1>1, <1>8, <2>1 DEF PayFails
  <2>4. QED BY <1>6, <1>8, <2>2, <2>3 DEF PayFails
<1>9. ASSUME NEW r \in Requests, PayFailsPostCommit(r) \/ Abandon(r)
      PROVE  RoutingInv'
  <2>1. request' = [request EXCEPT ![r] = Without("abandoned")]
    BY <1>9 DEF PayFailsPostCommit, Abandon
  <2>2. QED BY <1>6, <1>9, <2>1, IdleFlows DEF PayFailsPostCommit, Abandon
<1>10. ASSUME NEW r \in Requests, Remember(r)
       PROVE  RoutingInv'
  <2>1. request' = [request EXCEPT ![r] = Without("done")] /\ UNCHANGED <<now, reference>>
    BY <1>10 DEF Remember
  <2>2. request' \in [Requests -> Locals] /\ \A x \in Requests : FlowOK(x)'
    BY <2>1, IdleFlows, FlowStep
  <2>3. request[r] \in Locals /\ Len(request[r].tried) > 0
    BY <1>1, <1>10 DEF Remember, FlowOK, Routed
  <2>4. Last(request[r].tried).rail \in Rails
    <3>1. PICK t \in Seq(Attempt) : t = request[r].tried /\ Len(t) > 0
      BY <2>3 DEF Locals
    <3>2. t[Len(t)] \in Attempt
      BY <3>1
    <3>3. QED BY <3>1, <3>2 DEF Last, Attempt
  <2>5. request[r].expires \in Nat
    BY <2>3 DEF Locals
  <2>6. PICK rail \in Rails, e \in Nat :
          /\ won' = [rail |-> rail, at |-> now, expires |-> e]
          /\ sticky' = [rail |-> rail, expires |-> IF e < now + StickyTtl THEN e
                                                   ELSE now + StickyTtl]
    BY <1>10, <2>4, <2>5 DEF Remember
  <2>7. now + StickyTtl \in Nat
    BY <1>1, TimesAssumption
  <2>8. /\ sticky' \in [rail : Rails, expires : Nat] \cup {None}
        /\ won' \in [rail : Rails, at : Nat, expires : Nat] \cup {None}
    BY <1>1, <2>6, <2>7
  <2>9. StickyOK'
    <3>1. won' # None
      BY <1>1, <2>6, AdaptersAssumption
    <3>2. sticky'.expires <= won'.expires /\ sticky'.expires <= won'.at + StickyTtl
      BY <1>1, <2>6, <2>7
    <3>3. QED BY <2>6, <3>1, <3>2 DEF StickyOK
  <2>10. QED BY <1>1, <2>1, <2>2, <2>8, <2>9 DEF RoutingInv
<1>11. QED BY <1>4, <1>5, <1>7, <1>8, <1>9, <1>10 DEF Next

THEOREM RoutingInvariant == Spec => []RoutingInv
<1>1. RoutingInv /\ UNCHANGED vars => RoutingInv'
  BY RoutingStep
<1>2. QED BY RoutingInitially, RoutingStep, PTL DEF Spec

(* The clock, the cache and the flows keep their types. *)
THEOREM RoutingTypeCorrect == Spec => []TypeOK
<1>1. ASSUME RoutingInv
      PROVE  TypeOK
  <2>1. ASSUME NEW r \in Requests
        PROVE  request[r] \in Locals /\ request[r].offers \in Offers[r] \cup {None}
    BY <1>1, <2>1 DEF RoutingInv, FlowOK, Locals, Ends, Without
  <2>2. QED BY <1>1, <2>1 DEF RoutingInv, TypeOK, Locals
<1>2. QED BY <1>1, RoutingInvariant, PTL

-----------------------------------------------------------------------------
(* Failover down the ranking. *)
LEMMA EarlierIsRankedHigher ==
  ASSUME NEW o, NEW tried \in Seq(Attempt), Went(o, tried),
         NEW i \in DOMAIN tried, NEW j \in DOMAIN tried, i < j
  PROVE  /\ tried[i].rail # tried[j].rail
         /\ tried[i].rail \in Rails /\ tried[j].rail \in Rails
         /\ ~ tried[i].sticky => Precedes(Rank(o, tried[i].rail), Rank(o, tried[j].rail))
<1>1. Len(tried) \in Nat /\ i \in 1 .. Len(tried) /\ j \in 1 .. Len(tried)
  OBVIOUS
<1>2. Before(tried, i) \subseteq Before(tried, j) /\ tried[i].rail \in Before(tried, j)
  BY <1>1 DEF Before
<1>3. tried[j].rail \in Feasible(o, Before(tried, j)) /\ tried[i].rail \in Feasible(o, Before(tried, i))
  BY <1>1 DEF Went
<1>4. tried[i].rail # tried[j].rail
  BY <1>2, <1>3 DEF Feasible
<1>5. tried[j].rail \in Feasible(o, Before(tried, i)) \ {tried[i].rail}
  BY <1>2, <1>3, <1>4 DEF Feasible
<1>6. ~ tried[i].sticky => FirstOf(o, tried[i].rail, Feasible(o, Before(tried, i)))
  BY <1>1 DEF Went
<1>7. QED BY <1>3, <1>4, <1>5, <1>6 DEF FirstOf, Feasible

(***************************************************************************)
(* A rail that is tried later was not cheaper, and at the same cost not    *)
(* preferred over the earlier one; a rail without a quote comes last, and  *)
(* no rail is tried twice (_select_winner).                                *)
(***************************************************************************)
THEOREM FailoverIsRanked == Spec => []FailoverFollowsRank
<1>1. ASSUME RoutingInv
      PROVE  FailoverFollowsRank
  <2>1. ASSUME NEW r \in Requests,
               NEW i \in DOMAIN request[r].tried, NEW j \in DOMAIN request[r].tried, i < j
        PROVE  LET tried == request[r].tried
                   o == request[r].offers
                   Cost(n) == Quote(o[tried[n].rail].price)
               IN /\ tried[i].rail # tried[j].rail
                  /\ ~ tried[i].sticky /\ Cost(j) # None =>
                       /\ Cost(i) # None /\ Cost(i) <= Cost(j)
                       /\ Cost(i) = Cost(j) /\ Preferred(o, tried[j].rail)
                            => Preferred(o, tried[i].rail)
    <3> DEFINE tried == request[r].tried
               o == request[r].offers
    <3>1. tried \in Seq(Attempt) /\ reference \in References
      BY <1>1 DEF RoutingInv, Locals
    <3>2. tried # <<>>
      BY <2>1
    <3>3. o \in Offers[r] /\ Went(o, tried)
      BY <1>1, <3>2 DEF RoutingInv, FlowOK, Routed, Without, Locals, Ends
    <3>4. Receivable(o)
      BY <3>3, OffersAreReceivable
    <3> HIDE DEF tried, o
    <3>5. i \in DOMAIN tried /\ j \in DOMAIN tried /\ i < j
      BY <2>1 DEF tried
    <3>6. /\ tried[i].rail # tried[j].rail
          /\ tried[i].rail \in Rails /\ tried[j].rail \in Rails
          /\ ~ tried[i].sticky => Precedes(Rank(o, tried[i].rail), Rank(o, tried[j].rail))
      BY <3>1, <3>3, <3>5, EarlierIsRankedHigher
    <3>7. PICK a \in Rails, b \in Rails : a = tried[i].rail /\ b = tried[j].rail
      BY <3>6
    <3>8. ASSUME Precedes(Rank(o, a), Rank(o, b)), Quote(o[b].price) # None
          PROVE  /\ Quote(o[a].price) # None /\ Quote(o[a].price) <= Quote(o[b].price)
                 /\ Quote(o[a].price) = Quote(o[b].price) /\ Preferred(o, b) => Preferred(o, a)
      <4>1. Rank(o, a) \in RankKeys /\ Rank(o, b) \in RankKeys
        BY <3>1, <3>4, RanksAreKeys
      <4>2. /\ Rank(o, a)[1] = Penalty(Quote(o[a].price) = None) /\ Rank(o, b)[1] = 0
            /\ Rank(o, a)[3] = Penalty(~ Preferred(o, a))
            /\ Rank(o, b)[3] = Penalty(~ Preferred(o, b))
        BY <3>1, <3>4, <3>8, RanksAreKeys DEF Penalty
      <4>3. Rank(o, a)[1] <= 0
        BY <3>8, <4>1, <4>2, PrecedesIsLexicographic DEF RankKeys
      <4>4. Quote(o[a].price) # None
        BY <4>2, <4>3 DEF Penalty
      <4>5. /\ Quote(o[a].price) \in Nat /\ Rank(o, a)[2] = Quote(o[a].price)
            /\ Quote(o[b].price) \in Nat /\ Rank(o, b)[2] = Quote(o[b].price)
            /\ Rank(o, a)[1] = 0
        BY <3>1, <3>4, <3>8, <4>2, <4>4, RanksAreKeys DEF Penalty
      <4>6. \/ Quote(o[a].price) < Quote(o[b].price)
            \/ Quote(o[a].price) = Quote(o[b].price) /\ Rank(o, a)[3] <= Rank(o, b)[3]
        BY <3>8, <4>1, <4>2, <4>5, PrecedesIsLexicographic DEF RankKeys
      <4>7. Preferred(o, b) /\ Rank(o, a)[3] <= Rank(o, b)[3] => Preferred(o, a)
        BY <4>2 DEF Penalty
      <4>8. QED BY <4>4, <4>5, <4>6, <4>7
    <3>9. QED BY <3>6, <3>7, <3>8 DEF tried, o
  <2>2. QED BY <2>1 DEF FailoverFollowsRank
<1>2. QED BY <1>1, RoutingInvariant, PTL

(***************************************************************************)
(* A request is refused only when each rail that the policy and the        *)
(* funding allow has been tried (Router.decide).                           *)
(***************************************************************************)
THEOREM RefusalIsLast == Spec => []RefusedHavingTriedAll
<1>1. ASSUME RoutingInv
      PROVE  RefusedHavingTriedAll
  <2>1. \A r \in Requests : request[r].pc = "refused" =>
          Feasible(request[r].offers, Excluded(request[r])) = {}
    BY <1>1 DEF RoutingInv, FlowOK, Routed
  <2>2. QED BY <2>1 DEF RefusedHavingTriedAll, Feasible
<1>2. QED BY <1>1, RoutingInvariant, PTL

(***************************************************************************)
(* Once a payment has failed, the request is routed by the ranking alone   *)
(* (the except clause of async_auth_flow).                                 *)
(***************************************************************************)
THEOREM StickinessEnds == Spec => []StickinessEndsWithFailure
<1>1. ASSUME RoutingInv
      PROVE  StickinessEndsWithFailure
  <2>1. ASSUME NEW r \in Requests, NEW i \in DOMAIN request[r].tried, request[r].tried[i].sticky
        PROVE  i = 1
    <3>1. PICK tried \in Seq(Attempt) : tried = request[r].tried
      BY <1>1 DEF RoutingInv, Locals
    <3>2. Went(request[r].offers, tried)
      BY <1>1, <2>1, <3>1 DEF RoutingInv, FlowOK, Routed, Without, Locals, Ends
    <3>3. i \in 1 .. Len(tried) /\ tried[i].sticky
      BY <2>1, <3>1
    <3>4. QED BY <3>2, <3>3 DEF Went
  <2>2. QED BY <2>1 DEF StickinessEndsWithFailure
<1>2. QED BY <1>1, RoutingInvariant, PTL

(***************************************************************************)
(* A request is routed by stickiness only to the rail of the latest        *)
(* payment on this key, within the cache's ttl and the validity of that    *)
(* payment's challenge (StickyCache.remember, lookup).                     *)
(***************************************************************************)
THEOREM StickyRailsPaid == Spec => StickyRailsHavePaid
<1>1. ASSUME RoutingInv, [Next]_vars, NEW r \in Requests
      PROVE  LET tried == request'[r].tried
             IN Len(tried) > Len(request[r].tried) /\ Last(tried).sticky =>
                  /\ won # None
                  /\ Last(tried).rail = won.rail
                  /\ now < won.at + StickyTtl
                  /\ now < won.expires
  <2> DEFINE Shorter == ~ (Len(request'[r].tried) > Len(request[r].tried))
  <2>1. request \in [Requests -> Locals] /\ Len(request[r].tried) \in Nat
    BY <1>1 DEF RoutingInv, Locals
  <2>2. CASE request'[r] = request[r]
    BY <2>1, <2>2
  <2>3. ASSUME NEW place, request'[r] = Without(place)
        PROVE  Shorter
    <3>1. request'[r].tried = <<>>
      BY <2>3 DEF Without
    <3>2. Len(request'[r].tried) = 0
      BY <3>1
    <3>3. QED BY <2>1, <3>2
  <2>4. CASE UNCHANGED vars \/ Tick
    BY <2>2, <2>4 DEF vars, Tick
  <2>5. ASSUME NEW x \in Requests, x # r, NEW d, request' = [request EXCEPT ![x] = d]
        PROVE  request'[r] = request[r]
    BY <2>1, <2>5
  <2>6. ASSUME NEW x \in Requests, NEW o \in Offers[x], NEW lifetime \in Lifetimes,
               Receive(x, o, lifetime)
        PROVE  LET tried == request'[r].tried
               IN Len(tried) > Len(request[r].tried) /\ Last(tried).sticky =>
                    Lookup # None /\ Last(tried).rail = Lookup
    <3>1. CASE x # r
      BY <2>1, <2>5, <2>6, <3>1 DEF Receive
    <3>2. CASE x = r
      <4>1. now + lifetime \in Nat /\ request[r].pc = "new" /\ o \in Offers[r]
        BY <1>1, <2>6, <3>2, TimesAssumption DEF RoutingInv, Receive
      <4>2. PICK d : d = Decided([request[r] EXCEPT !.offers = o, !.expires = now + lifetime],
                                 Lookup)
        OBVIOUS
      <4>3. Len(d.tried) > Len(request[r].tried) /\ Last(d.tried).sticky =>
              Lookup # None /\ Last(d.tried).rail = Lookup
        BY <1>1, <4>1, <4>2, FirstDecision
      <4>4. request'[r] = d
        BY <2>1, <2>6, <3>2, <4>2 DEF Receive
      <4>5. QED BY <4>3, <4>4
    <3>3. QED BY <3>1, <3>2
  <2>7. Lookup # None =>
          /\ won # None /\ Lookup = won.rail
          /\ now < won.at + StickyTtl /\ now < won.expires
    <3>1. ASSUME Lookup # None
          PROVE  /\ sticky # None /\ now < sticky.expires /\ Lookup = sticky.rail
      BY <3>1 DEF Lookup
    <3>2. sticky # None => /\ won # None /\ sticky.rail = won.rail
                           /\ sticky.expires <= won.expires
                           /\ sticky.expires <= won.at + StickyTtl
      BY <1>1 DEF RoutingInv, StickyOK
    <3>3. /\ now \in Nat /\ StickyTtl \in Nat
          /\ sticky # None => sticky.expires \in Nat
          /\ won # None => won.at \in Nat /\ won.expires \in Nat
      BY <1>1, TimesAssumption DEF RoutingInv
    <3>4. QED BY <3>1, <3>2, <3>3
  <2>8. ASSUME NEW x \in Requests, PayFails(x)
        PROVE  LET tried == request'[r].tried
               IN ~ (Len(tried) > Len(request[r].tried) /\ Last(tried).sticky)
    <3>1. CASE x # r
      BY <2>1, <2>5, <2>8, <3>1 DEF PayFails
    <3>2. CASE x = r
      <4>1. request[r].pc = "paying" /\ request'[r] = Decided(request[r], None)
        BY <2>1, <2>8, <3>2 DEF PayFails
      <4>2. PICK d : d = Decided(request[r], None)
        OBVIOUS
      <4>3. ~ (Len(d.tried) > Len(request[r].tried) /\ Last(d.tried).sticky)
        BY <1>1, <4>1, <4>2, NextDecision
      <4>4. QED BY <4>1, <4>2, <4>3
    <3>3. QED BY <3>1, <3>2
  <2>9. ASSUME NEW x \in Requests, PayFailsPostCommit(x) \/ Abandon(x) \/ Remember(x)
        PROVE  ~ (Len(request'[r].tried) > Len(request[r].tried))
    <3>1. PICK place : request' = [request EXCEPT ![x] = Without(place)]
      BY <2>9 DEF PayFailsPostCommit, Abandon, Remember
    <3>2. CASE x # r
      BY <2>1, <2>5, <3>1, <3>2
    <3>3. CASE x = r
      BY <2>1, <2>3, <3>1, <3>3
    <3>4. QED BY <3>2, <3>3
  <2>10. QED BY <1>1, <2>4, <2>6, <2>7, <2>8, <2>9 DEF Next
<1>2. RoutingInv /\ [Next]_vars =>
        [\A r \in Requests :
           LET tried == request'[r].tried
           IN Len(tried) > Len(request[r].tried) /\ Last(tried).sticky =>
                /\ won # None
                /\ Last(tried).rail = won.rail
                /\ now < won.at + StickyTtl
                /\ now < won.expires]_vars
  BY <1>1
<1>3. QED BY <1>2, RoutingInvariant, PTL DEF Spec, StickyRailsHavePaid

-----------------------------------------------------------------------------
(* The prices of what a request has tried were offered by the server. *)
LEMMA TriedWasOffered ==
  ASSUME RoutingInv, NEW r \in Requests, NEW price \in TriedPrices(r)
  PROVE  \E o \in Offers[r], rail \in Rails : price = o[rail].price
<1>1. PICK rail \in Excluded(request[r]) : price = request[r].offers[rail].price
  BY DEF TriedPrices
<1>2. PICK tried \in Seq(Attempt) : tried = request[r].tried
  BY DEF RoutingInv, Locals
<1>3. PICK i \in DOMAIN tried : rail = tried[i].rail
  BY <1>1, <1>2 DEF Excluded
<1>4. tried[i] \in Attempt
  BY <1>3
<1>5. tried # <<>>
  BY <1>3
<1>6. request[r].offers \in Offers[r]
  BY <1>2, <1>5 DEF RoutingInv, FlowOK, Without, Locals, Ends
<1>7. QED BY <1>1, <1>3, <1>4, <1>6 DEF Attempt

(* Whatever the server asks for, the client converts between currencies    *)
(* whose minor units are as many to a unit.                                *)
OffersSameCents ==
  \A r \in Requests : \A o \in Offers[r] : \A rail \in Rails :
    \A env \in References \ {None} : SameCents(o[rail].price, env)

(***************************************************************************)
(* A quote covers the worth of the price and exceeds it by the buffer and  *)
(* one unit at the most (amount_to_envelope_minor_units), as long as no    *)
(* fiat price is in a currency with other minor units than the envelope's: *)
(* for a price in yen the code is wrong (RoutingYen.cfg).                  *)
(***************************************************************************)
THEOREM QuotesCover == OffersSameCents => (Spec => []QuotesCoverPrices)
<1> SUFFICES ASSUME OffersSameCents
             PROVE  Spec => []QuotesCoverPrices
  OBVIOUS
<1>1. ASSUME RoutingInv
      PROVE  QuotesCoverPrices
  <2>1. ASSUME NEW r \in Requests, NEW price \in TriedPrices(r),
               reference # None, Quote(price) # None
        PROVE  LET n == Numerator(price, reference, Snapshot)
                   d == Denominator(price)
               IN n <= Quote(price) * d /\ 100 * Quote(price) * d < 105 * n + 100 * d
    <3>1. PICK o \in Offers[r], rail \in Rails : price = o[rail].price
      BY <1>1, TriedWasOffered
    <3>2. reference \in References \ {None} /\ reference \in DOMAIN MinorPerMajor
      BY <1>1, <2>1, ReferencesAssumption DEF RoutingInv
    <3>3. Priced(price) /\ SameCents(price, reference)
      BY <3>1, <3>2, OffersAssumption DEF Priced, OffersSameCents
    <3>4. Quote(price) = EnvelopeAmount(price, reference, Snapshot)
      BY <2>1 DEF Quote
    <3>5. Covers(Quote(price), Numerator(price, reference, Snapshot), Denominator(price))
      BY <2>1, <3>2, <3>3, <3>4, PriceIsCovered
    <3>6. QED BY <3>5 DEF Covers
  <2>2. QED BY <2>1 DEF QuotesCoverPrices
<1>2. QED BY <1>1, RoutingInvariant, PTL

(***************************************************************************)
(* What the trace reports of a payment is never more than was drawn for    *)
(* it, and is only reported where there was a draw (fmv_for_trace).        *)
(***************************************************************************)
THEOREM TracesStayWithin == Spec => []TracesStayWithinQuotes
<1>1. ASSUME RoutingInv
      PROVE  TracesStayWithinQuotes
  <2>1. ASSUME NEW r \in Requests, NEW price \in TriedPrices(r),
               reference # None, TraceAmount(price, reference, Snapshot) # None
        PROVE  /\ Quote(price) # None
               /\ TraceAmount(price, reference, Snapshot) <= Quote(price)
    <3>1. PICK o \in Offers[r], rail \in Rails : price = o[rail].price
      BY <1>1, TriedWasOffered
    <3>2. reference \in DOMAIN MinorPerMajor
      BY <1>1, <2>1, ReferencesAssumption DEF RoutingInv
    <3>3. Priced(price)
      BY <3>1, OffersAssumption DEF Priced
    <3>4. QED BY <2>1, <3>2, <3>3, TraceStaysWithin DEF Quote
  <2>2. QED BY <2>1 DEF TracesStayWithinQuotes
<1>2. QED BY <1>1, RoutingInvariant, PTL
=============================================================================
