---------------------------- MODULE FiguresProofs ----------------------------
(***************************************************************************)
(* What figures keep: the fares, for every distance, duration and number   *)
(* of passengers; a driver's figures, for every number of rides and of     *)
(* requests in progress; and the answers of lists and statistics.          *)
(*                                                                         *)
(* Roundings are by constants, so that each fact of a fare is one about    *)
(* integer division by a number.  A sum over a set is a recursive function *)
(* on its subsets: that there is one, and what it does, follows from the   *)
(* strict subsets of a finite set being well founded.                      *)
(*                                                                         *)
(* The account of ratings needs what a request that has taken the average  *)
(* has seen: no more rows than there are, and its own; and all of them     *)
(* while ratings come one at a time.                                       *)
(*                                                                         *)
(* A list is accounted for at the end of the pages read: of the rows       *)
(* before it, those that were missed; of those behind it, the ones that    *)
(* were already seen.  A change moves at most one row over it.  The        *)
(* figures of a statistic are accounted for by what they will be.  Whose   *)
(* rows are listed is Access, about tables of any size.                    *)
(***************************************************************************)
EXTENDS Earnings, Listings, FiniteSetTheorems, TLAPS

\* Every kind of ride the calculator may be asked about.
KnownTypes == CalculatorTypes \cup RideTypes

-------------------------------------------------------------------------------
(* PaymentCalculator *)

LEMMA TariffKnown ==
    ASSUME NEW type \in KnownTypes
    PROVE  /\ TariffOf(type).base \in Nat
           /\ TariffOf(type).metre \in Nat
           /\ TariffOf(type).minute \in Nat
           /\ TariffOf(type).least \in {80000, 100000, 150000, 200000}
BY DEF KnownTypes, CalculatorTypes, RideTypes, TariffOf, Tariff

LEMMA ProductIsNat == \A a, b \in Nat : a * b \in Nat
BY SMT

\* The fare before rounding is a number, and no less than the least of its type.
LEMMA FareBeforeRoundingBounded ==
    ASSUME NEW m \in Nat, NEW minutes \in Nat, NEW type \in KnownTypes
    PROVE  /\ FareBeforeRounding(m, minutes, type) \in Nat
           /\ FareBeforeRounding(m, minutes, type) >= TariffOf(type).least
<1> DEFINE t == TariffOf(type)
<1>1. t.base \in Nat /\ t.metre \in Nat /\ t.minute \in Nat /\ t.least \in Nat
  BY TariffKnown
<1>2. m * t.metre \in Nat /\ minutes * t.minute \in Nat
  BY <1>1, ProductIsNat
<1> DEFINE subtotal == t.base + m * t.metre + minutes * t.minute
<1>3. subtotal \in Nat
  BY <1>1, <1>2
<1>4. FareBeforeRounding(m, minutes, type) = IF subtotal < t.least THEN t.least ELSE subtotal
  BY DEF FareBeforeRounding
<1> HIDE DEF t, subtotal
<1>5. FareBeforeRounding(m, minutes, type) \in Nat /\ FareBeforeRounding(m, minutes, type) >= t.least
  BY <1>1, <1>3, <1>4
<1> QED
  BY <1>5 DEF t

\* An amount, split by fifteen and eighty-five per cent and rounded to francs three times.
LEMMA SplitWithinFranc ==
    ASSUME NEW x \in Nat
    PROVE  Distance(RoundDiv(15 * x, 10000) + RoundDiv(85 * x, 10000), ToFranc(x)) <= 1
BY DEF RoundDiv, ToFranc, Distance

LEMMA ToFrancKeepsLeast ==
    ASSUME NEW x \in Nat, NEW least \in {80000, 100000, 150000, 200000}, x >= least
    PROVE  100 * ToFranc(x) >= least
BY DEF RoundDiv, ToFranc

\* calculateRideFare: whatever the trip, the platform's fee and the driver's earnings are
\* the fare or differ from it by one franc, and no fare is below the least of its type.
THEOREM CalculatorSplitsFare ==
    ASSUME NEW m \in Nat, NEW minutes \in Nat, NEW type \in KnownTypes
    PROVE  LET split == CalculateRideFare(m, minutes, type) IN
           /\ Distance(split.platformFee + split.driverEarnings, split.totalFare) <= 1
           /\ 100 * split.totalFare >= TariffOf(type).least
<1> DEFINE x == FareBeforeRounding(m, minutes, type)
<1>1. x \in Nat /\ x >= TariffOf(type).least
  BY FareBeforeRoundingBounded
<1>2. TariffOf(type).least \in {80000, 100000, 150000, 200000}
  BY TariffKnown
<1>3. Distance(RoundDiv(15 * x, 10000) + RoundDiv(85 * x, 10000), ToFranc(x)) <= 1
  BY <1>1, SplitWithinFranc
<1>4. 100 * ToFranc(x) >= TariffOf(type).least
  BY <1>1, <1>2, ToFrancKeepsLeast
<1>5. /\ CalculateRideFare(m, minutes, type).totalFare = ToFranc(x)
      /\ CalculateRideFare(m, minutes, type).platformFee = RoundDiv(15 * x, 10000)
      /\ CalculateRideFare(m, minutes, type).driverEarnings = RoundDiv(85 * x, 10000)
  BY DEF CalculateRideFare
<1> QED
  BY <1>3, <1>4, <1>5

-------------------------------------------------------------------------------
(* RidesService *)

LEMMA CalculateFareIsNat ==
    ASSUME NEW m \in Nat, NEW type \in RideTypes
    PROVE  CalculateFare(m, type) \in Nat /\ CalculateFare(m, type) >= 50000
<1>1. PerMetre(type) \in {15, 20, 30}
  BY DEF PerMetre, RideTypes
<1> QED
  BY <1>1 DEF CalculateFare

\* createRide accepts what estimateFare quoted for the same trip, whatever its length.
THEOREM EstimateIsAccepted ==
    ASSUME NEW m \in Nat, NEW type \in RideTypes
    PROVE  AcceptsFare(m, type, EstimateFare(m)[type])
<1>1. EstimateFare(m)[type] = CalculateFare(m, type)
  BY DEF EstimateFare
<1>2. CalculateFare(m, type) \in Nat
  BY CalculateFareIsNat
<1>3. Distance(CalculateFare(m, type), CalculateFare(m, type)) = 0
  BY <1>2 DEF Distance
<1> QED
  BY <1>1, <1>2, <1>3 DEF AcceptsFare

\* A fare that createRide accepts is no quote of another type for the same trip, once the
\* trip is longer than 625 metres: a client cannot pay STANDARD for PREMIUM.
THEOREM TypesAreApart ==
    ASSUME NEW m \in Nat, m > 625, NEW a \in RideTypes, NEW b \in RideTypes, a # b
    PROVE  ~AcceptsFare(m, a, EstimateFare(m)[b])
<1>1. EstimateFare(m)[b] = CalculateFare(m, b)
  BY DEF EstimateFare
<1>2. /\ PerMetre(a) \in {15, 20, 30}
      /\ PerMetre(b) \in {15, 20, 30}
      /\ PerMetre(a) # PerMetre(b)
  BY DEF PerMetre, RideTypes
<1>3. 20 * Distance(50000 + m * PerMetre(b), 50000 + m * PerMetre(a)) > 50000 + m * PerMetre(a)
  BY <1>2 DEF Distance
<1>4. CalculateFare(m, a) = 50000 + m * PerMetre(a) /\ CalculateFare(m, b) = 50000 + m * PerMetre(b)
  BY DEF CalculateFare
<1>5. 50000 + m * PerMetre(a) \in Nat /\ 50000 + m * PerMetre(b) \in Nat
  BY <1>2
<1> HIDE DEF Distance
<1> QED
  BY <1>1, <1>3, <1>4, <1>5 DEF AcceptsFare, Distance

-------------------------------------------------------------------------------
(* CarpoolPricingService *)

\* calculateDriverEarnings: of what was collected, the fee and the earnings are all of it,
\* or a franc more or less.
THEOREM CarpoolSplitsCollected ==
    ASSUME NEW collected \in Nat
    PROVE  Distance(CarpoolFee(collected) + CarpoolEarnings(collected), collected) <= 1
BY DEF CarpoolFee, CarpoolEarnings, Percent, RoundDiv, Distance

\* calculateCarpoolPricing: however many share it, the discount is between a quarter and a
\* half, what is paid and what is saved make up the price or a franc more, and at least
\* half of the price is paid.
THEOREM CarpoolDiscountBounded ==
    ASSUME NEW price \in Nat, NEW n \in Nat \ {0}
    PROVE  LET pricing == CalculateCarpoolPricing(price, n) IN
           /\ DiscountPercent(n) \in 25..50
           /\ pricing.discountedTotalPrice + pricing.totalSavings \in {price, price + 1}
           /\ 2 * pricing.discountedTotalPrice >= price
<1>1. DiscountPercent(n) \in {25, 35, 45, 50}
  BY DEF DiscountPercent
<1> DEFINE off == DiscountPercent(n)
           rest == Percent(100 - off, price)
           saved == Percent(off, price)
<1>2. rest + saved \in {price, price + 1} /\ 2 * rest >= price
  <2>1. CASE off = 25 BY <2>1 DEF Percent, RoundDiv
  <2>2. CASE off = 35 BY <2>2 DEF Percent, RoundDiv
  <2>3. CASE off = 45 BY <2>3 DEF Percent, RoundDiv
  <2>4. CASE off = 50 BY <2>4 DEF Percent, RoundDiv
  <2> QED BY <1>1, <2>1, <2>2, <2>3, <2>4
<1>3. /\ CalculateCarpoolPricing(price, n).discountedTotalPrice = rest
      /\ CalculateCarpoolPricing(price, n).totalSavings = saved
  BY DEF CalculateCarpoolPricing
<1> QED
  BY <1>1, <1>2, <1>3

-------------------------------------------------------------------------------
(* Sums over finite sets *)

\* The element that a fold over a set takes first.
First(s) == CHOOSE x \in s : TRUE
Rest(s) == s \ {First(s)}

\* g is the function by which MapThenSumSet adds up the weights w over the subsets of S.
Sums(w, S, g) == g = [s \in SUBSET S |-> IF s = {} THEN 0 ELSE w[First(s)] + g[Rest(s)]]

LEMMA FirstRest ==
    ASSUME NEW s, s # {}
    PROVE  /\ First(s) \in s /\ First(s) \notin Rest(s)
           /\ Rest(s) \subseteq s /\ Rest(s) # s
           /\ s = Rest(s) \cup {First(s)}
BY DEF First, Rest

\* Of a set of subsets of a finite set, one that is not empty has a least member.
LEMMA LeastSubset ==
    ASSUME NEW S, IsFiniteSet(S), NEW B, B \subseteq SUBSET S, B # {}
    PROVE  \E s \in B : \A t \in SUBSET s : t # s => t \notin B
<1>1. IsWellFoundedOn(StrictSubsetOrdering(S), FiniteSubsetsOf(S))
  BY FS_StrictSubsetOrderingWellFounded
<1>2. B \subseteq FiniteSubsetsOf(S)
  BY FS_Subset DEF FiniteSubsetsOf
<1>3. PICK s \in B : \A t \in B : ~(<<t, s>> \in StrictSubsetOrdering(S))
  BY <1>1, <1>2, WFMin
<1>4. \A t \in SUBSET s : t # s => t \notin B
  BY <1>3 DEF StrictSubsetOrdering
<1> QED
  BY <1>4

LEMMA SumsAgree ==
    ASSUME NEW w, NEW S, IsFiniteSet(S), NEW T \in SUBSET S, NEW g, NEW h,
           Sums(w, S, g), Sums(w, T, h)
    PROVE  \A s \in SUBSET T : g[s] = h[s]
<1> DEFINE B == {s \in SUBSET T : g[s] # h[s]}
<1> SUFFICES ASSUME B # {} PROVE FALSE
  OBVIOUS
<1>1. IsFiniteSet(T) /\ B \subseteq SUBSET T
  BY FS_Subset
<1>2. PICK s \in B : \A t \in SUBSET s : t # s => t \notin B
  <2> HIDE DEF B
  <2> QED
    BY <1>1, LeastSubset
<1>3. /\ g[s] = IF s = {} THEN 0 ELSE w[First(s)] + g[Rest(s)]
      /\ h[s] = IF s = {} THEN 0 ELSE w[First(s)] + h[Rest(s)]
  BY DEF Sums
<1>4. s # {}
  BY <1>3
<1>5. g[Rest(s)] = h[Rest(s)]
  BY <1>2, <1>4, FirstRest
<1> QED
  BY <1>3, <1>4, <1>5

LEMMA SumsExist ==
    ASSUME NEW w, NEW S, IsFiniteSet(S)
    PROVE  \E g : Sums(w, S, g)
<1> DEFINE B == {s \in SUBSET S : ~\E g : Sums(w, s, g)}
<1> SUFFICES ASSUME B # {} PROVE FALSE
  OBVIOUS
<1>1. PICK T \in B : \A t \in SUBSET T : t # T => t \notin B
  <2>1. B \subseteq SUBSET S
    OBVIOUS
  <2> HIDE DEF B
  <2> QED
    BY <2>1, LeastSubset
<1>2. T \subseteq S /\ IsFiniteSet(T) /\ ~\E g : Sums(w, T, g)
  BY FS_Subset
<1> DEFINE G(t) == CHOOSE g : Sums(w, t, g)
<1>3. \A t \in SUBSET T : t # T => Sums(w, t, G(t))
  BY <1>1, <1>2
<1> HIDE DEF B, G
<1> DEFINE h == [s \in SUBSET T |-> IF s = {} THEN 0 ELSE w[First(s)] + G(Rest(s))[Rest(s)]]
<1>4. ASSUME NEW u \in SUBSET T, u # T
      PROVE  h[u] = G(u)[u]
  <2>1. Sums(w, u, G(u))
    BY <1>3, <1>4
  <2>2. G(u)[u] = IF u = {} THEN 0 ELSE w[First(u)] + G(u)[Rest(u)]
    BY <2>1 DEF Sums
  <2>3. h[u] = IF u = {} THEN 0 ELSE w[First(u)] + G(Rest(u))[Rest(u)]
    OBVIOUS
  <2>4. ASSUME u # {} PROVE G(u)[Rest(u)] = G(Rest(u))[Rest(u)]
    <3>1. Rest(u) \in SUBSET u /\ Rest(u) # T
      BY <1>4, <2>4, FirstRest
    <3>2. Sums(w, Rest(u), G(Rest(u))) /\ IsFiniteSet(u)
      BY <1>2, <1>3, <3>1, FS_Subset
    <3> QED
      BY <2>1, <3>1, <3>2, SumsAgree
  <2> QED
    BY <2>2, <2>3, <2>4
<1>5. h = [s \in SUBSET T |-> IF s = {} THEN 0 ELSE w[First(s)] + h[Rest(s)]]
  <2>1. ASSUME NEW s \in SUBSET T, s # {}
        PROVE  G(Rest(s))[Rest(s)] = h[Rest(s)]
    <3>1. Rest(s) \in SUBSET T /\ Rest(s) # T
      BY <2>1, FirstRest
    <3> HIDE DEF h
    <3> QED
      BY <1>4, <3>1
  <2> QED
    BY <2>1
<1>6. Sums(w, T, h)
  BY <1>5 DEF Sums
<1> QED
  BY <1>2, <1>6

LEMMA SumsAreNat ==
    ASSUME NEW S, IsFiniteSet(S), NEW w \in [S -> Nat], NEW g, Sums(w, S, g)
    PROVE  \A s \in SUBSET S : g[s] \in Nat
<1> DEFINE B == {s \in SUBSET S : g[s] \notin Nat}
<1> SUFFICES ASSUME B # {} PROVE FALSE
  OBVIOUS
<1>1. PICK s \in B : \A t \in SUBSET s : t # s => t \notin B
  <2>1. B \subseteq SUBSET S
    OBVIOUS
  <2> HIDE DEF B
  <2> QED
    BY <2>1, LeastSubset
<1>2. g[s] = IF s = {} THEN 0 ELSE w[First(s)] + g[Rest(s)]
  BY DEF Sums
<1>3. CASE s = {}
  BY <1>2, <1>3
<1>4. CASE s # {}
  <2>1. g[Rest(s)] \in Nat /\ w[First(s)] \in Nat
    BY <1>1, <1>4, FirstRest
  <2> QED
    BY <1>2, <1>4, <2>1
<1> QED
  BY <1>3, <1>4

\* The sum of the weights w over S.
Total(w, S) == (CHOOSE g : Sums(w, S, g))[S]

LEMMA TotalSums ==
    ASSUME NEW w, NEW S, IsFiniteSet(S)
    PROVE  /\ Sums(w, S, CHOOSE g : Sums(w, S, g))
           /\ \A g : Sums(w, S, g) => Total(w, S) = g[S]
<1>1. Sums(w, S, CHOOSE g : Sums(w, S, g))
  BY SumsExist
<1>2. ASSUME NEW g, Sums(w, S, g) PROVE Total(w, S) = g[S]
  BY <1>1, <1>2, SumsAgree DEF Total
<1> QED
  BY <1>1, <1>2

\* The weights u are w, and one more for the members of A.
Grown(w, u, S, A) ==
    \A x \in S : w[x] \in Int /\ u[x] = w[x] + (IF x \in A THEN 1 ELSE 0)

LEMMA SumsGrow ==
    ASSUME NEW S, IsFiniteSet(S), NEW w, NEW u, NEW g, NEW h, Sums(w, S, g), Sums(u, S, h),
           NEW A, Grown(w, u, S, A)
    PROVE  \A s \in SUBSET S : g[s] \in Int /\ h[s] = g[s] + Cardinality(s \cap A)
<1> DEFINE Good(s) == g[s] \in Int /\ h[s] = g[s] + Cardinality(s \cap A)
           B == {s \in SUBSET S : ~Good(s)}
<1> SUFFICES ASSUME B # {} PROVE FALSE
  OBVIOUS
<1>1. PICK s \in B : \A t \in SUBSET s : t # s => t \notin B
  <2>1. B \subseteq SUBSET S
    OBVIOUS
  <2> HIDE DEF B
  <2> QED
    BY <2>1, LeastSubset
<1>2. s \in SUBSET S /\ ~Good(s)
  OBVIOUS
<1>3. /\ g[s] = IF s = {} THEN 0 ELSE w[First(s)] + g[Rest(s)]
      /\ h[s] = IF s = {} THEN 0 ELSE u[First(s)] + h[Rest(s)]
  BY <1>2 DEF Sums
<1>4. CASE s = {}
  BY <1>2, <1>3, <1>4, FS_EmptySet
<1>5. CASE s # {}
  <2>1. /\ First(s) \in S /\ First(s) \in s /\ First(s) \notin Rest(s)
        /\ Rest(s) \in SUBSET s /\ Rest(s) # s
        /\ s = Rest(s) \cup {First(s)}
    BY <1>2, <1>5, FirstRest
  <2>2. Good(Rest(s))
    BY <1>1, <1>2, <2>1
  <2>3. IsFiniteSet(Rest(s) \cap A)
    BY <1>2, <2>1, FS_Subset
  <2>4. Cardinality(Rest(s) \cap A) \in Nat
    BY <2>3, FS_CardinalityType
  <2>a. w[First(s)] \in Int /\ u[First(s)] = w[First(s)] + (IF First(s) \in A THEN 1 ELSE 0)
    BY <2>1 DEF Grown
  <2>5. CASE First(s) \in A
    <3>1. s \cap A = (Rest(s) \cap A) \cup {First(s)} /\ First(s) \notin Rest(s) \cap A
      BY <2>1, <2>5
    <3>2. Cardinality(s \cap A) = Cardinality(Rest(s) \cap A) + 1
      BY <2>3, <3>1, FS_AddElement
    <3> QED
      BY <1>2, <1>3, <1>5, <2>2, <2>4, <2>5, <2>a, <3>2
  <2>6. CASE First(s) \notin A
    <3>1. s \cap A = Rest(s) \cap A
      BY <2>1, <2>6
    <3> QED
      BY <1>2, <1>3, <1>5, <2>2, <2>4, <2>6, <2>a, <3>1
  <2> QED
    BY <2>5, <2>6
<1> QED
  BY <1>4, <1>5

\* Where the weights of A grow by one, the sum grows by as many as there are of them.
LEMMA TotalGrows ==
    ASSUME NEW S, IsFiniteSet(S), NEW w, NEW u, NEW A, Grown(w, u, S, A)
    PROVE  Total(w, S) \in Int /\ Total(u, S) = Total(w, S) + Cardinality(S \cap A)
<1> DEFINE g == CHOOSE g : Sums(w, S, g)
           h == CHOOSE h : Sums(u, S, h)
<1>1. Sums(w, S, g) /\ Sums(u, S, h)
  BY TotalSums
<1>2. Total(w, S) = g[S] /\ Total(u, S) = h[S]
  BY DEF Total
<1> HIDE DEF g, h
<1>3. \A s \in SUBSET S : g[s] \in Int /\ h[s] = g[s] + Cardinality(s \cap A)
  BY <1>1, SumsGrow
<1>4. S \in SUBSET S
  OBVIOUS
<1> QED
  BY <1>2, <1>3, <1>4

LEMMA TotalSame ==
    ASSUME NEW S, IsFiniteSet(S), NEW w, NEW u, \A x \in S : w[x] \in Int /\ u[x] = w[x]
    PROVE  Total(u, S) = Total(w, S) /\ Total(w, S) \in Int
<1>0. Grown(w, u, S, {})
  BY DEF Grown
<1>1. Total(w, S) \in Int /\ Total(u, S) = Total(w, S) + Cardinality(S \cap {})
  BY <1>0, TotalGrows
<1>2. S \cap {} = {}
  OBVIOUS
<1> QED
  BY <1>1, <1>2, FS_EmptySet

\* The weights w count the elements of the sets C, of which no two meet.
Together(C, S) == UNION {C[x] : x \in S}
Counted(w, C, S) ==
    /\ \A x \in S : IsFiniteSet(C[x]) /\ w[x] = Cardinality(C[x])
    /\ \A x, y \in S : x # y => C[x] \cap C[y] = {}

LEMMA TotalOfCounts ==
    ASSUME NEW S, IsFiniteSet(S), NEW w, NEW C, Counted(w, C, S)
    PROVE  /\ IsFiniteSet(Together(C, S))
           /\ Total(w, S) = Cardinality(Together(C, S))
<1> DEFINE g == CHOOSE g : Sums(w, S, g)
           Good(s) == IsFiniteSet(Together(C, s)) /\ g[s] = Cardinality(Together(C, s))
           B == {s \in SUBSET S : ~Good(s)}
<1>1. Sums(w, S, g) /\ Total(w, S) = g[S]
  BY TotalSums
<1> HIDE DEF g
<1> SUFFICES ASSUME B # {} PROVE FALSE
  <2>1. S \notin B => Good(S)
    OBVIOUS
  <2> QED
    BY <1>1, <2>1
<1>2. PICK s \in B : \A t \in SUBSET s : t # s => t \notin B
  <2>1. B \subseteq SUBSET S
    OBVIOUS
  <2> HIDE DEF B
  <2> QED
    BY <2>1, LeastSubset
<1>3. s \in SUBSET S /\ ~Good(s)
  OBVIOUS
<1>4. g[s] = IF s = {} THEN 0 ELSE w[First(s)] + g[Rest(s)]
  BY <1>1, <1>3 DEF Sums
<1>5. CASE s = {}
  <2>1. Together(C, s) = {}
    BY <1>5 DEF Together
  <2> QED
    BY <1>3, <1>4, <1>5, <2>1, FS_EmptySet
<1>6. CASE s # {}
  <2> DEFINE x == First(s)
             r == Rest(s)
  <2>1. /\ x \in S /\ x \notin r
        /\ r \in SUBSET s /\ r # s
        /\ s = r \cup {x}
    BY <1>3, <1>6, FirstRest
  <2> HIDE DEF x, r
  <2>2. Good(r)
    BY <1>2, <1>3, <2>1
  <2>3. Together(C, s) = Together(C, r) \cup C[x]
    BY <2>1 DEF Together
  <2>a. w[x] = Cardinality(C[x]) /\ IsFiniteSet(C[x])
    BY <2>1 DEF Counted
  <2>4. Together(C, r) \cap C[x] = {}
    <3>1. \A y \in r : C[y] \cap C[x] = {}
      BY <1>3, <2>1 DEF Counted
    <3> QED
      BY <3>1 DEF Together
  <2>5. /\ IsFiniteSet(Together(C, s))
        /\ Cardinality(Together(C, s)) = Cardinality(Together(C, r)) + Cardinality(C[x]) - Cardinality({})
    BY <2>2, <2>3, <2>4, <2>a, FS_Union
  <2>6. Cardinality(Together(C, r)) \in Nat /\ Cardinality(C[x]) \in Nat /\ Cardinality({}) = 0
    BY <2>2, <2>a, FS_CardinalityType, FS_EmptySet
  <2>7. g[s] = w[x] + g[r]
    BY <1>4, <1>6 DEF x, r
  <2> QED
    BY <1>3, <2>2, <2>5, <2>6, <2>7, <2>a
<1> QED
  BY <1>5, <1>6

-------------------------------------------------------------------------------
(* The account of ratings *)

TaskType == [step : {"idle", "complete", "rate", "averaged"},
             ride : Rides \cup {NoRide}, seen : [Rides -> Nat]]

RatingTypeOK ==
    /\ rated \in [Rides -> Nat]
    /\ averaged \in [Rides -> Nat]
    /\ task \in [Tasks -> TaskType]
    /\ own \in BOOLEAN
    /\ overlap \in BOOLEAN
    /\ \A t \in Tasks : task[t].step # "idle" => task[t].ride \in Rides

\* The requests that will still rate the ride.
RatingOf(r) == {t \in Tasks : task[t].step \in {"rate", "averaged"} /\ task[t].ride = r}

RatersBounded == \A r \in Rides : rated[r] + Cardinality(RatingOf(r)) <= Cardinality(Tasks)

\* Nobody has counted a row that is not there, but for his own.
SeenExist ==
    /\ \A r \in Rides : averaged[r] <= rated[r]
    /\ \A t \in Averaging : \A r \in Rides :
          task[t].seen[r] <= rated[r] + (IF r = task[t].ride THEN 1 ELSE 0)

\* One at a time, nobody has missed a row, whatever the driver writes of himself.
SeenAll ==
    ~overlap =>
        /\ averaged = rated
        /\ \A t, u \in Averaging : t = u
        /\ \A t \in Averaging : task[t].seen = [rated EXCEPT ![task[t].ride] = @ + 1]

RatingsInv == RatingTypeOK /\ RatersBounded /\ SeenExist /\ SeenAll

LEMMA NoTaskType == NoTask \in TaskType
BY DEF NoTask, TaskType, NoCount

\* What changes a ride and no request.
RideMovesAlone(r) ==
    \/ CreateRide(r) \/ ConvertedRide(r) \/ CancelRide(r)
    \/ PaymentSucceeds(r) \/ PaymentRefunded(r) \/ PaymentFails(r)

LEMMA AloneLeavesRatings ==
    ASSUME NEW r \in Rides, RideMovesAlone(r)
    PROVE  UNCHANGED <<ratingVars, task>>
BY DEF RideMovesAlone, CreateRide, ConvertedRide, NewRide, CancelRide, PaymentSucceeds,
       PaymentRefunded, PaymentFails, PaidIs

\* What a rating leaves when it commits.
LEMMA CommitWrites ==
    ASSUME NEW t \in Tasks, RateCommit(t)
    PROVE  /\ rated' = [rated EXCEPT ![task[t].ride] = @ + 1]
           /\ averaged' = task[t].seen
           /\ own' = FALSE /\ overlap' = overlap
           /\ task' = [task EXCEPT ![t] = NoTask]
BY Zenon DEF RateCommit, End

LEMMA TaskTypeStays ==
    ASSUME RatingTypeOK, EarningsNext
    PROVE  RatingTypeOK'
<1> USE DEF RatingTypeOK
<1> SUFFICES /\ rated' \in [Rides -> Nat]
             /\ averaged' \in [Rides -> Nat]
             /\ task' \in [Tasks -> TaskType]
             /\ own' \in BOOLEAN
             /\ overlap' \in BOOLEAN
             /\ \A t \in Tasks : task'[t].step # "idle" => task'[t].ride \in Rides
  OBVIOUS
<1> DEFINE Stays ==
        /\ rated' \in [Rides -> Nat]
        /\ averaged' \in [Rides -> Nat]
        /\ task' \in [Tasks -> TaskType]
        /\ own' \in BOOLEAN
        /\ overlap' \in BOOLEAN
        /\ \A t \in Tasks : task'[t].step # "idle" => task'[t].ride \in Rides
<1>0. Averaging \subseteq Tasks
  BY DEF Averaging
<1>1. ASSUME UNCHANGED <<ratingVars, task>>
      PROVE  Stays
  BY <1>1 DEF ratingVars
<1>2. ASSUME NEW t \in Tasks, NEW r \in Rides, NEW step \in {"complete", "rate"},
             Begin(t, step, r), UNCHANGED ratingVars
      PROVE  Stays
  <2>1. [NoTask EXCEPT !.step = step, !.ride = r] \in TaskType
    BY NoTaskType DEF TaskType
  <2>2. [NoTask EXCEPT !.step = step, !.ride = r].ride = r
    BY NoTaskType DEF TaskType
  <2> QED
    BY <1>2, <2>1, <2>2 DEF Begin, ratingVars
<1>3. ASSUME NEW t \in Tasks, End(t), UNCHANGED ratingVars
      PROVE  Stays
  BY <1>3, NoTaskType DEF End, ratingVars, NoTask
<1>4. ASSUME NEW t \in Tasks, RateAverage(t)
      PROVE  Stays
  <2>1. task[t].ride \in Rides
    BY <1>4 DEF RateAverage
  <2>2. [rated EXCEPT ![task[t].ride] = @ + 1] \in [Rides -> Nat]
    BY <2>1
  <2> QED
    BY ZenonT(60), <1>4, <2>1, <2>2 DEF RateAverage, TaskType
<1>5. ASSUME NEW t \in Tasks, RateCommit(t)
      PROVE  Stays
  <2>1. task[t].seen \in [Rides -> Nat]
    BY DEF TaskType
  <2>2. /\ rated' = [rated EXCEPT ![task[t].ride] = @ + 1]
        /\ averaged' = task[t].seen
        /\ own' = FALSE /\ overlap' = overlap
        /\ task' = [task EXCEPT ![t] = NoTask]
    BY <1>5, CommitWrites
  <2>3. rated' \in [Rides -> Nat]
    <3>1. task[t].ride \in Rides
      BY <1>5 DEF RateCommit
    <3>2. [rated EXCEPT ![task[t].ride] = @ + 1] \in [Rides -> Nat]
      BY <3>1
    <3> QED BY <2>2, <3>2
  <2>4. NoTask.step = "idle"
    BY DEF NoTask
  <2>5. task' \in [Tasks -> TaskType]
    BY <2>2, NoTaskType
  <2>6. \A u \in Tasks : task'[u].step # "idle" => task'[u].ride \in Rides
    BY <2>2, <2>4
  <2> QED
    BY <2>1, <2>2, <2>3, <2>5, <2>6
<1>6. CASE \E r \in Rides : RideMovesAlone(r)
  BY <1>1, <1>6, AloneLeavesRatings
<1>7. CASE \E t \in Tasks, r \in Rides : CompleteRead(t, r) \/ RateRead(t, r)
  BY <1>2, <1>7 DEF CompleteRead, RateRead
<1>8. CASE \E t \in Tasks : TaskStep(t)
  BY <1>3, <1>4, <1>5, <1>8 DEF TaskStep, CompleteCommit, Fail
<1>9. CASE NightlyRead \/ NightlyWrite \/ NightlyFail
  BY <1>1, <1>9 DEF NightlyRead, NightlyWrite, NightlyFail
<1>10. CASE UpdateDriverProfile
  BY <1>10 DEF UpdateDriverProfile
<1> QED
  BY <1>6, <1>7, <1>8, <1>9, <1>10 DEF EarningsNext, RideMovesAlone

\* A step after which the ride has the same rows and no further request will rate it.
LEMMA RatersFewer ==
    ASSUME RatingTypeOK, RatersBounded, NEW r \in Rides,
           rated'[r] = rated[r], RatingOf(r)' \subseteq RatingOf(r)
    PROVE  rated'[r] + Cardinality(RatingOf(r)') <= Cardinality(Tasks)
<1>1. RatingOf(r) \subseteq Tasks /\ IsFiniteSet(Tasks)
  BY EarningsAssumption DEF RatingOf
<1>2. IsFiniteSet(RatingOf(r)) /\ Cardinality(RatingOf(r)') <= Cardinality(RatingOf(r))
  BY <1>1, FS_Subset
<1>3. IsFiniteSet(RatingOf(r)')
  BY <1>2, FS_Subset
<1>4. /\ Cardinality(RatingOf(r)') \in Nat
      /\ Cardinality(RatingOf(r)) \in Nat
      /\ Cardinality(Tasks) \in Nat
  BY <1>1, <1>2, <1>3, FS_CardinalityType
<1>5. rated[r] \in Nat /\ rated[r] + Cardinality(RatingOf(r)) <= Cardinality(Tasks)
  BY DEF RatingTypeOK, RatersBounded
<1> HIDE DEF RatingOf
<1> QED
  BY <1>2, <1>4, <1>5

LEMMA RatersStay ==
    ASSUME RatingTypeOK, RatersBounded, EarningsNext
    PROVE  RatersBounded'
<1>0. /\ IsFiniteSet(Tasks)
      /\ Cardinality(Tasks) \in Nat
      /\ rated \in [Rides -> Nat]
      /\ task \in [Tasks -> TaskType]
  BY EarningsAssumption, FS_CardinalityType DEF RatingTypeOK
<1> SUFFICES ASSUME NEW r \in Rides
             PROVE  rated'[r] + Cardinality(RatingOf(r)') <= Cardinality(Tasks)
  BY DEF RatersBounded
<1> DEFINE Fewer == rated'[r] = rated[r] /\ RatingOf(r)' \subseteq RatingOf(r)
           Fits == rated'[r] + Cardinality(RatingOf(r)') <= Cardinality(Tasks)
<1>1. ASSUME Fewer PROVE Fits
  BY <1>1, RatersFewer
<1>2. CASE UNCHANGED <<rated, task>>
  <2>1. Fewer
    BY <1>2 DEF RatingOf
  <2> QED
    BY <1>1, <2>1
<1>3. CASE \E t \in Tasks : End(t) /\ UNCHANGED ratingVars
  <2>1. Fewer
    BY <1>0, <1>3 DEF End, NoTask, ratingVars, RatingOf
  <2> QED
    BY <1>1, <2>1
<1>4. CASE \E t \in Tasks, q \in Rides : CompleteRead(t, q)
  <2>1. Fewer
    BY <1>0, <1>4, NoTaskType DEF CompleteRead, Begin, TaskType, ratingVars, RatingOf
  <2> QED
    BY <1>1, <2>1
<1>5. ASSUME NEW t \in Tasks, NEW q \in Rides, RateRead(t, q)
      PROVE  Fits
  <2>1. CASE q = r
    <3>1. rated'[r] = 0
      BY <1>5, <2>1 DEF RateRead, ratingVars
    <3>2. RatingOf(r)' \subseteq Tasks
      BY DEF RatingOf
    <3>3. Cardinality(RatingOf(r)') <= Cardinality(Tasks) /\ IsFiniteSet(RatingOf(r)')
      BY <1>0, <3>2, FS_Subset
    <3>4. Cardinality(RatingOf(r)') \in Nat
      BY <3>3, FS_CardinalityType
    <3> HIDE DEF RatingOf
    <3> QED
      BY <1>0, <3>1, <3>3, <3>4
  <2>2. CASE q # r
    <3>1. Fewer
      BY <1>0, <1>5, <2>2, NoTaskType DEF RateRead, Begin, TaskType, ratingVars, RatingOf
    <3> QED
      BY <1>1, <3>1
  <2> QED
    BY <2>1, <2>2
<1>6. CASE \E t \in Tasks : RateAverage(t)
  <2>1. Fewer
    BY <1>0, <1>6 DEF RateAverage, TaskType, RatingOf
  <2> QED
    BY <1>1, <2>1
<1>7. ASSUME NEW t \in Tasks, RateCommit(t)
      PROVE  Fits
  <2>0. task[t].step = "averaged" /\ task'[t].step = "idle"
    BY <1>0, <1>7 DEF RateCommit, End, NoTask
  <2>1. CASE task[t].ride = r
    <3>1. t \in RatingOf(r) /\ RatingOf(r) \subseteq Tasks
      BY <2>0, <2>1 DEF RatingOf
    <3>2. RatingOf(r)' = RatingOf(r) \ {t}
      BY <1>0, <1>7, <2>0 DEF RateCommit, End, RatingOf
    <3>3. IsFiniteSet(RatingOf(r))
      BY <1>0, <3>1, FS_Subset
    <3>4. Cardinality(RatingOf(r) \ {t}) = Cardinality(RatingOf(r)) - 1
      BY <3>1, <3>3, FS_RemoveElement
    <3>5. Cardinality(RatingOf(r)) \in Nat
      BY <3>3, FS_CardinalityType
    <3>6. rated'[r] = rated[r] + 1
      BY <1>0, <1>7, <2>1 DEF RateCommit
    <3>7. rated[r] + Cardinality(RatingOf(r)) <= Cardinality(Tasks)
      BY DEF RatersBounded
    <3>8. Cardinality(RatingOf(r)') = Cardinality(RatingOf(r)) - 1
      BY <3>2, <3>4
    <3> HIDE DEF RatingOf
    <3> QED
      BY <1>0, <3>5, <3>6, <3>7, <3>8
  <2>2. CASE task[t].ride # r
    <3>1. Fewer
      BY <1>0, <1>7, <2>0, <2>2 DEF RateCommit, End, RatingOf
    <3> QED
      BY <1>1, <3>1
  <2> QED
    BY <2>1, <2>2
<1> HIDE DEF Fewer, Fits
<1>8. CASE \E q \in Rides : RideMovesAlone(q)
  BY <1>2, <1>8, AloneLeavesRatings DEF ratingVars, Fits
<1>9. CASE NightlyRead \/ NightlyWrite \/ NightlyFail \/ UpdateDriverProfile
  BY <1>2, <1>9 DEF NightlyRead, NightlyWrite, NightlyFail, UpdateDriverProfile, ratingVars
<1>10. CASE \E t \in Tasks : TaskStep(t)
  BY <1>3, <1>6, <1>7, <1>10 DEF TaskStep, CompleteCommit, Fail, Fits
<1>11. CASE \E t \in Tasks, q \in Rides : CompleteRead(t, q) \/ RateRead(t, q)
  BY <1>4, <1>5, <1>11 DEF Fits
<1> QED
  BY <1>8, <1>9, <1>10, <1>11 DEF EarningsNext, RideMovesAlone

\* A request that begins or ends takes no average.
LEMMA OthersAverage ==
    ASSUME RatingTypeOK, NEW t \in Tasks,
           End(t) \/ \E q \in Rides : Begin(t, "complete", q) \/ Begin(t, "rate", q)
    PROVE  \A u \in Averaging' : u \in Averaging /\ task'[u] = task[u]
<1>1. task \in [Tasks -> TaskType]
  BY DEF RatingTypeOK
<1>2. task'[t].step \in {"idle", "complete", "rate"}
  <2>1. CASE End(t)
    BY <1>1, <2>1 DEF End, NoTask
  <2>2. ASSUME NEW q \in Rides, NEW step \in {"complete", "rate"}, Begin(t, step, q)
        PROVE  task'[t].step = step
    <3>1. [NoTask EXCEPT !.step = step, !.ride = q].step = step
      BY DEF NoTask
    <3> QED
      BY <1>1, <2>2, <3>1 DEF Begin
  <2> QED
    BY <2>1, <2>2
<1>3. \A u \in Tasks \ {t} : task'[u] = task[u]
  BY <1>1 DEF Begin, End
<1> QED
  BY <1>2, <1>3 DEF Averaging

LEMMA SeenStay ==
    ASSUME RatingTypeOK, SeenExist, EarningsNext
    PROVE  SeenExist'
<1>0. /\ rated \in [Rides -> Nat]
      /\ averaged \in [Rides -> Nat]
      /\ task \in [Tasks -> TaskType]
      /\ Averaging \subseteq Tasks
      /\ \A t \in Averaging : task[t].seen \in [Rides -> Nat] /\ task[t].ride \in Rides
  BY DEF RatingTypeOK, TaskType, Averaging
<1> DEFINE Stays ==
        /\ \A r \in Rides : averaged'[r] <= rated'[r]
        /\ \A t \in Averaging' : \A r \in Rides :
              task'[t].seen[r] <= rated'[r] + (IF r = task'[t].ride THEN 1 ELSE 0)
<1>1. ASSUME UNCHANGED <<rated, averaged>>,
             \A t \in Averaging' : t \in Averaging /\ task'[t] = task[t]
      PROVE  Stays
  BY <1>1 DEF SeenExist
<1>2. CASE UNCHANGED <<rated, averaged, task>>
  <2>1. \A t \in Averaging' : t \in Averaging /\ task'[t] = task[t]
    BY <1>2 DEF Averaging
  <2>2. UNCHANGED <<rated, averaged>>
    BY <1>2
  <2> QED
    BY <1>1, <2>1, <2>2 DEF SeenExist
<1>3. CASE \E t \in Tasks : End(t) /\ UNCHANGED ratingVars
  <2>1. \A t \in Averaging' : t \in Averaging /\ task'[t] = task[t]
    BY <1>3, OthersAverage
  <2>2. UNCHANGED <<rated, averaged>>
    BY <1>3 DEF ratingVars
  <2> QED
    BY <1>1, <2>1, <2>2 DEF SeenExist
<1>4. CASE \E t \in Tasks, q \in Rides : CompleteRead(t, q) \/ RateRead(t, q)
  <2>1. \A t \in Averaging' : t \in Averaging /\ task'[t] = task[t]
    BY <1>4, OthersAverage DEF CompleteRead, RateRead
  <2>2. UNCHANGED <<rated, averaged>>
    BY <1>4 DEF CompleteRead, RateRead, ratingVars
  <2> QED
    BY <1>1, <2>1, <2>2 DEF SeenExist
<1>5. ASSUME NEW t \in Tasks, RateAverage(t)
      PROVE  Stays
  <2>1. task[t].ride \in Rides
    BY <1>5 DEF RateAverage, RatingTypeOK
  <2>2. /\ task'[t].seen = [rated EXCEPT ![task[t].ride] = @ + 1]
        /\ task'[t].ride = task[t].ride
        /\ \A u \in Tasks \ {t} : task'[u] = task[u]
        /\ rated' = rated /\ averaged' = averaged
    BY <1>0, <1>5 DEF RateAverage, TaskType
  <2>3. \A u \in Averaging' : u = t \/ u \in Averaging
    BY <2>2 DEF Averaging
  <2>4. \A r \in Rides : task'[t].seen[r] <= rated'[r] + (IF r = task'[t].ride THEN 1 ELSE 0)
    BY <1>0, <2>1, <2>2
  <2>5. \A u \in Averaging' : \A r \in Rides :
              task'[u].seen[r] <= rated'[r] + (IF r = task'[u].ride THEN 1 ELSE 0)
    <3> SUFFICES ASSUME NEW u \in Averaging', u # t
                 PROVE  \A r \in Rides :
                          task'[u].seen[r] <= rated'[r] + (IF r = task'[u].ride THEN 1 ELSE 0)
      BY <2>4
    <3>1. u \in Averaging
      BY <2>3
    <3>2. task'[u] = task[u]
      BY <1>0, <2>2, <3>1
    <3> QED
      BY <2>2, <3>1, <3>2 DEF SeenExist
  <2> QED
    BY <2>2, <2>5 DEF SeenExist
<1>6. ASSUME NEW t \in Tasks, RateCommit(t)
      PROVE  Stays
  <2>1. t \in Averaging
    BY <1>6 DEF RateCommit, Averaging
  <2>2. /\ rated' = [rated EXCEPT ![task[t].ride] = @ + 1]
        /\ averaged' = task[t].seen
        /\ \A u \in Tasks \ {t} : task'[u] = task[u]
        /\ task'[t].step = "idle"
    BY <1>0, <1>6 DEF RateCommit, End, NoTask
  <2>3. \A u \in Averaging' : u # t /\ u \in Averaging /\ task'[u] = task[u]
    BY <2>2 DEF Averaging
  <2>4. \A r \in Rides : rated'[r] = rated[r] + (IF r = task[t].ride THEN 1 ELSE 0)
    BY <1>0, <2>1, <2>2
  <2>5. \A r \in Rides : averaged'[r] <= rated'[r]
    BY <2>1, <2>2, <2>4 DEF SeenExist
  <2>6. \A r \in Rides : rated[r] <= rated'[r] /\ rated'[r] \in Nat
    BY <1>0, <2>4
  <2>7. ASSUME NEW u \in Averaging', NEW r \in Rides
        PROVE  task'[u].seen[r] <= rated'[r] + (IF r = task'[u].ride THEN 1 ELSE 0)
    <3>1. u \in Averaging /\ task'[u] = task[u]
      BY <2>3, <2>7
    <3>2. task[u].seen[r] \in Nat /\ rated[r] \in Nat
      BY <1>0, <3>1
    <3>3. task[u].seen[r] <= rated[r] + (IF r = task[u].ride THEN 1 ELSE 0)
      BY <3>1 DEF SeenExist
    <3>4. CASE r = task[u].ride
      BY <2>6, <3>1, <3>2, <3>3, <3>4
    <3>5. CASE r # task[u].ride
      BY <2>6, <3>1, <3>2, <3>3, <3>5
    <3> QED
      BY <3>4, <3>5
  <2> QED
    BY <2>5, <2>7
<1> HIDE DEF Stays
<1>7. CASE \E q \in Rides : RideMovesAlone(q)
  BY <1>2, <1>7, AloneLeavesRatings DEF ratingVars, Stays, SeenExist
<1>8. CASE NightlyRead \/ NightlyWrite \/ NightlyFail \/ UpdateDriverProfile
  BY <1>2, <1>8 DEF NightlyRead, NightlyWrite, NightlyFail, UpdateDriverProfile, ratingVars,
                    Stays, SeenExist
<1>9. CASE \E t \in Tasks : TaskStep(t)
  BY <1>3, <1>5, <1>6, <1>9 DEF TaskStep, CompleteCommit, Fail, Stays, SeenExist
<1> QED
  BY <1>4, <1>7, <1>8, <1>9 DEF EarningsNext, RideMovesAlone, Stays, SeenExist

LEMMA SeenAllStays ==
    ASSUME RatingTypeOK, SeenAll, EarningsNext
    PROVE  SeenAll'
<1>0. /\ rated \in [Rides -> Nat]
      /\ averaged \in [Rides -> Nat]
      /\ task \in [Tasks -> TaskType]
      /\ Averaging \subseteq Tasks
      /\ overlap \in BOOLEAN
  BY DEF RatingTypeOK, Averaging
<1> DEFINE One(t) == task[t].seen = [rated EXCEPT ![task[t].ride] = @ + 1]
           OneNext(t) == task'[t].seen = [rated' EXCEPT ![task'[t].ride] = @ + 1]
           Stays == ~overlap' =>
              /\ averaged' = rated'
              /\ \A t, u \in Averaging' : t = u
              /\ \A t \in Averaging' : OneNext(t)
<1>a. ~overlap => averaged = rated /\ (\A t, u \in Averaging : t = u) /\ \A t \in Averaging : One(t)
  BY DEF SeenAll
<1>1. ASSUME UNCHANGED <<rated, averaged, overlap>>,
             \A t \in Averaging' : t \in Averaging /\ task'[t] = task[t]
      PROVE  Stays
  BY <1>1, <1>a
<1>2. ASSUME UNCHANGED <<rated, averaged, overlap, task>>
      PROVE  Stays
  <2>1. \A t \in Averaging' : t \in Averaging /\ task'[t] = task[t]
    BY <1>2 DEF Averaging
  <2> QED
    BY <1>1, <1>2, <2>1
<1>3. ASSUME NEW t \in Tasks, End(t), UNCHANGED ratingVars
      PROVE  Stays
  <2>1. \A u \in Averaging' : u \in Averaging /\ task'[u] = task[u]
    BY <1>3, OthersAverage
  <2> QED
    BY <1>1, <1>3, <2>1 DEF ratingVars
<1>4. ASSUME NEW t \in Tasks, NEW q \in Rides, CompleteRead(t, q) \/ RateRead(t, q)
      PROVE  Stays
  <2>1. \A u \in Averaging' : u \in Averaging /\ task'[u] = task[u]
    BY <1>4, OthersAverage DEF CompleteRead, RateRead
  <2>2. UNCHANGED <<rated, averaged, overlap>>
    BY <1>4 DEF CompleteRead, RateRead, ratingVars
  <2> QED
    BY <1>1, <2>1, <2>2
<1>5. ASSUME NEW t \in Tasks, RateAverage(t)
      PROVE  Stays
  <2>1. /\ task'[t].seen = [rated EXCEPT ![task[t].ride] = @ + 1]
        /\ task'[t].ride = task[t].ride
        /\ \A u \in Tasks \ {t} : task'[u] = task[u]
        /\ rated' = rated /\ averaged' = averaged
        /\ overlap' = (overlap \/ Averaging # {})
    BY <1>0, <1>5 DEF RateAverage, TaskType
  <2>2. OneNext(t)
    BY <2>1
  <2>3. ~overlap' => ~overlap /\ Averaging = {}
    BY <1>0, <2>1
  <2>4. \A u \in Averaging' : u = t \/ u \in Averaging
    BY <2>1 DEF Averaging
  <2> HIDE DEF One, OneNext
  <2> QED
    BY <1>a, <2>1, <2>2, <2>3, <2>4
<1>6. ASSUME NEW t \in Tasks, RateCommit(t)
      PROVE  Stays
  <2>1. t \in Averaging
    BY <1>6 DEF RateCommit, Averaging
  <2>2. /\ rated' = [rated EXCEPT ![task[t].ride] = @ + 1]
        /\ averaged' = task[t].seen
        /\ \A u \in Tasks \ {t} : task'[u] = task[u]
        /\ task'[t].step = "idle"
        /\ overlap' = overlap
    BY <1>0, <1>6 DEF RateCommit, End, NoTask
  <2>3. \A u \in Averaging' : u # t /\ u \in Averaging
    BY <2>2 DEF Averaging
  <2>4. ~overlap => averaged' = rated'
    BY <1>a, <2>1, <2>2
  <2>5. ~overlap => Averaging' = {}
    BY <1>a, <2>1, <2>3
  <2> HIDE DEF OneNext
  <2> QED
    BY <2>2, <2>4, <2>5
<1> HIDE DEF Stays
<1>7. ASSUME NEW q \in Rides, RideMovesAlone(q)
      PROVE  Stays
  BY <1>2, <1>7, AloneLeavesRatings DEF ratingVars
<1>8. ASSUME NightlyRead \/ NightlyWrite \/ NightlyFail \/ UpdateDriverProfile
      PROVE  Stays
  BY <1>2, <1>8 DEF NightlyRead, NightlyWrite, NightlyFail, UpdateDriverProfile, ratingVars
<1>9. ASSUME NEW t \in Tasks, TaskStep(t)
      PROVE  Stays
  BY <1>3, <1>5, <1>6, <1>9 DEF TaskStep, CompleteCommit, Fail
<1>10. Stays
  BY <1>4, <1>7, <1>8, <1>9 DEF EarningsNext, RideMovesAlone
<1> QED
  BY <1>10 DEF Stays, SeenAll

LEMMA RatingsInvariant == EarningsSpec => []RatingsInv
<1>1. EarningsInit => RatingsInv
  <2> SUFFICES ASSUME EarningsInit PROVE RatingsInv
    OBVIOUS
  <2>1. RatingTypeOK
    BY NoTaskType DEF EarningsInit, RatingTypeOK, NoCount, NoTask
  <2>2. \A t \in Tasks : task[t].step = "idle"
    BY DEF EarningsInit, NoTask
  <2>3. \A r \in Rides : RatingOf(r) = {}
    BY <2>2 DEF RatingOf
  <2>4. \A r \in Rides : rated[r] = 0 /\ averaged[r] = 0
    BY DEF EarningsInit, NoCount
  <2>5. Cardinality(Tasks) \in Nat
    BY EarningsAssumption, FS_CardinalityType
  <2>6. RatersBounded
    BY <2>3, <2>4, <2>5, FS_EmptySet DEF RatersBounded
  <2>7. Averaging = {}
    BY <2>2 DEF Averaging
  <2>8. SeenExist /\ SeenAll
    BY <2>4, <2>7 DEF SeenExist, SeenAll, EarningsInit
  <2> QED
    BY <2>1, <2>6, <2>8 DEF RatingsInv
<1>2. RatingsInv /\ [EarningsNext]_earningsVars => RatingsInv'
  <2> SUFFICES ASSUME RatingsInv, [EarningsNext]_earningsVars PROVE RatingsInv'
    OBVIOUS
  <2>1. CASE EarningsNext
    BY <2>1, TaskTypeStays, RatersStay, SeenStay, SeenAllStays DEF RatingsInv
  <2>2. CASE UNCHANGED earningsVars
    <3>1. UNCHANGED <<rated, averaged, own, overlap, task>>
      BY <2>2 DEF earningsVars, ratingVars
    <3> QED
      BY <3>1 DEF RatingsInv, RatingTypeOK, RatersBounded, RatingOf, SeenExist, SeenAll, Averaging
  <2> QED
    BY <2>1, <2>2
<1> QED
  BY <1>1, <1>2, PTL DEF EarningsSpec

\* Of every number of requests: those that read a ride before its first rating all rate it
\* and no others, no row is counted that is not there, and while no two ratings were
\* between reading and writing together the driver's rating counts every row, or is what he
\* has written himself since the last of them.
THEOREM EarningsRatingsCounted == EarningsSpec => []RatingsCounted
<1>1. RatingsInv => RatingsCounted
  BY DEF RatingsInv, RatersBounded, RatingOf, SeenExist, SeenAll, RatingsCounted
<1> QED
  BY <1>1, RatingsInvariant, PTL

-------------------------------------------------------------------------------
(* The types of Earnings *)

LEMMA SumEarningsIsSum ==
    ASSUME NEW S, IsFiniteSet(S)
    PROVE \E g : /\ Sums([r \in S |-> DriverEarnings(fare[r])], S, g)
                 /\ SumEarnings(S) = g[S]
<1> DEFINE w == [r \in S |-> DriverEarnings(fare[r])]
           Iter == CHOOSE g : g = [s \in SUBSET S |-> 
              IF s = {} THEN 0 ELSE DriverEarnings(fare[CHOOSE x \in s : TRUE]) + g[s \ {CHOOSE x \in s : TRUE}]]
<1>1. SumEarnings(S) = Iter[S]
  BY DEF SumEarnings, MapThenSumSet, MapThenFoldSet
<1>2. PICK g : Sums(w, S, g)
  BY SumsExist
<1>3. \A s \in SUBSET S : s # {} => w[First(s)] = DriverEarnings(fare[First(s)])
  BY FirstRest
<1>4. g = [s \in SUBSET S |-> IF s = {} THEN 0 ELSE w[First(s)] + g[Rest(s)]]
  BY <1>2 DEF Sums
<1> HIDE DEF w
<1>5. g = [s \in SUBSET S |-> IF s = {} THEN 0 ELSE DriverEarnings(fare[First(s)]) + g[Rest(s)]]
  BY <1>3, <1>4
<1>6. Iter = [s \in SUBSET S |-> IF s = {} THEN 0 ELSE DriverEarnings(fare[First(s)]) + Iter[Rest(s)]]
  <2>1. \E f : f = [s \in SUBSET S |-> 
              IF s = {} THEN 0 ELSE DriverEarnings(fare[CHOOSE x \in s : TRUE]) + f[s \ {CHOOSE x \in s : TRUE}]]
    BY <1>5 DEF First, Rest
  <2> HIDE <1>5
  <2>2. Iter = [s \in SUBSET S |-> 
              IF s = {} THEN 0 ELSE DriverEarnings(fare[CHOOSE x \in s : TRUE]) + Iter[s \ {CHOOSE x \in s : TRUE}]]
    BY <2>1
  <2> HIDE DEF Iter
  <2> QED
    BY <2>2 DEF First, Rest
<1> HIDE DEF Iter
<1>7. Iter = [s \in SUBSET S |-> IF s = {} THEN 0 ELSE w[First(s)] + Iter[Rest(s)]]
  BY <1>3, <1>6
<1>8. Sums(w, S, Iter)
  BY <1>7 DEF Sums
<1> QED
  BY <1>1, <1>8 DEF w

LEMMA DriverEarningsIsNat == \A f \in Nat : DriverEarnings(f) \in Nat
BY DEF DriverEarnings, Percent, RoundDiv

LEMMA SumEarningsIsNat ==
    ASSUME NEW S \in SUBSET Rides, fare \in [Rides -> Nat]
    PROVE  SumEarnings(S) \in Nat
<1>1. IsFiniteSet(S)
  BY EarningsAssumption, FS_Subset
<1> DEFINE w == [r \in S |-> DriverEarnings(fare[r])]
<1>2. w \in [S -> Nat]
  BY DriverEarningsIsNat
<1>3. PICK g : Sums(w, S, g) /\ SumEarnings(S) = g[S]
  BY <1>1, SumEarningsIsSum
<1> HIDE DEF w
<1> QED
  BY <1>1, <1>2, <1>3, SumsAreNat

LEMMA OffersAreNat ==
    ASSUME NEW m \in Nat, NEW type \in RideTypes
    PROVE  Offers(m, type) \subseteq Nat
<1> DEFINE estimate == EstimateFare(m)[type]
<1>1. estimate \in Nat
  BY CalculateFareIsNat DEF EstimateFare
<1>2. Offers(m, type) = {estimate - (estimate \div 20), estimate + (estimate \div 20) + 1}
  BY DEF Offers
<1> HIDE DEF estimate
<1>3. estimate - (estimate \div 20) \in Nat /\ estimate + (estimate \div 20) + 1 \in Nat
  BY <1>1
<1> QED
  BY <1>2, <1>3

EarningsInv == EarningsTypeOK /\ RatingTypeOK

LEMMA NewRideType ==
    ASSUME EarningsInv, NEW r \in Rides, NEW m \in Nat, NEW type \in RideTypes, NEW f \in Nat,
           f # 0 => AcceptsFare(m, type, f),
           NewRide(r, m, type, f)
    PROVE  EarningsTypeOK'
<1>1. /\ ride \in [Rides -> {"NONE", "STARTED", "COMPLETED", "CANCELED"}]
      /\ trip \in [Rides -> [m : Nat, type : RideTypes]]
      /\ fare \in [Rides -> Nat]
      /\ task \in [Tasks -> TaskType]
      /\ \A q \in Rides : fare[q] # 0 => AcceptsFare(trip[q].m, trip[q].type, fare[q])
      /\ \A t \in Tasks : task[t].step # "idle" =>
            ride[task[t].ride] # "NONE" /\ task[t].ride \in Rides
  BY DEF EarningsInv, EarningsTypeOK, RatingTypeOK
<1>2. /\ ride' = [ride EXCEPT ![r] = "STARTED"]
      /\ trip' = [trip EXCEPT ![r] = [m |-> m, type |-> type]]
      /\ fare' = [fare EXCEPT ![r] = f]
      /\ task' = task
  BY DEF NewRide
<1>3. /\ ride' \in [Rides -> {"NONE", "STARTED", "COMPLETED", "CANCELED"}]
      /\ trip' \in [Rides -> [m : Nat, type : RideTypes]]
      /\ fare' \in [Rides -> Nat]
  BY <1>1, <1>2
<1>4. ASSUME NEW q \in Rides, fare'[q] # 0
      PROVE  AcceptsFare(trip'[q].m, trip'[q].type, fare'[q])
  <2>1. CASE q = r
    <3>1. trip'[q].m = m /\ trip'[q].type = type /\ fare'[q] = f
      BY <1>1, <1>2, <2>1
    <3> QED
      BY <1>4, <3>1
  <2>2. CASE q # r
    <3>1. trip'[q] = trip[q] /\ fare'[q] = fare[q]
      BY <1>1, <1>2, <2>2
    <3> QED
      BY <1>1, <1>4, <3>1
  <2> QED
    BY <2>1, <2>2
<1>5. \A t \in Tasks : task'[t].step # "idle" => ride'[task'[t].ride] # "NONE"
  BY <1>1, <1>2
<1>6. UNCHANGED <<paid, rated, averaged, own, overlap, totalRides, totalEarnings, night>>
  BY DEF NewRide, ratingVars
<1> QED
  BY <1>2, <1>3, <1>4, <1>5, <1>6 DEF EarningsInv, EarningsTypeOK

LEMMA EarningsTypeStays ==
    ASSUME EarningsInv, EarningsNext
    PROVE  EarningsTypeOK'
<1>0. /\ ride \in [Rides -> {"NONE", "STARTED", "COMPLETED", "CANCELED"}]
      /\ paid \in [Rides -> BOOLEAN]
      /\ fare \in [Rides -> Nat]
      /\ totalRides \in Nat
      /\ totalEarnings \in Nat
      /\ night \in [on : BOOLEAN, rides : SUBSET Rides]
      /\ task \in [Tasks -> TaskType]
      /\ \A t \in Tasks : task[t].step # "idle" =>
            ride[task[t].ride] # "NONE" /\ task[t].ride \in Rides
  BY DEF EarningsInv, EarningsTypeOK, RatingTypeOK
<1>a. RatingTypeOK'
  BY TaskTypeStays DEF EarningsInv
\* What the types of the ratings do not say.
<1> DEFINE Stays ==
        /\ ride' \in [Rides -> {"NONE", "STARTED", "COMPLETED", "CANCELED"}]
        /\ paid' \in [Rides -> BOOLEAN]
        /\ totalRides' \in Nat
        /\ totalEarnings' \in Nat
        /\ night' \in [on : BOOLEAN, rides : SUBSET Rides]
        /\ \A t \in Tasks : task'[t].step # "idle" => ride'[task'[t].ride] # "NONE"
<1>b. ASSUME Stays, UNCHANGED <<trip, fare>>
      PROVE  EarningsTypeOK'
  BY <1>a, <1>b DEF EarningsInv, EarningsTypeOK, RatingTypeOK, TaskType
<1>1. ASSUME NEW r \in Rides, CreateRide(r)
      PROVE  EarningsTypeOK'
  <2>1. PICK m \in Lengths, type \in Types : \E f \in Offers(m, type) :
            AcceptsFare(m, type, f) /\ NewRide(r, m, type, f)
    BY <1>1 DEF CreateRide
  <2>2. m \in Nat /\ type \in RideTypes
    BY EarningsAssumption
  <2> QED
    BY <2>1, <2>2, OffersAreNat, NewRideType
<1>2. ASSUME NEW r \in Rides, ConvertedRide(r)
      PROVE  EarningsTypeOK'
  <2>1. PICK m \in Lengths : NewRide(r, m, "STANDARD", 0)
    BY <1>2 DEF ConvertedRide
  <2>2. m \in Nat /\ "STANDARD" \in RideTypes
    BY EarningsAssumption DEF RideTypes
  <2> QED
    BY <2>1, <2>2, NewRideType
<1>3. ASSUME NEW r \in Rides,
             CancelRide(r) \/ PaymentSucceeds(r) \/ PaymentRefunded(r) \/ PaymentFails(r)
      PROVE  EarningsTypeOK'
  <2>1. /\ ride' = ride \/ ride' = [ride EXCEPT ![r] = "CANCELED"]
        /\ paid' \in [Rides -> BOOLEAN]
        /\ UNCHANGED <<trip, fare, totalRides, totalEarnings, task, night>>
    BY <1>0, <1>3 DEF CancelRide, PaymentSucceeds, PaymentRefunded, PaymentFails, PaidIs
  <2>2. ride' \in [Rides -> {"NONE", "STARTED", "COMPLETED", "CANCELED"}]
    BY <1>0, <2>1
  <2>3. \A t \in Tasks : task'[t].step # "idle" => ride'[task'[t].ride] # "NONE"
    BY <1>0, <2>1
  <2> QED
    BY <1>0, <1>b, <2>1, <2>2, <2>3
<1>4. ASSUME NEW t \in Tasks, NEW r \in Rides, NEW step \in {"complete", "rate"},
             Begin(t, step, r), ride[r] # "NONE",
             UNCHANGED <<rideVars, totalRides, totalEarnings, night>>
      PROVE  EarningsTypeOK'
  <2>1. [NoTask EXCEPT !.step = step, !.ride = r].ride = r
    BY DEF NoTask
  <2>2. \A u \in Tasks : task'[u].step # "idle" => ride'[task'[u].ride] # "NONE"
    BY <1>0, <1>4, <2>1 DEF Begin, rideVars
  <2> QED
    BY <1>0, <1>4, <1>b, <2>2 DEF rideVars
<1>5. ASSUME NEW t \in Tasks, End(t), UNCHANGED <<rideVars, totalRides, totalEarnings, night>>
      PROVE  EarningsTypeOK'
  <2>1. \A u \in Tasks : task'[u].step # "idle" => ride'[task'[u].ride] # "NONE"
    BY <1>0, <1>5 DEF End, NoTask, rideVars
  <2> QED
    BY <1>0, <1>5, <1>b, <2>1 DEF rideVars
<1>6. ASSUME NEW t \in Tasks, CompleteCommit(t)
      PROVE  EarningsTypeOK'
  <2>1. task[t].ride \in Rides
    BY <1>0, <1>6 DEF CompleteCommit
  <2>2. ride' = [ride EXCEPT ![task[t].ride] = "COMPLETED"]
    BY <1>6 DEF CompleteCommit
  <2>3. \A u \in Tasks : task'[u].step # "idle" => ride'[task'[u].ride] # "NONE"
    BY <1>0, <1>6, <2>1, <2>2 DEF CompleteCommit, End, NoTask
  <2>4. DriverEarnings(fare[task[t].ride]) \in Nat
    BY <1>0, <2>1, DriverEarningsIsNat
  <2>5. totalRides' \in Nat /\ totalEarnings' \in Nat
    BY <1>0, <1>6, <2>4 DEF CompleteCommit
  <2> QED
    BY <1>0, <1>6, <1>b, <2>2, <2>3, <2>5 DEF CompleteCommit
<1>7. ASSUME NEW t \in Tasks, RateAverage(t)
      PROVE  EarningsTypeOK'
  <2>1. \A u \in Tasks : task'[u].step # "idle" => ride'[task'[u].ride] # "NONE"
    BY <1>0, <1>7 DEF RateAverage, TaskType, rideVars
  <2> QED
    BY <1>0, <1>7, <1>b, <2>1 DEF RateAverage, rideVars
<1>8. CASE NightlyRead
  BY <1>0, <1>8, <1>b DEF NightlyRead, rideVars, PaidRides
<1>9. CASE NightlyWrite
  <2>1. IsFiniteSet(night.rides) /\ night.rides \in SUBSET Rides
    BY <1>0, EarningsAssumption, FS_Subset
  <2>2. totalRides' \in Nat /\ totalEarnings' \in Nat
    BY <1>0, <1>9, <2>1, SumEarningsIsNat, FS_CardinalityType DEF NightlyWrite
  <2> QED
    BY <1>0, <1>9, <1>b, <2>2 DEF NightlyWrite, rideVars, Resting
<1>10. CASE NightlyFail
  BY <1>0, <1>10, <1>b DEF NightlyFail, rideVars, Resting
<1> HIDE DEF Stays
<1>11. ASSUME NEW t \in Tasks, TaskStep(t)
       PROVE  EarningsTypeOK'
  <2>1. CASE RateCommit(t)
    BY <1>5, <2>1 DEF RateCommit
  <2>2. CASE Fail(t)
    BY <1>5, <2>2 DEF Fail
  <2> QED
    BY <1>6, <1>7, <1>11, <2>1, <2>2 DEF TaskStep
<1>12. ASSUME NEW t \in Tasks, NEW r \in Rides, CompleteRead(t, r) \/ RateRead(t, r)
       PROVE  EarningsTypeOK'
  BY <1>4, <1>12 DEF CompleteRead, RateRead
<1>13. CASE UpdateDriverProfile
  <2>1. totalRides' \in Nat
    BY <1>0, <1>13, EarningsAssumption DEF UpdateDriverProfile
  <2> QED
    BY <1>0, <1>13, <1>b, <2>1 DEF UpdateDriverProfile, rideVars, Stays
<1> QED
  BY <1>1, <1>2, <1>3, <1>8, <1>9, <1>10, <1>11, <1>12, <1>13 DEF EarningsNext

\* A driver's figures keep their types, the sum that the night stores among them, and every
\* fare stored is one that createRide accepts for the trip.
THEOREM EarningsTypeCorrect == EarningsSpec => []EarningsTypeOK
<1>1. EarningsInit => EarningsInv
  <2> SUFFICES ASSUME EarningsInit PROVE EarningsInv
    OBVIOUS
  <2>1. RatingTypeOK /\ \A t \in Tasks : task[t].step = "idle"
    BY NoTaskType DEF EarningsInit, RatingTypeOK, NoTask, NoCount
  <2>2. NoTrip \in [m : Nat, type : RideTypes]
    BY DEF NoTrip, RideTypes
  <2>3. \A r \in Rides : fare[r] = 0
    BY DEF EarningsInit
  <2>4. task \in [Tasks -> TaskType] /\ rated \in [Rides -> Nat] /\ averaged \in [Rides -> Nat]
    BY <2>1 DEF RatingTypeOK
  <2>5. /\ ride \in [Rides -> {"NONE", "STARTED", "COMPLETED", "CANCELED"}]
        /\ trip \in [Rides -> [m : Nat, type : RideTypes]]
        /\ fare \in [Rides -> Nat]
        /\ paid \in [Rides -> BOOLEAN]
        /\ totalRides \in Nat /\ totalEarnings \in Nat
        /\ night \in [on : BOOLEAN, rides : SUBSET Rides]
        /\ own \in BOOLEAN /\ overlap \in BOOLEAN
    BY <2>2 DEF EarningsInit, Resting
  <2>6. EarningsTypeOK
    BY <2>1, <2>3, <2>4, <2>5 DEF EarningsTypeOK, TaskType
  <2> QED
    BY <2>1, <2>6 DEF EarningsInv
<1>2. EarningsInv /\ [EarningsNext]_earningsVars => EarningsInv'
  <2> SUFFICES ASSUME EarningsInv, [EarningsNext]_earningsVars PROVE EarningsInv'
    OBVIOUS
  <2>1. CASE EarningsNext
    BY <2>1, EarningsTypeStays, TaskTypeStays DEF EarningsInv
  <2>2. CASE UNCHANGED earningsVars
    <3>1. UNCHANGED <<ride, trip, fare, paid, rated, averaged, own, overlap, totalRides,
                      totalEarnings, task, night>>
      BY <2>2 DEF earningsVars, rideVars, ratingVars
    <3> QED
      BY <3>1 DEF EarningsInv, EarningsTypeOK, RatingTypeOK
  <2> QED
    BY <2>1, <2>2
<1>3. EarningsInv => EarningsTypeOK
  BY DEF EarningsInv
<1> QED
  BY <1>1, <1>2, <1>3, PTL DEF EarningsSpec

-------------------------------------------------------------------------------
(* Listings: types *)

ListingsInv ==
    /\ ListingsTypeOK
    /\ left \in Nat /\ entered \in Nat /\ slipped \in Nat

LEMMA ListedBounded ==
    ASSUME ListingsTypeOK
    PROVE  /\ IsFiniteSet(Rows)
           /\ \A S \in SUBSET Rows : IsFiniteSet(S) /\ Cardinality(S) \in 0..Last
<1>1. IsFiniteSet(Rows) /\ Cardinality(Rows) = Last
  BY ListingsAssumption, FS_Interval DEF Rows
<1>2. ASSUME NEW S \in SUBSET Rows
      PROVE  IsFiniteSet(S) /\ Cardinality(S) \in 0..Last
  <2>1. IsFiniteSet(S) /\ Cardinality(S) <= Last
    BY <1>1, FS_Subset
  <2>2. Cardinality(S) \in Nat /\ Last \in Nat
    BY <2>1, FS_CardinalityType, ListingsAssumption
  <2> QED
    BY <2>1, <2>2
<1> QED
  BY <1>1, <1>2

\* What a change does to the list: a row enters it, leaves it, or neither.
LEMMA ChangeOfList ==
    ASSUME ListingsInv, NEW i \in Rows, NEW kind \in question.kinds, Change(i, kind)
    PROVE  /\ UNCHANGED <<question, page, rowsCame, total, seen, figure>>
           /\ table' = [table EXCEPT ![i] = kind]
           /\ changes' = changes + 1 /\ changes < MaxChanges
           /\ ~Answered
           /\ drift' = drift + (IF Some /\ ~All THEN 1 ELSE 0)
           /\ \/ /\ i \notin Listed /\ Listed' = Listed \cup {i}
                 /\ stayed' = stayed /\ left' = left /\ entered' = entered + 1
                 /\ slipped' = slipped + (IF total # -1 /\ ~rowsCame THEN 1 ELSE 0)
              \/ /\ i \in Listed /\ Listed' = Listed \ {i}
                 /\ stayed' = stayed \ {i} /\ left' = left + 1
                 /\ entered' = entered /\ slipped' = slipped
              \/ /\ Listed' = Listed
                 /\ stayed' \in {stayed, stayed \ {i}} /\ stayed' \subseteq Listed
                 /\ left' = left /\ entered' = entered /\ slipped' = slipped
<1>0. /\ table \in [Rows -> question.kinds] /\ stayed \subseteq Listed
      /\ left \in Nat /\ entered \in Nat /\ slipped \in Nat
  BY DEF ListingsInv, ListingsTypeOK
<1>1. /\ UNCHANGED <<question, page, rowsCame, total, seen, figure>>
      /\ table' = [table EXCEPT ![i] = kind]
      /\ changes' = changes + 1 /\ changes < MaxChanges
      /\ ~Answered
      /\ drift' = drift + (IF Some /\ ~All THEN 1 ELSE 0)
  BY DEF Change
<1> DEFINE was == "listed" \in table[i]
           is == "listed" \in kind
<1>2. /\ stayed' = IF is THEN stayed ELSE stayed \ {i}
      /\ left' = left + (IF was /\ ~is THEN 1 ELSE 0)
      /\ entered' = entered + (IF is /\ ~was THEN 1 ELSE 0)
      /\ slipped' = slipped + (IF is /\ ~was /\ total # -1 /\ ~rowsCame THEN 1 ELSE 0)
  BY DEF Change
<1>3. table'[i] = kind /\ \A j \in Rows \ {i} : table'[j] = table[j]
  BY <1>0, <1>1
<1>4. (i \in Listed <=> was) /\ (i \in Listed' <=> is)
      /\ \A j \in Rows \ {i} : j \in Listed <=> j \in Listed'
  BY <1>3 DEF Listed
<1>5. Listed \subseteq Rows /\ Listed' \subseteq Rows
  BY DEF Listed
<1> HIDE DEF was, is
<1>6. CASE is /\ ~was
  <2>1. Listed' = Listed \cup {i} /\ i \notin Listed
    BY <1>4, <1>5, <1>6
  <2> QED
    BY <1>0, <1>1, <1>2, <1>6, <2>1
<1>7. CASE was /\ ~is
  <2>1. Listed' = Listed \ {i} /\ i \in Listed
    BY <1>4, <1>5, <1>7
  <2> QED
    BY <1>0, <1>1, <1>2, <1>7, <2>1
<1>8. CASE was <=> is
  <2>1. Listed' = Listed
    BY <1>4, <1>5, <1>8
  <2> QED
    BY <1>0, <1>1, <1>2, <1>8, <2>1
<1> QED
  BY <1>6, <1>7, <1>8

LEMMA ListingsTypeStays ==
    ASSUME ListingsInv, ListingsNext
    PROVE  ListingsInv'
<1>0. /\ question \in Questions
      /\ table \in [Rows -> question.kinds]
      /\ changes \in 0..MaxChanges
      /\ page \in Nat
      /\ rowsCame \in BOOLEAN
      /\ total \in -1..Last
      /\ figure \in [FigureNames -> -1..Last]
      /\ seen \in [Rows -> Nat]
      /\ stayed \subseteq Listed
      /\ left + entered <= changes
      /\ slipped <= entered
      /\ drift \in 0..changes
      /\ left \in Nat /\ entered \in Nat /\ slipped \in Nat
      /\ Last \in Nat /\ Limit \in Nat \ {0} /\ MaxChanges \in Nat
  BY ListingsAssumption DEF ListingsInv, ListingsTypeOK
<1>a. \A S \in SUBSET Rows : Cardinality(S) \in -1..Last
  BY <1>0, ListedBounded DEF ListingsInv
<1>1. ASSUME NEW i \in Rows, NEW kind \in question.kinds, Change(i, kind)
      PROVE  ListingsInv'
  <2>1. /\ UNCHANGED <<question, page, rowsCame, total, seen, figure>>
        /\ table' = [table EXCEPT ![i] = kind]
        /\ changes' = changes + 1 /\ changes < MaxChanges
        /\ drift' = drift + (IF Some /\ ~All THEN 1 ELSE 0)
    BY <1>1, ChangeOfList
  <2>2. \/ /\ i \notin Listed /\ Listed' = Listed \cup {i}
           /\ stayed' = stayed /\ left' = left /\ entered' = entered + 1
           /\ slipped' = slipped + (IF total # -1 /\ ~rowsCame THEN 1 ELSE 0)
        \/ /\ i \in Listed /\ Listed' = Listed \ {i}
           /\ stayed' = stayed \ {i} /\ left' = left + 1
           /\ entered' = entered /\ slipped' = slipped
        \/ /\ Listed' = Listed
           /\ stayed' \in {stayed, stayed \ {i}} /\ stayed' \subseteq Listed
           /\ left' = left /\ entered' = entered /\ slipped' = slipped
    BY <1>1, ChangeOfList
  <2>3. /\ table' \in [Rows -> question'.kinds]
        /\ changes' \in 0..MaxChanges
        /\ drift' \in 0..changes'
        /\ figure' \in [FigureNames' -> -1..Last]
    BY <1>0, <2>1 DEF FigureNames
  <2>4. stayed' \subseteq Listed'
    BY <1>0, <2>2
  <2>5. /\ left' + entered' <= changes'
        /\ slipped' <= entered'
        /\ left' \in Nat /\ entered' \in Nat /\ slipped' \in Nat
    BY <1>0, <2>1, <2>2
  <2> QED
    BY <1>0, <2>1, <2>3, <2>4, <2>5 DEF ListingsInv, ListingsTypeOK
<1>2. CASE FindMany
  <2>1. seen' \in [Rows -> Nat]
    BY <1>0, <1>2 DEF FindMany
  <2>2. total' \in -1..Last
    BY <1>0, <1>2 DEF FindMany
  <2>3. UNCHANGED <<question, table, changes, page, stayed, left, entered, slipped, figure, drift>>
        /\ rowsCame' = TRUE
    BY <1>2 DEF FindMany, figureVars
  <2>4. Listed' = Listed /\ FigureNames' = FigureNames
    BY <2>3 DEF Listed, FigureNames
  <2> QED
    BY <1>0, <2>1, <2>2, <2>3, <2>4 DEF ListingsInv, ListingsTypeOK
<1>3. CASE Count
  <2>1. total' \in -1..Last /\ slipped' = 0
    BY <1>3, <1>a DEF Count, Listed
  <2>2. UNCHANGED <<question, table, changes, page, rowsCame, seen, stayed, left, entered,
                    figure, drift>>
    BY <1>3 DEF Count, figureVars
  <2>3. Listed' = Listed /\ FigureNames' = FigureNames
    BY <2>2 DEF Listed, FigureNames
  <2> QED
    BY <1>0, <2>1, <2>2, <2>3 DEF ListingsInv, ListingsTypeOK
<1>4. CASE NextPage
  <2>1. page' \in Nat /\ rowsCame' \in BOOLEAN /\ total' \in -1..Last
    <3>1. CASE page * Limit < total
      <4>1. page' = page + 1
        BY <1>4, <3>1 DEF NextPage
      <4>2. rowsCame' = FALSE
        BY <1>4, <3>1 DEF NextPage
      <4>3. total' = -1
        BY <1>4, <3>1 DEF NextPage
      <4>4. page + 1 \in Nat /\ -1 \in -1..Last
        BY <1>0
      <4> QED
        BY <4>1, <4>2, <4>3, <4>4
    <3>2. CASE ~(page * Limit < total)
      <4>1. page' = 0 /\ rowsCame' = rowsCame /\ total' = total
        BY <1>4, <3>2 DEF NextPage
      <4> QED
        BY <1>0, <4>1
    <3> QED
      BY <3>1, <3>2
  <2>2. UNCHANGED <<question, table, changes, seen, stayed, left, entered, slipped, figure, drift>>
    BY <1>4 DEF NextPage, figureVars
  <2>3. Listed' = Listed /\ FigureNames' = FigureNames
    BY <2>2 DEF Listed, FigureNames
  <2> QED
    BY <1>0, <2>1, <2>2, <2>3 DEF ListingsInv, ListingsTypeOK
<1>5. ASSUME NEW f \in FigureNames, CountFigure(f)
      PROVE  ListingsInv'
  <2>1. Cardinality(Counting(f)) \in -1..Last
    BY <1>a DEF Counting
  <2>2. figure' \in [FigureNames -> -1..Last]
    BY <1>0, <1>5, <2>1 DEF CountFigure
  <2>3. UNCHANGED <<question, table, changes, page, rowsCame, total, seen, stayed, left, entered,
                    slipped, drift>>
    BY <1>5 DEF CountFigure, walkVars
  <2>4. Listed' = Listed /\ FigureNames' = FigureNames
    BY <2>3 DEF Listed, FigureNames
  <2> QED
    BY <1>0, <2>2, <2>3, <2>4 DEF ListingsInv, ListingsTypeOK
<1> QED
  BY <1>1, <1>2, <1>3, <1>4, <1>5 DEF ListingsNext

-------------------------------------------------------------------------------
(* Listings: the account of figures *)

\* What a figure will be: what has been read, or what would be read now.
Val == [f \in FigureNames |-> IF Came(f) THEN figure[f] ELSE Cardinality(Counting(f))]

FiguresInv ==
    ~question.list =>
        \A f \in FigureNames, fs \in SUBSET FigureNames :
            Apart(fs) /\ Within(fs, f) =>
                /\ Total(Val, fs) <= Val[f] + drift
                /\ Cover(fs, f) => Val[f] <= Total(Val, fs) + drift

LEMMA AtMostOne ==
    ASSUME NEW T, IsFiniteSet(T), Cardinality(T) <= 1
    PROVE  /\ Cardinality(T) \in {0, 1}
           /\ Cardinality(T) = 1 => T # {}
           /\ \A x, y \in T : x = y
<1>1. Cardinality(T) \in Nat
  BY FS_CardinalityType
<1>2. Cardinality(T) \in {0, 1}
  BY <1>1
<1>3. Cardinality(T) = 0 => T = {}
  BY FS_EmptySet
<1>4. Cardinality(T) = 1 => \E x : T = {x}
  BY FS_Singleton
<1> QED
  BY <1>2, <1>3, <1>4

\* w counts the rows of each figure in the table.
CountsOf(w, tab, figures) ==
    \A g \in figures : w[g] = Cardinality({i \in Rows : g \in tab[i]})

\* Apart and Within, of the kinds of rows there may be.
PartsOf(fs, f, kinds) ==
    \A kind \in kinds : Cardinality(kind \cap fs) <= 1 /\ (kind \cap fs # {} => f \in kind)

LEMMA CountsAddUp ==
    ASSUME NEW kinds, NEW tab \in [Rows -> kinds], NEW f, NEW fs, IsFiniteSet(fs), NEW w,
           IsFiniteSet(Rows), CountsOf(w, tab, fs \cup {f}), PartsOf(fs, f, kinds)
    PROVE  /\ Total(w, fs) <= w[f]
           /\ (\A kind \in kinds : f \in kind => kind \cap fs # {}) => w[f] <= Total(w, fs)
           /\ w[f] \in Nat /\ Total(w, fs) \in Nat
<1> DEFINE Having(g) == {i \in Rows : g \in tab[i]}
           C == [g \in fs |-> Having(g)]
           Parts == Together(C, fs)
<1>1. \A g : IsFiniteSet(Having(g))
  <2>1. \A g : Having(g) \in SUBSET Rows
    OBVIOUS
  <2> QED
    BY <2>1, FS_Subset
<1>2. \A g \in fs : IsFiniteSet(C[g]) /\ w[g] = Cardinality(C[g])
  BY <1>1 DEF CountsOf
<1>3. \A g, h \in fs : g # h => C[g] \cap C[h] = {}
  <2> SUFFICES ASSUME NEW g \in fs, NEW h \in fs, g # h,
                      NEW i \in Rows, g \in tab[i], h \in tab[i]
               PROVE  FALSE
    OBVIOUS
  <2>1. IsFiniteSet(tab[i] \cap fs) /\ Cardinality(tab[i] \cap fs) <= 1
    BY FS_Subset DEF PartsOf
  <2> QED
    BY <2>1, AtMostOne
<1>4. Total(w, fs) = Cardinality(Parts)
  <2> HIDE DEF C
  <2>1. Counted(w, C, fs)
    BY <1>2, <1>3 DEF Counted
  <2> QED
    BY <2>1, TotalOfCounts
<1>5. Parts \subseteq Having(f)
  BY DEF PartsOf, Together
<1>6. IsFiniteSet(Parts) /\ Cardinality(Parts) <= Cardinality(Having(f))
  <2> HIDE DEF Parts, Having
  <2> QED
    BY <1>1, <1>5, FS_Subset
<1>7. ASSUME \A kind \in kinds : f \in kind => kind \cap fs # {}
      PROVE  Parts = Having(f)
  <2>1. Having(f) \subseteq Parts
    BY <1>7 DEF Together
  <2> QED
    BY <1>5, <2>1
<1>8. w[f] = Cardinality(Having(f))
  BY DEF CountsOf
<1> HIDE DEF Parts, Having
<1>9. Cardinality(Having(f)) \in Nat /\ Cardinality(Parts) \in Nat
  BY <1>1, <1>6, FS_CardinalityType
<1> QED
  BY <1>4, <1>6, <1>7, <1>8, <1>9

\* Before any figure has been read, whatever the tables are.
LEMMA FiguresOfNow ==
    ASSUME NEW kinds, NEW tab \in [Rows -> kinds], IsFiniteSet(Rows),
           NEW names, IsFiniteSet(names), NEW w, CountsOf(w, tab, names), NEW d \in Nat
    PROVE  \A f \in names, fs \in SUBSET names : PartsOf(fs, f, kinds) =>
              /\ Total(w, fs) <= w[f] + d
              /\ (\A kind \in kinds : f \in kind => kind \cap fs # {})
                    => w[f] <= Total(w, fs) + d
<1> SUFFICES ASSUME NEW f \in names, NEW fs \in SUBSET names, PartsOf(fs, f, kinds)
             PROVE  /\ Total(w, fs) <= w[f] + d
                    /\ (\A kind \in kinds : f \in kind => kind \cap fs # {})
                          => w[f] <= Total(w, fs) + d
  OBVIOUS
<1>1. IsFiniteSet(fs)
  BY FS_Subset
<1>2. CountsOf(w, tab, fs \cup {f})
  BY DEF CountsOf
<1>3. /\ Total(w, fs) <= w[f]
      /\ (\A kind \in kinds : f \in kind => kind \cap fs # {}) => w[f] <= Total(w, fs)
      /\ w[f] \in Nat /\ Total(w, fs) \in Nat
  BY <1>1, <1>2, CountsAddUp
<1> QED
  BY <1>3

LEMMA SumOfIsTotal ==
    ASSUME NEW S, IsFiniteSet(S)
    PROVE  SumOf(S) = Total(figure, S)
<1> DEFINE Iter == CHOOSE g : g = [s \in SUBSET S |->
              IF s = {} THEN 0
              ELSE figure[CHOOSE x \in s : TRUE] + g[s \ {CHOOSE x \in s : TRUE}]]
<1>1. SumOf(S) = Iter[S]
  BY DEF SumOf, MapThenSumSet, MapThenFoldSet
<1>2. Sums(figure, S, CHOOSE g : Sums(figure, S, g))
  BY TotalSums
<1>3. \E g : g = [s \in SUBSET S |->
              IF s = {} THEN 0
              ELSE figure[CHOOSE x \in s : TRUE] + g[s \ {CHOOSE x \in s : TRUE}]]
  BY <1>2 DEF Sums, First, Rest
<1>4. Iter = [s \in SUBSET S |->
              IF s = {} THEN 0
              ELSE figure[CHOOSE x \in s : TRUE] + Iter[s \ {CHOOSE x \in s : TRUE}]]
  BY <1>3
<1> HIDE DEF Iter
<1>5. Sums(figure, S, Iter)
  BY <1>4 DEF Sums, First, Rest
<1> QED
  BY <1>1, <1>5, TotalSums

\* One row has other figures: of those that have not been read, some count one row more and
\* some one less.
LEMMA FiguresMove ==
    ASSUME ListingsTypeOK, NEW i \in Rows, NEW kind \in question.kinds,
           table' = [table EXCEPT ![i] = kind], UNCHANGED <<question, figure>>
    PROVE  \A g \in FigureNames :
              /\ Val[g] \in Int /\ Val'[g] \in Int
              /\ Val[g] + (IF ~Came(g) /\ g \in kind \ table[i] THEN 1 ELSE 0)
                   = Val'[g] + (IF ~Came(g) /\ g \in table[i] \ kind THEN 1 ELSE 0)
<1>0. /\ table \in [Rows -> question.kinds]
      /\ figure \in [FigureNames -> -1..Last] /\ Last \in Nat
      /\ IsFiniteSet(Rows)
      /\ FigureNames' = FigureNames
      /\ \A g : Came(g)' = Came(g)
      /\ \A j \in Rows : table'[j] = IF j = i THEN kind ELSE table[j]
  BY ListedBounded, ListingsAssumption DEF ListingsTypeOK, FigureNames, Came
<1> SUFFICES ASSUME NEW g \in FigureNames
             PROVE  /\ Val[g] \in Int /\ Val'[g] \in Int
                    /\ Val[g] + (IF ~Came(g) /\ g \in kind \ table[i] THEN 1 ELSE 0)
                          = Val'[g] + (IF ~Came(g) /\ g \in table[i] \ kind THEN 1 ELSE 0)
  OBVIOUS
<1>1. CASE Came(g)
  <2>1. Val[g] = figure[g] /\ Val'[g] = figure[g] /\ figure[g] \in Int
    BY <1>0, <1>1 DEF Val
  <2> QED
    BY <1>1, <2>1
<1>2. CASE ~Came(g)
  <2> DEFINE before == Counting(g)
             after == Counting(g)'
  <2>1. Val[g] = Cardinality(before) /\ Val'[g] = Cardinality(after)
    BY <1>0, <1>2 DEF Val
  <2>2. IsFiniteSet(before) /\ IsFiniteSet(after)
    BY <1>0, FS_Subset DEF Counting
  <2>3. Cardinality(before) \in Nat /\ Cardinality(after) \in Nat
    BY <2>2, FS_CardinalityType
  <2>4. CASE g \in kind /\ g \notin table[i]
    <3>1. after = before \cup {i} /\ i \notin before
      BY <1>0, <2>4 DEF Counting
    <3>2. Cardinality(after) = Cardinality(before) + 1
      BY <2>2, <3>1, FS_AddElement
    <3> HIDE DEF before, after
    <3> QED
      BY <1>2, <2>1, <2>3, <2>4, <3>2
  <2>5. CASE g \notin kind /\ g \in table[i]
    <3>1. before = after \cup {i} /\ i \notin after
      BY <1>0, <2>5 DEF Counting
    <3>2. Cardinality(before) = Cardinality(after) + 1
      BY <2>2, <3>1, FS_AddElement
    <3> HIDE DEF before, after
    <3> QED
      BY <1>2, <2>1, <2>3, <2>5, <3>2
  <2>6. CASE g \in kind <=> g \in table[i]
    <3>1. before = after
      BY <1>0, <2>6 DEF Counting
    <3> HIDE DEF before, after
    <3> QED
      BY <1>2, <2>1, <2>3, <2>6, <3>1
  <2> QED
    BY <2>4, <2>5, <2>6
<1> QED
  BY <1>1, <1>2

LEMMA FiguresStay ==
    ASSUME ListingsInv, ListingsInv', FiguresInv, ListingsNext
    PROVE  FiguresInv'
<1>0. /\ question \in Questions
      /\ table \in [Rows -> question.kinds]
      /\ figure \in [FigureNames -> -1..Last]
      /\ drift \in Nat
      /\ IsFiniteSet(FigureNames)
      /\ question' = question
  <2>1. drift \in 0..changes /\ changes \in 0..MaxChanges /\ MaxChanges \in Nat
    BY ListingsAssumption DEF ListingsInv, ListingsTypeOK
  <2>2. question' = question
    BY DEF ListingsNext, Change, FindMany, Count, NextPage, CountFigure
  <2>3. question \in Questions
    BY DEF ListingsInv, ListingsTypeOK
  <2>4. IsFiniteSet(FigureNames)
    BY <2>3, ListingsAssumption DEF FigureNames
  <2> QED
    BY <2>1, <2>2, <2>3, <2>4 DEF ListingsInv, ListingsTypeOK
<1>a. /\ FigureNames' = FigureNames
      /\ \A fs, f : Apart(fs)' = Apart(fs) /\ Within(fs, f)' = Within(fs, f)
                    /\ Cover(fs, f)' = Cover(fs, f)
      /\ question'.list = question.list
  BY <1>0 DEF FigureNames, Apart, Within, Cover
<1>b. ASSUME Val' = Val, drift' = drift
      PROVE  FiguresInv'
  <2> HIDE DEF Val
  <2> QED
    BY <1>a, <1>b DEF FiguresInv
<1>1. ASSUME UNCHANGED <<table, figure, drift>>
      PROVE  FiguresInv'
  <2>1. Val' = Val
    BY <1>a, <1>1 DEF Val, Came, Counting
  <2> QED
    BY <1>1, <1>b, <2>1
<1>2. ASSUME NEW i \in Rows, NEW kind \in question.kinds, Change(i, kind)
      PROVE  FiguresInv'
  <2>0. /\ table' = [table EXCEPT ![i] = kind] /\ UNCHANGED <<question, figure>>
        /\ drift' = drift + (IF Some /\ ~All THEN 1 ELSE 0)
        /\ ~Answered
    BY <1>2, ChangeOfList
  <2>1. CASE question.list
    BY <1>0, <2>1 DEF FiguresInv
  <2>2. CASE ~Some
    <3>1. \A f \in FigureNames' : ~Came(f)'
      BY <2>0, <2>2 DEF Some, Came, FigureNames
    <3> DEFINE W == Val'
    <3>2. CountsOf(W, table', FigureNames')
      BY <3>1 DEF Val, Counting, CountsOf
    <3>3. table' \in [Rows -> question.kinds] /\ drift' \in Nat /\ IsFiniteSet(Rows)
      BY <1>0, <2>0, ListedBounded DEF ListingsInv
    <3>4. \A fs, f : Apart(fs)' /\ Within(fs, f)' => PartsOf(fs, f, question.kinds)
      BY <1>0 DEF Apart, Within, PartsOf
    <3>5. \A fs, f : Cover(fs, f)' <=> \A kd \in question.kinds : f \in kd => kd \cap fs # {}
      BY <1>0 DEF Cover
    <3> DEFINE N == FigureNames'
               T == table'
               D == drift'
    <3>a. IsFiniteSet(N)
      BY <1>0, <1>a
    <3> HIDE DEF W, N, T, D
    <3>6. \A f \in N, fs \in SUBSET N : PartsOf(fs, f, question.kinds) =>
              /\ Total(W, fs) <= W[f] + D
              /\ (\A kd \in question.kinds : f \in kd => kd \cap fs # {})
                    => W[f] <= Total(W, fs) + D
      <4>1. CountsOf(W, T, N) /\ T \in [Rows -> question.kinds] /\ D \in Nat
        BY <3>2, <3>3 DEF N, T, D
      <4> QED
        BY <3>3, <3>a, <4>1, FiguresOfNow
    <3>7. \A f \in FigureNames', fs \in SUBSET FigureNames' : Apart(fs)' /\ Within(fs, f)' =>
              /\ Total(W, fs) <= W[f] + drift'
              /\ Cover(fs, f)' => W[f] <= Total(W, fs) + drift'
      BY <3>4, <3>5, <3>6 DEF N, D
    <3> QED
      BY <3>7 DEF FiguresInv, W
  <2>3. CASE ~question.list /\ Some
    <3>1. drift' = drift + 1
      BY <2>0, <2>3 DEF Answered
    <3> DEFINE A == {g \in FigureNames : ~Came(g) /\ g \in kind \ table[i]}
               B == {g \in FigureNames : ~Came(g) /\ g \in table[i] \ kind}
               V == Val
               W == Val'
               U == [g \in FigureNames |-> V[g] + (IF g \in A THEN 1 ELSE 0)]
    <3>2. \A g \in FigureNames :
              /\ V[g] \in Int /\ W[g] \in Int
              /\ V[g] + (IF g \in A THEN 1 ELSE 0) = W[g] + (IF g \in B THEN 1 ELSE 0)
      BY <2>0, FiguresMove DEF ListingsInv
    <3>3. /\ \A kd \in question.kinds : \A fs, f : Apart(fs) => Cardinality(kd \cap fs) <= 1
          /\ \A kd \in question.kinds : \A fs, f :
                Within(fs, f) => (kd \cap fs # {} => f \in kd)
          /\ kind \in question.kinds /\ table[i] \in question.kinds
      BY <1>0 DEF Apart, Within
    <3>4. A \subseteq kind /\ B \subseteq table[i] /\ A \cap table[i] = {} /\ B \cap kind = {}
      OBVIOUS
    <3>5. \A f \in FigureNames, fs \in SUBSET FigureNames :
            Apart(fs) /\ Within(fs, f) =>
                /\ Total(V, fs) <= V[f] + drift
                /\ Cover(fs, f) => V[f] <= Total(V, fs) + drift
      BY <2>3 DEF FiguresInv
    <3>6. ASSUME NEW f \in FigureNames, NEW fs \in SUBSET FigureNames, Apart(fs), Within(fs, f)
          PROVE  /\ Total(W, fs) <= W[f] + (drift + 1)
                 /\ Cover(fs, f) => W[f] <= Total(W, fs) + (drift + 1)
      <4> DEFINE a == Cardinality(fs \cap A)
                 b == Cardinality(fs \cap B)
      <4>1. IsFiniteSet(fs)
        BY <1>0, FS_Subset
      <4>2. ASSUME NEW T, NEW kd \in question.kinds, T \subseteq kd
            PROVE  /\ Cardinality(fs \cap T) \in {0, 1}
                   /\ Cardinality(fs \cap T) = 1 => f \in kd
        <5>1. fs \cap T \subseteq kd \cap fs /\ IsFiniteSet(kd \cap fs)
          BY <4>1, <4>2, FS_Subset
        <5>2. /\ IsFiniteSet(fs \cap T)
              /\ Cardinality(fs \cap T) <= Cardinality(kd \cap fs)
          BY <5>1, FS_Subset
        <5>3. Cardinality(kd \cap fs) <= 1 /\ (kd \cap fs # {} => f \in kd)
          BY <3>3, <3>6
        <5>4. Cardinality(fs \cap T) \in Nat /\ Cardinality(kd \cap fs) \in Nat
          BY <5>1, <5>2, FS_CardinalityType
        <5>5. Cardinality(fs \cap T) <= 1
          BY <5>2, <5>3, <5>4
        <5>6. /\ Cardinality(fs \cap T) \in {0, 1}
              /\ Cardinality(fs \cap T) = 1 => fs \cap T # {}
          BY <5>2, <5>5, AtMostOne
        <5> QED
          BY <5>1, <5>3, <5>6
      <4> HIDE DEF A, B
      <4>3. a \in {0, 1} /\ (a = 1 => f \in kind)
        BY <3>3, <3>4, <4>2
      <4>4. b \in {0, 1} /\ (b = 1 => f \in table[i])
        BY <3>3, <3>4, <4>2
      <4>5. (f \in kind => f \notin B) /\ (f \in table[i] => f \notin A)
        BY <3>4
      <4> HIDE DEF V, W
      <4>6. Grown(V, U, fs, A) /\ Grown(W, U, fs, B)
        BY <3>2 DEF Grown
      <4> HIDE DEF U
      <4>7. /\ Total(V, fs) \in Int /\ Total(U, fs) = Total(V, fs) + a
            /\ Total(W, fs) \in Int /\ Total(U, fs) = Total(W, fs) + b
        BY <4>1, <4>6, TotalGrows
      <4>8. /\ V[f] \in Int /\ W[f] \in Int
            /\ V[f] + (IF f \in A THEN 1 ELSE 0) = W[f] + (IF f \in B THEN 1 ELSE 0)
        BY <3>2
      <4>9. /\ Total(V, fs) <= V[f] + drift
            /\ Cover(fs, f) => V[f] <= Total(V, fs) + drift
        BY <3>5, <3>6
      <4> HIDE DEF a, b
      <4>10. Total(W, fs) + b = Total(V, fs) + a
        BY <4>7
      <4>11. Total(W, fs) <= W[f] + (drift + 1)
        <5>1. CASE a = 1
          <6>1. f \notin B
            BY <4>3, <4>5, <5>1
          <6> QED
            BY <1>0, <4>4, <4>7, <4>8, <4>9, <4>10, <5>1, <6>1
        <5>2. CASE a = 0
          BY <1>0, <4>4, <4>7, <4>8, <4>9, <4>10, <5>2
        <5> QED
          BY <4>3, <5>1, <5>2
      <4>12. ASSUME Cover(fs, f)
             PROVE  W[f] <= Total(W, fs) + (drift + 1)
        <5>1. CASE b = 1
          <6>1. f \notin A
            BY <4>4, <4>5, <5>1
          <6> QED
            BY <1>0, <4>3, <4>7, <4>8, <4>9, <4>10, <4>12, <5>1, <6>1
        <5>2. CASE b = 0
          BY <1>0, <4>3, <4>7, <4>8, <4>9, <4>10, <4>12, <5>2
        <5> QED
          BY <4>4, <5>1, <5>2
      <4> QED
        BY <4>11, <4>12
    <3> HIDE DEF A, B, V, U
    <3> QED
      BY <1>a, <3>1, <3>6 DEF FiguresInv
  <2> QED
    BY <2>1, <2>2, <2>3, <1>0, ListingsAssumption
<1>3. ASSUME NEW f \in FigureNames, CountFigure(f)
      PROVE  FiguresInv'
  <2>1. /\ figure' = [figure EXCEPT ![f] = Cardinality(Counting(f))]
        /\ UNCHANGED <<table, drift>>
        /\ ~Came(f)
    BY <1>3 DEF CountFigure
  <2>2. FigureNames' = FigureNames /\ \A g : Counting(g)' = Counting(g)
    BY <1>0, <2>1 DEF FigureNames, Counting
  <2>3. Cardinality(Counting(f)) # -1
    <3>1. Counting(f) \in SUBSET Rows
      BY DEF Counting
    <3> QED
      BY <3>1, ListedBounded DEF ListingsInv
  <2>4. \A g \in FigureNames : Val'[g] = Val[g]
    <3> SUFFICES ASSUME NEW g \in FigureNames PROVE Val'[g] = Val[g]
      OBVIOUS
    <3>1. CASE g = f
      <4>1. Val[g] = Cardinality(Counting(f))
        BY <2>1, <3>1 DEF Val
      <4>2. figure'[g] = Cardinality(Counting(f))
        BY <1>0, <2>1, <3>1
      <4>3. Came(g)'
        BY <2>3, <4>2 DEF Came
      <4>4. Val'[g] = figure'[g]
        BY <2>2, <4>3 DEF Val
      <4> QED
        BY <4>1, <4>2, <4>4
    <3>2. CASE g # f
      <4>1. figure'[g] = figure[g]
        BY <1>0, <2>1, <3>2
      <4>2. Came(g)' = Came(g)
        BY <4>1 DEF Came
      <4> QED
        BY <2>2, <4>1, <4>2 DEF Val
    <3> QED
      BY <3>1, <3>2
  <2>5. Val' = Val
    BY <2>2, <2>4 DEF Val
  <2> QED
    BY <1>b, <2>1, <2>5
<1> HIDE DEF FiguresInv
<1>4. CASE FindMany \/ Count \/ NextPage
  BY <1>1, <1>4 DEF FindMany, Count, NextPage, figureVars
<1> QED
  BY <1>2, <1>3, <1>4 DEF ListingsNext

-------------------------------------------------------------------------------
(* Listings: ranks *)

\* How many of L come before i.
Lower(L, i) == {j \in L : j < i}
Rank(L, i) == Cardinality(Lower(L, i))
High(L, K) == {i \in L : Rank(L, i) >= K}

LEMMA RankOrdered ==
    ASSUME NEW L \in SUBSET Int, IsFiniteSet(L)
    PROVE  /\ \A i : Rank(L, i) \in Nat
           /\ \A i \in L : Rank(L, i) < Cardinality(L)
           /\ \A i \in Int, j \in L : j < i => Rank(L, j) < Rank(L, i)
           /\ \A i, j \in L : Rank(L, i) = Rank(L, j) => i = j
<1>1. \A i : IsFiniteSet(Lower(L, i)) /\ Lower(L, i) \subseteq L
  <2>1. \A i : Lower(L, i) \in SUBSET L
    BY DEF Lower
  <2> QED
    BY <2>1, FS_Subset
<1>a. /\ \A i : Cardinality(Lower(L, i)) \in Nat
      /\ Cardinality(L) \in Nat
  BY <1>1, FS_CardinalityType
<1>2. \A i : Rank(L, i) \in Nat
  BY <1>1, FS_CardinalityType DEF Rank
<1>3. ASSUME NEW i \in L
      PROVE  Rank(L, i) < Cardinality(L)
  <2>1. Lower(L, i) # L
    BY <1>3 DEF Lower
  <2>2. Cardinality(Lower(L, i)) < Cardinality(L)
    <3>1. /\ Cardinality(Lower(L, i)) <= Cardinality(L)
          /\ Cardinality(Lower(L, i)) # Cardinality(L)
      BY <1>1, <2>1, FS_Subset
    <3> QED
      BY <1>a, <3>1
  <2> QED
    BY <2>2 DEF Rank
<1>4. ASSUME NEW i \in Int, NEW j \in L, j < i
      PROVE  Rank(L, j) < Rank(L, i)
  <2>1. Lower(L, j) \subseteq Lower(L, i)
    <3>1. j \in Int /\ \A k \in L : k \in Int
      OBVIOUS
    <3>2. \A k \in L : k < j => k < i
      BY <1>4, <3>1
    <3> QED
      BY <3>2 DEF Lower
  <2>2. j \in Lower(L, i) /\ j \notin Lower(L, j)
    BY <1>4 DEF Lower
  <2>3. Cardinality(Lower(L, j)) < Cardinality(Lower(L, i))
    <3>1. /\ Cardinality(Lower(L, j)) <= Cardinality(Lower(L, i))
          /\ Cardinality(Lower(L, j)) # Cardinality(Lower(L, i))
      <4> DEFINE X == Lower(L, i)
                 Y == Lower(L, j)
      <4>1. IsFiniteSet(X) /\ Y \in SUBSET X /\ Y # X
        BY <1>1, <2>1, <2>2
      <4> HIDE DEF X, Y
      <4>2. Cardinality(Y) <= Cardinality(X) /\ Cardinality(Y) # Cardinality(X)
        BY <4>1, FS_Subset
      <4> QED
        BY <4>2 DEF X, Y
    <3> QED
      BY <1>a, <3>1
  <2> QED
    BY <2>3 DEF Rank
<1>5. ASSUME NEW i \in L, NEW j \in L, Rank(L, i) = Rank(L, j)
      PROVE  i = j
  <2>1. ~(i < j) /\ ~(j < i)
    BY <1>2, <1>4, <1>5
  <2> QED
    BY <2>1
<1> QED
  BY <1>2, <1>3, <1>4, <1>5

\* A set whose ranks are in an interval is no larger than the interval.
LEMMA RanksFit ==
    ASSUME NEW L \in SUBSET Int, IsFiniteSet(L), NEW a \in Int, NEW b \in Int,
           NEW S \in SUBSET L, \A i \in S : Rank(L, i) \in a..b
    PROVE  IsFiniteSet(S) /\ Cardinality(S) <= (IF a <= b THEN b - a + 1 ELSE 0)
<1> DEFINE f == [i \in S |-> Rank(L, i)]
<1>1. IsFiniteSet(S) /\ IsFiniteSet(a..b)
  BY FS_Subset, FS_Interval
<1>2. f \in [S -> a..b]
  OBVIOUS
<1>3. \A i, j \in S : f[i] = f[j] => i = j
  BY RankOrdered
<1>4. f \in Injection(S, a..b)
  BY <1>2, <1>3 DEF Injection, IsInjective
<1>5. Cardinality(S) <= Cardinality(a..b)
  <2> HIDE DEF f
  <2> QED
    BY <1>1, <1>4, FS_Injection
<1>6. Cardinality(a..b) = IF a <= b THEN b - a + 1 ELSE 0
  BY FS_Interval
<1> QED
  BY <1>1, <1>5, <1>6

\* What is behind the first K.
LEMMA HighBounded ==
    ASSUME NEW L \in SUBSET Int, IsFiniteSet(L), NEW K \in Nat
    PROVE  /\ IsFiniteSet(High(L, K)) /\ Cardinality(High(L, K)) \in Nat
           /\ Cardinality(L) <= K => High(L, K) = {}
           /\ Cardinality(L) >= K => Cardinality(High(L, K)) <= Cardinality(L) - K
<1>1. Cardinality(L) \in Nat
  BY FS_CardinalityType
<1>2. /\ High(L, K) \in SUBSET L
      /\ \A i \in High(L, K) : Rank(L, i) \in K..(Cardinality(L) - 1)
  BY <1>1, RankOrdered DEF High
<1>3. /\ IsFiniteSet(High(L, K))
      /\ Cardinality(High(L, K)) <=
            (IF K <= Cardinality(L) - 1 THEN Cardinality(L) - 1 - K + 1 ELSE 0)
  <2> DEFINE H == High(L, K)
             b == Cardinality(L) - 1
  <2>1. H \in SUBSET L /\ K \in Int /\ b \in Int /\ \A i \in H : Rank(L, i) \in K..b
    BY <1>1, <1>2
  <2> HIDE DEF H, b
  <2>2. IsFiniteSet(H) /\ Cardinality(H) <= (IF K <= b THEN b - K + 1 ELSE 0)
    BY <2>1, RanksFit
  <2> QED
    BY <2>2 DEF H, b
<1>4. Cardinality(High(L, K)) \in Nat
  BY <1>3, FS_CardinalityType
<1>5. ASSUME Cardinality(L) <= K PROVE High(L, K) = {}
  <2>1. K..(Cardinality(L) - 1) = {}
    BY <1>1, <1>5
  <2> QED
    BY <1>2, <2>1
<1> QED
  BY <1>1, <1>3, <1>4, <1>5

\* Where a page is not full there is nothing behind it.
LEMMA ShortPageIsLast ==
    ASSUME NEW L \in SUBSET Int, IsFiniteSet(L), NEW K \in Nat, NEW n \in Nat,
           NEW S, S = {i \in L : Rank(L, i) \in K..(K + n - 1)}, Cardinality(S) < n
    PROVE  High(L, K + n) = {}
<1> DEFINE A == {i \in L : Rank(L, i) \in 0..(K - 1)}
           H == High(L, K + n)
           c == Cardinality(L)
<1>1. c \in Nat /\ (c <= K + n => H = {})
  <2>1. K + n \in Nat
    OBVIOUS
  <2> QED
    BY <2>1, FS_CardinalityType, HighBounded
<1>2. IsFiniteSet(A) /\ Cardinality(A) <= K
  <2>1. A \in SUBSET L /\ \A i \in A : Rank(L, i) \in 0..(K - 1)
    OBVIOUS
  <2> HIDE DEF A
  <2> QED
    <3>1. /\ IsFiniteSet(A)
          /\ Cardinality(A) <= (IF 0 <= K - 1 THEN K - 1 - 0 + 1 ELSE 0)
      <4>1. 0 \in Int /\ K - 1 \in Int
        OBVIOUS
      <4> QED
        BY <2>1, <4>1, RanksFit
    <3> QED
      BY <3>1, FS_CardinalityType
<1>3. IsFiniteSet(S) /\ Cardinality(S) \in Nat
  <2>1. S \in SUBSET L
    OBVIOUS
  <2> QED
    BY <2>1, FS_Subset, FS_CardinalityType
<1>4. L = (A \cup S) \cup H
  <2>1. \A i \in L : Rank(L, i) \in Nat
    BY RankOrdered
  <2>2. \A i \in L : \/ Rank(L, i) \in 0..(K - 1)
                      \/ Rank(L, i) \in K..(K + n - 1)
                      \/ Rank(L, i) >= K + n
    BY <2>1
  <2> QED
    BY <2>2 DEF High
<1>5. ASSUME c > K + n PROVE FALSE
  <2>1. IsFiniteSet(H) /\ Cardinality(H) <= c - (K + n)
    <3>1. K + n \in Nat /\ c >= K + n
      BY <1>1, <1>5
    <3> QED
      BY <3>1, HighBounded
  <2> HIDE DEF A, H
  <2>2. /\ IsFiniteSet(A \cup S)
        /\ Cardinality(A \cup S) = Cardinality(A) + Cardinality(S) - Cardinality(A \cap S)
    BY <1>2, <1>3, FS_Union
  <2>3. Cardinality((A \cup S) \cup H)
            = Cardinality(A \cup S) + Cardinality(H) - Cardinality((A \cup S) \cap H)
    BY <2>1, <2>2, FS_Union
  <2>4. IsFiniteSet(A \cap S) /\ IsFiniteSet((A \cup S) \cap H)
    BY <1>2, <2>1, FS_Subset
  <2>5. /\ Cardinality(A) \in Nat /\ Cardinality(H) \in Nat
        /\ Cardinality(A \cap S) \in Nat /\ Cardinality((A \cup S) \cap H) \in Nat
        /\ Cardinality(A \cup S) \in Nat
    BY <1>2, <2>1, <2>2, <2>4, FS_CardinalityType
  <2>6. c = Cardinality((A \cup S) \cup H)
    BY <1>4
  <2> HIDE DEF c
  <2> QED
    BY <1>1, <1>2, <1>3, <1>5, <2>1, <2>2, <2>3, <2>5, <2>6
<1> HIDE DEF H, c
<1> QED
  BY <1>1, <1>5 DEF H

\* One more in the list: those behind it move back by one.
LEMMA RankAfterEntry ==
    ASSUME NEW L \in SUBSET Int, IsFiniteSet(L), NEW i \in Int, i \notin L
    PROVE  \A j \in Int : Rank(L \cup {i}, j) = Rank(L, j) + (IF i < j THEN 1 ELSE 0)
<1> SUFFICES ASSUME NEW j \in Int
             PROVE  Rank(L \cup {i}, j) = Rank(L, j) + (IF i < j THEN 1 ELSE 0)
  OBVIOUS
<1>0. IsFiniteSet(Lower(L, j)) /\ i \notin Lower(L, j)
  BY FS_Subset DEF Lower
<1>a. Rank(L, j) \in Nat
  BY RankOrdered
<1>1. CASE i < j
  <2>1. Lower(L \cup {i}, j) = Lower(L, j) \cup {i}
    BY <1>1 DEF Lower
  <2>2. Cardinality(Lower(L \cup {i}, j)) = Cardinality(Lower(L, j)) + 1
    BY <1>0, <2>1, FS_AddElement
  <2> QED
    BY <1>1, <2>2 DEF Rank
<1>2. CASE ~(i < j)
  <2>1. Lower(L \cup {i}, j) = Lower(L, j)
    BY <1>2 DEF Lower
  <2> QED
    BY <1>2, <1>a, <2>1 DEF Rank
<1> QED
  BY <1>1, <1>2

LEMMA AtMostOneMore ==
    ASSUME NEW X, IsFiniteSet(X), NEW Y, \A x, y \in Y \ X : x = y
    PROVE  /\ IsFiniteSet(Y) /\ Cardinality(Y) \in Nat /\ Cardinality(X) \in Nat
           /\ Cardinality(Y) <= Cardinality(X) + 1
<1>1. PICK z : Y \subseteq X \cup {z}
  OBVIOUS
<1>2. /\ IsFiniteSet(X \cup {z}) /\ Cardinality(X) \in Nat
      /\ Cardinality(X \cup {z}) \in {Cardinality(X), Cardinality(X) + 1}
  BY FS_AddElement, FS_CardinalityType
<1>3. IsFiniteSet(Y) /\ Cardinality(Y) <= Cardinality(X \cup {z})
  BY <1>1, <1>2, FS_Subset
<1>4. Cardinality(Y) \in Nat
  BY <1>3, FS_CardinalityType
<1> QED
  BY <1>2, <1>3, <1>4

LEMMA FewerOf ==
    ASSUME NEW X, IsFiniteSet(X), NEW Y \in SUBSET X
    PROVE  /\ IsFiniteSet(Y) /\ Cardinality(Y) \in Nat /\ Cardinality(X) \in Nat
           /\ Cardinality(Y) <= Cardinality(X)
BY FS_Subset, FS_CardinalityType

\* No row that is behind the K-th place of L is before that of M, and at most one comes from
\* before it, or from nowhere, to behind it.
MovesOne(L, M, K) ==
    /\ \A j \in Int : Rank(M, j) < K => Rank(L, j) < K
    /\ \A x, y \in M :
           /\ x \in L => Rank(L, x) < K
           /\ y \in L => Rank(L, y) < K
           /\ Rank(M, x) >= K
           /\ Rank(M, y) >= K
           => x = y

\* So it is with one row more in the list.
LEMMA EntryMovesOne ==
    ASSUME NEW L \in SUBSET Int, IsFiniteSet(L), NEW i \in Int, i \notin L, NEW K \in Nat,
           NEW M, M = L \cup {i}
    PROVE  MovesOne(L, M, K)
<1>0. M \in SUBSET Int /\ IsFiniteSet(M)
  BY FS_AddElement
<1>1. /\ \A j \in Int : Rank(M, j) = Rank(L, j) + (IF i < j THEN 1 ELSE 0)
      /\ \A j : Rank(L, j) \in Nat /\ Rank(M, j) \in Nat
  <2>1. \A j \in Int : Rank(L \cup {i}, j) = Rank(L, j) + (IF i < j THEN 1 ELSE 0)
    BY RankAfterEntry
  <2>2. (\A j : Rank(L, j) \in Nat) /\ (\A j : Rank(M, j) \in Nat)
    BY <1>0, RankOrdered
  <2> QED
    BY <2>1, <2>2
<1>2. \A j \in Int : Rank(M, j) < K => Rank(L, j) < K
  BY <1>1
<1>3. ASSUME NEW x \in L, Rank(L, x) < K, Rank(M, x) >= K
      PROVE  Rank(L, x) = K - 1 /\ i < x /\ Rank(M, i) < K
  <2>0. x \in Int
    OBVIOUS
  <2>1. i < x /\ Rank(L, x) = K - 1 /\ Rank(M, x) = K
    <3>1. Rank(M, x) = Rank(L, x) + (IF i < x THEN 1 ELSE 0)
      BY <1>1, <2>0
    <3>2. Rank(L, x) \in Nat
      BY <1>1
    <3> QED
      BY <1>3, <3>1, <3>2
  <2>2. Rank(M, i) < Rank(M, x)
    BY <1>0, <2>0, <2>1, RankOrdered
  <2> QED
    BY <1>1, <2>1, <2>2
<1>4. \A x, y \in L : Rank(L, x) = Rank(L, y) => x = y
  BY RankOrdered
<1>5. ASSUME NEW x \in M, NEW y \in M,
             x \in L => Rank(L, x) < K, y \in L => Rank(L, y) < K,
             Rank(M, x) >= K, Rank(M, y) >= K
      PROVE  x = y
  <2>1. CASE x \in L /\ y \in L
    <3>1. Rank(L, x) = K - 1 /\ Rank(L, y) = K - 1
      BY <1>3, <1>5, <2>1
    <3> QED
      BY <1>4, <2>1, <3>1
  <2>2. CASE x = i /\ y = i
    BY <2>2
  <2>3. CASE x = i /\ y \in L
    <3>1. Rank(M, i) < K /\ Rank(M, i) \in Nat
      BY <1>1, <1>3, <1>5, <2>3
    <3> QED
      BY <1>5, <2>3, <3>1
  <2>4. CASE x \in L /\ y = i
    <3>1. Rank(M, i) < K /\ Rank(M, i) \in Nat
      BY <1>1, <1>3, <1>5, <2>4
    <3> QED
      BY <1>5, <2>4, <3>1
  <2> QED
    BY <2>1, <2>2, <2>3, <2>4
<1> QED
  BY <1>2, <1>5 DEF MovesOne

-------------------------------------------------------------------------------
(* Listings: the account of pages *)

\* The places of the pages that have been read.
Passed == IF rowsCame THEN page * Limit ELSE Skip(page)
Unseen == {i \in stayed : seen[i] = 0}
Missed == {i \in Unseen : Rank(Listed, i) < Passed}
\* Rows that are known and still to come.
Again == {i \in Listed : seen[i] > 0 /\ Rank(Listed, i) >= Passed}
\* On how many pages too many a row was.
Twice == [i \in Rows |-> IF seen[i] > 1 THEN seen[i] - 1 ELSE 0]
Hidden == IF question.total = "beside" THEN slipped ELSE 0
Done == page = 0 \/ (rowsCame /\ total # -1 /\ page * Limit >= total)

MissedBound == page > 0 => Cardinality(Missed) <= left
TotalBound ==
    page > 0 /\ total # -1 /\ ~rowsCame =>
        question.total = "beside" /\ Cardinality(Listed) <= total + slipped
UnseenBound == Done => Cardinality(Unseen) <= left + Hidden
AgainBound ==
    /\ page > 0 => Total(Twice, Rows) + Cardinality(Again) <= entered
    /\ Total(Twice, Rows) <= entered

WalkInv == question.list => MissedBound /\ TotalBound /\ UnseenBound /\ AgainBound

LEMMA WalkFacts ==
    ASSUME ListingsInv
    PROVE  /\ IsFiniteSet(Rows) /\ Rows \subseteq Int
           /\ Listed \in SUBSET Rows /\ stayed \in SUBSET Listed
           /\ Listed \in SUBSET Int /\ IsFiniteSet(Listed) /\ Cardinality(Listed) \in 0..Last
           /\ IsFiniteSet(Unseen) /\ Cardinality(Unseen) \in Nat
           /\ IsFiniteSet(Missed) /\ Cardinality(Missed) \in Nat
           /\ IsFiniteSet(Again) /\ Cardinality(Again) \in Nat
           /\ seen \in [Rows -> Nat]
           /\ left \in Nat /\ entered \in Nat /\ slipped \in Nat /\ Hidden \in Nat
           /\ page \in Nat /\ total \in Int /\ rowsCame \in BOOLEAN
           /\ Limit \in Nat \ {0} /\ Last \in Nat
           /\ page * Limit \in Nat
           /\ page > 0 => Skip(page) \in Nat /\ page * Limit = Skip(page) + Limit
<1>1. /\ IsFiniteSet(Rows) /\ Listed \in SUBSET Rows /\ Rows \subseteq Int
      /\ \A S \in SUBSET Rows : IsFiniteSet(S) /\ Cardinality(S) \in 0..Last
  BY ListedBounded DEF ListingsInv, Listed, Rows
<1>2. stayed \in SUBSET Listed
  BY DEF ListingsInv, ListingsTypeOK
<1>3. Unseen \in SUBSET Rows /\ Missed \in SUBSET Rows /\ Again \in SUBSET Rows
  BY <1>1, <1>2 DEF Unseen, Missed, Again
<1>4. \A S \in SUBSET Rows : IsFiniteSet(S) /\ Cardinality(S) \in Nat
  BY <1>1
<1>5. /\ seen \in [Rows -> Nat]
      /\ left \in Nat /\ entered \in Nat /\ slipped \in Nat /\ Hidden \in Nat
      /\ page \in Nat /\ total \in Int /\ rowsCame \in BOOLEAN
      /\ Limit \in Nat \ {0} /\ Last \in Nat
  BY ListingsAssumption DEF ListingsInv, ListingsTypeOK, Hidden
<1>6. page * Limit \in Nat
  BY <1>5
<1>7. page > 0 => Skip(page) \in Nat /\ page * Limit = Skip(page) + Limit
  <2> SUFFICES ASSUME page > 0
               PROVE  Skip(page) \in Nat /\ page * Limit = Skip(page) + Limit
    OBVIOUS
  <2>1. page - 1 \in Nat
    BY <1>5
  <2>2. (page - 1) * Limit \in Nat
    BY <1>5, <2>1
  <2>3. page * Limit = (page - 1) * Limit + Limit
    BY <1>5
  <2> QED
    BY <2>2, <2>3 DEF Skip
<1>8. Listed \in SUBSET Int /\ IsFiniteSet(Listed) /\ Cardinality(Listed) \in 0..Last
  BY <1>1
<1>9. /\ IsFiniteSet(Unseen) /\ Cardinality(Unseen) \in Nat
      /\ IsFiniteSet(Missed) /\ Cardinality(Missed) \in Nat
      /\ IsFiniteSet(Again) /\ Cardinality(Again) \in Nat
  BY <1>3, <1>4
<1> QED
  BY <1>1, <1>2, <1>5, <1>6, <1>7, <1>8, <1>9

\* A change of a row: the reader misses one more for a row that leaves, and meets one again
\* for a row that enters.
LEMMA WalkOfChange ==
    ASSUME ListingsInv, WalkInv, question.list,
           NEW i \in Rows, NEW kind \in question.kinds, Change(i, kind)
    PROVE  MissedBound' /\ TotalBound' /\ UnseenBound' /\ AgainBound'
<1>0. /\ UNCHANGED <<question, page, rowsCame, total, seen>>
      /\ ~Answered
      /\ \/ /\ i \notin Listed /\ Listed' = Listed \cup {i}
            /\ stayed' = stayed /\ left' = left /\ entered' = entered + 1
            /\ slipped' = slipped + (IF total # -1 /\ ~rowsCame THEN 1 ELSE 0)
         \/ /\ i \in Listed /\ Listed' = Listed \ {i}
            /\ stayed' = stayed \ {i} /\ left' = left + 1
            /\ entered' = entered /\ slipped' = slipped
         \/ /\ Listed' = Listed
            /\ stayed' \in {stayed, stayed \ {i}} /\ stayed' \subseteq Listed
            /\ left' = left /\ entered' = entered /\ slipped' = slipped
  BY ChangeOfList
<1>1. /\ page > 0 /\ page' = page
      /\ Passed' = Passed /\ Twice' = Twice
      /\ Unseen' = {j \in stayed' : seen[j] = 0}
      /\ Missed' = {j \in Unseen' : Rank(Listed', j) < Passed}
      /\ Again' = {j \in Listed' : seen[j] > 0 /\ Rank(Listed', j) >= Passed}
      /\ Done' = Done
      /\ Hidden' = IF question.total = "beside" THEN slipped' ELSE 0
  <2>1. page > 0
    BY <1>0, WalkFacts DEF Answered
  <2> QED
    BY <1>0, <2>1 DEF Passed, Twice, Skip, Unseen, Missed, Again, Done, Hidden
<1> DEFINE P == Passed
           T == Total(Twice, Rows)
<1>2. /\ IsFiniteSet(Rows) /\ Rows \subseteq Int
      /\ stayed \in SUBSET Listed
      /\ Listed \in SUBSET Int /\ IsFiniteSet(Listed) /\ Cardinality(Listed) \in 0..Last
      /\ IsFiniteSet(Unseen) /\ Cardinality(Unseen) \in Nat
      /\ IsFiniteSet(Missed) /\ Cardinality(Missed) \in Nat
      /\ IsFiniteSet(Again) /\ Cardinality(Again) \in Nat
      /\ left \in Nat /\ entered \in Nat /\ slipped \in Nat /\ Hidden \in Nat
      /\ total \in Int /\ Last \in Nat
      /\ i \in Int
  BY WalkFacts
<1>3. P \in Nat
  BY <1>1, WalkFacts DEF Passed
<1>4. /\ Cardinality(Missed) <= left
      /\ total # -1 /\ ~rowsCame => question.total = "beside" /\ Cardinality(Listed) <= total + slipped
      /\ Done => Cardinality(Unseen) <= left + Hidden
      /\ T + Cardinality(Again) <= entered
      /\ T <= entered
  BY <1>1 DEF WalkInv, MissedBound, TotalBound, UnseenBound, AgainBound
<1>5. T \in Int
  <2>1. \A x \in Rows : Twice[x] \in Int /\ Twice[x] = Twice[x]
    BY WalkFacts DEF Twice
  <2> QED
    BY <1>2, <2>1, TotalSame
<1> SUFFICES /\ Cardinality(Missed') <= left'
             /\ total # -1 /\ ~rowsCame =>
                    question.total = "beside" /\ Cardinality(Listed') <= total + slipped'
             /\ Done => Cardinality(Unseen') <= left' + Hidden'
             /\ T + Cardinality(Again') <= entered'
             /\ T <= entered'
  <2>1. T' = T
    BY <1>0, <1>1 DEF Rows
  <2> HIDE DEF T
  <2> QED
    BY <1>0, <1>1, <2>1 DEF MissedBound, TotalBound, UnseenBound, AgainBound, T
<1> HIDE DEF P, T
<1>6. CASE i \notin Listed /\ Listed' = Listed \cup {i}
  <2>1. /\ stayed' = stayed /\ left' = left /\ entered' = entered + 1
        /\ slipped' = slipped + (IF total # -1 /\ ~rowsCame THEN 1 ELSE 0)
    BY <1>0, <1>6
  <2>2. MovesOne(Listed, Listed', P)
    BY <1>2, <1>3, <1>6, EntryMovesOne
  <2>3. Unseen' = Unseen
    BY <1>1, <2>1 DEF Unseen
  <2>4. Missed' \in SUBSET Missed
    BY <1>1, <1>2, <2>2, <2>3 DEF MovesOne, Missed, Unseen, P
  <2>5. Cardinality(Missed') <= left'
    BY <1>2, <1>4, <2>1, <2>4, FewerOf
  <2>6. \A x, y \in Again' \ Again : x = y
    <3>1. \A x \in Again' \ Again :
              x \in Listed' /\ Rank(Listed', x) >= P /\ (x \in Listed => ~(Rank(Listed, x) >= P))
      BY <1>1 DEF Again, P
    <3>2. \A x : Rank(Listed, x) \in Nat
      BY <1>2, RankOrdered
    <3>3. \A x \in Again' \ Again :
              x \in Listed' /\ Rank(Listed', x) >= P /\ (x \in Listed => Rank(Listed, x) < P)
      BY <1>3, <3>1, <3>2
    <3> QED
      BY <2>2, <3>3 DEF MovesOne
  <2>7. Cardinality(Again') \in Nat /\ Cardinality(Again') <= Cardinality(Again) + 1
    BY <1>2, <2>6, AtMostOneMore
  <2>8. Cardinality(Listed') = Cardinality(Listed) + 1
    BY <1>2, <1>6, FS_AddElement
  <2>9. T + Cardinality(Again') <= entered' /\ T <= entered'
    BY <1>2, <1>4, <1>5, <2>1, <2>7
  <2>10. total # -1 /\ ~rowsCame =>
             question.total = "beside" /\ Cardinality(Listed') <= total + slipped'
    BY <1>2, <1>4, <2>1, <2>8
  <2>11. Done => Cardinality(Unseen') <= left' + Hidden'
    <3>1. Done => Hidden' = Hidden
      BY <1>1, <1>2, <2>1 DEF Done, Hidden
    <3> QED
      BY <1>4, <2>1, <2>3, <3>1
  <2> QED
    BY <2>5, <2>9, <2>10, <2>11
<1>7. CASE i \in Listed /\ Listed' = Listed \ {i}
  <2>1. /\ stayed' = stayed \ {i} /\ left' = left + 1
        /\ entered' = entered /\ slipped' = slipped
    BY <1>0, <1>7
  <2>2. MovesOne(Listed', Listed, P)
    <3>1. Listed \ {i} \in SUBSET Int /\ IsFiniteSet(Listed \ {i})
      BY <1>2, FS_RemoveElement
    <3>2. Listed = (Listed \ {i}) \cup {i} /\ i \notin Listed \ {i}
      BY <1>7
    <3>3. MovesOne(Listed \ {i}, Listed, P)
      BY <1>2, <1>3, <3>1, <3>2, EntryMovesOne
    <3> QED
      BY <1>7, <3>3
  <2>a. (\A x : Rank(Listed, x) \in Nat) /\ (\A x : Rank(Listed', x) \in Nat)
    <3>1. Listed' \in SUBSET Int /\ IsFiniteSet(Listed')
      BY <1>2, <1>7, FS_RemoveElement
    <3> QED
      BY <1>2, <3>1, RankOrdered
  <2>3. Unseen' \in SUBSET Unseen
    BY <1>1, <2>1 DEF Unseen
  <2>4. \A x, y \in Missed' \ Missed : x = y
    <3>1. \A x \in Missed' \ Missed :
              /\ x \in Unseen' /\ x \in Unseen
              /\ Rank(Listed', x) < P /\ ~(Rank(Listed, x) < P)
      BY <1>1, <2>3 DEF Missed, P
    <3>2. \A x \in Missed' \ Missed :
              x \in Listed /\ Rank(Listed', x) < P /\ Rank(Listed, x) >= P
      <4>1. \A x : ~(Rank(Listed, x) < P) => Rank(Listed, x) >= P
        BY <1>3, <2>a
      <4>2. Unseen \in SUBSET Listed
        BY <1>2 DEF Unseen
      <4> QED
        BY <3>1, <4>1, <4>2
    <3> QED
      BY <2>2, <3>2 DEF MovesOne
  <2>5. Cardinality(Missed') \in Nat /\ Cardinality(Missed') <= Cardinality(Missed) + 1
    BY <1>2, <2>4, AtMostOneMore
  <2>6. Again' \in SUBSET Again
    <3> SUFFICES ASSUME NEW x \in Again' PROVE x \in Again
      OBVIOUS
    <3>1. /\ x \in Listed /\ x \in Int /\ seen[x] > 0
          /\ Rank(Listed', x) >= P
      BY <1>1, <1>2, <1>7 DEF Again, P
    <3>2. ~(Rank(Listed', x) < P)
      BY <1>3, <2>a, <3>1
    <3>3. ~(Rank(Listed, x) < P)
      BY <2>2, <3>1, <3>2 DEF MovesOne
    <3>4. Rank(Listed, x) >= P
      BY <1>3, <2>a, <3>3
    <3> QED
      BY <3>1, <3>4 DEF Again, P
  <2>7. Cardinality(Again') \in Nat /\ Cardinality(Again') <= Cardinality(Again)
    BY <1>2, <2>6, FewerOf
  <2>8. Cardinality(Listed') = Cardinality(Listed) - 1
    BY <1>2, <1>7, FS_RemoveElement
  <2>9. T + Cardinality(Again') <= entered' /\ T <= entered'
    BY <1>2, <1>4, <1>5, <2>1, <2>7
  <2>10. total # -1 /\ ~rowsCame =>
             question.total = "beside" /\ Cardinality(Listed') <= total + slipped'
    BY <1>2, <1>4, <2>1, <2>8
  <2>11. Done => Cardinality(Unseen') <= left' + Hidden'
    <3>1. Hidden' = Hidden
      BY <1>1, <2>1 DEF Hidden
    <3>2. Cardinality(Unseen') \in Nat /\ Cardinality(Unseen') <= Cardinality(Unseen)
      BY <1>2, <2>3, FewerOf
    <3> QED
      BY <1>2, <1>4, <2>1, <3>1, <3>2
  <2>12. Cardinality(Missed') <= left'
    BY <1>2, <1>4, <2>1, <2>5
  <2> QED
    BY <2>9, <2>10, <2>11, <2>12
<1>8. CASE Listed' = Listed
  <2>1. /\ stayed' \in SUBSET stayed
        /\ left' = left /\ entered' = entered /\ slipped' = slipped
    BY <1>0, <1>8
  <2>2. /\ Unseen' \in SUBSET Unseen /\ Missed' \in SUBSET Missed /\ Again' = Again
        /\ Hidden' = Hidden
    BY <1>1, <1>8, <2>1 DEF Unseen, Missed, Again, Hidden
  <2>3. /\ Cardinality(Unseen') \in Nat /\ Cardinality(Unseen') <= Cardinality(Unseen)
        /\ Cardinality(Missed') \in Nat /\ Cardinality(Missed') <= Cardinality(Missed)
    BY <1>2, <2>2, FewerOf
  <2>4. Done => Cardinality(Unseen') <= left' + Hidden'
    BY <1>2, <1>4, <2>1, <2>2, <2>3
  <2>5. Cardinality(Missed') <= left'
    BY <1>2, <1>4, <2>1, <2>3
  <2> QED
    BY <1>4, <1>8, <2>1, <2>2, <2>4, <2>5
<1> QED
  BY <1>0, <1>6, <1>7, <1>8

\* A page is read: of the rows before its end, none is missed that was not missed before;
\* and where the total ends the walk, the rows behind it are those that slipped in.
LEMMA WalkOfPage ==
    ASSUME ListingsInv, WalkInv, question.list, FindMany
    PROVE  MissedBound' /\ TotalBound' /\ UnseenBound' /\ AgainBound'
<1>1. /\ page > 0 /\ ~rowsCame /\ rowsCame' = TRUE
      /\ seen' = [i \in Rows |-> IF i \in PageOf(page) THEN seen[i] + 1 ELSE seen[i]]
      /\ total' = IF question.total = "none"
                    THEN IF Cardinality(PageOf(page)) < Limit THEN 0 ELSE Last
                    ELSE total
      /\ UNCHANGED <<question, table, page, stayed, left, entered, slipped>>
  BY DEF FindMany
<1> DEFINE P == Skip(page)
           E == page * Limit
           T == Total(Twice, Rows)
           G == PageOf(page)
           H == High(Listed, E)
           A == {i \in G : seen[i] > 0}
<1>2. /\ IsFiniteSet(Rows) /\ Rows \subseteq Int
      /\ Listed \in SUBSET Rows /\ stayed \in SUBSET Listed
      /\ Listed \in SUBSET Int /\ IsFiniteSet(Listed) /\ Cardinality(Listed) \in 0..Last
      /\ IsFiniteSet(Missed) /\ Cardinality(Missed) \in Nat
      /\ IsFiniteSet(Again) /\ Cardinality(Again) \in Nat
      /\ seen \in [Rows -> Nat]
      /\ left \in Nat /\ entered \in Nat /\ slipped \in Nat /\ Hidden \in Nat
      /\ total \in Int /\ Limit \in Nat \ {0} /\ Last \in Nat
  BY WalkFacts
<1>3. P \in Nat /\ E \in Nat /\ E = P + Limit
  BY <1>1, WalkFacts
<1>4. /\ Listed' = Listed /\ Hidden' = Hidden
      /\ Passed = P /\ Passed' = E
      /\ Unseen' = {i \in stayed : seen'[i] = 0}
      /\ Missed' = {i \in Unseen' : Rank(Listed, i) < E}
      /\ Again' = {i \in Listed : seen'[i] > 0 /\ Rank(Listed, i) >= E}
      /\ Done' <=> (page = 0 \/ (total' # -1 /\ E >= total'))
  BY <1>1 DEF Listed, Hidden, Passed, Unseen, Missed, Again, Done
<1>5. \A i : Rank(Listed, i) \in Nat
  BY <1>2, RankOrdered
<1>6. G = {i \in Listed : Rank(Listed, i) \in P..(P + Limit - 1)}
  BY DEF PageOf, Before, Rank, Lower
<1>7. /\ Cardinality(Missed) <= left
      /\ total # -1 => question.total = "beside" /\ Cardinality(Listed) <= total + slipped
      /\ T + Cardinality(Again) <= entered
  BY <1>1 DEF WalkInv, MissedBound, TotalBound, AgainBound
<1>8. \A i \in Rows : seen'[i] = IF i \in G THEN seen[i] + 1 ELSE seen[i]
  BY <1>1
<1>9. /\ IsFiniteSet(H) /\ Cardinality(H) \in Nat
      /\ Cardinality(Listed) <= E => H = {}
      /\ Cardinality(Listed) >= E => Cardinality(H) <= Cardinality(Listed) - E
  BY <1>2, <1>3, HighBounded
<1>10. Cardinality(G) < Limit => H = {}
  <2> HIDE DEF G, P, E
  <2>1. Limit \in Nat
    BY <1>2
  <2>2. Cardinality(G) < Limit => High(Listed, P + Limit) = {}
    BY <1>2, <1>3, <1>6, <2>1, ShortPageIsLast
  <2> QED
    BY <1>3, <2>2
<1> HIDE DEF P, E, T, G
<1>11. Missed' \in SUBSET Missed
  <2> SUFFICES ASSUME NEW i \in Missed' PROVE i \in Missed
    OBVIOUS
  <2>1. i \in stayed /\ i \in Listed /\ i \in Rows /\ seen'[i] = 0 /\ Rank(Listed, i) < E
    BY <1>2, <1>4
  <2>2. i \notin G /\ seen[i] = 0
    BY <1>2, <1>8, <2>1
  <2>3. Rank(Listed, i) < P
    BY <1>2, <1>3, <1>5, <1>6, <2>1, <2>2
  <2> QED
    BY <1>4, <2>1, <2>2, <2>3 DEF Missed, Unseen
<1>12. Cardinality(Missed') \in Nat /\ Cardinality(Missed') <= Cardinality(Missed)
  BY <1>2, <1>11, FewerOf
<1>13. Unseen' \subseteq Missed' \cup H
  <2> SUFFICES ASSUME NEW i \in Unseen', i \notin Missed' PROVE i \in H
    OBVIOUS
  <2>1. i \in Listed /\ Rank(Listed, i) >= E
    BY <1>2, <1>3, <1>4, <1>5
  <2> QED
    BY <2>1 DEF High
<1>14. IsFiniteSet(Missed')
  BY <1>2, <1>11, FewerOf
<1> HIDE DEF H
<1>15. /\ Cardinality(Unseen') \in Nat
       /\ Cardinality(Unseen') <= Cardinality(Missed') + Cardinality(H)
  <2> DEFINE M == Missed'
             U == Unseen'
  <2>1. U \in SUBSET (M \cup H) /\ IsFiniteSet(M) /\ IsFiniteSet(H)
    BY <1>9, <1>13, <1>14
  <2>2. Cardinality(M) \in Nat
    BY <1>12
  <2> HIDE DEF M, U
  <2>3. /\ IsFiniteSet(M \cup H)
        /\ Cardinality(M \cup H) = Cardinality(M) + Cardinality(H) - Cardinality(M \cap H)
    BY <2>1, FS_Union
  <2>4. IsFiniteSet(M \cap H)
    BY <2>1, FS_Subset
  <2>5. Cardinality(M \cap H) \in Nat
    BY <2>4, FS_CardinalityType
  <2>6. Cardinality(U) \in Nat /\ Cardinality(U) <= Cardinality(M \cup H)
    BY <2>1, <2>3, FewerOf
  <2>7. Cardinality(U) \in Nat /\ Cardinality(U) <= Cardinality(M) + Cardinality(H)
    BY <1>9, <2>2, <2>3, <2>5, <2>6
  <2> QED
    BY <2>7 DEF M, U
<1>16. Done' => Cardinality(H) <= Hidden
  <2> SUFFICES ASSUME Done' PROVE Cardinality(H) <= Hidden
    OBVIOUS
  <2>1. total' # -1 /\ E >= total'
    BY <1>1, <1>4
  <2>2. H = {} => Cardinality(H) <= Hidden
    BY <1>2, FS_EmptySet
  <2>3. CASE question.total = "none"
    <3>1. CASE Cardinality(G) < Limit
      BY <1>10, <2>2, <3>1
    <3>2. CASE ~(Cardinality(G) < Limit)
      <4>1. total' = Last
        BY <1>1, <2>3, <3>2 DEF G
      <4>2. Cardinality(Listed) <= E
        BY <1>2, <1>3, <2>1, <4>1
      <4> QED
        BY <1>9, <2>2, <4>2
    <3> QED
      BY <3>1, <3>2
  <2>4. CASE question.total # "none"
    <3>1. total' = total
      BY <1>1, <2>4
    <3>2. question.total = "beside" /\ Cardinality(Listed) <= total + slipped
      BY <1>7, <2>1, <3>1
    <3>3. Hidden = slipped
      BY <3>2 DEF Hidden
    <3>4. CASE Cardinality(Listed) <= E
      BY <1>9, <2>2, <3>4
    <3>5. CASE Cardinality(Listed) >= E
      BY <1>2, <1>3, <1>9, <2>1, <3>1, <3>2, <3>3, <3>5
    <3>6. Cardinality(Listed) \in Int
      BY <1>2
    <3> QED
      BY <1>3, <3>4, <3>5, <3>6
  <2> QED
    BY <2>3, <2>4
<1>17. Done' => Cardinality(Unseen') <= left' + Hidden'
  BY <1>1, <1>2, <1>4, <1>7, <1>9, <1>12, <1>15, <1>16
<1>18. /\ T \in Int
       /\ Total(Twice', Rows) = T + Cardinality(A)
  <2> DEFINE W == Twice'
  <2>1. \A i \in Rows : W[i] = IF seen'[i] > 1 THEN seen'[i] - 1 ELSE 0
    BY DEF Twice, Rows
  <2>2. \A i \in Rows : Twice[i] \in Int /\ W[i] = Twice[i] + (IF i \in A THEN 1 ELSE 0)
    BY <1>2, <1>8, <2>1 DEF Twice
  <2> HIDE DEF W, A
  <2>3. Grown(Twice, W, Rows, A)
    BY <2>2 DEF Grown
  <2>4. T \in Int /\ Total(W, Rows) = T + Cardinality(Rows \cap A)
    BY <1>2, <2>3, TotalGrows DEF T
  <2>5. Rows \cap A = A
    BY <1>2, <1>6 DEF A
  <2> QED
    BY <2>4, <2>5 DEF W
<1>19. Cardinality(Again') \in Nat /\ Cardinality(A) + Cardinality(Again') <= Cardinality(Again)
  <2> DEFINE N == Again'
  <2>1. A \in SUBSET Again
    BY <1>3, <1>4, <1>5, <1>6 DEF Again
  <2>2. N \in SUBSET Again /\ A \cap N = {}
    <3> SUFFICES ASSUME NEW i \in N PROVE i \in Again /\ i \notin A
      OBVIOUS
    <3>1. i \in Listed /\ i \in Rows /\ seen'[i] > 0 /\ Rank(Listed, i) >= E
      BY <1>2, <1>4
    <3>2. i \notin G
      BY <1>2, <1>3, <1>5, <1>6, <3>1
    <3>3. seen[i] > 0
      BY <1>8, <3>1, <3>2
    <3>4. Rank(Listed, i) >= P
      BY <1>2, <1>3, <1>5, <3>1
    <3> QED
      BY <1>4, <3>1, <3>2, <3>3, <3>4 DEF Again
  <2> HIDE DEF N, A
  <2>3. /\ IsFiniteSet(A) /\ Cardinality(A) \in Nat
        /\ IsFiniteSet(N) /\ Cardinality(N) \in Nat
    BY <1>2, <2>1, <2>2, FewerOf
  <2>4. Cardinality(A \cup N) = Cardinality(A) + Cardinality(N) - Cardinality({})
    BY <2>2, <2>3, FS_Union
  <2>5. A \cup N \in SUBSET Again
    BY <2>1, <2>2
  <2>6. Cardinality(A \cup N) <= Cardinality(Again)
    BY <1>2, <2>5, FewerOf
  <2>7. Cardinality(N) \in Nat /\ Cardinality(A) + Cardinality(N) <= Cardinality(Again)
    BY <1>2, <2>3, <2>4, <2>6, FS_EmptySet
  <2> QED
    BY <2>7 DEF N
<1>20. Total(Twice, Rows)' = Total(Twice', Rows)
  BY DEF Rows
<1>21. Cardinality(A) \in Nat
  <2>1. A \in SUBSET Rows
    BY <1>2, <1>6
  <2> HIDE DEF A
  <2> QED
    BY <1>2, <2>1, FewerOf
<1> HIDE DEF A
<1>22. /\ Total(Twice, Rows)' + Cardinality(Again') <= entered'
       /\ Total(Twice, Rows)' <= entered'
  BY <1>1, <1>2, <1>7, <1>18, <1>19, <1>20, <1>21
<1>23. MissedBound'
  BY <1>1, <1>2, <1>7, <1>12 DEF MissedBound
<1>24. TotalBound'
  BY <1>1 DEF TotalBound
<1>25. UnseenBound'
  BY <1>17 DEF UnseenBound
<1>26. AgainBound'
  BY <1>22 DEF AgainBound
<1> QED
  BY <1>23, <1>24, <1>25, <1>26

\* The total is counted, of the list as it is now.
LEMMA WalkOfCount ==
    ASSUME ListingsInv, WalkInv, question.list, Count
    PROVE  MissedBound' /\ TotalBound' /\ UnseenBound' /\ AgainBound'
<1>1. /\ page > 0 /\ total = -1 /\ total' = Cardinality(Listed) /\ slipped' = 0
      /\ question.total = "beside" \/ rowsCame
      /\ UNCHANGED <<question, table, page, rowsCame, seen, stayed, left, entered>>
  BY DEF Count
<1> DEFINE E == page * Limit
           H == High(Listed, E)
<1>2. /\ Listed \in SUBSET Int /\ IsFiniteSet(Listed) /\ Cardinality(Listed) \in 0..Last
      /\ stayed \in SUBSET Listed /\ Last \in Nat
      /\ left \in Nat /\ rowsCame \in BOOLEAN
      /\ E \in Nat
  BY WalkFacts
<1>3. /\ Listed' = Listed /\ Passed' = Passed /\ Unseen' = Unseen /\ Missed' = Missed
      /\ Again' = Again /\ Rows' = Rows /\ Twice' = Twice
      /\ Hidden' = 0
      /\ Done' => rowsCame /\ E >= Cardinality(Listed)
      /\ rowsCame => Passed = E
  BY <1>1 DEF Listed, Passed, Skip, Unseen, Missed, Again, Rows, Twice, Hidden, Done
<1>4. MissedBound /\ AgainBound
  BY DEF WalkInv
<1>5. MissedBound'
  BY <1>1, <1>3, <1>4 DEF MissedBound
<1>6. AgainBound'
  BY <1>1, <1>3, <1>4 DEF AgainBound
<1>7. TotalBound'
  <2>1. Cardinality(Listed) <= Cardinality(Listed) + 0
    BY <1>2
  <2> QED
    BY <1>1, <1>3, <2>1 DEF TotalBound
<1>8. UnseenBound'
  <2> SUFFICES ASSUME Done' PROVE Cardinality(Unseen) <= left + 0
    BY <1>1, <1>3 DEF UnseenBound
  <2>1. rowsCame /\ E >= Cardinality(Listed) /\ Passed = E
    BY <1>3
  <2>2. H = {}
    BY <1>2, <2>1, HighBounded
  <2>3. \A i : Rank(Listed, i) \in Nat
    BY <1>2, RankOrdered
  <2>4. Unseen = Missed
    <3> SUFFICES ASSUME NEW i \in Unseen PROVE Rank(Listed, i) < E
      BY <2>1 DEF Missed
    <3>1. i \in Listed /\ i \notin H
      BY <1>2, <2>2 DEF Unseen
    <3>2. ~(Rank(Listed, i) >= E)
      BY <3>1 DEF High
    <3> QED
      BY <1>2, <2>3, <3>2
  <2>5. Cardinality(Missed) <= left /\ Cardinality(Missed) \in Nat
    BY <1>1, <1>4, WalkFacts DEF MissedBound
  <2> QED
    BY <1>2, <2>4, <2>5
<1> QED
  BY <1>5, <1>6, <1>7, <1>8

\* The answer: the walk goes on where it was, or is over.
LEMMA WalkOfAnswer ==
    ASSUME ListingsInv, WalkInv, question.list, NextPage
    PROVE  MissedBound' /\ TotalBound' /\ UnseenBound' /\ AgainBound'
<1>1. /\ page > 0 /\ rowsCame /\ total # -1
      /\ UNCHANGED <<question, table, seen, stayed, left, entered, slipped>>
  BY DEF NextPage
<1>2. /\ page \in Nat /\ total \in Int /\ page * Limit \in Nat
  BY WalkFacts
<1>3. /\ Listed' = Listed /\ Unseen' = Unseen /\ Rows' = Rows /\ Twice' = Twice
      /\ Hidden' = Hidden
      /\ Passed = page * Limit
  BY <1>1 DEF Listed, Passed, Unseen, Rows, Twice, Hidden
<1>4. MissedBound /\ UnseenBound /\ AgainBound
  BY DEF WalkInv
<1>5. CASE page * Limit < total
  <2>1. page' = page + 1
    BY <1>5 DEF NextPage
  <2>2. rowsCame' = FALSE
    BY <1>5 DEF NextPage
  <2>3. total' = -1
    BY <1>5 DEF NextPage
  <2>4. Passed' = page * Limit
    <3>1. (page + 1) - 1 = page
      BY <1>2
    <3> QED
      BY <2>1, <2>2, <3>1 DEF Passed, Skip
  <2>5. Missed' = Missed /\ Again' = Again
    BY <1>1, <1>3, <2>4 DEF Missed, Again
  <2>6. MissedBound'
    BY <1>1, <1>4, <2>5 DEF MissedBound
  <2>7. TotalBound'
    BY <2>3 DEF TotalBound
  <2>8. ~Done'
    BY <1>2, <2>1, <2>2 DEF Done
  <2>9. UnseenBound'
    BY <2>8 DEF UnseenBound
  <2>10. AgainBound'
    BY <1>1, <1>3, <1>4, <2>5 DEF AgainBound
  <2> QED
    BY <2>6, <2>7, <2>9, <2>10
<1>6. CASE ~(page * Limit < total)
  <2>1. page' = 0 /\ rowsCame' = rowsCame /\ total' = total
    BY <1>6 DEF NextPage
  <2>2. Done
    BY <1>1, <1>2, <1>6 DEF Done
  <2>3. MissedBound' /\ TotalBound'
    BY <2>1 DEF MissedBound, TotalBound
  <2>4. UnseenBound'
    BY <1>1, <1>3, <1>4, <2>2 DEF UnseenBound
  <2>5. AgainBound'
    BY <1>1, <1>3, <1>4, <2>1 DEF AgainBound
  <2> QED
    BY <2>3, <2>4, <2>5
<1> QED
  BY <1>5, <1>6

LEMMA WalkStays ==
    ASSUME ListingsInv, WalkInv, ListingsNext
    PROVE  WalkInv'
<1>1. question' = question
  BY DEF ListingsNext, Change, FindMany, Count, NextPage, CountFigure
<1> SUFFICES ASSUME question.list
             PROVE  MissedBound' /\ TotalBound' /\ UnseenBound' /\ AgainBound'
  BY <1>1 DEF WalkInv
<1>2. ASSUME NEW f \in FigureNames, CountFigure(f) PROVE FALSE
  BY <1>2 DEF CountFigure
<1> QED
  BY <1>2, WalkOfChange, WalkOfPage, WalkOfCount, WalkOfAnswer DEF ListingsNext

\* No page has been read.
LEMMA WalkBegins ==
    ASSUME ListingsInit, ListingsInv
    PROVE  WalkInv
<1>1. /\ page = 1 /\ rowsCame = FALSE /\ total = -1 /\ left = 0 /\ entered = 0
      /\ \A i \in Rows : seen[i] = 0
  BY DEF ListingsInit
<1>2. IsFiniteSet(Rows) /\ Listed \in SUBSET Int /\ IsFiniteSet(Listed) /\ Listed \in SUBSET Rows
      /\ stayed \in SUBSET Listed
  BY WalkFacts
<1>3. Passed = 0
  BY <1>1, ListingsAssumption DEF Passed, Skip
<1>4. Missed = {}
  <2>1. \A i : Rank(Listed, i) \in Nat
    BY <1>2, RankOrdered
  <2>2. \A i : ~(Rank(Listed, i) < 0)
    BY <2>1
  <2> QED
    BY <1>3, <2>2 DEF Missed
<1>5. Again = {}
  <2>1. \A i \in Listed : ~(seen[i] > 0)
    <3>1. \A i \in Listed : seen[i] = 0
      BY <1>1, <1>2
    <3> QED
      BY <3>1
  <2> QED
    BY <2>1 DEF Again
<1>6. Total(Twice, Rows) = 0
  <2> DEFINE C == [i \in Rows |-> {}]
  <2>1. Counted(Twice, C, Rows)
    BY <1>1, FS_EmptySet DEF Counted, Twice
  <2>2. Together(C, Rows) = {}
    BY DEF Together
  <2> QED
    BY <1>2, <2>1, <2>2, TotalOfCounts, FS_EmptySet
<1>7. Cardinality({}) = 0
  BY FS_EmptySet
<1>8. MissedBound /\ TotalBound
  BY <1>1, <1>4, <1>7 DEF MissedBound, TotalBound
<1>9. UnseenBound /\ AgainBound
  BY <1>1, <1>5, <1>6, <1>7 DEF UnseenBound, AgainBound, Done
<1> QED
  BY <1>8, <1>9 DEF WalkInv

LEMMA FiguresBegin ==
    ASSUME ListingsInit, ListingsInv
    PROVE  FiguresInv
<1>1. /\ \A f \in FigureNames : ~Came(f)
      /\ drift = 0
      /\ question \in Questions
      /\ table \in [Rows -> question.kinds]
  BY DEF ListingsInit, Came
<1>2. IsFiniteSet(FigureNames) /\ IsFiniteSet(Rows)
  BY <1>1, ListingsAssumption, ListedBounded DEF FigureNames, ListingsInv
<1>3. CountsOf(Val, table, FigureNames)
  BY <1>1 DEF Val, Counting, CountsOf
<1>4. \A f \in FigureNames, fs \in SUBSET FigureNames : PartsOf(fs, f, question.kinds) =>
          /\ Total(Val, fs) <= Val[f] + 0
          /\ (\A kind \in question.kinds : f \in kind => kind \cap fs # {})
                => Val[f] <= Total(Val, fs) + 0
  <2>1. 0 \in Nat
    OBVIOUS
  <2> HIDE DEF Val
  <2> QED
    BY <1>1, <1>2, <1>3, <2>1, FiguresOfNow
<1> QED
  BY <1>1, <1>4 DEF FiguresInv, Apart, Within, Cover, PartsOf

LEMMA DoublesAreTotal ==
    ASSUME IsFiniteSet(Rows)
    PROVE  MapThenSumSet(LAMBDA i : IF seen[i] > 1 THEN seen[i] - 1 ELSE 0, Rows)
               = Total(Twice, Rows)
<1> DEFINE m(i) == IF seen[i] > 1 THEN seen[i] - 1 ELSE 0
           Iter == CHOOSE g : g = [s \in SUBSET Rows |->
              IF s = {} THEN 0
              ELSE m(CHOOSE x \in s : TRUE) + g[s \ {CHOOSE x \in s : TRUE}]]
<1>1. MapThenSumSet(LAMBDA i : IF seen[i] > 1 THEN seen[i] - 1 ELSE 0, Rows) = Iter[Rows]
  BY DEF MapThenSumSet, MapThenFoldSet
<1>2. Sums(Twice, Rows, CHOOSE g : Sums(Twice, Rows, g))
  BY TotalSums
<1>3. \A s \in SUBSET Rows : s # {} => m(First(s)) = Twice[First(s)]
  BY FirstRest DEF Twice
<1>a. \A s : First(s) = CHOOSE x \in s : TRUE
  BY DEF First
<1>b. \A s : Rest(s) = s \ {CHOOSE x \in s : TRUE}
  BY DEF First, Rest
<1> HIDE DEF m
<1>4. ASSUME NEW g
      PROVE  [s \in SUBSET Rows |->
              IF s = {} THEN 0
              ELSE m(CHOOSE x \in s : TRUE) + g[s \ {CHOOSE x \in s : TRUE}]]
           = [s \in SUBSET Rows |-> IF s = {} THEN 0 ELSE Twice[First(s)] + g[Rest(s)]]
  <2>1. [s \in SUBSET Rows |->
              IF s = {} THEN 0
              ELSE m(CHOOSE x \in s : TRUE) + g[s \ {CHOOSE x \in s : TRUE}]]
           = [s \in SUBSET Rows |-> IF s = {} THEN 0 ELSE m(First(s)) + g[Rest(s)]]
    BY DEF First, Rest
  <2> HIDE DEF Twice
  <2>2. [s \in SUBSET Rows |-> IF s = {} THEN 0 ELSE m(First(s)) + g[Rest(s)]]
           = [s \in SUBSET Rows |-> IF s = {} THEN 0 ELSE Twice[First(s)] + g[Rest(s)]]
    BY <1>3
  <2> QED
    BY <2>1, <2>2
<1>c. ASSUME NEW g
      PROVE  g = [s \in SUBSET Rows |->
              IF s = {} THEN 0
              ELSE m(CHOOSE x \in s : TRUE) + g[s \ {CHOOSE x \in s : TRUE}]]
           <=> Sums(Twice, Rows, g)
  BY <1>4 DEF Sums
<1>d. \E g : g = [s \in SUBSET Rows |->
              IF s = {} THEN 0
              ELSE m(CHOOSE x \in s : TRUE) + g[s \ {CHOOSE x \in s : TRUE}]]
  <2> DEFINE G == CHOOSE g : Sums(Twice, Rows, g)
  <2>1. Sums(Twice, Rows, G)
    BY <1>2
  <2> HIDE DEF G
  <2>2. G = [s \in SUBSET Rows |->
              IF s = {} THEN 0
              ELSE m(CHOOSE x \in s : TRUE) + G[s \ {CHOOSE x \in s : TRUE}]]
    BY <1>c, <2>1
  <2> QED
    BY <2>2
<1>e. Iter = [s \in SUBSET Rows |->
              IF s = {} THEN 0
              ELSE m(CHOOSE x \in s : TRUE) + Iter[s \ {CHOOSE x \in s : TRUE}]]
  BY <1>d
<1>5. Sums(Twice, Rows, Iter)
  <2> HIDE DEF Iter
  <2> QED
    BY <1>c, <1>e
<1> HIDE DEF Iter
<1> QED
  BY <1>1, <1>5, TotalSums

LEMMA ExplainedByInvariants ==
    ASSUME ListingsInv, FiguresInv, WalkInv
    PROVE  AnswersExplained
<1>1. IsFiniteSet(Rows)
  BY WalkFacts
<1>2. PagesExplained
  <2> SUFFICES ASSUME question.list, Answered
               PROVE  /\ Cardinality(Unseen) <= left + Hidden
                      /\ Total(Twice, Rows) <= entered
    BY <1>1, DoublesAreTotal DEF PagesExplained, Unseen, Hidden
  <2>1. Done
    BY DEF Answered, Done
  <2> QED
    BY <2>1 DEF WalkInv, UnseenBound, AgainBound
<1>3. FiguresExplained
  <2> SUFFICES ASSUME ~question.list, Answered,
                      NEW f \in FigureNames, NEW fs \in SUBSET FigureNames,
                      Apart(fs), Within(fs, f)
               PROVE  /\ SumOf(fs) <= figure[f] + drift
                      /\ Cover(fs, f) => figure[f] <= SumOf(fs) + drift
    BY DEF FiguresExplained
  <2>1. question \in Questions /\ figure \in [FigureNames -> -1..Last]
    BY DEF ListingsInv, ListingsTypeOK
  <2>2. IsFiniteSet(fs)
    BY <2>1, ListingsAssumption, FS_Subset DEF FigureNames
  <2>3. \A g \in FigureNames : Came(g)
    BY DEF Answered, All
  <2>4. \A g \in FigureNames : Val[g] = figure[g] /\ figure[g] \in Int
    BY <2>1, <2>3, ListingsAssumption DEF Val
  <2>5. /\ Total(Val, fs) <= Val[f] + drift
        /\ Cover(fs, f) => Val[f] <= Total(Val, fs) + drift
    BY DEF FiguresInv
  <2> HIDE DEF Val
  <2>6. Total(figure, fs) = Total(Val, fs)
    <3>1. \A x \in fs : Val[x] \in Int /\ figure[x] = Val[x]
      BY <2>4
    <3> QED
      BY <2>2, <3>1, TotalSame
  <2>7. SumOf(fs) = Total(figure, fs)
    BY <2>2, SumOfIsTotal
  <2> QED
    BY <2>4, <2>5, <2>6, <2>7
<1> QED
  BY <1>2, <1>3 DEF AnswersExplained

LEMMA ListingsBegin ==
    ASSUME ListingsInit
    PROVE  ListingsInv
<1>1. /\ question \in Questions /\ table \in [Rows -> question.kinds]
      /\ changes = 0 /\ page = 1 /\ rowsCame = FALSE /\ total = -1
      /\ figure = [f \in FigureNames |-> -1]
      /\ seen = [i \in Rows |-> 0]
      /\ stayed = Listed
      /\ left = 0 /\ entered = 0 /\ slipped = 0 /\ drift = 0
  BY DEF ListingsInit
<1>2. Last \in Nat /\ MaxChanges \in Nat
  BY ListingsAssumption
<1>3. figure \in [FigureNames -> -1..Last] /\ seen \in [Rows -> Nat]
  BY <1>1, <1>2
<1>4. /\ changes \in 0..MaxChanges /\ page \in Nat /\ rowsCame \in BOOLEAN /\ total \in -1..Last
      /\ left + entered <= changes /\ slipped <= entered /\ drift \in 0..changes
      /\ left \in Nat /\ entered \in Nat /\ slipped \in Nat
  <2>1. 0 \in 0..MaxChanges /\ -1 \in -1..Last /\ 0 \in 0..0 /\ 0 + 0 <= 0
    BY <1>2
  <2>2. page \in Nat /\ rowsCame \in BOOLEAN
    BY <1>1
  <2>3. changes \in 0..MaxChanges
    BY <1>1, <2>1
  <2>4. total \in -1..Last
    BY <1>1, <2>1
  <2>5. left + entered <= changes /\ slipped <= entered /\ drift \in 0..changes
    BY <1>1, <2>1
  <2>6. left \in Nat /\ entered \in Nat /\ slipped \in Nat
    BY <1>1
  <2> QED
    BY <2>2, <2>3, <2>4, <2>5, <2>6
<1>5. stayed \subseteq Listed
  BY <1>1
<1> QED
  BY <1>1, <1>3, <1>4, <1>5 DEF ListingsInv, ListingsTypeOK

LEMMA ListingsInvariant == ListingsSpec => [](ListingsInv /\ FiguresInv /\ WalkInv)
<1>1. ListingsInit => ListingsInv /\ FiguresInv /\ WalkInv
  BY ListingsBegin, FiguresBegin, WalkBegins
<1>2. ASSUME ListingsInv, FiguresInv, WalkInv, [ListingsNext]_listingsVars
      PROVE  ListingsInv' /\ FiguresInv' /\ WalkInv'
  <2>1. CASE ListingsNext
    <3>1. ListingsInv'
      BY <1>2, <2>1, ListingsTypeStays
    <3> QED
      BY <1>2, <2>1, <3>1, FiguresStay, WalkStays
  <2>2. CASE UNCHANGED listingsVars
    <3>1. /\ UNCHANGED <<question, table, changes, page, rowsCame, total, seen, stayed>>
          /\ UNCHANGED <<left, entered, slipped, figure, drift>>
      BY <2>2 DEF listingsVars, walkVars, figureVars
    <3>2. Listed' = Listed /\ FigureNames' = FigureNames /\ Rows' = Rows
      BY <3>1 DEF Listed, FigureNames, Rows
    <3>3. ListingsInv'
      BY <1>2, <3>1, <3>2 DEF ListingsInv, ListingsTypeOK
    <3>4. Val' = Val
      BY <3>1, <3>2 DEF Val, Came, Counting
    <3>5. FiguresInv'
      <4>1. \A fs, f : Apart(fs)' = Apart(fs) /\ Within(fs, f)' = Within(fs, f)
                       /\ Cover(fs, f)' = Cover(fs, f)
        BY <3>1 DEF Apart, Within, Cover
      <4> HIDE DEF Val
      <4> QED
        BY <1>2, <3>1, <3>2, <3>4, <4>1 DEF FiguresInv
    <3>6. /\ Passed' = Passed /\ Unseen' = Unseen /\ Missed' = Missed /\ Again' = Again
          /\ Twice' = Twice /\ Hidden' = Hidden /\ Done' = Done
      BY <3>1, <3>2 DEF Passed, Skip, Unseen, Missed, Again, Twice, Hidden, Done
    <3>7. WalkInv'
      BY <1>2, <3>1, <3>2, <3>6 DEF WalkInv, MissedBound, TotalBound, UnseenBound, AgainBound
    <3> QED
      BY <3>3, <3>5, <3>7
  <2> QED
    BY <1>2, <2>1, <2>2
<1> QED
  BY <1>1, <1>2, PTL DEF ListingsSpec

\* The types, and the bookkeeping of changes: what left and what entered are changes, what
\* slipped in entered, and who stayed is there.
THEOREM ListingsTypeCorrect == ListingsSpec => []ListingsTypeOK
<1>1. ListingsInv => ListingsTypeOK
  BY DEF ListingsInv
<1> QED
  BY <1>1, ListingsInvariant, PTL

\* Whatever the page size, the number of rows and the changes that others make: a reader of
\* every page misses no more than left and slipped in, has none twice but for those that
\* came, and the parts of a statistic differ from its whole by no more than the drift.
THEOREM ListingsAnswersExplained == ListingsSpec => []AnswersExplained
<1>1. ListingsInv /\ FiguresInv /\ WalkInv => AnswersExplained
  BY ExplainedByInvariants
<1> QED
  BY <1>1, ListingsInvariant, PTL

-------------------------------------------------------------------------------
(* Access *)

A == INSTANCE Access

Roles == {"CLIENT", "DRIVER", "ADMIN"}
HasProfile(db, user) ==
    /\ user.role = "CLIENT" => A!ClientOf(db, user) # {}
    /\ user.role = "DRIVER" => A!DriverOf(db, user) # {}

\* findUserRides, findRideById and validateRideAccess, for all tables: whoever has the profile
\* of his role is listed the rides that he may open, and no others; without it he is listed
\* all of them and may open none.  What he may open he may follow.
THEOREM ListedRidesOpen ==
    ASSUME NEW db, NEW user, user.role \in Roles, NEW r \in db.rides
    PROVE  /\ HasProfile(db, user)
                => (r \in A!FindUserRides(db, user) <=> A!FindRideById(db, user, r))
           /\ ~HasProfile(db, user)
                => r \in A!FindUserRides(db, user) /\ ~A!FindRideById(db, user, r)
           /\ A!FindRideById(db, user, r) => A!ValidateRideAccess(db, user, r)
<1>1. CASE user.role = "CLIENT"
  BY <1>1 DEF HasProfile, A!FindUserRides, A!FindRideById, A!ValidateRideAccess
<1>2. CASE user.role = "DRIVER"
  BY <1>2 DEF HasProfile, A!FindUserRides, A!FindRideById, A!ValidateRideAccess
<1>3. CASE user.role = "ADMIN"
  BY <1>3 DEF HasProfile, A!FindUserRides, A!FindRideById, A!ValidateRideAccess
<1> QED
  BY <1>1, <1>2, <1>3 DEF Roles

\* VehiclesService, for all tables: a vehicle listed may be opened, and those that may be
\* changed are those that are listed.
THEOREM ListedVehiclesOpen ==
    ASSUME NEW db, NEW user, user.role \in Roles, NEW v \in db.vehicles
    PROVE  /\ v \in A!FindAllVehicles(db, user) => A!FindVehicle(db, user, v)
           /\ A!UpdateVehicle(db, user, v) <=> v \in A!FindAllVehicles(db, user)
BY DEF Roles, A!FindAllVehicles, A!FindVehicle, A!UpdateVehicle, A!CanActivate

\* ReservationsService, for all tables: of the statuses asked for, the reservations listed are
\* those that may be opened; one that may be changed is listed among the PENDING ones.
THEOREM ListedReservationsOpen ==
    ASSUME NEW db, NEW user, user.role \in Roles, NEW b \in db.reservations, NEW statuses,
           NEW scheduledAt, NEW now
    PROVE  /\ b \in A!FindAllReservations(db, user, statuses)
                <=> b.status \in statuses /\ A!FindReservation(db, user, b)
           /\ A!MayUpdateReservation(db, user, b, scheduledAt, now)
                => b \in A!FindAllReservations(db, user, {"PENDING"})
BY DEF A!FindAllReservations, A!FindReservation, A!MayUpdateReservation

\* createClientProfile, for all tables: a second creation changes nothing, whatever its id;
\* the first gives a client his profile and leaves everybody else's.
THEOREM ProfilesMadeOnce ==
    ASSUME NEW Row, NEW db \in [{"clients", "drivers", "rides"} -> SUBSET Row],
           NEW user, NEW other, other.id # user.id, NEW id, NEW second
    PROVE  LET once == A!CreateClientProfile(db, user, id) IN
           /\ A!CreateClientProfile(once, user, second) = once
           /\ user.role = "CLIENT" => HasProfile(once, user)
           /\ A!ClientOf(once, other) = A!ClientOf(db, other)
<1> DEFINE once == A!CreateClientProfile(db, user, id)
           row == [id |-> id, user |-> user.id]
<1>1. CASE user.role = "CLIENT" /\ A!ClientOf(db, user) = {}
  <2>1. once.clients = db.clients \cup {row}
    BY <1>1 DEF A!CreateClientProfile
  <2>2. id \in A!ClientOf(once, user)
    BY <2>1 DEF A!ClientOf
  <2>3. A!CreateClientProfile(once, user, second) = once
    BY <2>2 DEF A!CreateClientProfile
  <2>4. A!ClientOf(once, other) = A!ClientOf(db, other)
    BY <2>1 DEF A!ClientOf
  <2> QED
    BY <1>1, <2>2, <2>3, <2>4 DEF HasProfile
<1>2. CASE ~(user.role = "CLIENT" /\ A!ClientOf(db, user) = {})
  <2>1. once = db
    BY <1>2 DEF A!CreateClientProfile
  <2> QED
    BY <1>2, <2>1 DEF HasProfile, A!CreateClientProfile
<1> QED
  BY <1>1, <1>2

================================================================================
