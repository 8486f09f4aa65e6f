----------------------------- MODULE MCEarnings -----------------------------
(***************************************************************************)
(* Earnings for TLC, and the pure functions of Fares over bounded inputs.  *)
(*                                                                         *)
(* The totals and the rating meet in the rides' statuses and in the        *)
(* requests under way only.  A behaviour here is about one of them, so     *)
(* that TLC does not look at every state of the one with every state of    *)
(* the other; what is proved holds of both together.                       *)
(***************************************************************************)
EXTENDS Earnings

VARIABLE about      \* bound: what the behaviour is about

mcVars == <<earningsVars, about>>

\* Without ratings, or of rides without a fare, which nobody pays and no night counts.
OneOfThem ==
    /\ about = "totals" => UNCHANGED ratingVars /\ \A t \in Tasks : task'[t].step # "rate"
    /\ about = "ratings" => UNCHANGED <<fare, paid, totalRides, totalEarnings, night>>

MCEarningsInit == EarningsInit /\ about \in {"totals", "ratings"}
MCEarningsNext == EarningsNext /\ OneOfThem /\ UNCHANGED about

\* FairEarningsSpec, so bounded.
FairMCEarningsSpec ==
    /\ MCEarningsInit /\ [][MCEarningsNext]_mcVars
    /\ \A t \in Tasks : WF_mcVars(TaskStep(t) /\ OneOfThem /\ UNCHANGED about)
    /\ WF_mcVars(NightlyRead /\ OneOfThem /\ UNCHANGED about)
    /\ SF_mcVars(NightlyWrite /\ OneOfThem /\ UNCHANGED about)

\* Distances around every rounding edge of the rates, in metres, and some longer ones.
SomeDistances == 0..400 \cup {999, 1000, 1001, 2399, 5000, 12345, 100000}
SomeMinutes == {0, 1, 15, 61}

\* PaymentCalculator's fee and earnings, each rounded, add up to the fare or miss it by a
\* franc; the least fare of the type is kept.
ASSUME CalculatorSplits ==
    \A m \in SomeDistances, minutes \in SomeMinutes, type \in CalculatorTypes \cup RideTypes :
        LET split == CalculateRideFare(m, minutes, type) IN
        /\ Distance(split.platformFee + split.driverEarnings, split.totalFare) <= 1
        /\ 100 * split.totalFare >= TariffOf(type).least

\* What estimateFare quotes is what createRide accepts, and a fare of half as much more is not.
ASSUME EstimatesAccepted ==
    \A m \in SomeDistances, type \in RideTypes :
        LET quoted == EstimateFare(m)[type] IN
        /\ AcceptsFare(m, type, quoted)
        /\ ~AcceptsFare(m, type, quoted + quoted \div 2)

\* The carpool's discount grows with the passengers and never passes a half: together they
\* pay at least half of the price, each no more than a whole one, and the shares of the way
\* lose less than a franc each to rounding.
ASSUME CarpoolPrices ==
    \A m \in SomeDistances, n \in 1..6 :
        LET price == CalculateBasePrice(m)
            pricing == CalculateCarpoolPricing(price, n)
        IN
        /\ DiscountPercent(n) \in 25..50
        /\ 2 * pricing.discountedTotalPrice >= price
        /\ pricing.pricePerPerson <= price
        /\ Distance(n * pricing.pricePerPerson, pricing.discountedTotalPrice) <= n
        /\ pricing.totalSavings + pricing.discountedTotalPrice \in {price, price + 1}

\* What the client is told of a carpool: the estimate and the savings make up an equal part
\* of the price or miss it by a franc, so that the estimate of a shared trip is less than
\* the "minimum possible"; and no figure passes the price of going alone.
ASSUME PricesTold ==
    \A m \in SomeDistances, max \in 0..6, shared \in BOOLEAN :
        LET told == PricingInfo(CalculateBasePrice(m), shared, max) IN
        /\ told.minimumPossiblePrice <= told.maximumPossiblePrice
        /\ shared /\ max > 0 =>
              /\ told.estimatedPricePerPerson < told.minimumPossiblePrice
              /\ Distance(told.estimatedPricePerPerson + told.potentialSavings,
                          told.minimumPossiblePrice) <= 1
        /\ ~shared \/ max = 0 => told.estimatedPricePerPerson = told.priceIfAlone

\* The fee grows with the time since acceptance, and a driver pays none.
ASSUME CancellationFees ==
    \A s \in 0..1000, by \in {"CLIENT", "DRIVER"} :
        CalculateCancellationFee(by, "ACCEPTED", s) <= CalculateCancellationFee("CLIENT", "ACCEPTED", s + 1)

================================================================================
