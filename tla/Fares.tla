--------------------------------- MODULE Fares ---------------------------------
(***************************************************************************)
(* Fares: what RidesService, PaymentCalculator and CarpoolPricingService   *)
(* make of a distance.                                                     *)
(*                                                                         *)
(* Amounts are in hundredths of a franc, as the columns keep them, and     *)
(* distances in metres; every rate is a whole number of hundredths for a   *)
(* metre.  The code computes in doubles and rounds with Math.round; here   *)
(* the sums are exact and the rounding is the same, halves up.             *)
(***************************************************************************)
EXTENDS Integers

\* Math.round(a / b)
RoundDiv(a, b) == (2 * a + b) \div (2 * b)

ToFranc(x) == RoundDiv(x, 100)
Percent(p, x) == RoundDiv(p * x, 100)
Distance(x, y) == IF x < y THEN y - x ELSE x - y

-------------------------------------------------------------------------------
(* RidesService: what a ride costs *)

RideTypes == {"STANDARD", "PREMIUM", "VIP"}

PerMetre(type) ==
    CASE type = "PREMIUM" -> 20
      [] type = "VIP" -> 30
      [] OTHER -> 15

\* calculateFare
CalculateFare(m, type) == 50000 + m * PerMetre(type)

\* estimateFare: one price for each type.
EstimateFare(m) == [type \in RideTypes |-> CalculateFare(m, type)]

\* createRide takes the client's figure if it is within five per cent of its own.
AcceptsFare(m, type, fare) == 20 * Distance(fare, CalculateFare(m, type)) <= CalculateFare(m, type)

\* completeRide: fifteen per cent of totalFare, and the rest, each rounded by its column.
DriverEarnings(fare) == Percent(85, fare)

-------------------------------------------------------------------------------
(* PaymentCalculator *)

CalculatorTypes == {"STANDARD", "PREMIUM", "SHARED", "VAN"}

\* base, for a metre, for a minute, least
Tariff == [
    STANDARD |-> [base |-> 50000, metre |-> 20, minute |-> 5000, least |-> 100000],
    PREMIUM |-> [base |-> 80000, metre |-> 35, minute |-> 8000, least |-> 150000],
    SHARED |-> [base |-> 30000, metre |-> 15, minute |-> 3000, least |-> 80000],
    VAN |-> [base |-> 100000, metre |-> 25, minute |-> 6000, least |-> 200000]]

\* Types the table does not name, like the rides' own VIP, cost as STANDARD.
TariffOf(type) == IF type \in CalculatorTypes THEN Tariff[type] ELSE Tariff["STANDARD"]

FareBeforeRounding(m, minutes, type) ==
    LET t == TariffOf(type)
        subtotal == t.base + m * t.metre + minutes * t.minute
    IN IF subtotal < t.least THEN t.least ELSE subtotal

\* Fee and earnings are rounded apart.
CalculateRideFare(m, minutes, type) ==
    LET total == FareBeforeRounding(m, minutes, type) IN
    [totalFare |-> ToFranc(total),
     platformFee |-> RoundDiv(15 * total, 10000),
     driverEarnings |-> RoundDiv(85 * total, 10000)]

\* seconds since the ride was accepted; 0 or none: not known
CalculateCancellationFee(canceledBy, status, seconds) ==
    CASE canceledBy = "DRIVER" -> 0
      [] status = "ACCEPTED" /\ seconds > 0 ->
            IF seconds < 300 THEN 0 ELSE IF seconds < 900 THEN 500 ELSE 1000
      [] status = "IN_PROGRESS" -> 2000
      [] OTHER -> 0

-------------------------------------------------------------------------------
(* CarpoolPricingService, with the rates it takes when none is configured *)

\* calculateBasePrice, in francs
CalculateBasePrice(m) == ToFranc(50000 + m * 15)
BasePlatformFee(m) == RoundDiv(15 * (50000 + m * 15), 10000)

\* calculateDriverEarnings, of whole francs: again each is rounded apart
CarpoolFee(collected) == Percent(15, collected)
CarpoolEarnings(collected) == Percent(85, collected)

\* calculateCarpoolPriceYango: a passenger pays for their part of the way
FareShare(price, m, total) == RoundDiv(price * m, total)

\* calculateCarpoolPricing: a quarter off, a tenth more for each further passenger, at
\* most a half
DiscountPercent(n) == IF n < 4 THEN 15 + 10 * n ELSE 50
CalculateCarpoolPricing(price, n) ==
    LET off == DiscountPercent(n) IN
    [discountedTotalPrice |-> Percent(100 - off, price),
     pricePerPerson |-> RoundDiv((100 - off) * price, 100 * n),
     totalSavings |-> Percent(off, price),
     savingsPerPerson |-> RoundDiv(off * price, 100 * n)]

\* createCarpoolReservation's pricingInfo, of a price in whole francs: the least possible
\* is an equal part of the price, the estimate an equal part of the discounted one.
PricingInfo(price, isSharedRide, maxPassengers) ==
    LET shared == isSharedRide /\ maxPassengers > 0
        pricing == CalculateCarpoolPricing(price, maxPassengers + 1)
    IN
    [priceIfAlone |-> price,
     estimatedPricePerPerson |->
        IF shared /\ pricing.pricePerPerson # 0 THEN pricing.pricePerPerson ELSE price,
     minimumPossiblePrice |-> IF shared THEN RoundDiv(price, maxPassengers + 1) ELSE price,
     maximumPossiblePrice |-> price,
     potentialSavings |-> IF shared THEN pricing.savingsPerPerson ELSE 0,
     maxPassengers |-> maxPassengers + 1,
     availableSeats |-> maxPassengers]

================================================================================
