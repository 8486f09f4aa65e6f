------------------------------- MODULE Earnings -------------------------------
(***************************************************************************)
(* Earnings: a driver's figures.  completeRide adds to totalRides and      *)
(* totalEarnings, the nightly updateDriverEarningsStats overwrites both,   *)
(* and rateRide overwrites rating; each reads in one query what it writes  *)
(* in another.  The driver's own profile edit writes totalRides and rating *)
(* as he likes.                                                            *)
(*                                                                         *)
(* One driver's rides: drivers do not meet here.  How a ride gets its      *)
(* driver, may lose him to another and starts is in Rides, how it is paid  *)
(* in Payments.                                                            *)
(***************************************************************************)
EXTENDS Fares, FiniteSets, FiniteSetsExt

CONSTANTS
    Rides,
    Tasks,          \* requests in progress together
    Lengths,        \* bound: how long rides are, in metres
    Types,          \* bound: of which types
    Claims          \* bound: the totalRides that the driver writes of himself

ASSUME EarningsAssumption ==
    /\ IsFiniteSet(Rides)
    /\ IsFiniteSet(Tasks)
    /\ Lengths \subseteq Nat
    /\ Types \subseteq RideTypes
    /\ Claims \subseteq Nat

VARIABLES
    ride,           \* table rides: "NONE", "STARTED", "COMPLETED", "CANCELED"
    trip,           \* its length and type
    fare,           \* its totalFare; 0: NULL
    paid,           \* whether one of its payments has SUCCEEDED
    rated,          \* table ratings: how many rows the ride has
    \* table driver_profiles
    totalRides,
    totalEarnings,
    averaged,       \* rating: the rows of each ride that the last average stored counts
    task,           \* the requests in progress
    night,          \* the nightly run: the rides it has read as completed and paid
    \* history
    own,            \* the driver has written his rating himself since that average
    overlap         \* two ratings were between reading and writing together

rideVars == <<ride, trip, fare, paid>>
ratingVars == <<rated, averaged, own, overlap>>
earningsVars == <<rideVars, ratingVars, totalRides, totalEarnings, task, night>>

NoRide == "NoRide"
NoTrip == [m |-> 0, type |-> "STANDARD"]
NoCount == [r \in Rides |-> 0]
NoTask == [step |-> "idle", ride |-> NoRide, seen |-> NoCount]
Resting == [on |-> FALSE, rides |-> {}]

EarningsTypeOK ==
    /\ ride \in [Rides -> {"NONE", "STARTED", "COMPLETED", "CANCELED"}]
    /\ trip \in [Rides -> [m : Nat, type : RideTypes]]
    /\ fare \in [Rides -> Nat]
    /\ \A r \in Rides : fare[r] # 0 => AcceptsFare(trip[r].m, trip[r].type, fare[r])
    /\ paid \in [Rides -> BOOLEAN]
    /\ rated \in [Rides -> Nat]
    /\ totalRides \in Nat
    /\ totalEarnings \in Nat
    /\ averaged \in [Rides -> Nat]
    /\ task \in [Tasks -> [step : {"idle", "complete", "rate", "averaged"},
                           ride : Rides \cup {NoRide}, seen : [Rides -> Nat]]]
    /\ night \in [on : BOOLEAN, rides : SUBSET Rides]
    /\ own \in BOOLEAN
    /\ overlap \in BOOLEAN
    /\ \A t \in Tasks : task[t].step # "idle" => ride[task[t].ride] # "NONE"

EarningsInit ==
    /\ ride = [r \in Rides |-> "NONE"]
    /\ trip = [r \in Rides |-> NoTrip]
    /\ fare = [r \in Rides |-> 0]
    /\ paid = [r \in Rides |-> FALSE]
    /\ rated = NoCount
    /\ totalRides = 0
    /\ totalEarnings = 0
    /\ averaged = NoCount
    /\ task = [t \in Tasks |-> NoTask]
    /\ night = Resting
    /\ own = FALSE
    /\ overlap = FALSE

Begin(t, step, r) ==
    /\ task[t].step = "idle"
    /\ task' = [task EXCEPT ![t] = [NoTask EXCEPT !.step = step, !.ride = r]]
End(t) == task' = [task EXCEPT ![t] = NoTask]

-------------------------------------------------------------------------------
(* Rides come, end and are paid *)

NewRide(r, m, type, f) ==
    /\ ride[r] = "NONE"
    /\ ride' = [ride EXCEPT ![r] = "STARTED"]
    /\ trip' = [trip EXCEPT ![r] = [m |-> m, type |-> type]]
    /\ fare' = [fare EXCEPT ![r] = f]
    /\ UNCHANGED <<paid, ratingVars, totalRides, totalEarnings, task, night>>

\* The figures a client may send: the least that passes, and one too many.
Offers(m, type) ==
    LET estimate == EstimateFare(m)[type] IN
    {estimate - (estimate \div 20), estimate + (estimate \div 20) + 1}

CreateRide(r) ==
    \E m \in Lengths, type \in Types : \E f \in Offers(m, type) :
        AcceptsFare(m, type, f) /\ NewRide(r, m, type, f)

\* A ride made from a reservation has no totalFare.
ConvertedRide(r) == \E m \in Lengths : NewRide(r, m, "STANDARD", 0)

PaidIs(r, p) ==
    /\ ride[r] # "NONE"
    /\ paid' = [paid EXCEPT ![r] = p]
    /\ UNCHANGED <<trip, fare, ratingVars, totalRides, totalEarnings, task, night>>

\* By markAsSucceeded, processPayment or a webhook: see Payments.
PaymentSucceeds(r) == PaidIs(r, TRUE) /\ UNCHANGED ride

\* Refunded, or overwritten by a late processPayment that failed: the ride stays as it is.
PaymentRefunded(r) == PaidIs(r, FALSE) /\ UNCHANGED ride

\* markAsFailed cancels the ride whatever its status.  Another payment of it may have
\* succeeded, and stays so.
PaymentFails(r) ==
    /\ PaidIs(r, FALSE) \/ PaidIs(r, paid[r])
    /\ ride' = [ride EXCEPT ![r] = "CANCELED"]

\* By cancelRide, which may have read it before it was completed, or with its reservation.
CancelRide(r) ==
    /\ ride[r] # "NONE"
    /\ ride' = [ride EXCEPT ![r] = "CANCELED"]
    /\ UNCHANGED <<trip, fare, paid, ratingVars, totalRides, totalEarnings, task, night>>

\* (variant) any ride
CompleteReadAnyStatus(t, r) ==
    /\ Begin(t, "complete", r)
    /\ UNCHANGED <<rideVars, ratingVars, totalRides, totalEarnings, night>>

CompleteRead(t, r) ==
    /\ ride[r] = "STARTED"
    /\ Begin(t, "complete", r)
    /\ UNCHANGED <<rideVars, ratingVars, totalRides, totalEarnings, night>>

\* One transaction that does not look at the status again: completed twice, a ride is
\* added twice.  Without a fare it is not added at all.
CompleteCommit(t) ==
    LET r == task[t].ride
        earnings == DriverEarnings(fare[r])
    IN
    /\ task[t].step = "complete"
    /\ ride' = [ride EXCEPT ![r] = "COMPLETED"]
    /\ totalRides' = IF earnings # 0 THEN totalRides + 1 ELSE totalRides
    /\ totalEarnings' = totalEarnings + earnings
    /\ End(t)
    /\ UNCHANGED <<trip, fare, paid, ratingVars, night>>

-------------------------------------------------------------------------------
(* updateDriverEarningsStats, every night at two *)

PaidRides == {r \in Rides : ride[r] = "COMPLETED" /\ paid[r]}
SumEarnings(rs) == MapThenSumSet(LAMBDA r : DriverEarnings(fare[r]), rs)

\* The aggregate: completed rides with a payment that succeeded, fare or none.
NightlyRead ==
    /\ ~night.on
    /\ night' = [on |-> TRUE, rides |-> PaidRides]
    /\ UNCHANGED <<rideVars, ratingVars, totalRides, totalEarnings, task>>

\* (variant) added to what is there
NightlyWriteAdds ==
    /\ night.on
    /\ totalRides' = totalRides + Cardinality(night.rides)
    /\ totalEarnings' = totalEarnings + SumEarnings(night.rides)
    /\ night' = Resting
    /\ UNCHANGED <<rideVars, ratingVars, task>>

\* Written as they are, whatever was added meanwhile.
NightlyWrite ==
    /\ night.on
    /\ totalRides' = Cardinality(night.rides)
    /\ totalEarnings' = SumEarnings(night.rides)
    /\ night' = Resting
    /\ UNCHANGED <<rideVars, ratingVars, task>>

NightlyFail ==
    /\ night.on
    /\ night' = Resting
    /\ UNCHANGED <<rideVars, ratingVars, totalRides, totalEarnings, task>>

Completed == {r \in Rides : ride[r] = "COMPLETED"}

\* The report of a driver adds his completed rides up and gives the stored count beside
\* them.  It looks for payments that succeeded, and counts a ride without one as well.
GetDriverEarnings ==
    [ridesCount |-> Cardinality(Completed), totalEarnings |-> SumEarnings(Completed),
     driver |-> [totalRides |-> totalRides]]

-------------------------------------------------------------------------------
(* rateRide, and the driver's own word *)

\* The driver edits his profile: either of the two figures, both or none.
UpdateDriverProfile ==
    /\ totalRides' \in Claims \cup {totalRides}
    /\ own' \in {own, TRUE}
    /\ UNCHANGED <<rideVars, rated, averaged, overlap, totalEarnings, task, night>>

RateRead(t, r) ==
    /\ ride[r] = "COMPLETED"
    /\ rated[r] = 0
    /\ Begin(t, "rate", r)
    /\ UNCHANGED <<rideVars, ratingVars, totalRides, totalEarnings, night>>

Averaging == {t \in Tasks : task[t].step = "averaged"}

\* (variant) the average is taken before the row is made
RateAverageFirst(t) ==
    /\ task[t].step = "rate"
    /\ task' = [task EXCEPT ![t].step = "averaged", ![t].seen = rated]
    /\ overlap' = (overlap \/ Averaging # {})
    /\ UNCHANGED <<rideVars, rated, averaged, own, totalRides, totalEarnings, night>>

\* In the transaction: the new row, and the average of it and of the rows committed by
\* others; those that others have made and not committed cannot be seen.
RateAverage(t) ==
    /\ task[t].step = "rate"
    /\ task' = [task EXCEPT ![t].step = "averaged",
                            ![t].seen = [rated EXCEPT ![task[t].ride] = @ + 1]]
    /\ overlap' = (overlap \/ Averaging # {})
    /\ UNCHANGED <<rideVars, rated, averaged, own, totalRides, totalEarnings, night>>

\* The driver's row, and the commit.
RateCommit(t) ==
    /\ task[t].step = "averaged"
    /\ rated' = [rated EXCEPT ![task[t].ride] = @ + 1]
    /\ averaged' = task[t].seen
    /\ own' = FALSE
    /\ End(t)
    /\ UNCHANGED <<rideVars, overlap, totalRides, totalEarnings, night>>

\* A refused write, a lost connection or a stopped process: the transaction is undone.
Fail(t) ==
    /\ task[t].step # "idle"
    /\ End(t)
    /\ UNCHANGED <<rideVars, ratingVars, totalRides, totalEarnings, night>>

TaskStep(t) == CompleteCommit(t) \/ RateAverage(t) \/ RateCommit(t) \/ Fail(t)

EarningsNext ==
    \/ \E r \in Rides :
          \/ CreateRide(r) \/ ConvertedRide(r) \/ CancelRide(r)
          \/ PaymentSucceeds(r) \/ PaymentRefunded(r) \/ PaymentFails(r)
    \/ \E t \in Tasks, r \in Rides : CompleteRead(t, r) \/ RateRead(t, r)
    \/ \E t \in Tasks : TaskStep(t)
    \/ NightlyRead \/ NightlyWrite \/ NightlyFail
    \/ UpdateDriverProfile

EarningsSpec == EarningsInit /\ [][EarningsNext]_earningsVars

\* Requests end; the nightly run is started every night, and does not fail every night.
FairEarningsSpec ==
    /\ EarningsSpec
    /\ \A t \in Tasks : WF_earningsVars(TaskStep(t))
    /\ WF_earningsVars(NightlyRead)
    /\ SF_earningsVars(NightlyWrite)

-------------------------------------------------------------------------------
(* Properties *)

\* A completion committed between the nightly run's two queries is lost from the totals,
\* one completed twice is in them twice, an unpaid one or one canceled since is in them
\* until night, and a totalRides of the driver's own making as well.  While the paid rides
\* stay the same, whatever else is completed, one night after the other makes the totals
\* theirs again, and in between no earnings of theirs are missing.  The driver's report then
\* shows more than the totals, by the completed rides that no payment settles.
TotalsHeal ==
    \A rs \in SUBSET Rides :
        <>[](PaidRides = rs) =>
            /\ []<>(LET report == GetDriverEarnings
                        unpaid == Completed \ rs
                    IN
                    /\ totalRides = Cardinality(rs)
                    /\ totalEarnings = SumEarnings(rs)
                    /\ report.totalEarnings = totalEarnings + SumEarnings(unpaid)
                    /\ report.ridesCount = report.driver.totalRides + Cardinality(unpaid))
            /\ <>[](totalEarnings >= SumEarnings(rs))

\* Requests that read a ride before its first rating all rate it, and no more than they.
\* The driver's rating counts every row, unless he has written it himself since, or two
\* ratings were in progress together: then it may have missed one, and no night mends it.
RatingsCounted ==
    /\ \A r \in Rides :
        rated[r] + Cardinality({t \in Tasks : task[t].step \in {"rate", "averaged"}
                                              /\ task[t].ride = r}) <= Cardinality(Tasks)
    /\ \A r \in Rides : averaged[r] <= rated[r]
    /\ ~overlap /\ ~own => averaged = rated

================================================================================
