CONSTANTS
    Rides = {r1, r2}
    Drivers = {d1}
    Vehicles = {v1}
    Requests = {q1}
    NoOne = NoOne
    StatusOverrides = {}
    ProfileStatuses = {}
    AutoApprove = FALSE
    Reservations = {b1}
    Payments = {p1}
    Tasks = {t1}
    Crashes = FALSE
    OwnWritesVisible = TRUE
SPECIFICATION PaymentsSpec
INVARIANT FulfilledIsLinked
PROPERTIES NeverOfferedAgain RefundsPaidPayments ImplementsBooking
CHECK_DEADLOCK FALSE
