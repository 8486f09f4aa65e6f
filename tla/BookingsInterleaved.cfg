CONSTANTS
    Rides = {r1, r2}
    Drivers = {d1}
    Vehicles = {v1}
    Requests = {}
    NoOne = NoOne
    StatusOverrides = {}
    ProfileStatuses = {}
    AutoApprove = FALSE
    Reservations = {b1, b2}
    Payments = {p1}
    Tasks = {t1, t2}
    Crashes = TRUE
    OwnWritesVisible = TRUE
SPECIFICATION PaymentsSpec
INVARIANT ConversionsMatch
SYMMETRY Symmetry
CHECK_DEADLOCK FALSE
