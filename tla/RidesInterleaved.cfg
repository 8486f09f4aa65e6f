CONSTANTS
    Rides = {r1}
    Drivers = {d1, d2}
    Vehicles = {v1, v2}
    Requests = {q1, q2}
    NoOne = NoOne
    StatusOverrides = {"AVAILABLE", "MAINTENANCE"}
    ProfileStatuses = {"SUSPENDED"}
    AutoApprove = TRUE
SPECIFICATION Spec
INVARIANTS TypeOK AssignmentConsistent PaidForTrips
PROPERTY NeverOfferedAgain
SYMMETRY Symmetry
CHECK_DEADLOCK FALSE
