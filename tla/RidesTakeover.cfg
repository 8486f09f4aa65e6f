CONSTANTS
    Rides = {r1}
    Drivers = {d1, d2}
    Vehicles = {v1, v2}
    Requests = {q1, q2}
    NoOne = NoOne
    StatusOverrides = {}
    ProfileStatuses = {}
    AutoApprove = FALSE
SPECIFICATION Spec
PROPERTY AcceptedWhileAvailable
CHECK_DEADLOCK FALSE
