CONSTANTS
    Rides = {r1, r2}
    Drivers = {d1, d2}
    Vehicles = {v1, v2}
    Requests = {q1}
    NoOne = NoOne
    StatusOverrides = {"MAINTENANCE"}
    ProfileStatuses = {}
    AutoApprove = FALSE
SPECIFICATION Spec
INVARIANTS ExclusiveVehicle NoVehicleLeak PaidExactlyOnce
PROPERTY ImplementsDispatch
SYMMETRY Symmetry
CHECK_DEADLOCK FALSE
