SPECIFICATION FairMCEarningsSpec
CONSTANTS
    Rides = {r1, r2}
    Tasks = {t1, t2}
    Lengths = {2000}
    Types = {"STANDARD", "VIP"}
    Claims = {0, 5}
INVARIANTS
    EarningsTypeOK
    RatingsCounted
PROPERTIES
    TotalsHeal
CHECK_DEADLOCK FALSE
