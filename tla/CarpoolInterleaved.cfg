CONSTANTS
    Carpools = {b1}
    Asks = {a1, a2}
    Seats = {s1, s2}
    Clients = {c1, c2}
    MaxSeats = 1
    Tasks = {t1, t2}
    NoOne = NoOne
SPECIFICATION FairCarpoolSpec
INVARIANTS SeatsCounted AcceptedIsAboard PricesSettle ViewsAgree
PROPERTY SeatGetsFare
CHECK_DEADLOCK FALSE
