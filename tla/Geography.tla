----------------------------- MODULE Geography -----------------------------
(***************************************************************************)
(* Geography: what the services of locations, the calculation of routes    *)
(* and the search for carpools make of positions.  No state of its own:    *)
(* every operator takes the rows that a query has returned, in the order   *)
(* in which it returned them.                                              *)
(*                                                                         *)
(* Positions are points of a flat map, in metres.  The services measure    *)
(* along great circles; here the distance is that of a grid, which shares  *)
(* what is used of it: it is a metric, and no smaller than the difference  *)
(* of either coordinate.                                                   *)
(***************************************************************************)
EXTENDS Integers, FiniteSets, SequencesExt

Point(lat, lng) == [lat |-> lat, lng |-> lng]
Apart(x, y) == IF x < y THEN y - x ELSE x - y

\* calculateDistance
Metres(p, q) == Apart(p.lat, q.lat) + Apart(p.lng, q.lng)

\* Math.round(a / b)
Rounded(a, b) == (2 * a + b) \div (2 * b)

FirstOf(rows, n) == SubSeq(rows, 1, IF n < Len(rows) THEN n ELSE Len(rows))

\* Array.sort and ORDER BY, rows alike staying in their order.
SortedBy(rows, Before(_, _)) ==
    LET order == SetToSortSeq(DOMAIN rows, LAMBDA i, j :
                    Before(rows[i], rows[j]) \/ (~Before(rows[j], rows[i]) /\ i < j))
    IN [i \in DOMAIN rows |-> rows[order[i]]]

-------------------------------------------------------------------------------
(* Service zones *)

\* isPointInZone: the edges of the ring, from each corner to the one before, that a ray
\* from the point to the east meets.
IsPointInZone(point, ring) ==
    LET before(i) == IF i = 1 THEN Len(ring) ELSE i - 1
        meets(i) ==
            LET a == ring[i]
                b == ring[before(i)]
                rise == b.lat - a.lat
                east == (point.lng - a.lng) * rise
                edge == (b.lng - a.lng) * (point.lat - a.lat)
            IN  /\ (a.lat > point.lat) # (b.lat > point.lat)
                \* east / rise < edge / rise
                /\ IF rise > 0 THEN east < edge ELSE east > edge
    IN Cardinality({i \in DOMAIN ring : meets(i)}) % 2 = 1

\* The first active zone that holds the point, in an order the query does not name.
FindZoneByLocation(zones, point) ==
    {z \in DOMAIN zones : zones[z].isActive /\ IsPointInZone(point, zones[z].geometry)}

UpdateZone(zones, z, geometry) == [zones EXCEPT ![z].geometry = geometry]
\* The row stays, for the drivers' rows that name it.
DeleteZone(zones, z) == [zones EXCEPT ![z].isActive = FALSE]

-------------------------------------------------------------------------------
(* Who and what is near.  Three times as many rows are taken as are asked for, before *)
(* anything is measured. *)

Nearest(rows, at, radius, limit) ==
    LET within(row) == Metres(at, row.at) <= radius IN
    FirstOf(SortedBy(SelectSeq(FirstOf(rows, 3 * limit), within),
                     LAMBDA r, s : Metres(at, r.at) < Metres(at, s.at)), limit)

\* Of the drivers whose rows Tracking's Nearby lets pass, in no certain order.
FindNearbyDrivers(rows, at, radius, limit) == Nearest(rows, at, radius, limit)

NoRating == -1
\* PostgreSQL puts NULL first in a descending order.
RatedBefore(p, q) ==
    p.rating # q.rating /\ (p.rating = NoRating \/ (q.rating # NoRating /\ p.rating > q.rating))
PopularBefore(p, q) ==
    IF p.isPopular = q.isPopular THEN RatedBefore(p, q) ELSE p.isPopular

\* The most popular ones of the whole table, and of those the near ones.
FindNearby(pois, at, radius, category, limit) ==
    LET wanted(p) == p.isActive /\ category \in {"any", p.category}
    IN Nearest(SortedBy(SelectSeq(pois, wanted), PopularBefore), at, radius, limit)

FindPopular(pois, limit) ==
    LET wanted(p) == p.isActive /\ p.isPopular
    IN FirstOf(SortedBy(SelectSeq(pois, wanted), RatedBefore), limit)

\* Takes the category in any letters and puts it in capitals, as FindNearby does not.
FindByCategory(pois, category) ==
    LET wanted(p) == p.isActive /\ p.category = category
    IN SortedBy(SelectSeq(pois, wanted), PopularBefore)

-------------------------------------------------------------------------------
(* Minutes *)

\* estimateDuration, told with each driver nearby: at 30 km/h.
EstimateDuration(metres) == Rounded(metres, 500)

\* calculateETA, told to who follows a ride: at 25 km/h, begun minutes counted whole.
CalculateETA(metres) ==
    LET minutes == (3 * metres + 1249) \div 1250 IN IF minutes < 2 THEN 2 ELSE minutes

-------------------------------------------------------------------------------
(* Routes *)

\* getRoute: in metres and seconds, at 30 km/h.
GetRoute(from, to) ==
    [distance |-> Metres(from, to), duration |-> Rounded(3 * Metres(from, to), 25)]

\* What the trip gains when its driver takes the passenger from and to his own places.
Detour(trip, passenger) ==
    Metres(trip.from, passenger.from) + Metres(passenger.from, passenger.to)
        + Metres(passenger.to, trip.to) - GetRoute(trip.from, trip.to).distance

\* calculateRouteCompatibility: a minute for 500 metres.  The score is that of the time
\* before it is rounded.
RouteCompatibility(trip, passenger) ==
    LET more == Detour(trip, passenger) IN
    [score |-> CASE more <= 10 * 500 -> 10
                 [] more > 10 * 500 /\ more <= 15 * 500 -> 8
                 [] more > 15 * 500 /\ more <= 20 * 500 -> 6
                 [] OTHER -> 3,
     additionalTime |-> Rounded(more, 500),
     additionalDistance |-> Rounded(more, 1000)]

\* searchCarpool: the query's own conditions.  Its box is as wide as it is high; a search
\* without a radius has one of five kilometres.
InBox(trip, search) ==
    LET radius == IF search.radius = 0 THEN 5000 ELSE search.radius IN
    /\ Apart(trip.from.lat, search.from.lat) <= radius
    /\ Apart(trip.from.lng, search.from.lng) <= radius

Offered(trip, search) ==
    /\ trip.isSharedRide
    /\ trip.taken < trip.seats
    /\ trip.status = "CONFIRMED"
    /\ Apart(trip.scheduledAt, search.scheduledAt) <= 30
    /\ InBox(trip, search)

\* A coordinate that is 0 counts as none, and an amount too.
Located(trip) == trip.from.lat # 0 /\ trip.from.lng # 0
OrElse(amount, other) == IF amount # 0 THEN amount ELSE other

SearchCarpool(trips, search) ==
    LET offered(trip) == Offered(trip, search) /\ Located(trip)
        found(trip) ==
            [trip |-> trip,
             compatibility |-> RouteCompatibility(trip, search),
             distanceToPickup |-> Metres(search.from, trip.from),
             estimatedFare |-> OrElse(trip.sharedPricePerPerson, trip.basePrice),
             availableSeats |-> trip.seats - trip.taken,
             savings |-> trip.basePrice - OrElse(trip.sharedPricePerPerson, trip.basePrice)]
        longest == OrElse(search.maxDetourMinutes, 20)
        results == SelectSeq(trips, offered)
    IN SortedBy(SelectSeq([i \in DOMAIN results |-> found(results[i])],
                          LAMBDA r : r.compatibility.additionalTime <= longest),
                LAMBDA r, s : r.compatibility.score > s.compatibility.score)

================================================================================
