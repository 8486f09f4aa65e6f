------------------------------ MODULE MCTracking ------------------------------
(***************************************************************************)
(* Tracking for TLC, and the operators of Geography over bounded inputs.   *)
(***************************************************************************)
EXTENDS Tracking, Geography

\* A zone that is a rectangle holds its lower and western edges and not the others, in
\* whatever sense its ring is drawn and whether or not the ring repeats its first corner.
Rectangle(s, w, n, e) == <<Point(s, w), Point(s, e), Point(n, e), Point(n, w)>>

ASSUME RectanglesHoldTheirPoints ==
    \A s, w \in 1..2, n, e \in 3..4 : \A lat, lng \in 0..5 :
        LET point == Point(lat, lng)
            ring == Rectangle(s, w, n, e)
            inside == s <= lat /\ lat < n /\ w <= lng /\ lng < e
        IN
        /\ IsPointInZone(point, ring) <=> inside
        /\ IsPointInZone(point, Reverse(ring)) <=> inside
        /\ IsPointInZone(point, Append(ring, ring[1])) <=> inside

\* Zones that share an edge share no point and leave none out: four corners in convex
\* position, cut by a diagonal.
ASSUME NeighboursShareNoPoint ==
    \A a \in 0..2, b, c \in 2..3 : \A lat, lng \in 0..4 :
        LET ring == <<Point(0, a), Point(a, 4), Point(4, b), Point(c, 0)>>
            point == Point(lat, lng)
            zone(corners) == [isActive |-> TRUE, geometry |-> corners]
            zones == <<zone(<<ring[1], ring[2], ring[3]>>), zone(<<ring[1], ring[3], ring[4]>>)>>
            found == FindZoneByLocation(zones, point)
        IN
        /\ Cardinality(found) <= 1
        /\ found # {} <=> IsPointInZone(point, ring)
        /\ FindZoneByLocation(DeleteZone(zones, 1), point) = found \ {1}
        /\ 1 \in FindZoneByLocation(UpdateZone(zones, 1, ring), point)
              <=> IsPointInZone(point, ring)

\* Of at most three times as many drivers as are asked for, the nearest are given, nearest
\* first; of more, the nearest may be left out.
Places == {Point(0, lng) : lng \in {0, 1, 2, 5}}
DriversAt(places) == [i \in DOMAIN places |-> [at |-> places[i]]]
Sorted(rows, at) ==
    \A i, j \in DOMAIN rows : i < j => Metres(at, rows[i].at) <= Metres(at, rows[j].at)

ASSUME NearestDriversFound ==
    LET at == Point(0, 0) IN
    /\ \A places \in BoundedSeq(Places, 5), limit \in 1..2 :
          LET rows == DriversAt(places)
              near == FindNearbyDrivers(rows, at, 2, limit)
              given == {i \in DOMAIN rows : \E j \in DOMAIN near : near[j] = rows[i]}
          IN
          /\ Len(near) <= limit
          /\ Sorted(near, at)
          /\ \A i \in given : Metres(at, rows[i].at) <= 2
          /\ Len(rows) <= 3 * limit /\ Len(near) < limit =>
                \A i \in DOMAIN rows \ given : Metres(at, rows[i].at) > 2
          /\ Len(rows) <= 3 * limit /\ near # << >> =>
                \A i \in DOMAIN rows \ given :
                    Metres(at, rows[i].at) >= Metres(at, near[Len(near)].at)
    /\ \E places \in BoundedSeq(Places, 4) :
          /\ at \in {places[i] : i \in DOMAIN places}
          /\ FindNearbyDrivers(DriversAt(places), at, 2, 1) = << >>

\* Who follows a ride is never told fewer minutes than who looks for a driver, and no fewer
\* for a longer way.
ASSUME MinutesAgree ==
    \A metres \in 0..6000 :
        /\ CalculateETA(metres) >= EstimateDuration(metres)
        /\ CalculateETA(metres) <= CalculateETA(metres + 1)
        /\ CalculateETA(metres) >= 2

\* A popular place anywhere is taken before a near one: where three others are popular, or
\* rated higher or not at all, however far, a place next door is not found.
Poi(at, popular, rating) ==
    [at |-> at, isActive |-> TRUE, isPopular |-> popular, rating |-> rating, category |-> "HOTEL"]

ASSUME PopularPlacesFirst ==
    \A ratings \in [1..3 -> {NoRating, 3, 5}] : \A popular \in SUBSET (1..3) :
        LET far == [i \in 1..3 |-> Poi(Point(9, 9), i \in popular, ratings[i])]
            near == Poi(Point(0, 0), FALSE, 4)
            found == FindNearby(Append(far, near), Point(0, 0), 2, "any", 1)
            all == FindByCategory(Append(far, near), "HOTEL")
            shown == FindPopular(far, 2)
        IN
        /\ found = <<near>> <=> \E i \in (1..3) \ popular : ratings[i] = 3
        /\ \A i, j \in DOMAIN all : all[i].isPopular /\ ~all[j].isPopular => i < j
        /\ \A i \in DOMAIN shown : shown[i].isPopular
        /\ \A i \in 1..3 : i \in popular /\ ratings[i] = NoRating => shown[1].rating = NoRating

\* No detour is negative, a longer one never scores better, and the time shown is within
\* half a minute of the one scored.
Corners == {Point(lat, lng) : lat \in {0, 4000}, lng \in {0, 2500, 5100}}
Trip(from, to) ==
    [from |-> from, to |-> to, isSharedRide |-> TRUE, seats |-> 2, taken |-> 1,
     status |-> "CONFIRMED", scheduledAt |-> 0, sharedPricePerPerson |-> 0, basePrice |-> 900]

ASSUME DetoursScored ==
    \A from, to, p, q \in Corners :
        LET trip == Trip(from, to)
            passenger == [from |-> p, to |-> q]
            more == Detour(trip, passenger)
            way == RouteCompatibility(trip, passenger)
        IN
        /\ more >= 0
        /\ p = from /\ q = to => more = 0
        /\ Apart(500 * way.additionalTime, more) <= 250
        /\ \A r \in Corners :
              Detour(trip, [from |-> r, to |-> q]) > more
                  => RouteCompatibility(trip, [from |-> r, to |-> q]).score <= way.score

\* Found carpools have a seat left and start in the box, best scores first; as the filter
\* looks at the rounded time, one of more than twenty minutes, "difficult" by its score, may
\* pass a filter of twenty.
Search(p, q, longest) ==
    [from |-> p, to |-> q, radius |-> 0, scheduledAt |-> 30, maxDetourMinutes |-> longest]

ASSUME SearchesFind ==
    \* The trips are rounds, so that the detour is there and back.
    LET starts == {Point(1, 1), Point(0, 1), Point(3000, 2101), Point(3000, 2225), Point(6000, 1)}
        trips(a, b) == <<Trip(a, a), [Trip(b, b) EXCEPT !.sharedPricePerPerson = 300],
                         [Trip(a, a) EXCEPT !.taken = 2]>>
        found(a, b, longest) == SearchCarpool(trips(a, b), Search(Point(1, 1), Point(1, 1), longest))
    IN
    /\ \A a, b \in starts, longest \in {0, 5, 20, 60} :
          LET results == found(a, b, longest) IN
          /\ \A i \in DOMAIN results :
                LET r == results[i] IN
                /\ r.availableSeats > 0
                /\ r.distanceToPickup <= 10000
                /\ r.estimatedFare + r.savings = r.trip.basePrice
                /\ r.compatibility.additionalTime <= (IF longest = 0 THEN 20 ELSE longest)
          /\ \A i, j \in DOMAIN results :
                i < j => results[i].compatibility.score >= results[j].compatibility.score
    /\ \E a, b \in starts : \E i \in DOMAIN found(a, b, 20) :
          found(a, b, 20)[i].compatibility.score = 3

================================================================================
