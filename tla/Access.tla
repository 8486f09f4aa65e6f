------------------------------- MODULE Access -------------------------------
(***************************************************************************)
(* Access: which rows a user is shown, may open and may change.  Rides,    *)
(* vehicles, reservations and profiles each ask in their own way, so that  *)
(* what one service lists another must not refuse, and what they count     *)
(* must be the same rows.                                                  *)
(*                                                                         *)
(* No state of its own: every operator takes the tables (db) as its        *)
(* queries find them.  What changes between two queries is in Listings,    *)
(* what is changed in the modules of each service.                         *)
(***************************************************************************)
EXTENDS Naturals, FiniteSets

NoDriver == "NULL"

\* JwtStrategy.validate, on every request: the user the token names, as he is by now.
Validate(db, id) == {u \in db.users : u.id = id /\ u.isActive}

\* RolesGuard: a route that names no roles is for everybody.
CanActivate(user, roles) == roles = {} \/ user.role \in roles

\* The ids of his profiles; userId is unique in both tables.
ClientOf(db, user) == {p.id : p \in {q \in db.clients : q.user = user.id}}
DriverOf(db, user) == {p.id : p \in {q \in db.drivers : q.user = user.id}}

-------------------------------------------------------------------------------
(* Rides *)

\* Whoever lacks the profile of his role is shown the rides of all.
FindUserRides(db, user) ==
    {r \in db.rides :
        /\ user.role = "CLIENT" /\ ClientOf(db, user) # {} => r.client \in ClientOf(db, user)
        /\ user.role = "DRIVER" /\ DriverOf(db, user) # {} => r.driver \in DriverOf(db, user)}

FindRideById(db, user, r) ==
    \/ user.role = "ADMIN"
    \/ user.role = "CLIENT" /\ r.client \in ClientOf(db, user)
    \/ user.role = "DRIVER" /\ r.driver \in DriverOf(db, user)

\* For its tracking, by the profiles alone.
ValidateRideAccess(db, user, r) ==
    \/ user.role = "ADMIN"
    \/ r.client \in ClientOf(db, user)
    \/ r.driver \in DriverOf(db, user)

-------------------------------------------------------------------------------
(* Vehicles *)

FindAllVehicles(db, user) ==
    {v \in db.vehicles :
        \/ user.role = "ADMIN"
        \/ user.role = "DRIVER" /\ v.driver \in DriverOf(db, user)}

\* The service looks at drivers only; the route names no roles.
FindVehicle(db, user, v) == user.role = "DRIVER" => v.driver \in DriverOf(db, user)

\* update, and in the same way updateStatus.
UpdateVehicle(db, user, v) ==
    CanActivate(user, {"DRIVER", "ADMIN"}) /\ FindVehicle(db, user, v)

-------------------------------------------------------------------------------
(* Reservations *)

FindAllReservations(db, user, statuses) ==
    {b \in db.reservations :
        /\ b.status \in statuses
        /\ user.role = "CLIENT" => b.client \in ClientOf(db, user)}

FindReservation(db, user, b) == user.role = "CLIENT" => b.client \in ClientOf(db, user)

\* create: 500, and 200 for a kilometre; null when no distance, or one of 0, is given.
Quote(distance) == IF distance = 0 THEN 0 ELSE 500 + 200 * distance

MayUpdateReservation(db, user, b, scheduledAt, now) ==
    /\ CanActivate(user, {"CLIENT", "ADMIN"})
    /\ FindReservation(db, user, b)
    /\ b.status = "PENDING"
    /\ scheduledAt > now

\* The columns that the request names, as they are: nothing is computed again.
UpdateReservation(b, scheduledAt, distance) ==
    [b EXCEPT !.scheduledAt = scheduledAt, !.estimatedDistance = distance]

-------------------------------------------------------------------------------
(* Profiles *)

CheckUserAccess(user, profile) == user.role = "ADMIN" \/ profile.user = user.id

\* A second creation is answered with the profile there is.
CreateClientProfile(db, user, id) ==
    IF user.role = "CLIENT" /\ ClientOf(db, user) = {}
    THEN [db EXCEPT !.clients = @ \cup {[id |-> id, user |-> user.id]}]
    ELSE db

\* What is counted beside the profile.
GetClientProfile(db, profile) ==
    [reservations |-> Cardinality({b \in db.reservations : b.client = profile.id}),
     rides |-> Cardinality({r \in db.rides : r.client = profile.id})]

GetDriverProfile(db, profile) ==
    [vehicles |-> {v \in db.vehicles : v.driver = profile.id},
     documents |-> Cardinality({x \in db.documents : x.driver = profile.id}),
     rides |-> Cardinality({r \in db.rides : r.driver = profile.id})]

GetDriverDocuments(db, profile) == {x \in db.documents : x.driver = profile.id}

GetDriverMetrics(db, profile) ==
    LET documents == GetDriverDocuments(db, profile) IN
    [documentsStatus |-> [s \in {x.status : x \in documents} |->
                             Cardinality({x \in documents : x.status = s})],
     vehiclesCount |-> Cardinality({v \in db.vehicles : v.driver = profile.id})]

\* PaymentsController, before a driver's earnings are added up.
GetDriverEarnings(db, user, profile) ==
    user.role = "ADMIN" \/ profile.id \in DriverOf(db, user)

===============================================================================
