------------------------------- MODULE Rides -------------------------------
(***************************************************************************)
(* The dispatch core of the backend: rides, the drivers' vehicles and the  *)
(* drivers' running totals, as the handlers of RidesService,               *)
(* VehiclesService, AutoApprovalService, UserManagementService and         *)
(* UsersService read and write them.                                       *)
(*                                                                         *)
(* Every handler is a NestJS async function: each `await` on the database  *)
(* is a point where handlers of other requests may run.  A handler that    *)
(* checks a row and later writes it is therefore two (or three) actions: a *)
(* read step that ends with what the handler remembers in its record of    *)
(* req, and a commit step that is one Prisma write or $transaction.  The   *)
(* writes are addressed by id only; they repeat none of the checks.        *)
(*                                                                         *)
(* Requests is the set of handlers that may be in progress at once.  With  *)
(* one element, handlers run one after the other.                          *)
(***************************************************************************)
EXTENDS Naturals

CONSTANTS
    Rides,            \* ids that rides can get
    Drivers,          \* driver profiles
    Vehicles,         \* ids that vehicles can get
    Requests,         \* HTTP requests that may be in progress together
    NoOne,            \* NULL in a foreign-key column
    StatusOverrides,  \* statuses that PATCH /vehicles/:id/status is asked to write
    ProfileStatuses,  \* statuses that PATCH /profiles/driver/:id is asked to write
    AutoApprove       \* the AUTO_APPROVE setting of AutoApprovalService

VehicleStatus == {"AVAILABLE", "IN_USE", "MAINTENANCE", "INACTIVE"}
RideStatus == {"REQUESTED", "ACCEPTED", "IN_PROGRESS", "COMPLETED", "CANCELED"}
DriverStatus == {"PENDING", "APPROVED", "SUSPENDED", "REJECTED"}

ASSUME RidesAssumption ==
    /\ NoOne \notin Rides \cup Drivers \cup Vehicles
    /\ StatusOverrides \subseteq VehicleStatus
    /\ ProfileStatuses \subseteq DriverStatus
    /\ AutoApprove \in BOOLEAN

VARIABLES
    \* table rides, one function per column ("NONE": no row yet)
    rideStatus, rideDriver, rideVehicle,
    startedAt,      \* startedAt is set
    priced,         \* totalFare is set
    \* table vehicles ("NONE": no row yet; "DELETED": the row is gone)
    vehicleStatus, verified, owner,
    \* table driver_profiles ("DELETED": the row is gone)
    driverStatus,
    counted,        \* counted[d][r]: increments of d's totalRides and
                    \* totalEarnings that completeRide made for ride r
    \* the handlers in progress: where they are and what they remember
    req

rideVars == <<rideStatus, rideDriver, rideVehicle, startedAt, priced>>
vehicleVars == <<vehicleStatus, verified, owner>>
driverVars == <<driverStatus, counted>>
vars == <<rideVars, vehicleVars, driverVars, req>>

Steps == {"idle", "acceptRead", "accept", "start", "complete", "cancel",
          "remove", "approve"}
Idle == [step |-> "idle", ride |-> NoOne, driver |-> NoOne, vehicle |-> NoOne]

TypeOK ==
    /\ rideStatus \in [Rides -> RideStatus \cup {"NONE"}]
    /\ rideDriver \in [Rides -> Drivers \cup {NoOne}]
    /\ rideVehicle \in [Rides -> Vehicles \cup {NoOne}]
    /\ startedAt \in [Rides -> BOOLEAN]
    /\ priced \in [Rides -> BOOLEAN]
    /\ vehicleStatus \in [Vehicles -> VehicleStatus \cup {"NONE", "DELETED"}]
    /\ verified \in [Vehicles -> BOOLEAN]
    /\ owner \in [Vehicles -> Drivers \cup {NoOne}]
    /\ driverStatus \in [Drivers -> DriverStatus \cup {"DELETED"}]
    /\ counted \in [Drivers -> [Rides -> Nat]]
    /\ req \in [Requests -> [step : Steps,
                             ride : Rides \cup {NoOne},
                             driver : Drivers \cup {NoOne},
                             vehicle : Vehicles \cup {NoOne}]]

Init ==
    /\ rideStatus = [r \in Rides |-> "NONE"]
    /\ rideDriver = [r \in Rides |-> NoOne]
    /\ rideVehicle = [r \in Rides |-> NoOne]
    /\ startedAt = [r \in Rides |-> FALSE]
    /\ priced = [r \in Rides |-> FALSE]
    /\ vehicleStatus = [v \in Vehicles |-> "NONE"]
    /\ verified = [v \in Vehicles |-> FALSE]
    /\ owner = [v \in Vehicles |-> NoOne]
    /\ driverStatus = [d \in Drivers |-> "PENDING"]
    /\ counted = [d \in Drivers |-> [r \in Rides |-> 0]]
    /\ req = [q \in Requests |-> Idle]

----------------------------------------------------------------------------
\* Handlers

IsIdle(q) == req[q] = Idle
At(q, step) == req[q].step = step
Finish(q) == req' = [req EXCEPT ![q] = Idle]
Continue(q, step, r, d, v) ==
    req' = [req EXCEPT ![q] = [step |-> step, ride |-> r, driver |-> d, vehicle |-> v]]

VehicleExists(v) == vehicleStatus[v] \in VehicleStatus
DriverExists(d) == driverStatus[d] # "DELETED"
Active(r) == rideStatus[r] \in {"ACCEPTED", "IN_PROGRESS"}

\* The handler ends early: the process stops, the connection to the database
\* is lost, or an update finds its row gone and the transaction rolls back.
Fail(q) ==
    /\ ~IsIdle(q)
    /\ Finish(q)
    /\ UNCHANGED <<rideVars, vehicleVars, driverVars>>

----------------------------------------------------------------------------
\* Rides

\* A new row has neither driver nor vehicle.
NewRide(r, fareKnown) ==
    /\ rideStatus[r] = "NONE"
    /\ rideStatus' = [rideStatus EXCEPT ![r] = "REQUESTED"]
    /\ priced' = [priced EXCEPT ![r] = fareKnown]
    /\ UNCHANGED <<rideDriver, rideVehicle, startedAt>>

\* createRide demands a fare.
CreateRide(q, r) ==
    /\ IsIdle(q)
    /\ NewRide(r, TRUE)
    /\ UNCHANGED <<vehicleVars, driverVars, req>>

\* convertToRide, the ride it creates (its reservation is the business of
\* Bookings): the fare is the reservation's estimate, NULL when the reservation
\* was made without a distance.
ConvertReservation(q, r) ==
    /\ IsIdle(q)
    /\ \E fareKnown \in BOOLEAN : NewRide(r, fareKnown)
    /\ UNCHANGED <<vehicleVars, driverVars, req>>

\* The vehicles of the driver's include clause; the code takes vehicles[0] of
\* an unordered result.
Usable(d, v) ==
    /\ vehicleStatus[v] = "AVAILABLE"
    /\ verified[v]
    /\ owner[v] = d

\* acceptRide, first read: the driver with the vehicles that can be used.
AcceptReadDriver(q, d, r) ==
    /\ IsIdle(q)
    /\ rideStatus[r] # "NONE"
    /\ driverStatus[d] = "APPROVED"
    /\ \E v \in Vehicles : Usable(d, v) /\ Continue(q, "acceptRead", r, d, v)
    /\ UNCHANGED <<rideVars, vehicleVars, driverVars>>

\* acceptRide, second read: is the ride still available?
AcceptReadRide(q) ==
    /\ At(q, "acceptRead")
    /\ IF rideStatus[req[q].ride] = "REQUESTED"
       THEN Continue(q, "accept", req[q].ride, req[q].driver, req[q].vehicle)
       ELSE Finish(q)
    /\ UNCHANGED <<rideVars, vehicleVars, driverVars>>

\* (variant) the transaction without the vehicle's update
AcceptLeavesVehicle(q) ==
    LET r == req[q].ride
        v == req[q].vehicle
    IN  /\ At(q, "accept")
        /\ VehicleExists(v)
        /\ rideStatus' = [rideStatus EXCEPT ![r] = "ACCEPTED"]
        /\ rideDriver' = [rideDriver EXCEPT ![r] = req[q].driver]
        /\ rideVehicle' = [rideVehicle EXCEPT ![r] = v]
        /\ Finish(q)
        /\ UNCHANGED <<startedAt, priced, vehicleVars, driverVars>>

\* acceptRide, the transaction: it depends on the vehicle's row being there.
AcceptCommit(q) ==
    LET r == req[q].ride
        v == req[q].vehicle
    IN  /\ At(q, "accept")
        /\ VehicleExists(v)
        /\ vehicleStatus' = [vehicleStatus EXCEPT ![v] = "IN_USE"]
        /\ rideStatus' = [rideStatus EXCEPT ![r] = "ACCEPTED"]
        /\ rideDriver' = [rideDriver EXCEPT ![r] = req[q].driver]
        /\ rideVehicle' = [rideVehicle EXCEPT ![r] = v]
        /\ Finish(q)
        /\ UNCHANGED <<startedAt, priced, verified, owner, driverVars>>

\* (variant) the status is not checked
DriverMayAnyStatus(d, r, status) ==
    /\ DriverExists(d)
    /\ rideDriver[r] = d

\* validateDriverRide: what startRide and completeRide check.
DriverMay(d, r, status) ==
    /\ DriverExists(d)
    /\ rideDriver[r] = d
    /\ rideStatus[r] = status

StartRead(q, d, r) ==
    /\ IsIdle(q)
    /\ DriverMay(d, r, "ACCEPTED")
    /\ Continue(q, "start", r, NoOne, NoOne)
    /\ UNCHANGED <<rideVars, vehicleVars, driverVars>>

StartCommit(q) ==
    /\ At(q, "start")
    /\ rideStatus' = [rideStatus EXCEPT ![req[q].ride] = "IN_PROGRESS"]
    /\ startedAt' = [startedAt EXCEPT ![req[q].ride] = TRUE]
    /\ Finish(q)
    /\ UNCHANGED <<rideDriver, rideVehicle, priced, vehicleVars, driverVars>>

\* completeRide remembers the driver and the vehicle of the row it read.
CompleteRead(q, d, r) ==
    /\ IsIdle(q)
    /\ DriverMay(d, r, "IN_PROGRESS")
    /\ Continue(q, "complete", r, d, rideVehicle[r])
    /\ UNCHANGED <<rideVars, vehicleVars, driverVars>>

\* (variant) the ride's own status is written to the vehicle
ReleaseAsCompleted(v) ==
    vehicleStatus' = IF v = NoOne THEN vehicleStatus
                     ELSE [vehicleStatus EXCEPT ![v] = "COMPLETED"]

\* The vehicle of the row that was read becomes AVAILABLE, if there is one.
Release(v) ==
    vehicleStatus' = IF v = NoOne THEN vehicleStatus
                     ELSE [vehicleStatus EXCEPT ![v] = "AVAILABLE"]

CompleteCommit(q) ==
    LET r == req[q].ride
        d == req[q].driver
        v == req[q].vehicle
    IN  /\ At(q, "complete")
        /\ v # NoOne => VehicleExists(v)
        /\ priced[r] => DriverExists(d)
        /\ Release(v)
        /\ counted' = IF priced[r] THEN [counted EXCEPT ![d][r] = @ + 1] ELSE counted
        /\ rideStatus' = [rideStatus EXCEPT ![r] = "COMPLETED"]
        /\ Finish(q)
        /\ UNCHANGED <<rideDriver, rideVehicle, startedAt, priced, verified, owner, driverStatus>>

\* (variant) a finished ride can be canceled
CancelReadAnyStatus(q, r) ==
    /\ IsIdle(q)
    /\ rideStatus[r] \in RideStatus
    /\ Continue(q, "cancel", r, NoOne, rideVehicle[r])
    /\ UNCHANGED <<rideVars, vehicleVars, driverVars>>

\* cancelRide by the ride's client or an admin; a driver also needs
\* rideDriver[r] = d, which adds no behaviour.
CancelRead(q, r) ==
    /\ IsIdle(q)
    /\ rideStatus[r] \in RideStatus \ {"COMPLETED", "CANCELED"}
    /\ Continue(q, "cancel", r, NoOne, rideVehicle[r])
    /\ UNCHANGED <<rideVars, vehicleVars, driverVars>>

\* (variant) the ride is offered to other drivers instead
CancelReoffers(q) ==
    /\ At(q, "cancel")
    /\ Release(req[q].vehicle)
    /\ rideStatus' = [rideStatus EXCEPT ![req[q].ride] = "REQUESTED"]
    /\ Finish(q)
    /\ UNCHANGED <<rideDriver, rideVehicle, startedAt, priced, verified, owner, driverVars>>

\* (variant) the vehicle is not given back
CancelKeepsVehicle(q) ==
    /\ At(q, "cancel")
    /\ rideStatus' = [rideStatus EXCEPT ![req[q].ride] = "CANCELED"]
    /\ Finish(q)
    /\ UNCHANGED <<rideDriver, rideVehicle, startedAt, priced, vehicleVars, driverVars>>

CancelCommit(q) ==
    LET v == req[q].vehicle
    IN  /\ At(q, "cancel")
        /\ v # NoOne => VehicleExists(v)
        /\ Release(v)
        /\ rideStatus' = [rideStatus EXCEPT ![req[q].ride] = "CANCELED"]
        /\ Finish(q)
        /\ UNCHANGED <<rideDriver, rideVehicle, startedAt, priced, verified, owner, driverVars>>

----------------------------------------------------------------------------
\* Vehicles

\* create: a plate that is free; the row starts AVAILABLE and unverified.
CreateVehicle(q, d, v) ==
    /\ IsIdle(q)
    /\ DriverExists(d)
    /\ vehicleStatus[v] = "NONE"
    /\ vehicleStatus' = [vehicleStatus EXCEPT ![v] = "AVAILABLE"]
    /\ verified' = [verified EXCEPT ![v] = FALSE]
    /\ owner' = [owner EXCEPT ![v] = d]
    /\ UNCHANGED <<rideVars, driverVars, req>>

\* updateStatus: any status, whatever the vehicle is doing.
UpdateStatus(q, v) ==
    /\ IsIdle(q)
    /\ VehicleExists(v)
    /\ \E s \in StatusOverrides : vehicleStatus' = [vehicleStatus EXCEPT ![v] = s]
    /\ UNCHANGED <<rideVars, verified, owner, driverVars, req>>

\* verify (administrator)
VerifyVehicle(q, v) ==
    /\ IsIdle(q)
    /\ VehicleExists(v)
    /\ \E b \in BOOLEAN : verified' = [verified EXCEPT ![v] = b]
    /\ UNCHANGED <<rideVars, vehicleStatus, owner, driverVars, req>>

\* The count of remove: rides of this vehicle that are not finished.
HasActiveRides(v) ==
    \E r \in Rides :
        rideVehicle[r] = v /\ rideStatus[r] \in {"REQUESTED", "ACCEPTED", "IN_PROGRESS"}

RemoveRead(q, v) ==
    /\ IsIdle(q)
    /\ VehicleExists(v)
    /\ ~HasActiveRides(v)
    /\ Continue(q, "remove", NoOne, NoOne, v)
    /\ UNCHANGED <<rideVars, vehicleVars, driverVars>>

\* (variant) no ON DELETE SET NULL
DeleteRowsOnly(gone) ==
    /\ vehicleStatus' = [v \in Vehicles |-> IF v \in gone THEN "DELETED" ELSE vehicleStatus[v]]
    /\ UNCHANGED rideVehicle

\* Deleting rows of vehicles sets the foreign keys to them to NULL.
DeleteRows(gone) ==
    /\ vehicleStatus' = [v \in Vehicles |-> IF v \in gone THEN "DELETED" ELSE vehicleStatus[v]]
    /\ rideVehicle' = [r \in Rides |-> IF rideVehicle[r] \in gone THEN NoOne ELSE rideVehicle[r]]

RemoveCommit(q) ==
    /\ At(q, "remove")
    /\ VehicleExists(req[q].vehicle)
    /\ DeleteRows({req[q].vehicle})
    /\ Finish(q)
    /\ UNCHANGED <<rideStatus, rideDriver, startedAt, priced, verified, owner, driverVars>>

----------------------------------------------------------------------------
\* Drivers and their approval

\* updateUserStatus, its write to the driver's profile.
UpdateUserStatus(q, d) ==
    /\ IsIdle(q)
    /\ DriverExists(d)
    /\ \E s \in {"APPROVED", "PENDING"} : driverStatus' = [driverStatus EXCEPT ![d] = s]
    /\ UNCHANGED <<rideVars, vehicleVars, counted, req>>

\* updateDriverProfile: whoever may edit the profile may edit its status.
UpdateDriverProfile(q, d) ==
    /\ IsIdle(q)
    /\ DriverExists(d)
    /\ \E s \in ProfileStatuses : driverStatus' = [driverStatus EXCEPT ![d] = s]
    /\ UNCHANGED <<rideVars, vehicleVars, counted, req>>

\* A user is deleted: the profile and its vehicles go with it, and the rides
\* lose their driver.
DeleteDriver(q, d) ==
    LET gone == {v \in Vehicles : owner[v] = d /\ VehicleExists(v)}
    IN  /\ IsIdle(q)
        /\ DriverExists(d)
        /\ driverStatus' = [driverStatus EXCEPT ![d] = "DELETED"]
        /\ DeleteRows(gone)
        /\ rideDriver' = [r \in Rides |-> IF rideDriver[r] = d THEN NoOne ELSE rideDriver[r]]
        /\ UNCHANGED <<rideStatus, startedAt, priced, verified, owner, counted, req>>

\* The vehicle updates of AutoApprovalService: verified, and AVAILABLE.
VerifyAll(chosen) ==
    /\ verified' = [v \in Vehicles |-> verified[v] \/ v \in chosen]
    /\ vehicleStatus' = [v \in Vehicles |-> IF v \in chosen THEN "AVAILABLE" ELSE vehicleStatus[v]]

Unverified == {v \in Vehicles : VehicleExists(v) /\ ~verified[v]}

\* autoApproveAll: one transaction.
AutoApproveAll(q) ==
    /\ AutoApprove
    /\ IsIdle(q)
    /\ driverStatus' = [d \in Drivers |->
                           IF driverStatus[d] = "PENDING" THEN "APPROVED" ELSE driverStatus[d]]
    /\ VerifyAll(Unverified)
    /\ UNCHANGED <<rideVars, owner, counted, req>>

\* approveDriver: the driver first, then (another transaction) the vehicles.
ApproveDriver(q, d) ==
    /\ AutoApprove
    /\ IsIdle(q)
    /\ DriverExists(d)
    /\ driverStatus' = [driverStatus EXCEPT ![d] = "APPROVED"]
    /\ Continue(q, "approve", NoOne, d, NoOne)
    /\ UNCHANGED <<rideVars, vehicleVars, counted>>

ApproveDriverVehicles(q) ==
    /\ At(q, "approve")
    /\ VerifyAll({v \in Unverified : owner[v] = req[q].driver})
    /\ Finish(q)
    /\ UNCHANGED <<rideVars, owner, driverVars>>

\* verifyVehicle of AutoApprovalService: AVAILABLE even if it was verified.
AutoVerifyVehicle(q, v) ==
    /\ AutoApprove
    /\ IsIdle(q)
    /\ VehicleExists(v)
    /\ VerifyAll({v})
    /\ UNCHANGED <<rideVars, owner, driverVars, req>>

----------------------------------------------------------------------------
RideStep(q) ==
    \/ \E r \in Rides : CreateRide(q, r) \/ CancelRead(q, r)
    \/ \E d \in Drivers, r \in Rides :
          AcceptReadDriver(q, d, r) \/ StartRead(q, d, r) \/ CompleteRead(q, d, r)
    \/ AcceptReadRide(q) \/ AcceptCommit(q) \/ StartCommit(q)
    \/ CompleteCommit(q) \/ CancelCommit(q)

VehicleStep(q) ==
    \/ \E d \in Drivers, v \in Vehicles : CreateVehicle(q, d, v)
    \/ \E v \in Vehicles :
          UpdateStatus(q, v) \/ VerifyVehicle(q, v) \/ RemoveRead(q, v) \/ AutoVerifyVehicle(q, v)
    \/ RemoveCommit(q)

DriverStep(q) ==
    \/ \E d \in Drivers :
          \/ UpdateUserStatus(q, d) \/ UpdateDriverProfile(q, d)
          \/ DeleteDriver(q, d) \/ ApproveDriver(q, d)
    \/ AutoApproveAll(q) \/ ApproveDriverVehicles(q)

Next ==
    \E q \in Requests :
        \/ RideStep(q) \/ VehicleStep(q) \/ DriverStep(q) \/ Fail(q)
        \/ \E r \in Rides : ConvertReservation(q, r)

Spec == Init /\ [][Next]_vars

----------------------------------------------------------------------------
(***************************************************************************)
(* What holds however the handlers interleave.                             *)
(***************************************************************************)

\* Whatever accept, delete and cancel do to each other, a ride that names a
\* vehicle names one that exists and belongs to the ride's driver: the two
\* columns come from one transaction and are cleared by the foreign keys.
AssignmentConsistent ==
    \A r \in Rides : rideVehicle[r] # NoOne =>
        /\ VehicleExists(rideVehicle[r])
        /\ owner[rideVehicle[r]] = rideDriver[r]

\* No completion of a ride with a fare goes unpaid and nothing is paid for a
\* trip that never started, even when a stale commit moves a ride out of a final
\* status.
PaidForTrips ==
    \A r \in Rides :
        /\ rideStatus[r] = "COMPLETED" /\ priced[r] => \E d \in Drivers : counted[d][r] > 0
        /\ \A d \in Drivers : counted[d][r] > 0 => startedAt[r]

\* A ride that was accepted or canceled is never offered again, and it loses
\* its driver only because the driver's profile is deleted.
NeverOfferedAgain ==
    [][\A r \in Rides :
          /\ rideStatus[r] \notin {"NONE", "REQUESTED"}
                => rideStatus'[r] \notin {"NONE", "REQUESTED"}
          /\ rideDriver[r] # NoOne /\ rideDriver'[r] = NoOne
                => driverStatus'[rideDriver[r]] = "DELETED"]_vars

(***************************************************************************)
(* What holds when handlers run one after the other (Serial) and nobody    *)
(* writes AVAILABLE or IN_USE to a vehicle by hand (Disciplined).          *)
(***************************************************************************)
Serial == \A q1, q2 \in Requests : q1 = q2

Disciplined == ~AutoApprove /\ StatusOverrides \cap {"AVAILABLE", "IN_USE"} = {}

\* The vehicle of a ride under way is not AVAILABLE, so that acceptRide cannot
\* hand it out, and no other ride under way has it.
ExclusiveVehicle ==
    \A r \in Rides : Active(r) /\ rideVehicle[r] # NoOne =>
        /\ vehicleStatus[rideVehicle[r]] # "AVAILABLE"
        /\ \A s \in Rides \ {r} : Active(s) => rideVehicle[s] # rideVehicle[r]

\* A vehicle is IN_USE only while a ride under way has it: completing and
\* canceling give every vehicle back.
NoVehicleLeak ==
    \A v \in Vehicles : vehicleStatus[v] = "IN_USE" =>
        \E r \in Rides : Active(r) /\ rideVehicle[r] = v

\* A completed ride with a fare was counted once, for one driver (the ride's,
\* unless that profile is gone); any other ride was not counted.
PaidExactlyOnce ==
    \A r \in Rides :
        IF rideStatus[r] = "COMPLETED" /\ priced[r]
        THEN \E d \in Drivers :
                /\ rideDriver[r] \in {d, NoOne}
                /\ \A e \in Drivers : counted[e][r] = IF e = d THEN 1 ELSE 0
        ELSE \A d \in Drivers : counted[d][r] = 0

\* The promise of the dispatch core, for serial handlers: Dispatch allots each
\* vehicle to one ride at a time and pays each trip once.
D == INSTANCE Dispatch WITH
        using <- [r \in Rides |-> IF Active(r) THEN rideVehicle[r] ELSE NoOne],
        paid <- counted
ImplementsDispatch == D!Spec

(***************************************************************************)
(* What the code says of itself, and interleavings break.                  *)
(***************************************************************************)

\* acceptRide checks "que la course est toujours disponible": a driver is put
\* on a ride only while the ride is REQUESTED.
AcceptedWhileAvailable ==
    [][\A r \in Rides : rideDriver'[r] \notin {rideDriver[r], NoOne}
          => rideStatus[r] = "REQUESTED"]_vars
============================================================================
