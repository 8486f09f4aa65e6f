---------------------------- MODULE RidesProofs ----------------------------
(***************************************************************************)
(* Theorems about Rides, for every number of rides, drivers, vehicles and  *)
(* concurrent requests, and their proofs; then those for one request at a  *)
(* time, among them that Rides implements Dispatch.                        *)
(***************************************************************************)
EXTENDS Rides, TLAPS

----------------------------------------------------------------------------
(***************************************************************************)
(* Lemmas about a handler's record.                                        *)
(***************************************************************************)

ReqType == [step : Steps, ride : Rides \cup {NoOne},
            driver : Drivers \cup {NoOne}, vehicle : Vehicles \cup {NoOne}]

LEMMA FinishType ==
    ASSUME TypeOK, NEW q \in Requests, Finish(q)
    PROVE  req' \in [Requests -> ReqType]
BY DEF TypeOK, Finish, Idle, Steps, ReqType

LEMMA ContinueType ==
    ASSUME TypeOK, NEW q \in Requests, NEW step \in Steps, NEW r \in Rides \cup {NoOne},
           NEW d \in Drivers \cup {NoOne}, NEW v \in Vehicles \cup {NoOne},
           Continue(q, step, r, d, v)
    PROVE  req' \in [Requests -> ReqType]
BY DEF TypeOK, Continue, ReqType

\* What a handler remembers at each step is there, not NULL.
Remembers ==
    \A q \in Requests :
        /\ req[q].step \in {"acceptRead", "accept", "start", "complete", "cancel"}
              => req[q].ride \in Rides
        /\ req[q].step \in {"acceptRead", "accept", "complete", "approve"}
              => req[q].driver \in Drivers
        /\ req[q].step \in {"acceptRead", "accept", "remove"}
              => req[q].vehicle \in Vehicles

LEMMA InitTypeOK == Init => TypeOK /\ Remembers
BY DEF Init, TypeOK, Remembers, Idle, Steps, DriverStatus

LEMMA RideStepTypeOK ==
    ASSUME TypeOK, Remembers, NEW q \in Requests, RideStep(q)
    PROVE  TypeOK' /\ Remembers'
<1> USE DEF rideVars, vehicleVars, driverVars
<1>1. ASSUME NEW r \in Rides, CreateRide(q, r) PROVE TypeOK' /\ Remembers'
  BY <1>1 DEF CreateRide, NewRide, TypeOK, Remembers, RideStatus
<1>2. ASSUME NEW r \in Rides, CancelRead(q, r) PROVE TypeOK' /\ Remembers'
  <2>1. req' \in [Requests -> ReqType]
    BY <1>2, ContinueType DEF CancelRead, TypeOK, Steps
  <2>2. QED
    BY <1>2, <2>1 DEF CancelRead, TypeOK, Remembers, ReqType, Continue
<1>3. ASSUME NEW d \in Drivers, NEW r \in Rides, AcceptReadDriver(q, d, r)
      PROVE  TypeOK' /\ Remembers'
  <2>1. PICK v \in Vehicles : Continue(q, "acceptRead", r, d, v)
    BY <1>3 DEF AcceptReadDriver
  <2>2. req' \in [Requests -> ReqType]
    BY <2>1, ContinueType DEF Steps
  <2>3. QED
    BY <1>3, <2>1, <2>2 DEF AcceptReadDriver, TypeOK, Remembers, ReqType, Continue
<1>4. ASSUME NEW d \in Drivers, NEW r \in Rides, StartRead(q, d, r)
      PROVE  TypeOK' /\ Remembers'
  <2>1. req' \in [Requests -> ReqType]
    BY <1>4, ContinueType DEF StartRead, Steps
  <2>2. QED
    BY <1>4, <2>1 DEF StartRead, TypeOK, Remembers, ReqType, Continue
<1>5. ASSUME NEW d \in Drivers, NEW r \in Rides, CompleteRead(q, d, r)
      PROVE  TypeOK' /\ Remembers'
  <2>1. req' \in [Requests -> ReqType]
    BY <1>5, ContinueType DEF CompleteRead, TypeOK, Steps
  <2>2. QED
    BY <1>5, <2>1 DEF CompleteRead, TypeOK, Remembers, ReqType, Continue
<1>6. ASSUME AcceptReadRide(q) PROVE TypeOK' /\ Remembers'
  <2>1. req[q].ride \in Rides /\ req[q].driver \in Drivers /\ req[q].vehicle \in Vehicles
    BY <1>6 DEF AcceptReadRide, At, Remembers
  <2>2. CASE Finish(q)
    <3>1. req' \in [Requests -> ReqType]
      BY <2>2, FinishType
    <3>2. QED
      BY <1>6, <2>2, <3>1 DEF AcceptReadRide, Finish, Idle, TypeOK, Remembers, ReqType
  <2>3. CASE Continue(q, "accept", req[q].ride, req[q].driver, req[q].vehicle)
    <3>1. req' \in [Requests -> ReqType]
      BY <2>1, <2>3, ContinueType DEF Steps
    <3>2. QED
      BY <1>6, <2>1, <2>3, <3>1 DEF AcceptReadRide, Continue, TypeOK, Remembers, ReqType
  <2>4. QED
    BY <1>6, <2>2, <2>3 DEF AcceptReadRide
<1>7. ASSUME AcceptCommit(q) PROVE TypeOK' /\ Remembers'
  <2>1. req' \in [Requests -> ReqType]
    BY <1>7, FinishType DEF AcceptCommit
  <2>2. req[q].ride \in Rides /\ req[q].driver \in Drivers /\ req[q].vehicle \in Vehicles
    BY <1>7 DEF AcceptCommit, At, Remembers
  <2>3. QED
    BY <1>7, <2>1, <2>2
    DEF AcceptCommit, Finish, Idle, TypeOK, Remembers, ReqType, RideStatus, VehicleStatus
<1>8. ASSUME StartCommit(q) PROVE TypeOK' /\ Remembers'
  BY <1>8 DEF StartCommit, At, Finish, Idle, TypeOK, Remembers, Steps, RideStatus
<1>9. ASSUME CompleteCommit(q) PROVE TypeOK' /\ Remembers'
  <2>1. req' \in [Requests -> ReqType]
    BY <1>9, FinishType DEF CompleteCommit
  <2>2. req[q].ride \in Rides /\ req[q].driver \in Drivers
    BY <1>9 DEF CompleteCommit, At, Remembers
  <2>3. vehicleStatus' \in [Vehicles -> VehicleStatus \cup {"NONE", "DELETED"}]
    BY <1>9 DEF CompleteCommit, Release, TypeOK, VehicleStatus
  <2>4. counted' \in [Drivers -> [Rides -> Nat]]
    BY <1>9, <2>2 DEF CompleteCommit, TypeOK
  <2>5. rideStatus' \in [Rides -> RideStatus \cup {"NONE"}]
    BY <1>9, <2>2 DEF CompleteCommit, TypeOK, RideStatus
  <2>6. QED
    BY <1>9, <2>1, <2>3, <2>4, <2>5
    DEF CompleteCommit, Finish, Idle, TypeOK, Remembers, ReqType
<1>10. ASSUME CancelCommit(q) PROVE TypeOK' /\ Remembers'
  <2>1. req' \in [Requests -> ReqType]
    BY <1>10, FinishType DEF CancelCommit
  <2>2. vehicleStatus' \in [Vehicles -> VehicleStatus \cup {"NONE", "DELETED"}]
    BY <1>10 DEF CancelCommit, Release, TypeOK, VehicleStatus
  <2>3. rideStatus' \in [Rides -> RideStatus \cup {"NONE"}]
    BY <1>10 DEF CancelCommit, TypeOK, RideStatus
  <2>4. QED
    BY <1>10, <2>1, <2>2, <2>3 DEF CancelCommit, Finish, Idle, TypeOK, Remembers, ReqType
<1>11. QED
  BY <1>1, <1>2, <1>3, <1>4, <1>5, <1>6, <1>7, <1>8, <1>9, <1>10 DEF RideStep

LEMMA VehicleStepTypeOK ==
    ASSUME TypeOK, Remembers, NEW q \in Requests, VehicleStep(q)
    PROVE  TypeOK' /\ Remembers'
<1> USE DEF rideVars, vehicleVars, driverVars
<1>1. ASSUME NEW d \in Drivers, NEW v \in Vehicles, CreateVehicle(q, d, v)
      PROVE  TypeOK' /\ Remembers'
  BY <1>1 DEF CreateVehicle, TypeOK, Remembers, VehicleStatus
<1>2. ASSUME NEW v \in Vehicles, UpdateStatus(q, v) PROVE TypeOK' /\ Remembers'
  BY <1>2, RidesAssumption DEF UpdateStatus, TypeOK, Remembers
<1>3. ASSUME NEW v \in Vehicles, VerifyVehicle(q, v) PROVE TypeOK' /\ Remembers'
  BY <1>3 DEF VerifyVehicle, TypeOK, Remembers
<1>4. ASSUME NEW v \in Vehicles, RemoveRead(q, v) PROVE TypeOK' /\ Remembers'
  <2>1. req' \in [Requests -> ReqType]
    BY <1>4, ContinueType DEF RemoveRead, Steps
  <2>2. QED
    BY <1>4, <2>1 DEF RemoveRead, TypeOK, Remembers, ReqType, Continue
<1>5. ASSUME NEW v \in Vehicles, AutoVerifyVehicle(q, v) PROVE TypeOK' /\ Remembers'
  BY <1>5 DEF AutoVerifyVehicle, VerifyAll, TypeOK, Remembers, VehicleStatus
<1>6. ASSUME RemoveCommit(q) PROVE TypeOK' /\ Remembers'
  BY <1>6 DEF RemoveCommit, DeleteRows, At, Finish, Idle, TypeOK, Remembers, Steps
<1>7. QED
  BY <1>1, <1>2, <1>3, <1>4, <1>5, <1>6 DEF VehicleStep

LEMMA DriverStepTypeOK ==
    ASSUME TypeOK, Remembers, NEW q \in Requests, DriverStep(q)
    PROVE  TypeOK' /\ Remembers'
<1> USE DEF rideVars, vehicleVars, driverVars
<1>1. ASSUME NEW d \in Drivers, UpdateUserStatus(q, d) PROVE TypeOK' /\ Remembers'
  BY <1>1 DEF UpdateUserStatus, TypeOK, Remembers, DriverStatus
<1>2. ASSUME NEW d \in Drivers, DeleteDriver(q, d) PROVE TypeOK' /\ Remembers'
  BY <1>2 DEF DeleteDriver, DeleteRows, TypeOK, Remembers
<1>3. ASSUME NEW d \in Drivers, ApproveDriver(q, d) PROVE TypeOK' /\ Remembers'
  <2>1. req' \in [Requests -> ReqType]
    BY <1>3, ContinueType DEF ApproveDriver, Steps
  <2>2. QED
    BY <1>3, <2>1 DEF ApproveDriver, TypeOK, Remembers, ReqType, Continue, DriverStatus
<1>4. ASSUME AutoApproveAll(q) PROVE TypeOK' /\ Remembers'
  BY <1>4 DEF AutoApproveAll, VerifyAll, TypeOK, Remembers, VehicleStatus, DriverStatus
<1>5. ASSUME ApproveDriverVehicles(q) PROVE TypeOK' /\ Remembers'
  BY <1>5 DEF ApproveDriverVehicles, VerifyAll, At, Finish, Idle, TypeOK, Remembers,
              VehicleStatus, Steps
<1>6. ASSUME NEW d \in Drivers, UpdateDriverProfile(q, d) PROVE TypeOK' /\ Remembers'
  BY <1>6, RidesAssumption DEF UpdateDriverProfile, TypeOK, Remembers
<1>7. QED
  BY <1>1, <1>2, <1>3, <1>4, <1>5, <1>6 DEF DriverStep

LEMMA NextTypeOK == TypeOK /\ Remembers /\ [Next]_vars => TypeOK' /\ Remembers'
<1> SUFFICES ASSUME TypeOK, Remembers, [Next]_vars PROVE TypeOK' /\ Remembers'
  OBVIOUS
<1>1. ASSUME NEW q \in Requests, Fail(q) PROVE TypeOK' /\ Remembers'
  BY <1>1 DEF Fail, Finish, Idle, TypeOK, Remembers, Steps, rideVars, vehicleVars, driverVars
<1>2. CASE UNCHANGED vars
  BY <1>2 DEF vars, TypeOK, Remembers, rideVars, vehicleVars, driverVars
<1>3. ASSUME NEW q \in Requests, NEW r \in Rides, ConvertReservation(q, r)
      PROVE  TypeOK' /\ Remembers'
  BY <1>3 DEF ConvertReservation, NewRide, TypeOK, Remembers, RideStatus, rideVars, vehicleVars,
              driverVars
<1>4. QED
  BY <1>1, <1>2, <1>3, RideStepTypeOK, VehicleStepTypeOK, DriverStepTypeOK DEF Next

\* The columns, counters and handler records of Rides always have their types,
\* and a handler about to write knows the rows it writes.
THEOREM RidesTypeOK == Spec => [](TypeOK /\ Remembers)
<1>1. Init => TypeOK /\ Remembers
  BY InitTypeOK
<1>2. TypeOK /\ Remembers /\ [Next]_vars => TypeOK' /\ Remembers'
  BY NextTypeOK
<1>3. QED
  BY <1>1, <1>2, PTL DEF Spec

----------------------------------------------------------------------------
(***************************************************************************)
(* However handlers interleave.                                            *)
(***************************************************************************)

\* A handler of acceptRide remembers a vehicle of its driver; the owner column
\* is written only when the row is created, which is before it was read.
RemembersOwn ==
    \A q \in Requests : req[q].step \in {"acceptRead", "accept"} =>
        /\ vehicleStatus[req[q].vehicle] # "NONE"
        /\ owner[req[q].vehicle] = req[q].driver

AssignmentInv == TypeOK /\ Remembers /\ RemembersOwn /\ AssignmentConsistent

LEMMA RideStepAssignment ==
    ASSUME AssignmentInv, NEW q \in Requests, RideStep(q)
    PROVE  RemembersOwn' /\ AssignmentConsistent'
<1> USE RidesAssumption
    DEF AssignmentInv, AssignmentConsistent, RemembersOwn, VehicleExists,
        rideVars, vehicleVars, driverVars
<1>1. ASSUME NEW r \in Rides, CreateRide(q, r) PROVE RemembersOwn' /\ AssignmentConsistent'
  BY <1>1 DEF CreateRide, NewRide
<1>2. ASSUME NEW r \in Rides, CancelRead(q, r) PROVE RemembersOwn' /\ AssignmentConsistent'
  BY <1>2 DEF CancelRead, Continue, TypeOK
<1>3. ASSUME NEW d \in Drivers, NEW r \in Rides, AcceptReadDriver(q, d, r)
      PROVE  RemembersOwn' /\ AssignmentConsistent'
  BY <1>3 DEF AcceptReadDriver, Usable, Continue, TypeOK
<1>4. ASSUME NEW d \in Drivers, NEW r \in Rides, StartRead(q, d, r)
      PROVE  RemembersOwn' /\ AssignmentConsistent'
  BY <1>4 DEF StartRead, Continue, TypeOK
<1>5. ASSUME NEW d \in Drivers, NEW r \in Rides, CompleteRead(q, d, r)
      PROVE  RemembersOwn' /\ AssignmentConsistent'
  BY <1>5 DEF CompleteRead, Continue, TypeOK
<1>6. ASSUME AcceptReadRide(q) PROVE RemembersOwn' /\ AssignmentConsistent'
  BY <1>6 DEF AcceptReadRide, At, Finish, Idle, Continue, TypeOK
<1>7. ASSUME AcceptCommit(q) PROVE RemembersOwn' /\ AssignmentConsistent'
  <2>1. req[q].vehicle \in Vehicles /\ owner[req[q].vehicle] = req[q].driver
    BY <1>7 DEF AcceptCommit, At, Remembers
  <2>2. RemembersOwn'
    BY <1>7, <2>1 DEF AcceptCommit, Finish, Idle, TypeOK
  <2>3. AssignmentConsistent'
    BY <1>7, <2>1 DEF AcceptCommit, TypeOK, VehicleStatus
  <2>4. QED
    BY <2>2, <2>3
<1>8. ASSUME StartCommit(q) PROVE RemembersOwn' /\ AssignmentConsistent'
  BY <1>8 DEF StartCommit, Finish, Idle, TypeOK
<1>9. ASSUME CompleteCommit(q) PROVE RemembersOwn' /\ AssignmentConsistent'
  BY <1>9 DEF CompleteCommit, Release, Finish, Idle, TypeOK, VehicleStatus
<1>10. ASSUME CancelCommit(q) PROVE RemembersOwn' /\ AssignmentConsistent'
  BY <1>10 DEF CancelCommit, Release, Finish, Idle, TypeOK, VehicleStatus
<1>11. QED
  BY <1>1, <1>2, <1>3, <1>4, <1>5, <1>6, <1>7, <1>8, <1>9, <1>10 DEF RideStep

LEMMA VehicleStepAssignment ==
    ASSUME AssignmentInv, NEW q \in Requests, VehicleStep(q)
    PROVE  RemembersOwn' /\ AssignmentConsistent'
<1> USE RidesAssumption
    DEF AssignmentInv, AssignmentConsistent, RemembersOwn, VehicleExists,
        rideVars, vehicleVars, driverVars
<1>1. ASSUME NEW d \in Drivers, NEW v \in Vehicles, CreateVehicle(q, d, v)
      PROVE  RemembersOwn' /\ AssignmentConsistent'
  BY <1>1 DEF CreateVehicle, TypeOK, VehicleStatus, Remembers
<1>2. ASSUME NEW v \in Vehicles, UpdateStatus(q, v)
      PROVE  RemembersOwn' /\ AssignmentConsistent'
  BY <1>2 DEF UpdateStatus, TypeOK, VehicleStatus
<1>3. ASSUME NEW v \in Vehicles, VerifyVehicle(q, v)
      PROVE  RemembersOwn' /\ AssignmentConsistent'
  BY <1>3 DEF VerifyVehicle
<1>4. ASSUME NEW v \in Vehicles, RemoveRead(q, v)
      PROVE  RemembersOwn' /\ AssignmentConsistent'
  BY <1>4 DEF RemoveRead, Continue, TypeOK
<1>5. ASSUME NEW v \in Vehicles, AutoVerifyVehicle(q, v)
      PROVE  RemembersOwn' /\ AssignmentConsistent'
  BY <1>5 DEF AutoVerifyVehicle, VerifyAll, TypeOK, VehicleStatus, Remembers
<1>6. ASSUME RemoveCommit(q) PROVE RemembersOwn' /\ AssignmentConsistent'
  BY <1>6 DEF RemoveCommit, DeleteRows, Finish, Idle, TypeOK, Remembers
<1>7. QED
  BY <1>1, <1>2, <1>3, <1>4, <1>5, <1>6 DEF VehicleStep

LEMMA DriverStepAssignment ==
    ASSUME AssignmentInv, NEW q \in Requests, DriverStep(q)
    PROVE  RemembersOwn' /\ AssignmentConsistent'
<1> USE RidesAssumption
    DEF AssignmentInv, AssignmentConsistent, RemembersOwn, VehicleExists,
        rideVars, vehicleVars, driverVars
<1>1. ASSUME NEW d \in Drivers, UpdateUserStatus(q, d)
      PROVE  RemembersOwn' /\ AssignmentConsistent'
  BY <1>1 DEF UpdateUserStatus
<1>2. ASSUME NEW d \in Drivers, DeleteDriver(q, d)
      PROVE  RemembersOwn' /\ AssignmentConsistent'
  BY <1>2 DEF DeleteDriver, DeleteRows, TypeOK, Remembers
<1>3. ASSUME NEW d \in Drivers, ApproveDriver(q, d)
      PROVE  RemembersOwn' /\ AssignmentConsistent'
  BY <1>3 DEF ApproveDriver, Continue, TypeOK
<1>4. ASSUME AutoApproveAll(q) PROVE RemembersOwn' /\ AssignmentConsistent'
  BY <1>4 DEF AutoApproveAll, VerifyAll, Unverified, TypeOK, VehicleStatus, Remembers
<1>5. ASSUME ApproveDriverVehicles(q) PROVE RemembersOwn' /\ AssignmentConsistent'
  BY <1>5 DEF ApproveDriverVehicles, VerifyAll, Unverified, Finish, Idle, TypeOK,
              VehicleStatus, Remembers
<1>6. ASSUME NEW d \in Drivers, UpdateDriverProfile(q, d)
      PROVE  RemembersOwn' /\ AssignmentConsistent'
  BY <1>6 DEF UpdateDriverProfile
<1>7. QED
  BY <1>1, <1>2, <1>3, <1>4, <1>5, <1>6 DEF DriverStep

LEMMA NextAssignment == AssignmentInv /\ [Next]_vars => AssignmentInv'
<1> SUFFICES ASSUME AssignmentInv, [Next]_vars PROVE AssignmentInv'
  OBVIOUS
<1>1. TypeOK' /\ Remembers'
  BY NextTypeOK DEF AssignmentInv
<1>2. ASSUME NEW q \in Requests, Fail(q) PROVE RemembersOwn' /\ AssignmentConsistent'
  BY <1>2 DEF Fail, Finish, Idle, AssignmentInv, TypeOK, RemembersOwn, AssignmentConsistent,
              VehicleExists, rideVars, vehicleVars, driverVars
<1>3. CASE UNCHANGED vars
  BY <1>1, <1>3 DEF vars, AssignmentInv, RemembersOwn, AssignmentConsistent, VehicleExists,
              rideVars, vehicleVars, driverVars
<1>4. ASSUME NEW q \in Requests, NEW r \in Rides, ConvertReservation(q, r)
      PROVE  RemembersOwn' /\ AssignmentConsistent'
  BY <1>4 DEF ConvertReservation, NewRide, AssignmentInv, RemembersOwn, AssignmentConsistent,
              VehicleExists, vehicleVars, driverVars
<1>5. QED
  BY <1>1, <1>2, <1>3, <1>4, RideStepAssignment, VehicleStepAssignment, DriverStepAssignment
  DEF Next, AssignmentInv

\* A ride that names a vehicle names an existing one of its driver's, for any
\* number of handlers racing on the same rows.
THEOREM RidesAssignmentConsistent == Spec => []AssignmentConsistent
<1>1. Init => AssignmentInv
  BY InitTypeOK DEF Init, AssignmentInv, RemembersOwn, AssignmentConsistent, Idle
<1>2. AssignmentInv => AssignmentConsistent
  BY DEF AssignmentInv
<1>3. QED
  BY <1>1, <1>2, NextAssignment, PTL DEF Spec

\* startedAt is never cleared, so a handler of completeRide that read
\* IN_PROGRESS pays for a trip that did start, whatever happened since.
TripsStarted ==
    /\ \A r \in Rides : rideStatus[r] \in {"IN_PROGRESS", "COMPLETED"} => startedAt[r]
    /\ \A q \in Requests : req[q].step = "complete" => startedAt[req[q].ride]

PaidInv == TypeOK /\ Remembers /\ TripsStarted /\ PaidForTrips

LEMMA RideStepPaid ==
    ASSUME PaidInv, NEW q \in Requests, RideStep(q)
    PROVE  TripsStarted' /\ PaidForTrips'
<1> USE DEF PaidInv, TripsStarted, PaidForTrips, rideVars, vehicleVars, driverVars
<1>1. ASSUME NEW r \in Rides, CreateRide(q, r) PROVE TripsStarted' /\ PaidForTrips'
  BY <1>1 DEF CreateRide, NewRide, TypeOK
<1>2. ASSUME NEW r \in Rides, CancelRead(q, r) PROVE TripsStarted' /\ PaidForTrips'
  BY <1>2 DEF CancelRead, Continue, TypeOK
<1>3. ASSUME NEW d \in Drivers, NEW r \in Rides, AcceptReadDriver(q, d, r)
      PROVE  TripsStarted' /\ PaidForTrips'
  BY <1>3 DEF AcceptReadDriver, Continue, TypeOK
<1>4. ASSUME NEW d \in Drivers, NEW r \in Rides, StartRead(q, d, r)
      PROVE  TripsStarted' /\ PaidForTrips'
  BY <1>4 DEF StartRead, Continue, TypeOK
<1>5. ASSUME NEW d \in Drivers, NEW r \in Rides, CompleteRead(q, d, r)
      PROVE  TripsStarted' /\ PaidForTrips'
  BY <1>5 DEF CompleteRead, DriverMay, Continue, TypeOK
<1>6. ASSUME AcceptReadRide(q) PROVE TripsStarted' /\ PaidForTrips'
  <2>1. CASE Finish(q)
    BY <1>6, <2>1 DEF AcceptReadRide, Finish, Idle, TypeOK
  <2>2. CASE Continue(q, "accept", req[q].ride, req[q].driver, req[q].vehicle)
    BY <1>6, <2>2 DEF AcceptReadRide, Continue, TypeOK
  <2>3. QED
    BY <1>6, <2>1, <2>2 DEF AcceptReadRide
<1>7. ASSUME AcceptCommit(q) PROVE TripsStarted' /\ PaidForTrips'
  BY <1>7 DEF AcceptCommit, Finish, Idle, TypeOK
<1>8. ASSUME StartCommit(q) PROVE TripsStarted' /\ PaidForTrips'
  BY <1>8 DEF StartCommit, Finish, Idle, TypeOK
<1>9. ASSUME CompleteCommit(q) PROVE TripsStarted' /\ PaidForTrips'
  <2> DEFINE r == req[q].ride
             d == req[q].driver
  <2>1. r \in Rides /\ d \in Drivers /\ startedAt[r]
    BY <1>9 DEF CompleteCommit, At, Remembers
  <2>2. counted' = IF priced[r] THEN [counted EXCEPT ![d] = [counted[d] EXCEPT ![r] = @ + 1]]
                   ELSE counted
    BY <1>9, <2>1 DEF CompleteCommit, TypeOK
  <2>3. \A e \in Drivers, s \in Rides :
           counted'[e][s] = IF e = d /\ s = r /\ priced[r] THEN counted[e][s] + 1
                            ELSE counted[e][s]
    BY <2>1, <2>2 DEF TypeOK
  <2>4. /\ startedAt' = startedAt /\ priced' = priced
        /\ rideStatus' = [rideStatus EXCEPT ![r] = "COMPLETED"]
        /\ req' = [req EXCEPT ![q] = Idle]
    BY <1>9 DEF CompleteCommit, Finish
  <2>5. TripsStarted'
    BY <2>1, <2>4 DEF Idle, TypeOK
  <2>6. ASSUME NEW s \in Rides, rideStatus'[s] = "COMPLETED", priced'[s]
        PROVE  \E e \in Drivers : counted'[e][s] > 0
    <3>1. CASE s = r
      <4>1. counted[d][r] \in Nat
        BY <2>1 DEF TypeOK
      <4>2. counted'[d][r] > 0
        BY <2>1, <2>3, <2>4, <2>6, <3>1, <4>1
      <4>3. QED
        BY <2>1, <3>1, <4>2
    <3>2. CASE s # r
      <4>1. PICK e \in Drivers : counted[e][s] > 0
        BY <2>4, <2>6, <3>2 DEF TypeOK
      <4>2. QED
        BY <2>3, <3>2, <4>1
    <3>3. QED
      BY <3>1, <3>2
  <2>7. ASSUME NEW s \in Rides, NEW e \in Drivers, counted'[e][s] > 0
        PROVE  startedAt'[s]
    BY <2>1, <2>3, <2>4, <2>7
  <2>8. QED
    BY <2>5, <2>6, <2>7
<1>10. ASSUME CancelCommit(q) PROVE TripsStarted' /\ PaidForTrips'
  BY <1>10 DEF CancelCommit, Finish, Idle, TypeOK
<1>11. QED
  BY <1>1, <1>2, <1>3, <1>4, <1>5, <1>6, <1>7, <1>8, <1>9, <1>10 DEF RideStep

LEMMA OtherStepPaid ==
    ASSUME PaidInv, NEW q \in Requests, VehicleStep(q) \/ DriverStep(q) \/ Fail(q)
    PROVE  TripsStarted' /\ PaidForTrips'
<1> USE DEF PaidInv, TripsStarted, PaidForTrips, rideVars, vehicleVars, driverVars
<1>1. UNCHANGED <<rideStatus, startedAt, priced, counted>>
  BY DEF VehicleStep, CreateVehicle, UpdateStatus, VerifyVehicle, RemoveRead, AutoVerifyVehicle,
         RemoveCommit, DriverStep, UpdateUserStatus, UpdateDriverProfile, DeleteDriver,
         ApproveDriver,
         AutoApproveAll, ApproveDriverVehicles, Fail
<1>2. ASSUME NEW p \in Requests, req'[p].step = "complete" PROVE req'[p] = req[p]
  <2>1. CASE Finish(q)
    BY <1>2, <2>1 DEF Finish, Idle, TypeOK
  <2>2. CASE UNCHANGED req
    BY <2>2
  <2>3. ASSUME NEW v \in Vehicles, RemoveRead(q, v) PROVE req'[p] = req[p]
    BY <1>2, <2>3 DEF RemoveRead, Continue, TypeOK
  <2>4. ASSUME NEW d \in Drivers, ApproveDriver(q, d) PROVE req'[p] = req[p]
    BY <1>2, <2>4 DEF ApproveDriver, Continue, TypeOK
  <2>5. CASE VehicleStep(q)
    <3>1. \/ UNCHANGED req \/ Finish(q) \/ \E v \in Vehicles : RemoveRead(q, v)
      BY <2>5 DEF VehicleStep, CreateVehicle, UpdateStatus, VerifyVehicle, AutoVerifyVehicle,
                  RemoveCommit
    <3>2. QED
      BY <2>1, <2>2, <2>3, <3>1
  <2>6. CASE DriverStep(q)
    <3>1. \/ UNCHANGED req \/ Finish(q) \/ \E d \in Drivers : ApproveDriver(q, d)
      BY <2>6 DEF DriverStep, UpdateUserStatus, UpdateDriverProfile, DeleteDriver, AutoApproveAll,
                  ApproveDriverVehicles
    <3>2. QED
      BY <2>1, <2>2, <2>4, <3>1
  <2>7. CASE Fail(q)
    BY <2>1, <2>7 DEF Fail
  <2>8. QED
    BY <2>5, <2>6, <2>7
<1>3. QED
  BY <1>1, <1>2

LEMMA NextPaid == PaidInv /\ [Next]_vars => PaidInv'
<1> SUFFICES ASSUME PaidInv, [Next]_vars PROVE PaidInv'
  OBVIOUS
<1>1. TypeOK' /\ Remembers'
  BY NextTypeOK DEF PaidInv
<1>2. CASE UNCHANGED vars
  BY <1>1, <1>2 DEF vars, PaidInv, TripsStarted, PaidForTrips, rideVars, driverVars
<1>3. ASSUME NEW q \in Requests, NEW r \in Rides, ConvertReservation(q, r)
      PROVE  TripsStarted' /\ PaidForTrips'
  BY <1>3 DEF ConvertReservation, NewRide, PaidInv, TypeOK, TripsStarted, PaidForTrips,
              driverVars
<1>4. QED
  BY <1>1, <1>2, <1>3, RideStepPaid, OtherStepPaid DEF Next, PaidInv

\* However many handlers complete, cancel or accept the same ride at once, a
\* COMPLETED ride was counted for some driver and only trips that started were.
THEOREM RidesPaidForTrips == Spec => []PaidForTrips
<1>1. Init => PaidInv
  BY InitTypeOK DEF Init, PaidInv, TripsStarted, PaidForTrips, Idle
<1>2. PaidInv => PaidForTrips
  BY DEF PaidInv
<1>3. QED
  BY <1>1, <1>2, NextPaid, PTL DEF Spec

\* What NeverOfferedAgain says of one ride.
OfferedOnce(r) ==
    /\ rideStatus[r] \notin {"NONE", "REQUESTED"}
          => rideStatus'[r] \notin {"NONE", "REQUESTED"}
    /\ rideDriver[r] # NoOne /\ rideDriver'[r] = NoOne
          => driverStatus'[rideDriver[r]] = "DELETED"

LEMMA NextOffers ==
    ASSUME TypeOK, Remembers, Next
    PROVE  \A r \in Rides : OfferedOnce(r)
<1> SUFFICES ASSUME TypeOK, Remembers, NEW q \in Requests,
                    \/ RideStep(q) \/ VehicleStep(q) \/ DriverStep(q) \/ Fail(q)
                    \/ \E r \in Rides : ConvertReservation(q, r)
             PROVE  \A r \in Rides : OfferedOnce(r)
  BY DEF Next
<1> USE RidesAssumption DEF OfferedOnce, rideVars, vehicleVars, driverVars
<1>1. CASE RideStep(q)
  <2>1. ASSUME NEW r \in Rides, CreateRide(q, r) PROVE \A s \in Rides : OfferedOnce(s)
    BY <2>1 DEF CreateRide, NewRide, TypeOK
  <2>2. ASSUME AcceptCommit(q) PROVE \A s \in Rides : OfferedOnce(s)
    BY <2>2 DEF AcceptCommit, At, Remembers, TypeOK
  <2>3. ASSUME StartCommit(q) PROVE \A s \in Rides : OfferedOnce(s)
    BY <2>3 DEF StartCommit, TypeOK
  <2>4. ASSUME CompleteCommit(q) PROVE \A s \in Rides : OfferedOnce(s)
    BY <2>4 DEF CompleteCommit, TypeOK
  <2>5. ASSUME CancelCommit(q) PROVE \A s \in Rides : OfferedOnce(s)
    BY <2>5 DEF CancelCommit, TypeOK
  <2>6. QED
    BY <1>1, <2>1, <2>2, <2>3, <2>4, <2>5
    DEF RideStep, CancelRead, AcceptReadDriver, AcceptReadRide, StartRead, CompleteRead
<1>2. CASE VehicleStep(q)
  BY <1>2 DEF VehicleStep, CreateVehicle, UpdateStatus, VerifyVehicle, RemoveRead,
              AutoVerifyVehicle, RemoveCommit
<1>3. CASE DriverStep(q)
  <2>1. ASSUME NEW d \in Drivers, DeleteDriver(q, d) PROVE \A s \in Rides : OfferedOnce(s)
    BY <2>1 DEF DeleteDriver, TypeOK
  <2>2. QED
    BY <1>3, <2>1
    DEF DriverStep, UpdateUserStatus, UpdateDriverProfile, ApproveDriver, AutoApproveAll,
        ApproveDriverVehicles
<1>4. CASE Fail(q)
  BY <1>4 DEF Fail
<1>5. ASSUME NEW r \in Rides, ConvertReservation(q, r) PROVE \A s \in Rides : OfferedOnce(s)
  BY <1>5 DEF ConvertReservation, NewRide, TypeOK
<1>6. QED
  BY <1>1, <1>2, <1>3, <1>4, <1>5

\* Every step keeps an accepted or canceled ride out of the offers, and only
\* the deletion of a profile takes a driver off a ride.
THEOREM RidesNeverOfferedAgain == Spec => NeverOfferedAgain
<1>1. TypeOK /\ Remembers /\ [Next]_vars => [\A r \in Rides : OfferedOnce(r)]_vars
  BY NextOffers
<1>2. QED
  BY <1>1, RidesTypeOK, PTL DEF Spec, NeverOfferedAgain, OfferedOnce

----------------------------------------------------------------------------
(***************************************************************************)
(* What Rides promises when handlers run one after the other and nobody    *)
(* writes AVAILABLE or IN_USE to a vehicle by hand: the invariants of the  *)
(* serial run, and that Rides implements Dispatch.                         *)
(*                                                                         *)
(* The argument: what the only handler remembers is still true when it     *)
(* commits (Fresh), so that each commit finds the state its read checked.  *)
(***************************************************************************)

Fresh ==
    \A q \in Requests :
        /\ req[q].step \in {"acceptRead", "accept"} => vehicleStatus[req[q].vehicle] = "AVAILABLE"
        /\ req[q].step = "accept" => rideStatus[req[q].ride] = "REQUESTED"
        /\ req[q].step = "start" => rideStatus[req[q].ride] = "ACCEPTED"
        /\ req[q].step = "complete" =>
              /\ rideStatus[req[q].ride] = "IN_PROGRESS"
              /\ rideDriver[req[q].ride] = req[q].driver
              /\ rideVehicle[req[q].ride] = req[q].vehicle
        /\ req[q].step = "cancel" =>
              /\ rideStatus[req[q].ride] \in {"REQUESTED", "ACCEPTED", "IN_PROGRESS"}
              /\ rideVehicle[req[q].ride] = req[q].vehicle
        /\ req[q].step = "remove" => ~HasActiveRides(req[q].vehicle)
        /\ req[q].step # "approve"

\* A ride that no driver accepted has neither driver nor vehicle.
Unassigned ==
    \A r \in Rides : rideStatus[r] \in {"NONE", "REQUESTED"} =>
        rideVehicle[r] = NoOne /\ rideDriver[r] = NoOne

SerialInv == AssignmentInv /\ Fresh /\ Unassigned
                /\ ExclusiveVehicle /\ NoVehicleLeak /\ PaidExactlyOnce

\* Both ways of making a ride.
LEMMA NewRideStep ==
    ASSUME NEW q \in Requests, NEW r \in Rides, CreateRide(q, r) \/ ConvertReservation(q, r)
    PROVE  /\ rideStatus[r] = "NONE"
           /\ rideStatus' = [rideStatus EXCEPT ![r] = "REQUESTED"]
           /\ \E fareKnown \in BOOLEAN : priced' = [priced EXCEPT ![r] = fareKnown]
           /\ UNCHANGED <<rideDriver, rideVehicle, vehicleStatus, counted>>
BY DEF CreateRide, ConvertReservation, NewRide, vehicleVars, driverVars

Handler(q) ==
    \/ RideStep(q) \/ VehicleStep(q) \/ DriverStep(q) \/ Fail(q)
    \/ \E r \in Rides : ConvertReservation(q, r)

\* A step that leaves alone every column the invariants are about.
Quiet == UNCHANGED <<rideStatus, rideDriver, rideVehicle, priced, vehicleStatus, counted>>

\* The steps that are not quiet.
LEMMA SerialCases ==
    ASSUME SerialInv, Disciplined, NEW q \in Requests, Handler(q)
    PROVE  \/ Quiet
           \/ \E r \in Rides : CreateRide(q, r) \/ ConvertReservation(q, r)
           \/ AcceptCommit(q) \/ StartCommit(q) \/ CompleteCommit(q) \/ CancelCommit(q)
           \/ \E d \in Drivers, v \in Vehicles : CreateVehicle(q, d, v)
           \/ \E v \in Vehicles : UpdateStatus(q, v)
           \/ RemoveCommit(q)
           \/ \E d \in Drivers : DeleteDriver(q, d)
<1> USE DEF Quiet, rideVars, vehicleVars, driverVars
<1>1. ~AutoApprove
  BY DEF Disciplined
<1>2. CASE RideStep(q)
  BY <1>2 DEF RideStep, CancelRead, AcceptReadDriver, AcceptReadRide, StartRead, CompleteRead
<1>3. CASE VehicleStep(q)
  BY <1>1, <1>3 DEF VehicleStep, VerifyVehicle, RemoveRead, AutoVerifyVehicle
<1>4. ~ApproveDriverVehicles(q)
  BY DEF ApproveDriverVehicles, At, SerialInv, Fresh
<1>5. CASE DriverStep(q)
  BY <1>1, <1>4, <1>5 DEF DriverStep, UpdateUserStatus, UpdateDriverProfile, ApproveDriver, AutoApproveAll
<1>6. CASE Fail(q)
  BY <1>6 DEF Fail
<1>7. QED
  BY <1>2, <1>3, <1>5, <1>6 DEF Handler

\* Statuses written by hand are neither AVAILABLE nor IN_USE.
LEMMA HandWritten ==
    ASSUME Disciplined, NEW q \in Requests, NEW v \in Vehicles, UpdateStatus(q, v)
    PROVE  \E s \in {"MAINTENANCE", "INACTIVE"} : vehicleStatus' = [vehicleStatus EXCEPT ![v] = s]
BY RidesAssumption DEF Disciplined, UpdateStatus, VehicleStatus

----------------------------------------------------------------------------
\* The only handler's next record: idle, or what it has just read.
LEMMA FreshStep ==
    ASSUME SerialInv, Serial, Disciplined, NEW q \in Requests, Handler(q)
    PROVE  Fresh'
<1> USE DEF rideVars, vehicleVars, driverVars
<1>1. \A p \in Requests : p = q
  BY DEF Serial
<1>2. TypeOK /\ Fresh
  BY DEF SerialInv, AssignmentInv
<1>3. ASSUME \A p \in Requests : req'[p] = Idle PROVE Fresh'
  BY <1>3 DEF Fresh, Idle
<1>4. CASE Finish(q)
  BY <1>1, <1>2, <1>3, <1>4 DEF Finish, TypeOK
<1>5. CASE IsIdle(q) /\ UNCHANGED req
  BY <1>1, <1>3, <1>5 DEF IsIdle
<1>6. ASSUME NEW r \in Rides, CancelRead(q, r) PROVE Fresh'
  <2>1. \A p \in Requests : req'[p] = [step |-> "cancel", ride |-> r, driver |-> NoOne,
                                       vehicle |-> rideVehicle[r]]
    BY <1>1, <1>2, <1>6 DEF CancelRead, Continue, TypeOK
  <2>2. QED
    BY <1>6, <2>1 DEF CancelRead, RideStatus, Fresh
<1>7. ASSUME NEW d \in Drivers, NEW r \in Rides, AcceptReadDriver(q, d, r) PROVE Fresh'
  <2>1. PICK v \in Vehicles : Usable(d, v) /\ Continue(q, "acceptRead", r, d, v)
    BY <1>7 DEF AcceptReadDriver
  <2>2. \A p \in Requests : req'[p] = [step |-> "acceptRead", ride |-> r, driver |-> d,
                                       vehicle |-> v]
    BY <1>1, <1>2, <2>1 DEF Continue, TypeOK
  <2>3. QED
    BY <1>7, <2>1, <2>2 DEF AcceptReadDriver, Usable, Fresh
<1>8. ASSUME NEW d \in Drivers, NEW r \in Rides, StartRead(q, d, r) PROVE Fresh'
  <2>1. \A p \in Requests : req'[p] = [step |-> "start", ride |-> r, driver |-> NoOne,
                                       vehicle |-> NoOne]
    BY <1>1, <1>2, <1>8 DEF StartRead, Continue, TypeOK
  <2>2. QED
    BY <1>8, <2>1 DEF StartRead, DriverMay, Fresh
<1>9. ASSUME NEW d \in Drivers, NEW r \in Rides, CompleteRead(q, d, r) PROVE Fresh'
  <2>1. \A p \in Requests : req'[p] = [step |-> "complete", ride |-> r, driver |-> d,
                                       vehicle |-> rideVehicle[r]]
    BY <1>1, <1>2, <1>9 DEF CompleteRead, Continue, TypeOK
  <2>2. QED
    BY <1>9, <2>1 DEF CompleteRead, DriverMay, Fresh
<1>10. ASSUME AcceptReadRide(q), ~Finish(q) PROVE Fresh'
  <2> DEFINE h == req[q]
  <2>1. /\ h.ride \in Rides /\ h.driver \in Drivers /\ h.vehicle \in Vehicles
        /\ vehicleStatus[h.vehicle] = "AVAILABLE"
        /\ rideStatus[h.ride] = "REQUESTED"
        /\ Continue(q, "accept", h.ride, h.driver, h.vehicle)
    BY <1>2, <1>10 DEF AcceptReadRide, At, Fresh, SerialInv, AssignmentInv, Remembers
  <2>2. \A p \in Requests : req'[p] = [step |-> "accept", ride |-> h.ride, driver |-> h.driver,
                                       vehicle |-> h.vehicle]
    BY <1>1, <1>2, <2>1 DEF Continue, TypeOK
  <2>3. QED
    BY <1>10, <2>1, <2>2 DEF AcceptReadRide, Fresh
<1>11. ASSUME NEW v \in Vehicles, RemoveRead(q, v) PROVE Fresh'
  <2>1. \A p \in Requests : req'[p] = [step |-> "remove", ride |-> NoOne, driver |-> NoOne,
                                       vehicle |-> v]
    BY <1>1, <1>2, <1>11 DEF RemoveRead, Continue, TypeOK
  <2>2. QED
    BY <1>11, <2>1 DEF RemoveRead, Fresh, HasActiveRides
<1>12. CASE RideStep(q)
  BY <1>4, <1>5, <1>6, <1>7, <1>8, <1>9, <1>10, <1>12
  DEF RideStep, CreateRide, AcceptCommit, StartCommit, CompleteCommit, CancelCommit
<1>13. CASE VehicleStep(q)
  BY <1>4, <1>5, <1>11, <1>13
  DEF VehicleStep, CreateVehicle, UpdateStatus, VerifyVehicle, AutoVerifyVehicle, RemoveCommit
<1>14. CASE DriverStep(q)
  BY <1>4, <1>5, <1>14
  DEF DriverStep, UpdateUserStatus, UpdateDriverProfile, DeleteDriver, ApproveDriver, AutoApproveAll,
      ApproveDriverVehicles, Disciplined
<1>15. CASE Fail(q)
  BY <1>4, <1>15 DEF Fail
<1>16. ASSUME NEW r \in Rides, ConvertReservation(q, r) PROVE Fresh'
  BY <1>5, <1>16 DEF ConvertReservation
<1>17. QED
  BY <1>12, <1>13, <1>14, <1>15, <1>16 DEF Handler
----------------------------------------------------------------------------
LEMMA UnassignedStep ==
    ASSUME SerialInv, Disciplined, NEW q \in Requests, Handler(q)
    PROVE  Unassigned'
<1> USE DEF SerialInv, AssignmentInv, TypeOK, Unassigned, rideVars, vehicleVars, driverVars
<1>1. CASE Quiet
  BY <1>1 DEF Quiet
<1>2. ASSUME NEW r \in Rides, CreateRide(q, r) \/ ConvertReservation(q, r)
      PROVE  Unassigned'
  BY <1>2, NewRideStep
<1>3. CASE AcceptCommit(q)
  BY <1>3 DEF AcceptCommit, At, Remembers
<1>4. CASE StartCommit(q)
  BY <1>4 DEF StartCommit
<1>5. CASE CompleteCommit(q)
  BY <1>5 DEF CompleteCommit
<1>6. CASE CancelCommit(q)
  BY <1>6 DEF CancelCommit
<1>7. ASSUME NEW d \in Drivers, NEW v \in Vehicles, CreateVehicle(q, d, v) PROVE Unassigned'
  BY <1>7 DEF CreateVehicle
<1>8. ASSUME NEW v \in Vehicles, UpdateStatus(q, v) PROVE Unassigned'
  BY <1>8 DEF UpdateStatus
<1>9. CASE RemoveCommit(q)
  BY <1>9 DEF RemoveCommit, DeleteRows
<1>10. ASSUME NEW d \in Drivers, DeleteDriver(q, d) PROVE Unassigned'
  BY <1>10 DEF DeleteDriver, DeleteRows
<1>11. QED
  BY <1>1, <1>2, <1>3, <1>4, <1>5, <1>6, <1>7, <1>8, <1>9, <1>10, SerialCases

\* acceptRide takes a vehicle that is AVAILABLE, which no ride under way has;
\* completeRide and cancelRide free a vehicle that only their ride had.
LEMMA VehiclesStep ==
    ASSUME SerialInv, Disciplined, NEW q \in Requests, Handler(q)
    PROVE  ExclusiveVehicle' /\ NoVehicleLeak'
<1> USE RidesAssumption
    DEF SerialInv, AssignmentInv, TypeOK, ExclusiveVehicle, NoVehicleLeak, Active,
        rideVars, vehicleVars, driverVars
<1>1. CASE Quiet
  BY <1>1 DEF Quiet
<1>2. ASSUME NEW r \in Rides, CreateRide(q, r) \/ ConvertReservation(q, r)
      PROVE  ExclusiveVehicle' /\ NoVehicleLeak'
  BY <1>2, NewRideStep
<1>3. CASE AcceptCommit(q)
  <2> DEFINE r == req[q].ride
             v == req[q].vehicle
  <2>1. /\ r \in Rides /\ v \in Vehicles
        /\ rideStatus[r] = "REQUESTED" /\ vehicleStatus[v] = "AVAILABLE"
    BY <1>3 DEF AcceptCommit, At, Remembers, Fresh
  <2>2. /\ vehicleStatus' = [vehicleStatus EXCEPT ![v] = "IN_USE"]
        /\ rideStatus' = [rideStatus EXCEPT ![r] = "ACCEPTED"]
        /\ rideVehicle' = [rideVehicle EXCEPT ![r] = v]
    BY <1>3 DEF AcceptCommit
  <2>3. ExclusiveVehicle'
    BY <2>1, <2>2
  <2>4. NoVehicleLeak'
    BY <2>1, <2>2
  <2>5. QED
    BY <2>3, <2>4
<1>4. CASE StartCommit(q)
  <2>1. /\ req[q].ride \in Rides
        /\ rideStatus[req[q].ride] = "ACCEPTED"
    BY <1>4 DEF StartCommit, At, Remembers, Fresh
  <2>2. QED
    BY <1>4, <2>1 DEF StartCommit
<1>5. ASSUME NEW r \in Rides, Active(r) \/ rideStatus[r] = "REQUESTED", Release(rideVehicle[r]),
             rideStatus'[r] \notin {"ACCEPTED", "IN_PROGRESS"},
             \A s \in Rides \ {r} : rideStatus'[s] = rideStatus[s],
             UNCHANGED rideVehicle
      PROVE  ExclusiveVehicle' /\ NoVehicleLeak'
  <2>1. rideStatus[r] = "REQUESTED" => rideVehicle[r] = NoOne
    BY DEF Unassigned
  <2>2. ExclusiveVehicle'
    BY <1>5, <2>1 DEF Release
  <2>3. ASSUME NEW v \in Vehicles, vehicleStatus'[v] = "IN_USE"
        PROVE  \E s \in Rides : Active(s)' /\ rideVehicle'[s] = v
    <3>1. vehicleStatus[v] = "IN_USE" /\ v # rideVehicle[r]
      BY <1>5, <2>3 DEF Release
    <3>2. PICK s \in Rides : Active(s) /\ rideVehicle[s] = v
      BY <3>1
    <3>3. QED
      BY <1>5, <3>1, <3>2
  <2>4. QED
    BY <2>2, <2>3
<1>6. CASE CompleteCommit(q)
  <2>1. /\ req[q].ride \in Rides
        /\ rideStatus[req[q].ride] = "IN_PROGRESS"
        /\ rideVehicle[req[q].ride] = req[q].vehicle
    BY <1>6 DEF CompleteCommit, At, Remembers, Fresh
  <2>2. /\ Release(req[q].vehicle)
        /\ rideStatus' = [rideStatus EXCEPT ![req[q].ride] = "COMPLETED"]
        /\ UNCHANGED rideVehicle
    BY <1>6 DEF CompleteCommit
  <2>3. QED
    BY <1>5, <2>1, <2>2
<1>7. CASE CancelCommit(q)
  <2>1. /\ req[q].ride \in Rides
        /\ rideStatus[req[q].ride] \in {"REQUESTED", "ACCEPTED", "IN_PROGRESS"}
        /\ rideVehicle[req[q].ride] = req[q].vehicle
    BY <1>7 DEF CancelCommit, At, Remembers, Fresh
  <2>2. /\ Release(req[q].vehicle)
        /\ rideStatus' = [rideStatus EXCEPT ![req[q].ride] = "CANCELED"]
        /\ UNCHANGED rideVehicle
    BY <1>7 DEF CancelCommit
  <2>3. QED
    BY <1>5, <2>1, <2>2
<1>8. ASSUME NEW d \in Drivers, NEW v \in Vehicles, CreateVehicle(q, d, v)
      PROVE  ExclusiveVehicle' /\ NoVehicleLeak'
  BY <1>8 DEF CreateVehicle, AssignmentConsistent, VehicleExists, VehicleStatus
<1>9. ASSUME NEW v \in Vehicles, UpdateStatus(q, v) PROVE ExclusiveVehicle' /\ NoVehicleLeak'
  <2>1. PICK s \in {"MAINTENANCE", "INACTIVE"} : vehicleStatus' = [vehicleStatus EXCEPT ![v] = s]
    BY <1>9, HandWritten
  <2>2. QED
    BY <1>9, <2>1 DEF UpdateStatus
<1>10. CASE RemoveCommit(q)
  BY <1>10 DEF RemoveCommit, DeleteRows
<1>11. ASSUME NEW d \in Drivers, DeleteDriver(q, d) PROVE ExclusiveVehicle' /\ NoVehicleLeak'
  BY <1>11 DEF DeleteDriver, DeleteRows
<1>12. QED
  BY <1>1, <1>2, <1>3, <1>4, <1>6, <1>7, <1>8, <1>9, <1>10, <1>11, SerialCases
----------------------------------------------------------------------------
\* completeRide counts a ride that is IN_PROGRESS, so not counted yet.
LEMMA PaidOnceStep ==
    ASSUME SerialInv, Disciplined, NEW q \in Requests, Handler(q)
    PROVE  PaidExactlyOnce'
<1> USE RidesAssumption
    DEF SerialInv, AssignmentInv, TypeOK, rideVars, vehicleVars, driverVars
<1>1. CASE Quiet
  BY <1>1 DEF Quiet, PaidExactlyOnce
<1>2. ASSUME NEW r \in Rides, CreateRide(q, r) \/ ConvertReservation(q, r)
      PROVE  PaidExactlyOnce'
  BY <1>2, NewRideStep DEF PaidExactlyOnce
<1>3. CASE AcceptCommit(q)
  <2>1. /\ req[q].ride \in Rides
        /\ rideStatus[req[q].ride] = "REQUESTED"
    BY <1>3 DEF AcceptCommit, At, Remembers, Fresh
  <2>2. QED
    BY <1>3, <2>1 DEF AcceptCommit, PaidExactlyOnce
<1>4. CASE StartCommit(q)
  <2>1. /\ req[q].ride \in Rides
        /\ rideStatus[req[q].ride] = "ACCEPTED"
    BY <1>4 DEF StartCommit, At, Remembers, Fresh
  <2>2. QED
    BY <1>4, <2>1 DEF StartCommit, PaidExactlyOnce
<1>5. CASE CompleteCommit(q)
  <2> DEFINE r == req[q].ride
             d == req[q].driver
  <2>1. /\ r \in Rides /\ d \in Drivers
        /\ rideStatus[r] = "IN_PROGRESS" /\ rideDriver[r] = d
    BY <1>5 DEF CompleteCommit, At, Remembers, Fresh
  <2>2. /\ counted' = IF priced[r] THEN [counted EXCEPT ![d] = [counted[d] EXCEPT ![r] = @ + 1]]
                      ELSE counted
        /\ rideStatus' = [rideStatus EXCEPT ![r] = "COMPLETED"]
        /\ rideDriver' = rideDriver /\ priced' = priced
    BY <1>5, <2>1 DEF CompleteCommit
  <2>3. \A e \in Drivers : counted[e][r] = 0
    BY <2>1 DEF PaidExactlyOnce
  <2>4. \A e \in Drivers, s \in Rides :
           counted'[e][s] = IF s = r /\ e = d /\ priced[r] THEN 1 ELSE counted[e][s]
    BY <2>1, <2>2, <2>3
  <2>5. ASSUME NEW s \in Rides, s # r
        PROVE  /\ rideStatus'[s] = rideStatus[s] /\ priced'[s] = priced[s]
               /\ \A e \in Drivers : counted'[e][s] = counted[e][s]
    BY <2>2, <2>4, <2>5
  <2>6. rideStatus'[r] = "COMPLETED" /\ rideDriver'[r] = d /\ priced'[r] = priced[r]
    BY <2>1, <2>2
  <2>7. \A e \in Drivers : counted'[e][r] = IF e = d /\ priced[r] THEN 1 ELSE 0
    BY <2>1, <2>3, <2>4
  <2>8. QED
    BY <2>1, <2>2, <2>5, <2>6, <2>7 DEF PaidExactlyOnce
<1>6. CASE CancelCommit(q)
  <2>1. /\ req[q].ride \in Rides
        /\ rideStatus[req[q].ride] \in {"REQUESTED", "ACCEPTED", "IN_PROGRESS"}
    BY <1>6 DEF CancelCommit, At, Remembers, Fresh
  <2>2. QED
    BY <1>6, <2>1 DEF CancelCommit, PaidExactlyOnce
<1>7. ASSUME NEW d \in Drivers, NEW v \in Vehicles, CreateVehicle(q, d, v) PROVE PaidExactlyOnce'
  BY <1>7 DEF CreateVehicle, PaidExactlyOnce
<1>8. ASSUME NEW v \in Vehicles, UpdateStatus(q, v) PROVE PaidExactlyOnce'
  BY <1>8 DEF UpdateStatus, PaidExactlyOnce
<1>9. CASE RemoveCommit(q)
  BY <1>9 DEF RemoveCommit, DeleteRows, PaidExactlyOnce
<1>10. ASSUME NEW d \in Drivers, DeleteDriver(q, d) PROVE PaidExactlyOnce'
  <2>1. /\ UNCHANGED <<rideStatus, priced, counted>>
        /\ \A r \in Rides : rideDriver'[r] \in {rideDriver[r], NoOne}
    BY <1>10 DEF DeleteDriver, DeleteRows
  <2>2. QED
    BY <2>1 DEF PaidExactlyOnce
<1>11. QED
  BY <1>1, <1>2, <1>3, <1>4, <1>5, <1>6, <1>7, <1>8, <1>9, <1>10, SerialCases

LEMMA AssignmentStep ==
    ASSUME AssignmentInv, NEW q \in Requests, Handler(q)
    PROVE  AssignmentInv'
BY NextAssignment DEF Handler, Next

LEMMA SerialInvariant == Serial /\ Disciplined => (Spec => []SerialInv)
<1> SUFFICES ASSUME Serial, Disciplined PROVE Spec => []SerialInv
  OBVIOUS
<1>1. Init => SerialInv
  <2> SUFFICES ASSUME Init PROVE SerialInv
    OBVIOUS
  <2>1. AssignmentInv
    BY InitTypeOK DEF Init, AssignmentInv, RemembersOwn, AssignmentConsistent, Idle
  <2>2. Fresh /\ Unassigned
    BY DEF Init, Fresh, Unassigned, Idle
  <2>3. ExclusiveVehicle /\ NoVehicleLeak /\ PaidExactlyOnce
    BY DEF Init, ExclusiveVehicle, NoVehicleLeak, PaidExactlyOnce, Active
  <2>4. QED
    BY <2>1, <2>2, <2>3 DEF SerialInv
<1>2. SerialInv /\ [Next]_vars => SerialInv'
  <2> SUFFICES ASSUME SerialInv, [Next]_vars PROVE SerialInv'
    OBVIOUS
  <2>1. ASSUME NEW q \in Requests, Handler(q) PROVE SerialInv'
    <3>1. AssignmentInv'
      BY <2>1, AssignmentStep DEF SerialInv
    <3>2. Fresh' /\ Unassigned' /\ ExclusiveVehicle' /\ NoVehicleLeak' /\ PaidExactlyOnce'
      BY <2>1, FreshStep, UnassignedStep, VehiclesStep, PaidOnceStep
    <3>3. QED
      BY <3>1, <3>2 DEF SerialInv
  <2>2. CASE UNCHANGED vars
    BY <2>2 DEF vars, rideVars, vehicleVars, driverVars, SerialInv, AssignmentInv, TypeOK,
                Remembers, RemembersOwn, AssignmentConsistent, VehicleExists, Fresh,
                HasActiveRides, Unassigned, ExclusiveVehicle, NoVehicleLeak, PaidExactlyOnce,
                Active
  <2>3. QED
    BY <2>1, <2>2 DEF Next, Handler
<1>3. QED
  BY <1>1, <1>2, PTL DEF Spec

\* One handler at a time: no two rides under way share a vehicle, and acceptRide is
\* never offered a vehicle in use.
THEOREM SerialExclusiveVehicle == Serial /\ Disciplined => (Spec => []ExclusiveVehicle)
<1>1. SerialInv => ExclusiveVehicle
  BY DEF SerialInv
<1>2. QED
  BY <1>1, SerialInvariant, PTL

\* One handler at a time: every vehicle is given back: none stays IN_USE without a ride
\* under way that has it.
THEOREM SerialNoVehicleLeak == Serial /\ Disciplined => (Spec => []NoVehicleLeak)
<1>1. SerialInv => NoVehicleLeak
  BY DEF SerialInv
<1>2. QED
  BY <1>1, SerialInvariant, PTL

\* One handler at a time: a ride is counted once when it is completed and never
\* otherwise.
THEOREM SerialPaidExactlyOnce == Serial /\ Disciplined => (Spec => []PaidExactlyOnce)
<1>1. SerialInv => PaidExactlyOnce
  BY DEF SerialInv
<1>2. QED
  BY <1>1, SerialInvariant, PTL
----------------------------------------------------------------------------
(***************************************************************************)
(* Rides implements Dispatch.                                              *)
(***************************************************************************)
Using == [r \in Rides |-> IF Active(r) THEN rideVehicle[r] ELSE NoOne]

\* The steps Dispatch does not see.
Stutter == rideStatus' = rideStatus /\ rideDriver' = rideDriver /\ Using' = Using
             /\ priced' = priced /\ counted' = counted

LEMMA DispatchStep ==
    ASSUME SerialInv, Disciplined, NEW q \in Requests, Handler(q)
    PROVE  D!Next \/ Stutter
<1> USE RidesAssumption
    DEF SerialInv, AssignmentInv, TypeOK, Active, rideVars, vehicleVars, driverVars
<1>1. CASE Quiet
  BY <1>1 DEF Quiet, Stutter, Using
<1>2. ASSUME NEW r \in Rides, CreateRide(q, r) \/ ConvertReservation(q, r) PROVE D!Request(r)
  <2>1. Using' = Using
    BY <1>2, NewRideStep DEF Using
  <2>2. QED
    BY <1>2, <2>1, NewRideStep DEF D!Request, Using
<1>3. ASSUME AcceptCommit(q)
      PROVE  \E r \in Rides, d \in Drivers, v \in Vehicles : D!Assign(r, d, v)
  <2>1. PICK r \in Rides, d \in Drivers, v \in Vehicles :
                /\ r = req[q].ride /\ d = req[q].driver /\ v = req[q].vehicle
                /\ rideStatus[r] = "REQUESTED" /\ vehicleStatus[v] = "AVAILABLE"
    BY <1>3 DEF AcceptCommit, At, Remembers, Fresh
  <2>2. /\ rideStatus' = [rideStatus EXCEPT ![r] = "ACCEPTED"]
        /\ rideDriver' = [rideDriver EXCEPT ![r] = d]
        /\ rideVehicle' = [rideVehicle EXCEPT ![r] = v]
        /\ counted' = counted /\ priced' = priced
    BY <1>3, <2>1 DEF AcceptCommit
  <2>3. \A s \in Rides : Using[s] # v
    BY <2>1 DEF Using, ExclusiveVehicle
  <2>4. Using' = [Using EXCEPT ![r] = v]
    BY <2>1, <2>2 DEF Using
  <2>5. D!Assign(r, d, v)
    BY <2>1, <2>2, <2>3, <2>4 DEF D!Assign, Using
  <2>6. QED
    BY <2>1, <2>5
<1>4. ASSUME StartCommit(q) PROVE \E r \in Rides : D!Depart(r)
  <2>1. PICK r \in Rides : r = req[q].ride /\ rideStatus[r] = "ACCEPTED"
    BY <1>4 DEF StartCommit, At, Remembers, Fresh
  <2>2. /\ rideStatus' = [rideStatus EXCEPT ![r] = "IN_PROGRESS"]
        /\ UNCHANGED <<rideDriver, rideVehicle, priced, counted>>
    BY <1>4, <2>1 DEF StartCommit
  <2>3. Using' = Using
    BY <2>1, <2>2 DEF Using
  <2>4. D!Depart(r)
    BY <2>1, <2>2, <2>3 DEF D!Depart, Using
  <2>5. QED
    BY <2>1, <2>4
<1>5. ASSUME CompleteCommit(q) PROVE \E r \in Rides, d \in Drivers : D!Arrive(r, d)
  <2>1. PICK r \in Rides, d \in Drivers :
                /\ r = req[q].ride /\ d = req[q].driver
                /\ rideStatus[r] = "IN_PROGRESS" /\ rideDriver[r] = d
    BY <1>5 DEF CompleteCommit, At, Remembers, Fresh
  <2>2. /\ counted' = IF priced[r] THEN [counted EXCEPT ![d][r] = @ + 1] ELSE counted
        /\ rideStatus' = [rideStatus EXCEPT ![r] = "COMPLETED"]
        /\ UNCHANGED <<rideDriver, rideVehicle, priced>>
    BY <1>5, <2>1 DEF CompleteCommit
  <2>3. Using' = [Using EXCEPT ![r] = NoOne]
    BY <2>1, <2>2 DEF Using
  <2>4. D!Arrive(r, d)
    BY <2>1, <2>2, <2>3 DEF D!Arrive, Using
  <2>5. QED
    BY <2>1, <2>4
<1>6. ASSUME CancelCommit(q) PROVE \E r \in Rides : D!Cancel(r)
  <2>1. PICK r \in Rides : r = req[q].ride /\ rideStatus[r] \in {"REQUESTED", "ACCEPTED", "IN_PROGRESS"}
    BY <1>6 DEF CancelCommit, At, Remembers, Fresh
  <2>2. /\ rideStatus' = [rideStatus EXCEPT ![r] = "CANCELED"]
        /\ UNCHANGED <<rideDriver, rideVehicle, priced, counted>>
    BY <1>6, <2>1 DEF CancelCommit
  <2>3. Using' = [Using EXCEPT ![r] = NoOne]
    BY <2>1, <2>2 DEF Using
  <2>4. D!Cancel(r)
    BY <2>1, <2>2, <2>3 DEF D!Cancel, Using
  <2>5. QED
    BY <2>1, <2>4
<1>7. ASSUME NEW d \in Drivers, NEW v \in Vehicles, CreateVehicle(q, d, v) PROVE Stutter
  BY <1>7 DEF CreateVehicle, Stutter, Using
<1>8. ASSUME NEW v \in Vehicles, UpdateStatus(q, v) PROVE Stutter
  BY <1>8 DEF UpdateStatus, Stutter, Using
<1>9. ASSUME RemoveCommit(q) PROVE Stutter
  <2>1. ~HasActiveRides(req[q].vehicle)
    BY <1>9 DEF RemoveCommit, At, Fresh
  <2>2. QED
    BY <1>9, <2>1 DEF RemoveCommit, DeleteRows, HasActiveRides, Stutter, Using
<1>10. ASSUME NEW d \in Drivers, DeleteDriver(q, d) PROVE D!Leave(d)
  <2>1. /\ UNCHANGED <<rideStatus, priced, counted>>
        /\ rideDriver' = [r \in Rides |-> IF rideDriver[r] = d THEN NoOne ELSE rideDriver[r]]
        /\ DeleteRows({v \in Vehicles : owner[v] = d /\ VehicleExists(v)})
    BY <1>10 DEF DeleteDriver
  <2>2. \A r \in Rides : rideVehicle'[r] = IF rideVehicle[r] # NoOne /\ rideDriver[r] = d
                                           THEN NoOne ELSE rideVehicle[r]
    BY <2>1 DEF DeleteRows, AssignmentConsistent
  <2>3. Using' = [r \in Rides |-> IF rideDriver[r] = d THEN NoOne ELSE Using[r]]
    BY <2>1, <2>2 DEF Using
  <2>4. QED
    BY <2>1, <2>3 DEF D!Leave, Using
<1>11. QED
  BY <1>1, <1>2, <1>3, <1>4, <1>5, <1>6, <1>7, <1>8, <1>9, <1>10, SerialCases DEF D!Next

\* One handler at a time: the tables go through the steps of Dispatch, request,
\* assign, depart, arrive, cancel and leave, and no others.
THEOREM SerialImplementsDispatch == Serial /\ Disciplined => (Spec => ImplementsDispatch)
<1> SUFFICES ASSUME Serial, Disciplined PROVE Spec => ImplementsDispatch
  OBVIOUS
<1>1. Init => D!Init
  BY DEF Init, D!Init, Active
<1>2. SerialInv /\ [Next]_vars => [D!Next]_(D!dispatchVars)
  <2> SUFFICES ASSUME SerialInv, [Next]_vars PROVE D!Next \/ UNCHANGED D!dispatchVars
    OBVIOUS
  <2>1. Stutter => UNCHANGED D!dispatchVars
    BY DEF Stutter, Using, D!dispatchVars
  <2>2. UNCHANGED vars => Stutter
    BY DEF vars, rideVars, driverVars, Stutter, Using, Active
  <2>3. QED
    BY <2>1, <2>2, DispatchStep DEF Next, Handler
<1>3. QED
  BY <1>1, <1>2, SerialInvariant, PTL DEF Spec, ImplementsDispatch, D!Spec
============================================================================
