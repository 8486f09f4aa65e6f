---------------------------- MODULE Reservations ----------------------------
(***************************************************************************)
(* Reservations as the handlers of ReservationsService write them, beside  *)
(* the dispatch core: a reservation is confirmed, canceled, or converted   *)
(* into a ride.                                                            *)
(*                                                                         *)
(* convertToRide checks the reservation, then creates the ride and writes  *)
(* FULFILLED in one transaction, then links the two in a query of its own: *)
(* three steps.  The other handlers check in one query and write in        *)
(* another.  `update' writes only columns no property reads.               *)
(***************************************************************************)
EXTENDS Rides

CONSTANTS
    Reservations,   \* ids that reservations can get
    Payments,       \* ids that payments can get (module Payments)
    Tasks,          \* requests on reservations and payments in progress together
    Crashes         \* whether the process or its connections may fail in mid-request

ReservationStatus == {"PENDING", "CONFIRMED", "CANCELED", "FULFILLED"}

ASSUME ReservationsAssumption ==
    /\ NoOne \notin Reservations \cup Payments
    /\ Crashes \in BOOLEAN

VARIABLES
    \* table reservations ("NONE": no row yet)
    resStatus,
    resRide,        \* rideId
    quoted,         \* estimatedPrice is set
    \* history: the reservation that convertToRide made a ride from
    madeFrom,
    \* the requests in progress: where they are and what they remember
    task

resVars == <<resStatus, resRide, quoted, madeFrom>>

TaskSteps == {"idle", "confirm", "cancel", "convert", "link",
              "create", "succeed", "process", "refund"}
NoTask == [step |-> "idle", res |-> NoOne, ride |-> NoOne, pay |-> NoOne]

ReservationsTypeOK ==
    /\ resStatus \in [Reservations -> ReservationStatus \cup {"NONE"}]
    /\ resRide \in [Reservations -> Rides \cup {NoOne}]
    /\ quoted \in [Reservations -> BOOLEAN]
    /\ madeFrom \in [Rides -> Reservations \cup {NoOne}]
    /\ task \in [Tasks -> [step : TaskSteps,
                           res : Reservations \cup {NoOne},
                           ride : Rides \cup {NoOne},
                           pay : Payments \cup {NoOne}]]

ReservationsInit ==
    /\ Init
    /\ resStatus = [b \in Reservations |-> "NONE"]
    /\ resRide = [b \in Reservations |-> NoOne]
    /\ quoted = [b \in Reservations |-> FALSE]
    /\ madeFrom = [r \in Rides |-> NoOne]
    /\ task = [t \in Tasks |-> NoTask]

----------------------------------------------------------------------------
IsFree(t) == task[t] = NoTask
Doing(t, step) == task[t].step = step
EndTask(t) == task' = [task EXCEPT ![t] = NoTask]
GoOn(t, step, b, r, p) ==
    task' = [task EXCEPT ![t] = [step |-> step, res |-> b, ride |-> r, pay |-> p]]

\* The request ends between two steps; what it has written stays.
Crash(t) ==
    /\ Crashes
    /\ ~IsFree(t)
    /\ EndTask(t)
    /\ UNCHANGED <<vars, resVars>>

\* create: the price is estimated when the client gives a distance.
CreateReservation(t, b) ==
    /\ IsFree(t)
    /\ resStatus[b] = "NONE"
    /\ resStatus' = [resStatus EXCEPT ![b] = "PENDING"]
    /\ \E known \in BOOLEAN : quoted' = [quoted EXCEPT ![b] = known]
    /\ UNCHANGED <<vars, resRide, madeFrom, task>>

ConfirmRead(t, b) ==
    /\ IsFree(t)
    /\ resStatus[b] = "PENDING"
    /\ GoOn(t, "confirm", b, NoOne, NoOne)
    /\ UNCHANGED <<vars, resVars>>

ConfirmCommit(t) ==
    /\ Doing(t, "confirm")
    /\ resStatus' = [resStatus EXCEPT ![task[t].res] = "CONFIRMED"]
    /\ EndTask(t)
    /\ UNCHANGED <<vars, resRide, quoted, madeFrom>>

\* cancel remembers the ride of the reservation it read.
CancelReservationRead(t, b) ==
    /\ IsFree(t)
    /\ resStatus[b] \in {"PENDING", "CONFIRMED"}
    /\ GoOn(t, "cancel", b, resRide[b], NoOne)
    /\ UNCHANGED <<vars, resVars>>

\* The ride, when there is one, is canceled whatever its status; its vehicle is
\* left alone.
CancelReservationCommit(t) ==
    LET r == task[t].ride
    IN  /\ Doing(t, "cancel")
        /\ resStatus' = [resStatus EXCEPT ![task[t].res] = "CANCELED"]
        /\ rideStatus' = IF r = NoOne THEN rideStatus
                         ELSE [rideStatus EXCEPT ![r] = "CANCELED"]
        /\ EndTask(t)
        /\ UNCHANGED <<rideDriver, rideVehicle, startedAt, priced, vehicleVars,
                       driverVars, req, resRide, quoted, madeFrom>>

\* (variant) the status is not checked
ConvertReadAnyStatus(t, b) ==
    /\ IsFree(t)
    /\ resStatus[b] # "NONE"
    /\ resRide[b] = NoOne
    /\ GoOn(t, "convert", b, NoOne, NoOne)
    /\ UNCHANGED <<vars, resVars>>

\* convertToRide, the checks; the reservation is due.
ConvertRead(t, b) ==
    /\ IsFree(t)
    /\ resStatus[b] \in {"PENDING", "CONFIRMED"}
    /\ resRide[b] = NoOne
    /\ GoOn(t, "convert", b, NoOne, NoOne)
    /\ UNCHANGED <<vars, resVars>>

\* (variant) the reservation keeps its status
ConvertKeepsStatus(t, r) ==
    LET b == task[t].res
    IN  /\ Doing(t, "convert")
        /\ NewRide(r, quoted[b])
        /\ madeFrom' = [madeFrom EXCEPT ![r] = b]
        /\ GoOn(t, "link", b, r, NoOne)
        /\ UNCHANGED <<vehicleVars, driverVars, req, resStatus, resRide, quoted>>

\* The transaction: the ride gets the reservation's price, if any.
ConvertCommit(t, r) ==
    LET b == task[t].res
    IN  /\ Doing(t, "convert")
        /\ NewRide(r, quoted[b])
        /\ resStatus' = [resStatus EXCEPT ![b] = "FULFILLED"]
        /\ madeFrom' = [madeFrom EXCEPT ![r] = b]
        /\ GoOn(t, "link", b, r, NoOne)
        /\ UNCHANGED <<vehicleVars, driverVars, req, resRide, quoted>>

\* (variant) the link is left for later
ConvertForgetsLink(t) ==
    /\ Doing(t, "link")
    /\ EndTask(t)
    /\ UNCHANGED <<vars, resVars>>

\* The query that links the two.
ConvertLink(t) ==
    /\ Doing(t, "link")
    /\ resRide' = [resRide EXCEPT ![task[t].res] = task[t].ride]
    /\ EndTask(t)
    /\ UNCHANGED <<vars, resStatus, quoted, madeFrom>>

ReservationStep(t) ==
    \/ \E b \in Reservations :
          \/ CreateReservation(t, b) \/ ConfirmRead(t, b)
          \/ CancelReservationRead(t, b) \/ ConvertRead(t, b)
    \/ \E r \in Rides : ConvertCommit(t, r)
    \/ ConfirmCommit(t) \/ CancelReservationCommit(t) \/ ConvertLink(t) \/ Crash(t)

\* The dispatch core, as it is when nobody touches reservations.
CoreStep(q) ==
    /\ RideStep(q) \/ VehicleStep(q) \/ DriverStep(q) \/ Fail(q)
    /\ UNCHANGED <<resVars, task>>
=============================================================================
