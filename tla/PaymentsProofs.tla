--------------------------- MODULE PaymentsProofs ---------------------------
(***************************************************************************)
(* Theorems about Payments, for every number of reservations, payments,    *)
(* rides and requests in progress, with crashes: types, what conversions   *)
(* leave behind, and that what was proved of the dispatch core still holds *)
(* when reservations and payments write its rows; then what holds for one  *)
(* request at a time, among it that Payments implements Booking.           *)
(***************************************************************************)
EXTENDS Payments, RidesProofs

TaskType == [step : TaskSteps, res : Reservations \cup {NoOne},
             ride : Rides \cup {NoOne}, pay : Payments \cup {NoOne}]

\* What a request remembers at each step is there, not NULL.
TaskRemembers ==
    \A t \in Tasks :
        /\ task[t].step \in {"confirm", "cancel", "convert", "link"}
              => task[t].res \in Reservations
        /\ task[t].step = "link" => task[t].ride \in Rides
        /\ task[t].step \in {"create", "succeed", "process", "refund"}
              => task[t].pay \in Payments

PaymentsTypeInv == PaymentsTypeOK /\ Remembers /\ TaskRemembers

----------------------------------------------------------------------------
(***************************************************************************)
(* What a step does to the rows of the dispatch core.                      *)
(***************************************************************************)

\* A ride is made from a reservation.
RideMade(r) ==
    /\ \E known \in BOOLEAN : NewRide(r, known)
    /\ UNCHANGED <<vehicleVars, driverVars, req>>

\* A reservation or a payment cancels a ride.
RideCanceled(r) ==
    /\ rideStatus' = [rideStatus EXCEPT ![r] = "CANCELED"]
    /\ UNCHANGED <<rideDriver, rideVehicle, startedAt, priced, vehicleVars, driverVars, req>>

LEMMA ReservationCases ==
    ASSUME PaymentsTypeInv, NEW t \in Tasks, ReservationStep(t)
    PROVE  UNCHANGED vars \/ \E r \in Rides : RideMade(r) \/ RideCanceled(r)
<1> USE DEF vars, rideVars
<1>1. ASSUME CancelReservationCommit(t)
      PROVE  UNCHANGED vars \/ \E r \in Rides : RideCanceled(r)
  <2>1. task[t].ride \in Rides \cup {NoOne}
    BY DEF PaymentsTypeInv, PaymentsTypeOK, ReservationsTypeOK
  <2>2. CASE task[t].ride = NoOne
    BY <1>1, <2>2 DEF CancelReservationCommit
  <2>3. CASE task[t].ride # NoOne
    BY <1>1, <2>1, <2>3 DEF CancelReservationCommit, RideCanceled
  <2>4. QED
    BY <2>2, <2>3
<1>2. ASSUME NEW r \in Rides, ConvertCommit(t, r) PROVE RideMade(r)
  <2>1. quoted[task[t].res] \in BOOLEAN
    BY <1>2 DEF ConvertCommit, Doing, PaymentsTypeInv, PaymentsTypeOK, ReservationsTypeOK,
                TaskRemembers
  <2>2. QED
    BY <1>2, <2>1 DEF ConvertCommit, RideMade
<1>3. QED
  BY <1>1, <1>2 DEF ReservationStep, CreateReservation, ConfirmRead, ConfirmCommit,
     CancelReservationRead, ConvertRead, ConvertLink, Crash

LEMMA PaymentCases ==
    ASSUME PaymentsTypeInv, NEW t \in Tasks, PaymentStep(t)
    PROVE  UNCHANGED vars \/ \E r \in Rides : RideCanceled(r)
<1> USE DEF vars, rideVars
<1>1. ASSUME NEW p \in Payments, MarkAsFailed(t, p)
      PROVE  UNCHANGED vars \/ \E r \in Rides : RideCanceled(r)
  <2>1. payRide[p] \in Rides \cup {NoOne}
    BY DEF PaymentsTypeInv, PaymentsTypeOK
  <2>2. CASE payRide[p] = NoOne
    BY <1>1, <2>2 DEF MarkAsFailed, HandlePaymentFailure
  <2>3. CASE payRide[p] # NoOne
    BY <1>1, <2>1, <2>3 DEF MarkAsFailed, HandlePaymentFailure, RideCanceled
  <2>4. QED
    BY <2>2, <2>3
<1>2. QED
  BY <1>1 DEF PaymentStep, CreatePaymentRead, CreatePaymentCommit, SucceedBegin, SucceedCommit,
     ProcessRead, ProcessCommit, RefundRead, RefundCommit

\* Seen from the dispatch core, a step of the whole is a step of one of its
\* handlers, makes a ride, cancels one, or changes nothing.
CoreHandler(q) == RideStep(q) \/ VehicleStep(q) \/ DriverStep(q) \/ Fail(q)

LEMMA CoreCases ==
    ASSUME PaymentsTypeInv, [PaymentsNext]_allVars
    PROVE  \/ \E q \in Requests : CoreHandler(q)
           \/ \E r \in Rides : RideMade(r) \/ RideCanceled(r)
           \/ UNCHANGED vars
<1>1. CASE UNCHANGED allVars
  BY <1>1 DEF allVars
<1>2. CASE CleanupPendingPayments
  BY <1>2 DEF CleanupPendingPayments
<1>3. QED
  BY <1>1, <1>2, ReservationCases, PaymentCases DEF PaymentsNext, CoreStep, CoreHandler

----------------------------------------------------------------------------
(***************************************************************************)
(* Types.                                                                  *)
(***************************************************************************)

LEMMA CoreTypeStep ==
    ASSUME PaymentsTypeInv, [PaymentsNext]_allVars
    PROVE  TypeOK' /\ Remembers'
<1>1. TypeOK /\ Remembers
  BY DEF PaymentsTypeInv, PaymentsTypeOK
<1>2. ASSUME NEW q \in Requests, CoreHandler(q) PROVE TypeOK' /\ Remembers'
  <2>1. CASE Fail(q)
    <3>1. [Next]_vars
      BY <2>1 DEF Next
    <3>2. QED
      BY <1>1, <3>1, NextTypeOK
  <2>2. QED
    BY <1>1, <1>2, <2>1, RideStepTypeOK, VehicleStepTypeOK, DriverStepTypeOK DEF CoreHandler
<1>3. ASSUME NEW r \in Rides, RideMade(r) PROVE TypeOK' /\ Remembers'
  BY <1>1, <1>3 DEF RideMade, NewRide, TypeOK, Remembers, RideStatus, vehicleVars, driverVars
<1>4. ASSUME NEW r \in Rides, RideCanceled(r) PROVE TypeOK' /\ Remembers'
  BY <1>1, <1>4 DEF RideCanceled, TypeOK, Remembers, RideStatus, vehicleVars, driverVars
<1>5. CASE UNCHANGED vars
  BY <1>1, <1>5 DEF vars, TypeOK, Remembers, rideVars, vehicleVars, driverVars
<1>6. QED
  BY <1>2, <1>3, <1>4, <1>5, CoreCases

LEMMA EndTaskType ==
    ASSUME PaymentsTypeInv, NEW t \in Tasks, EndTask(t)
    PROVE  task' \in [Tasks -> TaskType] /\ TaskRemembers'
BY DEF PaymentsTypeInv, PaymentsTypeOK, ReservationsTypeOK, TaskRemembers, EndTask, NoTask,
       TaskSteps, TaskType

LEMMA GoOnType ==
    ASSUME PaymentsTypeInv, NEW t \in Tasks, NEW step \in TaskSteps,
           NEW b \in Reservations \cup {NoOne}, NEW r \in Rides \cup {NoOne},
           NEW p \in Payments \cup {NoOne},
           step \in {"confirm", "cancel", "convert", "link"} => b \in Reservations,
           step = "link" => r \in Rides,
           step \in {"create", "succeed", "process", "refund"} => p \in Payments,
           GoOn(t, step, b, r, p)
    PROVE  task' \in [Tasks -> TaskType] /\ TaskRemembers'
<1>1. task' \in [Tasks -> TaskType]
  BY DEF PaymentsTypeInv, PaymentsTypeOK, ReservationsTypeOK, GoOn, TaskType
<1>2. \A u \in Tasks \ {t} : task'[u] = task[u]
  BY DEF PaymentsTypeInv, PaymentsTypeOK, ReservationsTypeOK, GoOn
<1>3. task'[t] = [step |-> step, res |-> b, ride |-> r, pay |-> p]
  BY DEF PaymentsTypeInv, PaymentsTypeOK, ReservationsTypeOK, GoOn
<1>4. QED
  BY <1>1, <1>2, <1>3 DEF PaymentsTypeInv, TaskRemembers

RowsTypeOK ==
    /\ resStatus \in [Reservations -> ReservationStatus \cup {"NONE"}]
    /\ resRide \in [Reservations -> Rides \cup {NoOne}]
    /\ quoted \in [Reservations -> BOOLEAN]
    /\ madeFrom \in [Rides -> Reservations \cup {NoOne}]
    /\ payStatus \in [Payments -> PaymentStatus \cup {"NONE"}]
    /\ fee \in [Payments -> BOOLEAN]
    /\ payRide \in [Payments -> Rides \cup {NoOne}]
    /\ payRes \in [Payments -> Reservations \cup {NoOne}]

LEMMA ReservationTypeStep ==
    ASSUME PaymentsTypeInv, NEW t \in Tasks, ReservationStep(t), UNCHANGED payVars
    PROVE  RowsTypeOK' /\ task' \in [Tasks -> TaskType] /\ TaskRemembers'
<1> DEFINE Goal == RowsTypeOK' /\ task' \in [Tasks -> TaskType] /\ TaskRemembers'
<1> USE DEF resVars, payVars
<1>1. RowsTypeOK /\ task \in [Tasks -> TaskType] /\ TaskRemembers
  BY DEF PaymentsTypeInv, PaymentsTypeOK, ReservationsTypeOK, RowsTypeOK, TaskType
<1>2. ASSUME NEW b \in Reservations, CreateReservation(t, b) PROVE Goal
  BY <1>1, <1>2 DEF CreateReservation, RowsTypeOK, ReservationStatus, TaskRemembers
<1>3. ASSUME NEW b \in Reservations, ConfirmRead(t, b) PROVE Goal
  BY <1>1, <1>3, GoOnType DEF ConfirmRead, RowsTypeOK, TaskSteps
<1>4. ASSUME NEW b \in Reservations, CancelReservationRead(t, b) PROVE Goal
  <2>1. resRide[b] \in Rides \cup {NoOne}
    BY <1>1 DEF RowsTypeOK
  <2>2. QED
    BY ZenonT(60), <1>1, <1>4, <2>1, GoOnType DEF CancelReservationRead, RowsTypeOK, TaskSteps
<1>5. ASSUME NEW b \in Reservations, ConvertRead(t, b) PROVE Goal
  BY ZenonT(60), <1>1, <1>5, GoOnType DEF ConvertRead, RowsTypeOK, TaskSteps
<1>6. ASSUME NEW r \in Rides, ConvertCommit(t, r) PROVE Goal
  <2>1. task[t].res \in Reservations
    BY <1>1, <1>6 DEF ConvertCommit, Doing, TaskRemembers
  <2>2. task' \in [Tasks -> TaskType] /\ TaskRemembers'
    BY <1>6, <2>1, GoOnType DEF ConvertCommit, TaskSteps
  <2>3. QED
    BY <1>1, <1>6, <2>1, <2>2 DEF ConvertCommit, RowsTypeOK, ReservationStatus
<1>7. CASE ConfirmCommit(t)
  BY <1>1, <1>7, EndTaskType DEF ConfirmCommit, RowsTypeOK, ReservationStatus
<1>8. CASE CancelReservationCommit(t)
  BY <1>1, <1>8, EndTaskType DEF CancelReservationCommit, RowsTypeOK, ReservationStatus
<1>9. CASE ConvertLink(t)
  <2>1. task[t].ride \in Rides
    BY <1>1, <1>9 DEF ConvertLink, Doing, TaskRemembers
  <2>2. QED
    BY <1>1, <1>9, <2>1, EndTaskType DEF ConvertLink, RowsTypeOK
<1>10. CASE Crash(t)
  BY <1>1, <1>10, EndTaskType DEF Crash, RowsTypeOK
<1>11. QED
  BY <1>2, <1>3, <1>4, <1>5, <1>6, <1>7, <1>8, <1>9, <1>10 DEF ReservationStep

LEMMA PaymentTypeStep ==
    ASSUME PaymentsTypeInv, NEW t \in Tasks, PaymentStep(t)
    PROVE  RowsTypeOK' /\ task' \in [Tasks -> TaskType] /\ TaskRemembers'
<1> DEFINE Goal == RowsTypeOK' /\ task' \in [Tasks -> TaskType] /\ TaskRemembers'
<1> USE DEF resVars, payVars
<1>1. RowsTypeOK /\ task \in [Tasks -> TaskType] /\ TaskRemembers
  BY DEF PaymentsTypeInv, PaymentsTypeOK, ReservationsTypeOK, RowsTypeOK, TaskType
<1>2. ASSUME NEW p \in Payments, NEW r \in Rides \cup {NoOne}, NEW b \in Reservations \cup {NoOne},
             CreatePaymentRead(t, p, r, b)
      PROVE  Goal
  BY <1>1, <1>2, GoOnType DEF CreatePaymentRead, RowsTypeOK, TaskSteps
<1>3. CASE CreatePaymentCommit(t)
  <2>1. /\ task[t].pay \in Payments
        /\ task[t].ride \in Rides \cup {NoOne}
        /\ task[t].res \in Reservations \cup {NoOne}
    BY <1>1, <1>3 DEF CreatePaymentCommit, Doing, TaskRemembers, TaskType
  <2>2. task' \in [Tasks -> TaskType] /\ TaskRemembers'
    BY <1>3, EndTaskType DEF CreatePaymentCommit
  <2>3. CASE OwnWritesVisible
    BY <1>1, <1>3, <2>1, <2>2, <2>3 DEF CreatePaymentCommit, RowsTypeOK, PaymentStatus
  <2>4. CASE ~OwnWritesVisible
    BY <1>1, <1>3, <2>2, <2>4 DEF CreatePaymentCommit, RowsTypeOK
  <2>5. QED
    BY <2>3, <2>4
<1>4. ASSUME NEW p \in Payments, SucceedBegin(t, p) PROVE Goal
  <2> DEFINE b == IF payRes[p] # NoOne /\ resStatus[payRes[p]] = "PENDING" THEN payRes[p] ELSE NoOne
  <2>1. b \in Reservations \cup {NoOne}
    BY <1>1 DEF RowsTypeOK
  <2>2. GoOn(t, "succeed", b, NoOne, p) /\ UNCHANGED <<resVars, payVars>>
    BY <1>4 DEF SucceedBegin
  <2> HIDE DEF b
  <2>3. QED
    BY <1>1, <2>1, <2>2, GoOnType DEF RowsTypeOK, TaskSteps
<1>5. CASE SucceedCommit(t)
  BY <1>1, <1>5, EndTaskType DEF SucceedCommit, RowsTypeOK, PaymentStatus, ReservationStatus
<1>6. ASSUME NEW p \in Payments, MarkAsFailed(t, p) PROVE Goal
  BY <1>1, <1>6 DEF MarkAsFailed, HandlePaymentFailure, RowsTypeOK, PaymentStatus,
                    ReservationStatus, TaskRemembers
<1>7. ASSUME NEW p \in Payments, ProcessRead(t, p) PROVE Goal
  BY <1>1, <1>7, GoOnType DEF ProcessRead, RowsTypeOK, TaskSteps
<1>8. CASE ProcessCommit(t)
  BY <1>1, <1>8, EndTaskType DEF ProcessCommit, RowsTypeOK, PaymentStatus
<1>9. ASSUME NEW p \in Payments, RefundRead(t, p) PROVE Goal
  BY <1>1, <1>9, GoOnType DEF RefundRead, RowsTypeOK, TaskSteps
<1>10. CASE RefundCommit(t)
  BY <1>1, <1>10, EndTaskType DEF RefundCommit, RowsTypeOK, PaymentStatus
<1>11. QED
  BY <1>2, <1>3, <1>4, <1>5, <1>6, <1>7, <1>8, <1>9, <1>10 DEF PaymentStep

LEMMA PaymentsTypeStep ==
    ASSUME PaymentsTypeInv, [PaymentsNext]_allVars
    PROVE  PaymentsTypeInv'
<1> USE DEF resVars, payVars
<1>1. TypeOK' /\ Remembers'
  BY CoreTypeStep
<1>2. RowsTypeOK /\ task \in [Tasks -> TaskType] /\ TaskRemembers
  BY DEF PaymentsTypeInv, PaymentsTypeOK, ReservationsTypeOK, RowsTypeOK, TaskType
<1>3. RowsTypeOK' /\ task' \in [Tasks -> TaskType] /\ TaskRemembers'
  <2>1. CASE UNCHANGED <<resVars, task, payVars>>
    BY <1>2, <2>1 DEF RowsTypeOK, TaskRemembers
  <2>2. CASE CleanupPendingPayments
    <3>1. payStatus' \in [Payments -> PaymentStatus \cup {"NONE"}]
      BY <1>2, <2>2 DEF CleanupPendingPayments, RowsTypeOK, PaymentStatus
    <3>2. QED
      BY <1>2, <2>2, <3>1 DEF CleanupPendingPayments, RowsTypeOK, TaskRemembers
  <2>3. QED
    BY <2>1, <2>2, ReservationTypeStep, PaymentTypeStep
    DEF PaymentsNext, CoreStep, allVars
<1>4. QED
  BY <1>1, <1>3 DEF PaymentsTypeInv, PaymentsTypeOK, ReservationsTypeOK, RowsTypeOK, TaskType

LEMMA PaymentsTypeInvariant == PaymentsSpec => []PaymentsTypeInv
<1>1. PaymentsInit => PaymentsTypeInv
  BY InitTypeOK DEF PaymentsInit, ReservationsInit, PaymentsTypeInv, PaymentsTypeOK,
     ReservationsTypeOK, TaskRemembers, NoTask, TaskSteps
<1>2. PaymentsTypeInv /\ [PaymentsNext]_allVars => PaymentsTypeInv'
  BY PaymentsTypeStep
<1>3. QED
  BY <1>1, <1>2, PTL DEF PaymentsSpec

\* The tables of reservations, payments and rides, and the records of the requests
\* on them, always have their types, and a request about to write knows its rows.
THEOREM PaymentsTypeCorrect == PaymentsSpec => [](PaymentsTypeOK /\ Remembers /\ TaskRemembers)
BY PaymentsTypeInvariant, PTL DEF PaymentsTypeInv

----------------------------------------------------------------------------
(***************************************************************************)
(* Conversions, however requests interleave and crash.                     *)
(***************************************************************************)

\* A reservation that a ride was made from has a row; a request about to link
\* still knows a ride of its reservation, which no longer looks PENDING.
Linking ==
    /\ \A r \in Rides : madeFrom[r] # NoOne => resStatus[madeFrom[r]] # "NONE"
    /\ \A t \in Tasks : task[t].step = "link" =>
          /\ madeFrom[task[t].ride] = task[t].res
          /\ resStatus[task[t].res] # "PENDING"

ConversionsInv == PaymentsTypeInv /\ Linking /\ ConversionsMatch

\* The dispatch core never unmakes a ride, nor changes its fare.
LEMMA CoreKeepsRides ==
    ASSUME PaymentsTypeInv, NEW q \in Requests, CoreHandler(q)
    PROVE  \A r \in Rides : rideStatus[r] # "NONE" =>
              rideStatus'[r] # "NONE" /\ priced'[r] = priced[r]
<1> USE DEF rideVars
<1>1. TypeOK
  BY DEF PaymentsTypeInv, PaymentsTypeOK
<1>2. CASE RideStep(q)
  BY <1>1, <1>2 DEF RideStep, CreateRide, NewRide, CancelRead, AcceptReadDriver, StartRead,
     CompleteRead, AcceptReadRide, AcceptCommit, StartCommit, CompleteCommit, CancelCommit, TypeOK
<1>3. CASE VehicleStep(q) \/ DriverStep(q) \/ Fail(q)
  BY <1>3 DEF VehicleStep, CreateVehicle, UpdateStatus, VerifyVehicle, RemoveRead, AutoVerifyVehicle,
     RemoveCommit, DriverStep, UpdateUserStatus, UpdateDriverProfile, DeleteDriver, ApproveDriver,
     AutoApproveAll, ApproveDriverVehicles, Fail
<1>4. QED
  BY <1>2, <1>3 DEF CoreHandler

LEMMA ReservationStepConversions ==
    ASSUME ConversionsInv, NEW t \in Tasks, ReservationStep(t)
    PROVE  Linking' /\ ConversionsMatch'
<1> USE DEF ConversionsInv, PaymentsTypeInv, PaymentsTypeOK, ReservationsTypeOK, Linking,
            ConversionsMatch, resVars, vars, rideVars
<1>1. ASSUME NEW b \in Reservations, CreateReservation(t, b) PROVE Linking' /\ ConversionsMatch'
  BY <1>1, ReservationsAssumption DEF CreateReservation, TaskRemembers
<1>2. ASSUME NEW b \in Reservations,
             ConfirmRead(t, b) \/ CancelReservationRead(t, b) \/ ConvertRead(t, b)
      PROVE  Linking' /\ ConversionsMatch'
  BY SMTT(30), <1>2 DEF ConfirmRead, CancelReservationRead, ConvertRead, GoOn
<1>3. ASSUME NEW r \in Rides, ConvertCommit(t, r) PROVE Linking' /\ ConversionsMatch'
  <2>1. task[t].res \in Reservations
    BY <1>3 DEF ConvertCommit, Doing, TaskRemembers
  <2>2. madeFrom[r] = NoOne /\ rideStatus[r] = "NONE"
    BY <1>3 DEF ConvertCommit, NewRide
  <2>3. Linking'
    BY <1>3, <2>1, <2>2, ReservationsAssumption DEF ConvertCommit, NewRide, GoOn, TypeOK, TaskRemembers
  <2>4. ConversionsMatch'
    BY <1>3, <2>1, <2>2, ReservationsAssumption DEF ConvertCommit, NewRide, TypeOK
  <2>5. QED
    BY <2>3, <2>4
<1>4. CASE ConfirmCommit(t)
  BY <1>4 DEF ConfirmCommit, EndTask, NoTask
<1>5. CASE CancelReservationCommit(t)
  BY <1>5 DEF CancelReservationCommit, EndTask, NoTask, TypeOK
<1>6. CASE ConvertLink(t)
  BY <1>6, ReservationsAssumption DEF ConvertLink, Doing, TaskRemembers, EndTask, NoTask
<1>7. CASE Crash(t)
  BY <1>7 DEF Crash, EndTask, NoTask
<1>8. QED
  BY <1>1, <1>2, <1>3, <1>4, <1>5, <1>6, <1>7 DEF ReservationStep

LEMMA PaymentStepConversions ==
    ASSUME ConversionsInv, NEW t \in Tasks, PaymentStep(t)
    PROVE  Linking' /\ ConversionsMatch'
<1> USE DEF ConversionsInv, PaymentsTypeInv, PaymentsTypeOK, ReservationsTypeOK, Linking,
            ConversionsMatch, resVars, vars, rideVars
<1>1. ASSUME NEW p \in Payments, NEW r \in Rides \cup {NoOne}, NEW b \in Reservations \cup {NoOne},
             CreatePaymentRead(t, p, r, b)
      PROVE  Linking' /\ ConversionsMatch'
  BY <1>1 DEF CreatePaymentRead, GoOn
<1>2. ASSUME NEW p \in Payments, SucceedBegin(t, p) \/ ProcessRead(t, p) \/ RefundRead(t, p)
      PROVE  Linking' /\ ConversionsMatch'
  BY <1>2 DEF SucceedBegin, ProcessRead, RefundRead, GoOn
<1>3. CASE CreatePaymentCommit(t) \/ ProcessCommit(t) \/ RefundCommit(t)
  BY <1>3 DEF CreatePaymentCommit, ProcessCommit, RefundCommit, EndTask, NoTask
<1>4. CASE SucceedCommit(t)
  BY <1>4 DEF SucceedCommit, EndTask, NoTask
<1>5. ASSUME NEW p \in Payments, MarkAsFailed(t, p) PROVE Linking' /\ ConversionsMatch'
  BY <1>5 DEF MarkAsFailed, HandlePaymentFailure, TypeOK
<1>6. QED
  BY <1>1, <1>2, <1>3, <1>4, <1>5 DEF PaymentStep

\* Whatever interleaves and crashes, a reservation's ride was made from it at its
\* price, a FULFILLED one has a ride, and none that has a ride looks PENDING.
THEOREM PaymentsConversionsMatch == PaymentsSpec => []ConversionsMatch
<1>1. PaymentsInit => ConversionsInv
  <2> SUFFICES ASSUME PaymentsInit PROVE ConversionsInv
    OBVIOUS
  <2>1. PaymentsTypeInv
    BY InitTypeOK DEF PaymentsInit, ReservationsInit, PaymentsTypeInv, PaymentsTypeOK,
       ReservationsTypeOK, TaskRemembers, NoTask, TaskSteps
  <2>2. QED
    BY <2>1 DEF PaymentsInit, ReservationsInit, ConversionsInv, Linking, ConversionsMatch, NoTask
<1>2. ConversionsInv /\ [PaymentsNext]_allVars => ConversionsInv'
  <2> SUFFICES ASSUME ConversionsInv, [PaymentsNext]_allVars PROVE Linking' /\ ConversionsMatch'
    BY PaymentsTypeStep DEF ConversionsInv
  <2> USE DEF ConversionsInv, Linking, ConversionsMatch, resVars
  <2>1. ASSUME NEW q \in Requests, CoreStep(q) PROVE Linking' /\ ConversionsMatch'
    <3>1. UNCHANGED <<resStatus, resRide, quoted, madeFrom, task>>
      BY <2>1 DEF CoreStep
    <3>2. \A r \in Rides : rideStatus[r] # "NONE" =>
             rideStatus'[r] # "NONE" /\ priced'[r] = priced[r]
      BY <2>1, CoreKeepsRides DEF CoreStep, CoreHandler
    <3>3. QED
      BY <3>1, <3>2
  <2>2. CASE CleanupPendingPayments
    BY <2>2 DEF CleanupPendingPayments, vars, rideVars
  <2>3. CASE UNCHANGED allVars
    BY <2>3 DEF allVars, vars, rideVars
  <2>4. QED
    BY <2>1, <2>2, <2>3, ReservationStepConversions, PaymentStepConversions DEF PaymentsNext
<1>3. ConversionsInv => ConversionsMatch
  BY DEF ConversionsInv
<1>4. QED
  BY <1>1, <1>2, <1>3, PTL DEF PaymentsSpec

----------------------------------------------------------------------------
(***************************************************************************)
(* What was proved of the dispatch core holds when reservations and        *)
(* payments write its rows.                                                *)
(***************************************************************************)

\* A handler of the core is a step of Rides.
LEMMA CoreIsNext == \A q \in Requests : CoreHandler(q) => Next
BY DEF CoreHandler, Next

\* A ride that a webhook or a reservation cancels keeps its driver and its vehicle,
\* which stay consistent with the vehicle's row.
THEOREM PaymentsAssignmentConsistent == PaymentsSpec => []AssignmentConsistent
<1>1. PaymentsInit => AssignmentInv
  BY InitTypeOK
  DEF PaymentsInit, ReservationsInit, Init, AssignmentInv, RemembersOwn, AssignmentConsistent, Idle
<1>2. PaymentsTypeInv /\ AssignmentInv /\ [PaymentsNext]_allVars => AssignmentInv'
  <2> SUFFICES ASSUME PaymentsTypeInv, AssignmentInv, [PaymentsNext]_allVars PROVE AssignmentInv'
    OBVIOUS
  <2>1. TypeOK' /\ Remembers'
    BY CoreTypeStep
  <2>2. CASE UNCHANGED vars \/ \E q \in Requests : CoreHandler(q)
    BY <2>2, CoreIsNext, NextAssignment
  <2>3. ASSUME NEW r \in Rides, RideMade(r) \/ RideCanceled(r)
        PROVE  RemembersOwn' /\ AssignmentConsistent'
    BY <2>3 DEF RideMade, NewRide, RideCanceled, AssignmentInv, RemembersOwn, AssignmentConsistent,
                VehicleExists, vehicleVars, driverVars
  <2>4. QED
    BY <2>1, <2>2, <2>3, CoreCases DEF AssignmentInv
<1>3. AssignmentInv => AssignmentConsistent
  BY DEF AssignmentInv
<1>4. QED
  BY <1>1, <1>2, <1>3, PaymentsTypeInvariant, PTL DEF PaymentsSpec

\* A ride canceled by a late webhook, even a completed one, does not make the totals
\* wrong: a COMPLETED ride was counted and only trips that started were.
THEOREM PaymentsPaidForTrips == PaymentsSpec => []PaidForTrips
<1>1. PaymentsInit => PaidInv
  BY InitTypeOK
  DEF PaymentsInit, ReservationsInit, Init, PaidInv, TripsStarted, PaidForTrips, Idle
<1>2. PaymentsTypeInv /\ PaidInv /\ [PaymentsNext]_allVars => PaidInv'
  <2> SUFFICES ASSUME PaymentsTypeInv, PaidInv, [PaymentsNext]_allVars PROVE PaidInv'
    OBVIOUS
  <2>1. TypeOK' /\ Remembers'
    BY CoreTypeStep
  <2>2. CASE UNCHANGED vars \/ \E q \in Requests : CoreHandler(q)
    BY <2>2, CoreIsNext, NextPaid
  <2>3. ASSUME NEW r \in Rides, RideMade(r) \/ RideCanceled(r)
        PROVE  TripsStarted' /\ PaidForTrips'
    BY <2>3 DEF RideMade, NewRide, RideCanceled, PaidInv, TypeOK, TripsStarted, PaidForTrips,
                driverVars
  <2>4. QED
    BY <2>1, <2>2, <2>3, CoreCases DEF PaidInv
<1>3. PaidInv => PaidForTrips
  BY DEF PaidInv
<1>4. QED
  BY <1>1, <1>2, <1>3, PaymentsTypeInvariant, PTL DEF PaymentsSpec

\* Webhooks and reservations cancel rides, but never offer one again nor take its
\* driver off it.
THEOREM PaymentsNeverOfferedAgain == PaymentsSpec => NeverOfferedAgain
<1>1. PaymentsTypeInv /\ [PaymentsNext]_allVars => [\A r \in Rides : OfferedOnce(r)]_vars
  <2> SUFFICES ASSUME PaymentsTypeInv, [PaymentsNext]_allVars, ~UNCHANGED vars
               PROVE  \A r \in Rides : OfferedOnce(r)
    OBVIOUS
  <2>1. TypeOK /\ Remembers
    BY DEF PaymentsTypeInv, PaymentsTypeOK
  <2>2. CASE \E q \in Requests : CoreHandler(q)
    BY <2>1, <2>2, CoreIsNext, NextOffers
  <2>3. ASSUME NEW s \in Rides, RideMade(s) \/ RideCanceled(s)
        PROVE  \A r \in Rides : OfferedOnce(r)
    BY <2>1, <2>3 DEF RideMade, NewRide, RideCanceled, OfferedOnce, TypeOK
  <2>4. QED
    BY <2>2, <2>3, CoreCases
<1>2. QED
  BY <1>1, PaymentsTypeInvariant, PTL DEF PaymentsSpec, NeverOfferedAgain, OfferedOnce

----------------------------------------------------------------------------
(***************************************************************************)
(* When requests on reservations and payments run one after the other,     *)
(* beside any number of dispatch handlers and the clean-up: refunds,       *)
(* conversions, and that Payments implements Booking.                      *)
(***************************************************************************)

\* What the one request has read is still true when it writes.
FreshTask ==
    \A t \in Tasks :
        LET b == task[t].res
        IN  /\ Doing(t, "confirm") => resStatus[b] = "PENDING"
            /\ Doing(t, "cancel") \/ Doing(t, "convert") => resStatus[b] \in {"PENDING", "CONFIRMED"}
            /\ Doing(t, "succeed") /\ b # NoOne => resStatus[b] = "PENDING"
            /\ Doing(t, "create") /\ b # NoOne => resStatus[b] # "NONE"
            /\ Doing(t, "refund") => payStatus[task[t].pay] = "SUCCEEDED"

\* A ride comes only from a reservation that shows it, a payment's reservation
\* exists, and a payment that succeeded has its fee.
Booked ==
    /\ \A b \in Reservations : resStatus[b] \in {"NONE", "PENDING", "CONFIRMED"} =>
          \A r \in Rides : madeFrom[r] # b
    /\ \A p \in Payments : payRes[p] # NoOne => resStatus[payRes[p]] # "NONE"
    /\ \A p \in Payments : payStatus[p] = "SUCCEEDED" => fee[p]
    /\ ConvertedOnce

BookingInv == PaymentsTypeInv /\ FreshTask /\ Booked

----------------------------------------------------------------------------
\* With one request in progress there is nothing to remember once it ends.
LEMMA Ended ==
    ASSUME OneTask, PaymentsTypeInv, NEW t \in Tasks,
           EndTask(t) \/ (IsFree(t) /\ UNCHANGED task)
    PROVE  FreshTask'
<1>1. task'[t] = NoTask
  BY DEF EndTask, IsFree, PaymentsTypeInv, PaymentsTypeOK, ReservationsTypeOK
<1>2. QED
  BY <1>1 DEF OneTask, FreshTask, Doing, NoTask

LEMMA WentOn ==
    ASSUME OneTask, PaymentsTypeInv, NEW t \in Tasks, NEW step, NEW b, NEW r, NEW p,
           GoOn(t, step, b, r, p),
           step = "confirm" => resStatus'[b] = "PENDING",
           step \in {"cancel", "convert"} => resStatus'[b] \in {"PENDING", "CONFIRMED"},
           step = "succeed" /\ b # NoOne => resStatus'[b] = "PENDING",
           step = "create" /\ b # NoOne => resStatus'[b] # "NONE",
           step = "refund" => payStatus'[p] = "SUCCEEDED"
    PROVE  FreshTask'
<1>1. \A u \in Tasks : task'[u] = [step |-> step, res |-> b, ride |-> r, pay |-> p]
  BY DEF OneTask, GoOn, PaymentsTypeInv, PaymentsTypeOK, ReservationsTypeOK
<1>2. QED
  BY <1>1 DEF FreshTask, Doing

LEMMA ReservationStepBooked ==
    ASSUME OneTask, BookingInv, NEW t \in Tasks, ReservationStep(t), UNCHANGED payVars
    PROVE  FreshTask' /\ Booked'
<1> USE ReservationsAssumption DEF BookingInv, Booked, ConvertedOnce, resVars, payVars
<1> USE DEF RowsTypeOK
<1>0. RowsTypeOK
  BY DEF PaymentsTypeInv, PaymentsTypeOK, ReservationsTypeOK
<1>1. ASSUME NEW b \in Reservations, CreateReservation(t, b) PROVE FreshTask' /\ Booked'
  BY <1>0, <1>1, Ended DEF CreateReservation
<1>2. ASSUME NEW b \in Reservations, ConfirmRead(t, b) PROVE FreshTask' /\ Booked'
  BY <1>0, <1>2, WentOn DEF ConfirmRead
<1>3. ASSUME NEW b \in Reservations, CancelReservationRead(t, b) PROVE FreshTask' /\ Booked'
  BY <1>0, <1>3, WentOn DEF CancelReservationRead
<1>4. ASSUME NEW b \in Reservations, ConvertRead(t, b) PROVE FreshTask' /\ Booked'
  BY <1>0, <1>4, WentOn DEF ConvertRead
<1>5. ASSUME NEW r \in Rides, ConvertCommit(t, r) PROVE FreshTask' /\ Booked'
  <2>1. task[t].res \in Reservations /\ resStatus[task[t].res] \in {"PENDING", "CONFIRMED"}
    BY <1>5 DEF ConvertCommit, FreshTask, Doing, PaymentsTypeInv, TaskRemembers
  <2>2. FreshTask'
    BY <1>0, <1>5, WentOn DEF ConvertCommit
  <2>3. Booked'
    BY <1>0, <1>5, <2>1 DEF ConvertCommit
  <2>4. QED
    BY <2>2, <2>3
<1>6. CASE ConfirmCommit(t)
  BY <1>0, <1>6, Ended DEF ConfirmCommit, FreshTask, Doing
<1>7. CASE CancelReservationCommit(t)
  BY <1>0, <1>7, Ended DEF CancelReservationCommit
<1>8. CASE ConvertLink(t)
  BY <1>0, <1>8, Ended DEF ConvertLink
<1>9. CASE Crash(t)
  BY <1>0, <1>9, Ended DEF Crash
<1>10. QED
  BY <1>1, <1>2, <1>3, <1>4, <1>5, <1>6, <1>7, <1>8, <1>9 DEF ReservationStep

LEMMA PaymentStepBooked ==
    ASSUME OneTask, BookingInv, NEW t \in Tasks, PaymentStep(t)
    PROVE  FreshTask' /\ Booked'
<1> USE ReservationsAssumption DEF BookingInv, Booked, ConvertedOnce, resVars, payVars
<1> USE DEF RowsTypeOK
<1>0. RowsTypeOK
  BY DEF PaymentsTypeInv, PaymentsTypeOK, ReservationsTypeOK
<1>1. ASSUME NEW p \in Payments, NEW r \in Rides \cup {NoOne}, NEW b \in Reservations \cup {NoOne},
             CreatePaymentRead(t, p, r, b)
      PROVE  FreshTask' /\ Booked'
  BY <1>0, <1>1, WentOn DEF CreatePaymentRead
<1>2. CASE CreatePaymentCommit(t)
  <2>1. FreshTask'
    BY <1>0, <1>2, Ended DEF CreatePaymentCommit
  <2>2. task[t].res # NoOne => resStatus[task[t].res] # "NONE"
    BY <1>0, <1>2 DEF CreatePaymentCommit, FreshTask, Doing
  <2>3. Booked'
    BY <1>0, <1>2, <2>2 DEF CreatePaymentCommit
  <2>4. QED
    BY <2>1, <2>3
<1>3. ASSUME NEW p \in Payments, SucceedBegin(t, p) PROVE FreshTask' /\ Booked'
  <2> DEFINE b == IF payRes[p] # NoOne /\ resStatus[payRes[p]] = "PENDING" THEN payRes[p] ELSE NoOne
  <2>1. GoOn(t, "succeed", b, NoOne, p) /\ UNCHANGED <<resVars, payVars>>
    BY <1>0, <1>3 DEF SucceedBegin
  <2>2. b # NoOne => resStatus[b] = "PENDING"
    OBVIOUS
  <2> HIDE DEF b
  <2>3. QED
    BY <2>1, <2>2, WentOn
<1>4. CASE SucceedCommit(t)
  <2>1. FreshTask'
    BY <1>0, <1>4, Ended DEF SucceedCommit
  <2>2. task[t].res # NoOne => resStatus[task[t].res] = "PENDING"
    BY <1>0, <1>4 DEF SucceedCommit, FreshTask, Doing
  <2>3. Booked'
    BY <1>0, <1>4, <2>2 DEF SucceedCommit
  <2>4. QED
    BY <2>1, <2>3
<1>5. ASSUME NEW p \in Payments, MarkAsFailed(t, p) PROVE FreshTask' /\ Booked'
  BY <1>0, <1>5, Ended DEF MarkAsFailed, HandlePaymentFailure
<1>6. ASSUME NEW p \in Payments, ProcessRead(t, p) \/ RefundRead(t, p) PROVE FreshTask' /\ Booked'
  BY <1>0, <1>6, WentOn DEF ProcessRead, RefundRead
<1>7. CASE ProcessCommit(t)
  BY <1>0, <1>7, Ended DEF ProcessCommit
<1>8. CASE RefundCommit(t)
  BY <1>0, <1>8, Ended DEF RefundCommit
<1>9. QED
  BY <1>1, <1>2, <1>3, <1>4, <1>5, <1>6, <1>7, <1>8 DEF PaymentStep

\* The steps that neither a reservation nor a payment request takes.
LEMMA OtherStepBooked ==
    ASSUME BookingInv, (\E q \in Requests : CoreStep(q) /\ UNCHANGED payVars)
                       \/ CleanupPendingPayments \/ UNCHANGED allVars
    PROVE  FreshTask' /\ Booked'
<1> USE DEF BookingInv, PaymentsTypeInv, PaymentsTypeOK, Booked, ConvertedOnce, resVars, payVars,
            FreshTask, Doing
<1>1. CASE UNCHANGED <<resVars, task, payVars>>
  BY <1>1
<1>2. CASE CleanupPendingPayments
  <2>0. PICK old \in SUBSET {p \in Payments : payStatus[p] = "PENDING"} :
           /\ payStatus' = [p \in Payments |-> IF p \in old THEN "FAILED" ELSE payStatus[p]]
           /\ UNCHANGED <<resVars, task, fee, payRes>>
    BY <1>2 DEF CleanupPendingPayments
  <2>1. /\ UNCHANGED <<resVars, task, fee, payRes>>
        /\ \A p \in Payments : \/ payStatus'[p] = payStatus[p]
                               \/ (payStatus[p] = "PENDING" /\ payStatus'[p] = "FAILED")
    BY <2>0
  <2>2. UNCHANGED <<resStatus, task>>
    BY <2>1
  <2>3. ASSUME NEW t \in Tasks, task[t].step = "refund" PROVE payStatus'[task[t].pay] = "SUCCEEDED"
    <3>1. task[t].pay \in Payments
      BY <2>3 DEF TaskRemembers
    <3>2. payStatus[task[t].pay] = "SUCCEEDED"
      BY <2>3
    <3>3. QED
      BY <2>1, <3>1, <3>2
  <2>4. FreshTask'
    BY <2>2, <2>3
  <2>5. Booked'
    BY <2>1
  <2>6. QED
    BY <2>4, <2>5
<1>3. QED
  BY <1>1, <1>2 DEF CoreStep, allVars

LEMMA BookingInvariant == OneTask => (PaymentsSpec => []BookingInv)
<1> SUFFICES ASSUME OneTask PROVE PaymentsSpec => []BookingInv
  OBVIOUS
<1>1. PaymentsInit => FreshTask /\ Booked
  BY ReservationsAssumption
  DEF PaymentsInit, ReservationsInit, FreshTask, Doing, NoTask, Booked, ConvertedOnce
<1>2. PaymentsInit => PaymentsTypeInv
  BY InitTypeOK DEF PaymentsInit, ReservationsInit, PaymentsTypeInv, PaymentsTypeOK,
     ReservationsTypeOK, TaskRemembers, NoTask, TaskSteps
<1>3. BookingInv /\ [PaymentsNext]_allVars => BookingInv'
  BY PaymentsTypeStep, ReservationStepBooked, PaymentStepBooked, OtherStepBooked
  DEF BookingInv, PaymentsNext
<1>4. QED
  BY <1>1, <1>2, <1>3, PTL DEF PaymentsSpec, BookingInv

----------------------------------------------------------------------------
(***************************************************************************)
(* The theorems.                                                           *)
(***************************************************************************)

\* One request at a time: no two rides are made from one reservation, even when a
\* conversion ends before it links the two.
THEOREM SerialConvertedOnce == OneTask => (PaymentsSpec => []ConvertedOnce)
<1>1. BookingInv => ConvertedOnce
  BY DEF BookingInv, Booked
<1>2. QED
  BY <1>1, BookingInvariant, PTL

\* One request at a time: only a payment that succeeded is refunded, and its fee
\* is known, whatever the clean-up does meanwhile.
THEOREM SerialRefundsPaidPayments == OneTask => (PaymentsSpec => RefundsPaidPayments)
<1> DEFINE A == \A p \in Payments : payStatus[p] # "REFUNDED" /\ payStatus'[p] = "REFUNDED"
                   => payStatus[p] = "SUCCEEDED" /\ fee[p]
<1>1. BookingInv /\ [PaymentsNext]_allVars => [A]_allVars
  <2> SUFFICES ASSUME BookingInv, PaymentsNext, NEW p \in Payments,
                      payStatus[p] # "REFUNDED", payStatus'[p] = "REFUNDED"
               PROVE  payStatus[p] = "SUCCEEDED" /\ fee[p]
    OBVIOUS
  <2>1. payStatus \in [Payments -> PaymentStatus \cup {"NONE"}]
    BY DEF BookingInv, PaymentsTypeInv, PaymentsTypeOK
  <2>2. PICK t \in Tasks : PaymentStep(t)
    BY <2>1 DEF PaymentsNext, CleanupPendingPayments, payVars
  <2>3. RefundCommit(t)
    BY <2>1, <2>2 DEF PaymentStep, CreatePaymentRead, SucceedBegin, MarkAsFailed, ProcessRead, RefundRead,
       CreatePaymentCommit, SucceedCommit, ProcessCommit, payVars
  <2>4. task[t].pay = p
    BY <2>1, <2>3 DEF RefundCommit
  <2>5. QED
    BY <2>3, <2>4 DEF RefundCommit, BookingInv, FreshTask, Booked
<1>2. QED
  BY <1>1, BookingInvariant, PTL DEF PaymentsSpec, RefundsPaidPayments

\* A conversion under way still has to link its reservation to its ride.
Linked ==
    \A b \in Reservations : resStatus[b] = "FULFILLED" =>
        resRide[b] # NoOne \/ \E t \in Tasks : Doing(t, "link") /\ task[t].res = b

\* One request at a time and none crashes: a FULFILLED reservation points to the
\* one ride made from it once its conversion has ended.
THEOREM SerialFulfilledIsLinked == OneTask /\ ~Crashes => (PaymentsSpec => []FulfilledIsLinked)
<1> SUFFICES ASSUME OneTask, ~Crashes PROVE PaymentsSpec => []FulfilledIsLinked
  OBVIOUS
<1>1. PaymentsInit => Linked
  BY DEF PaymentsInit, ReservationsInit, Linked
<1>2. BookingInv /\ Linked /\ [PaymentsNext]_allVars => Linked'
  <2> SUFFICES ASSUME BookingInv, Linked, [PaymentsNext]_allVars PROVE Linked'
    OBVIOUS
  <2> USE DEF Linked, Doing, resVars, payVars
  <2>0. RowsTypeOK /\ task \in [Tasks -> TaskType] /\ TaskRemembers
    BY DEF BookingInv, PaymentsTypeInv, PaymentsTypeOK, ReservationsTypeOK, RowsTypeOK, TaskType
  <2>1. CASE UNCHANGED <<resStatus, resRide, task>>
    BY <2>1
  <2>2. ASSUME NEW t \in Tasks, task[t].step # "link", UNCHANGED resRide,
               \A b \in Reservations : resStatus'[b] = "FULFILLED" => resStatus[b] = "FULFILLED"
        PROVE  Linked'
    BY <2>2 DEF OneTask
  <2>3. ASSUME NEW t \in Tasks, ReservationStep(t) PROVE Linked'
    <3>1. ASSUME NEW r \in Rides, ConvertCommit(t, r) PROVE Linked'
      <4>1. /\ task'[t].step = "link" /\ task'[t].res = task[t].res
            /\ \A b \in Reservations \ {task[t].res} : resStatus'[b] = resStatus[b]
            /\ UNCHANGED resRide /\ task[t].step = "convert"
        BY <2>0, <3>1 DEF ConvertCommit, GoOn, RowsTypeOK
      <4>2. QED
        BY <4>1 DEF OneTask
    <3>2. CASE ConvertLink(t)
      <4>1. /\ task[t].res \in Reservations /\ task[t].ride \in Rides
            /\ resRide' = [resRide EXCEPT ![task[t].res] = task[t].ride]
            /\ UNCHANGED resStatus
        BY <2>0, <3>2 DEF ConvertLink, TaskRemembers
      <4>2. QED
        BY <2>0, <4>1, ReservationsAssumption, RidesAssumption DEF OneTask, RowsTypeOK
    <3>3. CASE Crash(t)
      BY <3>3 DEF Crash
    <3>4. QED
      BY <2>0, <2>2, <2>3, <3>1, <3>2, <3>3
      DEF ReservationStep, CreateReservation, ConfirmRead, CancelReservationRead, ConvertRead,
          ConfirmCommit, CancelReservationCommit, IsFree, NoTask, RowsTypeOK
  <2>4. ASSUME NEW t \in Tasks, PaymentStep(t) PROVE Linked'
    BY <2>0, <2>2, <2>4
    DEF PaymentStep, CreatePaymentRead, SucceedBegin, MarkAsFailed, HandlePaymentFailure,
        ProcessRead, RefundRead, CreatePaymentCommit, SucceedCommit, ProcessCommit, RefundCommit,
        IsFree, NoTask, RowsTypeOK
  <2>5. QED
    BY <2>1, <2>3, <2>4 DEF PaymentsNext, CoreStep, CleanupPendingPayments, allVars
<1>3. BookingInv /\ ConversionsMatch /\ Linked => FulfilledIsLinked
  <2> SUFFICES ASSUME BookingInv, ConversionsMatch, Linked, NEW b \in Reservations,
                      resStatus[b] = "FULFILLED", \A t \in Tasks : ~Doing(t, "link")
               PROVE  {r \in Rides : madeFrom[r] = b} = {resRide[b]}
    BY DEF FulfilledIsLinked
  <2>1. resRide[b] # NoOne /\ resRide[b] \in Rides \cup {NoOne} /\ b # NoOne
    BY ReservationsAssumption
    DEF Linked, BookingInv, PaymentsTypeInv, PaymentsTypeOK, ReservationsTypeOK
  <2>2. resRide[b] \in Rides /\ madeFrom[resRide[b]] = b
    BY <2>1 DEF ConversionsMatch
  <2>3. \A r \in Rides : madeFrom[r] = b => r = resRide[b]
    BY <2>1, <2>2 DEF BookingInv, Booked, ConvertedOnce
  <2>4. QED
    BY <2>2, <2>3
<1>4. QED
  BY <1>1, <1>2, <1>3, BookingInvariant, PaymentsConversionsMatch, PTL DEF PaymentsSpec

----------------------------------------------------------------------------
(***************************************************************************)
(* Payments implements Booking.                                            *)
(***************************************************************************)
Made == [b \in Reservations |-> {r \in Rides : madeFrom[r] = b}]

\* A step that changes at most the status of one reservation, which exists and has
\* a row when it is canceled.
LEMMA BookingMove ==
    ASSUME BookingInv, NEW b \in Reservations, UNCHANGED madeFrom,
           \/ UNCHANGED resStatus
           \/ /\ resStatus[b] # "NONE"
              /\ resStatus' = [resStatus EXCEPT ![b] = "CANCELED"]
           \/ /\ resStatus[b] = "PENDING"
              /\ resStatus' = [resStatus EXCEPT ![b] = "CONFIRMED"]
           \/ /\ resStatus[b] = "NONE"
              /\ resStatus' = [resStatus EXCEPT ![b] = "PENDING"]
    PROVE  B!Next \/ UNCHANGED <<resStatus, Made>>
<1>1. resStatus \in [Reservations -> ReservationStatus \cup {"NONE"}]
  BY DEF BookingInv, PaymentsTypeInv, PaymentsTypeOK, ReservationsTypeOK
<1>2. UNCHANGED Made
  BY DEF Made
<1>3. CASE UNCHANGED resStatus
  BY <1>2, <1>3
<1>4. CASE resStatus[b] # "NONE" /\ resStatus' = [resStatus EXCEPT ![b] = "CANCELED"]
  <2>1. CASE resStatus[b] = "CANCELED"
    <3>1. UNCHANGED resStatus
      BY <1>1, <1>4, <2>1
    <3>2. QED
      BY <1>2, <3>1
  <2>2. CASE resStatus[b] # "CANCELED"
    <3>1. B!Cancel(b)
      BY <1>1, <1>2, <1>4, <2>2 DEF B!Cancel, B!Move, ReservationStatus, Made
    <3>2. QED
      BY <3>1 DEF B!Next
  <2>3. QED
    BY <2>1, <2>2
<1>5. CASE resStatus[b] = "PENDING" /\ resStatus' = [resStatus EXCEPT ![b] = "CONFIRMED"]
  <2>1. B!Confirm(b)
    BY <1>2, <1>5 DEF B!Confirm, B!Move, Made
  <2>2. QED
    BY <2>1 DEF B!Next
<1>6. CASE resStatus[b] = "NONE" /\ resStatus' = [resStatus EXCEPT ![b] = "PENDING"]
  <2>1. B!Book(b)
    BY <1>2, <1>6 DEF B!Book, B!Move, Made
  <2>2. QED
    BY <2>1 DEF B!Next
<1>7. QED
  BY <1>3, <1>4, <1>5, <1>6

LEMMA BookingConvert ==
    ASSUME BookingInv, NEW t \in Tasks, NEW r \in Rides, ConvertCommit(t, r),
           rideStatus[r] = "NONE" => madeFrom[r] = NoOne
    PROVE  B!Next
<1>1. PICK b \in Reservations : b = task[t].res
  BY DEF ConvertCommit, Doing, BookingInv, PaymentsTypeInv, TaskRemembers
<1>2. resStatus[b] \in {"PENDING", "CONFIRMED"} /\ \A s \in Rides : madeFrom[s] # b
  BY <1>1 DEF ConvertCommit, Doing, BookingInv, Booked, FreshTask
<1>3. /\ madeFrom \in [Rides -> Reservations \cup {NoOne}]
      /\ madeFrom[r] = NoOne
      /\ madeFrom' = [madeFrom EXCEPT ![r] = b]
      /\ resStatus' = [resStatus EXCEPT ![b] = "FULFILLED"]
  BY <1>1 DEF ConvertCommit, NewRide, BookingInv, PaymentsTypeInv, PaymentsTypeOK,
              ReservationsTypeOK
<1>4. Made' = [Made EXCEPT ![b] = {r}]
  BY <1>2, <1>3, ReservationsAssumption DEF Made
<1>5. Made[b] = {} /\ \A c \in Reservations : r \notin Made[c]
  BY <1>2, <1>3, ReservationsAssumption DEF Made
<1>6. B!Convert(b, r)
  BY <1>2, <1>3, <1>4, <1>5 DEF B!Convert, B!Move, Made
<1>7. QED
  BY <1>6 DEF B!Next

LEMMA BookingStep ==
    ASSUME BookingInv, ConversionsMatch, [PaymentsNext]_allVars
    PROVE  B!Next \/ UNCHANGED <<resStatus, Made>>
<1> DEFINE Goal == B!Next \/ UNCHANGED <<resStatus, Made>>
<1> USE DEF resVars, payVars
<1>1. CASE UNCHANGED <<resStatus, madeFrom>>
  BY <1>1 DEF Made
<1>2. ASSUME NEW t \in Tasks, ReservationStep(t) PROVE Goal
  <2>1. ASSUME NEW b \in Reservations, CreateReservation(t, b) PROVE Goal
    BY <2>1, BookingMove DEF CreateReservation
  <2>2. CASE ConfirmCommit(t)
    <3>1. task[t].res \in Reservations /\ resStatus[task[t].res] = "PENDING"
      BY <2>2 DEF ConfirmCommit, Doing, BookingInv, FreshTask, PaymentsTypeInv, TaskRemembers
    <3>2. QED
      BY <2>2, <3>1, BookingMove DEF ConfirmCommit
  <2>3. CASE CancelReservationCommit(t)
    <3>1. task[t].res \in Reservations /\ resStatus[task[t].res] \in {"PENDING", "CONFIRMED"}
      BY <2>3 DEF CancelReservationCommit, Doing, BookingInv, FreshTask, PaymentsTypeInv,
                  TaskRemembers
    <3>2. QED
      BY <2>3, <3>1, BookingMove DEF CancelReservationCommit
  <2>4. ASSUME NEW r \in Rides, ConvertCommit(t, r) PROVE Goal
    <3>1. rideStatus[r] = "NONE" => madeFrom[r] = NoOne
      BY DEF ConversionsMatch
    <3>2. QED
      BY <2>4, <3>1, BookingConvert
  <2>5. QED
    BY <1>1, <1>2, <2>1, <2>2, <2>3, <2>4
    DEF ReservationStep, ConfirmRead, CancelReservationRead, ConvertRead, ConvertLink, Crash
<1>3. ASSUME NEW t \in Tasks, PaymentStep(t) PROVE Goal
  <2>1. CASE SucceedCommit(t)
    <3>1. \/ task[t].res = NoOne
          \/ task[t].res \in Reservations /\ resStatus[task[t].res] = "PENDING"
      BY <2>1 DEF SucceedCommit, Doing, BookingInv, FreshTask, PaymentsTypeInv, PaymentsTypeOK,
                  ReservationsTypeOK
    <3>2. QED
      BY <1>1, <2>1, <3>1, BookingMove DEF SucceedCommit
  <2>2. ASSUME NEW p \in Payments, MarkAsFailed(t, p) PROVE Goal
    <3>1. \/ payRes[p] = NoOne
          \/ payRes[p] \in Reservations /\ resStatus[payRes[p]] # "NONE"
      BY DEF BookingInv, Booked, PaymentsTypeInv, PaymentsTypeOK
    <3>2. QED
      BY <1>1, <2>2, <3>1, BookingMove DEF MarkAsFailed, HandlePaymentFailure
  <2>3. QED
    BY <1>1, <1>3, <2>1, <2>2
    DEF PaymentStep, CreatePaymentRead, SucceedBegin, ProcessRead, RefundRead,
        CreatePaymentCommit, ProcessCommit, RefundCommit
<1>4. QED
  BY <1>1, <1>2, <1>3 DEF PaymentsNext, CoreStep, CleanupPendingPayments, allVars

\* One request at a time, crashes or not: the tables go through the steps of
\* Booking, book, confirm, convert and cancel, and no others.
THEOREM SerialImplementsBooking == OneTask => (PaymentsSpec => ImplementsBooking)
<1> SUFFICES ASSUME OneTask PROVE PaymentsSpec => ImplementsBooking
  OBVIOUS
<1>1. PaymentsInit => B!Init
  BY ReservationsAssumption DEF PaymentsInit, ReservationsInit, B!Init
<1>2. BookingInv /\ ConversionsMatch /\ [PaymentsNext]_allVars
         => [B!Next]_<<resStatus, [b \in Reservations |-> {r \in Rides : madeFrom[r] = b}]>>
  BY BookingStep DEF Made
<1>3. QED
  BY <1>1, <1>2, BookingInvariant, PaymentsConversionsMatch, PTL
  DEF PaymentsSpec, ImplementsBooking, B!Spec
=============================================================================
