------------------------------ MODULE Payments ------------------------------
(***************************************************************************)
(* Payments of rides and reservations: PaymentsService, the webhooks that  *)
(* report what a processor did, and the ten-minute clean-up, composed with *)
(* reservations and the dispatch core, whose rows they write.              *)
(*                                                                         *)
(* A webhook may come at any time, more than once and in any order; its    *)
(* signature check always answers true.  A payment is written inside a     *)
(* transaction that also reads: the row of the payment is then locked and  *)
(* other writers of it wait.                                               *)
(***************************************************************************)
EXTENDS Reservations

CONSTANT
    OwnWritesVisible    \* whether a query outside a transaction sees the rows the
                        \* transaction has inserted and not committed

PaymentStatus == {"PENDING", "SUCCEEDED", "FAILED", "REFUNDED"}

ASSUME PaymentsAssumption == OwnWritesVisible \in BOOLEAN

VARIABLES
    \* table payments ("NONE": no row yet) and its two link tables
    payStatus,
    fee,            \* processorFee is set
    payRide, payRes

payVars == <<payStatus, fee, payRide, payRes>>
allVars == <<vars, resVars, task, payVars>>

PaymentsTypeOK ==
    /\ TypeOK
    /\ ReservationsTypeOK
    /\ payStatus \in [Payments -> PaymentStatus \cup {"NONE"}]
    /\ fee \in [Payments -> BOOLEAN]
    /\ payRide \in [Payments -> Rides \cup {NoOne}]
    /\ payRes \in [Payments -> Reservations \cup {NoOne}]

PaymentsInit ==
    /\ ReservationsInit
    /\ payStatus = [p \in Payments |-> "NONE"]
    /\ fee = [p \in Payments |-> FALSE]
    /\ payRide = [p \in Payments |-> NoOne]
    /\ payRes = [p \in Payments |-> NoOne]

----------------------------------------------------------------------------
PaymentExists(p) == payStatus[p] # "NONE"
Locked(p) == \E t \in Tasks : Doing(t, "succeed") /\ task[t].pay = p

\* createPayment: it is for a ride or for a reservation (or both) that exists.
CreatePaymentRead(t, p, r, b) ==
    /\ IsFree(t)
    /\ payStatus[p] = "NONE"
    /\ \A u \in Tasks : ~(Doing(u, "create") /\ task[u].pay = p)
    /\ r # NoOne \/ b # NoOne
    /\ r # NoOne => rideStatus[r] # "NONE"
    /\ b # NoOne => resStatus[b] # "NONE"
    /\ GoOn(t, "create", b, r, p)
    /\ UNCHANGED <<vars, resVars, payVars>>

\* The transaction inserts the payment and its links, then reads the payment
\* back with findOne, on another connection: if that does not see the row, it
\* throws and everything is rolled back.
CreatePaymentCommit(t) ==
    LET p == task[t].pay
    IN  /\ Doing(t, "create")
        /\ IF OwnWritesVisible
           THEN /\ payStatus' = [payStatus EXCEPT ![p] = "PENDING"]
                /\ payRide' = [payRide EXCEPT ![p] = task[t].ride]
                /\ payRes' = [payRes EXCEPT ![p] = task[t].res]
           ELSE UNCHANGED <<payStatus, payRide, payRes>>
        /\ EndTask(t)
        /\ UNCHANGED <<vars, resVars, fee>>

\* markAsSucceeded, in its transaction: the payment is written (and so locked)
\* and its reservation read; it is remembered if it is PENDING.
SucceedBegin(t, p) ==
    LET b == payRes[p]
    IN  /\ IsFree(t)
        /\ PaymentExists(p)
        /\ ~Locked(p)
        /\ GoOn(t, "succeed",
                IF b # NoOne /\ resStatus[b] = "PENDING" THEN b ELSE NoOne, NoOne, p)
        /\ UNCHANGED <<vars, resVars, payVars>>

SucceedCommit(t) ==
    LET p == task[t].pay
        b == task[t].res
    IN  /\ Doing(t, "succeed")
        /\ payStatus' = [payStatus EXCEPT ![p] = "SUCCEEDED"]
        /\ fee' = [fee EXCEPT ![p] = TRUE]
        /\ resStatus' = IF b = NoOne THEN resStatus ELSE [resStatus EXCEPT ![b] = "CONFIRMED"]
        /\ EndTask(t)
        /\ UNCHANGED <<vars, resRide, quoted, madeFrom, payRide, payRes>>

\* (variant) the ride is offered again
OfferRideAgain(p) ==
    /\ rideStatus' = IF payRide[p] = NoOne THEN rideStatus
                     ELSE [rideStatus EXCEPT ![payRide[p]] = "REQUESTED"]
    /\ resStatus' = IF payRes[p] = NoOne THEN resStatus
                    ELSE [resStatus EXCEPT ![payRes[p]] = "CANCELED"]

\* handlePaymentFailure: what the payment was for is canceled, whatever its
\* status.
HandlePaymentFailure(p) ==
    /\ rideStatus' = IF payRide[p] = NoOne THEN rideStatus
                     ELSE [rideStatus EXCEPT ![payRide[p]] = "CANCELED"]
    /\ resStatus' = IF payRes[p] = NoOne THEN resStatus
                    ELSE [resStatus EXCEPT ![payRes[p]] = "CANCELED"]

\* markAsFailed: one transaction, which reads nothing that can change.
MarkAsFailed(t, p) ==
    /\ IsFree(t)
    /\ PaymentExists(p)
    /\ ~Locked(p)
    /\ payStatus' = [payStatus EXCEPT ![p] = "FAILED"]
    /\ HandlePaymentFailure(p)
    /\ UNCHANGED <<rideDriver, rideVehicle, startedAt, priced, vehicleVars, driverVars,
                   req, resRide, quoted, madeFrom, task, fee, payRide, payRes>>

ProcessRead(t, p) ==
    /\ IsFree(t)
    /\ payStatus[p] = "PENDING"
    /\ GoOn(t, "process", NoOne, NoOne, p)
    /\ UNCHANGED <<vars, resVars, payVars>>

\* processPayment, the simulated outcome; a failure cancels nothing.
ProcessCommit(t) ==
    LET p == task[t].pay
    IN  /\ Doing(t, "process")
        /\ ~Locked(p)
        /\ \E success \in BOOLEAN :
              /\ payStatus' = [payStatus EXCEPT ![p] = IF success THEN "SUCCEEDED" ELSE "FAILED"]
              /\ fee' = [fee EXCEPT ![p] = success]
        /\ EndTask(t)
        /\ UNCHANGED <<vars, resVars, payRide, payRes>>

\* (variant) any payment can be refunded
RefundAnyStatus(t, p) ==
    /\ IsFree(t)
    /\ PaymentExists(p)
    /\ GoOn(t, "refund", NoOne, NoOne, p)
    /\ UNCHANGED <<vars, resVars, payVars>>

RefundRead(t, p) ==
    /\ IsFree(t)
    /\ payStatus[p] = "SUCCEEDED"
    /\ GoOn(t, "refund", NoOne, NoOne, p)
    /\ UNCHANGED <<vars, resVars, payVars>>

RefundCommit(t) ==
    /\ Doing(t, "refund")
    /\ ~Locked(task[t].pay)
    /\ payStatus' = [payStatus EXCEPT ![task[t].pay] = "REFUNDED"]
    /\ EndTask(t)
    /\ UNCHANGED <<vars, resVars, fee, payRide, payRes>>

\* cleanupPendingPayments, every ten minutes: those of the PENDING payments that
\* are older than thirty minutes.  Nothing else is canceled.
CleanupPendingPayments ==
    \E old \in (SUBSET {p \in Payments : payStatus[p] = "PENDING"}) \ {{}} :
        /\ \A p \in old : ~Locked(p)
        /\ payStatus' = [p \in Payments |-> IF p \in old THEN "FAILED" ELSE payStatus[p]]
        /\ UNCHANGED <<vars, resVars, task, fee, payRide, payRes>>

PaymentStep(t) ==
    \/ \E p \in Payments, r \in Rides \cup {NoOne}, b \in Reservations \cup {NoOne} :
          CreatePaymentRead(t, p, r, b)
    \/ \E p \in Payments :
          SucceedBegin(t, p) \/ MarkAsFailed(t, p) \/ ProcessRead(t, p) \/ RefundRead(t, p)
    \/ CreatePaymentCommit(t) \/ SucceedCommit(t) \/ ProcessCommit(t) \/ RefundCommit(t)

PaymentsNext ==
    \/ \E q \in Requests : CoreStep(q) /\ UNCHANGED payVars
    \/ \E t \in Tasks : ReservationStep(t) /\ UNCHANGED payVars
    \/ \E t \in Tasks : PaymentStep(t)
    \/ CleanupPendingPayments

PaymentsSpec == PaymentsInit /\ [][PaymentsNext]_allVars

----------------------------------------------------------------------------
(***************************************************************************)
(* What holds however the requests interleave, crash, and come again.      *)
(***************************************************************************)

\* However conversions, confirmations, webhooks and crashes interleave: the ride a
\* reservation points to was made from that reservation, so that no two share one;
\* a reservation that has one never looks PENDING; a FULFILLED one has a ride, even
\* when the link is missing; and every ride made has its reservation's price.
ConversionsMatch ==
    /\ \A b \in Reservations :
          /\ resRide[b] # NoOne => madeFrom[resRide[b]] = b /\ resStatus[b] # "PENDING"
          /\ resStatus[b] = "FULFILLED" => \E r \in Rides : madeFrom[r] = b
    /\ \A r \in Rides : madeFrom[r] # NoOne =>
          rideStatus[r] # "NONE" /\ priced[r] = quoted[madeFrom[r]]

(***************************************************************************)
(* What holds when requests on reservations and payments run one after     *)
(* the other (the dispatch handlers and the clean-up run at any time).     *)
(***************************************************************************)
OneTask == \A t, u \in Tasks : t = u

\* Short of a crash, a FULFILLED reservation whose conversion has ended is
\* linked to the one ride that was made from it.
FulfilledIsLinked ==
    \A b \in Reservations :
        resStatus[b] = "FULFILLED" /\ (\A t \in Tasks : ~Doing(t, "link")) =>
            {r \in Rides : madeFrom[r] = b} = {resRide[b]}

\* Only a payment that succeeded is refunded, and the processor's fee is known:
\* neither the clean-up nor a repeated webhook comes between.
RefundsPaidPayments ==
    [][\A p \in Payments : payStatus[p] # "REFUNDED" /\ payStatus'[p] = "REFUNDED"
          => payStatus[p] = "SUCCEEDED" /\ fee[p]]_allVars

\* Reservations and payments implement Booking: a reservation becomes at most
\* one ride and CANCELED is final, also when a conversion crashes.
B == INSTANCE Booking WITH
        status <- resStatus,
        made <- [b \in Reservations |-> {r \in Rides : madeFrom[r] = b}]
ImplementsBooking == B!Spec

\* convertToRide refuses a reservation that "a déjà été convertie en course": no
\* two rides are made from one reservation, as long as requests do not overlap.
ConvertedOnce ==
    \A r, s \in Rides : madeFrom[r] = madeFrom[s] /\ madeFrom[r] # NoOne => r = s
=============================================================================
