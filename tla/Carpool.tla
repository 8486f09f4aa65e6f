------------------------------- MODULE Carpool -------------------------------
(***************************************************************************)
(* Shared reservations: CarpoolService.                                    *)
(*                                                                         *)
(* A client asks to join a carpool while it has room; an answer accepts or *)
(* rejects the request.  respondToRequest accepts in four writes, none in  *)
(* a transaction: the request, the passenger's row, the count of           *)
(* passengers, and the recalculation of the fares, itself a read and       *)
(* several writes.  The status of the reservation plays no part in it.     *)
(***************************************************************************)
EXTENDS Integers, FiniteSets

CONSTANTS
    Carpools,       \* ids that shared reservations can get
    Asks,           \* ids that rows of carpool_requests can get
    Seats,          \* ids that rows of shared_passengers can get
    Clients,        \* client profiles
    MaxSeats,       \* the most a client may share; the code's limit is 6
    Tasks,          \* requests in progress together
    NoOne           \* NULL

AskStatus == {"PENDING", "ACCEPTED", "REJECTED"}
TaskSteps == {"idle", "join", "seat", "count", "price", "share", "average"}

ASSUME CarpoolAssumption ==
    /\ NoOne \notin Carpools \cup Asks \cup Seats \cup Clients \cup Nat
    /\ MaxSeats \in Nat
    /\ IsFiniteSet(Seats)
    /\ IsFiniteSet(Tasks)

VARIABLES
    \* table reservations, the shared ones
    seats,          \* maxSharedPassengers (NULL: no row yet)
    taken,          \* currentSharedPassengers
    located,        \* the trip has coordinates, and a length, to share its price by
    averaged,       \* sharedPricePerPerson is an average of shares, no longer the estimate
    \* table carpool_requests ("NONE": no row yet)
    askStatus,
    asker, target,
    \* table shared_passengers
    from,           \* the request whose client and trip were copied (NULL: no row)
    fare,           \* fareShare: the request whose trip it pays for (NULL: 0)
    \* history: an acceptance on the carpool was cut off
    cutOff,
    \* the requests in progress: where they are and what they remember
    task

carVars == <<seats, taken, located, averaged>>
askVars == <<askStatus, asker, target>>
seatVars == <<from, fare>>
carpoolVars == <<carVars, askVars, seatVars, cutOff, task>>

NoTask == [step |-> "idle", car |-> NoOne, ask |-> NoOne, client |-> NoOne,
           left |-> {}]

CarpoolTypeOK ==
    /\ seats \in [Carpools -> 0..MaxSeats \cup {NoOne}]
    /\ taken \in [Carpools -> Nat]
    /\ located \in [Carpools -> BOOLEAN]
    /\ averaged \in [Carpools -> BOOLEAN]
    /\ askStatus \in [Asks -> AskStatus \cup {"NONE"}]
    /\ asker \in [Asks -> Clients \cup {NoOne}]
    /\ target \in [Asks -> Carpools \cup {NoOne}]
    /\ from \in [Seats -> Asks \cup {NoOne}]
    /\ fare \in [Seats -> Asks \cup {NoOne}]
    /\ cutOff \in [Carpools -> BOOLEAN]
    /\ task \in [Tasks -> [step : TaskSteps, car : Carpools \cup {NoOne},
                           ask : Asks \cup {NoOne}, client : Clients \cup {NoOne},
                           left : SUBSET Seats]]

CarpoolInit ==
    /\ seats = [b \in Carpools |-> NoOne]
    /\ taken = [b \in Carpools |-> 0]
    /\ located = [b \in Carpools |-> FALSE]
    /\ averaged = [b \in Carpools |-> FALSE]
    /\ askStatus = [a \in Asks |-> "NONE"]
    /\ asker = [a \in Asks |-> NoOne]
    /\ target = [a \in Asks |-> NoOne]
    /\ from = [s \in Seats |-> NoOne]
    /\ fare = [s \in Seats |-> NoOne]
    /\ cutOff = [b \in Carpools |-> FALSE]
    /\ task = [t \in Tasks |-> NoTask]

----------------------------------------------------------------------------
Aboard(b) == {s \in Seats : from[s] # NoOne /\ target[from[s]] = b}

IsFree(t) == task[t] = NoTask
Doing(t, step) == task[t].step = step
EndTask(t) == task' = [task EXCEPT ![t] = NoTask]
Advance(t, step) == task' = [task EXCEPT ![t].step = step]

\* createCarpoolReservation.  One that is not shared has no seats.
CreateCarpool(b) ==
    /\ seats[b] = NoOne
    /\ \E n \in 0..MaxSeats : seats' = [seats EXCEPT ![b] = n]
    /\ \E known \in BOOLEAN : located' = [located EXCEPT ![b] = known]
    /\ UNCHANGED <<taken, averaged, askVars, seatVars, cutOff, task>>

\* joinCarpool: the checks.
JoinRead(t, c, b) ==
    /\ IsFree(t)
    /\ seats[b] # NoOne
    /\ taken[b] < seats[b]
    /\ task' = [task EXCEPT ![t] = [NoTask EXCEPT !.step = "join", !.car = b, !.client = c]]
    /\ UNCHANGED <<carVars, askVars, seatVars, cutOff>>

JoinCommit(t, a) ==
    /\ Doing(t, "join")
    /\ askStatus[a] = "NONE"
    /\ askStatus' = [askStatus EXCEPT ![a] = "PENDING"]
    /\ asker' = [asker EXCEPT ![a] = task[t].client]
    /\ target' = [target EXCEPT ![a] = task[t].car]
    /\ EndTask(t)
    /\ UNCHANGED <<carVars, seatVars, cutOff>>

\* respondToRequest that rejects: one write, whatever the status was.
RejectRequest(a) ==
    /\ askStatus[a] # "NONE"
    /\ askStatus' = [askStatus EXCEPT ![a] = "REJECTED"]
    /\ UNCHANGED <<carVars, asker, target, seatVars, cutOff, task>>

\* (variant) the passenger is taken to be aboard already
AcceptUnseated(t, a) ==
    /\ IsFree(t)
    /\ askStatus[a] # "NONE"
    /\ askStatus' = [askStatus EXCEPT ![a] = "ACCEPTED"]
    /\ task' = [task EXCEPT ![t] = [NoTask EXCEPT !.step = "price", !.car = target[a], !.ask = a]]
    /\ UNCHANGED <<carVars, asker, target, seatVars, cutOff>>

\* respondToRequest that accepts: what it reads of the request never changes.
AcceptRequest(t, a) ==
    /\ IsFree(t)
    /\ askStatus[a] # "NONE"
    /\ askStatus' = [askStatus EXCEPT ![a] = "ACCEPTED"]
    /\ task' = [task EXCEPT ![t] = [NoTask EXCEPT !.step = "seat", !.car = target[a], !.ask = a]]
    /\ UNCHANGED <<carVars, asker, target, seatVars, cutOff>>

AcceptSeat(t, s) ==
    /\ Doing(t, "seat")
    /\ from[s] = NoOne
    /\ from' = [from EXCEPT ![s] = task[t].ask]
    /\ Advance(t, "count")
    /\ UNCHANGED <<carVars, askVars, fare, cutOff>>

\* (variant) the passengers are counted anew
AcceptRecount(t) ==
    LET b == task[t].car
    IN  /\ Doing(t, "count")
        /\ taken' = [taken EXCEPT ![b] = Cardinality(Aboard(b))]
        /\ Advance(t, "price")
        /\ UNCHANGED <<seats, located, averaged, askVars, seatVars, cutOff>>

\* (variant) the fares are left to a later acceptance
AcceptUnpriced(t) ==
    /\ Doing(t, "count")
    /\ taken' = [taken EXCEPT ![task[t].car] = @ + 1]
    /\ EndTask(t)
    /\ UNCHANGED <<seats, located, averaged, askVars, seatVars, cutOff>>

AcceptCount(t) ==
    /\ Doing(t, "count")
    /\ taken' = [taken EXCEPT ![task[t].car] = @ + 1]
    /\ Advance(t, "price")
    /\ UNCHANGED <<seats, located, averaged, askVars, seatVars, cutOff>>

\* The endpoint recalculate-prices, at any time.
Recalculate(t, b) ==
    /\ IsFree(t)
    /\ seats[b] # NoOne
    /\ task' = [task EXCEPT ![t] = [NoTask EXCEPT !.step = "price", !.car = b]]
    /\ UNCHANGED <<carVars, askVars, seatVars, cutOff>>

\* recalculateCarpoolPricesYango: the passengers read are those whose shares it
\* writes.  It refuses a trip without coordinates; of one without length the
\* shares are no numbers and the first write fails.
PriceRead(t) ==
    LET now == Aboard(task[t].car)
    IN  /\ Doing(t, "price")
        /\ IF located[task[t].car] /\ now # {}
           THEN task' = [task EXCEPT ![t].step = "share", ![t].left = now]
           ELSE EndTask(t)
        /\ UNCHANGED <<carVars, askVars, seatVars, cutOff>>

PassengersOf(s) == {u \in Seats : from[u] # NoOne /\ target[from[u]] = target[from[s]]
                                  /\ asker[from[u]] = asker[from[s]]}

\* (variant) the share is written to every passenger
ShareForAll(t, s) ==
    /\ Doing(t, "share")
    /\ s \in task[t].left
    /\ fare' = [u \in Seats |-> IF u \in Aboard(task[t].car) THEN from[s] ELSE fare[u]]
    /\ task' = [task EXCEPT ![t].left = @ \ {s},
                            ![t].step = IF task[t].left = {s} THEN "average" ELSE "share"]
    /\ UNCHANGED <<carVars, askVars, from, cutOff>>

\* (variant) the share is written to the row it was computed of
ShareForRow(t, s) ==
    /\ Doing(t, "share")
    /\ s \in task[t].left
    /\ fare' = [fare EXCEPT ![s] = from[s]]
    /\ task' = [task EXCEPT ![t].left = @ \ {s},
                            ![t].step = IF task[t].left = {s} THEN "average" ELSE "share"]
    /\ UNCHANGED <<carVars, askVars, from, cutOff>>

\* A passenger's share, in no certain order, goes to every row of that client on
\* that carpool.
PriceShare(t, s) ==
    /\ Doing(t, "share")
    /\ s \in task[t].left
    /\ fare' = [u \in Seats |-> IF u \in PassengersOf(s) THEN from[s] ELSE fare[u]]
    /\ task' = [task EXCEPT ![t].left = @ \ {s},
                            ![t].step = IF task[t].left = {s} THEN "average" ELSE "share"]
    /\ UNCHANGED <<carVars, askVars, from, cutOff>>

PriceAverage(t) ==
    /\ Doing(t, "average")
    /\ averaged' = [averaged EXCEPT ![task[t].car] = TRUE]
    /\ EndTask(t)
    /\ UNCHANGED <<seats, taken, located, askVars, seatVars, cutOff>>

\* The process stops or a query fails; what was written stays.
Crash(t) ==
    /\ ~IsFree(t)
    /\ cutOff' = [b \in Carpools |-> cutOff[b] \/ (b = task[t].car /\ task[t].ask # NoOne)]
    /\ EndTask(t)
    /\ UNCHANGED <<carVars, askVars, seatVars>>

\* A request in progress goes on by itself.
Continue(t) ==
    \/ \E a \in Asks : JoinCommit(t, a)
    \/ \E s \in Seats : AcceptSeat(t, s) \/ PriceShare(t, s)
    \/ AcceptCount(t) \/ PriceRead(t) \/ PriceAverage(t)

CarpoolNext ==
    \/ \E b \in Carpools : CreateCarpool(b)
    \/ \E a \in Asks : RejectRequest(a)
    \/ \E t \in Tasks :
          \/ \E c \in Clients, b \in Carpools : JoinRead(t, c, b)
          \/ \E a \in Asks : AcceptRequest(t, a)
          \/ \E b \in Carpools : Recalculate(t, b)
          \/ Continue(t)
          \/ Crash(t)

CarpoolSpec == CarpoolInit /\ [][CarpoolNext]_carpoolVars

\* Node resumes a request once its query is answered.
FairCarpoolSpec == CarpoolSpec /\ \A t \in Tasks : WF_carpoolVars(Continue(t))

----------------------------------------------------------------------------
(* What a carpool is said to be, in three ways *)

Riders(b) == {asker[from[s]] : s \in Aboard(b)}

\* The share of the first of the client's rows that is found; the query names no order.
SharesOf(b, c) == {fare[s] : s \in {u \in Aboard(b) : asker[from[u]] = c}}

\* By the count, to the client who shares his trip; to a passenger, his share, and the other
\* rows, a second one of his own among them.
GetCarpoolPricingSummary(b) ==
    [driver |-> [numberOfPassengers |-> Cardinality(Aboard(b)),
                 availableSeats |-> seats[b] - taken[b]],
     passenger |-> [c \in Riders(b) |-> [myFareShare |-> SharesOf(b, c),
                                        otherPassengersCount |-> Cardinality(Aboard(b)) - 1]]]

\* By the rows.
GetMyCurrentPrice(b) ==
    [driver |-> [currentPassengers |-> Cardinality(Aboard(b)),
                 seatsAvailable |-> seats[b] - Cardinality(Aboard(b))],
     passenger |-> [c \in Riders(b) |-> [myFareShare |-> SharesOf(b, c)]]]

\* Of all rows; the client who shares the trip counts as one.
GetReservationTracking(b) == [totalPassengers |-> 1 + Cardinality(Aboard(b))]

----------------------------------------------------------------------------
(***************************************************************************)
(* However requests interleave, are answered again, and crash.             *)
(***************************************************************************)

Counting(b) == {t \in Tasks : Doing(t, "count") /\ task[t].car = b}

\* The count of passengers (currentSharedPassengers) and the passengers' rows differ
\* by the acceptances between the two writes, and never the other way: the seats a
\* search shows as free are at least those that are.  Only a crash makes a gap that
\* stays.
SeatsCounted ==
    \A b \in Carpools :
        /\ taken[b] + Cardinality(Counting(b)) <= Cardinality(Aboard(b))
        /\ ~cutOff[b] => taken[b] + Cardinality(Counting(b)) = Cardinality(Aboard(b))

\* An ACCEPTED request has its passenger, or the acceptance that wrote it is about to
\* add him, unless one was cut off.  The converse does not hold: the answer may be
\* reversed, and the passenger stays.
AcceptedIsAboard ==
    \A a \in Asks :
        askStatus[a] = "ACCEPTED"
           => \/ \E s \in Seats : from[s] = a
              \/ \E t \in Tasks : Doing(t, "seat") /\ task[t].ask = a
              \/ cutOff[target[a]]

\* A passenger pays a share of a trip of his own on that carpool, and a passenger
\* without a fare is still to get it from an acceptance that has not yet read the
\* passengers or not yet written this one's share, unless an acceptance was cut off.
PricesSettle ==
    \A b \in Carpools : \A s \in Aboard(b) :
        \/ /\ fare[s] # NoOne
           /\ target[fare[s]] = b
           /\ asker[fare[s]] = asker[from[s]]
        \/ /\ fare[s] = NoOne
           /\ \/ cutOff[b] \/ ~located[b]
              \/ \E t \in Tasks :
                    /\ task[t].car = b
                    /\ task[t].ask # NoOne
                    /\ Doing(t, "count") \/ Doing(t, "price") \/ s \in task[t].left

\* The two answers to the client who shares his trip agree on the seats left, and the
\* tracking on the travellers, but for acceptances between two writes and those cut off:
\* then the summary shows too many seats, never too few.  Whichever of his rows is found, a
\* passenger is told one share: once they are priced, all his rows carry the same, that of
\* the row priced last.
ViewsAgree ==
    \A b \in Carpools : seats[b] # NoOne =>
        LET summary == GetCarpoolPricingSummary(b)
            price == GetMyCurrentPrice(b)
        IN
        /\ summary.driver.availableSeats >= price.driver.seatsAvailable
        /\ Counting(b) = {} /\ ~cutOff[b]
              => /\ summary.driver.availableSeats = price.driver.seatsAvailable
                 /\ GetReservationTracking(b).totalPassengers = taken[b] + 1
        /\ \A c \in Riders(b) :
              \A x \in summary.passenger[c].myFareShare, y \in price.passenger[c].myFareShare :
                  x # NoOne /\ y # NoOne => x = y

\* "Demande acceptée et prix recalculés": the fare of every passenger of a carpool
\* with coordinates is eventually set, unless an acceptance was cut off.
SeatGetsFare ==
    \A s \in Seats :
        (\E b \in Carpools : located[b] /\ s \in Aboard(b))
            ~> (fare[s] # NoOne \/ \E b \in Carpools : cutOff[b] /\ s \in Aboard(b))
=============================================================================
