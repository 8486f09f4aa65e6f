------------------------------ MODULE Tracking ------------------------------
(***************************************************************************)
(* Tracking: where drivers are, and what the others are told of it.        *)
(*                                                                         *)
(* A driver's app posts positions one after another and does not wait;     *)
(* each post looks the driver up and then writes his only row of           *)
(* driver_locations, so posts may write in another order than they came.   *)
(* Two questions read the rows: the drivers nearby, and where the driver   *)
(* of one ride is.                                                         *)
(*                                                                         *)
(* Positions are known by their age only: whether a later one had been     *)
(* stored before.  The point that a post adds to ride_tracking_points is   *)
(* left out: its INSERT names a column that no migration makes, and the    *)
(* error is caught.  So are the events, which nobody listens to.           *)
(***************************************************************************)
EXTENDS Naturals, FiniteSets, SequencesExt

CONSTANTS
    Drivers,
    Posting,        \* bound: the drivers whose apps post; the posts of two drivers meet in nothing
    MaxUnderWay,    \* bound: posts in progress together
    NoOne           \* NULL

ASSUME TrackingAssumption ==
    /\ NoOne \notin Drivers
    /\ Posting \subseteq Drivers
    /\ MaxUnderWay \in Nat

VARIABLES
    driver,         \* driver_profiles.status, from his first approval on; "GONE": his user
                    \* was deleted
    location,       \* table driver_locations, one row for a driver at most
    posts,          \* the posts in progress that found their driver APPROVED, in the order
                    \* in which they did: whether a later one has written since
    ride,           \* one ride of the table rides: its status and driver
    asked,          \* what the request for the ride's tracking has read of it
    \* history
    been,           \* the statuses of the ride, short of its end, that a handler may have read
    overlapped,     \* posts of the driver were in progress together since one that wrote alone
    wentOffline,    \* a request to go offline has succeeded
    moved           \* the ride has changed since it was read for tracking

trackingVars == <<driver, location, posts, ride, asked, been, overlapped, wentOffline, moved>>
historyVars == <<been, overlapped, wentOffline, moved>>

NoRow == [row |-> FALSE]
Rows == [row : {TRUE}, old : BOOLEAN, isOnline : BOOLEAN, isAvailable : BOOLEAN, recent : BOOLEAN]
Ended == {"COMPLETED", "CANCELED"}
RideStates == [status : {"REQUESTED", "ACCEPTED", "IN_PROGRESS", "COMPLETED", "CANCELED"},
               driver : Drivers \cup {NoOne}]
Answers == [of : Drivers \cup {NoOne}, eta : {"pickup", "destination", "nowhere"}]
Nothing == [of |-> NoOne, eta |-> "none"]

TrackingTypeOK ==
    /\ driver \in [Drivers -> {"APPROVED", "SUSPENDED", "GONE"}]
    /\ location \in [Drivers -> Rows \cup {NoRow}]
    /\ \A d \in Drivers : driver[d] = "GONE" => location[d] = NoRow
    /\ posts \in [Drivers -> BoundedSeq(BOOLEAN, MaxUnderWay)]
    /\ ride \in RideStates
    /\ asked \in Answers \cup {Nothing}
    /\ been \subseteq {"REQUESTED", "ACCEPTED", "IN_PROGRESS"}
    /\ ride.status \in been \cup Ended
    /\ overlapped \in [Drivers -> BOOLEAN]
    /\ wentOffline \in [Drivers -> BOOLEAN]
    /\ moved \in BOOLEAN

TrackingInit ==
    /\ driver = [d \in Drivers |-> "APPROVED"]
    /\ location = [d \in Drivers |-> NoRow]
    /\ posts = [d \in Drivers |-> << >>]
    /\ ride = [status |-> "REQUESTED", driver |-> NoOne]
    /\ asked = Nothing
    /\ been = {"REQUESTED"}
    /\ overlapped = [d \in Drivers |-> FALSE]
    /\ wentOffline = [d \in Drivers |-> FALSE]
    /\ moved = FALSE

-------------------------------------------------------------------------------
(* updateDriverLocation *)

UnderWay == UNION {{<<d, i>> : i \in DOMAIN posts[d]} : d \in Drivers}

PostBegins(d) ==
    /\ d \in Posting
    /\ driver[d] = "APPROVED"
    /\ Cardinality(UnderWay) < MaxUnderWay
    /\ posts' = [posts EXCEPT ![d] = Append(@, FALSE)]
    /\ overlapped' = [overlapped EXCEPT ![d] = @ \/ posts[d] # << >>]
    /\ UNCHANGED <<driver, location, ride, asked, been, wentOffline, moved>>

\* (variant) whoever posts is available again
UpsertAvailable(d, old) ==
    [row |-> TRUE, old |-> old, isOnline |-> TRUE, isAvailable |-> TRUE, recent |-> TRUE]

\* The row's isAvailable is written when the row is made and never by a later post.
Upsert(d, old) ==
    [row |-> TRUE, old |-> old, isOnline |-> TRUE, recent |-> TRUE,
     isAvailable |-> IF location[d].row THEN location[d].isAvailable ELSE TRUE]

\* Post i of the driver writes, whatever has become of him; without a profile to refer to
\* the insert is refused.  The reads that follow change nothing.
PostWrites(d, i) ==
    LET others == RemoveAt(posts[d], i)
        \* those before i are older, and now late
        late == [j \in DOMAIN others |-> others[j] \/ j < i]
        old == posts[d][i]
    IN
    /\ driver[d] # "GONE"
    /\ location' = [location EXCEPT ![d] = Upsert(d, old)]
    /\ posts' = [posts EXCEPT ![d] = late]
    /\ overlapped' = [overlapped EXCEPT ![d] = old \/ others # << >>]
    /\ UNCHANGED <<driver, ride, asked, been, wentOffline, moved>>

\* A query of it fails before it has written.
PostFails(d, i) ==
    /\ posts' = [posts EXCEPT ![d] = RemoveAt(posts[d], i)]
    /\ UNCHANGED <<driver, location, ride, asked, historyVars>>

\* markDriverOffline: one update of the row, an error if there is none.
MarkDriverOffline(d) ==
    /\ location[d].row
    /\ location' = [location EXCEPT ![d].isOnline = FALSE, ![d].isAvailable = FALSE]
    /\ wentOffline' = [wentOffline EXCEPT ![d] = TRUE]
    /\ UNCHANGED <<driver, posts, ride, asked, been, overlapped, moved>>

-------------------------------------------------------------------------------
(* The questions *)

\* (variant) however old the row is
NearbyEver(d) ==
    location[d].row /\ location[d].isOnline /\ location[d].isAvailable

\* findNearbyDrivers: whose rows it takes.  Which of them are near is in Geography.
Nearby(d) ==
    /\ location[d].row
    /\ location[d].isOnline
    /\ location[d].isAvailable
    /\ location[d].recent

\* getRideTracking counts the minutes to where the driver is going.
Towards(r) ==
    CASE r.status = "ACCEPTED" -> "pickup"
      [] r.status = "IN_PROGRESS" -> "destination"
      [] OTHER -> "nowhere"

AsRead(r) == [of |-> r.driver, eta |-> IF r.driver = NoOne THEN "nowhere" ELSE Towards(r)]

\* validateRideAccess reads the ride; its driver's row is read later, the ride not again.
TrackingReads ==
    /\ asked = Nothing
    /\ asked' = AsRead(ride)
    /\ UNCHANGED <<driver, location, posts, ride, historyVars>>

\* What getRideTracking answers, were it to read the row now.
GetRideTracking ==
    LET d == asked.of
        located == d # NoOne /\ location[d].row
    IN [of |-> d, eta |-> IF located THEN asked.eta ELSE "nowhere"]

TrackingAnswers ==
    /\ asked # Nothing
    /\ asked' = Nothing
    /\ moved' = FALSE
    /\ UNCHANGED <<driver, location, posts, ride, been, overlapped, wentOffline>>

-------------------------------------------------------------------------------
(* What others do, told in full in Rides, Payments and Accounts.  A handler asks for the   *)
(* ride's status in one query and updates the ride by its id in another: what it has read  *)
(* may be long past when it writes.                                                        *)

RideMoves(status, d) ==
    /\ ride' = [status |-> status, driver |-> d]
    /\ been' = been \cup ({status} \ Ended)
    /\ moved' = (asked # Nothing)
    /\ UNCHANGED <<driver, location, posts, asked, overlapped, wentOffline>>

\* Two drivers may accept a ride: the later one replaces the other.  Who has lost his
\* approval since it was read still accepts; without his profile the update is refused.
AcceptRide(d) ==
    /\ driver[d] \in {"APPROVED", "SUSPENDED"}
    /\ "REQUESTED" \in been
    /\ RideMoves("ACCEPTED", d)

StartRide == "ACCEPTED" \in been /\ RideMoves("IN_PROGRESS", ride.driver)
CompleteRide == "IN_PROGRESS" \in been /\ RideMoves("COMPLETED", ride.driver)

\* Read in any status short of the end, a ride in progress among them.
CancelRide == been # {} /\ RideMoves("CANCELED", ride.driver)

\* handlePaymentFailure looks at no status.
PaymentFails == RideMoves("CANCELED", ride.driver)

\* Approval, rejection, suspension.
UpdateDriverStatus(d, status) ==
    /\ driver[d] # "GONE"
    /\ driver' = [driver EXCEPT ![d] = status]
    /\ UNCHANGED <<location, posts, ride, asked, historyVars>>

\* (variant) the row stays
DeleteUserKeepsRow(d) ==
    /\ driver[d] # "GONE"
    /\ driver' = [driver EXCEPT ![d] = "GONE"]
    /\ UNCHANGED <<location, posts, ride, asked, historyVars>>

\* The profile and its row go with the user; the ride stays, without a driver.
DeleteUser(d) ==
    /\ driver[d] # "GONE"
    /\ driver' = [driver EXCEPT ![d] = "GONE"]
    /\ location' = [location EXCEPT ![d] = NoRow]
    /\ IF ride.driver = d
       THEN ride' = [ride EXCEPT !.driver = NoOne] /\ moved' = (asked # Nothing)
       ELSE UNCHANGED <<ride, moved>>
    /\ UNCHANGED <<posts, asked, been, overlapped, wentOffline>>

\* Five minutes after its lastPing.
PingAges(d) ==
    /\ location[d].row /\ location[d].recent
    /\ location' = [location EXCEPT ![d].recent = FALSE]
    /\ UNCHANGED <<driver, posts, ride, asked, historyVars>>

PostEnds(d) == \E i \in DOMAIN posts[d] : PostWrites(d, i) \/ PostFails(d, i)

TrackingNext ==
    \/ \E d \in Drivers :
          \/ PostBegins(d)
          \/ \E i \in DOMAIN posts[d] : PostWrites(d, i) \/ PostFails(d, i)
          \/ MarkDriverOffline(d)
          \/ AcceptRide(d)
          \/ \E status \in {"APPROVED", "SUSPENDED"} : UpdateDriverStatus(d, status)
          \/ DeleteUser(d)
          \/ PingAges(d)
    \/ TrackingReads \/ TrackingAnswers
    \/ StartRide \/ CompleteRide \/ CancelRide \/ PaymentFails

TrackingSpec == TrackingInit /\ [][TrackingNext]_trackingVars

\* Requests end, and time passes.
FairTrackingSpec ==
    /\ TrackingSpec
    /\ \A d \in Drivers : WF_trackingVars(PostEnds(d)) /\ WF_trackingVars(PingAges(d))

-------------------------------------------------------------------------------
(* Properties *)

\* The row holds the driver's last position stored, unless posts of his were in progress
\* together: then it may hold one from before, until a post that is alone.  Once he went
\* offline nobody finds him nearby again, whatever posts were in progress and however
\* often he posts: isOnline comes back and isAvailable never does.  Who is told of a
\* driver that the ride no longer has, or of the minutes to a place he is no longer going
\* to, asked while the ride changed.
PositionsExplained ==
    /\ \A d \in Drivers : location[d].row /\ location[d].old => overlapped[d]
    /\ \A d \in Drivers : wentOffline[d] => ~Nearby(d)
    /\ asked # Nothing /\ ~moved =>
          /\ GetRideTracking.of = ride.driver
          /\ GetRideTracking.eta \in {Towards(ride), "nowhere"}

\* A driver who loses his approval for good is not found nearby for good: the posts that
\* had read it still write, and their pings age.
PositionsFade ==
    \A d \in Drivers :
        <>[](driver[d] # "APPROVED") => <>[](~Nearby(d))

================================================================================
