----------------------------- MODULE MCListings -----------------------------
(***************************************************************************)
(* Listings for TLC: each list and statistic of the code.  Those of one    *)
(* shape are one question.  Beside it, whose rows they are: the operators  *)
(* of Access over small tables.                                            *)
(***************************************************************************)
EXTENDS Listings

MCQuestions ==
    {GetPendingDocuments, GetExpiringDocuments, GetAllDocuments, FindAllPayments, GetAllUsers,
     GetLogs, FindUserRides, GetNotifications,
     GetDocumentStatistics, GetPaymentStats, GetReservationStats, GetUserStats, GetStatistics,
     GetOverviewStats, GenerateRevenueReport, GenerateUserAnalytics, GetClientMetrics}

-------------------------------------------------------------------------------
A == INSTANCE Access

User(id, role) == [id |-> id, role |-> role, isActive |-> TRUE]
Users == {User("client", "CLIENT"), User("newcomer", "CLIENT"), User("other", "CLIENT"),
          User("driver", "DRIVER"), User("applicant", "DRIVER"), User("admin", "ADMIN")}
\* The newcomer and the applicant have no profile yet.
Clients == {[id |-> c, user |-> c] : c \in {"client", "other"}}
Drivers == {[id |-> "driver", user |-> "driver"], [id |-> "gone", user |-> "gone"]}

SomeRides == [client : {"client", "other"}, driver : {"driver", A!NoDriver}]
SomeReservations == [client : {"client", "other"}, status : {"PENDING", "CONFIRMED"}]
SomeVehicles == [driver : {"driver", "gone"}, plate : {1, 2}]
SomeDocuments == [driver : {"driver"}, type : {1, 2}, status : {"PENDING", "APPROVED"}]
Tables(rides, reservations, vehicles, documents) ==
    [users |-> Users, clients |-> Clients, drivers |-> Drivers, rides |-> rides,
     reservations |-> reservations, vehicles |-> vehicles, documents |-> documents]
HasProfile(db, u) ==
    CASE u.role = "CLIENT" -> A!ClientOf(db, u) # {}
      [] u.role = "DRIVER" -> A!DriverOf(db, u) # {}
      [] OTHER -> TRUE

\* Whoever has the profile of his role is listed the rides that he may open and follow, and
\* no others; without it he is listed all of them, and may open none.
ASSUME ListedRidesOpen ==
    \A rides \in SUBSET SomeRides, u \in Users :
        LET db == Tables(rides, {}, {}, {}) IN
        IF HasProfile(db, u)
        THEN \A r \in rides :
                /\ r \in A!FindUserRides(db, u) <=> A!FindRideById(db, u, r)
                /\ A!FindRideById(db, u, r) <=> A!ValidateRideAccess(db, u, r)
        ELSE /\ A!FindUserRides(db, u) = rides
             /\ \A r \in rides : ~A!FindRideById(db, u, r)

\* Reservations listed are those that may be opened, and vehicles listed may be; what may
\* be changed may be opened.
ASSUME ListedRowsOpen ==
    LET db == Tables({}, SomeReservations, SomeVehicles, {}) IN
    \A u \in Users :
        /\ \A b \in SomeReservations :
              /\ b \in A!FindAllReservations(db, u, {"PENDING", "CONFIRMED"})
                    <=> A!FindReservation(db, u, b)
              /\ A!MayUpdateReservation(db, u, b, 1, 0)
                    => b \in A!FindAllReservations(db, u, {"PENDING"})
        /\ \A v \in SomeVehicles :
              /\ v \in A!FindAllVehicles(db, u) => A!FindVehicle(db, u, v)
              /\ A!UpdateVehicle(db, u, v) <=> v \in A!FindAllVehicles(db, u)

\* Two services that count or show rows of one profile mean the same rows, and who may see
\* a driver's profile may see his earnings.
ASSUME AnswersOfOneAgree ==
    \A rides \in SUBSET SomeRides, documents \in SUBSET SomeDocuments :
        LET db == Tables(rides, SomeReservations, SomeVehicles, documents) IN
        /\ \A p \in Clients : \A u \in A!Validate(db, p.user) :
              /\ A!CheckUserAccess(u, p)
              /\ A!GetClientProfile(db, p).rides = Cardinality(A!FindUserRides(db, u))
              /\ A!GetClientProfile(db, p).reservations =
                    Cardinality(A!FindAllReservations(db, u, {"PENDING", "CONFIRMED"}))
        /\ \A p \in Drivers :
              LET metrics == A!GetDriverMetrics(db, p)
                  profile == A!GetDriverProfile(db, p)
              IN
              /\ MapThenSumSet(LAMBDA s : metrics.documentsStatus[s],
                               DOMAIN metrics.documentsStatus) = profile.documents
              /\ metrics.vehiclesCount = Cardinality(profile.vehicles)
              /\ \A u \in A!Validate(db, p.user) :
                    /\ A!FindAllVehicles(db, u) = profile.vehicles
                    /\ profile.rides = Cardinality(A!FindUserRides(db, u))
              /\ \A u \in Users :
                    A!GetDriverEarnings(db, u, p) <=> A!CheckUserAccess(u, p)

\* A profile is made once, and from then on its owner is listed his own rides only.
ASSUME ProfilesMadeOnce ==
    \A u \in Users :
        LET db == Tables(SomeRides, {}, {}, {})
            once == A!CreateClientProfile(db, u, "new")
        IN
        /\ A!CreateClientProfile(once, u, "newer") = once
        /\ u.role = "CLIENT" => HasProfile(once, u)
        /\ once # db => A!FindUserRides(once, u) = {}

\* The price that a conversion takes over is the quote of the distance that the client gave
\* first, whatever distance he gives later.
ASSUME PriceStays ==
    \A first, second \in 0..3 :
        LET made == [client |-> "client", status |-> "PENDING", scheduledAt |-> 1,
                     estimatedDistance |-> first, estimatedPrice |-> A!Quote(first)]
            updated == A!UpdateReservation(made, 2, second)
        IN  updated.estimatedPrice = A!Quote(updated.estimatedDistance) <=> first = second

================================================================================
