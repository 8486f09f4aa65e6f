------------------------------ MODULE Dispatch ------------------------------
(***************************************************************************)
(* What the dispatch core promises: a ride is requested, carried by one    *)
(* driver with one vehicle that no other ride is using, and ends either    *)
(* COMPLETED, counted once for that driver if the ride has a fare, or      *)
(* CANCELED; both are final.                                               *)
(* A driver may leave the platform at any time.                            *)
(***************************************************************************)
EXTENDS Naturals

CONSTANTS Rides, Drivers, Vehicles, NoOne

VARIABLES
    rideStatus, rideDriver,
    priced,     \* the ride has a fare
    using,      \* the vehicle a ride under way is using
    paid        \* paid[d][r]: how often ride r was counted for driver d

dispatchVars == <<rideStatus, rideDriver, priced, using, paid>>

Init ==
    /\ rideStatus = [r \in Rides |-> "NONE"]
    /\ rideDriver = [r \in Rides |-> NoOne]
    /\ priced = [r \in Rides |-> FALSE]
    /\ using = [r \in Rides |-> NoOne]
    /\ paid = [d \in Drivers |-> [r \in Rides |-> 0]]

Request(r) ==
    /\ rideStatus[r] = "NONE"
    /\ rideStatus' = [rideStatus EXCEPT ![r] = "REQUESTED"]
    /\ \E fareKnown \in BOOLEAN : priced' = [priced EXCEPT ![r] = fareKnown]
    /\ UNCHANGED <<rideDriver, using, paid>>

Assign(r, d, v) ==
    /\ rideStatus[r] = "REQUESTED"
    /\ \A s \in Rides : using[s] # v
    /\ rideStatus' = [rideStatus EXCEPT ![r] = "ACCEPTED"]
    /\ rideDriver' = [rideDriver EXCEPT ![r] = d]
    /\ using' = [using EXCEPT ![r] = v]
    /\ UNCHANGED <<priced, paid>>

Depart(r) ==
    /\ rideStatus[r] = "ACCEPTED"
    /\ rideStatus' = [rideStatus EXCEPT ![r] = "IN_PROGRESS"]
    /\ UNCHANGED <<rideDriver, priced, using, paid>>

\* Only a ride that still has its driver can arrive.
Arrive(r, d) ==
    /\ rideStatus[r] = "IN_PROGRESS"
    /\ rideDriver[r] = d
    /\ rideStatus' = [rideStatus EXCEPT ![r] = "COMPLETED"]
    /\ using' = [using EXCEPT ![r] = NoOne]
    /\ paid' = IF priced[r] THEN [paid EXCEPT ![d][r] = @ + 1] ELSE paid
    /\ UNCHANGED <<rideDriver, priced>>

Cancel(r) ==
    /\ rideStatus[r] \in {"REQUESTED", "ACCEPTED", "IN_PROGRESS"}
    /\ rideStatus' = [rideStatus EXCEPT ![r] = "CANCELED"]
    /\ using' = [using EXCEPT ![r] = NoOne]
    /\ UNCHANGED <<rideDriver, priced, paid>>

Leave(d) ==
    /\ rideDriver' = [r \in Rides |-> IF rideDriver[r] = d THEN NoOne ELSE rideDriver[r]]
    /\ using' = [r \in Rides |-> IF rideDriver[r] = d THEN NoOne ELSE using[r]]
    /\ UNCHANGED <<rideStatus, priced, paid>>

Next ==
    \/ \E r \in Rides : Request(r) \/ Depart(r) \/ Cancel(r)
    \/ \E r \in Rides, d \in Drivers : Arrive(r, d)
    \/ \E r \in Rides, d \in Drivers, v \in Vehicles : Assign(r, d, v)
    \/ \E d \in Drivers : Leave(d)

Spec == Init /\ [][Next]_dispatchVars
=============================================================================
