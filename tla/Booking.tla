------------------------------ MODULE Booking ------------------------------
(***************************************************************************)
(* What a reservation promises: it may be confirmed, becomes at most one   *)
(* ride, and once CANCELED it stays so.  A reservation that became a ride  *)
(* may still be canceled: a payment may fail late.                         *)
(***************************************************************************)
CONSTANTS Reservations, Rides

VARIABLES
    status,
    made        \* the rides made from a reservation

Init ==
    /\ status = [b \in Reservations |-> "NONE"]
    /\ made = [b \in Reservations |-> {}]

Move(b, from, to) ==
    /\ status[b] \in from
    /\ status' = [status EXCEPT ![b] = to]

Book(b) == Move(b, {"NONE"}, "PENDING") /\ UNCHANGED made
Confirm(b) == Move(b, {"PENDING"}, "CONFIRMED") /\ UNCHANGED made
Cancel(b) == Move(b, {"PENDING", "CONFIRMED", "FULFILLED"}, "CANCELED") /\ UNCHANGED made

Convert(b, r) ==
    /\ Move(b, {"PENDING", "CONFIRMED"}, "FULFILLED")
    /\ made[b] = {}
    /\ \A c \in Reservations : r \notin made[c]
    /\ made' = [made EXCEPT ![b] = {r}]

Next ==
    \E b \in Reservations :
        \/ Book(b) \/ Confirm(b) \/ Cancel(b)
        \/ \E r \in Rides : Convert(b, r)

Spec == Init /\ [][Next]_<<status, made>>
=============================================================================
