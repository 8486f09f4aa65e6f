------------------------------- MODULE MCRides -------------------------------
(***************************************************************************)
(* Instances of Rides for TLC.                                             *)
(***************************************************************************)
EXTENDS Rides, TLC

Symmetry == Permutations(Requests) \cup Permutations(Drivers) \cup Permutations(Vehicles)
               \cup Permutations(Rides)

\* The one-request instances check what is promised under these conditions.
ASSUME SerialInstance == Serial => Disciplined
==============================================================================
