----------------------------- MODULE MCPayments -----------------------------
(***************************************************************************)
(* Instances of Payments for TLC.                                          *)
(***************************************************************************)
EXTENDS Payments, TLC

Symmetry == Permutations(Tasks) \cup Permutations(Rides) \cup Permutations(Payments)
               \cup Permutations(Reservations)
=============================================================================
