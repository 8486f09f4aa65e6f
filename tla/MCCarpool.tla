----------------------------- MODULE MCCarpool -----------------------------
(***************************************************************************)
(* Instances of Carpool for TLC.                                           *)
(***************************************************************************)
EXTENDS Carpool, TLC

\* Sound for invariants only.
Symmetry == Permutations(Tasks) \cup Permutations(Asks) \cup Permutations(Seats)
               \cup Permutations(Clients)
=============================================================================
