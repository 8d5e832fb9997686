--------------------------- MODULE MCReservations ---------------------------
(* Reservations for TLC. *)
EXTENDS Reservations, TLC

Perms == Permutations(Reservations) \cup Permutations(Reservable)
           \cup Permutations(Requests)
=============================================================================
