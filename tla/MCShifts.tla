------------------------------ MODULE MCShifts ------------------------------
(* Shifts for TLC. *)
EXTENDS Shifts, TLC

Perms == Permutations(Shifts) \cup Permutations(Requests)
=============================================================================
