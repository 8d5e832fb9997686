--------------------------- MODULE MCIdempotency ---------------------------
(* Idempotency for TLC. *)
EXTENDS Idempotency, TLC

Perms == Permutations(Requests) \cup Permutations(Payloads)
=============================================================================
