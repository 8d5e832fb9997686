------------------------------- MODULE MCSales -------------------------------
(* Sales for TLC; the two cashboxes take different roles, so no symmetry. *)
EXTENDS Sales
=============================================================================
